------------------------- MODULE CachedFeedsProofs -------------------------
(***************************************************************************)
(* The feed handler over a cache that keeps CacheContract implements       *)
(* HandlerCache, for any number of readers, paths and fetches, any         *)
(* lifetime, lag and bounds; what is proved of HandlerCache then holds of  *)
(* the two together.                                                       *)
(***************************************************************************)
EXTENDS CachedFeeds, TLAPS

(* What is proved of HandlerCache, with the entries taken from the cache.  *)
Proved == INSTANCE HandlerCacheProofs WITH stored <- Stored

(* A request has a feed in hand from its fetch until Set has returned.     *)
InHand(q) == q.at \in {"returned", "store"} /\ q.obj # 0

Promise == [key : Path, due : Nat]
CacheOK ==
  /\ written \in Seq(Promise) /\ fed \in Seq(Nat)
  /\ Len(fed) = Len(written)

(* Every feed object is stored by at most one Set, that of the request     *)
(* that fetched it.                                                        *)
OwnFeeds ==
  /\ \A v \in DOMAIN fed : fed[v] \in DOMAIN heap
  /\ \A v, w \in DOMAIN fed : fed[v] = fed[w] => v = w
  /\ \A r, s \in Reader : InHand(req[r]) /\ InHand(req[s]) /\ req[r].obj = req[s].obj => r = s
  /\ \A r \in Reader, v \in DOMAIN fed :
       InHand(req[r]) /\ fed[v] = req[r].obj =>
         req[r].at = "store" /\ written[v].key = req[r].url.path

(* The constants are such as HandlerCache assumes them. *)
FeedAssumption == Handler!HandlerAssumption

FeedInv == FeedAssumption /\ Proved!HandlerInv /\ CacheOK /\ OwnFeeds

LEMMA Assumed == FeedAssumption => Proved!HandlerAssumption
BY DEF FeedAssumption, Handler!HandlerAssumption, Proved!HandlerAssumption

LEMMA TheHandler ==
  /\ Handler!Init = Proved!Init
  /\ [Handler!Next]_(Handler!vars) = [Proved!Next]_(Proved!vars)
BY DEF Handler!Next, Proved!Next, Handler!Arrive, Proved!Arrive, Handler!Handle,
       Proved!Handle, Handler!Miss, Proved!Miss, Handler!Hit, Proved!Hit,
       Handler!Fetch, Proved!Fetch, Handler!FetchError, Proved!FetchError,
       Handler!FetchNil, Proved!FetchNil, Handler!Store, Proved!Store,
       Handler!StoreOn, Proved!StoreOn, Handler!SkipStore, Proved!SkipStore,
       Handler!ShouldCache, Proved!ShouldCache, Handler!Recover,
       Proved!Recover, Handler!Processed, Proved!Processed, Handler!Process,
       Proved!Process, Handler!Unmodified, Proved!Unmodified,
       Handler!Respond, Proved!Respond, Handler!RespondNotModified,
       Proved!RespondNotModified, Handler!SerializeError,
       Proved!SerializeError, Handler!SiteChanges, Proved!SiteChanges,
       Handler!Working, Proved!Working, Handler!Tick, Proved!Tick,
       Handler!Finish, Proved!Finish, Handler!MayBeConditional,
       Proved!MayBeConditional, Handler!Asking, Proved!Asking, Handler!Idle,
       Proved!Idle, Handler!AnyUrl, Proved!AnyUrl, Handler!BodyOf,
       Proved!BodyOf, Handler!NoBody, Proved!NoBody, Handler!Url,
       Proved!Url, Handler!vars, Proved!vars, Handler!NothingHeld,
       Proved!NothingHeld, Handler!Init, Proved!Init

LEMMA HandlerKept ==
  ASSUME FeedAssumption, Proved!HandlerInv, [Handler!Next]_(Handler!vars)
  PROVE  Proved!HandlerInv'
BY Assumed, TheHandler, Proved!NextKeeps

LEMMA Typed ==
  ASSUME Proved!HandlerInv
  PROVE  /\ now \in Nat /\ DOMAIN heap = 1 .. Len(heap) /\ Len(heap) \in Nat
         /\ req \in [Reader -> Proved!Request]
         /\ \A f : DOMAIN Append(heap, f) = DOMAIN heap \cup {Len(heap) + 1}
         /\ \A r \in Reader : InHand(req[r]) => req[r].obj \in DOMAIN heap
<1>1. now \in Nat /\ heap \in Seq(Proved!Feed) /\ req \in [Reader -> Proved!Request]
  BY DEF Proved!HandlerInv, Proved!TypeOK
<1>2. ASSUME NEW r \in Reader, InHand(req[r]) PROVE req[r].obj \in DOMAIN heap
  BY <1>2 DEF Proved!HandlerInv, Proved!RequestsOK, Proved!RequestOK, InHand
<1> QED
  BY <1>1, <1>2

LEMMA CacheTyped ==
  ASSUME CacheOK
  PROVE  /\ DOMAIN fed = DOMAIN written /\ DOMAIN written = 1 .. Len(written)
         /\ Len(written) \in Nat
         /\ \A v \in DOMAIN written :
              /\ written[v] \in Promise /\ fed[v] \in Nat
              /\ written[v].key \in Path /\ written[v].due \in Nat
<1>1. DOMAIN fed = DOMAIN written /\ DOMAIN written = 1 .. Len(written) /\ Len(written) \in Nat
  BY DEF CacheOK
<1>2. ASSUME NEW v \in DOMAIN written PROVE written[v] \in Promise /\ fed[v] \in Nat
  <2>1. v \in DOMAIN fed
    BY <1>1
  <2> QED
    BY <2>1 DEF CacheOK
<1> QED
  BY <1>1, <1>2 DEF Promise

-----------------------------------------------------------------------------
(* What a call to the cache does to the entries that may answer.           *)
Entry(v) == [path |-> written[v].key, obj |-> fed[v], exp |-> written[v].due]
Live(v)  == now <= written[v].due + MaxLag

LEMMA StoredIs == \A e : e \in Stored <=> \E v \in DOMAIN written : Live(v) /\ e = Entry(v)
BY DEF Stored, Entry, Live

LEMMA SetAdds ==
  ASSUME FeedInv, NEW r \in Reader, SetFeed(r)
  PROVE  /\ CacheOK' /\ UNCHANGED now
         /\ Stored' = Stored \cup {[path |-> req[r].url.path, obj |-> req[r].obj, exp |-> now + TTL]}
<1> DEFINE k == req[r].url.path
<1>1. /\ CacheOK /\ now \in Nat /\ req[r] \in Proved!Request
      /\ TTL \in Nat /\ MaxLag \in Nat
  BY Typed DEF FeedInv, FeedAssumption, Handler!HandlerAssumption
<1>2. req[r].obj \in Nat /\ k \in Path
  BY <1>1 DEF Proved!Request, Proved!Url
<1>3. /\ written' = Append(written, [key |-> k, due |-> now + TTL])
      /\ fed' = Append(fed, req[r].obj) /\ now' = now
  BY DEF SetFeed, Cache!Set
<1>4. [key |-> k, due |-> now + TTL] \in Promise
  BY <1>1, <1>2 DEF Promise
<1>5. CacheOK'
  BY <1>1, <1>2, <1>3, <1>4 DEF CacheOK
<1>6. PICK n \in Nat : n = Len(written) + 1
  BY <1>1, CacheTyped
<1>7. /\ DOMAIN written' = DOMAIN written \cup {n}
      /\ \A v \in DOMAIN written : written'[v] = written[v] /\ fed'[v] = fed[v]
      /\ written'[n] = [key |-> k, due |-> now + TTL] /\ fed'[n] = req[r].obj
  BY <1>1, <1>2, <1>3, <1>4, <1>6 DEF CacheOK
<1>8. \A v \in DOMAIN written : Live(v)' = Live(v) /\ Entry(v)' = Entry(v)
  BY <1>3, <1>7 DEF Live, Entry
<1>9. Live(n)' /\ Entry(n)' = [path |-> k, obj |-> req[r].obj, exp |-> now + TTL]
  <2>1. written'[n].due = now + TTL /\ written'[n].key = k /\ now + TTL + MaxLag >= now
    BY <1>1, <1>7
  <2> QED
    BY <1>1, <1>3, <1>7, <2>1 DEF Live, Entry
<1>10. \A e : e \in Stored' <=> \E v \in DOMAIN written' : Live(v)' /\ e = Entry(v)'
  BY StoredIs DEF Stored, Entry, Live
<1>11. \A e : e \in Stored' <=> \/ \E v \in DOMAIN written : Live(v) /\ e = Entry(v)
                               \/ e = [path |-> k, obj |-> req[r].obj, exp |-> now + TTL]
  BY <1>7, <1>8, <1>9, <1>10
<1> QED
  BY <1>3, <1>5, <1>11, StoredIs

LEMMA ProlongMoves ==
  ASSUME FeedInv, NEW r \in Reader, NEW v \in DOMAIN written, SetGoesOn(r, v)
  PROVE  /\ CacheOK' /\ UNCHANGED now /\ DOMAIN written' = DOMAIN written
         /\ \A w \in DOMAIN written : written'[w].key = written[w].key
         /\ Stored' = {e \in Stored : e.obj # req[r].obj} \cup
              {[path |-> req[r].url.path, obj |-> req[r].obj, exp |-> now + TTL]}
<1>1. /\ CacheOK /\ OwnFeeds /\ now \in Nat /\ req[r] \in Proved!Request
      /\ TTL \in Nat /\ MaxLag \in Nat
  BY Typed DEF FeedInv, FeedAssumption, Handler!HandlerAssumption
<1>2. /\ written' = [written EXCEPT ![v].due = now + TTL] /\ now' = now /\ fed' = fed
      /\ fed[v] = req[r].obj /\ req[r].at = "store"
  BY DEF SetGoesOn, Cache!Prolong
<1>3. DOMAIN fed = DOMAIN written /\ written[v] \in Promise
  BY <1>1, CacheTyped
<1>4. /\ DOMAIN written' = DOMAIN written
      /\ written'[v] = [key |-> written[v].key, due |-> now + TTL]
      /\ \A w \in DOMAIN written \ {v} : written'[w] = written[w]
  BY <1>1, <1>2, <1>3 DEF CacheOK, Promise
<1>5. CacheOK'
  <2>1. \A w \in DOMAIN written : written'[w] \in Promise
    BY <1>1, <1>3, <1>4, CacheTyped DEF Promise
  <2> QED
    BY <1>1, <1>2, <1>3, <1>4, <2>1 DEF CacheOK
<1>6. req[r].obj # 0
  BY <1>2 DEF FeedInv, Proved!HandlerInv, Proved!RequestsOK, Proved!RequestOK
<1>7. written[v].key = req[r].url.path
  BY <1>1, <1>2, <1>3, <1>6 DEF OwnFeeds, InHand
<1>8. \A w \in DOMAIN written \ {v} : fed[w] # req[r].obj
  BY <1>1, <1>2, <1>3 DEF OwnFeeds
<1>9. \A w \in DOMAIN written \ {v} : Live(w)' = Live(w) /\ Entry(w)' = Entry(w) /\ Entry(w).obj # req[r].obj
  BY <1>2, <1>4, <1>8 DEF Live, Entry
<1>10. /\ Live(v)' /\ Entry(v)' = [path |-> req[r].url.path, obj |-> req[r].obj, exp |-> now + TTL]
       /\ Entry(v).obj = req[r].obj
  BY <1>1, <1>2, <1>4, <1>7 DEF Live, Entry
<1>11. \A e : e \in Stored' <=> \E w \in DOMAIN written' : Live(w)' /\ e = Entry(w)'
  BY StoredIs DEF Stored, Entry, Live
<1>12. \A e : e \in Stored' <=>
               \/ \E w \in DOMAIN written \ {v} : Live(w) /\ e = Entry(w)
               \/ e = [path |-> req[r].url.path, obj |-> req[r].obj, exp |-> now + TTL]
  BY <1>4, <1>9, <1>10, <1>11
<1>13. \A e : e \in Stored /\ e.obj # req[r].obj <=>
               \E w \in DOMAIN written \ {v} : Live(w) /\ e = Entry(w)
  BY <1>9, <1>10, StoredIs
<1>14. \A w \in DOMAIN written : written'[w].key = written[w].key
  BY <1>4
<1> QED
  BY <1>2, <1>4, <1>5, <1>12, <1>13, <1>14

LEMMA TickDrops ==
  ASSUME FeedInv, now' = now + 1, UNCHANGED <<written, fed>>
  PROVE  Stored' = {e \in Stored : now < e.exp + MaxLag}
<1>1. CacheOK /\ now \in Nat /\ MaxLag \in Nat
  BY Typed DEF FeedInv, FeedAssumption, Handler!HandlerAssumption
<1>2. \A e : e \in Stored' <=> \E w \in DOMAIN written : Live(w)' /\ e = Entry(w)
  BY DEF Stored, Entry, Live
<1>3. ASSUME NEW w \in DOMAIN written
      PROVE  Live(w)' <=> Live(w) /\ now < Entry(w).exp + MaxLag
  <2>1. written[w].due \in Nat
    BY <1>1, CacheTyped
  <2> QED
    BY <1>1, <2>1 DEF Live, Entry
<1> QED
  BY <1>2, <1>3, StoredIs

-----------------------------------------------------------------------------
(* Each step, with what the cache does, is a step of the handler's module. *)
LEMMA HitIsHit ==
  ASSUME FeedInv, NEW r \in Reader, NEW u \in Handler!Url, NEW cond \in BOOLEAN,
         NEW v \in DOMAIN written, GetHit(r, u, cond, v)
  PROVE  Handler!Next
<1>1. written[v].key = u.path /\ Live(v) /\ now' = now /\ written' = written /\ fed' = fed
  BY DEF GetHit, Cache!Respond, Cache!Trustworthy, Live
<1>2. Entry(v) \in Stored /\ Stored' = Stored
  BY <1>1, StoredIs DEF Stored
<1>3. Handler!Hit(r, u, cond, Entry(v))
  BY <1>1, <1>2 DEF GetHit, Handler!Hit, Entry, Live
<1> QED
  BY <1>2, <1>3 DEF Handler!Next, Handler!Arrive

LEMMA StepsMap ==
  ASSUME FeedInv, [FeedNext]_feedVars
  PROVE  [Handler!Next]_(Handler!vars)
<1>1. UNCHANGED <<now, written, fed>> => UNCHANGED Stored
  BY DEF Stored
<1>2. ASSUME NEW r \in Reader, NEW u \in Handler!Url, NEW cond \in BOOLEAN,
             NEW bypass \in BypassModes, GetMiss(r, u, cond, bypass)
      PROVE  Handler!Next
  BY <1>2 DEF GetMiss, Handler!Next, Handler!Arrive
<1>3. ASSUME NEW r \in Reader, SetFeed(r) PROVE Handler!Next
  <2>1. Handler!Store(r)
    BY <1>3, SetAdds DEF SetFeed, Handler!Store
  <2> QED
    BY <2>1 DEF Handler!Next, Handler!Handle
<1>4. ASSUME NEW r \in Reader, NEW v \in DOMAIN written, SetGoesOn(r, v) PROVE Handler!Next
  <2>1. Handler!StoreOn(r)
    BY <1>4, ProlongMoves DEF SetGoesOn, handlerVars, Handler!StoreOn
  <2> QED
    BY <2>1 DEF Handler!Next
<1>5. ASSUME NEW r \in Reader, Alone(r) PROVE Handler!Next
  BY <1>5 DEF Alone, Handler!Next, Handler!Handle
<1>6. CASE CacheSuffers
  BY <1>1, <1>6 DEF CacheSuffers, handlerVars, Handler!vars
<1>7. CASE SitesChange
  BY <1>7 DEF SitesChange, Handler!Next
<1>8. CASE TimePasses
  <2>1. Handler!Tick
    BY <1>8, TickDrops DEF TimePasses, Cache!Tick, handlerVars, Handler!Tick
  <2> QED
    BY <2>1 DEF Handler!Next
<1>9. CASE UNCHANGED feedVars
  BY <1>1, <1>9 DEF feedVars, handlerVars, cacheVars, Handler!vars
<1> QED
  BY <1>2, <1>3, <1>4, <1>5, <1>6, <1>7, <1>8, <1>9, HitIsHit DEF FeedNext

-----------------------------------------------------------------------------
(* A feed stays with the request that fetched it until its Set is over.    *)
LEMMA Released ==
  ASSUME FeedInv, UNCHANGED fed, DOMAIN heap \subseteq DOMAIN heap',
         \A v \in DOMAIN fed : written'[v].key = written[v].key,
         \A r \in Reader : req'[r] = req[r] \/ ~InHand(req'[r])
  PROVE  OwnFeeds'
BY DEF FeedInv, OwnFeeds, InHand

LEMMA FetchOwns ==
  ASSUME FeedInv, NEW r \in Reader, Handler!Fetch(r), UNCHANGED <<written, fed>>
  PROVE  OwnFeeds'
<1>1. OwnFeeds /\ Len(heap) \in Nat /\ DOMAIN heap = 1 .. Len(heap)
      /\ req \in [Reader -> Proved!Request]
      /\ \A s \in Reader : InHand(req[s]) => req[s].obj \in DOMAIN heap
      /\ \A f : DOMAIN Append(heap, f) = DOMAIN heap \cup {Len(heap) + 1}
  BY Typed DEF FeedInv
<1>2. PICK n \in Nat : n = Len(heap) + 1 /\ n \notin DOMAIN heap
  BY <1>1
<1>3. DOMAIN heap' = DOMAIN heap \cup {n}
  BY <1>1, <1>2 DEF Handler!Fetch
<1>4. /\ req'[r].at = "returned" /\ req'[r].obj = n
      /\ \A s \in Reader \ {r} : req'[s] = req[s]
  <2>1. req[r] \in Proved!Request
    BY <1>1
  <2>2. /\ DOMAIN req = Reader
        /\ req' = [req EXCEPT ![r].at = "returned", ![r].obj = n, ![r].since = now]
    BY <1>1, <1>2 DEF Handler!Fetch
  <2> QED
    BY <2>1, <2>2 DEF Proved!Request
<1>5. \A s \in Reader \ {r} : InHand(req[s]) => req[s].obj # n
  BY <1>1, <1>2
<1>6. \A v \in DOMAIN fed : fed[v] # n
  BY <1>1, <1>2 DEF OwnFeeds
<1> QED
  BY <1>1, <1>2, <1>3, <1>4, <1>5, <1>6 DEF OwnFeeds, InHand

LEMMA SetOwns == ASSUME FeedInv, NEW r \in Reader, SetFeed(r) PROVE OwnFeeds'
<1>1. /\ OwnFeeds /\ CacheOK /\ req \in [Reader -> Proved!Request]
      /\ \A s \in Reader : InHand(req[s]) => req[s].obj \in DOMAIN heap
  BY Typed DEF FeedInv
<1>2. /\ req[r].at = "returned" /\ InHand(req[r]) /\ heap' = heap
      /\ written' = Append(written, [key |-> req[r].url.path, due |-> now + TTL])
      /\ fed' = Append(fed, req[r].obj)
      /\ req' = [req EXCEPT ![r].at = "store"]
  BY DEF SetFeed, Handler!ShouldCache, InHand, Cache!Set
<1>3. DOMAIN fed = DOMAIN written /\ DOMAIN written = 1 .. Len(written) /\ Len(written) \in Nat
      /\ Len(fed) = Len(written)
  BY <1>1, CacheTyped DEF CacheOK
<1>4. PICK n \in Nat : n = Len(written) + 1 /\ n \notin DOMAIN fed
  BY <1>3
<1>5. CacheOK'
  BY SetAdds
<1>6. /\ DOMAIN fed' = DOMAIN fed \cup {n} /\ fed'[n] = req[r].obj
      /\ written'[n].key = req[r].url.path
      /\ \A v \in DOMAIN fed : fed'[v] = fed[v] /\ written'[v] = written[v]
  BY <1>1, <1>2, <1>3, <1>4, <1>5 DEF CacheOK
<1>7. /\ req'[r].at = "store" /\ req'[r].obj = req[r].obj /\ req'[r].url = req[r].url
      /\ \A s \in Reader \ {r} : req'[s] = req[s]
  <2>1. req[r] \in Proved!Request
    BY <1>1
  <2> QED
    BY <1>1, <1>2, <2>1 DEF Proved!Request
<1>8. \A v \in DOMAIN fed : fed[v] # req[r].obj
  BY <1>1, <1>2 DEF OwnFeeds
<1>9. InHand(req'[r])
  BY <1>2, <1>7 DEF InHand
<1>10. \A s \in Reader : InHand(req'[s]) => InHand(req[s]) /\ req'[s].obj = req[s].obj
                          /\ req'[s].url = req[s].url
  BY <1>2, <1>7
<1>11. \A v \in DOMAIN fed' : fed'[v] \in DOMAIN heap'
  BY <1>1, <1>2, <1>6 DEF OwnFeeds
<1>12. \A v, w \in DOMAIN fed' : fed'[v] = fed'[w] => v = w
  BY <1>1, <1>6, <1>8 DEF OwnFeeds
<1>13. \A s, t \in Reader :
         InHand(req'[s]) /\ InHand(req'[t]) /\ req'[s].obj = req'[t].obj => s = t
  BY <1>1, <1>10 DEF OwnFeeds
<1>14. ASSUME NEW s \in Reader, NEW v \in DOMAIN fed', InHand(req'[s]), fed'[v] = req'[s].obj
       PROVE  req'[s].at = "store" /\ written'[v].key = req'[s].url.path
  <2>1. CASE s = r
    BY <1>6, <1>7, <1>8, <1>14, <2>1
  <2>2. CASE s # r
    <3>1. req'[s] = req[s] /\ InHand(req[s]) /\ req[s].obj # req[r].obj
      BY <1>1, <1>2, <1>7, <1>14, <2>2 DEF OwnFeeds
    <3>2. v \in DOMAIN fed
      BY <1>6, <1>14, <3>1
    <3> QED
      BY <1>1, <1>6, <1>14, <3>1, <3>2 DEF OwnFeeds
  <2> QED
    BY <2>1, <2>2
<1> QED
  BY <1>11, <1>12, <1>13, <1>14 DEF OwnFeeds, InHand

(* What a request does alone, other than fetching, gives it no feed.       *)
LEMMA AloneOwns ==
  ASSUME FeedInv, NEW r \in Reader, Alone(r), ~Handler!Fetch(r)
  PROVE  OwnFeeds'
<1>1. req \in [Reader -> Proved!Request] /\ req[r] \in Proved!Request
  BY Typed DEF FeedInv
<1>2. UNCHANGED <<written, fed, heap>>
  BY DEF Alone, cacheVars, Handler!FetchError, Handler!FetchNil, Handler!SkipStore,
         Handler!Recover, Handler!Process, Handler!Respond,
         Handler!RespondNotModified, Handler!SerializeError
<1>3. ~InHand(req'[r]) /\ \A s \in Reader \ {r} : req'[s] = req[s]
  <2>1. CASE Handler!FetchNil(r)
    BY <1>1, <2>1 DEF Handler!FetchNil, InHand, Proved!Request
  <2>2. CASE Handler!SkipStore(r)
    BY <1>1, <2>2 DEF Handler!SkipStore, InHand, Proved!Request
  <2>3. CASE Handler!Process(r)
    BY <1>1, <2>3 DEF Handler!Process, InHand, Proved!Request
  <2>4. CASE Handler!Finish(r)
    BY <1>1, <2>4 DEF Handler!Finish, Handler!Idle, Handler!Asking, InHand
  <2> QED
    BY <2>1, <2>2, <2>3, <2>4
    DEF Alone, Handler!FetchError, Handler!Recover, Handler!Respond,
        Handler!RespondNotModified, Handler!SerializeError
<1> QED
  BY <1>2, <1>3, Released

LEMMA FeedNextKeeps == FeedInv /\ [FeedNext]_feedVars => FeedInv'
<1> SUFFICES ASSUME FeedInv, [FeedNext]_feedVars PROVE FeedInv'
  OBVIOUS
<1>0. FeedAssumption /\ FeedAssumption'
  BY DEF FeedInv, FeedAssumption, Handler!HandlerAssumption
<1>1. Proved!HandlerInv'
  BY HandlerKept, StepsMap DEF FeedInv
<1>2. req \in [Reader -> Proved!Request] /\ CacheOK /\ OwnFeeds
  BY Typed DEF FeedInv
<1>3. UNCHANGED <<written, fed>> => CacheOK'
  BY <1>2 DEF CacheOK
<1>4. ASSUME UNCHANGED <<written, fed, heap, req>> PROVE OwnFeeds'
  BY <1>2, <1>4 DEF OwnFeeds
<1>5. ASSUME NEW r \in Reader, UNCHANGED <<written, fed, heap>>,
             NEW q, ~InHand(q), req' = [req EXCEPT ![r] = q]
      PROVE  OwnFeeds'
  BY <1>2, <1>5, Released
<1>6. ASSUME NEW r \in Reader, NEW u \in Handler!Url, NEW cond \in BOOLEAN,
             NEW v \in DOMAIN written, GetHit(r, u, cond, v)
      PROVE  CacheOK' /\ OwnFeeds'
  <2>1. ~InHand(Handler!Asking("process", u, cond, FALSE, fed[v], now))
    BY DEF Handler!Asking, InHand
  <2> QED
    BY <1>3, <1>5, <1>6, <2>1 DEF GetHit, Cache!Respond
<1>7. ASSUME NEW r \in Reader, NEW u \in Handler!Url, NEW cond \in BOOLEAN,
             NEW bypass \in BypassModes, GetMiss(r, u, cond, bypass)
      PROVE  CacheOK' /\ OwnFeeds'
  <2>1. ~InHand(Handler!Asking("fetch", u, cond, bypass, 0, 0))
    BY DEF Handler!Asking, InHand
  <2> QED
    BY <1>3, <1>5, <1>7, <2>1 DEF GetMiss, Cache!Miss, Handler!Miss
<1>8. ASSUME NEW r \in Reader, SetFeed(r) PROVE CacheOK' /\ OwnFeeds'
  BY <1>8, SetAdds, SetOwns
<1>9. ASSUME NEW r \in Reader, NEW v \in DOMAIN written, SetGoesOn(r, v)
      PROVE  CacheOK' /\ OwnFeeds'
  <2>1. DOMAIN fed = DOMAIN written
    BY <1>2, CacheTyped
  <2> QED
    BY <1>9, <2>1, ProlongMoves, Released DEF SetGoesOn, handlerVars
<1>10. ASSUME NEW r \in Reader, Alone(r) PROVE CacheOK' /\ OwnFeeds'
  BY <1>3, <1>10, FetchOwns, AloneOwns DEF Alone, cacheVars
<1>11. CacheSuffers => CacheOK' /\ OwnFeeds'
  BY <1>3, <1>4 DEF CacheSuffers, handlerVars
<1>12. SitesChange => CacheOK' /\ OwnFeeds'
  BY <1>3, <1>4 DEF SitesChange, cacheVars, Handler!SiteChanges
<1>13. TimePasses => CacheOK' /\ OwnFeeds'
  BY <1>3, <1>4 DEF TimePasses, Cache!Tick, handlerVars
<1>14. UNCHANGED feedVars => CacheOK' /\ OwnFeeds'
  BY <1>3, <1>4 DEF feedVars, cacheVars, handlerVars
<1> QED
  BY <1>0, <1>1, <1>6, <1>7, <1>8, <1>9, <1>10, <1>11, <1>12, <1>13, <1>14 DEF FeedInv, FeedNext

LEMMA StartsMap == FeedAssumption /\ FeedInit => Handler!Init /\ FeedInv
<1> SUFFICES ASSUME FeedAssumption, FeedInit PROVE Handler!Init /\ FeedInv
  OBVIOUS
<1>1. now = 0 /\ written = <<>> /\ fed = <<>> /\ heap = <<>>
  BY DEF FeedInit, Cache!Init
<1>2. Stored = {}
  BY <1>1 DEF Stored
<1>3. Handler!Init
  BY <1>1, <1>2 DEF FeedInit, Handler!Init
<1>4. Proved!HandlerInv
  BY <1>3, Assumed, TheHandler, Proved!InitKeeps
<1>5. \A r \in Reader : ~InHand(req[r])
  BY DEF FeedInit, Handler!Idle, Handler!Asking, InHand
<1>6. CacheOK /\ OwnFeeds
  BY <1>1, <1>5 DEF CacheOK, OwnFeeds
<1> QED
  BY <1>3, <1>4, <1>6 DEF FeedInv

(* The inductive invariant: the handler's own, and that each fetched feed  *)
(* is stored by one Set only - without it, the Set that goes on could move *)
(* the promise of another.                                                 *)
THEOREM FeedInvariance == FeedAssumption /\ FeedSpec => []FeedInv
BY StartsMap, FeedNextKeeps, PTL DEF FeedSpec

(* The handler over a cache that keeps CacheContract implements            *)
(* HandlerCache, whose cache is a set of entries that may answer.          *)
THEOREM ContractSuffices == FeedAssumption /\ FeedSpec => HandlerImplemented
BY FeedInvariance, StartsMap, StepsMap, PTL DEF FeedSpec, HandlerImplemented, Handler!Spec

(* So what is proved of HandlerCache holds of the handler over any such    *)
(* cache: readers get recent answers ...                                   *)
THEOREM FeedsAreRecent == FeedAssumption /\ FeedSpec => []Proved!HeldIsRecent
BY FeedInvariance, PTL DEF FeedInv, Proved!HandlerInv

(* ... to their own query ...                                              *)
THEOREM FeedsFollowOwnQuery == FeedAssumption /\ FeedSpec => []Proved!RepliesFollowOwnQuery
BY FeedInvariance, PTL DEF FeedInv, Proved!HandlerInv

(* ... and every Set that may answer a lookup stored a whole feed of the   *)
(* path it is stored under, and promises no more than the lifetime after   *)
(* the request that fetched it had to be done.                             *)
THEOREM OnlyRawFeedsPromised == FeedAssumption /\ FeedSpec => []Proved!StoredFeedsAreRaw
BY FeedInvariance, PTL DEF FeedInv, Proved!HandlerInv
=============================================================================
