---------------------------- MODULE CachedFeeds ----------------------------
(***************************************************************************)
(* The feed handler of HandlerCache with a cache that keeps CacheContract: *)
(* instead of a set of entries that may answer, there are the Sets the     *)
(* cache was told of, what each of them promises, and the answers it       *)
(* gives.  BadgerCache keeps the contract, so the promises made to readers *)
(* hold of the two together once a step here is one of HandlerCache.       *)
(***************************************************************************)
EXTENDS Integers, Sequences

CONSTANTS
  Reader, Path, NoStore, Site, BriefModes, BypassModes, EmptyModes, EnableCache,
  TTL, MaxLag, MaxWork, MaxNow, MaxChanges, MaxFetches,   \* as HandlerCache assumes
  Reason                                                   \* as in CacheContract

VARIABLES
  now,                                    \* the clock both read
  changed, heap, req, held, told,         \* the handler, as in HandlerCache
  written, latest, disturbed, answer,     \* the cache, as in CacheContract
  fed                                     \* the feed object that each Set stored

handlerVars == <<changed, heap, req, held, told>>
cacheVars   == <<written, latest, disturbed, answer, fed>>
feedVars    == <<now, handlerVars, cacheVars>>

(* One key per path; a request makes one call to the cache at a time. *)
Cache == INSTANCE CacheContract WITH Key <- Path, Client <- Reader, TTL <- {TTL}

(* The Sets that a lookup may be answered with now. *)
Stored ==
  {[path |-> written[v].key, obj |-> fed[v], exp |-> written[v].due] :
     v \in {w \in DOMAIN written : now <= written[w].due + MaxLag}}

Handler == INSTANCE HandlerCache WITH stored <- Stored

FeedInit ==
  /\ Cache!Init
  /\ changed = <<>> /\ heap = <<>> /\ fed = <<>>
  /\ req = [r \in Reader |-> Handler!Idle]
  /\ held = [r \in Reader |-> Handler!NothingHeld]
  /\ told = [r \in Reader |-> 0]

-----------------------------------------------------------------------------
(* The calls to the cache.                                                 *)

(* Get answers with the feed of some Set that the contract allows. *)
GetHit(r, u, cond, v) ==
  /\ req[r].at = "idle" /\ EnableCache /\ Handler!MayBeConditional(r, u, cond)
  /\ Cache!Respond(r, u.path, v)
  /\ req' = [req EXCEPT ![r] = Handler!Asking("process", u, cond, FALSE, fed[v], now)]
  /\ UNCHANGED <<changed, heap, held, told, fed>>

GetMiss(r, u, cond, bypass) ==
  /\ Cache!Hush(r) /\ Cache!Miss /\ UNCHANGED fed
  /\ Handler!Miss(r, u, cond, bypass)

SetFeed(r) ==
  /\ req[r].at = "returned" /\ Handler!ShouldCache(r)
  /\ Cache!Set(r, req[r].url.path, TTL)
  /\ fed' = Append(fed, req[r].obj)
  /\ req' = [req EXCEPT ![r].at = "store"]
  /\ UNCHANGED <<changed, heap, held, told>>

(* The Set in progress promises a later expiry: no other request stores    *)
(* the feed that this one fetched.                                         *)
SetGoesOn(r, v) ==
  /\ req[r].at = "store" /\ fed[v] = req[r].obj
  /\ Cache!Prolong(v, TTL)
  /\ UNCHANGED <<handlerVars, fed>>

(* Races, failed writes and restarts in the cache come unasked. *)
CacheSuffers ==
  /\ UNCHANGED <<now, handlerVars, written, latest, answer, fed>>
  /\ Cache!MistrustGrows({})

(* What a request does by itself, and what the sites do.                   *)
Alone(r) ==
  /\ UNCHANGED cacheVars
  /\ \/ Handler!Fetch(r) \/ Handler!FetchError(r) \/ Handler!FetchNil(r)
     \/ Handler!SkipStore(r) \/ Handler!Recover(r) \/ Handler!Process(r)
     \/ Handler!Respond(r) \/ Handler!RespondNotModified(r) \/ Handler!SerializeError(r)

SitesChange == UNCHANGED cacheVars /\ Handler!SiteChanges

TimePasses ==
  /\ now < MaxNow
  /\ \A r \in Reader : Handler!Working(r) => now < req[r].since + MaxWork
  /\ Cache!Tick
  /\ UNCHANGED <<handlerVars, fed>>

FeedNext ==
  \/ \E r \in Reader :
       \/ \E u \in Handler!Url, cond \in BOOLEAN :
            \/ \E v \in DOMAIN written : GetHit(r, u, cond, v)
            \/ \E bypass \in BypassModes : GetMiss(r, u, cond, bypass)
       \/ SetFeed(r) \/ Alone(r)
       \/ \E v \in DOMAIN written : SetGoesOn(r, v)
  \/ CacheSuffers \/ SitesChange \/ TimePasses

FeedSpec == FeedInit /\ [][FeedNext]_feedVars

-----------------------------------------------------------------------------
(* Properties.                                                             *)

(* What HandlerCache takes for granted of the cache is what CacheContract  *)
(* promises: with such a cache each step of the handler is a step of       *)
(* HandlerCache, so what is proved there of readers holds of the two.      *)
HandlerImplemented == Handler!Spec
=============================================================================
