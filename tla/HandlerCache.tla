---------------------------- MODULE HandlerCache ----------------------------
(***************************************************************************)
(* The feed handler of internal/handlercache/handler.go as cmd/server.go   *)
(* mounts it: look the path up in the cache; on a miss run the route's     *)
(* handler and store the raw feed; copy the items, apply the query to the  *)
(* copy, and answer 200, 304 or an error.  Many requests run at once and   *)
(* share the feed objects the cache hands out.                             *)
(*                                                                         *)
(* Of a feed the model keeps which version of the site it shows, for which *)
(* path and which route-level query it was fetched, whether it has items   *)
(* and whether their descriptions are whole.  The cache is what            *)
(* CacheContract promises of a key that is always contended: a lookup may  *)
(* miss, or answer with any Set of the key that is not over for longer     *)
(* than MaxLag.                                                            *)
(***************************************************************************)
EXTENDS Integers, Sequences, FiniteSets

CONSTANTS
  Reader,       \* feed readers; each sends one request at a time
  Path,         \* request paths (after /rss)
  NoStore,      \* the paths shouldBypassPath keeps out of the cache
  Site,         \* the values of the query parameters a route itself reads
  BriefModes,   \* whether readers ask for cut descriptions: some of BOOLEAN
  BypassModes,  \* whether readers send X-Cache-Bypass: some of BOOLEAN
  EmptyModes,   \* whether fetched feeds are empty: some of BOOLEAN
  EnableCache,  \* cfg.GetEnableCache()
  TTL,          \* opts.TTL
  MaxLag,       \* how long past its lifetime the cache may serve an entry
  MaxWork,      \* bound: duration of a request from its feed to the answer
  MaxNow,       \* bound: the clock stops here
  MaxChanges,   \* bound: how often the sites change
  MaxFetches    \* bound: how many fetches succeed

ASSUME HandlerAssumption ==
  /\ Reader # {} /\ Path # {} /\ Site # {} /\ NoStore \subseteq Path
  /\ BriefModes # {} /\ BriefModes \subseteq BOOLEAN /\ EmptyModes \subseteq BOOLEAN
  /\ BypassModes \subseteq BOOLEAN
  /\ EnableCache \in BOOLEAN
  /\ TTL \in Nat /\ MaxLag \in Nat /\ MaxWork \in Nat
  /\ MaxNow \in Nat /\ MaxChanges \in Nat /\ MaxFetches \in Nat

VARIABLES
  now,       \* the wall clock
  changed,   \* when the sites changed; their version is its length
  heap,      \* the feed objects route handlers returned, shared by reference
  stored,    \* the Sets the cache may still answer a lookup with
  req,       \* per reader the request in progress
  held,      \* per reader the last body it was sent, with its URL
  told       \* per reader when it was last told that this body is current

vars == <<now, changed, heap, stored, req, held, told>>

-----------------------------------------------------------------------------
(* path and query of a request: `site' is read by the route's handler,     *)
(* `brief' by ProcessFeed                                                  *)
Url     == [path : Path, site : Site, brief : BriefModes]
Feed    == [path : Path, site : Site, ver : Nat, empty : BOOLEAN,
            whole : BOOLEAN, read : Nat]
Body    == [path : Path, site : Site, ver : Nat, empty : BOOLEAN, whole : BOOLEAN]
Entry   == [path : Path, obj : Nat \ {0}, exp : Nat]
Steps   == {"idle", "fetch", "returned", "panic", "store", "process", "reply"}
Request == [at : Steps, url : Url, cond : BOOLEAN, bypass : BOOLEAN,
            obj : Nat, since : Nat, items : Body]

AnyUrl   == CHOOSE u \in Url : TRUE
BodyOf(f) == [path |-> f.path, site |-> f.site, ver |-> f.ver,
              empty |-> f.empty, whole |-> f.whole]
NoBody   == [path |-> AnyUrl.path, site |-> AnyUrl.site, ver |-> 0,
             empty |-> TRUE, whole |-> TRUE]
Asking(at, u, cond, bypass, obj, since) ==
  [at |-> at, url |-> u, cond |-> cond, bypass |-> bypass,
   obj |-> obj, since |-> since, items |-> NoBody]
Idle     == Asking("idle", AnyUrl, FALSE, FALSE, 0, 0)
NothingHeld == [url |-> AnyUrl, body |-> NoBody, any |-> FALSE]
Holding  == [url : Url, body : Body, any : BOOLEAN]

Init ==
  /\ now = 0 /\ changed = <<>> /\ heap = <<>> /\ stored = {}
  /\ req = [r \in Reader |-> Idle]
  /\ held = [r \in Reader |-> NothingHeld]
  /\ told = [r \in Reader |-> 0]

Finish(r) == req' = [req EXCEPT ![r] = Idle]

(* A reader may send If-None-Match for a URL whose body it holds. *)
MayBeConditional(r, u, cond) == cond => held[r].any /\ held[r].url = u

-----------------------------------------------------------------------------
(* mutant: a hit renews the entry's lifetime *)
Hit_Sliding(r, u, cond, e) ==
  /\ req[r].at = "idle" /\ EnableCache /\ MayBeConditional(r, u, cond)
  /\ e.path = u.path /\ now <= e.exp + MaxLag
  /\ stored' = stored \cup {[e EXCEPT !.exp = now + TTL]}
  /\ req' = [req EXCEPT ![r] = Asking("process", u, cond, FALSE, e.obj, now)]
  /\ UNCHANGED <<now, changed, heap, held, told>>

(* cacheInstance.Get: the key is the path alone, and X-Cache-Bypass does   *)
(* not keep a request from being answered out of the cache                 *)
Hit(r, u, cond, e) ==
  /\ req[r].at = "idle"
  /\ EnableCache
  /\ MayBeConditional(r, u, cond)
  /\ e.path = u.path
  /\ now <= e.exp + MaxLag
  /\ req' = [req EXCEPT ![r] = Asking("process", u, cond, FALSE, e.obj, now)]
  /\ UNCHANGED <<now, changed, heap, stored, held, told>>

Miss(r, u, cond, bypass) ==
  /\ req[r].at = "idle"
  /\ MayBeConditional(r, u, cond)
  /\ req' = [req EXCEPT ![r] = Asking("fetch", u, cond, bypass, 0, 0)]
  /\ UNCHANGED <<now, changed, heap, stored, held, told>>

(* The route's handler reads the site; the feed it builds reaches the      *)
(* wrapper later.  No two requests share a fetch.                          *)
Fetch(r) ==
  LET u == req[r].url IN
  /\ req[r].at = "fetch"
  /\ Len(heap) < MaxFetches
  /\ \E empty \in EmptyModes :
       heap' = Append(heap, [path |-> u.path, site |-> u.site, ver |-> Len(changed),
                             empty |-> empty, whole |-> TRUE, read |-> now])
  /\ req' = [req EXCEPT ![r].at = "returned", ![r].obj = Len(heap) + 1, ![r].since = now]
  /\ UNCHANGED <<now, changed, stored, held, told>>

(* The handler returns an error: 500, and the reader keeps what it had. *)
FetchError(r) ==
  /\ req[r].at = "fetch"
  /\ Finish(r)
  /\ UNCHANGED <<now, changed, heap, stored, held, told>>

(* The handler returns neither a feed nor an error. *)
FetchNil(r) ==
  /\ req[r].at = "fetch"
  /\ req' = [req EXCEPT ![r].at = "returned", ![r].obj = 0, ![r].since = now]
  /\ UNCHANGED <<now, changed, heap, stored, held, told>>

(* mutant: the nil check is missing *)
ShouldCache_Nil(r) == EnableCache /\ ~req[r].bypass /\ req[r].url.path \notin NoStore

(* DefaultShouldCache; no route sets "error_code", so the wrapper's own    *)
(* check adds nothing.                                                     *)
ShouldCache(r) ==
  /\ EnableCache
  /\ ~req[r].bypass
  /\ req[r].obj # 0
  /\ req[r].url.path \notin NoStore

(* cacheInstance.Set begins, with the raw feed *)
Store(r) ==
  /\ req[r].at = "returned"
  /\ ShouldCache(r)
  /\ stored' = stored \cup {[path |-> req[r].url.path, obj |-> req[r].obj, exp |-> now + TTL]}
  /\ req' = [req EXCEPT ![r].at = "store"]
  /\ UNCHANGED <<now, changed, heap, held, told>>

(* Set reads the clock again for every tier, so what it stores may last    *)
(* longer than what a lookup has already found of it.                      *)
StoreOn(r) ==
  /\ req[r].at = "store"
  /\ stored' = {e \in stored : e.obj # req[r].obj} \cup
                {[path |-> req[r].url.path, obj |-> req[r].obj, exp |-> now + TTL]}
  /\ UNCHANGED <<now, changed, heap, req, held, told>>

(* The feed is not cached; then feed.Items panics if there is none. *)
SkipStore(r) ==
  /\ req[r].at = "returned"
  /\ ~ShouldCache(r)
  /\ req' = [req EXCEPT ![r].at = IF req[r].obj = 0 THEN "panic" ELSE "process"]
  /\ UNCHANGED <<now, changed, heap, stored, held, told>>

(* mutant: without the Recovery middleware nobody answers *)
Recover_Missing(r) == FALSE /\ UNCHANGED vars

(* Recovery turns the panic into a 500. *)
Recover(r) ==
  /\ req[r].at = "panic"
  /\ Finish(r)
  /\ UNCHANGED <<now, changed, heap, stored, held, told>>

(* What ProcessFeed makes of a feed for a URL: descriptions cut or not. *)
Processed(f, u) == [BodyOf(f) EXCEPT !.whole = @ /\ (f.empty \/ ~u.brief)]

(* mutant: without copyItems the truncation reaches the shared feed *)
Process_InPlace(r) ==
  LET o == req[r].obj IN
  /\ req[r].at \in {"store", "process"}
  /\ req' = [req EXCEPT ![r].at = "reply", ![r].items = Processed(heap[o], req[r].url)]
  /\ heap' = [heap EXCEPT ![o].whole = Processed(heap[o], req[r].url).whole]
  /\ UNCHANGED <<now, changed, stored, held, told>>

(* Once Set has returned, or there is nothing to set.  ProcessFeed works   *)
(* on the copy copyItems makes, so applyBriefMode, which cuts descriptions *)
(* in place, cuts this request's own.                                      *)
Process(r) ==
  /\ req[r].at \in {"store", "process"}
  /\ req' = [req EXCEPT ![r].at = "reply",
                        ![r].items = Processed(heap[req[r].obj], req[r].url)]
  /\ UNCHANGED <<now, changed, heap, stored, held, told>>

(* The ETag is a hash of the body, so the one the reader sends stands for  *)
(* the body it holds.                                                      *)
Unmodified(r) == req[r].cond /\ held[r].body = req[r].items

Respond(r) ==
  /\ req[r].at = "reply"
  /\ ~Unmodified(r)
  /\ held' = [held EXCEPT ![r] = [url |-> req[r].url, body |-> req[r].items, any |-> TRUE]]
  /\ told' = [told EXCEPT ![r] = now]
  /\ Finish(r)
  /\ UNCHANGED <<now, changed, heap, stored>>

RespondNotModified(r) ==
  /\ req[r].at = "reply"
  /\ Unmodified(r)
  /\ told' = [told EXCEPT ![r] = now]
  /\ Finish(r)
  /\ UNCHANGED <<now, changed, heap, stored, held>>

(* serializeFeed fails: 500 *)
SerializeError(r) ==
  /\ req[r].at = "reply"
  /\ Finish(r)
  /\ UNCHANGED <<now, changed, heap, stored, held, told>>

-----------------------------------------------------------------------------
SiteChanges ==
  /\ Len(changed) < MaxChanges
  /\ changed' = Append(changed, now)
  /\ UNCHANGED <<now, heap, stored, req, held, told>>

Working(r) == req[r].at \in {"returned", "store", "process", "reply"}

(* Entries nobody can be answered with any more are dropped from `stored'. *)
Tick ==
  /\ now < MaxNow
  /\ \A r \in Reader : Working(r) => now < req[r].since + MaxWork
  /\ now' = now + 1
  /\ stored' = {e \in stored : now < e.exp + MaxLag}
  /\ UNCHANGED <<changed, heap, req, held, told>>

Arrive(r) ==
  \E u \in Url, cond \in BOOLEAN :
    \/ \E bypass \in BypassModes : Miss(r, u, cond, bypass)
    \/ \E e \in stored : Hit(r, u, cond, e)

Handle(r) ==
  \/ Fetch(r) \/ FetchError(r) \/ FetchNil(r) \/ Store(r) \/ SkipStore(r) \/ Recover(r)
  \/ Process(r)
  \/ Respond(r) \/ RespondNotModified(r) \/ SerializeError(r)

Next ==
  \/ \E r \in Reader : Arrive(r) \/ Handle(r) \/ StoreOn(r)
  \/ SiteChanges \/ Tick

Spec == Init /\ [][Next]_vars

(* Every request has a goroutine of its own, and upstream calls time out.  *)
FairSpec == Spec /\ \A r \in Reader : WF_vars(Handle(r))

-----------------------------------------------------------------------------
(* Properties.                                                             *)

TypeOK ==
  /\ now \in Nat /\ changed \in Seq(Nat) /\ heap \in Seq(Feed)
  /\ stored \in SUBSET Entry
  /\ req \in [Reader -> Request]
  /\ held \in [Reader -> Holding] /\ told \in [Reader -> Nat]

(* The longest a body may have been out of date when a reader is told that *)
(* it is current: read at once, stored as late as possible, served from    *)
(* the cache at the last moment, and answered as late as possible.         *)
MaxAge == TTL + MaxLag + 2 * MaxWork

(* Version v was what the sites showed at time t or later. *)
ShownSince(v, t) == v >= Len(changed) \/ changed[v + 1] >= t

(* A reader that gets a body, or is told 304 for the one it has, has what  *)
(* the site showed within the last MaxAge - although concurrent misses     *)
(* each fetch on their own, a slow old fetch may be stored after a newer   *)
(* one, and an unchanged ETag is compared with bodies of any age.          *)
HeldIsRecent ==
  \A r \in Reader : held[r].any => ShownSince(held[r].body.ver, told[r] - MaxAge)

(* Handler.go:152-163 stores the feed before processing it and hands the   *)
(* same object to later requests: no request's query shows in what another *)
(* is sent, every body belongs to the path that was asked for, and its     *)
(* descriptions are cut exactly when this URL asked for it.                *)
RepliesFollowOwnQuery ==
  \A r \in Reader : held[r].any =>
    /\ held[r].body.path = held[r].url.path
    /\ held[r].body.whole = (held[r].body.empty \/ ~held[r].url.brief)

(* What the cache may answer with is a whole feed that a fetch for this    *)
(* very path returned, no longer than a request's work before its lifetime *)
(* began: no error, nil feed or processed feed is ever stored.             *)
StoredFeedsAreRaw ==
  \A e \in stored :
    /\ e.obj \in DOMAIN heap
    /\ heap[e.obj].path = e.path /\ heap[e.obj].whole
    /\ e.path \notin NoStore
    /\ e.exp <= heap[e.obj].read + MaxWork + TTL

(* Every request is answered: also when the route's handler fails or       *)
(* returns neither feed nor error.                                         *)
EveryRequestAnswered == \A r \in Reader : req[r].at # "idle" ~> req[r].at = "idle"

-----------------------------------------------------------------------------
(* What comments and documents say, and the code does not do.              *)

(* handler.go:217 "Query parameters (limit/filter/format/...) are applied  *)
(* per request and deliberately excluded" from the key: what a reader is   *)
(* sent was built for the query of its own URL.                            *)
BodiesMatchTheirUrl ==
  \A r \in Reader : held[r].any => held[r].body.site = held[r].url.site
=============================================================================
