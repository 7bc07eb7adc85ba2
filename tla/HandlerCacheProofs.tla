------------------------- MODULE HandlerCacheProofs -------------------------
(***************************************************************************)
(* HandlerCache for any number of readers, paths, queries and fetches, any *)
(* lifetime and any bounds: how old an answer can be, that no request's    *)
(* processing reaches another's answer, and that only raw feeds are stored.*)
(***************************************************************************)
EXTENDS HandlerCache, TLAPS

(* A fetched feed shows what the site showed when it was read, and stays   *)
(* whole: nobody writes to a feed object once it is shared.                *)
SoundFeed(f) == f.whole /\ f.read <= now /\ ShownSince(f.ver, f.read)
HeapOK == \A o \in DOMAIN heap : SoundFeed(heap[o])

(* What a request holds on to between its steps: its feed is of its path   *)
(* and not too old, and its answer is that feed, processed for its URL.    *)
RequestOK(q) ==
  /\ q.at \in {"returned", "store", "process", "reply"} => now <= q.since + MaxWork
  /\ q.at = "store" => q.obj # 0 /\ q.url.path \notin NoStore
  /\ q.at \in {"returned", "store"} /\ q.obj # 0 =>
       q.obj \in DOMAIN heap /\ heap[q.obj].path = q.url.path /\ q.since = heap[q.obj].read
  /\ q.at \in {"process", "reply"} =>
       /\ q.obj \in DOMAIN heap /\ heap[q.obj].path = q.url.path
       /\ q.since <= heap[q.obj].read + TTL + MaxWork + MaxLag
  /\ q.at = "reply" => q.items = Processed(heap[q.obj], q.url)

RequestsOK == \A r \in Reader : RequestOK(req[r])
ToldOK == \A r \in Reader : told[r] <= now

HandlerInv ==
  /\ TypeOK /\ HeapOK /\ StoredFeedsAreRaw /\ RequestsOK /\ ToldOK
  /\ HeldIsRecent /\ RepliesFollowOwnQuery

USE HandlerAssumption

(* The records that stand for "nothing" are well typed.                    *)
LEMMA Defaults ==
  /\ AnyUrl \in Url /\ NoBody \in Body /\ Idle \in Request /\ NothingHeld \in Holding
  /\ Idle.at = "idle" /\ ~NothingHeld.any
<1>1. PICK p \in Path, s \in Site, b \in BriefModes : TRUE
  OBVIOUS
<1>2. [path |-> p, site |-> s, brief |-> b] \in Url
  BY DEF Url
<1>3. AnyUrl \in Url
  BY <1>2 DEF AnyUrl
<1>4. AnyUrl.path \in Path /\ AnyUrl.site \in Site
  BY <1>3 DEF Url
<1>5. NoBody \in Body
  BY <1>4 DEF NoBody, Body
<1>6. Idle \in Request
  BY <1>3, <1>5 DEF Idle, Asking, Request, Steps
<1>7. NothingHeld \in Holding /\ ~NothingHeld.any
  BY <1>3, <1>5 DEF NothingHeld, Holding
<1> QED
  BY <1>3, <1>5, <1>6, <1>7 DEF Idle, Asking

(* What was shown since t was shown since any earlier time.                *)
LEMMA ShownEarlier ==
  ASSUME NEW v \in Nat, NEW t \in Int, NEW s \in Int, s <= t, ShownSince(v, t), changed \in Seq(Nat)
  PROVE  ShownSince(v, s)
<1>1. CASE v >= Len(changed)
  BY <1>1 DEF ShownSince
<1>2. CASE ~(v >= Len(changed))
  <2>1. v + 1 \in 1 .. Len(changed) /\ Len(changed) \in Nat
    BY <1>2
  <2>2. changed[v + 1] \in Nat
    BY <2>1
  <2> QED
    BY <1>2, <2>2 DEF ShownSince
<1> QED
  BY <1>1, <1>2

(* A version shown since t is still shown since t after a change now.      *)
LEMMA ShownAcrossChange ==
  ASSUME NEW v \in Nat, NEW t \in Int, changed \in Seq(Nat), now \in Nat, t <= now,
         ShownSince(v, t), changed' = Append(changed, now)
  PROVE  ShownSince(v, t)'
<1>1. Len(changed') = Len(changed) + 1 /\ Len(changed) \in Nat
  OBVIOUS
<1>2. CASE v >= Len(changed')
  BY <1>2 DEF ShownSince
<1>3. CASE v = Len(changed)
  <2>1. changed'[v + 1] = now
    BY <1>3
  <2> QED
    BY <2>1 DEF ShownSince
<1>4. CASE v < Len(changed)
  <2>1. changed'[v + 1] = changed[v + 1] /\ changed[v + 1] >= t
    BY <1>4 DEF ShownSince
  <2> QED
    BY <2>1 DEF ShownSince
<1> QED
  BY <1>1, <1>2, <1>3, <1>4

-----------------------------------------------------------------------------
(* A step that replaces the request of one reader and touches neither the  *)
(* clock nor the feeds keeps every other request in order.                 *)
LEMMA OneRequest ==
  ASSUME req \in [Reader -> Request], RequestsOK, UNCHANGED <<now, heap>>,
         NEW r \in Reader, NEW q \in Request, RequestOK(q), req' = [req EXCEPT ![r] = q]
  PROVE  req' \in [Reader -> Request] /\ RequestsOK'
<1>1. req' \in [Reader -> Request]
  OBVIOUS
<1>2. ASSUME NEW x \in Reader PROVE RequestOK(req[x])'
  <2>1. RequestOK(req'[x])
    BY DEF RequestsOK
  <2> QED
    BY <2>1 DEF RequestOK
<1> QED
  BY <1>1, <1>2 DEF RequestsOK

(* Going back to idle. *)
LEMMA FinishOK ==
  ASSUME req \in [Reader -> Request], RequestsOK, UNCHANGED <<now, heap>>,
         NEW r \in Reader, Finish(r)
  PROVE  req' \in [Reader -> Request] /\ RequestsOK'
<1>1. RequestOK(Idle)
  BY Defaults DEF RequestOK
<1> QED
  BY <1>1, Defaults, OneRequest DEF Finish

(* The parts of the invariant that a step can leave as they were.          *)
LEMMA Untouched ==
  ASSUME HandlerInv, UNCHANGED <<now, changed, heap>>
  PROVE  /\ now' \in Nat /\ changed' \in Seq(Nat) /\ heap' \in Seq(Feed) /\ HeapOK'
         /\ UNCHANGED stored => stored' \in SUBSET Entry /\ StoredFeedsAreRaw'
         /\ UNCHANGED <<held, told>> =>
              /\ held' \in [Reader -> Holding] /\ told' \in [Reader -> Nat]
              /\ ToldOK' /\ HeldIsRecent' /\ RepliesFollowOwnQuery'
<1>1. /\ now' \in Nat /\ changed' \in Seq(Nat) /\ heap' \in Seq(Feed)
  BY DEF HandlerInv, TypeOK
<1>2. HeapOK'
  <2>1. \A g : SoundFeed(g) => SoundFeed(g)'
    BY DEF SoundFeed, ShownSince
  <2> QED
    BY <2>1 DEF HandlerInv, HeapOK
<1>3. ASSUME UNCHANGED stored PROVE stored' \in SUBSET Entry /\ StoredFeedsAreRaw'
  BY <1>3 DEF HandlerInv, TypeOK, StoredFeedsAreRaw
<1>4. ASSUME UNCHANGED <<held, told>>
      PROVE  /\ held' \in [Reader -> Holding] /\ told' \in [Reader -> Nat]
             /\ ToldOK' /\ HeldIsRecent' /\ RepliesFollowOwnQuery'
  BY <1>4 DEF HandlerInv, TypeOK, ToldOK, HeldIsRecent, RepliesFollowOwnQuery, ShownSince, MaxAge
<1> QED
  BY <1>1, <1>2, <1>3, <1>4

(* A stored feed served before it expires, or just after, is not too old.  *)
LEMMA HitAge ==
  ASSUME NEW t \in Nat, NEW exp \in Nat, NEW read \in Nat,
         t <= exp + MaxLag, exp <= read + MaxWork + TTL
  PROVE  t <= read + TTL + MaxWork + MaxLag
OBVIOUS

(* A request that starts: a hit takes a raw feed of its path that is not   *)
(* older than its lifetime allows.                                         *)
LEMMA ArriveKeeps == ASSUME HandlerInv, NEW r \in Reader, Arrive(r) PROVE HandlerInv'
<1>1. PICK u \in Url, cond \in BOOLEAN :
        \/ \E bypass \in BypassModes : Miss(r, u, cond, bypass)
        \/ \E e \in stored : Hit(r, u, cond, e)
  BY DEF Arrive
<1>2. req \in [Reader -> Request] /\ RequestsOK /\ stored \in SUBSET Entry
  BY DEF HandlerInv, TypeOK
<1>3. CASE \E bypass \in BypassModes : Miss(r, u, cond, bypass)
  <2>1. PICK bypass \in BypassModes : Miss(r, u, cond, bypass)
    BY <1>3
  <2> DEFINE q == Asking("fetch", u, cond, bypass, 0, 0)
  <2>2. q \in Request /\ q.at = "fetch"
    BY Defaults DEF Asking, Request, Steps
  <2>3. RequestOK(q)
    BY <2>2 DEF RequestOK
  <2>4. req' = [req EXCEPT ![r] = q] /\ UNCHANGED <<now, changed, heap, stored, held, told>>
    BY <2>1 DEF Miss
  <2> HIDE DEF q
  <2>5. req' \in [Reader -> Request] /\ RequestsOK'
    BY <1>2, <2>2, <2>3, <2>4, OneRequest
  <2> QED
    BY <2>4, <2>5, Untouched DEF HandlerInv, TypeOK
<1>4. CASE \E e \in stored : Hit(r, u, cond, e)
  <2>1. PICK e \in stored : Hit(r, u, cond, e)
    BY <1>4
  <2> DEFINE q == Asking("process", u, cond, FALSE, e.obj, now)
  <2>2. /\ e \in Entry /\ e.obj \in DOMAIN heap /\ heap[e.obj].path = e.path /\ e.path = u.path
        /\ now <= e.exp + MaxLag /\ e.exp <= heap[e.obj].read + MaxWork + TTL
        /\ now \in Nat /\ heap \in Seq(Feed)
    BY <1>2, <2>1 DEF Hit, HandlerInv, StoredFeedsAreRaw, TypeOK
  <2>3. q \in Request /\ q.at = "process" /\ q.obj = e.obj /\ q.since = now /\ q.url = u
    <3>1. e.obj \in Nat
      BY <2>2 DEF Entry
    <3>2. "process" \in Steps
      BY DEF Steps
    <3> QED
      BY <2>2, <3>1, <3>2, Defaults DEF Asking, Request
  <2>4. heap[e.obj].read \in Nat /\ e.exp \in Nat
    <3>1. heap[e.obj] \in Feed
      BY <2>2
    <3> QED
      BY <2>2, <3>1 DEF Feed, Entry
  <2>5. RequestOK(q)
    <3>1. now <= heap[e.obj].read + TTL + MaxWork + MaxLag
      BY <2>2, <2>4, HitAge, Zenon
    <3>2. now <= now + MaxWork
      BY <2>2
    <3> HIDE DEF q
    <3> QED
      BY <2>2, <2>3, <3>1, <3>2 DEF RequestOK
  <2>6. req' = [req EXCEPT ![r] = q] /\ UNCHANGED <<now, changed, heap, stored, held, told>>
    BY <2>1 DEF Hit
  <2> HIDE DEF q
  <2>7. req' \in [Reader -> Request] /\ RequestsOK'
    BY <1>2, <2>3, <2>5, <2>6, OneRequest
  <2> QED
    BY <2>6, <2>7, Untouched DEF HandlerInv, TypeOK
<1> QED
  BY <1>1, <1>3, <1>4

(* The route's handler adds a feed: it is current and no older feed moves. *)
LEMMA FetchKeeps == ASSUME HandlerInv, NEW r \in Reader, Fetch(r) PROVE HandlerInv'
<1>1. /\ req \in [Reader -> Request] /\ heap \in Seq(Feed) /\ now \in Nat
      /\ changed \in Seq(Nat) /\ stored \in SUBSET Entry
      /\ req[r].at = "fetch" /\ UNCHANGED <<now, changed, stored, held, told>>
  BY DEF HandlerInv, TypeOK, Fetch
<1>2. req[r] \in Request /\ req[r].url \in Url /\ Len(heap) \in Nat /\ Len(changed) \in Nat
  BY <1>1 DEF Request
<1>3. PICK f \in Feed : /\ heap' = Append(heap, f)
                        /\ f.path = req[r].url.path /\ f.ver = Len(changed)
                        /\ f.whole /\ f.read = now
  <2>1. PICK empty \in EmptyModes :
          heap' = Append(heap, [path |-> req[r].url.path, site |-> req[r].url.site,
                                ver |-> Len(changed), empty |-> empty, whole |-> TRUE, read |-> now])
    BY DEF Fetch
  <2>2. [path |-> req[r].url.path, site |-> req[r].url.site, ver |-> Len(changed),
         empty |-> empty, whole |-> TRUE, read |-> now] \in Feed
    BY <1>1, <1>2 DEF Feed, Url
  <2> QED
    BY <2>1, <2>2
<1>4. /\ heap' \in Seq(Feed) /\ DOMAIN heap' = DOMAIN heap \cup {Len(heap) + 1}
      /\ heap'[Len(heap) + 1] = f
      /\ \A o \in DOMAIN heap : heap'[o] = heap[o]
  BY <1>1, <1>2, <1>3
<1>5. HeapOK'
  <2>1. ShownSince(f.ver, f.read)'
    BY <1>1, <1>2, <1>3 DEF ShownSince
  <2>2. SoundFeed(f)'
    BY <1>1, <1>3, <2>1 DEF SoundFeed
  <2>3. \A g : SoundFeed(g) => SoundFeed(g)'
    BY <1>1 DEF SoundFeed, ShownSince
  <2>4. \A o \in DOMAIN heap : SoundFeed(heap[o])
    BY DEF HandlerInv, HeapOK
  <2> QED
    BY <1>4, <2>2, <2>3, <2>4 DEF HeapOK
<1>6. StoredFeedsAreRaw'
  BY <1>1, <1>4 DEF HandlerInv, StoredFeedsAreRaw
<1>7. PICK q \in Request : /\ req' = [req EXCEPT ![r] = q]
                           /\ q.at = "returned" /\ q.obj = Len(heap) + 1
                           /\ q.since = now /\ q.url = req[r].url
  <2>1. PICK n \in Nat, t \in Nat : n = Len(heap) + 1 /\ t = now
    BY <1>1, <1>2
  <2> DEFINE p == [req[r] EXCEPT !.at = "returned", !.obj = n, !.since = t]
  <2>2. req' = [req EXCEPT ![r] = p]
    BY <1>1, <2>1 DEF Fetch
  <2>3. p \in Request /\ p.at = "returned" /\ p.obj = n /\ p.since = t /\ p.url = req[r].url
    BY <1>2 DEF Request, Steps
  <2> HIDE DEF p
  <2> QED
    BY <2>1, <2>2, <2>3
<1>8. RequestOK(q)'
  BY <1>1, <1>2, <1>3, <1>4, <1>7 DEF RequestOK
<1>9. ASSUME NEW x \in Reader PROVE RequestOK(req[x])'
  <2>1. CASE x = r
    <3>1. req'[x] = q
      BY <1>1, <1>7, <2>1
    <3> QED
      BY <1>8, <3>1 DEF RequestOK
  <2>2. CASE x # r
    <3>1. req'[x] = req[x] /\ RequestOK(req[x])
      BY <1>1, <1>7, <2>2 DEF HandlerInv, RequestsOK
    <3> QED
      BY <1>1, <1>4, <3>1 DEF RequestOK
  <2> QED
    BY <2>1, <2>2
<1>10. ToldOK' /\ HeldIsRecent' /\ RepliesFollowOwnQuery'
  BY <1>1 DEF HandlerInv, ToldOK, HeldIsRecent, RepliesFollowOwnQuery, ShownSince, MaxAge
<1>11. TypeOK'
  <2>1. req' \in [Reader -> Request]
    BY <1>1, <1>7
  <2> QED
    BY <1>1, <1>4, <2>1 DEF HandlerInv, TypeOK
<1> QED
  BY <1>5, <1>6, <1>9, <1>10, <1>11 DEF HandlerInv, RequestsOK

(* A handler that fails or returns nothing, the panic that follows, and a  *)
(* failing serialization add nothing to any shared state.                  *)
LEMMA FailuresKeep ==
  ASSUME HandlerInv, NEW r \in Reader,
         FetchError(r) \/ FetchNil(r) \/ Recover(r) \/ SerializeError(r)
  PROVE  HandlerInv'
<1>1. /\ req \in [Reader -> Request] /\ RequestsOK /\ now \in Nat
      /\ UNCHANGED <<now, changed, heap, stored, held, told>>
  BY DEF HandlerInv, TypeOK, FetchError, FetchNil, Recover, SerializeError
<1>2. CASE FetchError(r) \/ Recover(r) \/ SerializeError(r)
  <2>1. Finish(r)
    BY <1>2 DEF FetchError, Recover, SerializeError
  <2> QED
    BY <1>1, <2>1, FinishOK, Untouched DEF HandlerInv, TypeOK
<1>3. CASE FetchNil(r)
  <2> DEFINE q == [req[r] EXCEPT !.at = "returned", !.obj = 0, !.since = now]
  <2>1. req' = [req EXCEPT ![r] = q] /\ req[r] \in Request
    BY <1>1, <1>3 DEF FetchNil
  <2>2. q \in Request /\ q.at = "returned" /\ q.obj = 0 /\ q.since = now
    BY <1>1, <2>1 DEF Request, Steps
  <2> HIDE DEF q
  <2>3. RequestOK(q)
    BY <1>1, <2>2 DEF RequestOK
  <2> QED
    BY <1>1, <2>1, <2>2, <2>3, OneRequest, Untouched DEF HandlerInv, TypeOK
<1> QED
  BY <1>2, <1>3

(* An entry made while a request works on the feed it fetched is of that   *)
(* feed, for the path asked.                                               *)
LEMMA NewEntry ==
  ASSUME HandlerInv, NEW r \in Reader, req[r].at \in {"returned", "store"},
         req[r].obj # 0, req[r].url.path \notin NoStore, UNCHANGED heap,
         stored' \subseteq stored \cup {[path |-> req[r].url.path, obj |-> req[r].obj, exp |-> now + TTL]}
  PROVE  stored' \in SUBSET Entry /\ StoredFeedsAreRaw'
<1> DEFINE e == [path |-> req[r].url.path, obj |-> req[r].obj, exp |-> now + TTL]
<1>1. /\ now \in Nat /\ heap \in Seq(Feed) /\ stored \in SUBSET Entry /\ StoredFeedsAreRaw /\ HeapOK
      /\ req[r] \in Request /\ RequestOK(req[r])
  BY DEF HandlerInv, TypeOK, RequestsOK
<1>2. req[r].obj \in Nat \ {0} /\ req[r].since \in Nat /\ req[r].url.path \in Path
  BY <1>1 DEF Request, Url
<1>3. /\ now <= req[r].since + MaxWork /\ req[r].obj \in DOMAIN heap
      /\ heap[req[r].obj].path = req[r].url.path /\ req[r].since = heap[req[r].obj].read
  BY <1>1 DEF RequestOK
<1>4. heap[req[r].obj].whole
  BY <1>1, <1>3 DEF HeapOK, SoundFeed
<1>5. e \in Entry
  BY <1>1, <1>2 DEF Entry
<1>6. /\ e.obj \in DOMAIN heap /\ heap[e.obj].path = e.path /\ heap[e.obj].whole
      /\ e.path \notin NoStore /\ e.exp <= heap[e.obj].read + MaxWork + TTL
  BY <1>1, <1>2, <1>3, <1>4
<1>7. stored' \subseteq stored \cup {e}
  OBVIOUS
<1> HIDE DEF e
<1> QED
  BY <1>1, <1>5, <1>6, <1>7 DEF StoredFeedsAreRaw

(* Storing, or not, moves the request on with the same feed.               *)
LEMMA StoreKeeps ==
  ASSUME HandlerInv, NEW r \in Reader, Store(r) \/ SkipStore(r)
  PROVE  HandlerInv'
<1>1. /\ req \in [Reader -> Request] /\ RequestsOK /\ now \in Nat
      /\ req[r] \in Request /\ RequestOK(req[r]) /\ req[r].at = "returned"
      /\ UNCHANGED <<now, changed, heap, held, told>>
  BY DEF HandlerInv, TypeOK, Store, SkipStore, RequestsOK
<1>2. PICK step \in {"panic", "process", "store"} :
        /\ req' = [req EXCEPT ![r].at = step]
        /\ step = "process" => req[r].obj # 0
        /\ step = "store" => req[r].obj # 0 /\ req[r].url.path \notin NoStore
  BY DEF Store, SkipStore, ShouldCache
<1> DEFINE p == [req[r] EXCEPT !.at = step]
<1>3. req' = [req EXCEPT ![r] = p]
  BY <1>1, <1>2
<1>4. p \in Request /\ p.at = step /\ p.obj = req[r].obj /\ p.since = req[r].since
      /\ p.url = req[r].url
  BY <1>1 DEF Request, Steps
<1>5. req[r].obj # 0 => req[r].obj \in DOMAIN heap /\ heap[req[r].obj].read \in Nat
  <2>1. SUFFICES ASSUME req[r].obj # 0 PROVE req[r].obj \in DOMAIN heap /\ heap[req[r].obj].read \in Nat
    OBVIOUS
  <2>2. req[r].obj \in DOMAIN heap /\ heap \in Seq(Feed)
    BY <1>1, <2>1 DEF RequestOK, HandlerInv, TypeOK
  <2>3. heap[req[r].obj] \in Feed
    BY <2>2
  <2> QED
    BY <2>2, <2>3 DEF Feed
<1>6. RequestOK(p)
  <2> HIDE DEF p
  <2> QED
    BY <1>1, <1>2, <1>4, <1>5 DEF RequestOK
<1>7. req' \in [Reader -> Request] /\ RequestsOK'
  <2> HIDE DEF p
  <2> QED
    BY <1>1, <1>3, <1>4, <1>6, OneRequest
<1>8. stored' \in SUBSET Entry /\ StoredFeedsAreRaw'
  <2>1. CASE Store(r)
    BY <1>1, <2>1, NewEntry DEF Store, ShouldCache
  <2>2. CASE SkipStore(r)
    BY <1>1, <2>2, Untouched DEF SkipStore
  <2> QED
    BY <2>1, <2>2
<1> QED
  BY <1>1, <1>7, <1>8, Untouched DEF HandlerInv, TypeOK

LEMMA StoreOnKeeps == ASSUME HandlerInv, NEW r \in Reader, StoreOn(r) PROVE HandlerInv'
<1>1. /\ req \in [Reader -> Request] /\ RequestsOK /\ RequestOK(req[r]) /\ req[r].at = "store"
      /\ UNCHANGED <<now, changed, heap, req, held, told>>
  BY DEF HandlerInv, TypeOK, StoreOn, RequestsOK
<1>2. stored' \in SUBSET Entry /\ StoredFeedsAreRaw'
  BY <1>1, NewEntry DEF StoreOn, RequestOK
<1>3. req' \in [Reader -> Request] /\ RequestsOK'
  BY <1>1 DEF RequestsOK, RequestOK
<1> QED
  BY <1>1, <1>2, <1>3, Untouched DEF HandlerInv, TypeOK

(* Processing reads the shared feed and writes only the request's items.   *)
LEMMA ProcessKeeps == ASSUME HandlerInv, NEW r \in Reader, Process(r) PROVE HandlerInv'
<1>1. /\ req \in [Reader -> Request] /\ RequestsOK /\ now \in Nat /\ heap \in Seq(Feed)
      /\ req[r] \in Request /\ RequestOK(req[r]) /\ req[r].at \in {"store", "process"}
      /\ req[r].obj \in DOMAIN heap /\ req[r].url \in Url
      /\ UNCHANGED <<now, changed, heap, stored, held, told>>
  BY DEF HandlerInv, TypeOK, Process, RequestsOK, RequestOK, Request
<1>2. Processed(heap[req[r].obj], req[r].url) \in Body
  <2>1. heap[req[r].obj] \in Feed
    BY <1>1
  <2> QED
    BY <1>1, <2>1 DEF Processed, BodyOf, Feed, Body, Url
<1>3. PICK b \in Body : b = Processed(heap[req[r].obj], req[r].url)
  BY <1>2
<1> DEFINE p == [req[r] EXCEPT !.at = "reply", !.items = b]
<1>4. req' = [req EXCEPT ![r] = p]
  BY <1>1, <1>3 DEF Process
<1>5. p \in Request /\ p.at = "reply" /\ p.items = b /\ p.obj = req[r].obj
      /\ p.since = req[r].since /\ p.url = req[r].url
  BY <1>1 DEF Request, Steps
<1> HIDE DEF p
<1>6. req[r].since <= heap[req[r].obj].read + TTL + MaxWork + MaxLag
  <2>1. heap[req[r].obj] \in Feed
    BY <1>1
  <2>2. heap[req[r].obj].read \in Nat
    BY <2>1 DEF Feed
  <2> QED
    BY <1>1, <2>2 DEF RequestOK
<1>7. RequestOK(p)
  BY <1>1, <1>3, <1>5, <1>6 DEF RequestOK
<1> QED
  BY <1>1, <1>4, <1>5, <1>7, OneRequest, Untouched DEF HandlerInv, TypeOK

(* Ages add up: work on the answer, time in the store, work on the feed.   *)
LEMMA AgesAdd ==
  ASSUME NEW t \in Nat, NEW since \in Nat, NEW read \in Nat,
         t <= since + MaxWork, since <= read + TTL + MaxWork + MaxLag
  PROVE  t - MaxAge <= read /\ t - MaxAge \in Int
BY DEF MaxAge

(* An answer is a feed of the URL's path that was current within MaxAge.   *)
LEMMA ReplyFacts ==
  ASSUME HandlerInv, NEW r \in Reader, req[r].at = "reply"
  PROVE  /\ req[r].items \in Body /\ req[r].url \in Url
         /\ req[r].items.path = req[r].url.path
         /\ req[r].items.whole = (req[r].items.empty \/ ~req[r].url.brief)
         /\ ShownSince(req[r].items.ver, now - MaxAge)
<1>1. /\ req[r] \in Request /\ RequestOK(req[r]) /\ heap \in Seq(Feed)
      /\ now \in Nat /\ changed \in Seq(Nat)
  BY DEF HandlerInv, TypeOK, RequestsOK
<1>2. PICK o \in DOMAIN heap : o = req[r].obj
  BY <1>1 DEF RequestOK
<1>3. PICK f \in Feed : f = heap[o]
  BY <1>1
<1>4. SoundFeed(f)
  BY <1>3 DEF HandlerInv, HeapOK
<1>5. req[r].items \in Body /\ req[r].url \in Url /\ req[r].since \in Nat
  BY <1>1 DEF Request
<1>6. /\ req[r].items = Processed(f, req[r].url) /\ f.path = req[r].url.path
      /\ now <= req[r].since + MaxWork /\ req[r].since <= f.read + TTL + MaxWork + MaxLag
  BY <1>1, <1>2, <1>3 DEF RequestOK
<1>7. req[r].items.path = f.path /\ req[r].items.ver = f.ver /\ req[r].items.empty = f.empty
  BY <1>6 DEF Processed, BodyOf
<1>8. req[r].items.whole = (f.whole /\ (f.empty \/ ~req[r].url.brief))
  BY <1>6 DEF Processed, BodyOf
<1>9. f.ver \in Nat /\ f.read \in Nat /\ f.empty \in BOOLEAN /\ f.whole
  BY <1>4 DEF Feed, SoundFeed
<1>10. ShownSince(f.ver, now - MaxAge)
  <2>1. now - MaxAge <= f.read /\ now - MaxAge \in Int
    BY <1>1, <1>5, <1>6, <1>9, AgesAdd, Zenon
  <2> QED
    BY <1>1, <1>4, <1>9, <2>1, ShownEarlier DEF SoundFeed
<1> QED
  BY <1>5, <1>6, <1>7, <1>8, <1>9, <1>10

(* 200 with a body, and 304 for a body that is the same as this answer's.  *)
LEMMA AnswersKeep ==
  ASSUME HandlerInv, NEW r \in Reader, Respond(r) \/ RespondNotModified(r) PROVE HandlerInv'
<1>1. /\ req \in [Reader -> Request] /\ RequestsOK /\ now \in Nat
      /\ held \in [Reader -> Holding] /\ told \in [Reader -> Nat]
      /\ ToldOK /\ HeldIsRecent /\ RepliesFollowOwnQuery
      /\ req[r].at = "reply" /\ Finish(r)
      /\ told' = [told EXCEPT ![r] = now]
      /\ UNCHANGED <<now, changed, heap, stored>>
  BY DEF HandlerInv, TypeOK, Respond, RespondNotModified
<1>2. told' \in [Reader -> Nat] /\ ToldOK'
  BY <1>1 DEF ToldOK
<1>3. PICK h \in Holding : /\ held' = [held EXCEPT ![r] = h]
                           /\ h.any => /\ h.body.path = h.url.path
                                       /\ h.body.whole = (h.body.empty \/ ~h.url.brief)
                                       /\ ShownSince(h.body.ver, now - MaxAge)
  <2>1. CASE Respond(r)
    <3> DEFINE h == [url |-> req[r].url, body |-> req[r].items, any |-> TRUE]
    <3>1. h \in Holding /\ h.url = req[r].url /\ h.body = req[r].items
      BY <1>1, ReplyFacts DEF Holding
    <3>2. held' = [held EXCEPT ![r] = h]
      BY <2>1 DEF Respond
    <3> HIDE DEF h
    <3> QED
      BY <1>1, <3>1, <3>2, ReplyFacts
  <2>2. CASE RespondNotModified(r)
    <3>1. held' = held /\ held[r].body = req[r].items
      BY <2>2 DEF RespondNotModified, Unmodified
    <3>2. held[r] \in Holding /\ held' = [held EXCEPT ![r] = held[r]]
      BY <1>1, <3>1
    <3>3. ShownSince(held[r].body.ver, now - MaxAge)
      BY <1>1, <3>1, ReplyFacts
    <3>4. held[r].any => /\ held[r].body.path = held[r].url.path
                         /\ held[r].body.whole = (held[r].body.empty \/ ~held[r].url.brief)
      BY <1>1 DEF RepliesFollowOwnQuery
    <3> QED
      BY <3>2, <3>3, <3>4
  <2> QED
    BY <2>1, <2>2
<1>4. held' \in [Reader -> Holding]
  BY <1>1, <1>3
<1>5. \A v, t : ShownSince(v, t) => ShownSince(v, t)'
  BY <1>1 DEF ShownSince
<1>6. ASSUME NEW x \in Reader, held'[x].any
      PROVE  /\ ShownSince(held[x].body.ver, told[x] - MaxAge)'
             /\ held'[x].body.path = held'[x].url.path
             /\ held'[x].body.whole = (held'[x].body.empty \/ ~held'[x].url.brief)
  <2>1. CASE x = r
    <3>1. held'[x] = h /\ told'[x] = now
      BY <1>1, <1>3, <2>1
    <3>2. MaxAge' = MaxAge
      BY DEF MaxAge
    <3> QED
      BY <1>3, <1>5, <1>6, <3>1, <3>2
  <2>2. CASE x # r
    <3>1. held'[x] = held[x] /\ told'[x] = told[x] /\ MaxAge' = MaxAge
      BY <1>1, <1>3, <2>2 DEF MaxAge
    <3> QED
      BY <1>1, <1>5, <1>6, <3>1 DEF HeldIsRecent, RepliesFollowOwnQuery
  <2> QED
    BY <2>1, <2>2
<1>7. HeldIsRecent' /\ RepliesFollowOwnQuery'
  BY <1>6 DEF HeldIsRecent, RepliesFollowOwnQuery
<1> QED
  BY <1>1, <1>2, <1>4, <1>7, FinishOK, Untouched DEF HandlerInv, TypeOK

(* A change of the site now leaves what was shown up to now where it was.  *)
LEMMA SiteKeeps == ASSUME HandlerInv, SiteChanges PROVE HandlerInv'
<1>1. /\ TypeOK /\ HeapOK /\ StoredFeedsAreRaw /\ RequestsOK /\ ToldOK
      /\ HeldIsRecent /\ RepliesFollowOwnQuery
      /\ changed' = Append(changed, now) /\ changed \in Seq(Nat) /\ now \in Nat
      /\ UNCHANGED <<now, heap, stored, req, held, told>>
  BY DEF HandlerInv, TypeOK, SiteChanges
<1>2. changed' \in Seq(Nat)
  BY <1>1
<1>3. TypeOK'
  BY <1>1, <1>2 DEF TypeOK
<1>4. ASSUME NEW v \in Nat, NEW t \in Int, t <= now, ShownSince(v, t)
      PROVE  ShownSince(v, t)'
  BY <1>1, <1>4, ShownAcrossChange
<1>5. HeapOK'
  <2>1. ASSUME NEW f \in Feed, SoundFeed(f) PROVE SoundFeed(f)'
    BY <1>1, <1>4, <2>1 DEF SoundFeed, Feed
  <2>2. ASSUME NEW o \in DOMAIN heap PROVE heap[o] \in Feed /\ SoundFeed(heap[o])
    BY <1>1 DEF HeapOK, TypeOK
  <2> QED
    BY <1>1, <2>1, <2>2 DEF HeapOK
<1>6. HeldIsRecent'
  <2>1. ASSUME NEW x \in Reader, held[x].any
        PROVE  ShownSince(held[x].body.ver, told[x] - MaxAge)'
    <3>1. held[x].body.ver \in Nat /\ told[x] \in Nat /\ told[x] <= now
      BY <1>1 DEF TypeOK, Holding, Body, ToldOK
    <3>2. told[x] - MaxAge \in Int /\ told[x] - MaxAge <= now
      BY <1>1, <3>1 DEF MaxAge
    <3>3. ShownSince(held[x].body.ver, told[x] - MaxAge)
      BY <1>1, <2>1 DEF HeldIsRecent
    <3>4. PICK v \in Nat, t \in Int : v = held[x].body.ver /\ t = told[x] - MaxAge
      BY <3>1, <3>2
    <3>5. ShownSince(v, t)'
      BY <1>4, <3>2, <3>3, <3>4
    <3>6. v = held'[x].body.ver /\ t = told'[x] - MaxAge /\ MaxAge' = MaxAge
      BY <1>1, <3>4 DEF MaxAge
    <3> QED
      BY <3>5, <3>6
  <2> QED
    BY <1>1, <2>1 DEF HeldIsRecent
<1>7. StoredFeedsAreRaw' /\ RequestsOK' /\ ToldOK' /\ RepliesFollowOwnQuery'
  BY <1>1 DEF StoredFeedsAreRaw, RequestsOK, RequestOK, ToldOK, RepliesFollowOwnQuery
<1> QED
  BY <1>3, <1>5, <1>6, <1>7 DEF HandlerInv

(* Time passes only while no request has worked for longer than MaxWork.   *)
LEMMA TickKeeps == ASSUME HandlerInv, Tick PROVE HandlerInv'
<1>1. /\ TypeOK /\ HeapOK /\ StoredFeedsAreRaw /\ RequestsOK /\ ToldOK
      /\ HeldIsRecent /\ RepliesFollowOwnQuery
      /\ now' = now + 1 /\ now \in Nat /\ stored' \subseteq stored
      /\ \A r \in Reader : Working(r) => now < req[r].since + MaxWork
      /\ UNCHANGED <<changed, heap, req, held, told>>
  BY DEF HandlerInv, TypeOK, Tick
<1>2. TypeOK'
  BY <1>1 DEF TypeOK
<1>3. HeapOK'
  <2>1. ASSUME NEW f \in Feed, SoundFeed(f) PROVE SoundFeed(f)'
    BY <1>1, <2>1 DEF SoundFeed, Feed, ShownSince
  <2>2. ASSUME NEW o \in DOMAIN heap PROVE heap[o] \in Feed /\ SoundFeed(heap[o])
    BY <1>1 DEF HeapOK, TypeOK
  <2> QED
    BY <1>1, <2>1, <2>2 DEF HeapOK
<1>4. StoredFeedsAreRaw'
  BY <1>1 DEF StoredFeedsAreRaw
<1>5. RequestsOK'
  <2>1. ASSUME NEW r \in Reader PROVE RequestOK(req[r])'
    <3>1. req[r] \in Request /\ RequestOK(req[r])
      BY <1>1 DEF RequestsOK, TypeOK
    <3>2. req[r].since \in Nat
      BY <3>1 DEF Request
    <3>3. req[r].at \in {"returned", "store", "process", "reply"} => now + 1 <= req[r].since + MaxWork
      BY <1>1, <3>2 DEF Working
    <3> QED
      BY <1>1, <3>1, <3>3 DEF RequestOK
  <2> QED
    BY <2>1 DEF RequestsOK
<1>6. ToldOK'
  BY <1>1 DEF ToldOK, TypeOK
<1>7. HeldIsRecent' /\ RepliesFollowOwnQuery'
  BY <1>1 DEF HeldIsRecent, RepliesFollowOwnQuery, ShownSince, MaxAge
<1> QED
  BY <1>2, <1>3, <1>4, <1>5, <1>6, <1>7 DEF HandlerInv

-----------------------------------------------------------------------------
LEMMA InitKeeps == Init => HandlerInv
<1> SUFFICES ASSUME Init PROVE HandlerInv
  OBVIOUS
<1>1. TypeOK
  BY Defaults DEF Init, TypeOK
<1>2. \A r \in Reader : req[r] = Idle /\ held[r] = NothingHeld /\ told[r] = 0
  BY DEF Init
<1>3. HeapOK /\ StoredFeedsAreRaw
  BY DEF Init, HeapOK, StoredFeedsAreRaw
<1>4. RequestsOK
  BY <1>2, Defaults DEF RequestsOK, RequestOK
<1>5. ToldOK /\ HeldIsRecent /\ RepliesFollowOwnQuery
  BY <1>2, Defaults DEF Init, ToldOK, HeldIsRecent, RepliesFollowOwnQuery
<1> QED
  BY <1>1, <1>3, <1>4, <1>5 DEF HandlerInv

LEMMA NextKeeps == HandlerInv /\ [Next]_vars => HandlerInv'
<1> SUFFICES ASSUME HandlerInv, [Next]_vars PROVE HandlerInv'
  OBVIOUS
<1>1. ASSUME NEW r \in Reader, Handle(r) PROVE HandlerInv'
  BY <1>1, FetchKeeps, FailuresKeep, StoreKeeps, ProcessKeeps, AnswersKeep DEF Handle
<1>2. CASE UNCHANGED vars
  <2>1. UNCHANGED <<now, changed, heap, stored, req, held, told>>
    BY <1>2 DEF vars
  <2>2. req' \in [Reader -> Request] /\ RequestsOK'
    BY <2>1 DEF HandlerInv, TypeOK, RequestsOK, RequestOK
  <2> QED
    BY <2>1, <2>2, Untouched DEF HandlerInv, TypeOK
<1> QED
  BY <1>1, <1>2, ArriveKeeps, StoreOnKeeps, SiteKeeps, TickKeeps DEF Next

(* The inductive invariant: the handler's promises, with what the feeds    *)
(* and the requests in progress must satisfy for a step to keep them.      *)
THEOREM HandlerInvariance == Spec => []HandlerInv
BY InitKeeps, NextKeeps, PTL DEF Spec

(* What a reader was last told is current was on the site within the       *)
(* lifetime, the cache's lag and twice the duration of a request.          *)
THEOREM AnswersAreRecent == Spec => []HeldIsRecent
BY HandlerInvariance, PTL DEF HandlerInv

(* No request's query parameters show in another request's answer.         *)
THEOREM AnswersAreOwn == Spec => []RepliesFollowOwnQuery
BY HandlerInvariance, PTL DEF HandlerInv

(* Only whole feeds of the right path from successful fetches are stored.  *)
THEOREM OnlyRawFeedsStored == Spec => []StoredFeedsAreRaw
BY HandlerInvariance, PTL DEF HandlerInv

(* Every variable keeps its shape: a request always stands at a known      *)
(* section and refers to feeds that exist.                                 *)
THEOREM Types == Spec => []TypeOK
BY HandlerInvariance, PTL DEF HandlerInv
=============================================================================
