# Syndi: formal models and proofs

This directory is the verification project kept beside the Syndi source (`src/`, a Go
server that turns web sites into feeds). It holds TLA+ modules translated from the code,
TLC configurations that check them on small instances, and proofs that TLAPS checks for
every value of the constants. `PROJECT.json` maps every definition to the lines it models
and lists the components, runs, mutants, findings, hazards and theorems.

Run a model with `tlc -config BadgerCacheRaces.cfg MCBadgerCache`, check proofs with
`tlapm BadgerCacheProofs.tla`.

## 1. The system

A request `GET /rss/<namespace>/<route>` passes gin middleware (recovery, logger, access
key, headers), then `handlercache.Cached`, which looks the path up in a cache and
otherwise calls the route's handler. The handler fetches pages with the HTTP client (rate
limit per host, retries), may consult the same cache through `Context.CacheTryGet`, and
returns a feed. The raw feed is stored; query parameters (limit, filters, sort, brief) are
applied to a copy of its items, and the result is serialised with an ETag.

| component | source | state it keeps | operations | interacts with |
|---|---|---|---|---|
| two-tier cache | `pkg/cache/badger.go` | hot tier, Badger database, `c.mu`, stop channel, wait group | Get, Set, Exists, Delete, Clear, Close, promotion goroutines, cleanup worker, value-log GC worker | feed handler, routes, server |
| memory cache | `pkg/cache/cache.go` | LRU list, its own lock | the same without persistence, TryGet | hot tier of the above; stand-in when Badger cannot be opened |
| feed handler cache | `internal/handlercache/handler.go` | none of its own | Cached, key, ETag/304, bypass | cache, parameters, routes |
| query parameters | `internal/middleware/parameter.go` | none | filters, time window, sort, limit, brief | feed handler |
| HTTP client | `internal/client/client.go` | token bucket per host, cookie jar | Get/Post..., Wait, retry loop, redirects | routes |
| server lifecycle | `cmd/server.go` | listeners, signal, cache handle | start, drain, close | everything |
| other middleware | `internal/middleware/*.go` | none | access key, headers, log, recovery | gin |
| registry | `pkg/registry/*.go` | routes and namespaces under a lock | Register, look-ups | start-up, docs |
| disguise | `internal/disguise/*.go` | header maps, rotation counter | pick a user agent, headers, nap | client |
| route helpers, context | `internal/routeutils/*.go`, `pkg/context` | none; the cache | CacheFeed, CacheItems, CacheTryGet, sort, filter | routes, cache |
| routes | `routes/*` (about 120 packages) | channels and semaphores of worker pools | bounded parallel fetches | client, cache |
| feed writer, config, docs pages, logger, date and HTML parsers, generators | `pkg/rss`, `pkg/config`, `pkg/docs`, `pkg/logger`, `pkg/utils/date`, `internal/parser`, `scripts` | none or read-only | parsing and rendering | everything |

**What is hard here.** Concurrency: every request runs on its own goroutine, a cache hit
in Badger starts another, two workers share one lock with all of them, and the lock is
released between the sections of one call. Time: lifetimes are computed from several
clock readings, restarted by promotions and compared under different rules in the two
tiers (`time.Now().After(exp)` against Badger's own expiry); token buckets and back-off
are about time only. Failure: cold writes may fail silently, upstreams fail and are asked
again, the process may die between two steps and finds Badger as it was. Sharing: all
requests for a path share one feed object. The hazards are listed in `PROJECT.json`, each
at its line.

**What makes each component correct.**

- *cache*: a key is only answered with a value that was Set for it and not long after its
  lifetime; without a race, a failed write or a crash in the middle of a write, it is the
  latest one, and it stays readable until it expires; calls return; Close waits for the
  workers and completes.
- *feed handler*: nobody sees another request's processing or another path's feed; what a
  200 or a 304 vouches for is recent; only raw successful feeds are stored; every request
  is answered.
- *client*: a host's limiter never lets more through than its burst and what it earned;
  what must not be repeated is sent once, the rest boundedly often and spaced; calls end.
- *items and parameters*: a sorted answer holds the newest items that match; a time window
  may lose items to an ignored unit or an overflow but never lets an older one pass; the two
  implementations of the filters look at the same fields and agree; answering never changes
  which items the shared slice holds; pages fill a feed to its limit and not past it.
- *worker pools*: a feed follows the list whatever order pages arrive in; every pool ends.
- *cached tokens*: an outdated token dies, however late stores interleave; one that is
  checked before it is stored is never empty.
- *server*: every accepted request is answered before the cache is closed, and no goroutine
  of one is left.
- *dates*: a month is never skipped; this, last and next period begin with the day the
  calendar says; a weekday lies in this week or, once it has passed, in the next.

## 2. Modules

| module | models | role |
|---|---|---|
| `HotTier` | `MemoryCache` over golang-lru | data structure: the list, its order, its eviction, its expiry test |
| `BadgerCache` | `BadgerCache`, on top of `HotTier` | the two-tier cache, one action per critical section |
| `CacheContract` | - | abstract specification of a cache, which `BadgerCache` implements |
| `HandlerCache` | `Cached`, `ProcessFeed`'s copy, `Recovery`, the wrapper in `setupGinRoutes` | many requests against a cache of which only the contract is assumed |
| `CachedFeeds` | the calls between `Cached` and its cache | composes `HandlerCache` with a cache that keeps `CacheContract`, and implements `HandlerCache` |
| `UpstreamClient` | `doRequestWithRetry`, `rateLimiter`, `getRateLimiter` | many calls to several hosts |
| `RoutePool` | the bounded fan-out of eight routes | a component, with a specification of its own (`PoolSpec`) |
| `RouteCache` | `CacheTryGet`, `TryGet` and bilibili's tokens | a component, with a specification of its own (`TokenSpec`) |
| `Server` | `main` of `cmd/server.go`, the life of a request | composes `RoutePool` and `RouteCache` |
| `FeedItems` | `ProcessFeed`, `ApplyParameters`, `AppendMappedItems` | operations on the slice that cache and requests share |
| `DateParsing` | `ParseDate` | a pure algorithm over a calendar |
| `MCBadgerCache`, `MCHandlerCache`, `MCUpstreamClient`, `MCServer`, `MCRouteParts` | - | the instances TLC checks, and their symmetry |
| `BadgerCacheProofs`, `BadgerCacheTrustProofs`, `HandlerCacheProofs`, `CachedFeedsProofs`, `UpstreamClientProofs`, `RouteCacheProofs`, `ServerProofs`, `RoutePartsProofs` (feed items and dates) | - | theorems and lemmas |

### BadgerCache

`mem` is the LRU list (most recent first), `cold` maps each key to the decoded Badger
entry, `call[c]` is where client `c`'s current call stands, `promo[s]` a promotion
goroutine that has been started and not run, `mu` who holds `c.mu` *across* steps. A call
that takes `c.mu` for one section only needs `mu = "free"` in that action; the two workers
hold it over several. The steps of a call:

- `Get`/`Exists`: `LookupHit`, or `LookupMiss`, or `LookupExpired` then `LookupDrop` (the
  read lock of the hot tier is released in between); then `ReadCold` (a `Get` starts a
  promotion), `ReadNothing`, or `ReadExpiring` then `PurgeExpired`.
- `Set`: `SetHot`, `SetStamp` (the payload's `Exp` and its encoding), `SetEntry`
  (`WithTTL` reads the clock again), `SetCold`, each with its own clock reading.
- `Delete`: `DeleteHot`, `DeleteCold`. `Clear`: `ClearHot`, `ClearCold` - the second ends
  without any delete, because the write batch belongs to no database.
- workers: `CleanupLock`/`CleanupScan`/`CleanupDelete`/`CleanupStop` and
  `GCLock`/`GCRewrite`/`GCUnlock`/`GCStop`. `CloseSignal`, `CloseDB`; `Restart` at any
  moment; `Tick`.

*Abstractions.* A payload is the number of the Set that wrote it, so that staleness is
visible. `written`, `latest` and `disturbed` are history: what every Set promised, which
Set a key should show, and why its tiers may disagree (a race, a cold write or delete that
failed, a Clear, a crash in a write). A write that begins with nothing else in flight on
its key clears the reasons. The code does not read any of them. What a disturbed key is
excused from is showing the latest value: two racing calls, a promotion that comes late, a
failed write or a Clear may leave the older one, because the code does, and no property
calls that wrong. What still binds such a key is the lifetime bound, and that no other key
and no later undisturbed write of the same one is drawn in. Badger itself is external:
transactions are atomic, an entry is hidden from its native expiry on. Badger may already
hide expired keys from the cleanup's scan, so which expired keys it finds is left open.
`ColdFaults` lets every cold operation fail.

### CacheContract

The promise of a cache in five variables: a lookup may always miss; an answer is a value
Set for that key, over for no longer than `MaxLag`; an undisturbed key is answered with
the latest Set. `BadgerCache` has `Contract == INSTANCE CacheContract WITH ...`, which maps
the contract's variables to its history and its answers, and `ImplementsContract` is
`Contract!Spec`: every step of the detailed model must be a step of the contract or a
stutter. The run `cache_races` checks it, and `KeepsTheContract` proves it for every instance.

### HandlerCache

`heap` holds the feed objects handlers returned, which cache and requests share by
reference; `stored` the Sets a lookup may still be answered with; `req[r]` the request of
reader `r`; `held[r]` and `told[r]` what the reader was last sent and when it was last
told that this is current. The cache is used through what `CacheContract` promises of a
key that is always contended: it may miss at any time and may answer with any Set not over
for longer than `MaxLag` - so the results hold for either cache and any interleaving in
it. Of a query the model keeps one parameter the route reads (`site`) and one that
`ProcessFeed` reads (`brief`, the one that writes into items). A nil feed leads to
`"panic"`, which only `Recover` answers. A Set takes time (`"store"`): `Store` makes the entry
visible, and `StoreOn` may move its expiry on, because `Set` reads the clock once for each
tier. A request may take arbitrarily long to read the site; `MaxWork` bounds the time from
that read (or from a hit) to the answer.

### CachedFeeds

`HandlerCache` takes its cache for a set of entries that may answer. `CachedFeeds` has the
variables of `CacheContract` in place of that set, and `fed[v]`, the feed object that Set `v`
stored; each call to the cache is an action of the contract conjoined with what the handler
does (`GetHit`, `GetMiss`, `SetFeed`, `SetGoesOn`), and what a cache suffers by itself
(`CacheSuffers`) comes at any time. `Stored` computes the entries from what the Sets promise,
and `HandlerImplemented` is `HandlerCache`'s `Spec` under that substitution. Since
`BadgerCache` implements the contract, this closes the gap between the two models: what
`HandlerCache` assumes of a cache is what the real one keeps. The module has no run: it adds
no behaviour to the two specifications it conjoins, which `cache_races` and the `handler_`
runs check, and that their conjunction implements `HandlerCache` is proved.

### UpstreamClient

`made[h]` lists every limiter ever made for a host, `table[h]` the one `getRateLimiter`
finds now; a call keeps the one it found (`lim`) while it waits, as the code does. Tokens
are counted in the time they take to earn: one unit per tick, `Cost` units a request,
`Burst` units a full bucket, one rate for all hosts. `Wait` is `TakeToken`/`NoToken` (one
pass under `rl.mu`) and `WakeUp`; the one tick added to the sleep is the code's extra
millisecond. `FailedAttempt` is every way into the next attempt: a transport error, an
unreadable body, a retryable status, with or without Retry-After. A header says how long
the server asks to be left alone and whether it says so in seconds, which `Atoi` reads, or
by an HTTP date, which changes nothing. `grants`, `sent` and `earliest` (what the answer
before a retry asked for) are history. Statuses that are not retried end the call like a
success. Redirects, cookies and the parsing helpers are left out.

### RoutePool, RouteCache and Server

`RoutePool`: `pool[r]` is the fan-out of request `r`: `"feed"` while hackernews' loop
writes to its unbuffered channel, `"await"` in `wg.Wait`, `"over"` when the route goes on;
`job[i]` is where page `i` stands and `out[i]` what its goroutine wrote to its place (its
own number, so that an item in the wrong place shows). `Kinds` says what distinguishes the
eight routes: channel or semaphore, and whether a page that fails is skipped, replaced by
what the list said of it, or fails the request.

`RouteCache`: a token is the number of the site's key it was read from, 0 an empty one.
`since[k]` is when each key came into force, `entry[k]` what the cache holds, `try[r]` how
far request `r` is between look-up, computation, `Set` and use. These values are not
registered with gob, so Badger never has them and any miss is possible at any time.
`MaxWork` bounds the time between two steps of a request.

`Server` puts both under requests (`req[r]`: connected, looked up, in its pool or after its
token, storing, answering) and these under the process (`phase`). Each action of a part
is conjoined with what the server does around it; `PoolStep` and `TokenStep` are literally
the parts' actions. `Leave` is a client that goes away, which only ends the context that
hackernews' loop looks at. `TimeUp`, `ServeFails` and `WorkerPanics` end the process
where it stands. net/http is external: `Shutdown` refuses connections and waits.

### FeedItems and DateParsing

`items` is the slice a feed and the cache share, `reply` the latest answer with the query
it was for and the slice it was made from. `Process` and `Apply` are the two pipelines
(`middleware/parameter.go`, `routeutils/filter.go`), `Collect` one page through
`AppendMappedItems`. A stage says which *places* of the slice it keeps; `sort.Slice` is any
order that the comparator allows (`Orders`), so nothing is assumed of equal items. Durations
wrap at `Range64`. Patterns are names, and how each field of an item answers to one is part
of the item; `ServerFields` and `RouteFields` are the fields the two matchers look at. A
number is what `Sscanf("%d")` reads of a text; the unit it goes on with, which the code
ignores, is kept for the property that compares the two.
`ApplyParameters` has no caller in the repository that passes it a cached slice; that it
may reorder the slice it is given is part of the model.

`DateParsing`: a text is a record of what it says; the four parsers are tried in the order
of the code, each with what it finds by substring search. Times are seconds in one time
zone; `AddDate`, `Date` and `Weekday` are package time's, over the Gregorian
calendar: a day is found in its year and month by the days before them, with leap years by
the rule of 4, 100 and 400.

## 3. Runs

| run | instance | distinct states | what it shows |
|---|---|---|---|
| `cache_races` | 1 key, 2 clients, 2 promotions at once, TTL 1-2, 2 Sets, clock to 2 | 387 k | lifetimes, tiers disagree only for a named reason, implements the contract |
| `cache_tiers` | 2 keys in an LRU of 1, one not encodable, cleanup on, 1 restart | 831 k | eviction, expiry, cleanup and restart lose nothing live and serve nothing stale |
| `cache_lifecycle` | both workers, Close, failing cold operations, 1 restart; fair | 47 k | no worker outlives Close, calls return, Close completes |
| `handler_requests` | 2 readers, 2 paths (one uncached), brief and bypass on and off; fair | 188 k | isolation, raw feeds only, every request answered |
| `handler_age` | 2 readers, 1 path, 2 fetches, 1 site change, clock to 4 | 2.07 M | the age bound |
| `client_calls` | 2 calls, 2 hosts (one configured), 1 retry, Retry-After none, 2 or 4 seconds or a date; fair | 661 k | rate bound, retries, every call ends |
| `server_pools` | 1 request that fans out to 2 or 3 pages over 2 slots in four kinds of route, 1 that needs a token; fair | 597 k | order, clean exit, every pool ends |
| `route_parts` | slices of up to 4 items, 48 queries, 2 page lists; 98 phrases at 94 clock readings; 3 requests for 1 token | 71 k | both pipelines, dates, tokens |
| `cache_failed_write`, `handler_query`, `client_limiter_race`, `empty_feed_cached` | smallest that shows it | - | the findings of section 5 |

*Why the bounds are enough.* `cache_races`: all interesting orders are between two calls
and up to two promotions on one key; two versions are the least that can be confused.
`MaxLag = 1` lets a
promotion sleep over a tick, and TTL 1 with the clock to 2 lets entries expire in both
tiers. `cache_tiers` gives the LRU fewer places than keys. `cache_lifecycle` needs one
entry, both workers and a GC round of two rewrites. `handler_age`: the clock goes to 4 =
`MaxAge` (TTL 1 + lag 0 + 2 x work 1) + 1, so that a body one tick too old can be seen.
`client_calls`: `Burst = Cost` makes the second request wait; `MaxDelay` is 3, and a
Retry-After is below it (2 seconds, doubled and capped), above it (4 seconds, cut to 3: the
retry comes too early) or a date. `server_pools`: three pages for two slots let one wait, and pages arrive in any
order; the token request is cut to a lifetime of 0, its timing is the business of
`route_parts`. `route_parts`: the three parts share no state, so a behaviour is about one of
them (the phrase says which); queries have windows in seconds and with a unit, and on both sides of `Range64`, limits on
both sides of the number of items, broken patterns and numbers that cannot be read; the
clock readings are both sides of the ends of months in 1972, 1973 and 2000 (a century with a
leap day), and all weekdays; three requests are the least in which a late store follows a replaced key and is
hit. What holds beyond these sizes is the business of section 4. Bounds are
constants: `MaxNow`, `MaxVersions`, `MaxRestarts`, `MaxChanges`, `MaxFetches`,
`IdleUntil`, `MaxItems`, `MaxKeys`; `MaxLag` and `MaxWork` bound delays and appear in the properties.

*Deadlock* is checked in every run but `route_parts`, where a date that has been parsed is
the end. `UpstreamClient` has an explicit `Finished` step, `Server` an `Ended` one.

*Symmetry* (readers; clients and promotion slots) is used only in runs without liveness
properties.

*Fairness.* Weak fairness on a goroutine's next step: the Go scheduler runs what is
runnable, timers fire, and `http.Client.Timeout` ends every request. Strong fairness on a
cache call that waits for `c.mu` (`Resume`) and on a worker leaving its `select`
(`CleanupStop`, `GCStop`): `sync.RWMutex` does not pass a waiter over for ever, and
`select` chooses uniformly among ready cases, so the stop channel, once closed, is taken
eventually. No fairness on clients beginning calls, on ticks of the cache's clock, on
`Restart`, or on the tickers. `Server` assumes weak fairness of a request's next step alone:
its goroutines run and each fetch ends by the client's timeout; a connection that sends
nothing is ended by `ReadHeaderTimeout`. Nothing makes clients connect or signals come.

## 4. Proofs

Everything below is for all values of the constants under the named assumptions
(`CapacityAssumption`, `ConfigAssumption`, `HandlerAssumption`, `ClientAssumption`,
`TokenAssumption`, `PoolAssumption`, `ServerAssumption`, `FeedAssumption`, `DateAssumption`:
sizes and times are naturals, sets are what they are sets of, a bucket can hold one request
and a pool one goroutine, no request is of two kinds).
TLC checks every property first, on the runs of section 3.

- **TypeCorrect** (`BadgerCacheProofs`): `TypeOK` is inductive once what the LRU
  operations preserve is known, which is proved first, by cases on whether the key
  is in the list and where an index falls relative to its place. It includes that the LRU
  keeps at most one entry per key and at most `Capacity` entries.
- **CloseWaitsForWorkers**, **CleanupIsExact** (`BadgerCacheProofs`): both from
  `MutexInv`, which says who holds `c.mu` in which worker state, that both workers are
  done once the database is closed, and that every key found by a scan is expired while
  the lock is held. `NoWorkerOutlivesClose` alone is not inductive: nothing in it says
  that a free lock means no scan is on.
- **EntriesDieInTime**: `NeverServedPastItsLifetime` from `LifetimeInv`. What memory and
  Badger hold does not suffice: entries come from Sets in progress and from promotions
  in flight, so the invariant also bounds what a Set has stamped so far by what the
  history promises (and the history by what it will stamp), keeps two Sets in progress
  from sharing a version, and bounds a promotion by the expiry of the entry it read and by
  how long ago it read it. The step that matters is `Promote`: read time + remaining
  lifetime is covered, and now is at most `MaxLag` after the read time.
- **LatestIsServed**, **SetsAreKept**, **KeepsTheContract** (`BadgerCacheTrustProofs`):
  `OnlyTheLatestIsServed` speaks of quiet keys, so it says nothing of the steps in between.
  `TrustInv` does: while nothing is on record against a key, memory and every promotion in
  flight hold what the latest write left; while a write is on, nobody else is at the key
  and Badger is that write's business; once it is over, Badger agrees too. A step keeps a
  key (`KeyStep`) or begins to write it (`WriteStarts`); the record of a race is exactly
  what rules out the other interleavings. `KeptInv` adds the other direction (the entry is
  still there and lives long enough): what a Set is about to write has the expiry the
  history promises, and what a lookup is about to purge has expired. With `LifetimeInv` and
  `TrustInv` every answer is `Trustworthy`, so every step is a step of `CacheContract` or
  leaves its variables alone: the refinement holds for every instance.
- **HandlerInvariance** and its consequences **AnswersAreRecent**, **AnswersAreOwn**,
  **OnlyRawFeedsStored** (`HandlerCacheProofs`): `HandlerInv` adds to the three promises
  what is known of every feed object (whole, no newer than the clock, of a version shown
  when it was read), of every request by the step it has reached, and of when a reader
  was told. A 304 is the case that needs it: the reader's body is as recent as the
  processed one it equals, not as when it was received.
- **ContractSuffices** (`CachedFeedsProofs`): the handler over a cache that keeps
  `CacheContract` implements `HandlerCache`, step by step: a hit is a hit of the entry that
  the answering Set stands for, a Set adds its entry, a tick drops what nobody can be answered
  with any more, and what the cache suffers by itself is a stutter. The step that needs an
  invariant is the Set that goes on (`SetGoesOn`): it replaces exactly its own entry only if no
  other Set stored the same feed. `OwnFeeds` says so, for requests that still have the feed in
  hand as well as for Sets (**FeedInvariance**). `HandlerCacheProofs` is instantiated with the
  same substitution, so its promises hold of the composition (**FeedsAreRecent**,
  **FeedsFollowOwnQuery**, **OnlyRawFeedsPromised**).
- **ClientInvariance** and **LimitersGrantWithinBurst**, **RetriesBoundedAndSpaced**,
  **ConfiguredHostsKeepRate** (`UpstreamClientProofs`): `ClientInv` is a conservation law:
  for every grant, the tokens left plus the cost of all grants since are at most a full
  bucket plus the time since. Taking a token moves `Cost` from one side to the other,
  refilling adds at most the time passed, and the bound on any interval is the law at its
  end. A configured host has its limiter in the table from the start, so no call finds
  none, so it has one limiter for ever, and the host's bound is the limiter's.
- **RetryAfterObeyed** (`UpstreamClientProofs`): the back-off after an answer ends no
  earlier than its Retry-After, or the cap counted from the attempt (`DelayObeys`), and the
  invariant `CallsObey` carries that date through the limiter to the next request.

- **OutdatedDie**, **CheckedUsable** (`RouteCacheProofs`), both from **TokenInvariant**:
  what the cache and each request hold of a token was in force not long before the request
  read it, and the entry's expiry follows from the time of that read. `OutdatedTokensDie`
  speaks of the moment of refusal only; the invariant carries the bound through every step
  that hands a token on: read, late store, hit.
- **ServerImplementsPools**, **ServerImplementsTokens** (`ServerProofs`): every step of the
  server is a step of the part or leaves it alone, so **PoolsInvariant** and TokenInvariant,
  proved of the parts by themselves, hold of the server. **ServerTypes** and
  **ExitIsClean** add `MainInv`, which ties the three together: a pool is at work exactly
  while its request waits for it, a token is only sought by a request that is being served,
  and past draining nobody is. The number of requests, pages and slots is arbitrary.
- **FeedsFollowTheList** (`ServerProofs`): what a route adds to its feed is the pages' places
  without the empty ones (`WithoutNil`). That its result is increasing and holds exactly the
  places that were filled goes by induction over the number of places, stated for a set
  of numbers (lemma `Induction`), since the prover cannot take a predicate as a parameter: a
  least number outside the set would have a predecessor in it. `FeedInv`, beside `PoolInv` and
  `MainInv`, then says what the place of each page holds, waiting, lost or arrived, that only a
  client that has gone leaves a page unsent, and that the feed to store, and the one stored, is
  what the gathered pool yielded.
- **NewestAreKept**, **FiltersAreOne**, **WindowsErr**, **SliceKeepsItems**,
  **PagesFillToLimit** (`RoutePartsProofs`): `AnswerInv` says of each answer that it is an
  order of the places its pipeline keeps, capped; what a cap leaves of a sorted list follows
  by the position of the item. `WindowsErr` is arithmetic modulo the width of durations: a
  length past `Range64` can only move the cut-off later (`WrapsUp`), and a unit is at least
  one second.
  `PagesFillToLimit` counts usable entries: the last one chosen has fewer than the room left
  before it, and the first one not chosen at least that many.

- **WeekdaysFollow**, **PeriodsFollow**, **MonthsAgo** (`RoutePartsProofs`), for every clock and
  every phrase: the calendar is first proved to be one. A year has 365 days or 366
  (`YearLength`), n years at most n leap days (`LeapDaysSpan`), n months in a row between
  30n - 2 and 31n days (`MonthSpan`, by months counted from January 1970), and every day lies in
  exactly one year and one month (`YearFound`, `MonthFound`), so the `CHOOSE`s of `YearOf` and
  `MonthOf` are what they should be. The day before the first
  of a month (`MonthStarts`) or a year (`YearStarts`) is in the one before, and a day is found
  from its week and its place in it (`DayInWeek`, `WeekStarts`); a month ago is the same clock time in the month with the
  previous number, past the end of that month if it is shorter, as package time has it.

*Only model-checked:* all liveness properties (out of the prover's reach), and the findings. No
theorem says that the order of the four date parsers is the right one: that is what the
model has, and `WeekdaysFollowTheCalendar` is stated with it.

## 5. Where code and documentation disagree

| run | the text | the code |
|---|---|---|
| `cache_failed_write` | `badger.go:205` "a failed cold write only costs a future cache miss" | the older value stays in Badger and is served after eviction |
| `handler_query` | `handler.go:217` query parameters "are applied per request" | parameters a route reads itself are not: the first query's feed answers all |
| `client_limiter_race` | `client.go:95` "10 requests per second with burst of 10" | two first calls each make a limiter: two bursts |
| `empty_feed_cached` | `handler.go:229` "Don't cache if feed is nil or empty" | only nil is tested: a feed without items is stored for its whole lifetime |

Also seen, without a run:

- `badger.go:284`: Clear collects its deletes in a zero `WriteBatch`, which belongs to no
  database, so Badger keeps everything (`badger.go:271` "removes all entries from both").
- `badger.go:167`: a late promotion may put an older value back into memory (`badger.go:180`
  "stores a value in both Memory and Badger"). Both are in the model: they are reasons for
  which `OnlyTheLatestIsServed` excuses a key.
- `client.go:309`: a Retry-After is doubled and cut to `maxDelay` (`CLIENT_CONFIG.md:40`
  "Retry-After header is respected"); `RetryAfterHoldsUpToTheCap` says what does hold. One
  that gives an HTTP date fails `Atoi` (`client.go:302`) and is ignored, and one of more
  than 9223372036 seconds overflows (`client.go:303`), both against the same line and
  `ARCHITECTURE.md:190`.
- `ARCHITECTURE.md:132` offers `filter_time` values with units (`168h`, `7` days), which
  `parameter.go:162` and `filter.go:98` read as so many seconds: a week becomes under three
  minutes, and a window that is documented as wider may keep less. `WindowsErrByLeavingOut`
  has the unit and says what does hold: what is lost is lost silently, but nothing older
  than the window that was asked for gets in.
- `ARCHITECTURE.md:236` closes the cache after requests are drained, and says that Badger
  must be closed; when they do not drain in time, `server.go:173` ends the process with Fatal
  before that. `CleanExit` speaks of the orderly exit only; a killed process satisfies it.
- `CLIENT_CONFIG.md:32-35` limits retries to a list of statuses; the code also retries
  transport errors and unreadable bodies.
- `parser.go:151` "Weekday names (this week)": a weekday that has passed is the next week's,
  so on a Wednesday "Monday" is five days ahead. "last monday" on a Wednesday is this week's
  Monday, on a Monday the one before. In Chinese a `last' before a weekday changes nothing
  (`parser.go:271-277`), so last Monday is a day to come. `WeekdaysFollowTheCalendar` is
  stated of the code, with the week each case lands in.
- `parser.go:325`, `331`, `336` "Start of this / last / next week": Monday, but at the present
  time of day; months and years do begin at midnight. `PeriodsFollowTheCalendar` states both.
- `parser.go:170`: "3 months ago" contains "mon" and is read as a Monday, and so is "last
  month", a week back as `last' makes it; `parser.go:60`: a
  compact date is read as a Unix timestamp; `parser.go:304`: a Chinese date with a time of
  day loses it.
- `bilibili.go:231`: an empty pair of visitor ids is cached for a day.

## 6. Not modelled

- *Rendering and parsing*: `pkg/rss`, `pkg/docs`, `pkg/logger`, `internal/parser`: pure
  functions of strings and trees; a model of them would be the code again.
- *The scrapers*: `routes/*` has about 120 packages and most of the repository's 39 thousand
  lines: each requests one site, walks its markup and builds items. What they have beyond
  that (concurrency, cached values, limits, dates) is in `RoutePool`, `RouteCache`,
  `FeedItems` and `DateParsing`. This is why the map covers a small part of all lines: all
  code outside the scrapers is a quarter of them.
- *Configuration, registry, generators*: filled once before the server listens and read-only
  from then on. *Stateless middleware* is a few lines each; *disguise* is an atomic counter
  and tables of header texts.
- *HTTP client*: redirects, the cookie jar, proxies, a Retry-After that overflows a duration,
  and a limiter without capacity (`client.go:226`: a rate below 1 and no burst, which no
  caller asks for), at which every call waits until its context ends. *Feed handler*: invalidation and
  statistics, which nothing calls. *Dates*: layouts of `time.Parse`, milliseconds, zones.

What would come next: `RouteCache` over the contract as well, and one module with
`BadgerCache` itself under the feed handler, so that its lag is the contract's by construction.
