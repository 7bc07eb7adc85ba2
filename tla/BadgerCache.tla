---------------------------- MODULE BadgerCache ----------------------------
(***************************************************************************)
(* The two-tier cache of pkg/cache/badger.go: an in-memory LRU (hot) in    *)
(* front of a Badger database (cold).  Every critical section of the code  *)
(* is one action; what the code does between two sections - releasing      *)
(* memory.mu before taking c.mu, computing an expiry before waiting for    *)
(* the lock, starting a goroutine - is where other calls interleave.       *)
(*                                                                         *)
(* Payloads are abstracted to the identity of the Set that wrote them: the *)
(* n-th Set call writes version n.                                         *)
(***************************************************************************)
EXTENDS HotTier

CONSTANTS
  Client,        \* goroutines calling the cache (HTTP requests)
  Slot,          \* goroutines available to run promoteToMemory at once
  TTL,           \* the lifetimes callers pass to Set
  Unencodable,   \* keys whose values gob cannot encode: never reach Badger
  CleanupOn,     \* cleanupInterval > 0
  GCOn,          \* GCInterval > 0
  MaxGCCycles,   \* maxGCCyclesPerTick
  ColdFaults,    \* may Badger reads and writes fail?
  MayClose,      \* does the program call Close while the cache is in use?
  MaxNow,        \* bound: the clock stops here
  MaxVersions,   \* bound: how many Set calls
  MaxRestarts,   \* bound: how many process restarts
  MaxLag         \* bound: how long a started promotion may stay unscheduled

ASSUME ConfigAssumption ==
  /\ Key # {}
  /\ TTL \subseteq Nat
  /\ Unencodable \subseteq Key
  /\ CleanupOn \in BOOLEAN /\ GCOn \in BOOLEAN /\ ColdFaults \in BOOLEAN /\ MayClose \in BOOLEAN
  /\ {MaxGCCycles, MaxNow, MaxVersions, MaxRestarts, MaxLag} \subseteq Nat

VARIABLES
  cold,       \* Badger: per key the decoded entry, or NoCold
  call,       \* per client: the step its current call has reached
  promo,      \* per slot: a promotion that has been started but has not run
  mu,         \* who holds c.mu across steps: "free", "cleanup" or "gc"
  cleaner,    \* cleanupLoop: "wait", "scan", "delete" or "done"
  found,      \* cleanupBadger's keysToDelete
  gc,         \* valueLogGCLoop: "wait", "run" or "done"
  gcCycle,    \* loop counter of runValueLogGC
  stop,       \* stopBackground is closed
  open,       \* the Badger database is open
  restarts,   \* restarts so far
  written,    \* history: per version its key and the latest expiry given out
  answer,     \* per client: what its last Get returned
  latest,     \* history: the version each key should have now, 0 if none
  disturbed   \* history: why a key's tiers may disagree, {} if they may not

calls      == <<call, answer>>
background == <<mu, cleaner, found, gc, gcCycle>>
lifecycle  == <<stop, open, restarts>>
history    == <<written, latest, disturbed>>
vars == <<mem, now, cold, calls, promo, background, lifecycle, history>>

-----------------------------------------------------------------------------
(* The states of one call. "idle" between calls; the other names are the   *)
(* section the call is about to enter.                                     *)
Lookups  == {"drop", "read", "purge"}
Writes   == {"stamp", "entry", "write", "erase", "clear"}
Steps    == {"idle"} \cup Lookups \cup Writes

NoCold   == [ver |-> 0, exp |-> 0, native |-> 0]
NoPromo  == [key |-> CHOOSE k \in Key : TRUE, ver |-> 0, rem |-> 0, read |-> 0]
IdleCall == [at |-> "idle", op |-> "none", key |-> CHOOSE k \in Key : TRUE,
             ver |-> 0, ttl |-> 0, exp |-> 0, native |-> 0]
NoAnswer == [ver |-> 0, key |-> CHOOSE k \in Key : TRUE, time |-> 0]

ColdEntry == [ver : Nat, exp : Int, native : Int]
Promotion == [key : Key, ver : Nat, rem : Int, read : Nat]
CallState == [at : Steps, op : {"none", "get", "exists", "set", "delete", "clear"},
              key : Key, ver : Nat, ttl : Nat, exp : Int, native : Int]
Answer    == [ver : Nat, key : Key, time : Nat]
WriteRecord == [key : Key, due : Nat]
Reason    == {"race", "unwritten", "undeleted", "clear", "restart"}
Causes    == [Key -> SUBSET Reason]

Started   == [cleaner |-> IF CleanupOn THEN "wait" ELSE "done",
              gc      |-> IF GCOn THEN "wait" ELSE "done"]

(* Badger's own expiry: an entry is hidden from reads from `native' on. *)
InCold(k)   == cold[k].ver # 0
ColdLive(k) == open /\ InCold(k) /\ cold[k].native > now

(* Does a call or a promotion in flight touch key k?                       *)
Touching(c, k)  == call[c].at # "idle" /\ (call[c].key = k \/ call[c].at = "clear")
WritingTo(c, k) == Touching(c, k) /\ call[c].at \in Writes
Promoting(k)    == \E s \in Slot : promo[s].ver # 0 /\ promo[s].key = k
Quiet(k)        == ~Promoting(k) /\ \A c \in Client : ~Touching(c, k)
Contended(c, k) == Promoting(k) \/ \E d \in Client \ {c} : Touching(d, k)

(* A write that begins alone repairs what happened before it; a write that *)
(* overlaps anything on its key leaves the outcome to the interleaving.    *)
AfterWriteStart(c, k) == IF Contended(c, k) THEN disturbed[k] \cup {"race"} ELSE {}
AfterReadStart(c, k) ==
  IF \E d \in Client \ {c} : WritingTo(d, k)
  THEN disturbed[k] \cup {"race"} ELSE disturbed[k]

Init ==
  /\ mem = <<>> /\ now = 0
  /\ cold = [k \in Key |-> NoCold]
  /\ call = [c \in Client |-> IdleCall]
  /\ answer = [c \in Client |-> NoAnswer]
  /\ promo = [s \in Slot |-> NoPromo]
  /\ mu = "free" /\ found = {} /\ gcCycle = 0
  /\ cleaner = Started.cleaner /\ gc = Started.gc
  /\ stop = FALSE /\ open = TRUE /\ restarts = 0
  /\ written = <<>>
  /\ latest = [k \in Key |-> 0]
  /\ disturbed = [k \in Key |-> {}]

-----------------------------------------------------------------------------
(* Get and Exists.                                                         *)

Begin(c, op, at, k) ==
  call' = [call EXCEPT ![c] = [IdleCall EXCEPT !.at = at, !.op = op, !.key = k]]
Return(c) == call' = [call EXCEPT ![c] = IdleCall]
Answered(c, k, ver) == answer' = [answer EXCEPT ![c] = [ver |-> ver, key |-> k, time |-> now]]
Unanswered(c) == answer' = [answer EXCEPT ![c] = NoAnswer]

(* memory.Get / memory.Exists, a hit *)
LookupHit(c, k) ==
  /\ call[c].at = "idle"
  /\ HotFresh(k)
  /\ HotTouch(k)
  /\ Answered(c, k, HotOf(k).ver)
  /\ UNCHANGED <<now, cold, call, promo, background, lifecycle, history>>

(* memory.Get / memory.Exists, no entry: go on to Badger *)
LookupMiss(c, op, k) ==
  /\ call[c].at = "idle"
  /\ ~Cached(k)
  /\ Begin(c, op, "read", k)
  /\ Unanswered(c)
  /\ disturbed' = [disturbed EXCEPT ![k] = AfterReadStart(c, k)]
  /\ UNCHANGED <<mem, now, cold, promo, background, lifecycle, written, latest>>

(* memory.Get / memory.Exists, an expired entry: the read lock is released *)
(* before Delete takes the write lock.                                     *)
LookupExpired(c, op, k) ==
  /\ call[c].at = "idle"
  /\ HotExpired(k)
  /\ HotTouch(k)
  /\ Begin(c, op, "drop", k)
  /\ Unanswered(c)
  /\ disturbed' = [disturbed EXCEPT ![k] = AfterReadStart(c, k)]
  /\ UNCHANGED <<now, cold, promo, background, lifecycle, written, latest>>

(* the Delete of that expired entry: it drops whatever the key holds now *)
LookupDrop(c) ==
  /\ call[c].at = "drop"
  /\ HotDrop(call[c].key)
  /\ call' = [call EXCEPT ![c].at = "read"]
  /\ UNCHANGED <<now, cold, answer, promo, background, lifecycle, history>>

(* mutant: Get hands promoteToMemory the absolute expiry, not what is left *)
ReadCold_AbsoluteTTL(c) ==
  LET k == call[c].key IN
  /\ call[c].at = "read" /\ mu = "free" /\ ColdLive(k)
  /\ Answered(c, k, cold[k].ver)
  /\ Return(c)
  /\ \E s \in Slot : /\ promo[s] = NoPromo
                     /\ promo' = [promo EXCEPT ![s] =
                          [key |-> k, ver |-> cold[k].ver, rem |-> cold[k].exp, read |-> now]]
  /\ UNCHANGED <<mem, now, cold, background, lifecycle, history>>

(* badger.View under c.mu.RLock found a live entry. Get returns it and     *)
(* starts a goroutine to promote it; Exists only answers.                  *)
ReadCold(c) ==
  LET k == call[c].key IN
  /\ call[c].at = "read"
  /\ mu = "free"
  /\ ColdLive(k)
  /\ Answered(c, k, cold[k].ver)
  /\ Return(c)
  /\ IF call[c].op = "get"
     THEN \E s \in Slot :
            /\ promo[s] = NoPromo
            /\ promo' = [promo EXCEPT ![s] =
                 [key |-> k, ver |-> cold[k].ver, rem |-> cold[k].exp - now, read |-> now]]
     ELSE UNCHANGED promo
  /\ UNCHANGED <<mem, now, cold, background, lifecycle, history>>

(* badger.View found nothing, failed, or the database is closed *)
ReadNothing(c) ==
  /\ call[c].at = "read"
  /\ mu = "free"
  /\ ~ColdLive(call[c].key) \/ ColdFaults
  /\ Return(c)
  /\ UNCHANGED <<mem, now, cold, answer, promo, background, lifecycle, history>>

(* the entry expired between txn.Get and IsDeletedOrExpired: expired = true *)
ReadExpiring(c) ==
  LET k == call[c].key IN
  /\ call[c].at = "read"
  /\ mu = "free"
  /\ open /\ InCold(k) /\ cold[k].native = now
  /\ call' = [call EXCEPT ![c].at = "purge"]
  /\ UNCHANGED <<mem, now, cold, answer, promo, background, lifecycle, history>>

(* deleteExpiredKey, after the read lock has been released *)
PurgeExpired(c) ==
  /\ call[c].at = "purge"
  /\ mu = "free"
  /\ \/ open /\ cold' = [cold EXCEPT ![call[c].key] = NoCold]
     \/ (ColdFaults \/ ~open) /\ UNCHANGED cold
  /\ Return(c)
  /\ UNCHANGED <<mem, now, answer, promo, background, lifecycle, history>>

(* promoteToMemory *)
Promote(s) ==
  LET p == promo[s] IN
  /\ p # NoPromo
  /\ promo' = [promo EXCEPT ![s] = NoPromo]
  /\ IF p.rem <= 0 THEN UNCHANGED mem ELSE HotAdd(p.key, p.ver, now + p.rem)
  /\ UNCHANGED <<now, cold, calls, background, lifecycle, history>>

-----------------------------------------------------------------------------
(* Set: memory.Set, then setInBadger.                                      *)

SetHot(c, k, ttl) ==
  LET ver == Len(written) + 1 IN
  /\ call[c].at = "idle"
  /\ ver <= MaxVersions
  /\ HotAdd(k, ver, now + ttl)
  /\ written' = Append(written, [key |-> k, due |-> now + ttl])
  /\ latest' = [latest EXCEPT ![k] = ver]
  /\ disturbed' = [disturbed EXCEPT ![k] = AfterWriteStart(c, k)]
  /\ call' = [call EXCEPT ![c] = [IdleCall EXCEPT
                !.at = "stamp", !.op = "set", !.key = k, !.ver = ver, !.ttl = ttl]]
  /\ Unanswered(c)
  /\ UNCHANGED <<now, cold, promo, background, lifecycle>>

(* Exp: time.Now().Add(ttl) goes into the payload, then gob encodes it *)
SetStamp(c) ==
  LET w == call[c] IN
  /\ w.at = "stamp"
  /\ IF w.key \in Unencodable
     THEN Return(c) /\ UNCHANGED written
     ELSE /\ call' = [call EXCEPT ![c].at = "entry", ![c].exp = now + w.ttl]
          /\ written' = [written EXCEPT ![w.ver].due = now + w.ttl]
  /\ UNCHANGED <<mem, now, cold, answer, promo, background, lifecycle, latest, disturbed>>

(* WithTTL(ttl) reads the clock again, before the lock is taken *)
SetEntry(c) ==
  LET w == call[c] IN
  /\ w.at = "entry"
  /\ call' = [call EXCEPT ![c].at = "write", ![c].native = now + w.ttl]
  /\ written' = [written EXCEPT ![w.ver].due = now + w.ttl]
  /\ UNCHANGED <<mem, now, cold, answer, promo, background, lifecycle, latest, disturbed>>

(* badger.Update under c.mu; its error is discarded *)
SetCold(c) ==
  LET w == call[c] IN
  /\ w.at = "write"
  /\ mu = "free"
  /\ \/ /\ open
        /\ cold' = [cold EXCEPT ![w.key] = [ver |-> w.ver, exp |-> w.exp, native |-> w.native]]
        /\ UNCHANGED disturbed
     \/ /\ ColdFaults \/ ~open
        /\ disturbed' = [disturbed EXCEPT ![w.key] = @ \cup {"unwritten"}]
        /\ UNCHANGED cold
  /\ Return(c)
  /\ UNCHANGED <<mem, now, answer, promo, background, lifecycle, written, latest>>

(* mutant: Delete forgets the memory tier *)
DeleteHot_ColdOnly(c, k) ==
  /\ call[c].at = "idle"
  /\ latest' = [latest EXCEPT ![k] = 0]
  /\ disturbed' = [disturbed EXCEPT ![k] = AfterWriteStart(c, k)]
  /\ Begin(c, "delete", "erase", k)
  /\ Unanswered(c)
  /\ UNCHANGED <<mem, now, cold, promo, background, lifecycle, written>>

-----------------------------------------------------------------------------
(* Delete and Clear.                                                       *)

(* mutant: Delete forgets Badger *)
DeleteCold_HotOnly(c) ==
  /\ call[c].at = "erase" /\ mu = "free"
  /\ Return(c)
  /\ UNCHANGED <<mem, now, cold, answer, promo, background, lifecycle, history>>

DeleteHot(c, k) ==
  /\ call[c].at = "idle"
  /\ HotDrop(k)
  /\ latest' = [latest EXCEPT ![k] = 0]
  /\ disturbed' = [disturbed EXCEPT ![k] = AfterWriteStart(c, k)]
  /\ Begin(c, "delete", "erase", k)
  /\ Unanswered(c)
  /\ UNCHANGED <<now, cold, promo, background, lifecycle, written>>

DeleteCold(c) ==
  LET k == call[c].key IN
  /\ call[c].at = "erase"
  /\ mu = "free"
  /\ \/ open /\ cold' = [cold EXCEPT ![k] = NoCold] /\ UNCHANGED disturbed
     \/ /\ ColdFaults \/ ~open
        /\ disturbed' = [disturbed EXCEPT ![k] = @ \cup {"undeleted"}]
        /\ UNCHANGED cold
  /\ Return(c)
  /\ UNCHANGED <<mem, now, answer, promo, background, lifecycle, written, latest>>

ClearHot(c) ==
  /\ call[c].at = "idle"
  /\ HotPurge
  /\ latest' = [k \in Key |-> 0]
  /\ disturbed' = [k \in Key |-> AfterWriteStart(c, k) \cup {"clear"}]
  /\ Begin(c, "clear", "clear", IdleCall.key)
  /\ Unanswered(c)
  /\ UNCHANGED <<now, cold, promo, background, lifecycle, written>>

(* The batch is a zero badger.WriteBatch: it was not made by c.badger and   *)
(* holds no transaction, so no delete reaches the database (the call ends  *)
(* in a nil dereference; the deferred unlock still runs).                  *)
ClearCold(c) ==
  /\ call[c].at = "clear"
  /\ mu = "free"
  /\ Return(c)
  /\ UNCHANGED <<mem, now, cold, answer, promo, background, lifecycle, history>>

-----------------------------------------------------------------------------
(* Background workers.                                                     *)

(* mutant: the scan runs without the lock *)
CleanupLock_Unlocked ==
  /\ cleaner = "wait" /\ mu = "free"
  /\ cleaner' = "scan"
  /\ UNCHANGED <<mem, now, cold, calls, promo, mu, found, gc, gcCycle, lifecycle, history>>

(* the ticker fires: cleanupBadger takes c.mu *)
CleanupLock ==
  /\ cleaner = "wait" /\ mu = "free"
  /\ cleaner' = "scan" /\ mu' = "cleanup"
  /\ UNCHANGED <<mem, now, cold, calls, promo, found, gc, gcCycle, lifecycle, history>>

(* mutant: the scan takes an entry in its last second for expired *)
CleanupScan_Early ==
  /\ cleaner = "scan"
  /\ found' \in SUBSET {k \in Key : InCold(k) /\ cold[k].native <= now + 1}
  /\ cleaner' = "delete"
  /\ UNCHANGED <<mem, now, cold, calls, promo, mu, gc, gcCycle, lifecycle, history>>

(* mutant: one pass follows another without returning to the select *)
CleanupDelete_Rescan ==
  /\ cleaner = "delete"
  /\ cold' = [k \in Key |-> IF k \in found THEN NoCold ELSE cold[k]]
  /\ found' = {} /\ cleaner' = "scan"
  /\ UNCHANGED <<mem, now, calls, promo, mu, gc, gcCycle, lifecycle, history>>

(* The metadata scan collects expired keys.  Badger's iterator may already *)
(* hide some of them, so which expired keys it reports is left open.       *)
CleanupScan ==
  /\ cleaner = "scan"
  /\ found' \in SUBSET {k \in Key : InCold(k) /\ cold[k].native <= now}
  /\ cleaner' = "delete"
  /\ UNCHANGED <<mem, now, cold, calls, promo, mu, gc, gcCycle, lifecycle, history>>

CleanupDelete ==
  /\ cleaner = "delete"
  /\ \/ cold' = [k \in Key |-> IF k \in found THEN NoCold ELSE cold[k]]
     \/ ColdFaults /\ UNCHANGED cold
  /\ found' = {}
  /\ cleaner' = "wait" /\ mu' = "free"
  /\ UNCHANGED <<mem, now, calls, promo, gc, gcCycle, lifecycle, history>>

CleanupStop ==
  /\ cleaner = "wait" /\ stop
  /\ cleaner' = "done"
  /\ UNCHANGED <<mem, now, cold, calls, promo, mu, found, gc, gcCycle, lifecycle, history>>

(* the other ticker fires: runValueLogGC takes c.mu *)
GCLock ==
  /\ gc = "wait" /\ mu = "free"
  /\ gc' = "run" /\ mu' = "gc" /\ gcCycle' = 0
  /\ UNCHANGED <<mem, now, cold, calls, promo, cleaner, found, lifecycle, history>>

(* one value-log file rewritten *)
GCRewrite ==
  /\ gc = "run" /\ gcCycle < MaxGCCycles
  /\ gcCycle' = gcCycle + 1
  /\ UNCHANGED <<mem, now, cold, calls, promo, mu, cleaner, found, gc, lifecycle, history>>

(* mutant: the error return skips the unlock *)
GCUnlock_KeepsLock ==
  /\ gc = "run"
  /\ gc' = "wait" /\ gcCycle' = 0
  /\ UNCHANGED <<mem, now, cold, calls, promo, mu, cleaner, found, lifecycle, history>>

(* ErrNoRewrite or another error, or the cycles are used up *)
GCUnlock ==
  /\ gc = "run"
  /\ gc' = "wait" /\ mu' = "free" /\ gcCycle' = 0
  /\ UNCHANGED <<mem, now, cold, calls, promo, cleaner, found, lifecycle, history>>

GCStop ==
  /\ gc = "wait" /\ stop
  /\ gc' = "done"
  /\ UNCHANGED <<mem, now, cold, calls, promo, mu, cleaner, found, gcCycle, lifecycle, history>>

-----------------------------------------------------------------------------
(* Close, process restart, time.                                           *)

CloseSignal ==
  /\ MayClose /\ ~stop
  /\ stop' = TRUE
  /\ UNCHANGED <<mem, now, cold, calls, promo, background, open, restarts, history>>

(* mutant: the GC worker is not in the wait group *)
CloseDB_NoWaitForGC ==
  /\ stop /\ open /\ cleaner = "done"
  /\ open' = FALSE
  /\ UNCHANGED <<mem, now, cold, calls, promo, background, stop, restarts, history>>

(* wg.Wait returned: close the database *)
CloseDB ==
  /\ stop /\ open
  /\ cleaner = "done" /\ gc = "done"
  /\ open' = FALSE
  /\ UNCHANGED <<mem, now, cold, calls, promo, background, stop, restarts, history>>

(* The process dies, at any point or after Close, and a new one opens the  *)
(* same path: what Badger holds survives, everything else starts afresh.   *)
Restart ==
  /\ restarts < MaxRestarts
  /\ restarts' = restarts + 1
  /\ mem' = <<>>
  /\ call' = [c \in Client |-> IdleCall]
  /\ answer' = [c \in Client |-> NoAnswer]
  /\ promo' = [s \in Slot |-> NoPromo]
  /\ mu' = "free" /\ found' = {} /\ gcCycle' = 0
  /\ cleaner' = Started.cleaner /\ gc' = Started.gc
  /\ stop' = FALSE /\ open' = TRUE
  /\ disturbed' = [k \in Key |->
       IF \E c \in Client : WritingTo(c, k)
       THEN disturbed[k] \cup {"restart"} ELSE disturbed[k]]
  /\ UNCHANGED <<now, cold, written, latest>>

Tick ==
  /\ now < MaxNow
  /\ \A s \in Slot : promo[s] # NoPromo => now < promo[s].read + MaxLag
  /\ now' = now + 1
  /\ UNCHANGED <<mem, cold, calls, promo, background, lifecycle, history>>

-----------------------------------------------------------------------------
Lookup(c) ==
  \/ \E k \in Key : \/ LookupHit(c, k)
                    \/ \E op \in {"get", "exists"} : LookupMiss(c, op, k) \/ LookupExpired(c, op, k)
  \/ LookupDrop(c) \/ ReadCold(c) \/ ReadNothing(c) \/ ReadExpiring(c) \/ PurgeExpired(c)

Set(c) ==
  \/ \E k \in Key, ttl \in TTL : SetHot(c, k, ttl)
  \/ SetStamp(c) \/ SetEntry(c) \/ SetCold(c)

Delete(c) == (\E k \in Key : DeleteHot(c, k)) \/ DeleteCold(c)
Clear(c)  == ClearHot(c) \/ ClearCold(c)

Cleanup == CleanupLock \/ CleanupScan \/ CleanupDelete \/ CleanupStop
ValueLogGC == GCLock \/ GCRewrite \/ GCUnlock \/ GCStop

Next ==
  \/ \E c \in Client : Lookup(c) \/ Set(c) \/ Delete(c) \/ Clear(c)
  \/ \E s \in Slot : Promote(s)
  \/ Cleanup \/ ValueLogGC
  \/ CloseSignal \/ CloseDB \/ Restart \/ Tick

Spec == Init /\ [][Next]_vars

(* What the Go scheduler and sync.RWMutex give: a runnable goroutine runs,  *)
(* and a goroutine waiting for c.mu is not passed over for ever.           *)
Resume(c) == /\ call[c].at # "idle"
             /\ Lookup(c) \/ Set(c) \/ Delete(c) \/ Clear(c)
Fairness ==
  /\ \A c \in Client : SF_vars(Resume(c))
  /\ \A s \in Slot : WF_vars(Promote(s))
  /\ WF_vars(CleanupScan \/ CleanupDelete) /\ SF_vars(CleanupStop)
  /\ WF_vars(GCUnlock) /\ SF_vars(GCStop)
  /\ WF_vars(CloseDB)

FairSpec == Spec /\ Fairness

-----------------------------------------------------------------------------
(* Properties.                                                             *)

(* Every variable keeps the shape the code gives it, and the LRU neither   *)
(* outgrows its capacity nor holds a key twice.                            *)
TypeOK ==
  /\ LruOK /\ now \in Nat
  /\ cold \in [Key -> ColdEntry]
  /\ call \in [Client -> CallState] /\ answer \in [Client -> Answer]
  /\ promo \in [Slot -> Promotion]
  /\ mu \in {"free", "cleanup", "gc"} /\ found \in SUBSET Key
  /\ cleaner \in {"wait", "scan", "delete", "done"}
  /\ gc \in {"wait", "run", "done"} /\ gcCycle \in Nat
  /\ stop \in BOOLEAN /\ open \in BOOLEAN /\ restarts \in Nat
  /\ written \in Seq(WriteRecord)
  /\ latest \in [Key -> Nat]
  /\ disturbed \in Causes

(* The versions a lookup of k can be answered with now. *)
Served(k) == {HotOf(k).ver : x \in {y \in {k} : HotFresh(y)}}
             \cup {cold[x].ver : x \in {y \in {k} : ~HotFresh(y) /\ ColdLive(y)}}

(* The versions either tier would still serve for k, once the other tier's *)
(* copy is evicted, expired or lost in a restart.                          *)
Surviving(k) == {HotOf(y).ver : y \in {x \in {k} : HotFresh(x)}}
                \cup {cold[y].ver : y \in {x \in {k} : ColdLive(x)}}

(* Whatever a tier holds for a key was written for that key and expires by *)
(* the last expiry its Set computed; only the hot copy may overshoot, and   *)
(* only by the time one promotion waited to run: promoteToMemory restarts  *)
(* the remaining TTL, but a promoted copy is never promoted again.         *)
NeverServedPastItsLifetime ==
  /\ \A i \in DOMAIN mem :
       /\ mem[i].ver \in DOMAIN written
       /\ written[mem[i].ver].key = mem[i].key
       /\ mem[i].exp <= written[mem[i].ver].due + MaxLag
  /\ \A k \in Key : InCold(k) =>
       /\ cold[k].ver \in DOMAIN written
       /\ written[cold[k].ver].key = k
       /\ cold[k].native <= written[cold[k].ver].due
       /\ cold[k].exp <= written[cold[k].ver].due

(* When no call and no promotion on k is in flight and nothing overlapped  *)
(* since the last Set or Delete of k began, no tier can serve anything but *)
(* what that call left: tiers disagree only through a race, a failed cold  *)
(* write, Clear or a crash in the middle of a write.                       *)
OnlyTheLatestIsServed ==
  \A k \in Key : Quiet(k) /\ disturbed[k] = {} => Surviving(k) \subseteq {latest[k]} \ {0}

(* ... and what it wrote stays readable until it expires, whatever is      *)
(* evicted, cleaned up, collected or restarted meanwhile.                  *)
UncontendedSetIsKept ==
  \A k \in Key \ Unencodable :
    Quiet(k) /\ disturbed[k] = {} /\ open /\ latest[k] # 0 /\ now < written[latest[k]].due
      => cold[k].ver = latest[k] /\ ColdLive(k)

(* cleanupBadger holds c.mu from its scan to its delete, so no entry that  *)
(* a Set replaced in between is deleted alive.                             *)
CleanupDeletesOnlyExpired ==
  [][cleaner = "delete" /\ cleaner' = "wait" =>
       \A k \in Key : cold'[k] # cold[k] => cold[k].native <= now]_vars

(* Close waits for both workers: none holds the lock or works on the        *)
(* database after it is closed.                                            *)
NoWorkerOutlivesClose ==
  ~open => cleaner = "done" /\ gc = "done" /\ mu = "free" /\ found = {}

(* Every call that has left the hot tier returns: no section is entered     *)
(* while holding c.mu, and the workers give it back.                       *)
CallsReturn == \A c \in Client : call[c].at # "idle" ~> call[c].at = "idle"

(* Once Close has been called the database does get closed (or the process *)
(* restarts): the workers see stopBackground and GC rounds are bounded.    *)
CloseCompletes == stop ~> (~open \/ ~stop)

(* The cache keeps the promise of CacheContract, at every step. *)
Contract == INSTANCE CacheContract
              WITH Key <- Key, Client <- Client, TTL <- TTL, MaxLag <- MaxLag, Reason <- Reason,
                   now <- now, written <- written, latest <- latest,
                   disturbed <- disturbed, answer <- answer
ImplementsContract == Contract!Spec

-----------------------------------------------------------------------------
(* What the comments in badger.go say, and the code does not do.           *)

(* badger.go:205 "a failed cold write only costs a future cache miss"      *)
FailedColdWriteOnlyMisses ==
  \A k \in Key : Quiet(k) /\ disturbed[k] \subseteq {"unwritten"}
    => Served(k) \subseteq {latest[k]}
=============================================================================
