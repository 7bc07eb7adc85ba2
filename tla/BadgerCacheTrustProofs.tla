----------------------- MODULE BadgerCacheTrustProofs -----------------------
(***************************************************************************)
(* Which write a lookup of BadgerCache is answered with, for all keys,     *)
(* clients, TTLs, capacities, lags and numbers of restarts: the tiers      *)
(* agree unless a race, a failed write, Clear or a crash is on record, a   *)
(* Set that nothing overlapped is kept, and the cache is an implementation *)
(* of CacheContract.                                                       *)
(***************************************************************************)
EXTENDS BadgerCacheProofs

NobodyWrites(k) == \A c \in Client : ~WritingTo(c, k)

(* What a write under way has done to the key already, if it left v there. *)
Leaves(w, v) ==
  \/ w.at = "erase" /\ v = 0
  \/ w.at \in Setting /\ w.ver = v

(* While nothing disturbs k: memory, a promotion in flight and Badger hold *)
(* what the latest write left; and while that write is on, nobody else is  *)
(* at the key and Badger is its business.                                  *)
HotTrust(k) ==
  \A i \in DOMAIN mem : mem[i].key = k /\ mem[i].exp >= now => mem[i].ver = latest[k]
PromoTrust(k) ==
  \A s \in Slot : promo[s].ver # 0 /\ promo[s].key = k => promo[s].ver = latest[k]
ColdTrust(k) ==
  NobodyWrites(k) /\ InCold(k) /\ cold[k].native > now => cold[k].ver = latest[k]
CallTrust(k) ==
  \A c \in Client : WritingTo(c, k) => ~Contended(c, k) /\ Leaves(call[c], latest[k])
Trusted(k) ==
  disturbed[k] = {} => HotTrust(k) /\ PromoTrust(k) /\ ColdTrust(k) /\ CallTrust(k)

(* What gob cannot encode never reaches Badger. *)
Encoded ==
  /\ \A k \in Unencodable : ~InCold(k)
  /\ \A c \in Client : call[c].at \in {"entry", "write"} => call[c].key \notin Unencodable

TrustInv == Encoded /\ \A k \in Key : Trusted(k)

(* What a step may do to a key it leaves undisturbed, other than begin to  *)
(* write it.                                                               *)
HotStep(k) ==
  \A i \in DOMAIN mem' :
    mem'[i].key = k => mem'[i].ver = latest[k] \/ \E j \in DOMAIN mem : mem'[i] = mem[j]
PromoStep(k) ==
  \A s \in Slot : \/ promo'[s] = promo[s]
                  \/ promo'[s].ver = 0
                  \/ promo'[s].key # k
                  \/ promo'[s].ver = latest[k] /\ NobodyWrites(k)
ColdStep(k) ==
  \/ cold'[k] = cold[k] /\ (NobodyWrites(k)' => NobodyWrites(k))
  \/ cold'[k].ver \in {0, latest[k]}
CallStep(k) ==
  \A c \in Client :
    \/ call'[c] = call[c]
    \/ ~WritingTo(c, k)' /\ (Touching(c, k)' => Touching(c, k) \/ NobodyWrites(k))
    \/ /\ call[c].at \in Setting /\ call'[c].at \in Setting
       /\ call'[c].key = call[c].key /\ call'[c].ver = call[c].ver
KeyStep(k) ==
  disturbed'[k] = {} =>
    /\ disturbed[k] = {} /\ latest'[k] = latest[k]
    /\ HotStep(k) /\ PromoStep(k) /\ ColdStep(k) /\ CallStep(k)

LEMMA Expiring ==
  ASSUME NEW x \in Int, NEW t \in Int, NEW u \in Int, u >= t
  PROVE  (x >= u => x >= t) /\ (x > u => x > t)
OBVIOUS

LEMMA WritersStay ==
  ASSUME NEW c \in Client, NEW k \in Key,
         call[c].at \in Setting /\ call'[c].at \in Setting /\ call'[c].key = call[c].key
  PROVE  (WritingTo(c, k)' <=> WritingTo(c, k)) /\ (Touching(c, k)' <=> Touching(c, k))
BY DEF WritingTo, Touching, Setting, Writes

LEMMA KeyKept ==
  ASSUME TypeOK, TypeOK', now' >= now, NEW k \in Key, Trusted(k), KeyStep(k)
  PROVE  Trusted(k)'
<1> SUFFICES ASSUME disturbed'[k] = {}
             PROVE  HotTrust(k)' /\ PromoTrust(k)' /\ ColdTrust(k)' /\ CallTrust(k)'
  BY DEF Trusted
<1>1. /\ latest'[k] = latest[k]
      /\ HotStep(k) /\ PromoStep(k) /\ ColdStep(k) /\ CallStep(k)
      /\ HotTrust(k) /\ PromoTrust(k) /\ ColdTrust(k) /\ CallTrust(k)
  BY DEF KeyStep, Trusted
<1>2. now \in Int /\ now' \in Int
  BY DEF TypeOK
<1>3. HotTrust(k)'
  <2> SUFFICES ASSUME NEW i \in DOMAIN mem', mem'[i].key = k, mem'[i].exp >= now',
                      NEW j \in DOMAIN mem, mem'[i] = mem[j]
               PROVE  mem'[i].ver = latest[k]
    BY <1>1 DEF HotTrust, HotStep
  <2>1. mem[j].exp \in Int
    <3>1. mem[j] \in HotEntry
      BY DEF TypeOK, LruOK
    <3> QED
      BY <3>1 DEF HotEntry
  <2>2. mem[j].key = k /\ mem[j].exp >= now
    BY <1>2, <2>1, Expiring
  <2> QED
    BY <1>1, <2>2 DEF HotTrust
<1>4. PromoTrust(k)'
  BY <1>1 DEF PromoTrust, PromoStep
<1>5. ColdTrust(k)'
  <2> SUFFICES ASSUME NobodyWrites(k)', cold'[k].ver # 0, cold'[k].native > now',
                      cold'[k] = cold[k], NobodyWrites(k)
               PROVE  cold'[k].ver = latest[k]
    BY <1>1 DEF ColdTrust, ColdStep, InCold
  <2>1. cold[k].native \in Int
    BY DEF TypeOK, ColdEntry
  <2>2. cold[k].native > now
    BY <1>2, <2>1, Expiring
  <2> QED
    BY <1>1, <2>2 DEF ColdTrust, InCold
<1>6. CallTrust(k)'
  <2> SUFFICES ASSUME NEW c \in Client, WritingTo(c, k)'
               PROVE  ~Contended(c, k)' /\ Leaves(call'[c], latest[k])
    BY <1>1 DEF CallTrust, Leaves
  <2>1. WritingTo(c, k) /\ (Leaves(call[c], latest[k]) => Leaves(call'[c], latest[k]))
    <3>1. CASE call'[c] = call[c]
      BY <3>1 DEF WritingTo, Touching, Leaves
    <3>2. CASE /\ call[c].at \in Setting /\ call'[c].at \in Setting
               /\ call'[c].key = call[c].key /\ call'[c].ver = call[c].ver
      BY <3>2, WritersStay DEF Leaves, Setting
    <3> QED
      BY <1>1, <3>1, <3>2 DEF CallStep
  <2>2. ~Contended(c, k) /\ Leaves(call[c], latest[k]) /\ ~NobodyWrites(k)
    BY <1>1, <2>1 DEF CallTrust, NobodyWrites
  <2>3. ~Promoting(k)'
    BY <1>1, <2>2 DEF Contended, Promoting, PromoStep
  <2>4. ASSUME NEW d \in Client \ {c} PROVE ~Touching(d, k)'
    <3>1. ~Touching(d, k)
      BY <2>2 DEF Contended
    <3>2. CASE call'[d] = call[d]
      BY <3>1, <3>2 DEF Touching
    <3>3. CASE call[d].at \in Setting /\ call'[d].at \in Setting /\ call'[d].key = call[d].key
      BY <3>1, <3>3, WritersStay
    <3> QED
      BY <1>1, <2>2, <3>1, <3>2, <3>3 DEF CallStep
  <2> QED
    BY <2>1, <2>2, <2>3, <2>4 DEF Contended
<1> QED
  BY <1>3, <1>4, <1>5, <1>6

(* Steps of a call that is not writing and leaves the tiers as they are.   *)
OthersStay(c) == \A d \in Client \ {c} : call'[d] = call[d]

LEMMA OneCallMoves ==
  ASSUME call \in [Client -> CallState], NEW c \in Client, NEW w,
         call' = [call EXCEPT ![c] = w]
  PROVE  call'[c] = w /\ OthersStay(c)
BY DEF OthersStay

LEMMA ReturnMoves ==
  ASSUME call \in [Client -> CallState], NEW c \in Client, Return(c)
  PROVE  call'[c].at = "idle" /\ OthersStay(c)
BY OneCallMoves, Defaults DEF Return

LEMMA BeginMoves ==
  ASSUME call \in [Client -> CallState], NEW c \in Client, NEW op, NEW at \in Steps, NEW k \in Key,
         Begin(c, op, at, k)
  PROVE  call'[c].at = at /\ call'[c].key = k /\ OthersStay(c)
<1> DEFINE w == [IdleCall EXCEPT !.at = at, !.op = op, !.key = k]
<1>1. w.at = at /\ w.key = k
  BY DEF IdleCall
<1>2. call' = [call EXCEPT ![c] = w]
  BY DEF Begin
<1> HIDE DEF w
<1> QED
  BY <1>1, <1>2, OneCallMoves

LEMMA NextMoves ==
  ASSUME call \in [Client -> CallState], NEW c \in Client, NEW at \in Steps,
         call' = [call EXCEPT ![c].at = at]
  PROVE  call'[c].at = at /\ call'[c].key = call[c].key /\ OthersStay(c)
<1> DEFINE w == [call[c] EXCEPT !.at = at]
<1>1. call[c] \in CallState /\ call' = [call EXCEPT ![c] = w]
  OBVIOUS
<1>2. w.at = at /\ w.key = call[c].key
  BY <1>1 DEF CallState
<1> HIDE DEF w
<1> QED
  BY <1>1, <1>2, OneCallMoves

(* A call that neither wrote to k nor does now, at a key it was at before, *)
(* or where nobody writes.                                                 *)
LEMMA ReaderMoves ==
  ASSUME NEW c \in Client, NEW k \in Key, OthersStay(c), call'[c].at \notin Writes,
         \/ call'[c].at = "idle"
         \/ call'[c].key # k
         \/ NobodyWrites(k)
         \/ call[c].at # "idle" /\ call'[c].key = call[c].key
  PROVE  CallStep(k) /\ (~WritingTo(c, k) => (NobodyWrites(k)' => NobodyWrites(k)))
<1>1. ~WritingTo(c, k)' /\ (Touching(c, k)' => Touching(c, k) \/ NobodyWrites(k))
  BY DEF WritingTo, Touching, Writes
<1>2. \A d \in Client : d = c \/ call'[d] = call[d]
  BY DEF OthersStay
<1>3. CallStep(k)
  BY <1>1, <1>2 DEF CallStep
<1>4. ~WritingTo(c, k) /\ NobodyWrites(k)' => NobodyWrites(k)
  BY <1>2 DEF NobodyWrites, WritingTo, Touching
<1> QED
  BY <1>3, <1>4

(* Nothing but the calls moves. *)
LEMMA TiersStay ==
  ASSUME NEW k \in Key, UNCHANGED <<mem, promo>>
  PROVE  HotStep(k) /\ PromoStep(k)
BY DEF HotStep, PromoStep

LEMMA LookupSteps ==
  ASSUME TypeOK, TrustInv, NEW c \in Client, Lookup(c), NEW k \in Key
  PROVE  KeyStep(k)
<1> USE DEF calls, history
<1>0. /\ call \in [Client -> CallState] /\ call[c] \in CallState /\ call[c].key \in Key
      /\ LruOK /\ disturbed \in Causes /\ "read" \in Steps /\ "drop" \in Steps /\ "purge" \in Steps
  BY CallTyped DEF TypeOK, Steps, Lookups
<1>1. ASSUME NEW j \in Key, LookupHit(c, j) PROVE KeyStep(k)
  <2>1. UNCHANGED <<call, cold, promo, latest, disturbed>> /\ Cached(j) /\ HotTouch(j)
    BY <1>1 DEF LookupHit, HotFresh
  <2>2. HotStep(k)
    BY <1>0, <2>1, TouchFacts DEF HotStep
  <2>3. PromoStep(k) /\ CallStep(k) /\ ColdStep(k)
    BY <2>1 DEF PromoStep, CallStep, ColdStep, NobodyWrites, WritingTo, Touching
  <2> QED
    BY <2>1, <2>2, <2>3 DEF KeyStep
<1>2. ASSUME NEW j \in Key, NEW op \in {"get", "exists"}, LookupMiss(c, op, j) \/ LookupExpired(c, op, j)
      PROVE  KeyStep(k)
  <2> SUFFICES ASSUME disturbed'[k] = {}
               PROVE  /\ disturbed[k] = {} /\ latest'[k] = latest[k]
                      /\ HotStep(k) /\ PromoStep(k) /\ ColdStep(k) /\ CallStep(k)
    BY DEF KeyStep
  <2>1. /\ UNCHANGED <<cold, promo, latest>> /\ call[c].at = "idle"
        /\ Begin(c, op, "read", j) \/ Begin(c, op, "drop", j)
        /\ disturbed' = [disturbed EXCEPT ![j] = AfterReadStart(c, j)]
        /\ UNCHANGED mem \/ (Cached(j) /\ HotTouch(j))
    <3>1. CASE LookupMiss(c, op, j)
      <4>1. /\ UNCHANGED <<cold, promo, latest, mem>> /\ call[c].at = "idle"
            /\ disturbed' = [disturbed EXCEPT ![j] = AfterReadStart(c, j)]
        BY <3>1 DEF LookupMiss
      <4>2. Begin(c, op, "read", j)
        BY <3>1 DEF LookupMiss
      <4> QED
        BY <4>1, <4>2
    <3>2. CASE LookupExpired(c, op, j)
      <4>1. /\ UNCHANGED <<cold, promo, latest>> /\ call[c].at = "idle"
            /\ disturbed' = [disturbed EXCEPT ![j] = AfterReadStart(c, j)]
            /\ Cached(j) /\ HotTouch(j)
        BY <3>2 DEF LookupExpired, HotExpired
      <4>2. Begin(c, op, "drop", j)
        BY <3>2 DEF LookupExpired
      <4> QED
        BY <4>1, <4>2
    <3> QED
      BY <1>2, <3>1, <3>2
  <2>2. call'[c].at \in {"read", "drop"} /\ call'[c].key = j /\ OthersStay(c)
    BY <1>0, <2>1, BeginMoves
  <2>3. HotStep(k) /\ PromoStep(k)
    BY <1>0, <2>1, TouchFacts DEF HotStep, PromoStep
  <2>4. ~WritingTo(c, k)
    BY <2>1 DEF WritingTo, Touching
  <2>5. disturbed[k] = {} /\ (k = j => NobodyWrites(k))
    BY <1>0, <2>1, <2>4 DEF AfterReadStart, NobodyWrites, Causes
  <2>6. CallStep(k) /\ ColdStep(k)
    BY <2>1, <2>2, <2>4, <2>5, ReaderMoves DEF ColdStep, Writes
  <2> QED
    BY <2>1, <2>3, <2>5, <2>6
<1>3. CASE LookupDrop(c)
  <2>1. /\ UNCHANGED <<cold, promo, latest, disturbed>> /\ call[c].at = "drop"
        /\ HotDrop(call[c].key) /\ call' = [call EXCEPT ![c].at = "read"]
    BY <1>3 DEF LookupDrop
  <2>2. call'[c].at = "read" /\ call'[c].key = call[c].key /\ OthersStay(c)
    BY <1>0, <2>1, NextMoves
  <2>3. HotStep(k) /\ PromoStep(k)
    BY <1>0, <2>1, DropFacts DEF HotStep, PromoStep
  <2>4. CallStep(k) /\ ColdStep(k)
    BY <2>1, <2>2, ReaderMoves DEF ColdStep, WritingTo, Writes
  <2> QED
    BY <2>1, <2>3, <2>4 DEF KeyStep
<1>4. CASE ReadNothing(c) \/ ReadExpiring(c) \/ PurgeExpired(c)
  <2>1. /\ UNCHANGED <<mem, promo, latest, disturbed>> /\ call[c].at \in {"read", "purge"}
        /\ Return(c) \/ call' = [call EXCEPT ![c].at = "purge"]
        /\ \A j \in Key : cold'[j] = cold[j] \/ cold'[j] = NoCold
    <3>1. CASE ReadNothing(c)
      BY <3>1 DEF ReadNothing
    <3>2. CASE ReadExpiring(c)
      BY <3>2 DEF ReadExpiring
    <3>3. CASE PurgeExpired(c)
      <4>1. UNCHANGED cold \/ cold' = [cold EXCEPT ![call[c].key] = NoCold]
        BY <3>3 DEF PurgeExpired
      <4>2. \A j \in Key : cold'[j] = cold[j] \/ cold'[j] = NoCold
        BY <4>1 DEF TypeOK
      <4> QED
        BY <3>3, <4>2 DEF PurgeExpired
    <3> QED
      BY <1>4, <3>1, <3>2, <3>3
  <2>2. /\ \/ call'[c].at = "idle"
           \/ call'[c].at = "purge" /\ call'[c].key = call[c].key
        /\ OthersStay(c)
    <3>1. CASE Return(c)
      BY <1>0, <3>1, ReturnMoves
    <3>2. CASE call' = [call EXCEPT ![c].at = "purge"]
      BY <1>0, <3>2, NextMoves
    <3> QED
      BY <2>1, <3>1, <3>2
  <2>3. CallStep(k) /\ (NobodyWrites(k)' => NobodyWrites(k))
    BY <2>1, <2>2, ReaderMoves DEF WritingTo, Writes
  <2>4. NoCold.ver = 0
    BY DEF NoCold
  <2>5. ColdStep(k)
    BY <2>1, <2>3, <2>4 DEF ColdStep
  <2> QED
    BY <2>1, <2>3, <2>5, TiersStay DEF KeyStep
<1>5. CASE ReadCold(c)
  <2> SUFFICES ASSUME disturbed'[k] = {}
               PROVE  /\ disturbed[k] = {} /\ latest'[k] = latest[k]
                      /\ HotStep(k) /\ PromoStep(k) /\ ColdStep(k) /\ CallStep(k)
    BY DEF KeyStep
  <2> DEFINE j == call[c].key
  <2>1. /\ UNCHANGED <<mem, cold, latest, disturbed>> /\ call[c].at = "read" /\ Return(c)
        /\ ColdLive(j)
        /\ \/ UNCHANGED promo
           \/ \E s \in Slot : promo' = [promo EXCEPT ![s] =
                 [key |-> j, ver |-> cold[j].ver, rem |-> cold[j].exp - now, read |-> now]]
    BY <1>5 DEF ReadCold
  <2>2. call'[c].at = "idle" /\ OthersStay(c)
    BY <1>0, <2>1, ReturnMoves
  <2>3. CallStep(k) /\ ColdStep(k)
    BY <2>1, <2>2, ReaderMoves DEF ColdStep, WritingTo, Writes
  <2>4. j = k => NobodyWrites(k) /\ cold[k].ver = latest[k]
    <3> SUFFICES ASSUME j = k PROVE NobodyWrites(k) /\ cold[k].ver = latest[k]
      OBVIOUS
    <3>1. CallTrust(k) /\ ColdTrust(k)
      BY <2>1 DEF TrustInv, Trusted
    <3>2. Touching(c, k) /\ ~WritingTo(c, k)
      BY <2>1 DEF Touching, WritingTo, Writes
    <3>3. NobodyWrites(k)
      BY <3>1, <3>2 DEF CallTrust, Contended, NobodyWrites
    <3> QED
      BY <2>1, <3>1, <3>3 DEF ColdTrust, ColdLive
  <2>5. PromoStep(k)
    <3>1. CASE UNCHANGED promo
      BY <3>1 DEF PromoStep
    <3>2. ASSUME NEW s \in Slot, NEW p,
                 p = [key |-> j, ver |-> cold[j].ver, rem |-> cold[j].exp - now, read |-> now],
                 promo' = [promo EXCEPT ![s] = p]
          PROVE  PromoStep(k)
      <4>1. p.key = j /\ p.ver = cold[j].ver
        BY <3>2
      <4>2. \A t \in Slot : promo'[t] = promo[t] \/ promo'[t] = p
        BY <3>2 DEF TypeOK
      <4> QED
        BY <2>4, <4>1, <4>2 DEF PromoStep
    <3> QED
      BY <2>1, <3>1, <3>2
  <2>6. HotStep(k)
    BY <2>1 DEF HotStep
  <2> QED
    BY <2>1, <2>3, <2>5, <2>6
<1> QED
  BY <1>1, <1>2, <1>3, <1>4, <1>5 DEF Lookup

(* The sections of a write after its first: it stays the only one at the   *)
(* key until its last section leaves Badger as its first left memory.      *)
LEMMA WriteSteps ==
  ASSUME TypeOK, TrustInv, NEW c \in Client, NEW k \in Key,
         SetStamp(c) \/ SetEntry(c) \/ SetCold(c) \/ DeleteCold(c) \/ ClearCold(c)
  PROVE  KeyStep(k)
<1> USE DEF calls, history
<1>0. /\ call \in [Client -> CallState] /\ call[c] \in CallState /\ call[c].key \in Key
      /\ LruOK /\ disturbed \in Causes /\ call[c].at \in Steps /\ Trusted(k)
      /\ cold \in [Key -> ColdEntry]
  BY CallTyped DEF TypeOK, CallState, TrustInv
<1> SUFFICES ASSUME disturbed'[k] = {}
             PROVE  /\ disturbed[k] = {} /\ latest'[k] = latest[k]
                    /\ ColdStep(k) /\ CallStep(k)
  <2>1. UNCHANGED <<mem, promo>>
    BY DEF SetStamp, SetEntry, SetCold, DeleteCold, ClearCold
  <2> QED
    BY <2>1, TiersStay DEF KeyStep
<1>1. CASE SetStamp(c) \/ SetEntry(c)
  <2>1. /\ UNCHANGED <<cold, latest, disturbed>> /\ call[c].at \in {"stamp", "entry"}
    BY <1>1 DEF SetStamp, SetEntry
  <2>2. CASE Return(c) /\ call[c].key \in Unencodable
    <3>1. CallStep(k) /\ (~WritingTo(c, k) => (NobodyWrites(k)' => NobodyWrites(k)))
      BY <1>0, <2>2, ReturnMoves, ReaderMoves DEF Writes
    <3>2. WritingTo(c, k) => cold[k].ver = 0
      BY <2>1, <2>2 DEF TrustInv, Encoded, InCold, WritingTo, Touching
    <3> QED
      BY <2>1, <3>1, <3>2 DEF ColdStep
  <2>3. CASE OthersStay(c) /\ call'[c].at \in {"entry", "write"}
             /\ call'[c].key = call[c].key /\ call'[c].ver = call[c].ver
    <3>1. \A d \in Client : d = c \/ call'[d] = call[d]
      BY <2>3 DEF OthersStay
    <3>2. call[c].at \in Setting /\ call'[c].at \in Setting
      BY <2>1, <2>3 DEF Setting
    <3>3. CallStep(k)
      BY <2>3, <3>1, <3>2 DEF CallStep
    <3>4. WritingTo(c, k)' <=> WritingTo(c, k)
      BY <2>3, <3>2, WritersStay
    <3>5. NobodyWrites(k)' => NobodyWrites(k)
      BY <3>1, <3>4 DEF NobodyWrites, WritingTo, Touching
    <3> QED
      BY <2>1, <3>3, <3>5 DEF ColdStep
  <2>4. CASE SetStamp(c) /\ ~Return(c)
    <3> DEFINE w == [call[c] EXCEPT !.at = "entry", !.exp = now + call[c].ttl]
    <3>1. call' = [call EXCEPT ![c] = w]
      BY <2>4 DEF SetStamp
    <3>2. w.at = "entry" /\ w.key = call[c].key /\ w.ver = call[c].ver
      BY <1>0 DEF CallState
    <3> HIDE DEF w
    <3> QED
      BY <1>0, <2>3, <3>1, <3>2, OneCallMoves
  <2>5. CASE SetEntry(c)
    <3> DEFINE w == [call[c] EXCEPT !.at = "write", !.native = now + call[c].ttl]
    <3>1. call' = [call EXCEPT ![c] = w]
      BY <2>5 DEF SetEntry
    <3>2. w.at = "write" /\ w.key = call[c].key /\ w.ver = call[c].ver
      BY <1>0 DEF CallState
    <3> HIDE DEF w
    <3> QED
      BY <1>0, <2>3, <3>1, <3>2, OneCallMoves
  <2>6. SetStamp(c) => (Return(c) /\ call[c].key \in Unencodable) \/ ~Return(c)
    <3>1. ASSUME SetStamp(c), Return(c), call[c].key \notin Unencodable PROVE FALSE
      <4>1. call' = [call EXCEPT ![c].at = "entry", ![c].exp = now + call[c].ttl]
        BY <3>1 DEF SetStamp
      <4> DEFINE w == [call[c] EXCEPT !.at = "entry", !.exp = now + call[c].ttl]
      <4>2. call' = [call EXCEPT ![c] = w] /\ w.at = "entry"
        BY <1>0, <4>1 DEF CallState
      <4> HIDE DEF w
      <4> QED
        BY <1>0, <3>1, <4>2, OneCallMoves, ReturnMoves
    <3> QED
      BY <3>1
  <2> QED
    BY <1>1, <2>2, <2>4, <2>5, <2>6
<1>2. CASE SetCold(c) \/ DeleteCold(c) \/ ClearCold(c)
  <2>1. /\ Return(c) /\ UNCHANGED latest
        /\ call[c].at \in {"write", "erase", "clear"}
    BY <1>2 DEF SetCold, DeleteCold, ClearCold
  <2>2. CallStep(k) /\ (~WritingTo(c, k) => (NobodyWrites(k)' => NobodyWrites(k)))
    BY <1>0, <2>1, ReturnMoves, ReaderMoves DEF Writes
  <2>3. disturbed[k] = {}
    BY <1>0, <1>2 DEF SetCold, DeleteCold, ClearCold, Causes
  <2>4. WritingTo(c, k) => Leaves(call[c], latest[k])
    BY <1>0, <2>3 DEF Trusted, CallTrust
  <2>5. CASE ~WritingTo(c, k)
    <3>1. call[c].key # k /\ call[c].at # "clear"
      BY <2>1, <2>5 DEF WritingTo, Touching, Writes
    <3>2. cold'[k] = cold[k]
      BY <1>0, <1>2, <3>1 DEF SetCold, DeleteCold, ClearCold
    <3> QED
      BY <2>1, <2>2, <2>3, <2>5, <3>2 DEF ColdStep
  <2>6. CASE WritingTo(c, k) /\ SetCold(c)
    <3>1. call[c].at = "write" /\ call[c].key = k
      BY <2>6 DEF SetCold, WritingTo, Touching
    <3>2. call[c].ver = latest[k]
      BY <2>4, <2>6, <3>1 DEF Leaves
    <3>3. \/ cold' = [cold EXCEPT ![k] = [ver |-> call[c].ver, exp |-> call[c].exp, native |-> call[c].native]]
          \/ disturbed' = [disturbed EXCEPT ![k] = @ \cup {"unwritten"}]
      BY <2>6, <3>1 DEF SetCold
    <3>4. disturbed' # [disturbed EXCEPT ![k] = @ \cup {"unwritten"}]
      BY <1>0 DEF Causes
    <3>5. cold'[k] = [ver |-> call[c].ver, exp |-> call[c].exp, native |-> call[c].native]
      BY <1>0, <3>3, <3>4
    <3>6. cold'[k].ver = latest[k]
      BY <3>2, <3>5
    <3> QED
      BY <2>1, <2>2, <2>3, <3>6 DEF ColdStep
  <2>7. CASE WritingTo(c, k) /\ DeleteCold(c)
    <3>1. call[c].at = "erase" /\ call[c].key = k
      BY <2>7 DEF DeleteCold, WritingTo, Touching
    <3>2. \/ cold' = [cold EXCEPT ![k] = NoCold]
          \/ disturbed' = [disturbed EXCEPT ![k] = @ \cup {"undeleted"}]
      BY <2>7, <3>1 DEF DeleteCold
    <3>3. disturbed' # [disturbed EXCEPT ![k] = @ \cup {"undeleted"}]
      BY <1>0 DEF Causes
    <3>4. cold'[k].ver = 0
      BY <1>0, <3>2, <3>3 DEF NoCold
    <3> QED
      BY <2>1, <2>2, <2>3, <3>4 DEF ColdStep
  <2>8. CASE WritingTo(c, k) /\ ClearCold(c)
    BY <2>4, <2>8 DEF Leaves, Setting, ClearCold
  <2> QED
    BY <1>2, <2>5, <2>6, <2>7, <2>8
<1> QED
  BY <1>1, <1>2

(* The first section of a Set or Delete: it takes memory along, and either *)
(* has the key to itself or disturbs it.                                   *)
LEMMA WriteStarts ==
  ASSUME TypeOK, TypeOK', TrustInv, NEW c \in Client, NEW j \in Key, NEW v \in Nat,
         call[c].at = "idle", OthersStay(c), UNCHANGED <<now, cold, promo>>,
         call'[c].key = j, call'[c].at \in Writes \ {"clear"}, Leaves(call'[c], v),
         latest' = [latest EXCEPT ![j] = v],
         disturbed' = [disturbed EXCEPT ![j] = AfterWriteStart(c, j)],
         \A i \in DOMAIN mem' : \/ mem'[i].key = j /\ mem'[i].ver = v
                                \/ mem'[i].key # j /\ \E x \in DOMAIN mem : mem'[i] = mem[x]
  PROVE  \A k \in Key : Trusted(k)'
<1>1. /\ latest'[j] = v /\ disturbed'[j] = AfterWriteStart(c, j)
      /\ \A k \in Key \ {j} : latest'[k] = latest[k] /\ disturbed'[k] = disturbed[k]
      /\ \A d \in Client : d = c \/ call'[d] = call[d]
      /\ now' >= now
  BY DEF TypeOK, Causes, OthersStay
<1>2. ASSUME NEW k \in Key \ {j} PROVE Trusted(k)'
  <2>1. HotStep(k) /\ PromoStep(k)
    BY <1>2 DEF HotStep, PromoStep
  <2>2. ~Touching(c, k)' /\ ~Touching(c, k)
    BY <1>2 DEF Touching
  <2>3. CallStep(k)
    BY <1>1, <2>2 DEF CallStep, WritingTo
  <2>4. ColdStep(k)
    BY <1>1, <2>2 DEF ColdStep, NobodyWrites, WritingTo, Touching
  <2>5. KeyStep(k) /\ Trusted(k)
    BY <1>1, <2>1, <2>3, <2>4 DEF KeyStep, TrustInv
  <2> QED
    BY <1>1, <2>5, KeyKept
<1>3. Trusted(j)'
  <2> SUFFICES ASSUME disturbed'[j] = {}
               PROVE  HotTrust(j)' /\ PromoTrust(j)' /\ ColdTrust(j)' /\ CallTrust(j)'
    BY DEF Trusted
  <2>1. ~Contended(c, j)
    BY <1>1 DEF AfterWriteStart
  <2>2. ~Promoting(j) /\ \A d \in Client \ {c} : ~Touching(d, j)
    BY <2>1 DEF Contended
  <2>3. HotTrust(j)'
    BY <1>1 DEF HotTrust
  <2>4. PromoTrust(j)' /\ ~Promoting(j)'
    BY <2>2 DEF PromoTrust, Promoting
  <2>5. WritingTo(c, j)'
    BY DEF WritingTo, Touching, Writes
  <2>6. ColdTrust(j)'
    BY <2>5 DEF ColdTrust, NobodyWrites
  <2>7. \A d \in Client \ {c} : ~Touching(d, j)'
    BY <1>1, <2>2 DEF Touching
  <2>8. CallTrust(j)'
    BY <1>1, <2>4, <2>7 DEF CallTrust, Contended, WritingTo
  <2> QED
    BY <2>3, <2>4, <2>6, <2>8
<1> QED
  BY <1>2, <1>3

LEMMA SetHotTrusted ==
  ASSUME TypeOK, TypeOK', TrustInv, NEW c \in Client, NEW j \in Key, NEW ttl \in TTL,
         SetHot(c, j, ttl)
  PROVE  \A k \in Key : Trusted(k)'
<1>1. PICK v \in Nat, x \in Int : v = Len(written) + 1 /\ x = now + ttl
  <2>1. Len(written) + 1 \in Nat
    BY DEF TypeOK
  <2>2. ttl \in Nat /\ now \in Nat
    BY ConfigAssumption DEF TypeOK
  <2>3. now + ttl \in Int
    BY <2>2
  <2> QED
    BY <2>1, <2>3
<1>2. /\ call[c].at = "idle" /\ UNCHANGED <<now, cold, promo>>
      /\ latest' = [latest EXCEPT ![j] = v]
      /\ disturbed' = [disturbed EXCEPT ![j] = AfterWriteStart(c, j)]
  BY <1>1 DEF SetHot
<1>3. call'[c].at = "stamp" /\ call'[c].key = j /\ call'[c].ver = v /\ OthersStay(c)
  <2> DEFINE w == [IdleCall EXCEPT !.at = "stamp", !.op = "set", !.key = j, !.ver = v, !.ttl = ttl]
  <2>1. call' = [call EXCEPT ![c] = w]
    BY <1>1 DEF SetHot
  <2>2. w.at = "stamp" /\ w.key = j /\ w.ver = v
    BY DEF IdleCall
  <2> HIDE DEF w
  <2> QED
    BY <2>1, <2>2, OneCallMoves DEF TypeOK
<1>4. LruOK /\ HotAdd(j, v, x)
  BY <1>1 DEF SetHot, TypeOK
<1>5. PICK e : e = [key |-> j, ver |-> v, exp |-> x]
  OBVIOUS
<1>6. OnlyOldOr(e) /\ \A i \in DOMAIN mem' : mem'[i].key = j => mem'[i] = e
  BY <1>4, <1>5, AddFacts
<1>7. e.key = j /\ e.ver = v
  BY <1>5
<1>8. \A i \in DOMAIN mem' : \/ mem'[i].key = j /\ mem'[i].ver = v
                             \/ mem'[i].key # j /\ \E y \in DOMAIN mem : mem'[i] = mem[y]
  BY <1>6, <1>7 DEF OnlyOldOr
<1>9. Leaves(call'[c], v) /\ call'[c].at \in Writes \ {"clear"}
  BY <1>3 DEF Leaves, Setting, Writes
<1> QED
  BY <1>2, <1>3, <1>8, <1>9, WriteStarts

LEMMA DeleteHotTrusted ==
  ASSUME TypeOK, TypeOK', TrustInv, NEW c \in Client, NEW j \in Key, DeleteHot(c, j)
  PROVE  \A k \in Key : Trusted(k)'
<1>1. /\ call[c].at = "idle" /\ UNCHANGED <<now, cold, promo>>
      /\ latest' = [latest EXCEPT ![j] = 0]
      /\ disturbed' = [disturbed EXCEPT ![j] = AfterWriteStart(c, j)]
      /\ HotDrop(j) /\ LruOK
  BY DEF DeleteHot, TypeOK
<1>2. "erase" \in Steps /\ call \in [Client -> CallState] /\ Begin(c, "delete", "erase", j)
  BY DEF DeleteHot, TypeOK, Steps, Writes
<1>3. call'[c].at = "erase" /\ call'[c].key = j /\ OthersStay(c)
  BY <1>2, BeginMoves
<1>4. \A i \in DOMAIN mem' : mem'[i].key # j /\ \E y \in DOMAIN mem : mem'[i] = mem[y]
  BY <1>1, DropFacts
<1>5. Leaves(call'[c], 0) /\ call'[c].at \in Writes \ {"clear"} /\ 0 \in Nat
  BY <1>3 DEF Leaves, Writes
<1>6. \A i \in DOMAIN mem' : \/ mem'[i].key = j /\ mem'[i].ver = 0
                             \/ mem'[i].key # j /\ \E y \in DOMAIN mem : mem'[i] = mem[y]
  BY <1>4
<1> QED
  BY <1>1, <1>3, <1>5, <1>6, WriteStarts

(* Clear disturbs every key. *)
LEMMA ClearHotTrusted ==
  ASSUME TypeOK, NEW c \in Client, ClearHot(c)
  PROVE  \A k \in Key : Trusted(k)'
BY DEF ClearHot, Trusted

(* promoteToMemory takes along what was read while nobody wrote. *)
LEMMA PromoteSteps ==
  ASSUME TypeOK, LifetimeInv, TrustInv, NEW s \in Slot, Promote(s), NEW k \in Key
  PROVE  KeyStep(k)
<1> USE DEF calls, history
<1>1. PICK p \in Promotion : p = promo[s]
  BY DEF TypeOK
<1>2. /\ p.key \in Key /\ p.ver \in Nat /\ now + p.rem \in Int /\ LruOK /\ p # NoPromo
      /\ UNCHANGED <<now, cold, call, latest, disturbed>>
      /\ promo' = [promo EXCEPT ![s] = NoPromo]
      /\ UNCHANGED mem \/ HotAdd(p.key, p.ver, now + p.rem)
  BY <1>1 DEF Promote, Promotion, TypeOK
<1>3. p.ver # 0
  <2>1. p.ver \in DOMAIN written
    BY <1>1, <1>2 DEF LifetimeInv, PromoVouched, Vouched
  <2> QED
    BY <2>1 DEF TypeOK
<1>4. NoPromo.ver = 0
  BY DEF NoPromo
<1>5. PromoStep(k)
  BY <1>2, <1>4 DEF PromoStep, TypeOK
<1>6. disturbed[k] = {} => HotStep(k)
  <2> SUFFICES ASSUME disturbed[k] = {} PROVE HotStep(k)
    OBVIOUS
  <2>1. p.key = k => p.ver = latest[k]
    BY <1>1, <1>3 DEF TrustInv, Trusted, PromoTrust
  <2>2. CASE UNCHANGED mem
    BY <2>2 DEF HotStep
  <2>3. CASE HotAdd(p.key, p.ver, now + p.rem)
    <3>1. PICK e : e = [key |-> p.key, ver |-> p.ver, exp |-> now + p.rem]
      OBVIOUS
    <3>2. OnlyOldOr(e)
      BY <1>2, <2>3, <3>1, AddFacts
    <3>3. e.key = p.key /\ e.ver = p.ver
      BY <3>1
    <3> QED
      BY <2>1, <3>2, <3>3 DEF OnlyOldOr, HotStep
  <2> QED
    BY <1>2, <2>2, <2>3
<1> QED
  BY <1>2, <1>5, <1>6 DEF KeyStep, ColdStep, CallStep, NobodyWrites, WritingTo, Touching

(* The workers, Close, a restart and the clock. *)
LEMMA RestSteps ==
  ASSUME TypeOK, NEW k \in Key,
         Cleanup \/ ValueLogGC \/ CloseSignal \/ CloseDB \/ Restart \/ Tick \/ UNCHANGED vars
  PROVE  KeyStep(k) /\ now' >= now
<1> USE DEF calls, history
<1>0. NoCold.ver = 0 /\ NoPromo.ver = 0 /\ now \in Nat
  BY DEF NoCold, NoPromo, TypeOK
<1>1. CASE UNCHANGED <<mem, call, promo, latest, disturbed>> /\ now' >= now
           /\ (cold'[k] = cold[k] \/ cold'[k] = NoCold)
  BY <1>0, <1>1 DEF KeyStep, HotStep, PromoStep, ColdStep, CallStep, NobodyWrites, WritingTo, Touching
<1>2. CASE CleanupDelete
  <2>1. cold'[k] = cold[k] \/ cold'[k] = NoCold
    BY <1>2 DEF CleanupDelete
  <2>2. UNCHANGED <<mem, now, call, promo, latest, disturbed>>
    BY <1>2 DEF CleanupDelete
  <2> QED
    BY <1>0, <1>1, <2>1, <2>2
<1>3. CASE CleanupLock \/ CleanupScan \/ CleanupStop
  BY <1>0, <1>1, <1>3 DEF CleanupLock, CleanupScan, CleanupStop
<1>4. CASE ValueLogGC
  BY <1>0, <1>1, <1>4 DEF ValueLogGC, GCLock, GCRewrite, GCUnlock, GCStop
<1>5. CASE CloseSignal \/ CloseDB \/ UNCHANGED vars
  BY <1>0, <1>1, <1>5 DEF CloseSignal, CloseDB, vars
<1>6. CASE Tick
  BY <1>0, <1>1, <1>6 DEF Tick
<1>7. CASE Restart
  <2>1. /\ UNCHANGED <<now, cold, latest>> /\ mem' = <<>>
        /\ call' = [c \in Client |-> IdleCall] /\ promo' = [s \in Slot |-> NoPromo]
        /\ disturbed' = [j \in Key |-> IF \E c \in Client : WritingTo(c, j)
                                       THEN disturbed[j] \cup {"restart"} ELSE disturbed[j]]
    BY <1>7 DEF Restart
  <2>2. disturbed'[k] = {} => disturbed[k] = {} /\ NobodyWrites(k)
    BY <2>1 DEF NobodyWrites
  <2>3. HotStep(k) /\ PromoStep(k)
    BY <1>0, <2>1 DEF HotStep, PromoStep
  <2>4. CallStep(k)
    BY <2>1, Defaults DEF CallStep, Touching, WritingTo
  <2> QED
    BY <1>0, <2>1, <2>2, <2>3, <2>4 DEF KeyStep, ColdStep
<1> QED
  BY <1>2, <1>3, <1>4, <1>5, <1>6, <1>7 DEF Cleanup

(* gob's errors keep a key away from Badger for good. *)
LEMMA EncodedStep ==
  ASSUME TypeOK, Encoded, [Next]_vars
  PROVE  Encoded'
<1> USE DEF calls, history
<1>0. /\ call \in [Client -> CallState] /\ cold \in [Key -> ColdEntry] /\ Unencodable \subseteq Key
      /\ NoCold.ver = 0 /\ "read" \in Steps /\ "drop" \in Steps /\ "purge" \in Steps
      /\ "erase" \in Steps /\ "clear" \in Steps
  BY ConfigAssumption DEF TypeOK, NoCold, Steps, Lookups, Writes
<1>1. ASSUME \A k \in Key : cold'[k] = cold[k] \/ cold'[k] = NoCold,
             \A c \in Client : call'[c] = call[c] \/ call'[c].at \notin {"entry", "write"}
      PROVE  Encoded'
  BY <1>0, <1>1 DEF Encoded, InCold
<1>2. ASSUME NEW c \in Client, OthersStay(c), call'[c].at \notin {"entry", "write"},
             UNCHANGED cold \/ cold' = [cold EXCEPT ![call[c].key] = NoCold]
      PROVE  Encoded'
  <2>1. \A d \in Client : call'[d] = call[d] \/ call'[d].at \notin {"entry", "write"}
    BY <1>2 DEF OthersStay
  <2>2. \A k \in Key : cold'[k] = cold[k] \/ cold'[k] = NoCold
    BY <1>0, <1>2
  <2> QED
    BY <1>1, <2>1, <2>2
<1>3. ASSUME NEW c \in Client, Lookup(c) PROVE Encoded'
  <2>1. ASSUME NEW k \in Key, LookupHit(c, k) PROVE Encoded'
    BY <1>1, <2>1 DEF LookupHit
  <2>2. ASSUME NEW k \in Key, NEW op \in {"get", "exists"}, LookupMiss(c, op, k) PROVE Encoded'
    <3>1. Begin(c, op, "read", k) /\ UNCHANGED cold
      BY <2>2 DEF LookupMiss
    <3>2. call'[c].at = "read" /\ OthersStay(c)
      BY <1>0, <3>1, BeginMoves
    <3> QED
      BY <1>2, <3>1, <3>2
  <2>3. ASSUME NEW k \in Key, NEW op \in {"get", "exists"}, LookupExpired(c, op, k) PROVE Encoded'
    <3>1. Begin(c, op, "drop", k) /\ UNCHANGED cold
      BY <2>3 DEF LookupExpired
    <3>2. call'[c].at = "drop" /\ OthersStay(c)
      BY <1>0, <3>1, BeginMoves
    <3> QED
      BY <1>2, <3>1, <3>2
  <2>4. CASE LookupDrop(c) \/ ReadExpiring(c)
    <3>1. /\ UNCHANGED cold
          /\ \/ call' = [call EXCEPT ![c].at = "read"]
             \/ call' = [call EXCEPT ![c].at = "purge"]
      BY <2>4 DEF LookupDrop, ReadExpiring
    <3>2. call'[c].at \in {"read", "purge"} /\ OthersStay(c)
      BY <1>0, <3>1, NextMoves
    <3> QED
      BY <1>2, <3>1, <3>2
  <2>5. CASE ReadCold(c) \/ ReadNothing(c) \/ PurgeExpired(c)
    <3>1. Return(c) /\ (UNCHANGED cold \/ cold' = [cold EXCEPT ![call[c].key] = NoCold])
      BY <2>5 DEF ReadCold, ReadNothing, PurgeExpired
    <3>2. call'[c].at = "idle" /\ OthersStay(c)
      BY <1>0, <3>1, ReturnMoves
    <3> QED
      BY <1>2, <3>1, <3>2
  <2> QED
    BY <1>3, <2>1, <2>2, <2>3, <2>4, <2>5 DEF Lookup
<1>4. ASSUME NEW c \in Client, Set(c) PROVE Encoded'
  <2>1. ASSUME NEW k \in Key, NEW ttl \in TTL, SetHot(c, k, ttl) PROVE Encoded'
    <3> DEFINE w == [IdleCall EXCEPT !.at = "stamp", !.op = "set", !.key = k,
                                     !.ver = Len(written) + 1, !.ttl = ttl]
    <3>1. call' = [call EXCEPT ![c] = w] /\ UNCHANGED cold
      BY <2>1 DEF SetHot
    <3>2. w.at = "stamp"
      BY DEF IdleCall
    <3> HIDE DEF w
    <3>3. call'[c].at = "stamp" /\ OthersStay(c)
      BY <1>0, <3>1, <3>2, OneCallMoves
    <3> QED
      BY <1>2, <3>1, <3>3
  <2>2. CASE SetStamp(c)
    <3>1. CASE Return(c)
      <4>1. call'[c].at = "idle" /\ OthersStay(c) /\ UNCHANGED cold
        BY <1>0, <2>2, <3>1, ReturnMoves DEF SetStamp
      <4> QED
        BY <1>2, <4>1
    <3>2. CASE ~Return(c)
      <4> DEFINE w == [call[c] EXCEPT !.at = "entry", !.exp = now + call[c].ttl]
      <4>1. call' = [call EXCEPT ![c] = w] /\ call[c].key \notin Unencodable /\ UNCHANGED cold
        BY <2>2, <3>2 DEF SetStamp
      <4>2. call[c] \in CallState
        BY <1>0
      <4>3. w.key = call[c].key
        BY <4>2 DEF CallState
      <4> HIDE DEF w
      <4>4. \A d \in Client : call'[d] = call[d] \/ call'[d].key \notin Unencodable
        BY <1>0, <4>1, <4>3
      <4> QED
        BY <4>1, <4>4 DEF Encoded, InCold
    <3> QED
      BY <3>1, <3>2
  <2>3. CASE SetEntry(c)
    <3> DEFINE w == [call[c] EXCEPT !.at = "write", !.native = now + call[c].ttl]
    <3>1. call' = [call EXCEPT ![c] = w] /\ call[c].at = "entry" /\ UNCHANGED cold
      BY <2>3 DEF SetEntry
    <3>2. call[c] \in CallState
      BY <1>0
    <3>3. w.key = call[c].key
      BY <3>2 DEF CallState
    <3>4. call[c].key \notin Unencodable
      BY <3>1 DEF Encoded
    <3> HIDE DEF w
    <3>5. \A d \in Client : call'[d] = call[d] \/ call'[d].key \notin Unencodable
      BY <1>0, <3>1, <3>3, <3>4
    <3> QED
      BY <3>1, <3>5 DEF Encoded, InCold
  <2>4. CASE SetCold(c)
    <3>1. /\ Return(c) /\ call[c].at = "write"
          /\ \/ UNCHANGED cold
             \/ cold' = [cold EXCEPT ![call[c].key] = [ver |-> call[c].ver, exp |-> call[c].exp, native |-> call[c].native]]
      BY <2>4 DEF SetCold
    <3>2. call'[c].at = "idle" /\ OthersStay(c)
      BY <1>0, <3>1, ReturnMoves
    <3>3. call[c].key \notin Unencodable
      BY <3>1 DEF Encoded
    <3>4. \A k \in Unencodable : cold'[k] = cold[k]
      BY <1>0, <3>1, <3>3
    <3>5. \A d \in Client : call'[d] = call[d] \/ call'[d].at = "idle"
      BY <3>2 DEF OthersStay
    <3> QED
      BY <3>4, <3>5 DEF Encoded, InCold
  <2> QED
    BY <1>4, <2>1, <2>2, <2>3, <2>4 DEF Set
<1>5. ASSUME NEW c \in Client, Delete(c) \/ Clear(c) PROVE Encoded'
  <2>1. ASSUME NEW k \in Key, DeleteHot(c, k) PROVE Encoded'
    <3>1. Begin(c, "delete", "erase", k) /\ UNCHANGED cold
      BY <2>1 DEF DeleteHot
    <3>2. call'[c].at = "erase" /\ OthersStay(c)
      BY <1>0, <3>1, BeginMoves
    <3> QED
      BY <1>2, <3>1, <3>2
  <2>2. CASE ClearHot(c)
    <3>1. Begin(c, "clear", "clear", IdleCall.key) /\ UNCHANGED cold
      BY <2>2 DEF ClearHot
    <3>2. call'[c].at = "clear" /\ OthersStay(c)
      BY <1>0, <3>1, BeginMoves, Defaults
    <3> QED
      BY <1>2, <3>1, <3>2
  <2>3. CASE DeleteCold(c) \/ ClearCold(c)
    <3>1. Return(c) /\ (UNCHANGED cold \/ cold' = [cold EXCEPT ![call[c].key] = NoCold])
      BY <2>3 DEF DeleteCold, ClearCold
    <3>2. call'[c].at = "idle" /\ OthersStay(c)
      BY <1>0, <3>1, ReturnMoves
    <3> QED
      BY <1>2, <3>1, <3>2
  <2> QED
    BY <1>5, <2>1, <2>2, <2>3 DEF Delete, Clear
<1>6. ASSUME NEW s \in Slot, Promote(s) PROVE Encoded'
  BY <1>1, <1>6 DEF Promote
<1>7. CASE CleanupDelete
  <2>1. \A k \in Key : cold'[k] = cold[k] \/ cold'[k] = NoCold
    BY <1>7 DEF CleanupDelete
  <2>2. UNCHANGED call
    BY <1>7 DEF CleanupDelete
  <2> QED
    BY <1>1, <2>1, <2>2
<1>8. CASE CleanupLock \/ CleanupScan \/ CleanupStop \/ ValueLogGC \/ CloseSignal \/ CloseDB
           \/ Tick \/ UNCHANGED vars
  BY <1>1, <1>8 DEF CleanupLock, CleanupScan, CleanupStop, ValueLogGC, GCLock, GCRewrite,
     GCUnlock, GCStop, CloseSignal, CloseDB, Tick, vars
<1>9. CASE Restart
  BY <1>1, <1>9, Defaults DEF Restart
<1> QED
  BY <1>3, <1>4, <1>5, <1>6, <1>7, <1>8, <1>9 DEF Next, Cleanup

LEMMA TrustStep ==
  ASSUME TypeOK, TypeOK', LifetimeInv, TrustInv, [Next]_vars
  PROVE  TrustInv'
<1>1. Encoded'
  BY EncodedStep DEF TrustInv
<1>2. ASSUME now' >= now, \A k \in Key : KeyStep(k) PROVE \A k \in Key : Trusted(k)'
  BY <1>2, KeyKept DEF TrustInv
<1>3. now \in Nat
  BY DEF TypeOK
<1>4. ASSUME NEW c \in Client, Lookup(c) PROVE \A k \in Key : Trusted(k)'
  <2>1. now' >= now
    BY <1>3, <1>4, CallLeaves
  <2> QED
    BY <1>2, <1>4, <2>1, LookupSteps
<1>5. ASSUME NEW c \in Client, Set(c) \/ Delete(c) \/ Clear(c) PROVE \A k \in Key : Trusted(k)'
  <2>1. now' >= now
    BY <1>3, <1>5, CallLeaves
  <2>2. CASE \E k \in Key, ttl \in TTL : SetHot(c, k, ttl)
    BY <2>2, SetHotTrusted
  <2>3. CASE \E k \in Key : DeleteHot(c, k)
    BY <2>3, DeleteHotTrusted
  <2>4. CASE ClearHot(c)
    BY <2>4, ClearHotTrusted
  <2>5. CASE SetStamp(c) \/ SetEntry(c) \/ SetCold(c) \/ DeleteCold(c) \/ ClearCold(c)
    BY <1>2, <2>1, <2>5, WriteSteps
  <2> QED
    BY <1>5, <2>2, <2>3, <2>4, <2>5 DEF Set, Delete, Clear
<1>6. ASSUME NEW s \in Slot, Promote(s) PROVE \A k \in Key : Trusted(k)'
  <2>1. now' >= now
    BY <1>3, <1>6 DEF Promote
  <2> QED
    BY <1>2, <1>6, <2>1, PromoteSteps
<1>7. ASSUME Cleanup \/ ValueLogGC \/ CloseSignal \/ CloseDB \/ Restart \/ Tick \/ UNCHANGED vars
      PROVE  \A k \in Key : Trusted(k)'
  <2>1. \A k \in Key : KeyStep(k)
    BY <1>7, RestSteps
  <2>2. now' >= now
    BY <1>7, RestSteps, ConfigAssumption
  <2> QED
    BY <1>2, <2>1, <2>2
<1> QED
  BY <1>1, <1>4, <1>5, <1>6, <1>7 DEF Next, TrustInv

LEMMA TrustInvariance == Spec => [](TypeOK /\ LifetimeInv /\ TrustInv)
<1>1. Init => TrustInv
  <2> SUFFICES ASSUME Init PROVE TrustInv
    OBVIOUS
  <2>1. \A c \in Client : call[c].at = "idle"
    BY Defaults DEF Init
  <2>2. Encoded
    BY <2>1, ConfigAssumption DEF Init, Encoded, InCold, NoCold
  <2>3. ASSUME NEW k \in Key PROVE HotTrust(k) /\ PromoTrust(k) /\ ColdTrust(k) /\ CallTrust(k)
    <3>1. HotTrust(k)
      BY DEF Init, HotTrust
    <3>2. PromoTrust(k)
      BY DEF Init, PromoTrust, NoPromo
    <3>3. ColdTrust(k)
      BY DEF Init, ColdTrust, InCold, NoCold
    <3>4. CallTrust(k)
      BY <2>1 DEF CallTrust, WritingTo, Touching
    <3> QED
      BY <3>1, <3>2, <3>3, <3>4
  <2> QED
    BY <2>2, <2>3 DEF TrustInv, Trusted
<1>2. TypeOK /\ TypeOK' /\ LifetimeInv /\ TrustInv /\ [Next]_vars => TrustInv'
  BY TrustStep
<1> QED
  BY <1>1, <1>2, LifetimeInvariance, TypeCorrect, PTL DEF Spec

(* What a lookup is answered with: once no call and no promotion is at a   *)
(* key and nothing overlapped, failed, was cleared or crashed since its    *)
(* last Set or Delete began, neither tier can serve anything but what that *)
(* call left, whatever was evicted, promoted, purged or restarted since.   *)
THEOREM LatestIsServed == Spec => []OnlyTheLatestIsServed
<1>1. TypeOK /\ LifetimeInv /\ TrustInv => OnlyTheLatestIsServed
  <2> SUFFICES ASSUME TypeOK, LifetimeInv, TrustInv,
                      NEW k \in Key, Quiet(k), disturbed[k] = {}, NEW v \in Surviving(k)
               PROVE  v = latest[k] /\ v # 0
    BY DEF OnlyTheLatestIsServed
  <2>1. HotTrust(k) /\ ColdTrust(k) /\ NobodyWrites(k)
    BY DEF TrustInv, Trusted, Quiet, NobodyWrites, WritingTo
  <2>2. CASE HotFresh(k) /\ v = HotOf(k).ver
    <3>1. PICK j \in DOMAIN mem : HotOf(k) = mem[j]
      BY <2>2, HotOfTyped DEF HotFresh, TypeOK
    <3>2. mem[j].key = k /\ mem[j].exp >= now
      BY <2>2, <3>1, HotOfTyped DEF HotFresh, TypeOK
    <3>3. mem[j].ver \in DOMAIN written
      BY DEF LifetimeInv, HotVouched, Vouched
    <3>4. mem[j].ver # 0
      BY <3>3 DEF TypeOK
    <3> QED
      BY <2>1, <2>2, <3>1, <3>2, <3>4 DEF HotTrust
  <2>3. CASE ColdLive(k) /\ v = cold[k].ver
    BY <2>1, <2>3 DEF ColdTrust, ColdLive, InCold
  <2> QED
    BY <2>2, <2>3 DEF Surviving
<1> QED
  BY <1>1, TrustInvariance, PTL

-----------------------------------------------------------------------------
(* The contract: each step of the cache is a step of CacheContract, or     *)
(* none of its business.                                                   *)

(* A Set in progress keeps the lifetime it was called with. *)
LifetimesOffered == \A c \in Client : call[c].at \in Setting => call[c].ttl \in TTL

LEMMA OfferedStep ==
  ASSUME TypeOK, LifetimesOffered, [Next]_vars
  PROVE  LifetimesOffered'
<1> USE DEF calls
<1>0. call \in [Client -> CallState]
  BY DEF TypeOK
<1>1. ASSUME \A d \in Client : \/ call'[d] = call[d]
                               \/ call'[d].at \notin Setting
                               \/ call'[d].ttl \in TTL
      PROVE  LifetimesOffered'
  BY <1>1 DEF LifetimesOffered
<1>2. ASSUME NEW c \in Client, Lookup(c) \/ Delete(c) \/ Clear(c) PROVE LifetimesOffered'
  <2>1. \/ UNCHANGED call
        \/ Return(c)
        \/ \E op, k : \E at \in {"read", "drop", "erase", "clear"} : Begin(c, op, at, k)
        \/ \E at \in {"read", "purge"} : call' = [call EXCEPT ![c].at = at]
    <3>1. CASE Delete(c) \/ Clear(c)
      BY <3>1 DEF Delete, DeleteHot, DeleteCold, Clear, ClearHot, ClearCold
    <3>2. CASE \E k \in Key : LookupHit(c, k)
      BY <3>2 DEF LookupHit
    <3>3. CASE \E k \in Key, op \in {"get", "exists"} : LookupMiss(c, op, k) \/ LookupExpired(c, op, k)
      BY <3>3 DEF LookupMiss, LookupExpired
    <3>4. CASE LookupDrop(c) \/ ReadCold(c) \/ ReadNothing(c) \/ ReadExpiring(c) \/ PurgeExpired(c)
      BY <3>4 DEF LookupDrop, ReadCold, ReadNothing, ReadExpiring, PurgeExpired
    <3> QED
      BY <1>2, <3>1, <3>2, <3>3, <3>4 DEF Lookup
  <2>2. \A d \in Client : call'[d] = call[d] \/ call'[d].at \notin Setting
    BY <1>0, <2>1, NotSetting
  <2> QED
    BY <1>1, <2>2
<1>3. ASSUME NEW c \in Client, NEW k \in Key, NEW ttl \in TTL, SetHot(c, k, ttl)
      PROVE  LifetimesOffered'
  <2> DEFINE w == [IdleCall EXCEPT !.at = "stamp", !.op = "set", !.key = k,
                                   !.ver = Len(written) + 1, !.ttl = ttl]
  <2>1. call' = [call EXCEPT ![c] = w]
    BY <1>3 DEF SetHot
  <2>2. w.ttl \in TTL
    BY DEF IdleCall
  <2> HIDE DEF w
  <2>3. \A d \in Client : call'[d] = call[d] \/ call'[d].ttl \in TTL
    BY <1>0, <2>1, <2>2
  <2> QED
    BY <1>1, <2>3
<1>4. ASSUME NEW c \in Client, SetStamp(c) \/ SetEntry(c) \/ SetCold(c) PROVE LifetimesOffered'
  <2>1. CASE Return(c)
    BY <1>0, <1>1, <2>1, NotSetting
  <2>2. CASE ~Return(c)
    <3>1. call[c] \in CallState /\ call[c].at \in Setting
      BY <1>0, <1>4 DEF SetStamp, SetEntry, SetCold, Setting
    <3>2. PICK w : call' = [call EXCEPT ![c] = w] /\ w.ttl = call[c].ttl
      <4>1. CASE SetStamp(c)
        <5> DEFINE w == [call[c] EXCEPT !.at = "entry", !.exp = now + call[c].ttl]
        <5>1. call' = [call EXCEPT ![c] = w] /\ w.ttl = call[c].ttl
          BY <2>2, <3>1, <4>1 DEF SetStamp, CallState
        <5> HIDE DEF w
        <5> QED
          BY <5>1
      <4>2. CASE SetEntry(c)
        <5> DEFINE w == [call[c] EXCEPT !.at = "write", !.native = now + call[c].ttl]
        <5>1. call' = [call EXCEPT ![c] = w] /\ w.ttl = call[c].ttl
          BY <3>1, <4>2 DEF SetEntry, CallState
        <5> HIDE DEF w
        <5> QED
          BY <5>1
      <4> QED
        BY <1>4, <2>2, <4>1, <4>2 DEF SetCold
    <3>3. w.ttl \in TTL
      BY <3>1, <3>2 DEF LifetimesOffered
    <3>4. \A d \in Client : call'[d] = call[d] \/ call'[d].ttl \in TTL
      BY <1>0, <3>2, <3>3
    <3> QED
      BY <1>1, <3>4
  <2> QED
    BY <2>1, <2>2
<1>5. CASE Cleanup \/ ValueLogGC \/ CloseSignal \/ CloseDB \/ Tick \/ UNCHANGED vars
  BY <1>1, <1>5 DEF Cleanup, CleanupLock, CleanupScan, CleanupDelete, CleanupStop, ValueLogGC,
     GCLock, GCRewrite, GCUnlock, GCStop, CloseSignal, CloseDB, Tick, vars
<1>6. CASE Restart
  BY <1>1, <1>6, Defaults DEF Restart, Setting
<1>7. ASSUME NEW s \in Slot, Promote(s) PROVE LifetimesOffered'
  BY <1>1, <1>7 DEF Promote
<1> QED
  BY <1>2, <1>3, <1>4, <1>5, <1>6, <1>7 DEF Next, Set

ContractInv == TypeOK /\ LifetimeInv /\ TrustInv /\ LifetimesOffered

(* An answer from either tier may be trusted. *)
LEMMA AnswersTrusted ==
  ASSUME ContractInv, NEW k \in Key, NEW c \in Client
  PROVE  /\ HotFresh(k) => Contract!Trustworthy(k, HotOf(k).ver)
         /\ call[c].at = "read" /\ call[c].key = k /\ ColdLive(k)
              => Contract!Trustworthy(k, cold[k].ver)
<1>0. /\ TypeOK /\ LruOK /\ HotVouched /\ ColdVouched /\ Trusted(k) /\ now \in Nat /\ MaxLag \in Nat
      /\ written \in Seq(WriteRecord)
  BY ConfigAssumption DEF ContractInv, TypeOK, LifetimeInv, TrustInv
<1>1. ASSUME HotFresh(k) PROVE Contract!Trustworthy(k, HotOf(k).ver)
  <2>1. PICK j \in DOMAIN mem : HotOf(k) = mem[j]
    BY <1>0, <1>1, HotOfTyped DEF HotFresh
  <2>2. mem[j].key = k /\ mem[j].exp >= now /\ mem[j].exp \in Int
    BY <1>0, <1>1, <2>1, HotOfTyped DEF HotFresh
  <2>3. /\ mem[j].ver \in DOMAIN written /\ written[mem[j].ver].key = k
        /\ mem[j].exp - MaxLag <= written[mem[j].ver].due
    BY <1>0, <2>2 DEF HotVouched, Vouched
  <2>4. written[mem[j].ver].due \in Nat
    <3>1. written[mem[j].ver] \in WriteRecord
      BY <1>0, <2>3
    <3> QED
      BY <3>1 DEF WriteRecord
  <2>5. now <= written[mem[j].ver].due + MaxLag
    BY <1>0, <2>2, <2>3, <2>4
  <2>6. disturbed[k] = {} => mem[j].ver = latest[k]
    BY <1>0, <2>2 DEF Trusted, HotTrust
  <2> QED
    BY <2>1, <2>3, <2>5, <2>6 DEF Contract!Trustworthy
<1>2. ASSUME call[c].at = "read", call[c].key = k, ColdLive(k)
      PROVE  Contract!Trustworthy(k, cold[k].ver)
  <2>1. /\ cold[k].ver \in DOMAIN written /\ written[cold[k].ver].key = k
        /\ cold[k].native <= written[cold[k].ver].due /\ cold[k].native > now
    BY <1>0, <1>2 DEF ColdVouched, Vouched, ColdLive
  <2>2. written[cold[k].ver].due \in Nat /\ cold[k].native \in Int
    <3>1. written[cold[k].ver] \in WriteRecord
      BY <1>0, <2>1
    <3> QED
      BY <1>0, <3>1 DEF WriteRecord, TypeOK, ColdEntry
  <2>3. now <= written[cold[k].ver].due + MaxLag
    BY <1>0, <2>1, <2>2
  <2>4. disturbed[k] = {} => cold[k].ver = latest[k]
    <3> SUFFICES ASSUME disturbed[k] = {} PROVE cold[k].ver = latest[k]
      OBVIOUS
    <3>1. CallTrust(k) /\ ColdTrust(k)
      BY <1>0 DEF Trusted
    <3>2. Touching(c, k) /\ ~WritingTo(c, k)
      BY <1>2 DEF Touching, WritingTo, Writes
    <3>3. NobodyWrites(k)
      BY <3>1, <3>2 DEF CallTrust, Contended, NobodyWrites
    <3> QED
      BY <1>2, <3>1, <3>3 DEF ColdTrust, ColdLive
  <2> QED
    BY <2>1, <2>3, <2>4 DEF Contract!Trustworthy
<1> QED
  BY <1>1, <1>2

(* Steps that only add reasons for mistrust, and cut lookups short. *)
LEMMA MissSteps ==
  ASSUME TypeOK, TypeOK', UNCHANGED <<now, written, latest>>,
         \A k \in Key : disturbed[k] \subseteq disturbed'[k],
         \A c \in Client : answer'[c] = answer[c] \/ answer'[c] = NoAnswer
  PROVE  Contract!Miss
<1>1. NoAnswer = Contract!Silent
  BY DEF NoAnswer, Contract!Silent, Contract!Misses
<1>2. DOMAIN answer' = Client /\ disturbed' \in Contract!Mistrust
  BY DEF TypeOK, Causes, Contract!Mistrust
<1>3. Contract!MistrustGrows({})
  BY <1>2 DEF Contract!MistrustGrows
<1> QED
  BY <1>1, <1>2, <1>3 DEF Contract!Miss

LEMMA ContractStep ==
  ASSUME ContractInv, TypeOK', [Next]_vars
  PROVE  [Contract!Next]_(Contract!contractVars)
<1> USE DEF calls, history
<1>0. /\ TypeOK /\ disturbed \in Causes /\ disturbed' \in Contract!Mistrust
      /\ answer \in [Client -> Answer] /\ NoAnswer = Contract!Silent
      /\ call \in [Client -> CallState] /\ written \in Seq(WriteRecord)
  BY DEF ContractInv, TypeOK, NoAnswer, Contract!Silent, Contract!Misses, Causes, Contract!Mistrust
<1>1. ASSUME UNCHANGED <<now, written, latest, disturbed, answer>>
      PROVE  [Contract!Next]_(Contract!contractVars)
  BY <1>1 DEF Contract!contractVars
<1>2. ASSUME Contract!Next PROVE [Contract!Next]_(Contract!contractVars)
  BY <1>2
<1>3. ASSUME NEW c \in Client, NEW k \in Key, NEW v \in DOMAIN written, Contract!Trustworthy(k, v),
             Answered(c, k, v), UNCHANGED <<now, written, latest, disturbed>>
      PROVE  [Contract!Next]_(Contract!contractVars)
  <2>1. Contract!Respond(c, k, v)
    BY <1>3 DEF Contract!Respond, Answered
  <2> QED
    BY <2>1 DEF Contract!Next
<1>4. ASSUME NEW c \in Client, Lookup(c) PROVE [Contract!Next]_(Contract!contractVars)
  <2>1. ASSUME NEW k \in Key, LookupHit(c, k) PROVE [Contract!Next]_(Contract!contractVars)
    <3>1. /\ HotFresh(k) /\ Answered(c, k, HotOf(k).ver)
          /\ UNCHANGED <<now, written, latest, disturbed>>
      BY <2>1 DEF LookupHit
    <3>2. Contract!Trustworthy(k, HotOf(k).ver)
      BY <3>1, AnswersTrusted
    <3>3. HotOf(k).ver \in DOMAIN written
      BY <3>2 DEF Contract!Trustworthy
    <3> QED
      BY <1>3, <3>1, <3>2, <3>3
  <2>2. ASSUME NEW k \in Key, NEW op \in {"get", "exists"},
               LookupMiss(c, op, k) \/ LookupExpired(c, op, k)
        PROVE  [Contract!Next]_(Contract!contractVars)
    <3>1. /\ UNCHANGED <<now, written, latest>> /\ Unanswered(c)
          /\ disturbed' = [disturbed EXCEPT ![k] = AfterReadStart(c, k)]
      BY <2>2 DEF LookupMiss, LookupExpired
    <3>2. \A j \in Key : disturbed[j] \subseteq disturbed'[j]
      BY <1>0, <3>1 DEF AfterReadStart, Causes
    <3>3. \A d \in Client : answer'[d] = answer[d] \/ answer'[d] = NoAnswer
      BY <1>0, <3>1 DEF Unanswered
    <3>4. Contract!Miss
      BY <1>0, <3>1, <3>2, <3>3, MissSteps
    <3> QED
      BY <3>4 DEF Contract!Next
  <2>3. CASE ReadCold(c)
    <3>1. PICK k \in Key : k = call[c].key
      BY <1>0 DEF CallState
    <3>2. /\ call[c].at = "read" /\ ColdLive(k) /\ Answered(c, k, cold[k].ver)
          /\ UNCHANGED <<now, written, latest, disturbed>>
      BY <2>3, <3>1 DEF ReadCold
    <3>3. Contract!Trustworthy(k, cold[k].ver)
      BY <3>1, <3>2, AnswersTrusted
    <3>4. cold[k].ver \in DOMAIN written
      BY <3>3 DEF Contract!Trustworthy
    <3> QED
      BY <1>3, <3>2, <3>3, <3>4
  <2>4. CASE LookupDrop(c) \/ ReadNothing(c) \/ ReadExpiring(c) \/ PurgeExpired(c)
    BY <1>1, <2>4 DEF LookupDrop, ReadNothing, ReadExpiring, PurgeExpired
  <2> QED
    BY <1>4, <2>1, <2>2, <2>3, <2>4 DEF Lookup
<1>5. ASSUME NEW c \in Client, NEW k \in Key, Unanswered(c),
             disturbed' = [disturbed EXCEPT ![k] = AfterWriteStart(c, k)]
      PROVE  Contract!MistrustGrows({k}) /\ Contract!Hush(c)
  BY <1>0, <1>5 DEF Contract!MistrustGrows, Contract!Hush, Unanswered, Causes
<1>6. ASSUME NEW c \in Client, NEW k \in Key, NEW ttl \in TTL, SetHot(c, k, ttl)
      PROVE  [Contract!Next]_(Contract!contractVars)
  <2>1. /\ Unanswered(c) /\ disturbed' = [disturbed EXCEPT ![k] = AfterWriteStart(c, k)]
        /\ written' = Append(written, [key |-> k, due |-> now + ttl])
        /\ latest' = [latest EXCEPT ![k] = Len(written) + 1]
        /\ UNCHANGED now
    BY <1>6 DEF SetHot
  <2>2. Contract!Set(c, k, ttl)
    BY <1>5, <2>1 DEF Contract!Set
  <2> QED
    BY <2>2 DEF Contract!Next
<1>7. ASSUME NEW c \in Client, SetStamp(c) \/ SetEntry(c)
      PROVE  [Contract!Next]_(Contract!contractVars)
  <2>1. CASE UNCHANGED written
    BY <1>1, <1>7, <2>1 DEF SetStamp, SetEntry
  <2>2. CASE written' # written
    <3>1. PICK v, ttl : v = call[c].ver /\ ttl = call[c].ttl
      OBVIOUS
    <3>2. /\ written' = [written EXCEPT ![v].due = now + ttl]
          /\ UNCHANGED <<now, latest, disturbed, answer>>
          /\ call[c].at \in {"stamp", "entry"}
      BY <1>7, <2>2, <3>1 DEF SetStamp, SetEntry
    <3>3. SetOK(call[c], written, now)
      BY DEF ContractInv, LifetimeInv, SetsOK
    <3>4. v \in DOMAIN written /\ written[v].due <= now + ttl /\ ttl \in TTL
      BY <3>1, <3>2, <3>3 DEF SetOK, Setting, ContractInv, LifetimesOffered
    <3>5. Contract!Prolong(v, ttl)
      BY <3>2, <3>4 DEF Contract!Prolong
    <3> QED
      BY <3>4, <3>5 DEF Contract!Next
  <2> QED
    BY <2>1, <2>2
<1>8. ASSUME NEW c \in Client, SetCold(c) \/ DeleteCold(c) \/ ClearCold(c)
      PROVE  [Contract!Next]_(Contract!contractVars)
  <2>1. UNCHANGED <<now, written, latest, answer>>
    BY <1>8 DEF SetCold, DeleteCold, ClearCold
  <2>2. \A k \in Key : disturbed[k] \subseteq disturbed'[k]
    BY <1>0, <1>8 DEF SetCold, DeleteCold, ClearCold, Causes
  <2>3. Contract!Miss
    BY <1>0, <2>1, <2>2, MissSteps
  <2> QED
    BY <2>3 DEF Contract!Next
<1>9. ASSUME NEW c \in Client, NEW k \in Key, DeleteHot(c, k)
      PROVE  [Contract!Next]_(Contract!contractVars)
  <2>1. /\ Unanswered(c) /\ disturbed' = [disturbed EXCEPT ![k] = AfterWriteStart(c, k)]
        /\ latest' = [latest EXCEPT ![k] = 0] /\ UNCHANGED <<now, written>>
    BY <1>9 DEF DeleteHot
  <2>2. Contract!Delete(c, k)
    BY <1>5, <2>1 DEF Contract!Delete
  <2> QED
    BY <2>2 DEF Contract!Next
<1>10. ASSUME NEW c \in Client, ClearHot(c) PROVE [Contract!Next]_(Contract!contractVars)
  <2>1. /\ Unanswered(c) /\ latest' = [k \in Key |-> 0] /\ UNCHANGED <<now, written>>
        /\ disturbed' = [k \in Key |-> AfterWriteStart(c, k) \cup {"clear"}]
    BY <1>10 DEF ClearHot
  <2>2. Contract!MistrustGrows(Key) /\ Contract!Hush(c)
    BY <1>0, <2>1 DEF Contract!MistrustGrows, Contract!Hush, Unanswered
  <2>3. \A k \in Key : disturbed'[k] # {}
    BY <2>1
  <2>4. Contract!Clear(c)
    BY <2>1, <2>2, <2>3 DEF Contract!Clear
  <2> QED
    BY <2>4 DEF Contract!Next
<1>11. ASSUME NEW s \in Slot, Promote(s) PROVE [Contract!Next]_(Contract!contractVars)
  BY <1>1, <1>11 DEF Promote
<1>12. CASE Cleanup \/ ValueLogGC \/ CloseSignal \/ CloseDB \/ UNCHANGED vars
  BY <1>1, <1>12 DEF Cleanup, CleanupLock, CleanupScan, CleanupDelete, CleanupStop, ValueLogGC,
     GCLock, GCRewrite, GCUnlock, GCStop, CloseSignal, CloseDB, vars
<1>13. CASE Tick
  <2>1. Contract!Tick
    BY <1>13 DEF Tick, Contract!Tick
  <2> QED
    BY <2>1 DEF Contract!Next
<1>14. CASE Restart
  <2>1. /\ UNCHANGED <<now, written, latest>> /\ answer' = [c \in Client |-> NoAnswer]
        /\ disturbed' = [k \in Key |-> IF \E c \in Client : WritingTo(c, k)
                                       THEN disturbed[k] \cup {"restart"} ELSE disturbed[k]]
    BY <1>14 DEF Restart
  <2>2. Contract!Miss
    BY <1>0, <2>1, MissSteps
  <2> QED
    BY <2>2 DEF Contract!Next
<1> QED
  BY <1>4, <1>6, <1>7, <1>8, <1>9, <1>10, <1>11, <1>12, <1>13, <1>14
     DEF Next, Set, Delete, Clear

(* The cache keeps CacheContract for any keys, clients, capacity, lags and *)
(* restarts: every answer is a value Set for that key, at most MaxLag past *)
(* the end of its lifetime, and the latest one unless the key is disturbed;*)
(* and what its steps do to that is what the contract allows.              *)
THEOREM KeepsTheContract == Spec => ImplementsContract
<1>1. Init => Contract!Init /\ LifetimesOffered
  <2> SUFFICES ASSUME Init PROVE Contract!Init /\ LifetimesOffered
    OBVIOUS
  <2>1. Contract!Init
    BY DEF Init, Contract!Init, Contract!Silent, Contract!Misses, NoAnswer
  <2>2. LifetimesOffered
    BY Defaults DEF Init, LifetimesOffered, Setting
  <2> QED
    BY <2>1, <2>2
<1>2. TypeOK /\ LifetimesOffered /\ [Next]_vars => LifetimesOffered'
  BY OfferedStep
<1>3. ContractInv /\ TypeOK' /\ [Next]_vars => [Contract!Next]_(Contract!contractVars)
  BY ContractStep
<1> QED
  BY <1>1, <1>2, <1>3, TrustInvariance, PTL DEF Spec, ImplementsContract, Contract!Spec, ContractInv

-----------------------------------------------------------------------------
(* What a Set wrote stays.                                                 *)

LatestWritten == \A k \in Key : latest[k] # 0 =>
                   latest[k] \in DOMAIN written /\ written[latest[k]].key = k

(* What Badger is about to be given lives as long as the history says. *)
Stamped == \A c \in Client : call[c].at = "write" => call[c].native >= written[call[c].ver].due

(* What a lookup is about to purge has expired, unless a race replaced it. *)
PurgeTrust(k) ==
  disturbed[k] = {} =>
    \A c \in Client : call[c].at = "purge" /\ call[c].key = k /\ InCold(k) => cold[k].native <= now

KeptTrust(k) ==
  /\ k \notin Unencodable /\ disturbed[k] = {} /\ NobodyWrites(k)
  /\ latest[k] # 0 /\ now < written[latest[k]].due
  => cold[k].ver = latest[k] /\ cold[k].native >= written[latest[k]].due

KeptInv == LatestWritten /\ Stamped /\ \A k \in Key : PurgeTrust(k) /\ KeptTrust(k)

LEMMA OthersWait ==
  ASSUME call \in [Client -> CallState], NEW c \in Client,
         Lookup(c) \/ Set(c) \/ Delete(c) \/ Clear(c)
  PROVE  OthersStay(c)
<1> USE DEF calls, OthersStay
<1>1. CASE UNCHANGED call
  BY <1>1
<1>2. CASE \E w : call' = [call EXCEPT ![c] = w]
  BY <1>2
<1>3. CASE Lookup(c)
  <2>1. CASE \E k \in Key : LookupHit(c, k)
    BY <1>1, <2>1 DEF LookupHit
  <2>2. ASSUME NEW k \in Key, NEW op \in {"get", "exists"}, LookupMiss(c, op, k) \/ LookupExpired(c, op, k)
        PROVE  OthersStay(c)
    BY <1>2, <2>2 DEF LookupMiss, LookupExpired, Begin
  <2>3. CASE LookupDrop(c) \/ ReadExpiring(c)
    BY <2>3 DEF LookupDrop, ReadExpiring
  <2>4. CASE ReadCold(c) \/ ReadNothing(c) \/ PurgeExpired(c)
    BY <1>2, <2>4 DEF ReadCold, ReadNothing, PurgeExpired, Return
  <2> QED
    BY <1>3, <2>1, <2>2, <2>3, <2>4 DEF Lookup
<1>4. CASE Set(c)
  <2>1. CASE \E k \in Key, ttl \in TTL : SetHot(c, k, ttl)
    BY <2>1 DEF SetHot
  <2>2. CASE SetStamp(c)
    BY <2>2 DEF SetStamp, Return
  <2>3. CASE SetEntry(c)
    BY <2>3 DEF SetEntry
  <2>4. CASE SetCold(c)
    BY <2>4 DEF SetCold, Return
  <2> QED
    BY <1>4, <2>1, <2>2, <2>3, <2>4 DEF Set
<1>5. CASE Delete(c) \/ Clear(c)
  BY <1>2, <1>5 DEF Delete, DeleteHot, DeleteCold, Clear, ClearHot, ClearCold, Begin, Return
<1> QED
  BY <1>3, <1>4, <1>5

(* A call comes to "purge" or "write" by one step each. *)
LEMMA ComesTo ==
  ASSUME TypeOK, [Next]_vars, NEW c \in Client, call'[c].at \in {"purge", "write"}, call'[c] # call[c]
  PROVE  SetEntry(c) \/ ReadExpiring(c)
<1> USE DEF calls
<1>0. /\ call \in [Client -> CallState] /\ IdleCall.at = "idle" /\ call[c] \in CallState
      /\ {"read", "drop", "erase", "clear"} \subseteq Steps
  BY Defaults DEF TypeOK, Steps, Lookups, Writes
<1>1. ASSUME NEW d \in Client, Lookup(d) \/ Set(d) \/ Delete(d) \/ Clear(d)
      PROVE  d = c
  BY <1>0, <1>1, OthersWait DEF OthersStay
<1>2. CASE Lookup(c)
  <2>1. ASSUME NEW k \in Key, NEW op \in {"get", "exists"}, LookupMiss(c, op, k) PROVE FALSE
    <3>1. Begin(c, op, "read", k)
      BY <2>1 DEF LookupMiss
    <3> QED
      BY <1>0, <3>1, BeginMoves
  <2>2. ASSUME NEW k \in Key, NEW op \in {"get", "exists"}, LookupExpired(c, op, k) PROVE FALSE
    <3>1. Begin(c, op, "drop", k)
      BY <2>2 DEF LookupExpired
    <3> QED
      BY <1>0, <3>1, BeginMoves
  <2>3. CASE LookupDrop(c)
    <3>1. call' = [call EXCEPT ![c].at = "read"]
      BY <2>3 DEF LookupDrop
    <3> QED
      BY <1>0, <3>1, NextMoves
  <2>4. CASE ReadCold(c) \/ ReadNothing(c) \/ PurgeExpired(c)
    <3>1. Return(c)
      BY <2>4 DEF ReadCold, ReadNothing, PurgeExpired
    <3> QED
      BY <1>0, <3>1, ReturnMoves
  <2>5. ASSUME NEW k \in Key, LookupHit(c, k) PROVE FALSE
    BY <2>5 DEF LookupHit
  <2> QED
    BY <1>2, <2>1, <2>2, <2>3, <2>4, <2>5 DEF Lookup
<1>3. CASE Set(c)
  <2>1. ASSUME NEW k \in Key, NEW ttl \in TTL, SetHot(c, k, ttl) PROVE FALSE
    <3> DEFINE w == [IdleCall EXCEPT !.at = "stamp", !.op = "set", !.key = k,
                                     !.ver = Len(written) + 1, !.ttl = ttl]
    <3>1. call' = [call EXCEPT ![c] = w]
      BY <2>1 DEF SetHot
    <3>2. w.at = "stamp"
      BY DEF IdleCall
    <3> HIDE DEF w
    <3> QED
      BY <1>0, <3>1, <3>2
  <2>2. ASSUME SetStamp(c) PROVE FALSE
    <3>1. CASE Return(c)
      BY <1>0, <3>1, ReturnMoves
    <3>2. CASE ~Return(c)
      <4> DEFINE w == [call[c] EXCEPT !.at = "entry", !.exp = now + call[c].ttl]
      <4>1. call' = [call EXCEPT ![c] = w]
        BY <2>2, <3>2 DEF SetStamp
      <4>2. w.at = "entry"
        BY <1>0 DEF CallState
      <4> HIDE DEF w
      <4> QED
        BY <1>0, <4>1, <4>2
    <3> QED
      BY <3>1, <3>2
  <2>3. ASSUME SetCold(c) PROVE FALSE
    <3>1. Return(c)
      BY <2>3 DEF SetCold
    <3> QED
      BY <1>0, <3>1, ReturnMoves
  <2> QED
    BY <1>3, <2>1, <2>2, <2>3 DEF Set
<1>4. ASSUME Delete(c) \/ Clear(c) PROVE FALSE
  <2>1. \/ \E k \in Key : Begin(c, "delete", "erase", k) \/ Begin(c, "clear", "clear", k)
        \/ Return(c)
    BY <1>4, Defaults DEF Delete, DeleteHot, DeleteCold, Clear, ClearHot, ClearCold
  <2> QED
    BY <1>0, <2>1, BeginMoves, ReturnMoves
<1>5. ASSUME NEW s \in Slot, Promote(s) PROVE FALSE
  BY <1>5 DEF Promote
<1>6. ASSUME Cleanup \/ ValueLogGC \/ CloseSignal \/ CloseDB \/ Tick \/ UNCHANGED vars PROVE FALSE
  BY <1>6 DEF Cleanup, CleanupLock, CleanupScan, CleanupDelete, CleanupStop, ValueLogGC,
     GCLock, GCRewrite, GCUnlock, GCStop, CloseSignal, CloseDB, Tick, vars
<1>7. ASSUME Restart PROVE FALSE
  BY <1>0, <1>7 DEF Restart
<1> QED
  BY <1>1, <1>2, <1>3, <1>4, <1>5, <1>6, <1>7 DEF Next

(* Of a recorded write only the expiry changes, and only by its own call. *)
LEMMA HistoryStep ==
  ASSUME TypeOK, [Next]_vars, NEW v \in DOMAIN written
  PROVE  /\ v \in DOMAIN written' /\ written'[v].key = written[v].key
         /\ \/ written'[v].due = written[v].due
            \/ \E c \in Client : (SetStamp(c) \/ SetEntry(c)) /\ ~Return(c) /\ call[c].ver = v
<1> USE DEF history
<1>0. written \in Seq(WriteRecord) /\ call \in [Client -> CallState] /\ now \in Nat
  BY DEF TypeOK
<1>1. CASE UNCHANGED written
  BY <1>1
<1>2. ASSUME NEW c \in Client, NEW k \in Key, NEW ttl \in TTL, SetHot(c, k, ttl)
      PROVE  v \in DOMAIN written' /\ written'[v] = written[v]
  <2>1. PICK r \in WriteRecord : r = [key |-> k, due |-> now + ttl]
    <3>1. now + ttl \in Nat
      BY <1>0, ConfigAssumption
    <3>2. [key |-> k, due |-> now + ttl] \in WriteRecord
      BY <3>1 DEF WriteRecord
    <3> QED
      BY <3>2
  <2>2. written' = Append(written, r)
    BY <1>2, <2>1 DEF SetHot
  <2> QED
    BY <1>0, <2>2
<1>3. ASSUME NEW c \in Client, SetStamp(c) \/ SetEntry(c), written' # written
      PROVE  /\ v \in DOMAIN written' /\ written'[v].key = written[v].key
             /\ written'[v].due = written[v].due \/ (call[c].ver = v /\ ~Return(c))
  <2>1. PICK n, t : n = call[c].ver /\ t = now + call[c].ttl
    OBVIOUS
  <2>2. written' = [written EXCEPT ![n].due = t]
    BY <1>3, <2>1 DEF SetStamp, SetEntry
  <2>3. t \in Nat
    BY <1>0, <2>1 DEF CallState
  <2>4. DOMAIN written' = DOMAIN written /\ (v # n => written'[v] = written[v])
    BY <1>0, <2>2
  <2>5. v = n => written'[v] = [written[v] EXCEPT !.due = t]
    BY <1>0, <2>2
  <2>6. written[v] \in WriteRecord
    BY <1>0
  <2>7. written'[v].key = written[v].key
    BY <2>4, <2>5, <2>6 DEF WriteRecord
  <2>8. ~Return(c)
    <3>1. CASE SetStamp(c)
      <4> DEFINE w == [call[c] EXCEPT !.at = "entry", !.exp = t]
      <4>1. call' = [call EXCEPT ![c] = w]
        BY <1>3, <2>1, <3>1 DEF SetStamp
      <4>2. call[c] \in CallState
        BY <1>0
      <4>3. w.at = "entry"
        BY <4>2 DEF CallState
      <4> HIDE DEF w
      <4> QED
        BY <1>0, <4>1, <4>3, ReturnMoves
    <3>2. CASE SetEntry(c)
      <4> DEFINE w == [call[c] EXCEPT !.at = "write", !.native = t]
      <4>1. call' = [call EXCEPT ![c] = w]
        BY <2>1, <3>2 DEF SetEntry
      <4>2. call[c] \in CallState
        BY <1>0
      <4>3. w.at = "write"
        BY <4>2 DEF CallState
      <4> HIDE DEF w
      <4> QED
        BY <1>0, <4>1, <4>3, ReturnMoves
    <3> QED
      BY <1>3, <3>1, <3>2
  <2> QED
    BY <2>1, <2>4, <2>7, <2>8
<1>4. ASSUME NEW c \in Client, Lookup(c) PROVE UNCHANGED written
  BY <1>4 DEF Lookup, LookupHit, LookupMiss, LookupExpired, LookupDrop, ReadCold, ReadNothing,
     ReadExpiring, PurgeExpired
<1>5. ASSUME NEW c \in Client, SetCold(c) \/ Delete(c) \/ Clear(c) PROVE UNCHANGED written
  BY <1>5 DEF SetCold, Delete, DeleteHot, DeleteCold, Clear, ClearHot, ClearCold
<1>6. ASSUME NEW s \in Slot, Promote(s) PROVE UNCHANGED written
  BY <1>6 DEF Promote
<1>7. ASSUME Cleanup \/ ValueLogGC \/ CloseSignal \/ CloseDB \/ Tick \/ Restart \/ UNCHANGED vars
      PROVE  UNCHANGED written
  BY <1>7 DEF Cleanup, CleanupLock, CleanupScan, CleanupDelete, CleanupStop, ValueLogGC,
     GCLock, GCRewrite, GCUnlock, GCStop, CloseSignal, CloseDB, Tick, Restart, vars
<1> QED
  BY <1>1, <1>2, <1>3, <1>4, <1>5, <1>6, <1>7 DEF Next, Set

LEMMA LatestStep ==
  ASSUME TypeOK, LatestWritten, [Next]_vars
  PROVE  LatestWritten'
<1> USE DEF history
<1>0. written \in Seq(WriteRecord) /\ latest \in [Key -> Nat] /\ now \in Nat
  BY DEF TypeOK
<1>1. ASSUME \A k \in Key : latest'[k] \in {0, latest[k]} PROVE LatestWritten'
  BY <1>1, HistoryStep DEF LatestWritten
<1>2. ASSUME NEW c \in Client, NEW k \in Key, NEW ttl \in TTL, SetHot(c, k, ttl) PROVE LatestWritten'
  <2>1. PICK n \in Nat : n = Len(written) + 1
    BY <1>0
  <2>2. PICK r \in WriteRecord : r = [key |-> k, due |-> now + ttl]
    <3>1. now + ttl \in Nat
      BY <1>0, ConfigAssumption
    <3>2. [key |-> k, due |-> now + ttl] \in WriteRecord
      BY <3>1 DEF WriteRecord
    <3> QED
      BY <3>2
  <2>3. written' = Append(written, r) /\ latest' = [latest EXCEPT ![k] = n]
    BY <1>2, <2>1, <2>2 DEF SetHot
  <2>4. n \in DOMAIN written' /\ written'[n] = r /\ r.key = k
    BY <1>0, <2>1, <2>2, <2>3
  <2>5. \A j \in Key \ {k} : latest'[j] = latest[j]
    BY <1>0, <2>3
  <2>6. latest'[k] = n
    BY <1>0, <2>3
  <2> QED
    BY <2>4, <2>5, <2>6, HistoryStep DEF LatestWritten
<1>3. ASSUME NEW c \in Client, NEW k \in Key, DeleteHot(c, k) PROVE LatestWritten'
  <2>1. latest' = [latest EXCEPT ![k] = 0]
    BY <1>3 DEF DeleteHot
  <2> QED
    BY <1>0, <1>1, <2>1
<1>4. ASSUME NEW c \in Client, ClearHot(c) PROVE LatestWritten'
  <2>1. latest' = [k \in Key |-> 0]
    BY <1>4 DEF ClearHot
  <2> QED
    BY <1>1, <2>1
<1>5. CASE UNCHANGED latest
  BY <1>1, <1>5
<1>6. ASSUME NEW c \in Client, Lookup(c) PROVE UNCHANGED latest
  BY <1>6 DEF Lookup, LookupHit, LookupMiss, LookupExpired, LookupDrop, ReadCold, ReadNothing,
     ReadExpiring, PurgeExpired
<1>7. ASSUME NEW c \in Client, SetStamp(c) \/ SetEntry(c) \/ SetCold(c) \/ DeleteCold(c) \/ ClearCold(c)
      PROVE  UNCHANGED latest
  BY <1>7 DEF SetStamp, SetEntry, SetCold, DeleteCold, ClearCold
<1>8. ASSUME NEW s \in Slot, Promote(s) PROVE UNCHANGED latest
  BY <1>8 DEF Promote
<1>9. ASSUME Cleanup \/ ValueLogGC \/ CloseSignal \/ CloseDB \/ Tick \/ Restart \/ UNCHANGED vars
      PROVE  UNCHANGED latest
  BY <1>9 DEF Cleanup, CleanupLock, CleanupScan, CleanupDelete, CleanupStop, ValueLogGC,
     GCLock, GCRewrite, GCUnlock, GCStop, CloseSignal, CloseDB, Tick, Restart, vars
<1> QED
  BY <1>2, <1>3, <1>4, <1>5, <1>6, <1>7, <1>8, <1>9 DEF Next, Set, Delete, Clear

LEMMA StampedStep ==
  ASSUME TypeOK, LifetimeInv, Stamped, [Next]_vars
  PROVE  Stamped'
<1> SUFFICES ASSUME NEW c \in Client, call'[c].at = "write"
             PROVE  call'[c].native >= written'[call'[c].ver].due
  BY DEF Stamped
<1>0. call \in [Client -> CallState] /\ written \in Seq(WriteRecord) /\ now \in Nat
  BY DEF TypeOK
<1>1. CASE call'[c] = call[c]
  <2>1. PICK v : v = call[c].ver
    OBVIOUS
  <2>2. v \in DOMAIN written /\ call[c].native >= written[v].due
    BY <1>1, <2>1 DEF LifetimeInv, SetsOK, SetOK, Setting, Stamped
  <2>3. ASSUME NEW d \in Client, SetStamp(d) \/ SetEntry(d), call[d].ver = v PROVE FALSE
    <3>1. call[d].at \in {"stamp", "entry"}
      BY <2>3 DEF SetStamp, SetEntry
    <3>2. d # c
      BY <1>1, <3>1
    <3> QED
      BY <1>1, <2>1, <2>3, <3>1, <3>2 DEF LifetimeInv, SetsOK, Setting
  <2>4. written'[v].due = written[v].due
    BY <2>2, <2>3, HistoryStep
  <2> QED
    BY <1>1, <2>1, <2>2, <2>4
<1>2. CASE SetEntry(c)
  <2>1. PICK v, t : v = call[c].ver /\ t = now + call[c].ttl
    OBVIOUS
  <2>2. t \in Nat
    BY <1>0, <2>1 DEF CallState
  <2>3. v \in DOMAIN written
    BY <1>2, <2>1 DEF SetEntry, LifetimeInv, SetsOK, SetOK, Setting
  <2>4. written' = [written EXCEPT ![v].due = t]
    BY <1>2, <2>1 DEF SetEntry
  <2>5. written'[v] = [written[v] EXCEPT !.due = t] /\ written[v] \in WriteRecord
    BY <1>0, <2>3, <2>4
  <2>6. written'[v].due = t
    BY <2>5 DEF WriteRecord
  <2> DEFINE w == [call[c] EXCEPT !.at = "write", !.native = t]
  <2>7. call' = [call EXCEPT ![c] = w]
    BY <1>2, <2>1 DEF SetEntry
  <2>8. call[c] \in CallState
    BY <1>0
  <2>9. w.ver = v /\ w.native = t
    BY <2>1, <2>8 DEF CallState
  <2> HIDE DEF w
  <2>10. call'[c].ver = v /\ call'[c].native = t
    BY <1>0, <2>7, <2>9
  <2> QED
    BY <2>2, <2>6, <2>10
<1>3. CASE ReadExpiring(c)
  <2>1. call' = [call EXCEPT ![c].at = "purge"] /\ "purge" \in Steps
    BY <1>3 DEF ReadExpiring, Steps, Lookups
  <2> QED
    BY <1>0, <2>1, NextMoves
<1> QED
  BY <1>1, <1>2, <1>3, ComesTo

LEMMA TimeMoves == ASSUME TypeOK, [Next]_vars PROVE now' >= now /\ now \in Nat
<1>0. now \in Nat
  BY DEF TypeOK
<1>1. ASSUME NEW c \in Client, Lookup(c) \/ Set(c) \/ Delete(c) \/ Clear(c) PROVE now' >= now
  BY <1>0, <1>1, CallLeaves
<1>2. ASSUME NEW s \in Slot, Promote(s) PROVE now' >= now
  BY <1>0, <1>2 DEF Promote
<1>3. CASE Cleanup \/ ValueLogGC \/ CloseSignal \/ CloseDB \/ Restart \/ Tick \/ UNCHANGED vars
  <2>1. PICK k \in Key : TRUE
    BY ConfigAssumption
  <2> QED
    BY <1>0, <1>3, <2>1, RestSteps
<1> QED
  BY <1>0, <1>1, <1>2, <1>3 DEF Next

(* Who changes Badger. *)
LEMMA ColdChanges ==
  ASSUME TypeOK, [Next]_vars, NEW k \in Key, cold'[k] # cold[k]
  PROVE  \/ \E c \in Client : /\ SetCold(c) \/ DeleteCold(c) \/ PurgeExpired(c)
                              /\ call[c].key = k
         \/ CleanupDelete /\ k \in found
<1> USE DEF calls
<1>0. cold \in [Key -> ColdEntry]
  BY DEF TypeOK
<1>1. ASSUME NEW c \in Client, SetCold(c) PROVE call[c].key = k
  BY <1>0, <1>1 DEF SetCold
<1>2. ASSUME NEW c \in Client, DeleteCold(c) PROVE call[c].key = k
  BY <1>0, <1>2 DEF DeleteCold
<1>3. ASSUME NEW c \in Client, PurgeExpired(c) PROVE call[c].key = k
  BY <1>0, <1>3 DEF PurgeExpired
<1>4. ASSUME CleanupDelete PROVE k \in found
  BY <1>4 DEF CleanupDelete
<1>5. ASSUME NEW c \in Client, Lookup(c), ~PurgeExpired(c) PROVE FALSE
  BY <1>5 DEF Lookup, LookupHit, LookupMiss, LookupExpired, LookupDrop, ReadCold, ReadNothing,
     ReadExpiring
<1>6. ASSUME NEW c \in Client, Set(c), ~SetCold(c) PROVE FALSE
  BY <1>6 DEF Set, SetHot, SetStamp, SetEntry
<1>7. ASSUME NEW c \in Client, Delete(c) \/ Clear(c), ~DeleteCold(c) PROVE FALSE
  BY <1>7 DEF Delete, DeleteHot, Clear, ClearHot, ClearCold
<1>8. ASSUME NEW s \in Slot, Promote(s) PROVE FALSE
  BY <1>8 DEF Promote
<1>9. ASSUME ValueLogGC \/ CloseSignal \/ CloseDB \/ Restart \/ Tick \/ UNCHANGED vars PROVE FALSE
  BY <1>9 DEF ValueLogGC, GCLock, GCRewrite, GCUnlock, GCStop, CloseSignal, CloseDB, Restart,
     Tick, vars
<1>10. ASSUME Cleanup, ~CleanupDelete PROVE FALSE
  BY <1>10 DEF Cleanup, CleanupLock, CleanupScan, CleanupStop
<1> QED
  BY <1>1, <1>2, <1>3, <1>4, <1>5, <1>6, <1>7, <1>8, <1>9, <1>10 DEF Next

(* A key that is undisturbed after a step was so before, or a write began  *)
(* with the key to itself.                                                 *)
LEMMA Undisturbed ==
  ASSUME TypeOK, LifetimeInv, TrustInv, [Next]_vars, NEW k \in Key, disturbed'[k] = {}
  PROVE  \/ disturbed[k] = {} /\ latest'[k] = latest[k]
         \/ \E c \in Client : call[c].at = "idle" /\ ~Contended(c, k) /\ WritingTo(c, k)'
<1>0. /\ call \in [Client -> CallState] /\ disturbed \in Causes /\ latest \in [Key -> Nat]
      /\ "erase" \in Steps
  BY DEF TypeOK, Steps, Writes
<1>1. CASE KeyStep(k)
  BY <1>1 DEF KeyStep
<1>2. ASSUME NEW c \in Client, NEW j \in Key, call[c].at = "idle",
             call'[c].key = j, call'[c].at \in Writes, NEW v,
             latest' = [latest EXCEPT ![j] = v],
             disturbed' = [disturbed EXCEPT ![j] = AfterWriteStart(c, j)]
      PROVE  \/ disturbed[k] = {} /\ latest'[k] = latest[k]
             \/ ~Contended(c, k) /\ WritingTo(c, k)'
  <2>1. CASE j # k
    BY <1>0, <1>2, <2>1 DEF Causes
  <2>2. CASE j = k
    <3>1. disturbed'[k] = AfterWriteStart(c, k)
      BY <1>0, <1>2, <2>2 DEF Causes
    <3>2. ~Contended(c, k)
      BY <3>1 DEF AfterWriteStart
    <3> QED
      BY <1>2, <2>2, <3>2 DEF WritingTo, Touching, Writes
  <2> QED
    BY <2>1, <2>2
<1>3. ASSUME NEW c \in Client, NEW j \in Key, NEW ttl \in TTL, SetHot(c, j, ttl)
      PROVE  \/ disturbed[k] = {} /\ latest'[k] = latest[k]
             \/ \E d \in Client : call[d].at = "idle" /\ ~Contended(d, k) /\ WritingTo(d, k)'
  <2> DEFINE w == [IdleCall EXCEPT !.at = "stamp", !.op = "set", !.key = j,
                                   !.ver = Len(written) + 1, !.ttl = ttl]
  <2>1. call' = [call EXCEPT ![c] = w]
    BY <1>3 DEF SetHot
  <2>2. w.at = "stamp" /\ w.key = j
    BY DEF IdleCall
  <2> HIDE DEF w
  <2>3. call'[c].at \in Writes /\ call'[c].key = j
    BY <1>0, <2>1, <2>2 DEF Writes
  <2>4. /\ call[c].at = "idle" /\ latest' = [latest EXCEPT ![j] = Len(written) + 1]
        /\ disturbed' = [disturbed EXCEPT ![j] = AfterWriteStart(c, j)]
    BY <1>3 DEF SetHot
  <2> QED
    BY <1>2, <2>3, <2>4
<1>4. ASSUME NEW c \in Client, NEW j \in Key, DeleteHot(c, j)
      PROVE  \/ disturbed[k] = {} /\ latest'[k] = latest[k]
             \/ \E d \in Client : call[d].at = "idle" /\ ~Contended(d, k) /\ WritingTo(d, k)'
  <2>1. /\ call[c].at = "idle" /\ latest' = [latest EXCEPT ![j] = 0]
        /\ disturbed' = [disturbed EXCEPT ![j] = AfterWriteStart(c, j)]
        /\ Begin(c, "delete", "erase", j)
    BY <1>4 DEF DeleteHot
  <2>2. call'[c].at \in Writes /\ call'[c].key = j
    BY <1>0, <2>1, BeginMoves DEF Writes
  <2> QED
    BY <1>2, <2>1, <2>2
<1>5. ASSUME NEW c \in Client, ClearHot(c) PROVE FALSE
  BY <1>5 DEF ClearHot
<1>6. ASSUME NEW c \in Client, Lookup(c) PROVE KeyStep(k)
  BY <1>6, LookupSteps
<1>7. ASSUME NEW c \in Client, SetStamp(c) \/ SetEntry(c) \/ SetCold(c) \/ DeleteCold(c) \/ ClearCold(c)
      PROVE  KeyStep(k)
  BY <1>7, WriteSteps
<1>8. ASSUME NEW s \in Slot, Promote(s) PROVE KeyStep(k)
  BY <1>8, PromoteSteps
<1>9. ASSUME Cleanup \/ ValueLogGC \/ CloseSignal \/ CloseDB \/ Restart \/ Tick \/ UNCHANGED vars
      PROVE  KeyStep(k)
  BY <1>9, RestSteps
<1> QED
  BY <1>1, <1>3, <1>4, <1>5, <1>6, <1>7, <1>8, <1>9 DEF Next, Set, Delete, Clear

(* How a write under way can be over. *)
LEMMA WritesEnd ==
  ASSUME TypeOK, [Next]_vars, NEW c \in Client, NEW k \in Key, WritingTo(c, k), ~WritingTo(c, k)'
  PROVE  \/ SetStamp(c) /\ call[c].key \in Unencodable
         \/ SetCold(c) \/ DeleteCold(c) \/ ClearCold(c) \/ Restart
<1> USE DEF calls
<1>0. /\ call \in [Client -> CallState] /\ call[c] \in CallState
  BY DEF TypeOK
<1>1. call'[c] # call[c] /\ call[c].at \in Writes
  BY DEF WritingTo, Touching
<1>2. ASSUME NEW d \in Client, Lookup(d) \/ Set(d) \/ Delete(d) \/ Clear(d)
      PROVE  d = c
  BY <1>0, <1>1, <1>2, OthersWait DEF OthersStay
<1>3. ASSUME Lookup(c) PROVE FALSE
  BY <1>1, <1>3 DEF Writes, Lookup, LookupHit, LookupMiss, LookupExpired, LookupDrop, ReadCold,
     ReadNothing, ReadExpiring, PurgeExpired
<1>4. ASSUME (\E j \in Key : DeleteHot(c, j)) \/ ClearHot(c)
             \/ (\E j \in Key, ttl \in TTL : SetHot(c, j, ttl))
      PROVE  FALSE
  BY <1>1, <1>4 DEF Writes, DeleteHot, ClearHot, SetHot
<1>5. ASSUME SetEntry(c) PROVE FALSE
  <2> DEFINE w == [call[c] EXCEPT !.at = "write", !.native = now + call[c].ttl]
  <2>1. call' = [call EXCEPT ![c] = w] /\ call[c].at = "entry"
    BY <1>5 DEF SetEntry
  <2>2. w.at = "write" /\ w.key = call[c].key
    BY <1>0 DEF CallState
  <2> HIDE DEF w
  <2>3. call'[c].at = "write" /\ call'[c].key = call[c].key
    BY <1>0, <2>1, <2>2
  <2> QED
    BY <2>1, <2>3 DEF WritingTo, Touching, Writes
<1>6. ASSUME SetStamp(c), call[c].key \notin Unencodable PROVE FALSE
  <2> DEFINE w == [call[c] EXCEPT !.at = "entry", !.exp = now + call[c].ttl]
  <2>1. call' = [call EXCEPT ![c] = w] /\ call[c].at = "stamp"
    BY <1>6 DEF SetStamp
  <2>2. w.at = "entry" /\ w.key = call[c].key
    BY <1>0 DEF CallState
  <2> HIDE DEF w
  <2>3. call'[c].at = "entry" /\ call'[c].key = call[c].key
    BY <1>0, <2>1, <2>2
  <2> QED
    BY <2>1, <2>3 DEF WritingTo, Touching, Writes
<1>7. ASSUME NEW s \in Slot, Promote(s) PROVE FALSE
  BY <1>1, <1>7 DEF Promote
<1>8. ASSUME Cleanup \/ ValueLogGC \/ CloseSignal \/ CloseDB \/ Tick \/ UNCHANGED vars PROVE FALSE
  BY <1>1, <1>8 DEF Cleanup, CleanupLock, CleanupScan, CleanupDelete, CleanupStop, ValueLogGC,
     GCLock, GCRewrite, GCUnlock, GCStop, CloseSignal, CloseDB, Tick, vars
<1> QED
  BY <1>2, <1>3, <1>4, <1>5, <1>6, <1>7, <1>8 DEF Next, Set, Delete, Clear

(* A live entry that nothing touched, or an expired one that went, keeps   *)
(* what KeptTrust says of its key.                                         *)
LEMMA KeptAcross ==
  ASSUME TypeOK, TypeOK', LifetimeInv, LatestWritten, [Next]_vars, NEW k \in Key, KeptTrust(k),
         disturbed[k] = {}, latest'[k] = latest[k], NobodyWrites(k),
         cold'[k] = cold[k] \/ (InCold(k) => cold[k].native <= now)
  PROVE  KeptTrust(k)'
<1> SUFFICES ASSUME k \notin Unencodable, latest[k] # 0, now' < written'[latest[k]].due
             PROVE  cold'[k].ver = latest[k] /\ cold'[k].native >= written'[latest[k]].due
  BY DEF KeptTrust
<1>1. PICK v : v = latest[k]
  OBVIOUS
<1>2. v # 0 /\ v \in DOMAIN written /\ written[v].key = k
  BY <1>1 DEF LatestWritten
<1>3. ASSUME NEW c \in Client, SetStamp(c) \/ SetEntry(c), call[c].ver = v PROVE FALSE
  <2>1. call[c].at \in {"stamp", "entry"}
    BY <1>3 DEF SetStamp, SetEntry
  <2>2. call[c].key = k
    BY <1>2, <1>3, <2>1 DEF LifetimeInv, SetsOK, SetOK, Setting
  <2> QED
    BY <2>1, <2>2 DEF NobodyWrites, WritingTo, Touching, Writes
<1>4. written'[v].due = written[v].due
  BY <1>2, <1>3, HistoryStep
<1>5. PICK d \in Nat : d = written[v].due
  <2>1. written[v] \in WriteRecord
    BY <1>2 DEF TypeOK
  <2> QED
    BY <2>1 DEF WriteRecord
<1>6. now' >= now /\ now \in Nat /\ now' \in Int
  BY TimeMoves DEF TypeOK
<1>7. now < d
  BY <1>1, <1>4, <1>5, <1>6
<1>8. cold[k].ver = v /\ cold[k].native >= d
  BY <1>1, <1>2, <1>5, <1>7 DEF KeptTrust
<1>9. cold'[k] = cold[k]
  <2>1. cold[k].native \in Int
    BY DEF TypeOK, ColdEntry
  <2> QED
    BY <1>2, <1>5, <1>6, <1>7, <1>8, <2>1 DEF InCold
<1> QED
  BY <1>1, <1>4, <1>5, <1>8, <1>9

LEMMA KeptStep ==
  ASSUME TypeOK, TypeOK', MutexInv, LifetimeInv, TrustInv, KeptInv, [Next]_vars, NEW k \in Key
  PROVE  KeptTrust(k)'
<1> SUFFICES ASSUME k \notin Unencodable, disturbed'[k] = {}, NobodyWrites(k)', latest'[k] # 0
             PROVE  KeptTrust(k)'
  BY DEF KeptTrust
<1> USE DEF calls, history
<1>1. disturbed[k] = {} /\ latest'[k] = latest[k]
  BY Undisturbed DEF NobodyWrites
<1>2. CallTrust(k) /\ KeptTrust(k) /\ PurgeTrust(k) /\ LatestWritten /\ Stamped
  BY <1>1 DEF TrustInv, Trusted, KeptInv
<1>3. call \in [Client -> CallState] /\ cold \in [Key -> ColdEntry] /\ disturbed \in Causes
  BY DEF TypeOK
<1>4. CASE NobodyWrites(k)
  <2>1. ASSUME cold'[k] # cold[k] PROVE InCold(k) => cold[k].native <= now
    <3>1. ASSUME NEW c \in Client, SetCold(c) \/ DeleteCold(c), call[c].key = k PROVE FALSE
      BY <1>4, <3>1 DEF SetCold, DeleteCold, NobodyWrites, WritingTo, Touching, Writes
    <3>2. ASSUME NEW c \in Client, PurgeExpired(c), call[c].key = k
          PROVE  InCold(k) => cold[k].native <= now
      BY <1>1, <1>2, <3>2 DEF PurgeExpired, PurgeTrust
    <3>3. ASSUME CleanupDelete, k \in found PROVE cold[k].native <= now
      BY <3>3 DEF CleanupDelete, MutexInv
    <3> QED
      BY <2>1, <3>1, <3>2, <3>3, ColdChanges
  <2> QED
    BY <1>1, <1>2, <1>4, <2>1, KeptAcross
<1>5. CASE ~NobodyWrites(k)
  <2>1. PICK c \in Client : WritingTo(c, k)
    BY <1>5 DEF NobodyWrites
  <2>2. Leaves(call[c], latest[k])
    BY <1>2, <2>1 DEF CallTrust
  <2>3. call[c].at # "clear" /\ (call[c].at = "erase" => latest[k] = 0)
    BY <2>2 DEF Leaves, Setting
  <2>4. call[c].key = k
    BY <2>1, <2>3 DEF WritingTo, Touching
  <2>5. ~Restart
    <3>1. ASSUME Restart PROVE FALSE
      <4>1. disturbed'[k] = disturbed[k] \cup {"restart"}
        BY <2>1, <3>1 DEF Restart
      <4> QED
        BY <4>1
    <3> QED
      BY <3>1
  <2>6. ~DeleteCold(c) /\ ~ClearCold(c)
    BY <1>1, <2>3 DEF DeleteCold, ClearCold
  <2>7. SetCold(c)
    BY <2>1, <2>4, <2>5, <2>6, WritesEnd DEF NobodyWrites
  <2>8. call[c].at = "write" /\ call[c].ver = latest[k] /\ UNCHANGED written
    BY <2>2, <2>7 DEF SetCold, Leaves
  <2>9. cold'[k].ver = call[c].ver /\ cold'[k].native = call[c].native
    <3>1. \/ cold' = [cold EXCEPT ![k] = [ver |-> call[c].ver, exp |-> call[c].exp, native |-> call[c].native]]
          \/ disturbed' = [disturbed EXCEPT ![k] = @ \cup {"unwritten"}]
      BY <2>4, <2>7 DEF SetCold
    <3>2. disturbed' # [disturbed EXCEPT ![k] = @ \cup {"unwritten"}]
      BY <1>3 DEF Causes
    <3>3. cold'[k] = [ver |-> call[c].ver, exp |-> call[c].exp, native |-> call[c].native]
      BY <1>3, <3>1, <3>2
    <3> QED
      BY <3>3
  <2>10. call[c].native >= written[call[c].ver].due
    BY <1>2, <2>8 DEF Stamped
  <2> QED
    BY <1>1, <2>8, <2>9, <2>10 DEF KeptTrust
<1> QED
  BY <1>4, <1>5

LEMMA PurgeStep ==
  ASSUME TypeOK, TypeOK', LifetimeInv, TrustInv, KeptInv, [Next]_vars, NEW k \in Key
  PROVE  PurgeTrust(k)'
<1> SUFFICES ASSUME disturbed'[k] = {}, NEW c \in Client, call'[c].at = "purge", call'[c].key = k,
                    InCold(k)'
             PROVE  cold'[k].native <= now'
  BY DEF PurgeTrust
<1> USE DEF calls
<1>0. call \in [Client -> CallState] /\ call[c] \in CallState /\ "purge" \in Steps
  BY DEF TypeOK, Steps, Lookups
<1>1. CASE call'[c] = call[c]
  <2>1. Touching(c, k) /\ ~WritingTo(c, k)
    BY <1>1 DEF Touching, WritingTo, Writes
  <2>2. disturbed[k] = {}
    <3>1. ASSUME NEW d \in Client, call[d].at = "idle", ~Contended(d, k) PROVE FALSE
      BY <1>1, <2>1, <3>1 DEF Contended
    <3> QED
      BY <3>1, Undisturbed
  <2>3. NobodyWrites(k)
    BY <2>1, <2>2 DEF TrustInv, Trusted, CallTrust, Contended, NobodyWrites
  <2>4. cold'[k] = cold[k]
    <3>1. ASSUME NEW d \in Client, SetCold(d) \/ DeleteCold(d), call[d].key = k PROVE FALSE
      BY <2>3, <3>1 DEF SetCold, DeleteCold, NobodyWrites, WritingTo, Touching, Writes
    <3>2. ASSUME NEW d \in Client, PurgeExpired(d), call[d].key = k PROVE cold'[k] = cold[k]
      BY <3>2 DEF PurgeExpired, InCold, NoCold, TypeOK
    <3>3. ASSUME CleanupDelete, k \in found PROVE cold'[k] = cold[k]
      BY <3>3 DEF CleanupDelete, InCold, NoCold
    <3> QED
      BY <3>1, <3>2, <3>3, ColdChanges
  <2>5. cold[k].native <= now
    BY <1>1, <2>2, <2>4 DEF KeptInv, PurgeTrust, InCold
  <2>6. cold[k].native \in Int /\ now \in Int /\ now' \in Int /\ now' >= now
    <3>1. cold[k] \in ColdEntry /\ now' \in Nat
      BY DEF TypeOK
    <3> QED
      BY <3>1, TimeMoves DEF ColdEntry
  <2> QED
    BY <2>4, <2>5, <2>6
<1>2. CASE ReadExpiring(c)
  <2>1. call' = [call EXCEPT ![c].at = "purge"] /\ UNCHANGED <<cold, now>>
    BY <1>2 DEF ReadExpiring
  <2>2. call[c].key = k
    BY <1>0, <2>1, NextMoves
  <2>3. cold[k].native = now
    BY <1>2, <2>2 DEF ReadExpiring
  <2> QED
    BY <2>1, <2>3 DEF TypeOK
<1>3. CASE SetEntry(c)
  <2> DEFINE w == [call[c] EXCEPT !.at = "write", !.native = now + call[c].ttl]
  <2>1. call' = [call EXCEPT ![c] = w]
    BY <1>3 DEF SetEntry
  <2>2. w.at = "write"
    BY <1>0 DEF CallState
  <2> HIDE DEF w
  <2> QED
    BY <1>0, <2>1, <2>2
<1> QED
  BY <1>1, <1>2, <1>3, ComesTo

LEMMA KeptInvariance == Spec => [](TypeOK /\ KeptInv)
<1>1. Init => KeptInv
  <2> SUFFICES ASSUME Init PROVE KeptInv
    OBVIOUS
  <2>1. \A c \in Client : call[c].at = "idle"
    BY Defaults DEF Init
  <2>2. \A k \in Key : latest[k] = 0
    BY DEF Init
  <2> QED
    BY <2>1, <2>2 DEF KeptInv, LatestWritten, Stamped, PurgeTrust, KeptTrust
<1>2. TypeOK /\ TypeOK' /\ MutexInv /\ LifetimeInv /\ TrustInv /\ KeptInv /\ [Next]_vars => KeptInv'
  BY LatestStep, StampedStep, PurgeStep, KeptStep DEF KeptInv
<1> QED
  BY <1>1, <1>2, MutexInvariance, TrustInvariance, PTL DEF Spec

(* A Set that nothing overlapped stays readable from Badger until it       *)
(* expires, whatever is evicted, promoted, purged, cleaned up, collected   *)
(* or restarted meanwhile, as long as the database is open.                *)
THEOREM SetsAreKept == Spec => []UncontendedSetIsKept
<1>1. TypeOK /\ KeptInv => UncontendedSetIsKept
  <2> SUFFICES ASSUME TypeOK, KeptInv, NEW k \in Key \ Unencodable, Quiet(k), disturbed[k] = {},
                      open, latest[k] # 0, now < written[latest[k]].due
               PROVE  cold[k].ver = latest[k] /\ ColdLive(k)
    BY DEF UncontendedSetIsKept
  <2>1. NobodyWrites(k)
    BY DEF Quiet, NobodyWrites, WritingTo
  <2>2. cold[k].ver = latest[k] /\ cold[k].native >= written[latest[k]].due
    BY <2>1 DEF KeptInv, KeptTrust
  <2>3. written[latest[k]].due \in Nat /\ cold[k].native \in Int /\ now \in Nat
    <3>1. written[latest[k]] \in WriteRecord
      BY DEF KeptInv, LatestWritten, TypeOK
    <3> QED
      BY <3>1 DEF TypeOK, WriteRecord, ColdEntry
  <2>4. cold[k].native > now
    BY <2>2, <2>3
  <2> QED
    BY <2>2, <2>4 DEF ColdLive, InCold
<1> QED
  BY <1>1, KeptInvariance, PTL
=============================================================================
