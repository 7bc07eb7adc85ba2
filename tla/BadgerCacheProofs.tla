------------------------- MODULE BadgerCacheProofs -------------------------
(***************************************************************************)
(* Theorems about BadgerCache for all keys, clients, TTLs, capacities,     *)
(* lags and numbers of restarts: the types and the capacity, what the lock *)
(* c.mu and Close guarantee, and how long an entry may be served.          *)
(***************************************************************************)
EXTENDS BadgerCache, TLAPS

-----------------------------------------------------------------------------
(* What each LRU section does to the list of entries, for every capacity:  *)
(* it keeps LruOK and brings in no entry that was not there or not added.  *)

(* Every entry of the next list was in the list, or has the property P. *)
OnlyOldOr(new) ==
  \A i \in DOMAIN mem' : mem'[i] = new \/ \E j \in DOMAIN mem : mem'[i] = mem[j]

(* SlotOf finds the entry of a cached key. *)
LEMMA SlotFound ==
  ASSUME NEW k, Cached(k)
  PROVE  SlotOf(k) \in DOMAIN mem /\ mem[SlotOf(k)].key = k
BY DEF Cached, SlotOf

(* What a lookup of a cached key reads is one of the entries. *)
LEMMA HotOfTyped ==
  ASSUME LruOK, NEW k, Cached(k)
  PROVE  /\ HotOf(k) \in HotEntry /\ HotOf(k).key = k
         /\ HotOf(k).ver \in Nat /\ HotOf(k).exp \in Int
         /\ \E j \in DOMAIN mem : HotOf(k) = mem[j]
<1>1. /\ HotOf(k) \in HotEntry /\ HotOf(k).key = k
      /\ \E j \in DOMAIN mem : HotOf(k) = mem[j]
  BY SlotFound DEF HotOf, LruOK
<1> QED
  BY <1>1 DEF HotEntry

(* The entries other than k's: a shorter list of old entries, none k's. *)
LEMMA OthersFacts ==
  ASSUME LruOK, NEW k \in Key
  PROVE  /\ Others(k) \in Seq(HotEntry)
         /\ Len(Others(k)) <= Len(mem)
         /\ Cached(k) => Len(Others(k)) = Len(mem) - 1
         /\ \A i \in DOMAIN Others(k) : Others(k)[i].key # k
         /\ \A i \in DOMAIN Others(k) : \E j \in DOMAIN mem : Others(k)[i] = mem[j]
         /\ \A i, j \in DOMAIN Others(k) : Others(k)[i].key = Others(k)[j].key => i = j
<1>1. CASE ~Cached(k)
  BY <1>1 DEF Others, Cached, LruOK
<1>2. CASE Cached(k)
  <2> DEFINE s == SlotOf(k)
             n == Len(mem)
             o == [i \in 1 .. n - 1 |-> IF i < s THEN mem[i] ELSE mem[i + 1]]
  <2>1. s \in 1 .. n /\ mem[s].key = k /\ n \in Nat /\ DOMAIN mem = 1 .. n
    BY <1>2, SlotFound DEF LruOK
  <2>2. Others(k) = o
    BY <1>2 DEF Others
  <2> HIDE DEF s, n
  <2>3. /\ DOMAIN o = 1 .. n - 1
        /\ \A i \in 1 .. n - 1 : o[i] = IF i < s THEN mem[i] ELSE mem[i + 1]
    OBVIOUS
  <2>4. \A i \in 1 .. n : mem[i] \in HotEntry
    BY <2>1 DEF LruOK
  <2>5. o \in Seq(HotEntry) /\ Len(o) = n - 1
    <3>1. o \in [1 .. n - 1 -> HotEntry]
      BY <2>1, <2>4
    <3>2. n - 1 \in Nat
      BY <2>1
    <3> QED
      BY <3>1, <3>2
  <2>6. \A i, j \in 1 .. n : mem[i].key = mem[j].key => i = j
    BY <2>1 DEF LruOK
  <2> HIDE DEF o
  <2>7. \A i \in 1 .. n - 1 : o[i].key # k
    BY <2>1, <2>3, <2>6
  <2>8. \A i \in 1 .. n - 1 : \E j \in DOMAIN mem : o[i] = mem[j]
    BY <2>1, <2>3
  <2>9. \A i, j \in 1 .. n - 1 : o[i].key = o[j].key => i = j
    BY <2>1, <2>3, <2>6
  <2>10. n - 1 <= n
    BY <2>1
  <2>11. DOMAIN o = 1 .. n - 1
    BY <2>3
  <2> HIDE DEF n
  <2> QED
    BY <2>1, <2>2, <2>5, <2>7, <2>8, <2>9, <2>10, <2>11
<1> QED
  BY <1>1, <1>2

(* Dropping a key keeps the list well formed. *)
LEMMA DropFacts ==
  ASSUME LruOK, NEW k \in Key, HotDrop(k)
  PROVE  /\ LruOK'
         /\ \A i \in DOMAIN mem' : mem'[i].key # k /\ \E j \in DOMAIN mem : mem'[i] = mem[j]
<1> DEFINE o == Others(k)
<1>1. o \in Seq(HotEntry) /\ Len(o) <= Len(mem)
  BY OthersFacts
<1>2. \A i \in DOMAIN o : o[i].key # k /\ \E j \in DOMAIN mem : o[i] = mem[j]
  BY OthersFacts
<1>3. \A i, j \in DOMAIN o : o[i].key = o[j].key => i = j
  BY OthersFacts
<1>4. Len(o) <= Capacity
  BY <1>1, CapacityAssumption DEF LruOK
<1>5. mem' = o
  BY DEF HotDrop
<1> HIDE DEF o
<1> QED
  BY <1>1, <1>2, <1>3, <1>4, <1>5 DEF LruOK, HotEntry

(* Putting an entry of k in front of the others, cut to the capacity. *)
LEMMA FrontFacts ==
  ASSUME LruOK, NEW k \in Key, NEW e \in HotEntry, e.key = k,
         mem' = Kept(<<e>> \o Others(k))
  PROVE  LruOK' /\ OnlyOldOr(e)
         /\ \A i \in DOMAIN mem' : mem'[i].key = k => mem'[i] = e
<1> DEFINE o == Others(k)
           s == <<e>> \o o
           m == IF Len(s) < Capacity THEN Len(s) ELSE Capacity
<1>1. o \in Seq(HotEntry)
  BY OthersFacts
<1>2. \A i \in DOMAIN o : o[i].key # k /\ \E j \in DOMAIN mem : o[i] = mem[j]
  BY OthersFacts
<1>3. \A i, j \in DOMAIN o : o[i].key = o[j].key => i = j
  BY OthersFacts
<1> HIDE DEF o
<1>4. s \in Seq(HotEntry) /\ Len(s) = Len(o) + 1 /\ s[1] = e
      /\ \A i \in 2 .. Len(s) : s[i] = o[i - 1] /\ i - 1 \in DOMAIN o
  BY <1>1
<1> HIDE DEF s
<1>5. \A i, j \in 1 .. Len(s) : s[i].key = s[j].key => i = j
  <2> SUFFICES ASSUME NEW i \in 1 .. Len(s), NEW j \in 1 .. Len(s), s[i].key = s[j].key
               PROVE  i = j
    OBVIOUS
  <2>1. Len(s) \in Nat /\ i \in Int /\ j \in Int
    BY <1>4
  <2>2. CASE i = 1 /\ j = 1
    BY <2>2
  <2>3. CASE i = 1 /\ j # 1
    BY <1>2, <1>4, <2>1, <2>3
  <2>4. CASE i # 1 /\ j = 1
    BY <1>2, <1>4, <2>1, <2>4
  <2>5. CASE i # 1 /\ j # 1
    <3>1. i \in 2 .. Len(s) /\ j \in 2 .. Len(s)
      BY <2>1, <2>5
    <3>2. o[i - 1].key = o[j - 1].key /\ i - 1 \in DOMAIN o /\ j - 1 \in DOMAIN o
      BY <1>4, <3>1
    <3> QED
      BY <1>3, <2>1, <3>2
  <2> QED
    BY <2>2, <2>3, <2>4, <2>5
<1>6. \A i \in 1 .. Len(s) : s[i] = e \/ \E j \in DOMAIN mem : s[i] = mem[j]
  BY <1>2, <1>4
<1>7. m \in Nat /\ m <= Len(s) /\ m <= Capacity
  BY <1>4, CapacityAssumption
<1>8. mem' = [i \in 1 .. m |-> s[i]]
  BY DEF Kept, o, s
<1> HIDE DEF m
<1>9. mem' \in Seq(HotEntry) /\ Len(mem') = m
  <2>1. \A i \in 1 .. m : s[i] \in HotEntry
    BY <1>4, <1>7
  <2>2. mem' \in [1 .. m -> HotEntry]
    BY <1>8, <2>1
  <2> QED
    BY <1>7, <2>2
<1>10. DOMAIN mem' = 1 .. m /\ \A i \in 1 .. m : mem'[i] = s[i] /\ i \in 1 .. Len(s)
  BY <1>4, <1>7, <1>8
<1>11. LruOK'
  <2>1. ASSUME NEW i \in DOMAIN mem', NEW j \in DOMAIN mem', mem'[i].key = mem'[j].key
        PROVE  i = j
    <3>1. /\ i \in 1 .. Len(s) /\ j \in 1 .. Len(s)
          /\ mem'[i] = s[i] /\ mem'[j] = s[j]
      BY <1>10, <2>1
    <3>2. s[i].key = s[j].key
      BY <2>1, <3>1
    <3> QED
      BY <1>5, <3>1, <3>2
  <2> QED
    BY <1>7, <1>9, <2>1 DEF LruOK, HotEntry
<1>12. OnlyOldOr(e)
  <2>1. ASSUME NEW i \in DOMAIN mem'
        PROVE  mem'[i] = e \/ \E j \in DOMAIN mem : mem'[i] = mem[j]
    <3>1. i \in 1 .. Len(s) /\ mem'[i] = s[i]
      BY <1>10, Zenon
    <3> HIDE DEF s
    <3> QED
      BY <1>6, <3>1, Zenon
  <2> QED
    BY <2>1, Zenon DEF OnlyOldOr
<1>13. ASSUME NEW i \in DOMAIN mem', mem'[i].key = k PROVE mem'[i] = e
  <2>0. Len(s) \in Nat
    BY <1>4
  <2>1. i \in 1 .. Len(s) /\ mem'[i] = s[i] /\ Len(s) \in Nat
    BY <1>10, <2>0
  <2>2. CASE i = 1
    BY <1>4, <2>1, <2>2
  <2>3. CASE i # 1
    <3>1. i \in 2 .. Len(s)
      BY <2>1, <2>3
    <3>2. s[i].key # k
      BY <1>2, <1>4, <3>1
    <3> QED
      BY <1>13, <2>1, <3>2
  <2> QED
    BY <2>2, <2>3
<1> QED
  BY <1>11, <1>12, <1>13

(* lru.Add keeps the list well formed and adds exactly the new entry. *)
LEMMA AddFacts ==
  ASSUME LruOK, NEW k \in Key, NEW ver \in Nat, NEW exp \in Int, HotAdd(k, ver, exp)
  PROVE  LET e == [key |-> k, ver |-> ver, exp |-> exp]
         IN  /\ LruOK' /\ OnlyOldOr(e)
             /\ \A i \in DOMAIN mem' : mem'[i].key = k => mem'[i] = e
<1>1. [key |-> k, ver |-> ver, exp |-> exp] \in HotEntry
  BY DEF HotEntry
<1> QED
  BY <1>1, FrontFacts DEF HotAdd

(* lru.Get moves an entry to the front and changes nothing else. *)
LEMMA TouchFacts ==
  ASSUME LruOK, NEW k \in Key, Cached(k), HotTouch(k)
  PROVE  /\ LruOK'
         /\ \A i \in DOMAIN mem' : \E j \in DOMAIN mem : mem'[i] = mem[j]
<1> DEFINE e == HotOf(k)
           s == <<e>> \o Others(k)
<1>1. e \in HotEntry /\ e.key = k /\ \E j \in DOMAIN mem : e = mem[j]
  BY HotOfTyped
<1>2. s \in Seq(HotEntry) /\ Len(s) = Len(mem) /\ Len(s) <= Capacity
  BY <1>1, OthersFacts DEF LruOK
<1>3. Kept(s) = s
  <2>1. Kept(s) = [i \in 1 .. Len(s) |-> s[i]]
    BY <1>2, CapacityAssumption DEF Kept
  <2> QED
    BY <1>2, <2>1
<1>4. mem' = Kept(<<e>> \o Others(k))
  BY <1>3 DEF HotTouch
<1> QED
  BY <1>1, <1>4, FrontFacts DEF OnlyOldOr

-----------------------------------------------------------------------------
(* The records that stand for "nothing" are well typed. *)
LEMMA Defaults ==
  /\ NoCold \in ColdEntry /\ NoPromo \in Promotion
  /\ IdleCall \in CallState /\ NoAnswer \in Answer
  /\ IdleCall.at = "idle" /\ IdleCall.key \in Key
BY ConfigAssumption DEF NoCold, ColdEntry, NoPromo, Promotion, IdleCall, CallState,
   Steps, Lookups, Writes, NoAnswer, Answer

(* The new values of disturbed are sets of reasons. *)
LEMMA ReasonsTyped ==
  ASSUME disturbed \in Causes, NEW c \in Client, NEW k \in Key
  PROVE  /\ AfterReadStart(c, k) \in SUBSET Reason
         /\ AfterWriteStart(c, k) \in SUBSET Reason
         /\ disturbed[k] \in SUBSET Reason
BY DEF Causes, Reason, AfterReadStart, AfterWriteStart

(* A step of a call leaves a well-typed call table. *)
LEMMA CallTyped ==
  ASSUME call \in [Client -> CallState], NEW c \in Client
  PROVE  /\ call[c] \in CallState /\ call[c].key \in Key
         /\ Return(c) => call' \in [Client -> CallState]
         /\ \A at \in Steps : [call EXCEPT ![c].at = at] \in [Client -> CallState]
         /\ \A k \in Key : /\ \A op \in {"get", "exists"}, at \in Steps :
                                Begin(c, op, at, k) => call' \in [Client -> CallState]
                           /\ Begin(c, "delete", "erase", k) => call' \in [Client -> CallState]
                           /\ Begin(c, "clear", "clear", k) => call' \in [Client -> CallState]
<1>1. call[c] \in CallState /\ call[c].key \in Key
  BY DEF CallState
<1>2. Return(c) => call' \in [Client -> CallState]
  BY Defaults DEF Return
<1>3. ASSUME NEW at \in Steps PROVE [call EXCEPT ![c].at = at] \in [Client -> CallState]
  <2>1. [call[c] EXCEPT !.at = at] \in CallState
    BY <1>1 DEF CallState
  <2> QED
    BY <2>1
<1>4. ASSUME NEW k \in Key, NEW op \in {"get", "exists", "delete", "clear"}, NEW at \in Steps,
             Begin(c, op, at, k)
      PROVE  call' \in [Client -> CallState]
  <2>1. [IdleCall EXCEPT !.at = at, !.op = op, !.key = k] \in CallState
    BY Defaults DEF CallState
  <2> QED
    BY <1>4, <2>1 DEF Begin
<1>5. "erase" \in Steps /\ "clear" \in Steps
  BY DEF Steps, Writes
<1> QED
  BY <1>1, <1>2, <1>3, <1>4, <1>5

(* Answers are well typed. *)
LEMMA AnswerTyped ==
  ASSUME answer \in [Client -> Answer], now \in Nat, NEW c \in Client
  PROVE  /\ Unanswered(c) => answer' \in [Client -> Answer]
         /\ \A k \in Key, v \in Nat : Answered(c, k, v) => answer' \in [Client -> Answer]
BY Defaults DEF Answer, Unanswered, Answered

(* Raising the expiry of one recorded write changes nothing else. *)
LEMMA RestampFacts ==
  ASSUME NEW s \in Seq(WriteRecord), NEW v, NEW d \in Nat
  PROVE  LET w == [s EXCEPT ![v].due = d]
         IN  /\ w \in Seq(WriteRecord) /\ Len(w) = Len(s) /\ DOMAIN w = DOMAIN s
             /\ \A i \in DOMAIN s : w[i] = [s[i] EXCEPT !.due = IF i = v THEN d ELSE @]
<1> DEFINE w == [s EXCEPT ![v].due = d]
           n == Len(s)
<1>1. n \in Nat /\ DOMAIN s = 1 .. n
  OBVIOUS
<1>2. \A i \in 1 .. n : s[i] \in WriteRecord
  OBVIOUS
<1> HIDE DEF n
<1>3. DOMAIN w = 1 .. n
  BY <1>1
<1>4. \A i \in 1 .. n : w[i] = [s[i] EXCEPT !.due = IF i = v THEN d ELSE @]
  <2> SUFFICES ASSUME NEW i \in 1 .. n PROVE w[i] = [s[i] EXCEPT !.due = IF i = v THEN d ELSE @]
    OBVIOUS
  <2>1. CASE i = v
    BY <1>1, <2>1
  <2>2. CASE i # v
    <3>1. w[i] = s[i]
      BY <1>1, <2>2
    <3>2. s[i] = [s[i] EXCEPT !.due = s[i].due]
      BY <1>2 DEF WriteRecord
    <3> QED
      BY <2>2, <3>1, <3>2
  <2> QED
    BY <2>1, <2>2
<1>5. \A i \in 1 .. n : w[i] \in WriteRecord
  <2> SUFFICES ASSUME NEW i \in 1 .. n PROVE w[i] \in WriteRecord
    OBVIOUS
  <2>1. PICK e \in Nat : e = IF i = v THEN d ELSE s[i].due
    BY <1>2 DEF WriteRecord
  <2>2. w[i] = [s[i] EXCEPT !.due = e]
    BY <1>4, <2>1
  <2>3. s[i] \in WriteRecord
    BY <1>2
  <2>4. [s[i] EXCEPT !.due = e] \in WriteRecord
    BY <2>3 DEF WriteRecord
  <2> QED
    BY <2>2, <2>4
<1>6. w = [i \in 1 .. n |-> w[i]]
  BY <1>3
<1> HIDE DEF w
<1>7. w \in [1 .. n -> WriteRecord]
  BY <1>5, <1>6
<1>8. w \in Seq(WriteRecord) /\ Len(w) = n
  BY <1>1, <1>7
<1> QED
  BY <1>1, <1>4, <1>8 DEF w, n

(* The initial state is well typed. *)
LEMMA InitTyped == Init => TypeOK
<1> SUFFICES ASSUME Init PROVE TypeOK
  OBVIOUS
<1>1. LruOK
  BY CapacityAssumption DEF Init, LruOK
<1>2. Started.cleaner \in {"wait", "done"} /\ Started.gc \in {"wait", "done"}
  BY DEF Started
<1>3. disturbed \in Causes
  BY DEF Init, Causes
<1>4. /\ cold \in [Key -> ColdEntry] /\ promo \in [Slot -> Promotion]
      /\ call \in [Client -> CallState] /\ answer \in [Client -> Answer]
  BY Defaults DEF Init
<1>5. written \in Seq(WriteRecord) /\ latest \in [Key -> Nat]
  BY DEF Init
<1>6. /\ now \in Nat /\ mu = "free" /\ found \in SUBSET Key /\ gcCycle \in Nat
      /\ cleaner \in {"wait", "done"} /\ gc \in {"wait", "done"}
      /\ stop \in BOOLEAN /\ open \in BOOLEAN /\ restarts \in Nat
  BY <1>2 DEF Init
<1> QED
  BY <1>1, <1>3, <1>4, <1>5, <1>6 DEF TypeOK

(* A lookup keeps the types. *)
LEMMA LookupTyped ==
  ASSUME TypeOK, NEW c \in Client, Lookup(c)
  PROVE  TypeOK'
<1> USE DEF calls, background, lifecycle, history
<1>0. /\ call \in [Client -> CallState] /\ answer \in [Client -> Answer] /\ now \in Nat
      /\ LruOK /\ disturbed \in Causes /\ call[c] \in CallState /\ call[c].key \in Key
  BY CallTyped DEF TypeOK
<1>1. ASSUME NEW k \in Key, LookupHit(c, k) PROVE TypeOK'
  <2>1. Cached(k) /\ HotTouch(k) /\ Answered(c, k, HotOf(k).ver)
    BY <1>1 DEF LookupHit, HotFresh
  <2>2. HotOf(k).ver \in Nat
    BY <1>0, <2>1, HotOfTyped
  <2>3. LruOK' /\ answer' \in [Client -> Answer]
    BY <1>0, <2>1, <2>2, TouchFacts, AnswerTyped
  <2> QED
    BY <1>1, <2>3 DEF LookupHit, TypeOK
<1>2. ASSUME NEW k \in Key, NEW op \in {"get", "exists"}, LookupMiss(c, op, k) PROVE TypeOK'
  <2>1. call' \in [Client -> CallState] /\ answer' \in [Client -> Answer]
    BY <1>0, <1>2, CallTyped, AnswerTyped DEF LookupMiss, Steps, Lookups
  <2>2. disturbed' \in Causes
    BY <1>0, <1>2, ReasonsTyped DEF LookupMiss, Causes
  <2> QED
    BY <1>2, <2>1, <2>2 DEF LookupMiss, TypeOK, LruOK
<1>3. ASSUME NEW k \in Key, NEW op \in {"get", "exists"}, LookupExpired(c, op, k) PROVE TypeOK'
  <2>1. call' \in [Client -> CallState] /\ answer' \in [Client -> Answer]
    BY <1>0, <1>3, CallTyped, AnswerTyped DEF LookupExpired, Steps, Lookups
  <2>2. disturbed' \in Causes
    BY <1>0, <1>3, ReasonsTyped DEF LookupExpired, Causes
  <2>3. LruOK'
    BY <1>0, <1>3, TouchFacts DEF LookupExpired, HotExpired
  <2> QED
    BY <1>3, <2>1, <2>2, <2>3 DEF LookupExpired, TypeOK
<1>4. ASSUME LookupDrop(c) PROVE TypeOK'
  <2>1. call' \in [Client -> CallState]
    BY <1>0, <1>4, CallTyped DEF LookupDrop, Steps, Lookups
  <2>2. LruOK'
    BY <1>0, <1>4, DropFacts DEF LookupDrop
  <2> QED
    BY <1>4, <2>1, <2>2 DEF LookupDrop, TypeOK
<1>5. ASSUME ReadCold(c) PROVE TypeOK'
  <2> DEFINE k == call[c].key
  <2>1. k \in Key /\ cold[k] \in ColdEntry
    BY <1>0 DEF TypeOK
  <2>2. call' \in [Client -> CallState] /\ answer' \in [Client -> Answer]
    BY <1>0, <1>5, <2>1, CallTyped, AnswerTyped DEF ReadCold, ColdEntry
  <2>3. [key |-> k, ver |-> cold[k].ver, rem |-> cold[k].exp - now, read |-> now] \in Promotion
    BY <1>0, <2>1 DEF ColdEntry, Promotion
  <2>4. promo' \in [Slot -> Promotion]
    BY <1>5, <2>3 DEF ReadCold, TypeOK
  <2> QED
    BY <1>5, <2>2, <2>4 DEF ReadCold, TypeOK, LruOK
<1>6. ASSUME ReadNothing(c) PROVE TypeOK'
  BY <1>0, <1>6, CallTyped DEF ReadNothing, TypeOK, LruOK
<1>7. ASSUME ReadExpiring(c) PROVE TypeOK'
  <2>1. call' \in [Client -> CallState]
    BY <1>0, <1>7, CallTyped DEF ReadExpiring, Steps, Lookups
  <2> QED
    BY <1>7, <2>1 DEF ReadExpiring, TypeOK, LruOK
<1>8. ASSUME PurgeExpired(c) PROVE TypeOK'
  <2>1. call' \in [Client -> CallState]
    BY <1>0, <1>8, CallTyped DEF PurgeExpired
  <2>2. cold' \in [Key -> ColdEntry]
    BY <1>8, Defaults DEF PurgeExpired, TypeOK
  <2> QED
    BY <1>8, <2>1, <2>2 DEF PurgeExpired, TypeOK, LruOK
<1> QED
  BY <1>1, <1>2, <1>3, <1>4, <1>5, <1>6, <1>7, <1>8 DEF Lookup

(* A Set keeps the types. *)
LEMMA SetTyped ==
  ASSUME TypeOK, NEW c \in Client, Set(c)
  PROVE  TypeOK'
<1> USE DEF calls, background, lifecycle, history
<1>0. /\ call \in [Client -> CallState] /\ answer \in [Client -> Answer] /\ now \in Nat
      /\ LruOK /\ disturbed \in Causes /\ call[c] \in CallState /\ call[c].key \in Key
      /\ call[c].ttl \in Nat /\ call[c].ver \in Nat
      /\ written \in Seq(WriteRecord)
  BY CallTyped DEF TypeOK, CallState
<1>1. ASSUME NEW k \in Key, NEW ttl \in TTL, SetHot(c, k, ttl) PROVE TypeOK'
  <2> DEFINE ver == Len(written) + 1
  <2>1. ver \in Nat /\ ttl \in Nat /\ now + ttl \in Nat
    BY <1>0, ConfigAssumption
  <2>2. HotAdd(k, ver, now + ttl)
    BY <1>1 DEF SetHot
  <2>3. LruOK'
    <3>1. now + ttl \in Int
      BY <2>1
    <3> QED
      BY <1>0, <2>1, <2>2, <3>1, AddFacts
  <2>4. written' \in Seq(WriteRecord)
    BY <1>0, <1>1, <2>1 DEF SetHot, WriteRecord
  <2>5. [IdleCall EXCEPT !.at = "stamp", !.op = "set", !.key = k, !.ver = ver, !.ttl = ttl]
          \in CallState
    BY <2>1, Defaults DEF CallState, Steps, Writes
  <2>6. call' \in [Client -> CallState] /\ answer' \in [Client -> Answer]
    BY <1>0, <1>1, <2>5, AnswerTyped DEF SetHot
  <2>7. disturbed' \in Causes
    BY <1>0, <1>1, ReasonsTyped DEF SetHot, Causes
  <2>8. latest' \in [Key -> Nat]
    BY <1>1, <2>1 DEF SetHot, TypeOK
  <2> QED
    BY <1>1, <2>3, <2>4, <2>6, <2>7, <2>8 DEF SetHot, TypeOK
<1>2. ASSUME SetStamp(c) \/ SetEntry(c) PROVE TypeOK'
  <2>1. now + call[c].ttl \in Nat /\ now + call[c].ttl \in Int
    BY <1>0
  <2>2. [call[c] EXCEPT !.at = "entry", !.exp = now + call[c].ttl] \in CallState
    BY <1>0, <2>1 DEF CallState, Steps, Writes
  <2>3. [call[c] EXCEPT !.at = "write", !.native = now + call[c].ttl] \in CallState
    BY <1>0, <2>1 DEF CallState, Steps, Writes
  <2>4. call' \in [Client -> CallState]
    BY <1>0, <1>2, <2>2, <2>3, CallTyped DEF SetStamp, SetEntry
  <2>5. written' \in Seq(WriteRecord)
    <3> DEFINE w == [written EXCEPT ![call[c].ver].due = now + call[c].ttl]
    <3>1. w \in Seq(WriteRecord)
      BY <1>0, <2>1, RestampFacts
    <3>2. written' = w \/ written' = written
      BY <1>2 DEF SetStamp, SetEntry
    <3> QED
      BY <1>0, <3>1, <3>2
  <2> QED
    BY <1>2, <2>4, <2>5 DEF SetStamp, SetEntry, TypeOK, LruOK
<1>3. ASSUME SetCold(c) PROVE TypeOK'
  <2>1. call' \in [Client -> CallState]
    BY <1>0, <1>3, CallTyped DEF SetCold
  <2>2. [ver |-> call[c].ver, exp |-> call[c].exp, native |-> call[c].native] \in ColdEntry
    BY <1>0 DEF CallState, ColdEntry
  <2>3. cold' \in [Key -> ColdEntry]
    BY <1>3, <2>2 DEF SetCold, TypeOK
  <2>4. disturbed[call[c].key] \cup {"unwritten"} \in SUBSET Reason
    BY <1>0 DEF Causes, Reason
  <2>5. disturbed' \in Causes
    BY <1>0, <1>3, <2>4 DEF SetCold, Causes
  <2> QED
    BY <1>3, <2>1, <2>3, <2>5 DEF SetCold, TypeOK, LruOK
<1> QED
  BY <1>1, <1>2, <1>3 DEF Set

(* A Delete or a Clear keeps the types. *)
LEMMA EraseTyped ==
  ASSUME TypeOK, NEW c \in Client, Delete(c) \/ Clear(c)
  PROVE  TypeOK'
<1> USE DEF calls, background, lifecycle, history
<1>0. /\ call \in [Client -> CallState] /\ answer \in [Client -> Answer] /\ now \in Nat
      /\ LruOK /\ disturbed \in Causes /\ call[c] \in CallState /\ call[c].key \in Key
      /\ latest \in [Key -> Nat]
  BY CallTyped DEF TypeOK
<1>1. ASSUME NEW k \in Key, DeleteHot(c, k) PROVE TypeOK'
  <2>1. call' \in [Client -> CallState] /\ answer' \in [Client -> Answer]
    BY <1>0, <1>1, CallTyped, AnswerTyped DEF DeleteHot
  <2>2. disturbed' \in Causes
    BY <1>0, <1>1, ReasonsTyped DEF DeleteHot, Causes
  <2>3. LruOK'
    BY <1>0, <1>1, DropFacts DEF DeleteHot
  <2> QED
    BY <1>0, <1>1, <2>1, <2>2, <2>3 DEF DeleteHot, TypeOK
<1>2. ASSUME DeleteCold(c) PROVE TypeOK'
  <2>1. call' \in [Client -> CallState]
    BY <1>0, <1>2, CallTyped DEF DeleteCold
  <2>2. cold' \in [Key -> ColdEntry]
    BY <1>2, Defaults DEF DeleteCold, TypeOK
  <2>3. disturbed[call[c].key] \cup {"undeleted"} \in SUBSET Reason
    BY <1>0 DEF Causes, Reason
  <2>4. disturbed' \in Causes
    BY <1>0, <1>2, <2>3 DEF DeleteCold, Causes
  <2> QED
    BY <1>2, <2>1, <2>2, <2>4 DEF DeleteCold, TypeOK, LruOK
<1>3. ASSUME ClearHot(c) PROVE TypeOK'
  <2>1. call' \in [Client -> CallState] /\ answer' \in [Client -> Answer]
    BY <1>0, <1>3, CallTyped, AnswerTyped, Defaults DEF ClearHot
  <2>2. \A k \in Key : AfterWriteStart(c, k) \cup {"clear"} \in SUBSET Reason
    BY <1>0, ReasonsTyped DEF Reason
  <2>3. disturbed' \in Causes
    BY <1>3, <2>2 DEF ClearHot, Causes
  <2>4. LruOK'
    BY <1>3, CapacityAssumption DEF ClearHot, HotPurge, LruOK
  <2>5. latest' \in [Key -> Nat]
    BY <1>3 DEF ClearHot
  <2> QED
    BY <1>3, <2>1, <2>3, <2>4, <2>5 DEF ClearHot, TypeOK
<1>4. ASSUME ClearCold(c) PROVE TypeOK'
  BY <1>0, <1>4, CallTyped DEF ClearCold, TypeOK, LruOK
<1> QED
  BY <1>1, <1>2, <1>3, <1>4 DEF Delete, Clear

(* A promotion, a background worker, Close, a restart and the clock keep   *)
(* the types.                                                              *)
LEMMA OtherStepsTyped ==
  ASSUME TypeOK,
         \/ \E s \in Slot : Promote(s)
         \/ Cleanup \/ ValueLogGC
         \/ CloseSignal \/ CloseDB \/ Restart \/ Tick
  PROVE  TypeOK'
<1> USE DEF calls, background, lifecycle, history
<1>1. ASSUME NEW s \in Slot, Promote(s) PROVE TypeOK'
  <2> DEFINE p == promo[s]
  <2>1. p \in Promotion /\ p.key \in Key /\ p.ver \in Nat /\ now + p.rem \in Int
    BY DEF TypeOK, Promotion
  <2>2. LruOK'
    <3>1. LruOK /\ (UNCHANGED mem => LruOK')
      BY DEF TypeOK, LruOK
    <3>2. UNCHANGED mem \/ HotAdd(p.key, p.ver, now + p.rem)
      BY <1>1 DEF Promote
    <3> QED
      BY <2>1, <3>1, <3>2, AddFacts
  <2>3. promo' \in [Slot -> Promotion]
    BY <1>1, Defaults DEF Promote, TypeOK
  <2> QED
    BY <1>1, <2>2, <2>3 DEF Promote, TypeOK
<1>2. ASSUME Cleanup PROVE TypeOK'
  <2>1. CASE CleanupLock \/ CleanupStop
    BY <2>1 DEF CleanupLock, CleanupStop, TypeOK, LruOK
  <2>2. CASE CleanupScan
    BY <2>2 DEF CleanupScan, TypeOK, LruOK
  <2>3. CASE CleanupDelete
    <3>1. cold' \in [Key -> ColdEntry]
      BY <2>3, Defaults DEF CleanupDelete, TypeOK
    <3> QED
      BY <2>3, <3>1 DEF CleanupDelete, TypeOK, LruOK
  <2> QED
    BY <1>2, <2>1, <2>2, <2>3 DEF Cleanup
<1>3. ASSUME ValueLogGC PROVE TypeOK'
  BY <1>3 DEF ValueLogGC, GCLock, GCRewrite, GCUnlock, GCStop, TypeOK, LruOK
<1>4. ASSUME CloseSignal \/ CloseDB PROVE TypeOK'
  BY <1>4 DEF CloseSignal, CloseDB, TypeOK, LruOK
<1>5. ASSUME Restart PROVE TypeOK'
  <2>1. LruOK'
    BY <1>5, CapacityAssumption DEF Restart, LruOK
  <2>2. /\ call' \in [Client -> CallState] /\ answer' \in [Client -> Answer]
        /\ promo' \in [Slot -> Promotion]
    BY <1>5, Defaults DEF Restart
  <2>3. \A k \in Key : disturbed[k] \cup {"restart"} \in SUBSET Reason
                     /\ disturbed[k] \in SUBSET Reason
    BY DEF TypeOK, Causes, Reason
  <2>4. disturbed' \in Causes
    BY <1>5, <2>3 DEF Restart, Causes
  <2>5. /\ cleaner' \in {"wait", "done"} /\ gc' \in {"wait", "done"}
        /\ mu' = "free" /\ found' = {} /\ gcCycle' = 0
        /\ stop' = FALSE /\ open' = TRUE /\ restarts' \in Nat
    BY <1>5 DEF Restart, Started, TypeOK
  <2>6. UNCHANGED <<now, cold, written, latest>>
    BY <1>5 DEF Restart
  <2> QED
    BY <2>1, <2>2, <2>4, <2>5, <2>6 DEF TypeOK
<1>6. ASSUME Tick PROVE TypeOK'
  BY <1>6 DEF Tick, TypeOK, LruOK
<1> QED
  BY <1>1, <1>2, <1>3, <1>4, <1>5, <1>6

(* The variables always have the types the code gives them, and the LRU    *)
(* never outgrows its capacity nor holds a key twice.                      *)
THEOREM TypeCorrect == Spec => []TypeOK
<1>1. Init => TypeOK
  BY InitTyped
<1>2. TypeOK /\ [Next]_vars => TypeOK'
  <2>1. TypeOK /\ UNCHANGED vars => TypeOK'
    BY DEF vars, calls, background, lifecycle, history, TypeOK, LruOK
  <2> QED
    BY <2>1, LookupTyped, SetTyped, EraseTyped, OtherStepsTyped DEF Next
<1> QED
  BY <1>1, <1>2, PTL DEF Spec

-----------------------------------------------------------------------------
(* Who holds c.mu, and what the cleanup has found while it holds it.       *)
MutexInv ==
  /\ mu = "cleanup" <=> cleaner \in {"scan", "delete"}
  /\ mu = "gc" <=> gc = "run"
  /\ ~open => cleaner = "done" /\ gc = "done"
  /\ cleaner # "delete" => found = {}
  /\ cleaner = "delete" => \A k \in found : cold[k].native <= now

(* Write v of the history W was for key k and promised to last until t.    *)
Vouched(W, v, k, t) == v \in DOMAIN W /\ W[v].key = k /\ t <= W[v].due

HotVouched ==
  \A i \in DOMAIN mem : Vouched(written, mem[i].ver, mem[i].key, mem[i].exp - MaxLag)
ColdVouched ==
  \A k \in Key : InCold(k) => /\ Vouched(written, cold[k].ver, k, cold[k].native)
                              /\ Vouched(written, cold[k].ver, k, cold[k].exp)
PromoVouched ==
  \A s \in Slot : promo[s] # NoPromo =>
    /\ Vouched(written, promo[s].ver, promo[s].key, promo[s].read + promo[s].rem)
    /\ now <= promo[s].read + MaxLag

(* A Set in progress: what it has stamped its entry with so far is covered *)
(* by what the history says, and what it will stamp covers the history.    *)
Setting == {"stamp", "entry", "write"}
SetOK(w, W, t) ==
  w.at \in Setting =>
    /\ w.ver \in DOMAIN W /\ W[w.ver].key = w.key
    /\ w.at # "write" => W[w.ver].due <= t + w.ttl
    /\ w.at # "stamp" => w.exp <= W[w.ver].due
    /\ w.at = "write" => w.native <= W[w.ver].due
SetsOK ==
  /\ \A c \in Client : SetOK(call[c], written, now)
  /\ \A c, d \in Client :
       c # d /\ call[c].at \in Setting /\ call[d].at \in Setting => call[c].ver # call[d].ver

LifetimeInv == HotVouched /\ ColdVouched /\ PromoVouched /\ SetsOK

-----------------------------------------------------------------------------
(* The lock and Close. *)

(* A step of a call leaves the workers, Close and the clock alone, and     *)
(* touches Badger only while nobody else holds c.mu.                       *)
LEMMA CallLeaves ==
  ASSUME NEW c \in Client, Lookup(c) \/ Set(c) \/ Delete(c) \/ Clear(c)
  PROVE  /\ UNCHANGED <<background, lifecycle, now>>
         /\ UNCHANGED cold \/ mu = "free"
<1>1. Lookup(c) => UNCHANGED <<background, lifecycle, now>> /\ (UNCHANGED cold \/ mu = "free")
  BY DEF Lookup, LookupHit, LookupMiss, LookupExpired, LookupDrop, ReadCold, ReadNothing,
     ReadExpiring, PurgeExpired
<1>2. Set(c) => UNCHANGED <<background, lifecycle, now>> /\ (UNCHANGED cold \/ mu = "free")
  BY DEF Set, SetHot, SetStamp, SetEntry, SetCold
<1>3. Delete(c) \/ Clear(c) =>
        UNCHANGED <<background, lifecycle, now>> /\ (UNCHANGED cold \/ mu = "free")
  BY DEF Delete, DeleteHot, DeleteCold, Clear, ClearHot, ClearCold
<1> QED
  BY <1>1, <1>2, <1>3

LEMMA MutexStep == TypeOK /\ MutexInv /\ [Next]_vars => MutexInv'
<1> SUFFICES ASSUME TypeOK, MutexInv, [Next]_vars PROVE MutexInv'
  OBVIOUS
<1>1. ASSUME UNCHANGED <<background, lifecycle, now>>, UNCHANGED cold \/ mu = "free"
      PROVE  MutexInv'
  BY <1>1 DEF MutexInv, background, lifecycle
<1>2. ASSUME NEW c \in Client, Lookup(c) \/ Set(c) \/ Delete(c) \/ Clear(c) PROVE MutexInv'
  BY <1>1, <1>2, CallLeaves
<1>3. ASSUME NEW s \in Slot, Promote(s) PROVE MutexInv'
  BY <1>1, <1>3 DEF Promote
<1>4. CASE Cleanup
  <2>1. CASE CleanupLock
    BY <2>1 DEF CleanupLock, MutexInv, lifecycle
  <2>2. CASE CleanupScan
    BY <2>2 DEF CleanupScan, MutexInv, lifecycle
  <2>3. CASE CleanupDelete
    BY <2>3 DEF CleanupDelete, MutexInv, lifecycle
  <2>4. CASE CleanupStop
    BY <2>4 DEF CleanupStop, MutexInv, lifecycle
  <2> QED
    BY <1>4, <2>1, <2>2, <2>3, <2>4 DEF Cleanup
<1>5. CASE ValueLogGC
  <2>1. CASE GCLock
    BY <2>1 DEF GCLock, MutexInv, lifecycle
  <2>2. CASE GCRewrite \/ GCUnlock \/ GCStop
    BY <2>2 DEF GCRewrite, GCUnlock, GCStop, MutexInv, lifecycle
  <2> QED
    BY <1>5, <2>1, <2>2 DEF ValueLogGC
<1>6. CASE CloseSignal \/ CloseDB
  BY <1>6 DEF CloseSignal, CloseDB, MutexInv, background
<1>7. CASE Restart
  BY <1>7 DEF Restart, Started, MutexInv
<1>8. CASE Tick
  <2>1. \A k \in found : cold[k].native \in Int /\ now \in Nat
    BY DEF TypeOK, ColdEntry
  <2> QED
    BY <1>8, <2>1 DEF Tick, MutexInv, background, lifecycle
<1>9. CASE UNCHANGED vars
  BY <1>1, <1>9 DEF vars
<1> QED
  BY <1>2, <1>3, <1>4, <1>5, <1>6, <1>7, <1>8, <1>9 DEF Next

LEMMA MutexInvariance == Spec => [](TypeOK /\ MutexInv)
<1>1. Init => MutexInv
  BY DEF Init, Started, MutexInv
<1> QED
  BY <1>1, MutexStep, TypeCorrect, PTL DEF Spec

(* Close: once the database is closed no worker holds c.mu or has          *)
(* anything left to do on it.                                              *)
THEOREM CloseWaitsForWorkers == Spec => []NoWorkerOutlivesClose
<1>1. TypeOK /\ MutexInv => NoWorkerOutlivesClose
  BY DEF TypeOK, MutexInv, NoWorkerOutlivesClose
<1> QED
  BY <1>1, MutexInvariance, PTL

(* cleanupBadger: nothing that was alive when the deletes ran is deleted,  *)
(* because c.mu is held from the scan to the delete.                       *)
THEOREM CleanupIsExact == Spec => CleanupDeletesOnlyExpired
<1>1. TypeOK /\ MutexInv /\ [Next]_vars =>
        [cleaner = "delete" /\ cleaner' = "wait" =>
           \A k \in Key : cold'[k] # cold[k] => cold[k].native <= now]_vars
  <2> SUFFICES ASSUME TypeOK, MutexInv, [Next]_vars, cleaner = "delete", cleaner' = "wait",
                      NEW k \in Key, cold'[k] # cold[k]
               PROVE  cold[k].native <= now
    OBVIOUS
  <2>1. ASSUME NEW c \in Client, Lookup(c) \/ Set(c) \/ Delete(c) \/ Clear(c) PROVE FALSE
    BY <2>1, CallLeaves DEF background
  <2>2. ASSUME NEW s \in Slot, Promote(s) PROVE FALSE
    BY <2>2 DEF Promote
  <2>3. CASE Cleanup
    BY <2>3 DEF Cleanup, CleanupLock, CleanupScan, CleanupDelete, CleanupStop, MutexInv, TypeOK
  <2>4. CASE ValueLogGC \/ CloseSignal \/ CloseDB \/ Restart \/ Tick \/ UNCHANGED vars
    BY <2>4 DEF ValueLogGC, GCLock, GCRewrite, GCUnlock, GCStop, CloseSignal, CloseDB, Restart,
       Tick, vars
  <2> QED
    BY <2>1, <2>2, <2>3, <2>4 DEF Next
<1> QED
  BY <1>1, MutexInvariance, PTL DEF Spec, CleanupDeletesOnlyExpired

-----------------------------------------------------------------------------
(* Lifetimes. *)

(* A later history: the same writes, perhaps promised for longer.          *)
Extends(U, W) ==
  \A v \in DOMAIN W : v \in DOMAIN U /\ U[v].key = W[v].key /\ W[v].due <= U[v].due

LEMMA StillVouched ==
  ASSUME NEW W \in Seq(WriteRecord), NEW U \in Seq(WriteRecord), Extends(U, W),
         NEW v, NEW k, NEW t \in Int, Vouched(W, v, k, t)
  PROVE  Vouched(U, v, k, t)
<1>1. /\ v \in DOMAIN U /\ U[v].key = k /\ t <= W[v].due /\ W[v].due <= U[v].due
  BY DEF Extends, Vouched
<1>2. W[v].due \in Nat /\ U[v].due \in Nat
  <2>1. W[v] \in WriteRecord /\ U[v] \in WriteRecord
    BY <1>1 DEF Vouched
  <2> QED
    BY <2>1 DEF WriteRecord
<1> QED
  BY <1>1, <1>2 DEF Vouched

LEMMA ExtendsItself == ASSUME NEW W \in Seq(WriteRecord) PROVE Extends(W, W)
<1>1. \A v \in DOMAIN W : W[v].due \in Nat
  <2>1. \A v \in DOMAIN W : W[v] \in WriteRecord
    OBVIOUS
  <2> QED
    BY <2>1 DEF WriteRecord
<1> QED
  BY <1>1 DEF Extends

(* The hot tier: every entry is an old one, or is itself vouched for.      *)
LEMMA HotKept ==
  ASSUME TypeOK, HotVouched, written' \in Seq(WriteRecord), Extends(written', written),
         \A i \in DOMAIN mem' :
           \/ \E j \in DOMAIN mem : mem'[i] = mem[j]
           \/ Vouched(written', mem'[i].ver, mem'[i].key, mem'[i].exp - MaxLag)
  PROVE  HotVouched'
<1>1. ASSUME NEW j \in DOMAIN mem
      PROVE  Vouched(written', mem[j].ver, mem[j].key, mem[j].exp - MaxLag)
  <2>1. mem[j].exp - MaxLag \in Int
    <3>1. mem[j] \in HotEntry
      BY DEF TypeOK, LruOK
    <3> QED
      BY <3>1, ConfigAssumption DEF HotEntry
  <2>2. Vouched(written, mem[j].ver, mem[j].key, mem[j].exp - MaxLag)
    BY DEF HotVouched
  <2>3. written \in Seq(WriteRecord)
    BY DEF TypeOK
  <2> QED
    BY <2>1, <2>2, <2>3, StillVouched
<1>2. ASSUME NEW i \in DOMAIN mem'
      PROVE  Vouched(written', mem'[i].ver, mem'[i].key, mem'[i].exp - MaxLag)
  BY <1>1
<1> QED
  BY <1>2 DEF HotVouched

(* Badger: every entry is an old one, or is itself vouched for.            *)
LEMMA ColdKept ==
  ASSUME TypeOK, ColdVouched, written' \in Seq(WriteRecord), Extends(written', written),
         \A k \in Key :
           \/ cold'[k] = cold[k] \/ cold'[k] = NoCold
           \/ /\ Vouched(written', cold'[k].ver, k, cold'[k].native)
              /\ Vouched(written', cold'[k].ver, k, cold'[k].exp)
  PROVE  ColdVouched'
<1>1. ASSUME NEW k \in Key, InCold(k)
      PROVE  /\ Vouched(written', cold[k].ver, k, cold[k].native)
             /\ Vouched(written', cold[k].ver, k, cold[k].exp)
  <2>1. cold[k].native \in Int /\ cold[k].exp \in Int /\ written \in Seq(WriteRecord)
    BY DEF TypeOK, ColdEntry
  <2>2. /\ Vouched(written, cold[k].ver, k, cold[k].native)
        /\ Vouched(written, cold[k].ver, k, cold[k].exp)
    BY <1>1 DEF ColdVouched
  <2> QED
    BY <2>1, <2>2, StillVouched
<1>2. ASSUME NEW k \in Key, cold'[k].ver # 0
      PROVE  /\ Vouched(written', cold'[k].ver, k, cold'[k].native)
             /\ Vouched(written', cold'[k].ver, k, cold'[k].exp)
  <2>1. cold'[k] # NoCold
    BY <1>2 DEF NoCold
  <2>2. CASE cold'[k] = cold[k]
    <3>1. InCold(k)
      BY <1>2, <2>2 DEF InCold
    <3> QED
      BY <1>1, <2>2, <3>1
  <2>3. CASE cold'[k] # cold[k]
    BY <2>1, <2>3
  <2> QED
    BY <2>2, <2>3
<1> QED
  BY <1>2 DEF ColdVouched, InCold

(* Promotions: every one is an old one, or is itself vouched for.          *)
LEMMA PromoKept ==
  ASSUME TypeOK, PromoVouched, written' \in Seq(WriteRecord), Extends(written', written),
         UNCHANGED now,
         \A s \in Slot :
           \/ promo'[s] = promo[s] \/ promo'[s] = NoPromo
           \/ /\ Vouched(written', promo'[s].ver, promo'[s].key, promo'[s].read + promo'[s].rem)
              /\ now <= promo'[s].read + MaxLag
  PROVE  PromoVouched'
<1>1. ASSUME NEW s \in Slot, promo[s] # NoPromo
      PROVE  /\ Vouched(written', promo[s].ver, promo[s].key, promo[s].read + promo[s].rem)
             /\ now <= promo[s].read + MaxLag
  <2>1. promo[s].read + promo[s].rem \in Int /\ written \in Seq(WriteRecord)
    <3>1. promo[s] \in Promotion /\ written \in Seq(WriteRecord)
      BY DEF TypeOK
    <3> QED
      BY <3>1 DEF Promotion
  <2>2. /\ Vouched(written, promo[s].ver, promo[s].key, promo[s].read + promo[s].rem)
        /\ now <= promo[s].read + MaxLag
    BY <1>1 DEF PromoVouched
  <2> QED
    BY <2>1, <2>2, StillVouched
<1>2. ASSUME NEW s \in Slot, promo'[s] # NoPromo
      PROVE  /\ Vouched(written', promo'[s].ver, promo'[s].key, promo'[s].read + promo'[s].rem)
             /\ now <= promo'[s].read + MaxLag
  <2>1. CASE promo'[s] = promo[s]
    BY <1>1, <1>2, <2>1
  <2>2. CASE promo'[s] # promo[s]
    BY <1>2, <2>2
  <2> QED
    BY <2>1, <2>2
<1>3. UNCHANGED NoPromo
  BY DEF NoPromo
<1> QED
  BY <1>2, <1>3 DEF PromoVouched

(* Sets in progress, for every step that writes no history.                *)
LEMMA SetsKept ==
  ASSUME TypeOK, SetsOK, UNCHANGED <<now, written>>,
         \A c \in Client : call'[c] = call[c] \/ call'[c].at \notin Setting
  PROVE  SetsOK'
<1>1. ASSUME NEW c \in Client PROVE SetOK(call'[c], written, now)
  BY DEF SetsOK, SetOK
<1>2. ASSUME NEW c \in Client, NEW d \in Client, c # d,
             call'[c].at \in Setting, call'[d].at \in Setting
      PROVE  call'[c].ver # call'[d].ver
  BY <1>2 DEF SetsOK
<1> QED
  BY <1>1, <1>2 DEF SetsOK

(* A call that goes back to idle, or into a lookup or an erase, is no Set. *)
LEMMA NotSetting ==
  ASSUME call \in [Client -> CallState], NEW c \in Client
  PROVE  /\ Return(c) => \A d \in Client : call'[d] = call[d] \/ call'[d].at \notin Setting
         /\ \A op, k : \A at \in {"read", "drop", "erase", "clear"} :
              Begin(c, op, at, k) => \A d \in Client : call'[d] = call[d] \/ call'[d].at \notin Setting
         /\ \A at \in {"read", "purge"} :
              call' = [call EXCEPT ![c].at = at]
                => \A d \in Client : call'[d] = call[d] \/ call'[d].at \notin Setting
<1>1. ASSUME Return(c) PROVE \A d \in Client : call'[d] = call[d] \/ call'[d].at \notin Setting
  <2>1. IdleCall.at \notin Setting
    BY Defaults DEF Setting
  <2> QED
    BY <1>1, <2>1 DEF Return
<1>2. ASSUME NEW op, NEW k, NEW at \in {"read", "drop", "erase", "clear"}, Begin(c, op, at, k),
             NEW d \in Client
      PROVE  call'[d] = call[d] \/ call'[d].at \notin Setting
  <2> DEFINE w == [IdleCall EXCEPT !.at = at, !.op = op, !.key = k]
  <2>1. w.at = at /\ at \notin Setting
    BY DEF IdleCall, Setting
  <2>2. call' = [call EXCEPT ![c] = w]
    BY <1>2 DEF Begin
  <2> HIDE DEF w
  <2> QED
    BY <2>1, <2>2
<1>3. ASSUME NEW at \in {"read", "purge"}, call' = [call EXCEPT ![c].at = at], NEW d \in Client
      PROVE  call'[d] = call[d] \/ call'[d].at \notin Setting
  <2> DEFINE w == [call[c] EXCEPT !.at = at]
  <2>1. w.at = at /\ at \notin Setting
    BY DEF CallState, Setting
  <2>2. call' = [call EXCEPT ![c] = w]
    BY <1>3
  <2> HIDE DEF w
  <2> QED
    BY <2>1, <2>2
<1> QED
  BY <1>1, <1>2, <1>3

(* What a step leaves as it is stays vouched for. *)
LEMMA LifetimeUntouched ==
  ASSUME TypeOK, LifetimeInv, UNCHANGED <<now, written>>
  PROVE  /\ UNCHANGED mem => HotVouched'
         /\ UNCHANGED cold => ColdVouched'
         /\ UNCHANGED promo => PromoVouched'
         /\ UNCHANGED call => SetsOK'
         /\ written' \in Seq(WriteRecord) /\ Extends(written', written)
<1>1. written' \in Seq(WriteRecord) /\ Extends(written', written)
  BY ExtendsItself DEF TypeOK
<1>2. UNCHANGED mem => HotVouched'
  BY DEF LifetimeInv, HotVouched
<1>3. UNCHANGED cold => ColdVouched'
  BY DEF LifetimeInv, ColdVouched, InCold
<1>4. UNCHANGED promo => PromoVouched'
  BY DEF LifetimeInv, PromoVouched, NoPromo
<1>5. UNCHANGED call => SetsOK'
  BY DEF LifetimeInv, SetsOK
<1> QED
  BY <1>1, <1>2, <1>3, <1>4, <1>5

LEMMA LookupLifetime ==
  ASSUME TypeOK, LifetimeInv, NEW c \in Client, Lookup(c)
  PROVE  LifetimeInv'
<1> USE DEF calls, history
<1>1. /\ call \in [Client -> CallState] /\ LruOK /\ call[c].key \in Key
      /\ HotVouched /\ ColdVouched /\ PromoVouched /\ SetsOK
  BY CallTyped DEF TypeOK, LifetimeInv
<1>2. ASSUME NEW k \in Key, LookupHit(c, k) PROVE LifetimeInv'
  <2>1. UNCHANGED <<now, cold, call, promo, written>>
    BY <1>2 DEF LookupHit
  <2>2. \A i \in DOMAIN mem' : \E j \in DOMAIN mem : mem'[i] = mem[j]
    BY <1>1, <1>2, TouchFacts DEF LookupHit, HotFresh
  <2> QED
    BY <1>1, <2>1, <2>2, LifetimeUntouched, HotKept DEF LifetimeInv
<1>3. ASSUME NEW k \in Key, NEW op \in {"get", "exists"}, LookupMiss(c, op, k) PROVE LifetimeInv'
  <2>1. UNCHANGED <<mem, now, cold, promo, written>> /\ Begin(c, op, "read", k)
    BY <1>3 DEF LookupMiss
  <2>2. SetsOK'
    BY <1>1, <2>1, NotSetting, SetsKept
  <2> QED
    BY <2>1, <2>2, LifetimeUntouched DEF LifetimeInv
<1>4. ASSUME NEW k \in Key, NEW op \in {"get", "exists"}, LookupExpired(c, op, k) PROVE LifetimeInv'
  <2>1. UNCHANGED <<now, cold, promo, written>> /\ Begin(c, op, "drop", k)
    BY <1>4 DEF LookupExpired
  <2>2. SetsOK'
    BY <1>1, <2>1, NotSetting, SetsKept
  <2>3. \A i \in DOMAIN mem' : \E j \in DOMAIN mem : mem'[i] = mem[j]
    BY <1>1, <1>4, TouchFacts DEF LookupExpired, HotExpired
  <2> QED
    BY <1>1, <2>1, <2>2, <2>3, LifetimeUntouched, HotKept DEF LifetimeInv
<1>5. ASSUME LookupDrop(c) PROVE LifetimeInv'
  <2>1. UNCHANGED <<now, cold, promo, written>> /\ call' = [call EXCEPT ![c].at = "read"]
    BY <1>5 DEF LookupDrop
  <2>2. SetsOK'
    BY <1>1, <2>1, NotSetting, SetsKept
  <2>3. \A i \in DOMAIN mem' : \E j \in DOMAIN mem : mem'[i] = mem[j]
    BY <1>1, <1>5, DropFacts DEF LookupDrop
  <2> QED
    BY <1>1, <2>1, <2>2, <2>3, LifetimeUntouched, HotKept DEF LifetimeInv
<1>6. ASSUME ReadCold(c) PROVE LifetimeInv'
  <2>1. PICK k \in Key : k = call[c].key
    BY <1>1
  <2>2. UNCHANGED <<mem, now, cold, written>> /\ Return(c) /\ InCold(k)
    BY <1>6, <2>1 DEF ReadCold, ColdLive
  <2>3. PICK e \in ColdEntry : e = cold[k]
    BY DEF TypeOK
  <2>4. PICK t \in Nat : t = now
    BY DEF TypeOK
  <2> DEFINE p == [key |-> k, ver |-> e.ver, rem |-> e.exp - t, read |-> t]
  <2>5. Vouched(written, e.ver, k, e.exp)
    BY <1>1, <2>2, <2>3 DEF ColdVouched
  <2>6. p.read + p.rem = e.exp /\ p.ver = e.ver /\ p.key = k /\ t <= p.read + MaxLag
    BY <2>3, <2>4, ConfigAssumption DEF ColdEntry
  <2>7. UNCHANGED promo \/ \E s \in Slot : promo' = [promo EXCEPT ![s] = p]
    BY <1>6, <2>1, <2>3, <2>4 DEF ReadCold
  <2> HIDE DEF p
  <2>8. \A s \in Slot : promo'[s] = promo[s] \/ promo'[s] = p
    BY <2>7 DEF TypeOK
  <2>9. PromoVouched'
    <3>1. \A s \in Slot :
            \/ promo'[s] = promo[s]
            \/ /\ Vouched(written', promo'[s].ver, promo'[s].key, promo'[s].read + promo'[s].rem)
               /\ now <= promo'[s].read + MaxLag
      BY <2>2, <2>4, <2>5, <2>6, <2>8
    <3> QED
      BY <1>1, <2>2, <3>1, LifetimeUntouched, PromoKept
  <2>10. SetsOK'
    BY <1>1, <2>2, NotSetting, SetsKept
  <2> QED
    BY <2>2, <2>9, <2>10, LifetimeUntouched DEF LifetimeInv
<1>7. ASSUME ReadNothing(c) \/ ReadExpiring(c) PROVE LifetimeInv'
  <2>1. /\ UNCHANGED <<mem, now, cold, promo, written>>
        /\ Return(c) \/ call' = [call EXCEPT ![c].at = "purge"]
    BY <1>7 DEF ReadNothing, ReadExpiring
  <2>2. SetsOK'
    BY <1>1, <2>1, NotSetting, SetsKept
  <2> QED
    BY <2>1, <2>2, LifetimeUntouched DEF LifetimeInv
<1>8. ASSUME PurgeExpired(c) PROVE LifetimeInv'
  <2>1. UNCHANGED <<mem, now, promo, written>> /\ Return(c)
    BY <1>8 DEF PurgeExpired
  <2>2. SetsOK'
    BY <1>1, <2>1, NotSetting, SetsKept
  <2>3. \A k \in Key : cold'[k] = cold[k] \/ cold'[k] = NoCold
    BY <1>8 DEF PurgeExpired, TypeOK
  <2> QED
    BY <1>1, <2>1, <2>2, <2>3, LifetimeUntouched, ColdKept DEF LifetimeInv
<1> QED
  BY <1>2, <1>3, <1>4, <1>5, <1>6, <1>7, <1>8 DEF Lookup

(* Set, first section: a new version, in memory. *)
LEMMA SetHotLifetime ==
  ASSUME TypeOK, LifetimeInv, NEW c \in Client, NEW k \in Key, NEW ttl \in TTL, SetHot(c, k, ttl)
  PROVE  LifetimeInv'
<1> USE DEF calls, history
<1>1. PICK W \in Seq(WriteRecord) : W = written
  BY DEF TypeOK
<1>2. PICK t \in Nat : t = now
  BY DEF TypeOK
<1> DEFINE n == Len(W) + 1
           r == [key |-> k, due |-> t + ttl]
           U == Append(W, r)
           e == [key |-> k, ver |-> n, exp |-> t + ttl]
           w == [IdleCall EXCEPT !.at = "stamp", !.op = "set", !.key = k, !.ver = n, !.ttl = ttl]
<1>3. ttl \in Nat /\ t + ttl \in Nat /\ n \in Nat /\ t + ttl \in Int
  BY ConfigAssumption
<1>4. /\ HotAdd(k, n, t + ttl) /\ written' = U /\ call' = [call EXCEPT ![c] = w]
      /\ UNCHANGED <<now, cold, promo>>
  BY <1>1, <1>2 DEF SetHot
<1>5. /\ U \in Seq(WriteRecord) /\ n \in DOMAIN U /\ U[n] = r
      /\ n \notin DOMAIN W /\ \A v \in DOMAIN W : v \in DOMAIN U /\ U[v] = W[v]
  <2>1. r \in WriteRecord
    BY <1>3 DEF WriteRecord
  <2> HIDE DEF r
  <2> QED
    BY <2>1
<1>6. Extends(U, W)
  BY <1>5, ExtendsItself DEF Extends
<1>7. /\ w.at = "stamp" /\ w.key = k /\ w.ver = n /\ w.ttl = ttl
  BY DEF IdleCall
<1>8. r.key = k /\ r.due = t + ttl /\ e.key = k /\ e.ver = n /\ e.exp = t + ttl
  OBVIOUS
<1>9. HotVouched'
  <2>1. LruOK
    BY DEF TypeOK
  <2>2. ASSUME NEW i \in DOMAIN mem'
        PROVE  (\E j \in DOMAIN mem : mem'[i] = mem[j]) \/ mem'[i] = e
    <3>1. OnlyOldOr(e)
      <4> HIDE DEF e, n, U, r, w
      <4>1. OnlyOldOr([key |-> k, ver |-> n, exp |-> t + ttl])
        BY <1>3, <1>4, <2>1, AddFacts, Zenon
      <4> QED
        BY <4>1, Zenon DEF e
    <3> HIDE DEF e, n, U, r, w
    <3> QED
      BY <3>1, Zenon DEF OnlyOldOr
  <2>3. Vouched(U, e.ver, e.key, e.exp - MaxLag)
    <3>1. t + ttl - MaxLag <= t + ttl
      BY <1>3, ConfigAssumption
    <3>2. U[n].key = k /\ U[n].due = t + ttl
      BY <1>5, <1>8
    <3>3. Vouched(U, n, k, t + ttl - MaxLag)
      <4> HIDE DEF U, n
      <4> QED
        BY <1>5, <3>1, <3>2, Zenon DEF Vouched
    <3> HIDE DEF U, n, e
    <3> QED
      BY <1>3, <1>8, <3>3, ConfigAssumption
  <2> HIDE DEF U, e
  <2> QED
    BY <1>1, <1>4, <1>5, <1>6, <2>2, <2>3, HotKept DEF LifetimeInv
<1>10. ColdVouched'
  <2> HIDE DEF U
  <2> QED
    BY <1>1, <1>4, <1>5, <1>6, ColdKept DEF LifetimeInv
<1>11. PromoVouched'
  <2> HIDE DEF U
  <2> QED
    BY <1>1, <1>4, <1>5, <1>6, PromoKept DEF LifetimeInv
<1>12. SetsOK'
  <2> HIDE DEF U, w, r, n
  <2>1. call \in [Client -> CallState] /\ SetsOK
    BY DEF TypeOK, LifetimeInv
  <2>2. \A d \in Client : call'[d] = IF d = c THEN w ELSE call[d]
    BY <1>4, <2>1
  <2>3. SetOK(w, U, t)
    BY <1>3, <1>5, <1>7, <1>8 DEF SetOK
  <2>4. ASSUME NEW d \in Client, d # c, call[d].at \in Setting
        PROVE  SetOK(call[d], U, t) /\ call[d].ver # n
    <3>1. call[d].ver \in DOMAIN W /\ SetOK(call[d], W, t)
      BY <1>1, <1>2, <2>1, <2>4 DEF SetsOK, SetOK
    <3>2. U[call[d].ver] = W[call[d].ver] /\ call[d].ver \in DOMAIN U
      BY <1>5, <3>1
    <3> QED
      BY <1>5, <3>1, <3>2 DEF SetOK
  <2>5. ASSUME NEW d \in Client PROVE SetOK(call'[d], U, t)
    BY <2>2, <2>3, <2>4 DEF SetOK
  <2>6. ASSUME NEW d \in Client, NEW x \in Client, d # x,
               call'[d].at \in Setting, call'[x].at \in Setting
        PROVE  call'[d].ver # call'[x].ver
    <3>1. CASE d = c
      BY <1>7, <2>2, <2>4, <2>6, <3>1
    <3>2. CASE x = c
      BY <1>7, <2>2, <2>4, <2>6, <3>2
    <3>3. CASE d # c /\ x # c
      BY <2>1, <2>2, <2>6, <3>3 DEF SetsOK
    <3> QED
      BY <3>1, <3>2, <3>3
  <2> QED
    BY <1>2, <1>4, <2>5, <2>6 DEF SetsOK
<1> QED
  BY <1>9, <1>10, <1>11, <1>12 DEF LifetimeInv

(* Set, the two sections that read the clock again.                        *)
LEMMA SetStampLifetime ==
  ASSUME TypeOK, LifetimeInv, NEW c \in Client, SetStamp(c) \/ SetEntry(c)
  PROVE  LifetimeInv'
<1> USE DEF calls, history
<1>0. call \in [Client -> CallState] /\ SetsOK /\ call[c] \in CallState
  BY DEF TypeOK, LifetimeInv
<1>1. PICK W \in Seq(WriteRecord) : W = written
  BY DEF TypeOK
<1>2. PICK t \in Nat : t = now
  BY DEF TypeOK
<1>3. PICK v \in Nat, l \in Nat : v = call[c].ver /\ l = call[c].ttl
  BY <1>0 DEF CallState
<1>4. CASE SetStamp(c) /\ call[c].key \in Unencodable
  <2>1. UNCHANGED <<mem, now, cold, promo, written>> /\ Return(c)
    BY <1>4 DEF SetStamp
  <2>2. SetsOK'
    BY <1>0, <2>1, NotSetting, SetsKept
  <2> QED
    BY <2>1, <2>2, LifetimeUntouched DEF LifetimeInv
<1>5. CASE ~(SetStamp(c) /\ call[c].key \in Unencodable)
  <2> DEFINE U == [W EXCEPT ![v].due = t + l]
  <2>1. /\ call[c].at \in {"stamp", "entry"} /\ written' = U
        /\ UNCHANGED <<mem, now, cold, promo>>
    BY <1>1, <1>2, <1>3, <1>5 DEF SetStamp, SetEntry
  <2>2. PICK w \in CallState :
          /\ call' = [call EXCEPT ![c] = w] /\ w.ver = v /\ w.key = call[c].key /\ w.ttl = l
          /\ \/ call[c].at = "stamp" /\ w.at = "entry" /\ w.exp = t + l
             \/ call[c].at = "entry" /\ w.at = "write" /\ w.exp = call[c].exp /\ w.native = t + l
    <3>1. t + l \in Int
      OBVIOUS
    <3>2. CASE SetStamp(c)
      <4> DEFINE w == [call[c] EXCEPT !.at = "entry", !.exp = t + l]
      <4>1. /\ w \in CallState /\ w.at = "entry" /\ w.exp = t + l
            /\ w.ver = v /\ w.key = call[c].key /\ w.ttl = l
        BY <1>0, <1>3, <3>1 DEF CallState, Steps, Writes
      <4>2. call' = [call EXCEPT ![c] = w] /\ call[c].at = "stamp"
        BY <1>2, <1>3, <1>5, <3>2 DEF SetStamp
      <4> HIDE DEF w
      <4> QED
        BY <4>1, <4>2
    <3>3. CASE SetEntry(c)
      <4> DEFINE w == [call[c] EXCEPT !.at = "write", !.native = t + l]
      <4>1. /\ w \in CallState /\ w.at = "write" /\ w.native = t + l /\ w.exp = call[c].exp
            /\ w.ver = v /\ w.key = call[c].key /\ w.ttl = l
        BY <1>0, <1>3, <3>1 DEF CallState, Steps, Writes
      <4>2. call' = [call EXCEPT ![c] = w] /\ call[c].at = "entry"
        BY <1>2, <1>3, <3>3 DEF SetEntry
      <4> HIDE DEF w
      <4> QED
        BY <4>1, <4>2
    <3> QED
      BY <3>2, <3>3
  <2>3. /\ v \in DOMAIN W /\ W[v].key = call[c].key /\ W[v].due <= t + l
        /\ call[c].at = "entry" => call[c].exp <= W[v].due
    BY <1>0, <1>1, <1>2, <1>3, <2>1 DEF SetsOK, SetOK, Setting
  <2>4. t + l \in Nat /\ W[v] \in WriteRecord
    BY <2>3
  <2>5. /\ U \in Seq(WriteRecord) /\ DOMAIN U = DOMAIN W
        /\ \A i \in DOMAIN W : i # v => U[i] = W[i]
        /\ U[v].key = W[v].key /\ U[v].due = t + l
    <3>1. U \in Seq(WriteRecord) /\ DOMAIN U = DOMAIN W
      BY <2>4, RestampFacts
    <3>2. \A i \in DOMAIN W : i # v => U[i] = W[i]
      OBVIOUS
    <3>3. U[v] = [W[v] EXCEPT !.due = t + l]
      BY <2>3
    <3> QED
      BY <2>4, <3>1, <3>2, <3>3 DEF WriteRecord
  <2> HIDE DEF U
  <2>6. Extends(U, W)
    BY <2>3, <2>5, ExtendsItself DEF Extends
  <2>7. HotVouched' /\ ColdVouched' /\ PromoVouched'
    <3>1. written' \in Seq(WriteRecord) /\ Extends(written', written)
      BY <1>1, <2>1, <2>5, <2>6
    <3> QED
      BY <2>1, <3>1, HotKept, ColdKept, PromoKept DEF LifetimeInv
  <2>8. \A d \in Client : call'[d] = IF d = c THEN w ELSE call[d]
    BY <1>0, <2>2
  <2>9. SetOK(w, U, t)
    <3>1. t + l <= t + l /\ t + l \in Int
      OBVIOUS
    <3>2. CASE w.at = "entry"
      BY <2>2, <2>3, <2>5, <3>1, <3>2 DEF SetOK
    <3>3. CASE w.at = "write"
      <4>1. call[c].exp \in Int /\ W[v].due \in Nat
        BY <1>0, <2>4 DEF CallState, WriteRecord
      <4>2. call[c].at = "entry" /\ w.exp = call[c].exp /\ w.native = t + l
        BY <2>2, <3>3
      <4>3. w.exp <= t + l
        BY <2>3, <4>1, <4>2
      <4> QED
        BY <2>2, <2>3, <2>5, <3>1, <3>3, <4>2, <4>3 DEF SetOK
    <3> QED
      BY <2>2, <3>2, <3>3
  <2>10. ASSUME NEW d \in Client, d # c, call[d].at \in Setting PROVE call[d].ver # v
    BY <1>0, <1>3, <2>1, <2>10 DEF SetsOK, Setting
  <2>11. ASSUME NEW d \in Client, d # c, call[d].at \in Setting PROVE SetOK(call[d], U, t)
    <3>1. SetOK(call[d], W, t) /\ call[d].ver \in DOMAIN W
      BY <1>0, <1>1, <1>2, <2>11 DEF SetsOK, SetOK
    <3>2. U[call[d].ver] = W[call[d].ver] /\ call[d].ver \in DOMAIN U
      BY <2>5, <2>10, <2>11, <3>1
    <3> QED
      BY <3>1, <3>2 DEF SetOK
  <2>12. ASSUME NEW d \in Client PROVE SetOK(call'[d], U, t)
    BY <2>8, <2>9, <2>11 DEF SetOK
  <2>13. ASSUME NEW d \in Client, NEW x \in Client, d # x,
                call'[d].at \in Setting, call'[x].at \in Setting
         PROVE  call'[d].ver # call'[x].ver
    <3>1. CASE d = c
      BY <2>2, <2>8, <2>10, <2>13, <3>1
    <3>2. CASE x = c
      BY <2>2, <2>8, <2>10, <2>13, <3>2
    <3>3. CASE d # c /\ x # c
      BY <1>0, <2>8, <2>13, <3>3 DEF SetsOK
    <3> QED
      BY <3>1, <3>2, <3>3
  <2>14. SetsOK'
    BY <1>2, <2>1, <2>12, <2>13 DEF SetsOK
  <2> QED
    BY <2>7, <2>14 DEF LifetimeInv
<1> QED
  BY <1>4, <1>5

(* Set, last section: Badger gets the entry that was stamped.              *)
LEMMA SetColdLifetime ==
  ASSUME TypeOK, LifetimeInv, NEW c \in Client, SetCold(c)
  PROVE  LifetimeInv'
<1> USE DEF calls, history
<1>1. call \in [Client -> CallState] /\ SetsOK /\ ColdVouched
  BY DEF TypeOK, LifetimeInv
<1>2. /\ UNCHANGED <<mem, now, promo, written>> /\ Return(c) /\ call[c].at = "write"
      /\ \/ UNCHANGED cold
         \/ cold' = [cold EXCEPT ![call[c].key] =
              [ver |-> call[c].ver, exp |-> call[c].exp, native |-> call[c].native]]
  BY DEF SetCold
<1>3. SetsOK'
  BY <1>1, <1>2, NotSetting, SetsKept
<1>4. PICK k, v, x, y : k = call[c].key /\ v = call[c].ver /\ x = call[c].exp /\ y = call[c].native
  OBVIOUS
<1>5. Vouched(written, v, k, x) /\ Vouched(written, v, k, y)
  BY <1>1, <1>2, <1>4 DEF SetsOK, SetOK, Setting, Vouched
<1>6. \A j \in Key : \/ cold'[j] = cold[j]
                     \/ j = k /\ cold'[j] = [ver |-> v, exp |-> x, native |-> y]
  BY <1>2, <1>4 DEF TypeOK
<1>7. \A j \in Key : \/ cold'[j] = cold[j]
                     \/ /\ Vouched(written', cold'[j].ver, j, cold'[j].native)
                        /\ Vouched(written', cold'[j].ver, j, cold'[j].exp)
  BY <1>2, <1>5, <1>6
<1>8. ColdVouched'
  BY <1>1, <1>2, <1>7, LifetimeUntouched, ColdKept
<1> QED
  BY <1>2, <1>3, <1>8, LifetimeUntouched DEF LifetimeInv

(* Delete and Clear only take entries away. *)
LEMMA EraseLifetime ==
  ASSUME TypeOK, LifetimeInv, NEW c \in Client, Delete(c) \/ Clear(c)
  PROVE  LifetimeInv'
<1> USE DEF calls, history
<1>1. /\ call \in [Client -> CallState] /\ LruOK /\ HotVouched /\ ColdVouched /\ SetsOK
  BY DEF TypeOK, LifetimeInv
<1>2. ASSUME NEW k \in Key, DeleteHot(c, k) PROVE LifetimeInv'
  <2>1. /\ UNCHANGED <<now, cold, promo, written>> /\ Begin(c, "delete", "erase", k)
        /\ HotDrop(k)
    BY <1>2 DEF DeleteHot
  <2>2. SetsOK'
    BY <1>1, <2>1, NotSetting, SetsKept
  <2>3. \A i \in DOMAIN mem' : \E j \in DOMAIN mem : mem'[i] = mem[j]
    BY <1>1, <2>1, DropFacts
  <2> QED
    BY <1>1, <2>1, <2>2, <2>3, LifetimeUntouched, HotKept DEF LifetimeInv
<1>3. CASE DeleteCold(c) \/ ClearCold(c)
  <2>1. UNCHANGED <<mem, now, promo, written>> /\ Return(c)
    BY <1>3 DEF DeleteCold, ClearCold
  <2>2. SetsOK'
    BY <1>1, <2>1, NotSetting, SetsKept
  <2>3. \A k \in Key : cold'[k] = cold[k] \/ cold'[k] = NoCold
    BY <1>3 DEF DeleteCold, ClearCold, TypeOK
  <2> QED
    BY <1>1, <2>1, <2>2, <2>3, LifetimeUntouched, ColdKept DEF LifetimeInv
<1>4. CASE ClearHot(c)
  <2>1. /\ UNCHANGED <<now, cold, promo, written>> /\ Begin(c, "clear", "clear", IdleCall.key)
        /\ mem' = <<>>
    BY <1>4 DEF ClearHot, HotPurge
  <2>2. SetsOK'
    BY <1>1, <2>1, NotSetting, SetsKept
  <2>3. HotVouched'
    BY <2>1 DEF HotVouched
  <2> QED
    BY <2>1, <2>2, <2>3, LifetimeUntouched DEF LifetimeInv
<1> QED
  BY <1>2, <1>3, <1>4 DEF Delete, Clear

(* An expiry that restarts at t what was left at time r, r <= t <= r + l,  *)
(* overshoots by at most l.                                                *)
LEMMA Overshoot ==
  ASSUME NEW t \in Int, NEW r \in Int, NEW l \in Int, NEW x \in Int, NEW d \in Int,
         t <= r + l, r + x <= d
  PROVE  t + x - l <= d
OBVIOUS

(* promoteToMemory: the copy restarts the remaining lifetime. *)
LEMMA PromoteLifetime ==
  ASSUME TypeOK, LifetimeInv, NEW s \in Slot, Promote(s)
  PROVE  LifetimeInv'
<1> USE DEF calls, history
<1>1. PICK p \in Promotion : p = promo[s]
  BY DEF TypeOK
<1>2. /\ p.key \in Key /\ p.ver \in Nat /\ p.rem \in Int /\ p.read \in Nat
      /\ now \in Nat /\ MaxLag \in Nat /\ LruOK /\ written \in Seq(WriteRecord)
  BY ConfigAssumption DEF Promotion, TypeOK
<1>3. /\ UNCHANGED <<now, cold, call, written>> /\ p # NoPromo
      /\ promo' = [promo EXCEPT ![s] = NoPromo]
      /\ UNCHANGED mem \/ HotAdd(p.key, p.ver, now + p.rem)
  BY <1>1 DEF Promote
<1>4. Vouched(written, p.ver, p.key, p.read + p.rem) /\ now <= p.read + MaxLag
  BY <1>1, <1>3 DEF LifetimeInv, PromoVouched
<1>5. Vouched(written, p.ver, p.key, now + p.rem - MaxLag)
  <2>1. /\ p.ver \in DOMAIN written /\ written[p.ver].key = p.key
        /\ p.read + p.rem <= written[p.ver].due
    BY <1>4 DEF Vouched
  <2>2. written[p.ver].due \in Int
    <3>1. written[p.ver] \in WriteRecord
      BY <1>2, <2>1
    <3> QED
      BY <3>1 DEF WriteRecord
  <2>3. now + p.rem - MaxLag <= written[p.ver].due
    BY <1>2, <1>4, <2>1, <2>2, Overshoot
  <2> QED
    BY <2>1, <2>3 DEF Vouched
<1>6. PICK e \in HotEntry : e = [key |-> p.key, ver |-> p.ver, exp |-> now + p.rem]
  <2>1. now + p.rem \in Int
    BY <1>2
  <2>2. [key |-> p.key, ver |-> p.ver, exp |-> now + p.rem] \in HotEntry
    BY <1>2, <2>1 DEF HotEntry
  <2> QED
    BY <2>2
<1>7. Vouched(written, e.ver, e.key, e.exp - MaxLag)
  <2>1. e.key = p.key /\ e.ver = p.ver /\ e.exp = now + p.rem
    BY <1>6
  <2> QED
    BY <1>2, <1>5, <2>1
<1>8. HotVouched'
  <2>1. CASE UNCHANGED mem
    BY <1>3, <2>1, LifetimeUntouched
  <2>2. CASE HotAdd(p.key, p.ver, now + p.rem)
    <3>1. now + p.rem \in Int
      BY <1>2
    <3>2. OnlyOldOr(e)
      BY <1>2, <1>6, <2>2, <3>1, AddFacts
    <3>3. \A i \in DOMAIN mem' : (\E j \in DOMAIN mem : mem'[i] = mem[j]) \/ mem'[i] = e
      BY <3>2 DEF OnlyOldOr
    <3> QED
      BY <1>3, <1>7, <3>3, LifetimeUntouched, HotKept DEF LifetimeInv
  <2> QED
    BY <1>3, <2>1, <2>2
<1>9. PromoVouched'
  <2>1. \A x \in Slot : promo'[x] = promo[x] \/ promo'[x] = NoPromo
    BY <1>3 DEF TypeOK
  <2> QED
    BY <1>3, <2>1, LifetimeUntouched, PromoKept DEF LifetimeInv
<1> QED
  BY <1>3, <1>8, <1>9, LifetimeUntouched DEF LifetimeInv

(* The workers, Close, a restart and the clock. *)
LEMMA RestLifetime ==
  ASSUME TypeOK, LifetimeInv,
         Cleanup \/ ValueLogGC \/ CloseSignal \/ CloseDB \/ Restart \/ Tick \/ UNCHANGED vars
  PROVE  LifetimeInv'
<1> USE DEF calls, history
<1>1. CASE UNCHANGED <<mem, now, call, promo, written>>
           /\ \A k \in Key : cold'[k] = cold[k] \/ cold'[k] = NoCold
  BY <1>1, LifetimeUntouched, ColdKept DEF LifetimeInv
<1>2. CASE CleanupDelete
  <2>1. \A k \in Key : cold'[k] = cold[k] \/ cold'[k] = NoCold
    BY <1>2 DEF CleanupDelete, TypeOK
  <2> QED
    BY <1>1, <1>2, <2>1 DEF CleanupDelete
<1>3. CASE CleanupLock \/ CleanupScan \/ CleanupStop \/ ValueLogGC \/ CloseSignal \/ CloseDB
           \/ UNCHANGED vars
  BY <1>1, <1>3 DEF CleanupLock, CleanupScan, CleanupStop, ValueLogGC, GCLock, GCRewrite,
     GCUnlock, GCStop, CloseSignal, CloseDB, vars
<1>4. CASE Restart
  <2>1. /\ UNCHANGED <<now, cold, written>> /\ mem' = <<>>
        /\ call' = [c \in Client |-> IdleCall] /\ promo' = [s \in Slot |-> NoPromo]
    BY <1>4 DEF Restart
  <2>2. HotVouched'
    BY <2>1 DEF HotVouched
  <2>3. PromoVouched'
    BY <2>1 DEF PromoVouched, NoPromo
  <2>4. \A c \in Client : call'[c].at \notin Setting
    BY <2>1, Defaults DEF Setting
  <2>5. SetsOK'
    BY <2>1, <2>4, SetsKept DEF LifetimeInv
  <2> QED
    BY <2>1, <2>2, <2>3, <2>5, LifetimeUntouched DEF LifetimeInv
<1>5. CASE Tick
  <2>1. /\ UNCHANGED <<mem, cold, call, promo, written>> /\ now' = now + 1
        /\ \A s \in Slot : promo[s] # NoPromo => now < promo[s].read + MaxLag
    BY <1>5 DEF Tick
  <2>2. HotVouched' /\ ColdVouched'
    BY <2>1 DEF LifetimeInv, HotVouched, ColdVouched, InCold
  <2>3. PromoVouched'
    <3>1. ASSUME NEW s \in Slot, promo[s] # NoPromo PROVE now + 1 <= promo[s].read + MaxLag
      <4>1. promo[s].read \in Nat /\ now \in Nat /\ MaxLag \in Nat
        BY ConfigAssumption DEF TypeOK, Promotion
      <4> QED
        BY <2>1, <3>1, <4>1
    <3> QED
      BY <2>1, <3>1 DEF LifetimeInv, PromoVouched, NoPromo
  <2>4. SetsOK'
    <3>1. ASSUME NEW c \in Client PROVE SetOK(call[c], written, now + 1)
      <4>1. SetOK(call[c], written, now)
        BY DEF LifetimeInv, SetsOK
      <4>2. ASSUME call[c].at \in Setting, written[call[c].ver].due <= now + call[c].ttl
            PROVE  written[call[c].ver].due <= now + 1 + call[c].ttl
        <5>1. call[c] \in CallState /\ written[call[c].ver] \in WriteRecord
          BY <4>1, <4>2 DEF TypeOK, SetOK
        <5>2. now \in Nat /\ call[c].ttl \in Nat /\ written[call[c].ver].due \in Nat
          BY <5>1 DEF TypeOK, CallState, WriteRecord
        <5> QED
          BY <4>2, <5>2
      <4> QED
        BY <4>1, <4>2 DEF SetOK
    <3> QED
      BY <2>1, <3>1 DEF LifetimeInv, SetsOK
  <2> QED
    BY <2>2, <2>3, <2>4 DEF LifetimeInv
<1> QED
  BY <1>2, <1>3, <1>4, <1>5 DEF Cleanup

LEMMA LifetimeInvariance == Spec => [](TypeOK /\ LifetimeInv)
<1>1. Init => LifetimeInv
  <2> SUFFICES ASSUME Init PROVE LifetimeInv
    OBVIOUS
  <2>1. HotVouched
    BY DEF Init, HotVouched
  <2>2. ColdVouched
    BY DEF Init, ColdVouched, InCold, NoCold
  <2>3. PromoVouched
    BY DEF Init, PromoVouched
  <2>4. SetsOK
    <3>1. \A c \in Client : call[c].at \notin Setting
      BY Defaults DEF Init, Setting
    <3> QED
      BY <3>1 DEF SetsOK, SetOK
  <2> QED
    BY <2>1, <2>2, <2>3, <2>4 DEF LifetimeInv
<1>2. TypeOK /\ LifetimeInv /\ [Next]_vars => LifetimeInv'
  <2> SUFFICES ASSUME TypeOK, LifetimeInv, [Next]_vars PROVE LifetimeInv'
    OBVIOUS
  <2>1. ASSUME NEW c \in Client, Lookup(c) \/ Set(c) \/ Delete(c) \/ Clear(c) PROVE LifetimeInv'
    BY <2>1, LookupLifetime, SetHotLifetime, SetStampLifetime, SetColdLifetime, EraseLifetime
       DEF Set
  <2>2. ASSUME NEW s \in Slot, Promote(s) PROVE LifetimeInv'
    BY <2>2, PromoteLifetime
  <2> QED
    BY <2>1, <2>2, RestLifetime DEF Next
<1> QED
  BY <1>1, <1>2, TypeCorrect, PTL DEF Spec

(* How long an entry can be served: what Badger holds expires by the last  *)
(* expiry its Set computed, what memory holds at most MaxLag later, where  *)
(* MaxLag is how long a promotion can wait between reading the entry and   *)
(* adding it; and a key is only ever answered with a value written for it. *)
THEOREM EntriesDieInTime == Spec => []NeverServedPastItsLifetime
<1>1. TypeOK /\ LifetimeInv => NeverServedPastItsLifetime
  <2> SUFFICES ASSUME TypeOK, LifetimeInv PROVE NeverServedPastItsLifetime
    OBVIOUS
  <2>1. ASSUME NEW i \in DOMAIN mem
        PROVE  /\ mem[i].ver \in DOMAIN written
               /\ written[mem[i].ver].key = mem[i].key
               /\ mem[i].exp <= written[mem[i].ver].due + MaxLag
    <3>1. /\ mem[i].ver \in DOMAIN written /\ written[mem[i].ver].key = mem[i].key
          /\ mem[i].exp - MaxLag <= written[mem[i].ver].due
      BY DEF LifetimeInv, HotVouched, Vouched
    <3>2. mem[i].exp \in Int /\ MaxLag \in Nat /\ written[mem[i].ver].due \in Nat
      <4>1. mem[i] \in HotEntry /\ written[mem[i].ver] \in WriteRecord
        BY <3>1 DEF TypeOK, LruOK
      <4> QED
        BY <4>1, ConfigAssumption DEF HotEntry, WriteRecord
    <3> QED
      BY <3>1, <3>2
  <2> QED
    BY <2>1 DEF LifetimeInv, ColdVouched, Vouched, NeverServedPastItsLifetime
<1> QED
  BY <1>1, LifetimeInvariance, PTL

=============================================================================
