------------------------------ MODULE HotTier ------------------------------
(***************************************************************************)
(* The in-memory LRU of pkg/cache/cache.go as a data structure: what one   *)
(* critical section of MemoryCache does to the list of entries.  `mem' is  *)
(* the recency list of hashicorp/golang-lru, most recently used first.     *)
(* BadgerCache, which owns a MemoryCache, extends this module.             *)
(* Each operator below is the body of one locked section: a caller that    *)
(* runs two of them (look up, then drop) makes two steps of it.            *)
(***************************************************************************)
EXTENDS Integers, Sequences

CONSTANTS
  Key,       \* the cache keys (request paths, helper keys)
  Capacity   \* MemoryEntries: how many entries the LRU holds

ASSUME CapacityAssumption == Capacity \in Nat \ {0}

VARIABLES
  mem,       \* the LRU: entries, most recently used first
  now        \* the wall clock

(* One entry: which write it came from and until when it may be served. *)
HotEntry == [key : Key, ver : Nat, exp : Int]

(* Entries are kept in a list with at most one entry per key. *)
Cached(k) == \E i \in DOMAIN mem : mem[i].key = k
SlotOf(k) == CHOOSE i \in DOMAIN mem : mem[i].key = k
HotOf(k)  == mem[SlotOf(k)]

(* time.Now().After(exp): an entry is still served at the instant exp. *)
HotFresh(k)   == Cached(k) /\ HotOf(k).exp >= now
HotExpired(k) == Cached(k) /\ HotOf(k).exp < now

(* The list without k's entry. *)
Others(k) ==
  IF Cached(k)
  THEN [i \in 1 .. Len(mem) - 1 |-> IF i < SlotOf(k) THEN mem[i] ELSE mem[i + 1]]
  ELSE mem

(* The first Capacity entries of a list: what Add leaves after evicting. *)
Kept(s) == [i \in 1 .. (IF Len(s) < Capacity THEN Len(s) ELSE Capacity) |-> s[i]]

(* mutant: Add does not look for an older entry of the key *)
HotAdd_Duplicate(k, ver, exp) ==
  mem' = Kept(<<[key |-> k, ver |-> ver, exp |-> exp]>> \o mem)

(* lru.Add: the entry becomes the most recent one; the oldest is evicted. *)
HotAdd(k, ver, exp) ==
  mem' = Kept(<<[key |-> k, ver |-> ver, exp |-> exp]>> \o Others(k))

(* lru.Get on a present key, expired or not: it becomes the most recent. *)
HotTouch(k) == mem' = <<HotOf(k)>> \o Others(k)

(* lru.Remove *)
HotDrop(k) == mem' = Others(k)

(* lru.Purge *)
HotPurge == mem' = <<>>

(* What the list is between two sections: at most one entry per key and no *)
(* more entries than the capacity.                                         *)
LruOK ==
  /\ mem \in Seq(HotEntry)
  /\ Len(mem) <= Capacity
  /\ \A i, j \in DOMAIN mem : mem[i].key = mem[j].key => i = j
=============================================================================
