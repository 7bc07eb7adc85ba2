--------------------------- MODULE CacheContract ---------------------------
(***************************************************************************)
(* What a caller of the two-tier cache may rely on, without the tiers,     *)
(* locks, goroutines and restarts that provide it.  A lookup may always    *)
(* miss; when it answers, the answer is a value that was Set for that very *)
(* key and whose lifetime has not been over for longer than MaxLag; and    *)
(* unless the key is disturbed it is the value of the latest Set.  Only a  *)
(* new Set or Delete of the key can make a disturbed key trustworthy again.*)
(***************************************************************************)
EXTENDS Integers, Sequences

CONSTANTS Key, Client, TTL, MaxLag, Reason

VARIABLES
  now,        \* the wall clock
  written,    \* every Set so far: its key and its latest promised expiry
  latest,     \* per key the Set whose value it should have, 0 after a Delete
  disturbed,  \* per key why lookups may be answered by an older Set
  answer      \* per client the outcome of its last lookup, version 0: a miss

contractVars == <<now, written, latest, disturbed, answer>>

Misses(k) == [ver |-> 0, key |-> k, time |-> 0]
Silent    == Misses(CHOOSE k \in Key : TRUE)

Mistrust == [Key -> SUBSET Reason]

Init ==
  /\ now = 0 /\ written = <<>>
  /\ latest = [k \in Key |-> 0]
  /\ disturbed = [k \in Key |-> {}]
  /\ answer = [c \in Client |-> Silent]

(* Reasons may be added at any time, and are forgotten by a write of k. *)
MistrustGrows(K) ==
  /\ disturbed' \in Mistrust
  /\ \A k \in Key \ K : disturbed[k] \subseteq disturbed'[k]

Hush(c) == answer' = [answer EXCEPT ![c] = Silent]

Set(c, k, ttl) ==
  /\ written' = Append(written, [key |-> k, due |-> now + ttl])
  /\ latest' = [latest EXCEPT ![k] = Len(written) + 1]
  /\ MistrustGrows({k})
  /\ Hush(c)
  /\ UNCHANGED now

(* A Set in progress reads the clock again and promises a later expiry. *)
Prolong(v, ttl) ==
  /\ written[v].due <= now + ttl
  /\ written' = [written EXCEPT ![v].due = now + ttl]
  /\ UNCHANGED <<now, latest, disturbed, answer>>

Delete(c, k) ==
  /\ latest' = [latest EXCEPT ![k] = 0]
  /\ MistrustGrows({k})
  /\ Hush(c)
  /\ UNCHANGED <<now, written>>

Clear(c) ==
  /\ latest' = [k \in Key |-> 0]
  /\ MistrustGrows(Key)
  /\ \A k \in Key : disturbed'[k] # {}
  /\ Hush(c)
  /\ UNCHANGED <<now, written>>

Trustworthy(k, v) ==
  /\ v \in DOMAIN written
  /\ written[v].key = k
  /\ now <= written[v].due + MaxLag
  /\ disturbed[k] = {} => v = latest[k]

Respond(c, k, v) ==
  /\ Trustworthy(k, v)
  /\ answer' = [answer EXCEPT ![c] = [ver |-> v, key |-> k, time |-> now]]
  /\ UNCHANGED <<now, written, latest, disturbed>>

(* A lookup that starts, misses or is cut off by a restart. *)
Miss ==
  /\ \A c \in Client : answer'[c] \in {answer[c], Silent}
  /\ DOMAIN answer' = Client
  /\ MistrustGrows({})
  /\ UNCHANGED <<now, written, latest>>

Tick ==
  /\ now' = now + 1
  /\ UNCHANGED <<written, latest, disturbed, answer>>

Next ==
  \/ \E c \in Client, k \in Key, ttl \in TTL : Set(c, k, ttl)
  \/ \E v \in DOMAIN written, ttl \in TTL : Prolong(v, ttl)
  \/ \E c \in Client, k \in Key : Delete(c, k)
  \/ \E c \in Client : Clear(c)
  \/ \E c \in Client, k \in Key, v \in DOMAIN written : Respond(c, k, v)
  \/ Miss \/ Tick

Spec == Init /\ [][Next]_contractVars
=============================================================================
