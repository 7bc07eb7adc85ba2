------------------------------ MODULE RouteCache ------------------------------
(***************************************************************************)
(* Values that routes keep in the cache themselves: Context.CacheTryGet,   *)
(* and the same sequence in MemoryCache.TryGet and routeutils/cache.go -   *)
(* look up, compute on a miss, store.  The routes that use it keep tokens  *)
(* of a site (bilibili's signing keys for six hours, its visitor ids for   *)
(* twenty-four), which the site replaces when it likes; nothing drops an   *)
(* entry that the site has refused.                                        *)
(*                                                                         *)
(* A token is the number of the site's key it was read from, 0 an empty    *)
(* one.  The cache may forget anything at any time (eviction, restart, and *)
(* gob cannot encode these values, so Badger never has them).              *)
(***************************************************************************)
EXTENDS Integers, Sequences

CONSTANTS
  Caller,       \* requests to routes that need a token
  Token,        \* the names they keep tokens under
  Checked,      \* tokens whose route rejects an empty one before storing it
  TokenTTL,     \* how long they are kept
  MaxWork,      \* bound: time between two steps of a request
  MaxNow,       \* bound: the clock stops here
  MaxKeys       \* bound: how often the site replaces a key

ASSUME TokenAssumption ==
  /\ Token # {} /\ Checked \subseteq Token
  /\ TokenTTL \in Nat /\ MaxWork \in Nat /\ MaxNow \in Nat /\ MaxKeys \in Nat

VARIABLES
  now,      \* the clock
  since,    \* per token: when each of the site's keys came into force
  entry,    \* per token: what the cache holds, or NoEntry
  try       \* per request: the token it is after and how far it is

tokenVars == <<now, since, entry, try>>

NoEntry == [ver |-> -1, exp |-> 0]
NoTry   == [at |-> "idle", token |-> CHOOSE k \in Token : TRUE, ver |-> 0, time |-> 0]
Current(k) == Len(since[k])

TokenInit ==
  /\ now = 0
  /\ since = [k \in Token |-> <<0>>]
  /\ entry = [k \in Token |-> NoEntry]
  /\ try = [r \in Caller |-> NoTry]

Cached(k) == entry[k] # NoEntry /\ now <= entry[k].exp

Goes(r, step, ver) ==
  try' = [try EXCEPT ![r] = [at |-> step, token |-> @.token, ver |-> ver, time |-> now]]

(* mutant: a hit renews the entry *)
TokenHit_Sliding(r, k) ==
  /\ try[r].at = "idle" /\ Cached(k)
  /\ try' = [try EXCEPT ![r] = [at |-> "have", token |-> k, ver |-> entry[k].ver, time |-> now]]
  /\ entry' = [entry EXCEPT ![k].exp = now + TokenTTL]
  /\ UNCHANGED <<now, since>>

TokenHit(r, k) ==
  /\ try[r].at = "idle"
  /\ Cached(k)
  /\ try' = [try EXCEPT ![r] = [at |-> "have", token |-> k, ver |-> entry[k].ver, time |-> now]]
  /\ UNCHANGED <<now, since, entry>>

TokenMiss(r, k) ==
  /\ try[r].at = "idle"
  /\ try' = [try EXCEPT ![r] = [at |-> "compute", token |-> k, ver |-> 0, time |-> now]]
  /\ UNCHANGED <<now, since, entry>>

(* fn(): the site answers with the key in force *)
TokenRead(r) ==
  /\ try[r].at = "compute"
  /\ Goes(r, "keep", Current(try[r].token))
  /\ UNCHANGED <<now, since, entry>>

(* mutant: an empty answer is stored whoever asked *)
TokenEmpty_Unchecked(r) ==
  /\ try[r].at = "compute"
  /\ Goes(r, "keep", 0)
  /\ UNCHANGED <<now, since, entry>>

(* fn(): an answer without a token, an error only for the routes that look *)
TokenEmpty(r) ==
  /\ try[r].at = "compute"
  /\ Goes(r, IF try[r].token \in Checked THEN "failed" ELSE "keep", 0)
  /\ UNCHANGED <<now, since, entry>>

(* fn() fails: nothing is stored *)
TokenFails(r) ==
  /\ try[r].at = "compute"
  /\ Goes(r, "failed", try[r].ver)
  /\ UNCHANGED <<now, since, entry>>

(* cache.Set, whatever another request has stored in the meantime *)
TokenKeep(r) ==
  /\ try[r].at = "keep"
  /\ entry' = [entry EXCEPT ![try[r].token] = [ver |-> try[r].ver, exp |-> now + TokenTTL]]
  /\ Goes(r, "have", try[r].ver)
  /\ UNCHANGED <<now, since>>

(* The route rejects an empty token, the site one it has replaced.         *)
TokenUsed(r) ==
  /\ try[r].at = "have"
  /\ Goes(r, CASE try[r].ver = 0                     -> "failed"
               [] try[r].ver = Current(try[r].token) -> "accepted"
               [] OTHER                              -> "refused", try[r].ver)
  /\ UNCHANGED <<now, since, entry>>

(* The site puts another key in force. *)
SiteReplaces(k) ==
  /\ Current(k) <= MaxKeys
  /\ since' = [since EXCEPT ![k] = Append(@, now)]
  /\ UNCHANGED <<now, entry, try>>

(* Between the steps of a request MaxWork passes at most. *)
TokenTick ==
  /\ now < MaxNow
  /\ \A r \in Caller : try[r].at \in {"keep", "have"} => now < try[r].time + MaxWork
  /\ now' = now + 1
  /\ UNCHANGED <<since, entry, try>>

TokenNext ==
  \/ \E r \in Caller :
       \/ \E k \in Token : TokenHit(r, k) \/ TokenMiss(r, k)
       \/ TokenRead(r) \/ TokenEmpty(r) \/ TokenFails(r) \/ TokenKeep(r) \/ TokenUsed(r)
  \/ \E k \in Token : SiteReplaces(k)
  \/ TokenTick

TokenSpec == TokenInit /\ [][TokenNext]_tokenVars

-----------------------------------------------------------------------------
(* Properties.                                                             *)

TrySteps == {"idle", "compute", "keep", "have", "failed", "accepted", "refused"}

TokensOK ==
  /\ now \in 0 .. MaxNow
  /\ since \in [Token -> Seq(Nat)] /\ \A k \in Token : Len(since[k]) <= MaxKeys + 1
  /\ entry \in [Token -> [ver : 0 .. MaxKeys + 1, exp : Nat] \cup {NoEntry}]
  /\ try \in [Caller -> [at : TrySteps, token : Token, ver : 0 .. MaxKeys + 1, time : Nat]]

(* A request that a site refuses for its token does so within the entry's  *)
(* lifetime and two steps of the key's replacement: a slow request may     *)
(* store an older token over a newer one, but no sequence of hits, misses  *)
(* and late stores keeps an outdated token alive any longer.               *)
OutdatedTokensDie ==
  \A r \in Caller :
    try[r].at = "refused" =>
      try[r].time <= since[try[r].token][try[r].ver + 1] + TokenTTL + 2 * MaxWork

(* A route that checks for an empty token before it returns it to          *)
(* CacheTryGet never finds one in the cache, whoever stored it.            *)
CheckedTokensAreUsable ==
  \A k \in Checked : entry[k] # NoEntry => entry[k].ver \in DOMAIN since[k]
=============================================================================
