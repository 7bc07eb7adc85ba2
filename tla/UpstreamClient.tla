--------------------------- MODULE UpstreamClient ---------------------------
(***************************************************************************)
(* The shared HTTP client of internal/client/client.go: calls from many    *)
(* route handlers, a token bucket per host, and the retry loop of          *)
(* doRequestWithRetry.                                                     *)
(*                                                                         *)
(* Tokens are counted in the time a bucket takes to earn them: a bucket    *)
(* gains one unit per tick, a request costs `Cost' units (1/rate seconds)  *)
(* and a full bucket holds `Burst' units (capacity/rate seconds).          *)
(*                                                                         *)
(* Left out: redirects, which are sent without a token; a Retry-After of   *)
(* more seconds than a time.Duration holds; and a limiter that             *)
(* WithRateLimit gives no capacity at all, for which every call would wait *)
(* until its context ends.                                                 *)
(***************************************************************************)
EXTENDS Integers, Sequences, FiniteSets

CONSTANTS
  Call,         \* the calls of Get, Post, ... made to the client
  Host,         \* upstream hosts
  Configured,   \* the hosts given a limiter by WithRateLimit
  Cost, Burst,  \* see above
  MaxRetries, BaseDelay, MaxDelay,   \* the client's retry configuration
  RetryAfter,   \* the Retry-After headers of the answers, see Header
  IdleUntil     \* bound: up to here time also passes when nobody waits

(* How long a server asks to be left alone (0: it does not, there is no    *)
(* such header), and whether it says so in seconds or by an HTTP date.     *)
Header == [asks : Nat, seconds : BOOLEAN]

ASSUME ClientAssumption ==
  /\ Host # {} /\ Configured \subseteq Host
  /\ Cost \in Nat \ {0} /\ Burst \in Nat /\ Burst >= Cost
  /\ MaxRetries \in Nat /\ BaseDelay \in Nat /\ MaxDelay \in Nat
  /\ RetryAfter \subseteq Header /\ IdleUntil \in Nat

VARIABLES
  now,       \* the clock
  made,      \* per host every limiter made for it; `grants' is history
  table,     \* rateLimiters: which of them getRateLimiter finds, 0: none
  call,      \* per call where it is
  sent,      \* history: when each call's requests were sent
  earliest   \* history: before when the answer because of which a call is
             \* tried again asked not to be, and whether in seconds

vars == <<now, made, table, call, sent, earliest>>

-----------------------------------------------------------------------------
Bucket    == [tokens : Nat, last : Nat, grants : Seq(Nat)]
Steps     == {"idle", "limit", "make", "wait", "sleep", "send", "backoff", "done"}
Asked     == [at : Nat, seconds : BOOLEAN]
CallState == [at : Steps, host : Host, again : BOOLEAN, attempt : Nat,
              delay : Nat, wake : Nat, lim : Nat]

Least(a, b) == IF a < b THEN a ELSE b

Full(t)   == [tokens |-> Burst, last |-> t, grants |-> <<>>]
NotAsked  == [at |-> 0, seconds |-> TRUE]
NotCalled == [at |-> "idle", host |-> CHOOSE h \in Host : TRUE, again |-> FALSE,
              attempt |-> 0, delay |-> BaseDelay, wake |-> 0, lim |-> 0]

Init ==
  /\ now = 0
  /\ made = [h \in Host |-> IF h \in Configured THEN <<Full(0)>> ELSE <<>>]
  /\ table = [h \in Host |-> IF h \in Configured THEN 1 ELSE 0]
  /\ call = [c \in Call |-> NotCalled]
  /\ sent = [c \in Call |-> <<>>]
  /\ earliest = [c \in Call |-> NotAsked]

Goto(c, at) == call' = [call EXCEPT ![c].at = at]

(* `again': the method is idempotent and the body can be replayed.         *)
Begin(c, h, again) ==
  /\ call[c].at = "idle"
  /\ call' = [call EXCEPT ![c] = [NotCalled EXCEPT !.at = "limit", !.host = h, !.again = again]]
  /\ UNCHANGED <<now, made, table, sent, earliest>>

-----------------------------------------------------------------------------
(* mutant: the result of Load is used without looking at its ok *)
FindLimiter_Unchecked(c) ==
  /\ call[c].at = "limit"
  /\ call' = [call EXCEPT ![c].at = "wait", ![c].lim = table[call[c].host]]
  /\ UNCHANGED <<now, made, table, sent, earliest>>

(* getRateLimiter: a Load ...                                              *)
FindLimiter(c) ==
  /\ call[c].at = "limit"
  /\ table[call[c].host] # 0
  /\ call' = [call EXCEPT ![c].at = "wait", ![c].lim = table[call[c].host]]
  /\ UNCHANGED <<now, made, table, sent, earliest>>

(* mutant: the Load is forgotten *)
MissLimiter_Always(c) ==
  /\ call[c].at = "limit"
  /\ Goto(c, "make")
  /\ UNCHANGED <<now, made, table, sent, earliest>>

MissLimiter(c) ==
  /\ call[c].at = "limit"
  /\ table[call[c].host] = 0
  /\ Goto(c, "make")
  /\ UNCHANGED <<now, made, table, sent, earliest>>

(* ... and a Store that does not look whether another call was faster.     *)
MakeLimiter(c) ==
  LET h == call[c].host IN
  /\ call[c].at = "make"
  /\ made' = [made EXCEPT ![h] = Append(@, Full(now))]
  /\ table' = [table EXCEPT ![h] = Len(made[h]) + 1]
  /\ call' = [call EXCEPT ![c].at = "wait", ![c].lim = Len(made[h]) + 1]
  /\ UNCHANGED <<now, sent, earliest>>

-----------------------------------------------------------------------------
(* rateLimiter.Wait: one pass of the loop under rl.mu.                     *)

BucketOf(c) == made[call[c].host][call[c].lim]

(* mutant: the bucket has no capacity *)
Refilled_Uncapped(b) == b.tokens + (now - b.last)
Refilled(b) == Least(b.tokens + (now - b.last), Burst)

TakeToken(c) ==
  LET b == BucketOf(c) IN
  /\ call[c].at = "wait"
  /\ Refilled(b) >= Cost
  /\ made' = [made EXCEPT ![call[c].host][call[c].lim] =
       [tokens |-> Refilled(b) - Cost, last |-> now, grants |-> Append(b.grants, now)]]
  /\ sent' = [sent EXCEPT ![c] = Append(@, now)]
  /\ Goto(c, "send")
  /\ UNCHANGED <<now, table, earliest>>

(* Sleep for the missing units and one tick more (the extra millisecond).  *)
NoToken(c) ==
  LET b == BucketOf(c) IN
  /\ call[c].at = "wait"
  /\ Refilled(b) < Cost
  /\ made' = [made EXCEPT ![call[c].host][call[c].lim] =
       [tokens |-> Refilled(b), last |-> now, grants |-> b.grants]]
  /\ call' = [call EXCEPT ![c].at = "sleep", ![c].wake = now + (Cost - Refilled(b)) + 1]
  /\ UNCHANGED <<now, table, sent, earliest>>

(* mutant: the timer is stopped before it is waited for *)
WakeUp_TimerStopped(c) == call[c].at = "sleep" /\ FALSE /\ UNCHANGED vars

WakeUp(c) ==
  /\ call[c].at = "sleep"
  /\ now >= call[c].wake
  /\ Goto(c, "wait")
  /\ UNCHANGED <<now, made, table, sent, earliest>>

-----------------------------------------------------------------------------
(* doRequestWithRetry around it.                                           *)

(* The context is done: the two selects return its error.                  *)
Cancelled(c) ==
  /\ call[c].at \in {"sleep", "backoff"}
  /\ Goto(c, "done")
  /\ UNCHANGED <<now, made, table, sent, earliest>>

(* 200 with a readable body, or a status that is not retried.              *)
Answered(c) ==
  /\ call[c].at = "send"
  /\ Goto(c, "done")
  /\ UNCHANGED <<now, made, table, sent, earliest>>

(* mutant: the method is not looked at *)
MaxAttempts_AnyMethod(c) == MaxRetries + 1
MaxAttempts(c) == IF call[c].again THEN MaxRetries + 1 ELSE 1

(* mutant: Retry-After is not looked at *)
NextDelay_OwnOnly(d, ra) == Least(2 * d, MaxDelay)

(* A Retry-After that Atoi reads replaces the delay, which is then doubled *)
(* and capped; an HTTP date is no number and changes nothing.              *)
NextDelay(d, ra) ==
  Least(2 * (IF ra.seconds /\ ra.asks > 0 THEN ra.asks ELSE d), MaxDelay)

(* A transport error or an unreadable body (no header), or a status that   *)
(* is retried, with or without a header.                                   *)
FailedAttempt(c, ra) ==
  LET w == call[c]
      again == w.attempt + 1 < MaxAttempts(c) IN
  /\ w.at = "send"
  /\ call' = [call EXCEPT
       ![c].at = IF again THEN "backoff" ELSE "done",
       ![c].attempt = @ + 1,
       ![c].delay = NextDelay(w.delay, ra),
       ![c].wake = now + NextDelay(w.delay, ra)]
  /\ earliest' = [earliest EXCEPT ![c] =
       IF again THEN [at |-> now + ra.asks, seconds |-> ra.seconds] ELSE NotAsked]
  /\ UNCHANGED <<now, made, table, sent>>

Retry(c) ==
  /\ call[c].at = "backoff"
  /\ now >= call[c].wake
  /\ Goto(c, "limit")
  /\ UNCHANGED <<now, made, table, sent, earliest>>

(* Time passes for those who sleep; and freely at the beginning.           *)
Asleep(c) == call[c].at \in {"sleep", "backoff"} /\ now < call[c].wake
Tick ==
  /\ now < IdleUntil \/ \E c \in Call : Asleep(c)
  /\ now' = now + 1
  /\ UNCHANGED <<made, table, call, sent, earliest>>

-----------------------------------------------------------------------------
Proceed(c) ==
  \/ FindLimiter(c) \/ MissLimiter(c) \/ MakeLimiter(c)
  \/ TakeToken(c) \/ NoToken(c) \/ WakeUp(c)
  \/ Answered(c) \/ \E ra \in RetryAfter : FailedAttempt(c, ra)
  \/ Retry(c)

Finished == /\ \A c \in Call : call[c].at = "done"
            /\ now >= IdleUntil
            /\ UNCHANGED vars

Next ==
  \/ \E c \in Call : \/ \E h \in Host, again \in BOOLEAN : Begin(c, h, again)
                     \/ Proceed(c) \/ Cancelled(c)
  \/ Tick
  \/ Finished

Spec == Init /\ [][Next]_vars

(* Goroutines run, http.Client.Timeout ends every request, timers fire.    *)
FairSpec == Spec /\ WF_vars(Tick) /\ \A c \in Call : WF_vars(Proceed(c))

-----------------------------------------------------------------------------
(* Properties.                                                             *)

TypeOK ==
  /\ now \in Nat
  /\ made \in [Host -> Seq(Bucket)]
  /\ table \in [Host -> Nat]
  /\ \A h \in Host : table[h] \in 0 .. Len(made[h])
  /\ call \in [Call -> CallState]
  /\ \A c \in Call : call[c].at = "wait" => call[c].lim \in DOMAIN made[call[c].host]
  /\ sent \in [Call -> Seq(Nat)]
  /\ earliest \in [Call -> Asked]

(* Whatever calls interleave in Wait, a limiter grants in no interval of   *)
(* any length more than a full bucket and what it earned in the interval.  *)
WithinBurst ==
  \A h \in Host : \A l \in DOMAIN made[h] :
    LET g == made[h][l].grants IN
    \A i, j \in DOMAIN g : i <= j => (j - i + 1) * Cost <= Burst + (g[j] - g[i])

(* All that was sent to a host, through whichever limiter, and the same    *)
(* bound for the host.                                                     *)
SentTo(h) == UNION {{<<l, i, made[h][l].grants[i]>> : i \in DOMAIN made[h][l].grants} :
                      l \in DOMAIN made[h]}
KeepsRate(h) ==
  \A s, t \in {g[3] : g \in SentTo(h)} :
    s <= t => Cardinality({g \in SentTo(h) : s <= g[3] /\ g[3] <= t}) * Cost <= Burst + (t - s)

(* A host configured before the client is used keeps its one limiter: the  *)
(* bound holds for everything all calls and all their retries send to it.  *)
ConfiguredHostKeepsRate == \A h \in Configured : KeepsRate(h)

Delays == {MaxDelay, BaseDelay} \cup {ra.asks : ra \in {x \in RetryAfter : x.seconds /\ x.asks > 0}}

(* A request that must not be repeated is sent at most once, any other at  *)
(* most MaxRetries + 1 times, and two sends are never closer than the      *)
(* smallest delay the configuration and the servers ask for.               *)
RetriesAreBoundedAndSpaced ==
  \A c \in Call :
    /\ Len(sent[c]) <= (IF call[c].again THEN MaxRetries + 1 ELSE 1)
    /\ \A i \in DOMAIN sent[c] : i > 1 =>
         \E d \in Delays : sent[c][i] - sent[c][i - 1] >= d

(* A retry is not sent before the time that a Retry-After in seconds gave, *)
(* unless that is further from the last attempt than the cap on delays.    *)
(* Of one that gives a date nothing can be said: the client ignores it.    *)
AskedFor(a) == IF a.seconds THEN a.at ELSE 0
RetryAfterHoldsUpToTheCap ==
  \A c \in Call : LET n == Len(sent[c]) IN
    call[c].at = "send" /\ n > 1 =>
      sent[c][n] >= Least(AskedFor(earliest[c]), sent[c][n - 1] + MaxDelay)

(* Every call ends, although all wait for the same tokens.                 *)
CallsEnd == \A c \in Call : call[c].at # "idle" ~> call[c].at = "done"

-----------------------------------------------------------------------------
(* What comments and documents say, and the code does not do.              *)

(* client.go:95 "Default: 10 requests per second with burst of 10", for    *)
(* "the given host" (client.go:90)                                         *)
DefaultHostKeepsRate == \A h \in Host : KeepsRate(h)
=============================================================================
