------------------------ MODULE UpstreamClientProofs ------------------------
(***************************************************************************)
(* Theorems about UpstreamClient for all calls, hosts, rates, retry        *)
(* configurations and Retry-After headers.                                 *)
(***************************************************************************)
EXTENDS UpstreamClient, FiniteSetTheorems, WellFoundedInduction, TLAPS

(* What one limiter's history satisfies: since its i-th grant it has spent *)
(* no more than a full bucket and what it earned, the tokens left included.*)
Conserves(b) ==
  /\ b.tokens <= Burst
  /\ \A i \in DOMAIN b.grants :
       /\ b.grants[i] <= b.last
       /\ (Len(b.grants) - i + 1) * Cost + b.tokens <= Burst + (b.last - b.grants[i])
  /\ \A i, j \in DOMAIN b.grants : i <= j =>
       /\ b.grants[i] <= b.grants[j]
       /\ (j - i + 1) * Cost <= Burst + (b.grants[j] - b.grants[i])

LimitersConserve ==
  \A h \in Host : \A l \in DOMAIN made[h] : Conserves(made[h][l]) /\ made[h][l].last <= now

(* The limiter a call is waiting at exists.                                *)
LimitersExist ==
  \A c \in Call : call[c].at \in {"wait", "sleep"} => call[c].lim \in DOMAIN made[call[c].host]

(* A configured host never gets a second limiter.                          *)
OneLimiter ==
  /\ \A h \in Configured : Len(made[h]) = 1 /\ table[h] = 1
  /\ \A c \in Call : call[c].at = "make" => call[c].host \notin Configured

(* A call in state w that sent its requests at the times s, at time t: how *)
(* many it has sent, and how far the next one is from the last.            *)
Allowed(w) == IF w.again THEN MaxRetries + 1 ELSE 1
Due(s, t)  == s = <<>> \/ \E d \in Delays : t - s[Len(s)] >= d
Progress(w, s, t) ==
  /\ w.at = "idle" => s = <<>>
  /\ w.at \in {"limit", "make", "wait", "sleep"} =>
       Len(s) = w.attempt /\ w.attempt < Allowed(w) /\ Due(s, t)
  /\ w.at = "send" =>
       Len(s) = w.attempt + 1 /\ w.attempt < Allowed(w) /\ s[Len(s)] <= t
  /\ w.at = "backoff" => Len(s) = w.attempt /\ w.attempt < Allowed(w) /\ Due(s, w.wake)
  /\ w.at = "done" => Len(s) <= Allowed(w)
  /\ \E d \in Delays : w.delay >= d
  /\ \A i \in DOMAIN s : i > 1 => \E d \in Delays : s[i] - s[i - 1] >= d

CallsProgress == \A c \in Call : Progress(call[c], sent[c], now)

(* The inductive invariant. *)
ClientInv ==
  /\ TypeOK
  /\ LimitersConserve /\ LimitersExist /\ OneLimiter
  /\ CallsProgress

-----------------------------------------------------------------------------
(* Limiters. *)

LEMMA Defaults ==
  /\ NotCalled \in CallState /\ NotCalled.at = "idle"
  /\ \A t \in Nat : Full(t) \in Bucket /\ Full(t).last = t /\ Conserves(Full(t))
  /\ NotAsked \in Asked
BY ClientAssumption DEF NotCalled, NotAsked, Asked, CallState, Steps, Full, Bucket, Conserves

(* One more grant costs one request more. *)
LEMMA Distribute ==
  ASSUME NEW a \in Int
  PROVE  a * Cost \in Int /\ (a + 1) * Cost = a * Cost + Cost
BY ClientAssumption

LEMMA Later == ASSUME NEW g \in Nat, NEW last \in Nat, NEW t \in Nat, g <= last, last <= t PROVE g <= t
OBVIOUS

LEMMA Earned ==
  ASSUME NEW x \in Int, NEW tokens \in Nat, NEW full \in Nat, NEW last \in Nat,
         NEW g \in Nat, NEW t \in Nat,
         x + tokens <= Burst + (last - g), full <= tokens + (t - last)
  PROVE  x + full <= Burst + (t - g)
BY ClientAssumption

LEMMA OneMore ==
  ASSUME NEW x \in Int, NEW y \in Int, NEW tokens \in Nat, NEW full \in Nat, NEW last \in Nat,
         NEW g \in Nat, NEW t \in Nat, y = x + Cost,
         x + tokens <= Burst + (last - g), full <= tokens + (t - last)
  PROVE  y + (full - Cost) <= Burst + (t - g)
BY ClientAssumption

LEMMA NewGrant ==
  ASSUME NEW full \in Nat, NEW t \in Nat, full <= Burst
  PROVE  Cost + (full - Cost) <= Burst + (t - t) /\ t <= t
BY ClientAssumption

(* A pass of Wait first refills the bucket: *)
LEMMA RefilledTyped ==
  ASSUME NEW b \in Bucket, now \in Nat, b.last <= now
  PROVE  /\ Refilled(b) \in Nat /\ Refilled(b) <= Burst
         /\ Refilled(b) <= b.tokens + (now - b.last)
BY ClientAssumption DEF Bucket, Refilled, Least

(* ... then it finds too little, *)
LEMMA RefillConserves ==
  ASSUME NEW b \in Bucket, Conserves(b), now \in Nat, b.last <= now
  PROVE  LET n == [tokens |-> Refilled(b), last |-> now, grants |-> b.grants]
         IN  n \in Bucket /\ n.last = now /\ Conserves(n)
<1> DEFINE n == [tokens |-> Refilled(b), last |-> now, grants |-> b.grants]
<1>1. n \in Bucket /\ n.tokens = Refilled(b) /\ n.last = now /\ n.grants = b.grants
  BY RefilledTyped DEF Bucket
<1>2. b.grants \in Seq(Nat) /\ b.last \in Nat /\ b.tokens \in Nat
  BY DEF Bucket
<1>3. ASSUME NEW i \in DOMAIN b.grants
      PROVE  /\ b.grants[i] <= now
             /\ (Len(b.grants) - i + 1) * Cost + Refilled(b) <= Burst + (now - b.grants[i])
  <2>1. b.grants[i] \in Nat /\ (Len(b.grants) - i + 1) * Cost \in Int
    <3>1. b.grants[i] \in Nat /\ Len(b.grants) - i + 1 \in Int
      BY <1>2
    <3> QED
      BY <3>1, Distribute, Zenon
  <2>2. /\ b.grants[i] <= b.last
        /\ (Len(b.grants) - i + 1) * Cost + b.tokens <= Burst + (b.last - b.grants[i])
    BY DEF Conserves
  <2>3. Refilled(b) \in Nat /\ Refilled(b) <= b.tokens + (now - b.last)
    BY RefilledTyped
  <2>4. b.grants[i] <= now
    BY <1>2, <2>1, <2>2, Later
  <2>5. (Len(b.grants) - i + 1) * Cost + Refilled(b) <= Burst + (now - b.grants[i])
    BY <1>2, <2>1, <2>2, <2>3, Earned
  <2> QED
    BY <2>4, <2>5
<1> QED
  BY <1>1, <1>3, RefilledTyped DEF Conserves

(* ... or spends the cost of one request.                                  *)
LEMMA GrantConserves ==
  ASSUME NEW b \in Bucket, Conserves(b), now \in Nat, b.last <= now, Refilled(b) >= Cost
  PROVE  LET n == [tokens |-> Refilled(b) - Cost, last |-> now, grants |-> Append(b.grants, now)]
         IN  n \in Bucket /\ n.last = now /\ Conserves(n)
<1> DEFINE g == b.grants
           m == Append(g, now)
           n == [tokens |-> Refilled(b) - Cost, last |-> now, grants |-> m]
<1>1. /\ g \in Seq(Nat) /\ m \in Seq(Nat) /\ Len(m) = Len(g) + 1 /\ Len(g) \in Nat
      /\ m[Len(g) + 1] = now /\ \A i \in DOMAIN g : m[i] = g[i] /\ g[i] \in Nat
      /\ DOMAIN g = 1 .. Len(g) /\ DOMAIN m = 1 .. Len(g) + 1
  BY DEF Bucket
<1>2. /\ Refilled(b) \in Nat /\ Refilled(b) <= Burst
      /\ Refilled(b) <= b.tokens + (now - b.last)
      /\ Burst \in Nat /\ Cost \in Nat /\ b.tokens \in Nat /\ b.last \in Nat
  BY RefilledTyped, ClientAssumption DEF Bucket
<1>3. n \in Bucket
  <2>1. Refilled(b) - Cost \in Nat
    BY <1>2
  <2> QED
    BY <1>1, <2>1 DEF Bucket
<1>4. ASSUME NEW i \in DOMAIN m
      PROVE  /\ m[i] <= now
             /\ (Len(m) - i + 1) * Cost + (Refilled(b) - Cost) <= Burst + (now - m[i])
  <2>1. CASE i = Len(g) + 1
    <3>1. Len(m) - i + 1 = 1 /\ m[i] = now
      BY <1>1, <2>1
    <3>2. (Len(m) - i + 1) * Cost = Cost
      <4>1. 1 * Cost = Cost
        BY <1>2
      <4> QED
        BY <3>1, <4>1, Zenon
    <3>3. Cost + (Refilled(b) - Cost) <= Burst + (now - now) /\ now <= now
      BY <1>2, NewGrant, Zenon
    <3> HIDE DEF m
    <3> QED
      BY <3>1, <3>2, <3>3, Zenon
  <2>2. CASE i \in DOMAIN g
    <3>1. Len(g) - i + 1 \in Int /\ Len(m) - i + 1 = (Len(g) - i + 1) + 1
      <4>1. i \in 1 .. Len(g) /\ Len(g) \in Nat /\ Len(m) = Len(g) + 1
        BY <1>1, <2>2, Zenon
      <4> HIDE DEF g, m
      <4> QED
        BY <4>1
    <3>2. (Len(m) - i + 1) * Cost = (Len(g) - i + 1) * Cost + Cost
      BY <3>1, Distribute
    <3>3. (Len(g) - i + 1) * Cost \in Int
      BY <3>1, <1>2
    <3>4. /\ g[i] <= b.last
          /\ (Len(g) - i + 1) * Cost + b.tokens <= Burst + (b.last - g[i])
      BY <2>2 DEF Conserves
    <3>5. m[i] = g[i] /\ g[i] \in Nat
      BY <1>1, <2>2
    <3>6. g[i] <= now
      BY <1>2, <3>4, <3>5, Later
    <3>7. (Len(m) - i + 1) * Cost + (Refilled(b) - Cost) <= Burst + (now - g[i])
      <4> HIDE DEF g, m
      <4>1. (Len(m) - i + 1) * Cost \in Int
        BY <1>2, <3>2, <3>3
      <4> QED
        BY <1>2, <3>2, <3>3, <3>4, <3>5, <4>1, OneMore
    <3> QED
      BY <3>5, <3>6, <3>7
  <2> QED
    BY <1>1, <2>1, <2>2
<1>5. ASSUME NEW i \in DOMAIN m, NEW j \in DOMAIN m, i <= j
      PROVE  m[i] <= m[j] /\ (j - i + 1) * Cost <= Burst + (m[j] - m[i])
  <2>1. CASE j = Len(g) + 1
    <3>1. (Len(m) - i + 1) * Cost \in Int /\ m[j] = now /\ Len(m) = j /\ m[i] \in Nat
      <4>1. Len(m) - i + 1 \in Int /\ m[i] \in Nat
        BY <1>1
      <4> QED
        BY <1>1, <2>1, <4>1, Distribute
    <3>2. m[i] <= now /\ (j - i + 1) * Cost + (Refilled(b) - Cost) <= Burst + (now - m[i])
      BY <1>4, <3>1
    <3> HIDE DEF g, m
    <3> QED
      BY <1>2, <3>1, <3>2
  <2>2. CASE j # Len(g) + 1
    <3>1. i \in DOMAIN g /\ j \in DOMAIN g
      BY <1>1, <1>5, <2>2
    <3> QED
      BY <1>1, <1>5, <3>1 DEF Conserves
  <2> QED
    BY <2>1, <2>2
<1>6. n.tokens <= Burst
  BY <1>2
<1> QED
  BY <1>3, <1>4, <1>5, <1>6 DEF Conserves

-----------------------------------------------------------------------------
(* Calls. *)

LEMMA DelaysTyped == Delays \subseteq Nat /\ MaxDelay \in Delays /\ BaseDelay \in Delays
BY ClientAssumption DEF Delays, Header

(* What is due stays due. *)
LEMMA StillDue ==
  ASSUME NEW s \in Seq(Nat), NEW t \in Nat, NEW u \in Nat, t <= u, Due(s, t)
  PROVE  Due(s, u)
<1>1. CASE s = <<>>
  BY <1>1 DEF Due
<1>2. CASE s # <<>>
  <2>1. PICK d \in Delays : t - s[Len(s)] >= d
    BY <1>2 DEF Due
  <2>2. s[Len(s)] \in Nat /\ d \in Nat
    BY <1>2, DelaysTyped
  <2>3. u - s[Len(s)] >= d
    BY <2>1, <2>2
  <2> QED
    BY <2>3 DEF Due
<1> QED
  BY <1>1, <1>2

LEMMA StillProgress ==
  ASSUME NEW w \in CallState, NEW s \in Seq(Nat), NEW t \in Nat, NEW u \in Nat, t <= u,
         Progress(w, s, t)
  PROVE  Progress(w, s, u)
<1>1. ASSUME w.at = "send" PROVE s[Len(s)] <= u
  <2>1. Len(s) = w.attempt + 1 /\ s[Len(s)] <= t /\ w.attempt \in Nat
    BY <1>1 DEF Progress, CallState
  <2>2. s[Len(s)] \in Nat
    BY <2>1
  <2> QED
    BY <2>1, <2>2
<1>2. Due(s, t) => Due(s, u)
  BY StillDue
<1> QED
  BY <1>1, <1>2 DEF Progress

(* A step that moves one call and keeps the clock, the limiters in use and *)
(* the other calls.                                                        *)
LEMMA OneCall ==
  ASSUME ClientInv, NEW c \in Call, NEW w \in CallState, NEW s \in Seq(Nat),
         UNCHANGED now, Progress(w, s, now),
         call' = [call EXCEPT ![c] = w], sent' = [sent EXCEPT ![c] = s],
         w.at = "make" => w.host \notin Configured,
         \A h \in Host : DOMAIN made[h] \subseteq DOMAIN made'[h],
         w.at \in {"wait", "sleep"} => w.lim \in DOMAIN made'[w.host]
  PROVE  /\ call' \in [Call -> CallState] /\ sent' \in [Call -> Seq(Nat)]
         /\ CallsProgress' /\ LimitersExist'
         /\ \A x \in Call : call'[x].at = "make" => call'[x].host \notin Configured
<1>1. call \in [Call -> CallState] /\ sent \in [Call -> Seq(Nat)]
  BY DEF ClientInv, TypeOK
<1>2. \A x \in Call : /\ call'[x] = IF x = c THEN w ELSE call[x]
                      /\ sent'[x] = IF x = c THEN s ELSE sent[x]
  BY <1>1
<1>3. call' \in [Call -> CallState] /\ sent' \in [Call -> Seq(Nat)]
  BY <1>1
<1>4. ASSUME NEW x \in Call PROVE Progress(call'[x], sent'[x], now)
  BY <1>2 DEF ClientInv, CallsProgress
<1>5. ASSUME NEW x \in Call, call'[x].at \in {"wait", "sleep"}
      PROVE  call'[x].lim \in DOMAIN made'[call'[x].host]
  <2>1. CASE x = c
    BY <1>2, <1>5, <2>1
  <2>2. CASE x # c
    <3>1. call'[x] = call[x] /\ call[x].host \in Host
      BY <1>1, <1>2, <2>2 DEF CallState
    <3>2. call[x].lim \in DOMAIN made[call[x].host]
      BY <1>5, <3>1 DEF ClientInv, LimitersExist
    <3> QED
      BY <3>1, <3>2
  <2> QED
    BY <2>1, <2>2
<1>6. ASSUME NEW x \in Call, call'[x].at = "make" PROVE call'[x].host \notin Configured
  BY <1>2, <1>6 DEF ClientInv, OneLimiter
<1>7. CallsProgress'
  BY <1>4 DEF CallsProgress
<1>8. LimitersExist'
  BY <1>5 DEF LimitersExist
<1> QED
  BY <1>3, <1>6, <1>7, <1>8

(* ... and one that touches no limiter either.                             *)
LEMMA OneCallOnly ==
  ASSUME ClientInv, NEW c \in Call, NEW w \in CallState,
         UNCHANGED <<now, made, table, sent>>, Progress(w, sent[c], now),
         call' = [call EXCEPT ![c] = w], earliest' \in [Call -> Asked],
         w.at = "make" => w.host \notin Configured,
         w.at \in {"wait", "sleep"} => w.lim \in DOMAIN made[w.host]
  PROVE  ClientInv'
<1>1. sent[c] \in Seq(Nat) /\ sent' = [sent EXCEPT ![c] = sent[c]]
  BY DEF ClientInv, TypeOK
<1>2. /\ call' \in [Call -> CallState] /\ sent' \in [Call -> Seq(Nat)]
      /\ CallsProgress' /\ LimitersExist'
      /\ \A x \in Call : call'[x].at = "make" => call'[x].host \notin Configured
  BY <1>1, OneCall
<1>3. LimitersConserve' /\ OneLimiter'
  BY <1>2 DEF ClientInv, LimitersConserve, OneLimiter
<1>4. TypeOK'
  BY <1>2 DEF ClientInv, TypeOK, LimitersExist
<1> QED
  BY <1>2, <1>3, <1>4 DEF ClientInv

(* The record of a call that only moves on.                                *)
LEMMA Moved ==
  ASSUME ClientInv, NEW c \in Call, NEW at \in Steps
  PROVE  LET w == [call[c] EXCEPT !.at = at]
         IN  /\ call[c] \in CallState /\ w \in CallState /\ w.at = at
             /\ w.host = call[c].host /\ w.lim = call[c].lim /\ w.again = call[c].again
             /\ w.attempt = call[c].attempt /\ w.delay = call[c].delay /\ w.wake = call[c].wake
             /\ Goto(c, at) => call' = [call EXCEPT ![c] = w]
             /\ sent[c] \in Seq(Nat) /\ now \in Nat /\ earliest \in [Call -> Asked]
             /\ Progress(call[c], sent[c], now)
BY DEF ClientInv, TypeOK, CallState, Goto, CallsProgress

LEMMA MovesTo ==
  ASSUME ClientInv, NEW c \in Call, NEW at \in {"make", "send"}, Goto(c, at)
  PROVE  \E w \in CallState :
           /\ w.at = at /\ w.host = call[c].host /\ w.again = call[c].again
           /\ w.attempt = call[c].attempt /\ w.delay = call[c].delay
           /\ call' = [call EXCEPT ![c] = w]
<1> DEFINE w == [call[c] EXCEPT !.at = at]
<1>1. at \in Steps
  BY DEF Steps
<1>2. /\ w \in CallState /\ w.at = at /\ w.host = call[c].host /\ w.again = call[c].again
      /\ w.attempt = call[c].attempt /\ w.delay = call[c].delay
      /\ call' = [call EXCEPT ![c] = w]
  BY <1>1, Moved
<1> HIDE DEF w
<1> QED
  BY <1>2

-----------------------------------------------------------------------------
(* Actions. *)

LEMMA BeginKeeps ==
  ASSUME ClientInv, NEW c \in Call, NEW h \in Host, NEW again \in BOOLEAN, Begin(c, h, again)
  PROVE  ClientInv'
<1> DEFINE w == [NotCalled EXCEPT !.at = "limit", !.host = h, !.again = again]
<1>1. /\ w \in CallState /\ w.at = "limit" /\ w.again = again
      /\ w.attempt = 0 /\ w.delay = BaseDelay
  BY ClientAssumption DEF NotCalled, CallState, Steps
<1>2. sent[c] = <<>> /\ Len(sent[c]) = 0
  BY DEF Begin, ClientInv, CallsProgress, Progress
<1>3. 0 < Allowed(w)
  BY <1>1, ClientAssumption DEF Allowed
<1>4. BaseDelay >= BaseDelay
  BY ClientAssumption
<1> HIDE DEF w
<1>5. Progress(w, sent[c], now)
  BY <1>1, <1>2, <1>3, <1>4, DelaysTyped DEF Progress, Due
<1>6. call' = [call EXCEPT ![c] = w] /\ UNCHANGED <<now, made, table, sent, earliest>>
  BY DEF Begin, w
<1> QED
  BY <1>1, <1>5, <1>6, OneCallOnly DEF ClientInv, TypeOK

LEMMA LookupKeeps ==
  ASSUME ClientInv, NEW c \in Call, FindLimiter(c) \/ MissLimiter(c)
  PROVE  ClientInv'
<1>1. call[c] \in CallState /\ call[c].host \in Host
  BY DEF ClientInv, TypeOK, CallState
<1>2. CASE FindLimiter(c)
  <2> DEFINE w == [call[c] EXCEPT !.at = "wait", !.lim = table[call[c].host]]
  <2>1. table[call[c].host] \in DOMAIN made[call[c].host] /\ table[call[c].host] \in Nat
    <3>1. made[call[c].host] \in Seq(Bucket)
      BY <1>1 DEF ClientInv, TypeOK
    <3> QED
      BY <1>1, <1>2, <3>1 DEF FindLimiter, ClientInv, TypeOK
  <2>2. /\ w \in CallState /\ w.at = "wait" /\ w.lim = table[call[c].host]
        /\ w.host = call[c].host /\ w.again = call[c].again
        /\ w.attempt = call[c].attempt /\ w.delay = call[c].delay
    BY <1>1, <2>1 DEF CallState, Steps
  <2>3. call' = [call EXCEPT ![c] = w] /\ UNCHANGED <<now, made, table, sent, earliest>>
    BY <1>2 DEF FindLimiter
  <2> HIDE DEF w
  <2>4. Progress(w, sent[c], now)
    <3>1. Progress(call[c], sent[c], now) /\ call[c].at = "limit"
      BY <1>2 DEF FindLimiter, ClientInv, CallsProgress
    <3>2. /\ Len(sent[c]) = w.attempt /\ w.attempt < Allowed(w) /\ Due(sent[c], now)
          /\ \E d \in Delays : w.delay >= d
      BY <2>2, <3>1 DEF Progress, Allowed
    <3>3. \A i \in DOMAIN sent[c] : i > 1 => \E d \in Delays : sent[c][i] - sent[c][i - 1] >= d
      BY <3>1 DEF Progress
    <3> QED
      BY <2>2, <3>2, <3>3 DEF Progress
  <2> QED
    BY <2>1, <2>2, <2>3, <2>4, OneCallOnly DEF ClientInv, TypeOK
<1>3. CASE MissLimiter(c)
  <2>1. PICK w \in CallState :
          /\ w.at = "make" /\ w.host = call[c].host /\ w.again = call[c].again
          /\ w.attempt = call[c].attempt /\ w.delay = call[c].delay
          /\ call' = [call EXCEPT ![c] = w]
    BY <1>3, MovesTo, Zenon DEF MissLimiter
  <2>2. Progress(w, sent[c], now)
    BY <1>3, <2>1 DEF MissLimiter, ClientInv, CallsProgress, Progress, Allowed
  <2>3. call[c].host \notin Configured
    BY <1>1, <1>3 DEF MissLimiter, ClientInv, OneLimiter
  <2> QED
    BY <1>3, <2>1, <2>2, <2>3, OneCallOnly DEF MissLimiter, ClientInv, TypeOK
<1> QED
  BY <1>2, <1>3

LEMMA MakeLimiterKeeps ==
  ASSUME ClientInv, NEW c \in Call, MakeLimiter(c)
  PROVE  ClientInv'
<1>1. PICK h \in Host : h = call[c].host
  BY DEF ClientInv, TypeOK, CallState
<1>2. PICK q \in Seq(Bucket) : q = made[h]
  BY DEF ClientInv, TypeOK
<1>3. PICK t \in Nat : t = now
  BY DEF ClientInv, TypeOK
<1> DEFINE p == Append(q, Full(t))
           w == [call[c] EXCEPT !.at = "wait", !.lim = Len(q) + 1]
<1>4. /\ p \in Seq(Bucket) /\ Len(p) = Len(q) + 1 /\ Len(q) \in Nat
      /\ DOMAIN q \subseteq DOMAIN p /\ Len(q) + 1 \in DOMAIN p
      /\ \A l \in DOMAIN p : IF l = Len(q) + 1 THEN p[l] = Full(t)
                                               ELSE l \in DOMAIN q /\ p[l] = q[l]
  BY Defaults
<1>5. /\ w \in CallState /\ w.at = "wait" /\ w.lim = Len(q) + 1 /\ w.host = h
      /\ w.again = call[c].again /\ w.attempt = call[c].attempt /\ w.delay = call[c].delay
  <2>1. call[c] \in CallState /\ call[c].host = h
    BY <1>1 DEF ClientInv, TypeOK
  <2>2. Len(q) + 1 \in Nat
    OBVIOUS
  <2> QED
    BY <2>1, <2>2 DEF CallState, Steps
<1>6. /\ made' = [made EXCEPT ![h] = p] /\ table' = [table EXCEPT ![h] = Len(q) + 1]
      /\ call' = [call EXCEPT ![c] = w] /\ UNCHANGED <<now, sent, earliest>>
  BY <1>1, <1>2, <1>3 DEF MakeLimiter
<1>7. /\ made' \in [Host -> Seq(Bucket)] /\ table' \in [Host -> Nat]
      /\ \A k \in Host : made'[k] = (IF k = h THEN p ELSE made[k])
                         /\ table'[k] = (IF k = h THEN Len(q) + 1 ELSE table[k])
  <2> HIDE DEF p
  <2> QED
    BY <1>4, <1>6 DEF ClientInv, TypeOK
<1>8. h \notin Configured
  BY <1>1 DEF MakeLimiter, ClientInv, OneLimiter
<1> HIDE DEF w, p
<1>9. Progress(w, sent[c], now)
  BY <1>5 DEF MakeLimiter, ClientInv, CallsProgress, Progress, Allowed
<1>10. sent[c] \in Seq(Nat) /\ sent' = [sent EXCEPT ![c] = sent[c]]
  BY <1>6 DEF ClientInv, TypeOK
<1>11. /\ call' \in [Call -> CallState] /\ sent' \in [Call -> Seq(Nat)]
       /\ CallsProgress' /\ LimitersExist'
       /\ \A x \in Call : call'[x].at = "make" => call'[x].host \notin Configured
  <2>1. \A k \in Host : DOMAIN made[k] \subseteq DOMAIN made'[k]
    BY <1>2, <1>4, <1>7
  <2>2. w.lim \in DOMAIN made'[w.host]
    BY <1>4, <1>5, <1>7
  <2> QED
    BY <1>5, <1>6, <1>9, <1>10, <2>1, <2>2, OneCall
<1>12. ASSUME NEW k \in Host, NEW l \in DOMAIN made'[k]
       PROVE  Conserves(made'[k][l]) /\ made'[k][l].last <= now
  <2>1. CASE k = h /\ l = Len(q) + 1
    BY <1>3, <1>4, <1>7, <2>1, Defaults
  <2>2. CASE k # h \/ l # Len(q) + 1
    <3>1. l \in DOMAIN made[k] /\ made'[k][l] = made[k][l]
      BY <1>2, <1>4, <1>7, <1>12, <2>2
    <3> QED
      BY <3>1 DEF ClientInv, LimitersConserve
  <2> QED
    BY <2>1, <2>2
<1>13. LimitersConserve'
  BY <1>6, <1>12 DEF LimitersConserve
<1>14. OneLimiter'
  <2>1. ASSUME NEW k \in Configured PROVE Len(made'[k]) = 1 /\ table'[k] = 1
    <3>1. k \in Host /\ k # h
      BY <1>8, ClientAssumption
    <3>2. made'[k] = made[k] /\ table'[k] = table[k]
      BY <1>7, <3>1
    <3> QED
      BY <3>2 DEF ClientInv, OneLimiter
  <2> QED
    BY <1>11, <2>1 DEF OneLimiter
<1>15. \A k \in Host : table'[k] \in 0 .. Len(made'[k])
  <2>1. ASSUME NEW k \in Host, k = h PROVE table'[k] \in 0 .. Len(made'[k])
    <3>1. table'[k] = Len(q) + 1 /\ made'[k] = p
      BY <1>7, <2>1
    <3> QED
      BY <1>4, <3>1
  <2>2. ASSUME NEW k \in Host, k # h PROVE table'[k] \in 0 .. Len(made'[k])
    <3>1. table'[k] = table[k] /\ made'[k] = made[k]
      BY <1>7, <2>2
    <3> QED
      BY <3>1 DEF ClientInv, TypeOK
  <2> QED
    BY <2>1, <2>2
<1>16. TypeOK'
  BY <1>6, <1>7, <1>11, <1>15 DEF ClientInv, TypeOK, LimitersExist
<1> QED
  BY <1>11, <1>13, <1>14, <1>16 DEF ClientInv

(* A pass of Wait that replaces the limiter by n.                          *)
LEMMA PassOfWait ==
  ASSUME ClientInv, NEW c \in Call, call[c].at = "wait", UNCHANGED <<now, table>>,
         NEW n \in Bucket, Conserves(n), n.last = now,
         made' = [made EXCEPT ![call[c].host][call[c].lim] = n]
  PROVE  /\ made' \in [Host -> Seq(Bucket)] /\ LimitersConserve'
         /\ \A k \in Host : DOMAIN made[k] \subseteq DOMAIN made'[k]
         /\ call[c].host \in Host /\ call[c].lim \in DOMAIN made'[call[c].host]
         /\ \A k \in Host : table'[k] \in 0 .. Len(made'[k])
         /\ \A k \in Configured : Len(made'[k]) = 1 /\ table'[k] = 1
<1>1. PICK h \in Host : h = call[c].host
  BY DEF ClientInv, TypeOK, CallState
<1>2. PICK l \in DOMAIN made[h] : l = call[c].lim
  BY <1>1 DEF ClientInv, LimitersExist
<1>3. made \in [Host -> Seq(Bucket)] /\ made' = [made EXCEPT ![h][l] = n]
  BY <1>1, <1>2 DEF ClientInv, TypeOK
<1>4. /\ made' \in [Host -> Seq(Bucket)]
      /\ \A k \in Host : Len(made'[k]) = Len(made[k]) /\ DOMAIN made'[k] = DOMAIN made[k]
      /\ \A k \in Host : \A m \in DOMAIN made[k] :
           made'[k][m] = IF k = h /\ m = l THEN n ELSE made[k][m]
  <2>1. PICK q \in Seq(Bucket) : q = made[h]
    BY <1>3
  <2> DEFINE p == [q EXCEPT ![l] = n]
  <2>2. made' = [made EXCEPT ![h] = p]
    BY <1>3, <2>1
  <2>3. p \in Seq(Bucket) /\ Len(p) = Len(q) /\ DOMAIN p = DOMAIN q
    BY <2>1
  <2>4. \A m \in DOMAIN q : p[m] = IF m = l THEN n ELSE q[m]
    BY <2>1
  <2> HIDE DEF p
  <2> QED
    BY <1>3, <2>1, <2>2, <2>3, <2>4
<1>5. ASSUME NEW k \in Host, NEW m \in DOMAIN made'[k]
      PROVE  Conserves(made'[k][m]) /\ made'[k][m].last <= now
  <2>1. now <= now
    BY DEF ClientInv, TypeOK
  <2>2. m \in DOMAIN made[k] /\ Conserves(made[k][m]) /\ made[k][m].last <= now
    BY <1>4, <1>5 DEF ClientInv, LimitersConserve
  <2>3. made'[k][m] = n \/ made'[k][m] = made[k][m]
    BY <1>4, <2>2
  <2> QED
    BY <2>1, <2>2, <2>3
<1>6. LimitersConserve'
  BY <1>5 DEF LimitersConserve
<1>7. call[c].host \in Host /\ call[c].lim \in DOMAIN made'[call[c].host]
  BY <1>1, <1>2, <1>4
<1>8. \A k \in Host : table'[k] \in 0 .. Len(made'[k])
  BY <1>4 DEF ClientInv, TypeOK
<1>9. \A k \in Configured : Len(made'[k]) = 1 /\ table'[k] = 1
  BY <1>4, ClientAssumption DEF ClientInv, OneLimiter
<1>10. \A k \in Host : DOMAIN made[k] \subseteq DOMAIN made'[k]
  BY <1>4
<1> QED
  BY <1>4, <1>6, <1>7, <1>8, <1>9, <1>10

(* A request more in the times a call sent its requests at. *)
LEMMA OneSent ==
  ASSUME NEW q \in Seq(Nat), NEW t \in Nat
  PROVE  LET s == Append(q, t)
         IN  /\ s \in Seq(Nat) /\ Len(s) = Len(q) + 1 /\ s[Len(s)] = t /\ Len(q) \in Nat
             /\ \A i \in DOMAIN s : i # Len(s) => i \in DOMAIN q /\ s[i] = q[i]
             /\ \A i \in DOMAIN s : i > 1 => i - 1 \in DOMAIN q /\ s[i - 1] = q[i - 1]
<1> DEFINE s == Append(q, t)
<1>1. s \in Seq(Nat) /\ Len(s) = Len(q) + 1 /\ Len(q) \in Nat
  OBVIOUS
<1>2. s[Len(q) + 1] = t /\ \A i \in 1 .. Len(q) : s[i] = q[i]
  OBVIOUS
<1>3. DOMAIN s = 1 .. Len(q) + 1 /\ DOMAIN q = 1 .. Len(q)
  OBVIOUS
<1> HIDE DEF s
<1>4. \A i \in DOMAIN s : i # Len(s) => i \in DOMAIN q /\ s[i] = q[i]
  BY <1>1, <1>2, <1>3
<1>5. \A i \in DOMAIN s : i > 1 => i - 1 \in DOMAIN q /\ s[i - 1] = q[i - 1]
  BY <1>1, <1>2, <1>3
<1>6. s[Len(s)] = t
  BY <1>1, <1>2
<1> QED
  BY <1>1, <1>4, <1>5, <1>6, Zenon DEF s

LEMMA WaitKeeps ==
  ASSUME ClientInv, NEW c \in Call, TakeToken(c) \/ NoToken(c)
  PROVE  ClientInv'
<1>1. PICK b \in Bucket : b = BucketOf(c) /\ Conserves(b) /\ b.last <= now
  <2>1. call[c].host \in Host /\ call[c].lim \in DOMAIN made[call[c].host]
    BY DEF TakeToken, NoToken, ClientInv, TypeOK, CallState, LimitersExist
  <2>2. made[call[c].host] \in Seq(Bucket)
    BY <2>1 DEF ClientInv, TypeOK
  <2> QED
    BY <2>1, <2>2 DEF BucketOf, ClientInv, LimitersConserve
<1>2. PICK t \in Nat : t = now
  BY DEF ClientInv, TypeOK
<1>3. call[c] \in CallState /\ sent[c] \in Seq(Nat) /\ Refilled(b) \in Nat
  BY <1>1, <1>2, RefilledTyped DEF ClientInv, TypeOK
<1>4. CASE TakeToken(c)
  <2> DEFINE n == [tokens |-> Refilled(b) - Cost, last |-> now, grants |-> Append(b.grants, now)]
  <2>1. n \in Bucket /\ n.last = now /\ Conserves(n)
    BY <1>1, <1>2, <1>4, GrantConserves DEF TakeToken
  <2>2. made' = [made EXCEPT ![call[c].host][call[c].lim] = n]
    BY <1>1, <1>4 DEF TakeToken
  <2> HIDE DEF n
  <2>3. PICK w \in CallState :
          /\ w.at = "send" /\ w.host = call[c].host /\ w.again = call[c].again
          /\ w.attempt = call[c].attempt /\ w.delay = call[c].delay
          /\ call' = [call EXCEPT ![c] = w]
    BY <1>4, MovesTo, Zenon DEF TakeToken
  <2> DEFINE s == Append(sent[c], t)
  <2>4. /\ s \in Seq(Nat) /\ Len(s) = Len(sent[c]) + 1 /\ s[Len(s)] = t /\ Len(sent[c]) \in Nat
        /\ \A i \in DOMAIN s : i # Len(s) => i \in DOMAIN sent[c] /\ s[i] = sent[c][i]
        /\ \A i \in DOMAIN s : i > 1 => i - 1 \in DOMAIN sent[c] /\ s[i - 1] = sent[c][i - 1]
    BY <1>3, OneSent
  <2>5. sent' = [sent EXCEPT ![c] = s]
    BY <1>2, <1>4 DEF TakeToken
  <2>6. /\ Len(sent[c]) = call[c].attempt /\ call[c].attempt < Allowed(call[c])
        /\ Due(sent[c], t) /\ \E d \in Delays : call[c].delay >= d
        /\ \A i \in DOMAIN sent[c] : i > 1 => \E d \in Delays : sent[c][i] - sent[c][i - 1] >= d
    BY <1>2, <1>4 DEF TakeToken, ClientInv, CallsProgress, Progress
  <2>7. ASSUME NEW i \in DOMAIN s, i > 1 PROVE \E d \in Delays : s[i] - s[i - 1] >= d
    <3>1. CASE i = Len(s)
      <4>1. Len(sent[c]) = i - 1 /\ sent[c] # <<>> /\ s[i] = t /\ s[i - 1] = sent[c][Len(sent[c])]
        BY <2>4, <2>7, <3>1
      <4> QED
        BY <2>6, <4>1 DEF Due
    <3>2. CASE i # Len(s)
      BY <2>4, <2>6, <2>7, <3>2
    <3> QED
      BY <3>1, <3>2
  <2> HIDE DEF s
  <2>8. Progress(w, s, now)
    <3>1. Len(s) = w.attempt + 1 /\ w.attempt < Allowed(w)
      BY <2>3, <2>4, <2>6 DEF Allowed
    <3>2. s[Len(s)] <= now
      BY <1>2, <2>4
    <3> QED
      BY <2>3, <2>6, <2>7, <3>1, <3>2 DEF Progress
  <2>9. UNCHANGED <<now, table, earliest>> /\ call[c].at = "wait"
    BY <1>4 DEF TakeToken
  <2>10. /\ made' \in [Host -> Seq(Bucket)] /\ LimitersConserve'
         /\ \A k \in Host : DOMAIN made[k] \subseteq DOMAIN made'[k]
         /\ \A k \in Host : table'[k] \in 0 .. Len(made'[k])
         /\ \A k \in Configured : Len(made'[k]) = 1 /\ table'[k] = 1
    BY <2>1, <2>2, <2>9, PassOfWait
  <2>11. /\ call' \in [Call -> CallState] /\ sent' \in [Call -> Seq(Nat)]
         /\ CallsProgress' /\ LimitersExist'
         /\ \A x \in Call : call'[x].at = "make" => call'[x].host \notin Configured
    BY <2>3, <2>4, <2>5, <2>8, <2>9, <2>10, OneCall
  <2>12. TypeOK'
    BY <2>9, <2>10, <2>11 DEF ClientInv, TypeOK, LimitersExist
  <2> QED
    BY <2>10, <2>11, <2>12 DEF ClientInv, OneLimiter
<1>5. CASE NoToken(c)
  <2> DEFINE n == [tokens |-> Refilled(b), last |-> now, grants |-> b.grants]
             w == [call[c] EXCEPT !.at = "sleep", !.wake = t + (Cost - Refilled(b)) + 1]
  <2>1. n \in Bucket /\ n.last = now /\ Conserves(n)
    BY <1>1, <1>2, RefillConserves
  <2>2. made' = [made EXCEPT ![call[c].host][call[c].lim] = n]
    BY <1>1, <1>5 DEF NoToken
  <2> HIDE DEF n
  <2>3. t + (Cost - Refilled(b)) + 1 \in Nat
    BY <1>1, <1>2, <1>3, <1>5, ClientAssumption DEF NoToken
  <2>4. /\ w \in CallState /\ w.at = "sleep" /\ w.host = call[c].host /\ w.again = call[c].again
        /\ w.attempt = call[c].attempt /\ w.delay = call[c].delay /\ w.lim = call[c].lim
    BY <1>3, <2>3 DEF CallState, Steps
  <2>5. call' = [call EXCEPT ![c] = w] /\ UNCHANGED <<now, table, sent, earliest>>
        /\ call[c].at = "wait"
    BY <1>1, <1>2, <1>5 DEF NoToken
  <2> HIDE DEF w
  <2>6. Progress(w, sent[c], now)
    BY <2>4, <2>5 DEF ClientInv, CallsProgress, Progress, Allowed
  <2>7. /\ made' \in [Host -> Seq(Bucket)] /\ LimitersConserve'
        /\ \A k \in Host : DOMAIN made[k] \subseteq DOMAIN made'[k]
        /\ call[c].host \in Host /\ call[c].lim \in DOMAIN made'[call[c].host]
        /\ \A k \in Host : table'[k] \in 0 .. Len(made'[k])
        /\ \A k \in Configured : Len(made'[k]) = 1 /\ table'[k] = 1
    BY <2>1, <2>2, <2>5, PassOfWait
  <2>8. sent' = [sent EXCEPT ![c] = sent[c]]
    BY <2>5 DEF ClientInv, TypeOK
  <2>9. /\ call' \in [Call -> CallState] /\ sent' \in [Call -> Seq(Nat)]
        /\ CallsProgress' /\ LimitersExist'
        /\ \A x \in Call : call'[x].at = "make" => call'[x].host \notin Configured
    BY <1>3, <2>4, <2>5, <2>6, <2>7, <2>8, OneCall
  <2>10. TypeOK'
    BY <2>5, <2>7, <2>9 DEF ClientInv, TypeOK, LimitersExist
  <2> QED
    BY <2>7, <2>9, <2>10 DEF ClientInv, OneLimiter
<1> QED
  BY <1>4, <1>5

LEMMA MoveKeeps ==
  ASSUME ClientInv, NEW c \in Call, WakeUp(c) \/ Cancelled(c) \/ Answered(c) \/ Retry(c)
  PROVE  ClientInv'
<1>1. PICK at \in {"wait", "done", "limit"} :
        /\ Goto(c, at) /\ UNCHANGED <<now, made, table, sent, earliest>>
        /\ at = "wait" => call[c].at = "sleep"
        /\ at = "done" => call[c].at \in {"sleep", "backoff", "send"}
        /\ at = "limit" => call[c].at = "backoff" /\ now >= call[c].wake
  BY DEF WakeUp, Cancelled, Answered, Retry
<1>2. PICK w \in CallState :
        /\ w.at = at /\ w.host = call[c].host /\ w.again = call[c].again /\ w.lim = call[c].lim
        /\ w.attempt = call[c].attempt /\ w.delay = call[c].delay
        /\ call' = [call EXCEPT ![c] = w]
  <2>1. at \in Steps
    BY DEF Steps
  <2> DEFINE w == [call[c] EXCEPT !.at = at]
  <2>2. call[c] \in CallState
    BY DEF ClientInv, TypeOK
  <2>3. /\ w \in CallState /\ w.at = at /\ w.host = call[c].host /\ w.again = call[c].again
        /\ w.lim = call[c].lim /\ w.attempt = call[c].attempt /\ w.delay = call[c].delay
    BY <2>1, <2>2 DEF CallState
  <2>4. call' = [call EXCEPT ![c] = w]
    BY <1>1 DEF Goto
  <2> HIDE DEF w
  <2> QED
    BY <2>3, <2>4
<1>3. /\ Progress(call[c], sent[c], now) /\ call[c] \in CallState
      /\ sent[c] \in Seq(Nat) /\ now \in Nat /\ earliest \in [Call -> Asked]
  BY DEF ClientInv, CallsProgress, TypeOK
<1>4. Allowed(w) = Allowed(call[c]) /\ Allowed(w) \in Nat /\ w.attempt \in Nat
  BY <1>2, ClientAssumption DEF Allowed, CallState
<1>5. Progress(w, sent[c], now)
  <2>1. CASE at = "wait"
    BY <1>1, <1>2, <1>3, <1>4, <2>1 DEF Progress
  <2>2. CASE at = "done"
    <3>1. Len(sent[c]) <= Allowed(w)
      BY <1>1, <1>2, <1>3, <1>4, <2>2 DEF Progress
    <3> QED
      BY <1>2, <1>3, <2>2, <3>1 DEF Progress
  <2>3. CASE at = "limit"
    <3>1. Due(sent[c], call[c].wake) /\ call[c].wake \in Nat /\ call[c].wake <= now
      BY <1>1, <1>3, <2>3 DEF Progress, CallState
    <3>2. Due(sent[c], now)
      BY <1>3, <3>1, StillDue
    <3> QED
      BY <1>1, <1>2, <1>3, <1>4, <2>3, <3>2 DEF Progress
  <2> QED
    BY <2>1, <2>2, <2>3
<1>6. w.at = "wait" => w.lim \in DOMAIN made[w.host]
  BY <1>1, <1>2 DEF ClientInv, LimitersExist
<1>7. earliest' \in [Call -> Asked] /\ w.at # "make" /\ w.at # "sleep"
  BY <1>1, <1>2, <1>3
<1> QED
  BY <1>1, <1>2, <1>3, <1>5, <1>6, <1>7, OneCallOnly

(* The next delay is never below the smallest one asked for.               *)
LEMMA NextDelayEnough ==
  ASSUME NEW d \in Nat, NEW ra \in RetryAfter, \E e \in Delays : d >= e
  PROVE  NextDelay(d, ra) \in Nat /\ \E e \in Delays : NextDelay(d, ra) >= e
<1>1. ra.asks \in Nat /\ MaxDelay \in Nat /\ MaxDelay \in Delays
  BY ClientAssumption, DelaysTyped DEF Header
<1>2. PICK e \in Delays : (IF ra.seconds /\ ra.asks > 0 THEN ra.asks ELSE d) >= e
  <2>1. CASE ra.seconds /\ ra.asks > 0
    <3>1. ra.asks \in Delays /\ ra.asks >= ra.asks
      BY <1>1, <2>1 DEF Delays
    <3> QED
      BY <2>1, <3>1
  <2>2. CASE ~(ra.seconds /\ ra.asks > 0)
    BY <2>2
  <2> QED
    BY <2>1, <2>2
<1>3. e \in Nat
  BY DelaysTyped
<1>4. CASE NextDelay(d, ra) = MaxDelay
  <2>1. MaxDelay >= MaxDelay
    BY <1>1
  <2> QED
    BY <1>1, <1>4, <2>1
<1>5. CASE NextDelay(d, ra) # MaxDelay
  <2>1. NextDelay(d, ra) = 2 * (IF ra.seconds /\ ra.asks > 0 THEN ra.asks ELSE d)
    BY <1>5 DEF NextDelay, Least
  <2>2. NextDelay(d, ra) \in Nat /\ NextDelay(d, ra) >= e
    BY <1>1, <1>2, <1>3, <2>1
  <2> QED
    BY <2>2
<1> QED
  BY <1>4, <1>5

LEMMA FailedAttemptKeeps ==
  ASSUME ClientInv, NEW c \in Call, NEW ra \in RetryAfter, FailedAttempt(c, ra)
  PROVE  ClientInv'
<1>1. PICK t \in Nat : t = now
  BY DEF ClientInv, TypeOK
<1>2. /\ call[c] \in CallState /\ sent[c] \in Seq(Nat) /\ earliest \in [Call -> Asked]
      /\ Progress(call[c], sent[c], t) /\ call[c].at = "send"
      /\ call[c].delay \in Nat /\ call[c].attempt \in Nat
  BY <1>1 DEF ClientInv, TypeOK, CallsProgress, CallState, FailedAttempt
<1>3. PICK d \in Nat : d = NextDelay(call[c].delay, ra) /\ \E e \in Delays : d >= e
  BY <1>2, NextDelayEnough DEF Progress
<1>4. PICK at \in {"backoff", "done"} :
        at = IF call[c].attempt + 1 < MaxAttempts(c) THEN "backoff" ELSE "done"
  OBVIOUS
<1> DEFINE w == [call[c] EXCEPT !.at = at, !.attempt = @ + 1, !.delay = d, !.wake = t + d]
<1>5. /\ w \in CallState /\ w.at = at /\ w.attempt = call[c].attempt + 1
      /\ w.delay = d /\ w.wake = t + d /\ w.again = call[c].again
  <2>1. call[c].attempt + 1 \in Nat /\ t + d \in Nat /\ at \in Steps
    BY <1>2 DEF Steps
  <2> QED
    BY <1>2, <2>1 DEF CallState
<1>6. call' = [call EXCEPT ![c] = w] /\ UNCHANGED <<now, made, table, sent>>
  BY <1>1, <1>3, <1>4 DEF FailedAttempt
<1> HIDE DEF w
<1>7. /\ Len(sent[c]) = w.attempt /\ call[c].attempt < Allowed(w)
      /\ sent[c][Len(sent[c])] \in Nat /\ sent[c][Len(sent[c])] <= t
      /\ Allowed(w) = MaxAttempts(c) /\ Allowed(w) \in Nat
  <2>1. Len(sent[c]) = call[c].attempt + 1 /\ sent[c][Len(sent[c])] <= t
        /\ call[c].attempt < Allowed(call[c])
    BY <1>2 DEF Progress
  <2>2. sent[c][Len(sent[c])] \in Nat
    <3>1. PICK q \in Seq(Nat) : q = sent[c]
      BY <1>2
    <3>2. Len(q) >= 1 /\ Len(q) \in Nat
      BY <1>2, <2>1, <3>1
    <3>3. q[Len(q)] \in Nat
      BY <3>2
    <3> QED
      BY <3>1, <3>3, Zenon
  <2>3. Allowed(w) = Allowed(call[c]) /\ Allowed(w) = MaxAttempts(c) /\ Allowed(w) \in Nat
    BY <1>5, ClientAssumption DEF Allowed, MaxAttempts
  <2> QED
    BY <1>5, <2>1, <2>2, <2>3
<1>8. Due(sent[c], t + d)
  <2>1. PICK e \in Delays : d >= e /\ e \in Nat
    BY <1>3, DelaysTyped
  <2>2. (t + d) - sent[c][Len(sent[c])] >= e
    BY <1>7, <2>1
  <2> QED
    BY <2>2 DEF Due
<1>9. Progress(w, sent[c], now)
  <2>1. CASE at = "backoff"
    BY <1>2, <1>3, <1>4, <1>5, <1>7, <1>8, <2>1 DEF Progress
  <2>2. CASE at = "done"
    <3>1. Len(sent[c]) <= Allowed(w)
      BY <1>2, <1>5, <1>7
    <3> QED
      BY <1>2, <1>3, <1>5, <2>2, <3>1 DEF Progress
  <2> QED
    BY <2>1, <2>2
<1>10. earliest' \in [Call -> Asked]
  <2>1. [at |-> t + ra.asks, seconds |-> ra.seconds] \in Asked
    BY ClientAssumption DEF Header, Asked
  <2> QED
    BY <1>1, <1>2, <2>1, Defaults DEF FailedAttempt
<1> QED
  BY <1>5, <1>6, <1>9, <1>10, OneCallOnly

LEMMA TickKeeps ==
  ASSUME ClientInv, Tick
  PROVE  ClientInv'
<1>1. PICK t \in Nat : t = now /\ now' = t + 1
  BY DEF Tick, ClientInv, TypeOK
<1>2. UNCHANGED <<made, table, call, sent, earliest>>
  BY DEF Tick
<1>3. LimitersConserve'
  <2>1. ASSUME NEW h \in Host, NEW l \in DOMAIN made[h]
        PROVE  Conserves(made[h][l]) /\ made[h][l].last <= t + 1
    <3>1. made[h][l] \in Bucket
      BY DEF ClientInv, TypeOK
    <3>2. Conserves(made[h][l]) /\ made[h][l].last <= t /\ made[h][l].last \in Nat
      BY <1>1, <3>1 DEF ClientInv, LimitersConserve, Bucket
    <3> QED
      BY <3>2
  <2> QED
    BY <1>1, <1>2, <2>1 DEF LimitersConserve
<1>4. CallsProgress'
  <2>1. ASSUME NEW c \in Call PROVE Progress(call[c], sent[c], t + 1)
    <3>1. call[c] \in CallState /\ sent[c] \in Seq(Nat) /\ Progress(call[c], sent[c], t)
      BY <1>1 DEF ClientInv, TypeOK, CallsProgress
    <3>2. t + 1 \in Nat /\ t <= t + 1
      OBVIOUS
    <3> QED
      BY <3>1, <3>2, StillProgress
  <2> QED
    BY <1>1, <1>2, <2>1 DEF CallsProgress
<1> QED
  BY <1>1, <1>2, <1>3, <1>4 DEF ClientInv, TypeOK, LimitersExist, OneLimiter

-----------------------------------------------------------------------------
(* The client's invariant. *)
THEOREM ClientInvariance == Spec => []ClientInv
<1>1. Init => ClientInv
  <2> SUFFICES ASSUME Init PROVE ClientInv
    OBVIOUS
  <2>1. \A h \in Host : made[h] = (IF h \in Configured THEN <<Full(0)>> ELSE <<>>)
                        /\ table[h] = (IF h \in Configured THEN 1 ELSE 0)
    BY DEF Init
  <2>2. <<Full(0)>> \in Seq(Bucket) /\ <<>> \in Seq(Bucket)
    BY Defaults
  <2>3. TypeOK /\ LimitersExist
    BY <2>1, <2>2, Defaults DEF Init, TypeOK, LimitersExist
  <2>4. LimitersConserve
    <3>1. ASSUME NEW h \in Host, NEW l \in DOMAIN made[h] PROVE made[h][l] = Full(0)
      BY <2>1
    <3> QED
      BY <3>1, Defaults DEF LimitersConserve, Init
  <2>5. OneLimiter
    BY <2>1, Defaults, ClientAssumption DEF Init, OneLimiter
  <2>6. CallsProgress
    <3>1. NotCalled.delay = BaseDelay /\ BaseDelay >= BaseDelay
      BY ClientAssumption DEF NotCalled
    <3>2. Progress(NotCalled, <<>>, 0)
      BY <3>1, Defaults, DelaysTyped DEF Progress
    <3> QED
      BY <3>2 DEF Init, CallsProgress
  <2> QED
    BY <2>3, <2>4, <2>5, <2>6 DEF ClientInv
<1>2. ClientInv /\ [Next]_vars => ClientInv'
  <2> SUFFICES ASSUME ClientInv, [Next]_vars PROVE ClientInv'
    OBVIOUS
  <2>1. ASSUME NEW c \in Call, Proceed(c) PROVE ClientInv'
    BY <2>1, LookupKeeps, MakeLimiterKeeps, WaitKeeps, MoveKeeps, FailedAttemptKeeps DEF Proceed
  <2>2. CASE UNCHANGED vars
    BY <2>2 DEF vars, ClientInv, TypeOK, LimitersConserve, LimitersExist, OneLimiter, CallsProgress
  <2> QED
    BY <2>1, <2>2, BeginKeeps, MoveKeeps, TickKeeps DEF Next, Finished
<1> QED
  BY <1>1, <1>2, PTL DEF Spec

(* Whatever calls interleave in Wait (rl.mu), every limiter ever made      *)
(* grants, in any interval, at most a full bucket and what it earned.      *)
THEOREM LimitersGrantWithinBurst == Spec => []WithinBurst
<1>1. ClientInv => WithinBurst
  BY DEF ClientInv, LimitersConserve, Conserves, WithinBurst
<1> QED
  BY <1>1, ClientInvariance, PTL

(* The retry loop repeats no request that must not be repeated, no other   *)
(* more than MaxRetries times, and never without the delay asked for.      *)
THEOREM RetriesBoundedAndSpaced == Spec => []RetriesAreBoundedAndSpaced
<1>1. ClientInv => RetriesAreBoundedAndSpaced
  <2> SUFFICES ASSUME ClientInv, NEW c \in Call
               PROVE  /\ Len(sent[c]) <= Allowed(call[c])
                      /\ \A i \in DOMAIN sent[c] : i > 1 =>
                           \E d \in Delays : sent[c][i] - sent[c][i - 1] >= d
    BY DEF RetriesAreBoundedAndSpaced, Allowed
  <2>1. /\ Progress(call[c], sent[c], now) /\ call[c] \in CallState /\ call[c].attempt \in Nat
        /\ call[c].at \in Steps
    BY DEF ClientInv, TypeOK, CallState, CallsProgress
  <2>2. Allowed(call[c]) \in Nat
    BY ClientAssumption DEF Allowed
  <2>3. Len(sent[c]) <= Allowed(call[c])
    <3>1. CASE call[c].at = "idle"
      <4>1. Len(sent[c]) = 0
        BY <2>1, <3>1 DEF Progress
      <4> QED
        BY <2>2, <4>1
    <3>2. CASE call[c].at \in {"limit", "make", "wait", "sleep", "backoff"}
      <4>1. Len(sent[c]) = call[c].attempt /\ call[c].attempt < Allowed(call[c])
        BY <2>1, <3>2 DEF Progress
      <4> QED
        BY <2>1, <2>2, <4>1
    <3>3. CASE call[c].at = "send"
      <4>1. Len(sent[c]) = call[c].attempt + 1 /\ call[c].attempt < Allowed(call[c])
        BY <2>1, <3>3 DEF Progress
      <4> QED
        BY <2>1, <2>2, <4>1
    <3>4. CASE call[c].at = "done"
      BY <2>1, <3>4 DEF Progress
    <3> QED
      BY <2>1, <3>1, <3>2, <3>3, <3>4 DEF Steps
  <2> QED
    BY <2>1, <2>3 DEF Progress
<1> QED
  BY <1>1, ClientInvariance, PTL

-----------------------------------------------------------------------------
(* Counting what a configured host is sent. *)

LEMMA FirstOf ==
  ASSUME NEW G \in SUBSET Nat, G # {}
  PROVE  \E a \in G : \A x \in G : a <= x
<1>1. PICK a \in G : \A x \in G : ~(<<x, a>> \in OpToRel(<, Nat))
  BY WFMin, NatLessThanWellFounded
<1>2. ASSUME NEW x \in G PROVE a <= x
  <2>1. ~(x < a)
    BY <1>1 DEF OpToRel
  <2> QED
    BY <2>1
<1> QED
  BY <1>2

LEMMA LastOf ==
  ASSUME NEW n \in Nat, NEW G \in SUBSET (1 .. n), G # {}
  PROVE  \E b \in G : \A x \in G : x <= b
<1> DEFINE D == {n - x : x \in G}
<1>1. D \in SUBSET Nat /\ D # {}
  <2>1. ASSUME NEW x \in G PROVE n - x \in Nat
    <3>1. x \in 1 .. n
      OBVIOUS
    <3> QED
      BY <3>1
  <2> QED
    BY <2>1
<1>2. PICK d \in D : \A y \in D : d <= y
  BY <1>1, FirstOf
<1>3. PICK b \in G : d = n - b
  BY <1>2
<1>4. ASSUME NEW x \in G PROVE x <= b
  <2>1. n - b <= n - x
    BY <1>2, <1>3
  <2> QED
    BY <2>1
<1> QED
  BY <1>4

(* The sends of a host with one limiter are that limiter's grants.         *)
LEMMA SentThroughOne ==
  ASSUME ClientInv, NEW h \in Configured
  PROVE  LET g == made[h][1].grants
         IN  /\ g \in Seq(Nat) /\ Conserves(made[h][1])
             /\ SentTo(h) = {<<1, i, g[i]>> : i \in DOMAIN g}
<1>1. h \in Host /\ Len(made[h]) = 1 /\ made[h] \in Seq(Bucket)
  BY ClientAssumption DEF ClientInv, OneLimiter, TypeOK
<1>2. DOMAIN made[h] = {1} /\ made[h][1] \in Bucket
  BY <1>1
<1>3. Conserves(made[h][1])
  BY <1>1, <1>2 DEF ClientInv, LimitersConserve
<1> QED
  BY <1>2, <1>3 DEF SentTo, Bucket

LEMMA Width == ASSUME NEW a \in Nat, NEW b \in Nat, a <= b PROVE b - a + 1 \in Nat
OBVIOUS

LEMMA FewerCostLess ==
  ASSUME NEW k \in Int, NEW m \in Int, k <= m
  PROVE  k * Cost \in Int /\ m * Cost \in Int /\ k * Cost <= m * Cost
BY ClientAssumption

LEMMA Between ==
  ASSUME NEW x \in Int, NEW y \in Int, NEW u \in Int, NEW v \in Int, x <= y, y <= u, u <= v
  PROVE  x <= v
OBVIOUS

(* One limiter that conserves its bucket bounds all it grants in [s, t].   *)
LEMMA GrantsBetween ==
  ASSUME NEW g \in Seq(Nat), NEW s \in Nat, NEW t \in Nat,
         \A i, j \in DOMAIN g : i <= j => (j - i + 1) * Cost <= Burst + (g[j] - g[i]),
         \E i \in DOMAIN g : s <= g[i] /\ g[i] <= t
  PROVE  LET F == {x \in {<<1, i, g[i]>> : i \in DOMAIN g} : s <= x[3] /\ x[3] <= t}
         IN  Cardinality(F) * Cost <= Burst + (t - s)
<1> DEFINE G == {i \in DOMAIN g : s <= g[i] /\ g[i] <= t}
           F == {x \in {<<1, i, g[i]>> : i \in DOMAIN g} : s <= x[3] /\ x[3] <= t}
           f == [i \in G |-> <<1, i, g[i]>>]
<1>1. DOMAIN g = 1 .. Len(g) /\ Len(g) \in Nat /\ \A i \in DOMAIN g : g[i] \in Nat
  OBVIOUS
<1>2. G \in SUBSET (1 .. Len(g)) /\ G # {} /\ G \in SUBSET Nat
  BY <1>1
<1>3. PICK a \in G : \A x \in G : a <= x
  <2> HIDE DEF G
  <2> QED
    BY <1>2, FirstOf
<1>4. PICK b \in G : \A x \in G : x <= b
  <2> HIDE DEF G
  <2> QED
    BY <1>1, <1>2, LastOf
<1>5. a \in DOMAIN g /\ b \in DOMAIN g /\ a \in Nat /\ b \in Nat /\ a <= b
      /\ g[a] \in Nat /\ g[b] \in Nat /\ s <= g[a] /\ g[b] <= t
  <2>1. a \in DOMAIN g /\ b \in DOMAIN g /\ s <= g[a] /\ g[b] <= t
    BY Zenon
  <2>2. a <= b
    BY <1>3
  <2>3. a \in Nat /\ b \in Nat
    BY <1>2
  <2> QED
    BY <1>1, <2>1, <2>2, <2>3
<1>6. G \in SUBSET (a .. b)
  <2>1. ASSUME NEW x \in G PROVE x \in a .. b
    <3>1. x \in Nat /\ a <= x /\ x <= b
      BY <1>2, <1>3, <1>4
    <3> QED
      BY <1>5, <3>1
  <2> QED
    BY <2>1
<1>7. IsFiniteSet(G) /\ Cardinality(G) <= b - a + 1 /\ Cardinality(G) \in Nat
  <2>1. IsFiniteSet(a .. b) /\ Cardinality(a .. b) = b - a + 1
    <3>1. ~(a > b) /\ a \in Int /\ b \in Int
      BY <1>5
    <3> QED
      BY <3>1, FS_Interval
  <2> HIDE DEF G
  <2> QED
    BY <1>6, <2>1, FS_Subset, FS_CardinalityType
<1>8. f \in Surjection(G, F)
  <2>1. \A i \in G : <<1, i, g[i]>> \in F
    OBVIOUS
  <2>2. \A x \in F : \E i \in G : f[i] = x
    <3>1. ASSUME NEW x \in F PROVE \E i \in G : f[i] = x
      <4>1. PICK i \in DOMAIN g : x = <<1, i, g[i]>> /\ s <= x[3] /\ x[3] <= t
        OBVIOUS
      <4>2. i \in G /\ f[i] = x
        BY <4>1
      <4> QED
        BY <4>2
    <3> QED
      BY <3>1
  <2>3. f \in [G -> F]
    BY <2>1
  <2> HIDE DEF f, F, G
  <2> QED
    BY <2>2, <2>3 DEF Surjection
<1>9. Cardinality(F) <= Cardinality(G) /\ Cardinality(F) \in Nat
  <2> HIDE DEF f, F, G
  <2> QED
    BY <1>7, <1>8, FS_Surjection, FS_CardinalityType
<1>10. Cardinality(F) <= b - a + 1 /\ Cardinality(F) \in Int /\ b - a + 1 \in Int
  <2>1. b - a + 1 \in Nat
    BY <1>5, Width, Zenon
  <2> HIDE DEF f, F, G
  <2>2. Cardinality(F) <= b - a + 1
    BY <1>7, <1>9, <2>1, Later, Zenon
  <2> QED
    BY <1>9, <2>1, <2>2
<1>11. (b - a + 1) * Cost <= Burst + (g[b] - g[a])
  BY <1>5
<1>12. Burst + (g[b] - g[a]) <= Burst + (t - s) /\ Burst \in Int
  BY <1>5, ClientAssumption
<1> HIDE DEF f, F, G
<1>13. Cardinality(F) * Cost <= (b - a + 1) * Cost
       /\ Cardinality(F) * Cost \in Int /\ (b - a + 1) * Cost \in Int
  BY <1>10, FewerCostLess
<1>14. PICK x \in Int, y \in Int : x = Cardinality(F) * Cost /\ y = (b - a + 1) * Cost
  BY <1>13, Zenon
<1>15. PICK u \in Int, v \in Int : u = Burst + (g[b] - g[a]) /\ v = Burst + (t - s)
  <2>1. Burst + (g[b] - g[a]) \in Int /\ Burst + (t - s) \in Int
    BY <1>5, ClientAssumption
  <2> QED
    BY <2>1, Zenon
<1>16. x <= y /\ y <= u /\ u <= v
  BY <1>11, <1>12, <1>13, <1>14, <1>15, Zenon
<1>17. x <= v
  BY <1>16, Between, Zenon
<1>18. Cardinality(F) * Cost <= Burst + (t - s)
  BY <1>14, <1>15, <1>17, Zenon
<1> QED
  BY <1>18 DEF F

(* A host given a limiter by WithRateLimit is never sent more, by all      *)
(* calls and retries together, than a burst and what its rate allows.      *)
THEOREM ConfiguredHostsKeepRate == Spec => []ConfiguredHostKeepsRate
<1>1. ClientInv => ConfiguredHostKeepsRate
  <2> SUFFICES ASSUME ClientInv, NEW h \in Configured,
                      NEW s \in {x[3] : x \in SentTo(h)}, NEW t \in {x[3] : x \in SentTo(h)}, s <= t
               PROVE  Cardinality({x \in SentTo(h) : s <= x[3] /\ x[3] <= t}) * Cost
                        <= Burst + (t - s)
    BY DEF ConfiguredHostKeepsRate, KeepsRate
  <2>1. PICK g \in Seq(Nat) : /\ SentTo(h) = {<<1, i, g[i]>> : i \in DOMAIN g}
                              /\ g = made[h][1].grants /\ Conserves(made[h][1])
    BY SentThroughOne
  <2>2. \A i, j \in DOMAIN g : i <= j => (j - i + 1) * Cost <= Burst + (g[j] - g[i])
    BY <2>1 DEF Conserves
  <2>3. PICK i \in DOMAIN g : s = g[i]
    BY <2>1
  <2>4. PICK j \in DOMAIN g : t = g[j]
    BY <2>1
  <2>5. s \in Nat /\ t \in Nat
    BY <2>3, <2>4
  <2>6. s <= g[i] /\ g[i] <= t
    BY <2>3, <2>5
  <2> QED
    BY <2>1, <2>2, <2>5, <2>6, GrantsBetween
<1> QED
  BY <1>1, ClientInvariance, PTL


(* Every variable keeps its shape: each host's limiters form a sequence    *)
(* and the table names one of them, or none.                               *)
THEOREM Types == Spec => []TypeOK
<1>1. ClientInv => TypeOK
  BY DEF ClientInv
<1> QED
  BY <1>1, ClientInvariance, PTL

-----------------------------------------------------------------------------
(* Retry-After. *)

(* When the next request may be sent, the last one being sent at s[Len(s)] *)
(* and e the time the server gave.                                         *)
Awaited(s, e) == Least(e, s[Len(s)] + MaxDelay)

(* What a call in state w has of it at time t: nothing before its first    *)
(* request; then the back-off ends late enough, and it stays late enough   *)
(* on the way through the limiter to the next request.                     *)
Obeys(w, s, e, t) ==
  /\ w.at \in {"limit", "make", "wait", "sleep"} /\ s # <<>> => Awaited(s, e) <= t
  /\ w.at = "backoff" => s # <<>> /\ Awaited(s, e) <= w.wake
  /\ w.at = "send" /\ Len(s) > 1 => Least(e, s[Len(s) - 1] + MaxDelay) <= s[Len(s)]

CallsObey == \A c \in Call : Obeys(call[c], sent[c], AskedFor(earliest[c]), now)

LEMMA AskedTyped ==
  ASSUME ClientInv, NEW c \in Call
  PROVE  AskedFor(earliest[c]) \in Nat
BY DEF ClientInv, TypeOK, Asked, AskedFor

LEMMA AwaitedTyped ==
  ASSUME NEW s \in Seq(Nat), s # <<>>, NEW e \in Nat
  PROVE  s[Len(s)] \in Nat /\ Awaited(s, e) \in Nat
<1>1. s[Len(s)] \in Nat
  OBVIOUS
<1>2. s[Len(s)] + MaxDelay \in Nat
  BY <1>1, ClientAssumption
<1> QED
  BY <1>1, <1>2 DEF Awaited, Least

LEMMA StillObeys ==
  ASSUME NEW w, NEW s \in Seq(Nat), NEW e \in Nat, NEW t \in Nat, NEW u \in Nat, t <= u,
         Obeys(w, s, e, t)
  PROVE  Obeys(w, s, e, u)
<1>1. ASSUME s # <<>>, Awaited(s, e) <= t PROVE Awaited(s, e) <= u
  <2>1. Awaited(s, e) \in Nat
    BY <1>1, AwaitedTyped
  <2> QED
    BY <1>1, <2>1
<1> QED
  BY <1>1 DEF Obeys

(* Retry-After replaces the delay that is doubled and capped: the back-off *)
(* after it is at least as long as it, or as the cap.                      *)
LEMMA DelayObeys ==
  ASSUME NEW d \in Nat, NEW ra \in RetryAfter, NEW last \in Nat, NEW t \in Nat, last <= t
  PROVE  Least(AskedFor([at |-> t + ra.asks, seconds |-> ra.seconds]), last + MaxDelay)
           <= t + NextDelay(d, ra)
<1> DEFINE asked == AskedFor([at |-> t + ra.asks, seconds |-> ra.seconds])
<1>1. ra.asks \in Nat /\ MaxDelay \in Nat
  BY ClientAssumption DEF Header
<1>2. /\ NextDelay(d, ra) \in Nat /\ asked \in Nat
      /\ asked <= t + NextDelay(d, ra) \/ NextDelay(d, ra) = MaxDelay
  <2>1. CASE ra.seconds
    <3>1. asked = t + ra.asks
      BY <2>1 DEF AskedFor
    <3>2. NextDelay(d, ra) \in Nat /\ (NextDelay(d, ra) >= ra.asks \/ NextDelay(d, ra) = MaxDelay)
      BY <1>1, <2>1 DEF NextDelay, Least
    <3> QED
      BY <1>1, <3>1, <3>2
  <2>2. CASE ~ra.seconds
    <3>1. asked = 0
      BY <2>2 DEF AskedFor
    <3>2. NextDelay(d, ra) \in Nat
      BY <1>1, <2>2 DEF NextDelay, Least
    <3> QED
      BY <3>1, <3>2
  <2> QED
    BY <1>1, <2>1, <2>2
<1>3. ASSUME NEW a \in Nat, NEW n \in Nat, a <= t + n \/ n = MaxDelay
      PROVE  Least(a, last + MaxDelay) <= t + n
  BY <1>1, <1>3 DEF Least
<1> QED
  BY <1>2, <1>3

(* A step of one call leaves the others where they are. *)
LEMMA OthersStay ==
  ASSUME ClientInv, NEW c \in Call, NEW x \in Call, x # c,
         (\E h \in Host, again \in BOOLEAN : Begin(c, h, again)) \/ Proceed(c) \/ Cancelled(c)
  PROVE  call'[x] = call[x] /\ sent'[x] = sent[x] /\ earliest'[x] = earliest[x] /\ now' = now
<1>1. call \in [Call -> CallState] /\ sent \in [Call -> Seq(Nat)] /\ earliest \in [Call -> Asked]
  BY DEF ClientInv, TypeOK
<1>2. ASSUME NEW h \in Host, NEW again \in BOOLEAN, Begin(c, h, again)
      PROVE  call'[x] = call[x] /\ sent'[x] = sent[x] /\ earliest'[x] = earliest[x] /\ now' = now
  BY <1>1, <1>2 DEF Begin
<1>3. CASE FindLimiter(c) \/ MissLimiter(c) \/ MakeLimiter(c)
  BY <1>1, <1>3 DEF FindLimiter, MissLimiter, MakeLimiter, Goto
<1>4. CASE TakeToken(c) \/ NoToken(c)
  BY <1>1, <1>4 DEF TakeToken, NoToken, Goto
<1>5. CASE WakeUp(c) \/ Answered(c) \/ Retry(c) \/ Cancelled(c)
  BY <1>1, <1>5 DEF WakeUp, Answered, Retry, Cancelled, Goto
<1>6. ASSUME NEW ra \in RetryAfter, FailedAttempt(c, ra)
      PROVE  call'[x] = call[x] /\ sent'[x] = sent[x] /\ earliest'[x] = earliest[x] /\ now' = now
  BY <1>1, <1>6 DEF FailedAttempt
<1> QED
  BY <1>2, <1>3, <1>4, <1>5, <1>6 DEF Proceed

(* The steps on the way to the limiter and through it keep the date.       *)
LEMMA WaitingObeys ==
  ASSUME ClientInv, CallsObey, NEW c \in Call,
         \/ FindLimiter(c) \/ MissLimiter(c) \/ MakeLimiter(c)
         \/ NoToken(c) \/ WakeUp(c) \/ Retry(c)
  PROVE  Obeys(call'[c], sent'[c], AskedFor(earliest'[c]), now')
<1>1. /\ call[c] \in CallState /\ sent[c] \in Seq(Nat) /\ AskedFor(earliest[c]) \in Nat /\ now \in Nat
      /\ call \in [Call -> CallState] /\ call[c].wake \in Nat
  BY AskedTyped DEF ClientInv, TypeOK, CallState
<1>2. /\ UNCHANGED <<now, sent, earliest>>
      /\ call'[c].at \in {"limit", "make", "wait", "sleep"}
      /\ \/ call[c].at \in {"limit", "make", "wait", "sleep"}
         \/ call[c].at = "backoff" /\ now >= call[c].wake
  <2>1. CASE FindLimiter(c)
    BY <1>1, <2>1 DEF FindLimiter, CallState
  <2>2. CASE MissLimiter(c)
    BY <1>1, <2>2 DEF MissLimiter, Goto, CallState
  <2>3. CASE MakeLimiter(c)
    BY <1>1, <2>3 DEF MakeLimiter, CallState
  <2>4. CASE NoToken(c)
    BY <1>1, <2>4 DEF NoToken, CallState
  <2>5. CASE WakeUp(c)
    BY <1>1, <2>5 DEF WakeUp, Goto, CallState
  <2>6. CASE Retry(c)
    BY <1>1, <2>6 DEF Retry, Goto, CallState
  <2> QED
    BY <2>1, <2>2, <2>3, <2>4, <2>5, <2>6
<1>3. Obeys(call[c], sent[c], AskedFor(earliest[c]), now)
  BY DEF CallsObey
<1>4. ASSUME sent[c] # <<>> PROVE Awaited(sent[c], AskedFor(earliest[c])) <= now
  <2>1. Awaited(sent[c], AskedFor(earliest[c])) \in Nat
    BY <1>1, <1>4, AwaitedTyped
  <2>2. CASE call[c].at = "backoff" /\ now >= call[c].wake
    <3>1. Awaited(sent[c], AskedFor(earliest[c])) <= call[c].wake
      BY <1>3, <2>2 DEF Obeys
    <3> QED
      BY <1>1, <2>1, <2>2, <3>1
  <2> QED
    BY <1>2, <1>3, <1>4, <2>2 DEF Obeys
<1> QED
  BY <1>2, <1>4 DEF Obeys

(* The token that lets a request go is taken no sooner.                    *)
LEMMA TakeTokenObeys ==
  ASSUME ClientInv, CallsObey, NEW c \in Call, TakeToken(c)
  PROVE  Obeys(call'[c], sent'[c], AskedFor(earliest'[c]), now')
<1>1. PICK q \in Seq(Nat), e \in Nat, t \in Nat : q = sent[c] /\ e = AskedFor(earliest[c]) /\ t = now
  BY AskedTyped DEF ClientInv, TypeOK
<1> DEFINE s == Append(q, t)
<1>2. call'[c].at = "send" /\ sent'[c] = s /\ AskedFor(earliest'[c]) = e /\ now' = t /\ call[c].at = "wait"
  BY <1>1 DEF TakeToken, Goto, ClientInv, TypeOK, CallState
<1>3. Len(s) = Len(q) + 1 /\ s[Len(s)] = t /\ Len(q) \in Nat
  BY OneSent
<1>4. ASSUME Len(s) > 1 PROVE q # <<>> /\ s[Len(s) - 1] = q[Len(q)]
  <2>1. Len(q) \in 1 .. Len(q)
    BY <1>3, <1>4
  <2> QED
    BY <1>3, <2>1
<1> HIDE DEF s
<1>5. Len(s) > 1 => Least(e, s[Len(s) - 1] + MaxDelay) <= s[Len(s)]
  <2> SUFFICES ASSUME Len(s) > 1 PROVE Awaited(q, e) <= t
    BY <1>3, <1>4 DEF Awaited
  <2>1. Obeys(call[c], q, e, t)
    BY <1>1 DEF CallsObey
  <2> QED
    BY <1>2, <1>4, <2>1 DEF Obeys
<1> QED
  BY <1>2, <1>5 DEF Obeys

(* A failed attempt backs off for as long as the answer to it asks.        *)
LEMMA FailedAttemptObeys ==
  ASSUME ClientInv, NEW c \in Call, NEW ra \in RetryAfter, FailedAttempt(c, ra)
  PROVE  Obeys(call'[c], sent'[c], AskedFor(earliest'[c]), now')
<1>1. PICK s \in Seq(Nat), t \in Nat, d \in Nat :
        s = sent[c] /\ t = now /\ d = call[c].delay
  BY DEF ClientInv, TypeOK, CallState
<1> DEFINE e == AskedFor([at |-> t + ra.asks, seconds |-> ra.seconds])
<1>2. /\ call'[c].at \in {"backoff", "done"} /\ call'[c].wake = t + NextDelay(d, ra)
      /\ sent'[c] = s /\ now' = t
      /\ call'[c].at = "backoff" => AskedFor(earliest'[c]) = e
  BY <1>1 DEF FailedAttempt, ClientInv, TypeOK, CallState
<1>3. s # <<>> /\ s[Len(s)] <= t
  <2>1. Len(s) = call[c].attempt + 1 /\ s[Len(s)] <= t /\ call[c].attempt \in Nat
    BY <1>1 DEF FailedAttempt, ClientInv, TypeOK, CallState, CallsProgress, Progress
  <2> QED
    BY <2>1
<1>4. s[Len(s)] \in Nat
  BY <1>3
<1>5. Awaited(s, e) <= t + NextDelay(d, ra)
  BY <1>3, <1>4, DelayObeys DEF Awaited
<1> HIDE DEF e
<1> QED
  BY <1>2, <1>3, <1>5 DEF Obeys

LEMMA CallObeys ==
  ASSUME ClientInv, CallsObey, NEW c \in Call,
         (\E h \in Host, again \in BOOLEAN : Begin(c, h, again)) \/ Proceed(c) \/ Cancelled(c)
  PROVE  CallsObey'
<1> SUFFICES ASSUME NEW x \in Call PROVE Obeys(call'[x], sent'[x], AskedFor(earliest'[x]), now')
  BY DEF CallsObey
<1>1. CASE x # c
  BY <1>1, OthersStay DEF CallsObey
<1>2. CASE x = c
  <2>1. ASSUME NEW h \in Host, NEW again \in BOOLEAN, Begin(c, h, again)
        PROVE  Obeys(call'[c], sent'[c], AskedFor(earliest'[c]), now')
    <3>1. call'[c].at = "limit"
      BY <2>1 DEF Begin, NotCalled, ClientInv, TypeOK
    <3>2. sent'[c] = <<>>
      BY <2>1 DEF Begin, ClientInv, CallsProgress, Progress
    <3> QED
      BY <3>1, <3>2 DEF Obeys
  <2>2. ASSUME Answered(c) \/ Cancelled(c)
        PROVE  Obeys(call'[c], sent'[c], AskedFor(earliest'[c]), now')
    <3>1. call'[c].at = "done"
      BY <2>2 DEF Answered, Cancelled, Goto, ClientInv, TypeOK, CallState
    <3> QED
      BY <3>1 DEF Obeys
  <2> QED
    BY <1>2, <2>1, <2>2, WaitingObeys, TakeTokenObeys, FailedAttemptObeys DEF Proceed
<1> QED
  BY <1>1, <1>2

(* A retry is not sent before the time that the server's Retry-After gave, *)
(* or MaxDelay after the attempt, through whatever waits at the limiter.   *)
THEOREM RetryAfterObeyed == Spec => []RetryAfterHoldsUpToTheCap
<1>1. Init => CallsObey
  BY Defaults DEF Init, CallsObey, Obeys
<1>2. ClientInv /\ CallsObey /\ [Next]_vars => CallsObey'
  <2> SUFFICES ASSUME ClientInv, CallsObey, [Next]_vars PROVE CallsObey'
    OBVIOUS
  <2>1. CASE Tick
    <3>1. PICK t \in Nat : t = now /\ now' = t + 1 /\ t + 1 \in Nat /\ t <= t + 1
      BY <2>1 DEF Tick, ClientInv, TypeOK
    <3>2. UNCHANGED <<call, sent, earliest>>
      BY <2>1 DEF Tick
    <3>3. ASSUME NEW c \in Call PROVE Obeys(call[c], sent[c], AskedFor(earliest[c]), t + 1)
      <4>1. sent[c] \in Seq(Nat) /\ AskedFor(earliest[c]) \in Nat /\ Obeys(call[c], sent[c], AskedFor(earliest[c]), t)
        BY <3>1, AskedTyped DEF ClientInv, TypeOK, CallsObey
      <4> QED
        BY <3>1, <4>1, StillObeys
    <3> QED
      BY <3>1, <3>2, <3>3 DEF CallsObey
  <2>2. CASE UNCHANGED vars
    BY <2>2 DEF vars, CallsObey
  <2> QED
    BY <2>1, <2>2, CallObeys DEF Next, Finished
<1>3. ClientInv /\ CallsObey => RetryAfterHoldsUpToTheCap
  <2> SUFFICES ASSUME ClientInv, CallsObey, NEW c \in Call, call[c].at = "send", Len(sent[c]) > 1
               PROVE  sent[c][Len(sent[c])]
                        >= Least(AskedFor(earliest[c]), sent[c][Len(sent[c]) - 1] + MaxDelay)
    BY DEF RetryAfterHoldsUpToTheCap
  <2>1. Least(AskedFor(earliest[c]), sent[c][Len(sent[c]) - 1] + MaxDelay) <= sent[c][Len(sent[c])]
    BY DEF CallsObey, Obeys
  <2> QED
    BY <2>1
<1> QED
  BY <1>1, <1>2, <1>3, ClientInvariance, PTL DEF Spec
=============================================================================
