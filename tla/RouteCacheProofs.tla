--------------------------- MODULE RouteCacheProofs ---------------------------
(***************************************************************************)
(* For any number of requests and tokens, any lifetime and any step        *)
(* length: an outdated token dies in time, and a route that checks for an  *)
(* empty token never finds one cached.                                     *)
(***************************************************************************)
EXTENDS RouteCache, TLAPS

(* Until when a version of a token may be used at most, if it has been     *)
(* replaced: slack after the replacement.                                  *)
Within(k, ver, time, slack) ==
  ver \in 1 .. Len(since[k]) - 1 => time <= since[k][ver + 1] + slack

(* What each request knows, and how old it is. *)
TryInv(r) ==
  LET k == try[r].token
      v == try[r].ver
      t == try[r].time
  IN  /\ try[r].at \in {"keep", "have", "accepted", "refused"} => v \in 0 .. Len(since[k])
      /\ try[r].at = "keep" => /\ k \in Checked => v # 0
                               /\ Within(k, v, t, 0)
                               /\ t <= now /\ now <= t + MaxWork
      /\ try[r].at = "have" => /\ Within(k, v, t, TokenTTL + MaxWork)
                               /\ t <= now /\ now <= t + MaxWork
      /\ try[r].at = "refused" => /\ v \in 1 .. Len(since[k]) - 1
                                  /\ Within(k, v, t, TokenTTL + 2 * MaxWork)

EntryInv(k) ==
  entry[k] # NoEntry =>
    /\ entry[k].ver \in 0 .. Len(since[k])
    /\ k \in Checked => entry[k].ver # 0
    /\ entry[k].exp <= now + TokenTTL
    /\ Within(k, entry[k].ver, entry[k].exp, TokenTTL + MaxWork)

TokenInv ==
  /\ TokensOK
  /\ \A k \in Token : Len(since[k]) >= 1 /\ \A i \in 1 .. Len(since[k]) : since[k][i] <= now
  /\ \A k \in Token : EntryInv(k)
  /\ \A r \in Caller : TryInv(r)

-----------------------------------------------------------------------------
(* A step of a request other than TokenKeep leaves the clock, the site and *)
(* the cache alone; what it knows then is for each action to show.         *)
LEMMA TryStep ==
  ASSUME TokenInv, NEW r \in Caller, NEW t \in [at : TrySteps, token : Token, ver : 0 .. MaxKeys + 1, time : Nat],
         try' = [try EXCEPT ![r] = t], UNCHANGED <<now, since>>,
         TokensOK', \A k \in Token : EntryInv(k)', TryInv(r)'
  PROVE  TokenInv'
<1>1. ASSUME NEW s \in Caller, s # r PROVE TryInv(s)'
  <2>1. try'[s] = try[s]
    BY <1>1 DEF TokenInv, TokensOK
  <2>2. TryInv(s)
    BY DEF TokenInv
  <2> QED
    BY <2>1, <2>2 DEF TryInv, Within
<1> QED
  BY <1>1 DEF TokenInv

LEMMA EntriesStay ==
  ASSUME TokenInv, UNCHANGED <<now, since, entry>>
  PROVE  \A k \in Token : EntryInv(k)'
BY DEF TokenInv, EntryInv, Within


(* Times in a list, and sums of bounds. *)
LEMMA NextSince ==
  ASSUME NEW s \in Seq(Nat), NEW v \in 1 .. Len(s) - 1 PROVE s[v + 1] \in Nat /\ v + 1 \in 1 .. Len(s)
OBVIOUS

LEMMA Sum1 ==
  ASSUME NEW a \in Nat, NEW b \in Nat, NEW s \in Nat, NEW l \in Nat, NEW w \in Nat, a <= b, b <= s + (l + w)
  PROVE  a <= s + (l + w)
OBVIOUS

LEMMA Sum2 ==
  ASSUME NEW a \in Nat, NEW b \in Nat, NEW s \in Nat, NEW l \in Nat, NEW w \in Nat, a <= b + w, b <= s + 0
  PROVE  a <= s + (l + w) /\ a + l <= s + (l + w)
OBVIOUS

LEMMA Sum3 ==
  ASSUME NEW a \in Nat, NEW b \in Nat, NEW s \in Nat, NEW l \in Nat, NEW w \in Nat, a <= b + w, b <= s + (l + w)
  PROVE  a <= s + (l + 2 * w)
OBVIOUS

(* What TokensOK says of one request. *)
LEMMA TypesOf ==
  ASSUME TokensOK, NEW r \in Caller
  PROVE  /\ now \in Nat
         /\ try[r].token \in Token /\ try[r].ver \in 0 .. MaxKeys + 1 /\ try[r].time \in Nat
         /\ since[try[r].token] \in Seq(Nat) /\ Len(since[try[r].token]) \in Nat
<1>1. now \in Nat
  BY DEF TokensOK
<1>2. try[r] \in [at : TrySteps, token : Token, ver : 0 .. MaxKeys + 1, time : Nat]
  BY DEF TokensOK
<1>3. try[r].token \in Token /\ try[r].ver \in 0 .. MaxKeys + 1 /\ try[r].time \in Nat
  BY <1>2
<1>4. since[try[r].token] \in Seq(Nat)
  BY <1>3 DEF TokensOK
<1> QED
  BY <1>1, <1>3, <1>4

(* TokensOK over a step of a request, the entries apart. *)
LEMMA TypesStay ==
  ASSUME TokensOK, NEW r \in Caller, NEW t \in [at : TrySteps, token : Token, ver : 0 .. MaxKeys + 1, time : Nat],
         try' = [try EXCEPT ![r] = t], UNCHANGED <<now, since>>,
         entry' \in [Token -> [ver : 0 .. MaxKeys + 1, exp : Nat] \cup {NoEntry}]
  PROVE  TokensOK'
BY DEF TokensOK, NoEntry

LEMMA Init0 ==
  ASSUME TokenAssumption, TokenInit PROVE TokenInv
<1>1. /\ now = 0 /\ since = [k \in Token |-> <<0>>] /\ entry = [k \in Token |-> NoEntry]
      /\ try = [r \in Caller |-> NoTry]
  BY DEF TokenInit
<1>2. (CHOOSE k \in Token : TRUE) \in Token
  BY DEF TokenAssumption
<1>3. NoTry \in [at : TrySteps, token : Token, ver : 0 .. MaxKeys + 1, time : Nat]
  BY <1>2 DEF NoTry, TrySteps, TokenAssumption
<1>4. <<0>> \in Seq(Nat) /\ Len(<<0>>) = 1 /\ <<0>>[1] = 0
  OBVIOUS
<1>5. TokensOK
  BY <1>1, <1>3, <1>4 DEF TokensOK, TokenAssumption
<1>6. \A k \in Token : Len(since[k]) >= 1 /\ \A i \in 1 .. Len(since[k]) : since[k][i] <= now
  BY <1>1, <1>4
<1>7. \A k \in Token : EntryInv(k)
  BY <1>1 DEF EntryInv
<1>8. \A r \in Caller : TryInv(r)
  <2> SUFFICES ASSUME NEW r \in Caller PROVE TryInv(r)
    OBVIOUS
  <2>1. try[r].at = "idle"
    BY <1>1 DEF NoTry
  <2> QED
    BY <2>1 DEF TryInv
<1> QED
  BY <1>5, <1>6, <1>7, <1>8 DEF TokenInv

LEMMA HitStep ==
  ASSUME TokenAssumption, TokenInv, NEW r \in Caller, NEW k \in Token, TokenHit(r, k) PROVE TokenInv'
<1> DEFINE t == [at |-> "have", token |-> k, ver |-> entry[k].ver, time |-> now]
<1>1. /\ entry[k] # NoEntry /\ now <= entry[k].exp
      /\ try' = [try EXCEPT ![r] = t] /\ UNCHANGED <<now, since, entry>>
  BY DEF TokenHit, Cached
<1>2. /\ entry[k] \in [ver : 0 .. MaxKeys + 1, exp : Nat] /\ now \in Nat /\ try \in [Caller -> [at : TrySteps, token : Token, ver : 0 .. MaxKeys + 1, time : Nat]]
      /\ since[k] \in Seq(Nat) /\ EntryInv(k) /\ TokensOK
  <2>1. TokensOK /\ EntryInv(k)
    BY DEF TokenInv
  <2>2. entry[k] \in [ver : 0 .. MaxKeys + 1, exp : Nat] \cup {NoEntry}
    BY <2>1 DEF TokensOK
  <2> QED
    BY <1>1, <2>1, <2>2 DEF TokensOK
<1>3. t \in [at : TrySteps, token : Token, ver : 0 .. MaxKeys + 1, time : Nat]
  BY <1>2 DEF TrySteps
<1>4. try'[r] = t
  BY <1>1, <1>2
<1>5. TryInv(r)'
  <2>1. entry[k].ver \in 0 .. Len(since[k]) /\ Within(k, entry[k].ver, entry[k].exp, TokenTTL + MaxWork)
    BY <1>1, <1>2 DEF EntryInv
  <2>2. Within(k, entry[k].ver, now, TokenTTL + MaxWork)
    <3> SUFFICES ASSUME entry[k].ver \in 1 .. Len(since[k]) - 1
                 PROVE  now <= since[k][entry[k].ver + 1] + (TokenTTL + MaxWork)
      BY DEF Within
    <3>1. entry[k].exp <= since[k][entry[k].ver + 1] + (TokenTTL + MaxWork)
      BY <2>1 DEF Within
    <3>2. since[k][entry[k].ver + 1] \in Nat
      BY <1>2, NextSince
    <3>3. entry[k].exp \in Nat /\ TokenTTL \in Nat /\ MaxWork \in Nat /\ now \in Nat /\ now <= entry[k].exp
      BY <1>1, <1>2 DEF TokenAssumption
    <3> HIDE DEF t
    <3> QED
      BY <3>1, <3>2, <3>3, Sum1
  <2>3. now <= now + MaxWork
    BY <1>2 DEF TokenAssumption
  <2>4. t.at = "have" /\ t.token = k /\ t.ver = entry[k].ver /\ t.time = now /\ now <= now
    BY <1>2
  <2> HIDE DEF t
  <2> QED
    BY <1>1, <1>4, <2>1, <2>2, <2>3, <2>4 DEF TryInv, Within
<1>6. TokensOK'
  BY <1>1, <1>2, <1>3, TypesStay DEF TokensOK
<1> QED
  BY <1>1, <1>3, <1>5, <1>6, TryStep, EntriesStay

LEMMA MissStep ==
  ASSUME TokenAssumption, TokenInv, NEW r \in Caller, NEW k \in Token, TokenMiss(r, k) PROVE TokenInv'
<1> DEFINE t == [at |-> "compute", token |-> k, ver |-> 0, time |-> now]
<1>1. try' = [try EXCEPT ![r] = t] /\ UNCHANGED <<now, since, entry>>
  BY DEF TokenMiss
<1>2. TokensOK /\ now \in Nat
  BY TypesOf DEF TokenInv
<1>3. t \in [at : TrySteps, token : Token, ver : 0 .. MaxKeys + 1, time : Nat]
  BY <1>2 DEF TrySteps, TokenAssumption
<1>4. try'[r] = t
  BY <1>1, <1>2 DEF TokensOK
<1>5. TryInv(r)'
  BY <1>4 DEF TryInv
<1>6. TokensOK'
  BY <1>1, <1>2, <1>3, TypesStay DEF TokensOK
<1> QED
  BY <1>1, <1>3, <1>5, <1>6, TryStep, EntriesStay

(* A fetch that ends: with the token in force, an empty one or an error. *)
LEMMA FetchStep ==
  ASSUME TokenAssumption, TokenInv, NEW r \in Caller, NEW step \in {"keep", "failed"}, NEW v \in 0 .. MaxKeys + 1,
         try' = [try EXCEPT ![r] = [at |-> step, token |-> try[r].token, ver |-> v, time |-> now]],
         UNCHANGED <<now, since, entry>>,
         step = "keep" => v \in {0, Current(try[r].token)} /\ (try[r].token \in Checked => v # 0)
  PROVE  TokenInv'
<1> DEFINE k == try[r].token
           t == [at |-> step, token |-> k, ver |-> v, time |-> now]
<1>1. TokensOK /\ now \in Nat /\ k \in Token /\ since[k] \in Seq(Nat) /\ Len(since[k]) \in Nat
  BY TypesOf DEF TokenInv
<1>3. t \in [at : TrySteps, token : Token, ver : 0 .. MaxKeys + 1, time : Nat]
  BY <1>1 DEF TrySteps
<1>4. try'[r] = t
  BY <1>1 DEF TokensOK
<1>5. TryInv(r)'
  <2>1. CASE step = "keep"
    <3>1. v \in 0 .. Len(since[k]) /\ ~(v \in 1 .. Len(since[k]) - 1)
      BY <1>1, <2>1 DEF Current
    <3>2. now <= now + MaxWork
      BY <1>1 DEF TokenAssumption
    <3>3. t.at = "keep" /\ t.token = k /\ t.ver = v /\ t.time = now /\ now <= now
      BY <1>1, <2>1
    <3>4. k \in Checked => v # 0
      BY <2>1
    <3> HIDE DEF t, k
    <3> QED
      BY <1>1, <1>4, <3>1, <3>2, <3>3, <3>4 DEF TryInv, Within
  <2>2. CASE step = "failed"
    BY <1>4, <2>2 DEF TryInv
  <2> QED
    BY <2>1, <2>2
<1>6. TokensOK'
  BY <1>1, <1>3, TypesStay DEF TokensOK
<1> QED
  BY <1>3, <1>5, <1>6, TryStep, EntriesStay

LEMMA ReadStep ==
  ASSUME TokenAssumption, TokenInv, NEW r \in Caller, TokenRead(r) PROVE TokenInv'
<1> DEFINE v == Current(try[r].token)
<1>1. try[r].token \in Token /\ TokensOK
  BY DEF TokenInv, TokensOK
<1>2. v \in 0 .. MaxKeys + 1 /\ v # 0
  BY <1>1 DEF TokenInv, TokensOK, Current, TokenAssumption
<1>3. try' = [try EXCEPT ![r] = [at |-> "keep", token |-> try[r].token, ver |-> v, time |-> now]]
  BY <1>1 DEF Goes, TokenRead
<1> QED
  BY <1>2, <1>3, FetchStep DEF TokenRead

LEMMA EmptyStep ==
  ASSUME TokenAssumption, TokenInv, NEW r \in Caller, TokenEmpty(r) PROVE TokenInv'
<1> DEFINE step == IF try[r].token \in Checked THEN "failed" ELSE "keep"
<1>1. TokensOK
  BY DEF TokenInv
<1>2. try' = [try EXCEPT ![r] = [at |-> step, token |-> try[r].token, ver |-> 0, time |-> now]]
  BY <1>1 DEF Goes, TokenEmpty
<1>3. 0 \in 0 .. MaxKeys + 1 /\ step \in {"keep", "failed"}
  BY DEF TokenAssumption
<1>4. step = "keep" => try[r].token \notin Checked
  OBVIOUS
<1> HIDE DEF step
<1> QED
  BY <1>2, <1>3, <1>4, FetchStep DEF TokenEmpty

LEMMA FailStep ==
  ASSUME TokenAssumption, TokenInv, NEW r \in Caller, TokenFails(r) PROVE TokenInv'
<1>1. TokensOK
  BY DEF TokenInv
<1>2. try' = [try EXCEPT ![r] = [at |-> "failed", token |-> try[r].token, ver |-> try[r].ver, time |-> now]]
  BY <1>1 DEF Goes, TokenFails
<1>3. try[r].ver \in 0 .. MaxKeys + 1
  BY <1>1 DEF TokensOK
<1> QED
  BY <1>2, <1>3, FetchStep DEF TokenFails

LEMMA KeepStep ==
  ASSUME TokenAssumption, TokenInv, NEW r \in Caller, TokenKeep(r) PROVE TokenInv'
<1> DEFINE k == try[r].token
           v == try[r].ver
           t == [at |-> "have", token |-> k, ver |-> v, time |-> now]
           e == [ver |-> v, exp |-> now + TokenTTL]
<1>1. TokensOK /\ now \in Nat /\ k \in Token /\ since[k] \in Seq(Nat) /\ Len(since[k]) \in Nat
      /\ v \in 0 .. MaxKeys + 1 /\ try[r].time \in Nat
  BY TypesOf DEF TokenInv
<1>2. try' = [try EXCEPT ![r] = t] /\ UNCHANGED <<now, since>> /\ entry' = [entry EXCEPT ![k] = e]
  BY <1>1 DEF Goes, TokenKeep
<1>3. /\ v \in 0 .. Len(since[k]) /\ (k \in Checked => v # 0)
      /\ Within(k, v, try[r].time, 0) /\ try[r].time <= now /\ now <= try[r].time + MaxWork
  BY DEF TokenInv, TryInv, TokenKeep
<1>4. Within(k, v, now, TokenTTL + MaxWork) /\ Within(k, v, now + TokenTTL, TokenTTL + MaxWork)
  <2> SUFFICES ASSUME v \in 1 .. Len(since[k]) - 1
               PROVE  /\ now <= since[k][v + 1] + (TokenTTL + MaxWork)
                      /\ now + TokenTTL <= since[k][v + 1] + (TokenTTL + MaxWork)
    BY DEF Within
  <2>1. try[r].time <= since[k][v + 1] + 0
    BY <1>3 DEF Within
  <2>2. since[k][v + 1] \in Nat
    BY <1>1, NextSince
  <2>3. TokenTTL \in Nat /\ MaxWork \in Nat
    BY DEF TokenAssumption
  <2> HIDE DEF k, v
  <2> QED
    BY <1>1, <1>3, <2>1, <2>2, <2>3, Sum2
<1>5. t \in [at : TrySteps, token : Token, ver : 0 .. MaxKeys + 1, time : Nat]
  BY <1>1 DEF TrySteps
<1>6. e \in [ver : 0 .. MaxKeys + 1, exp : Nat] /\ now <= now + MaxWork
  BY <1>1 DEF TokenAssumption
<1>7. try'[r] = t /\ entry'[k] = e /\ \A l \in Token \ {k} : entry'[l] = entry[l]
  BY <1>1, <1>2 DEF TokensOK
<1>8. TokensOK'
  <2>1. entry' \in [Token -> [ver : 0 .. MaxKeys + 1, exp : Nat] \cup {NoEntry}]
    BY <1>1, <1>2, <1>6 DEF TokensOK
  <2> QED
    BY <1>1, <1>2, <1>5, <2>1, TypesStay
<1>9. TryInv(r)'
  <2>1. t.at = "have" /\ t.token = k /\ t.ver = v /\ t.time = now /\ now <= now
    BY <1>1
  <2> HIDE DEF t, k, v
  <2> QED
    BY <1>1, <1>2, <1>3, <1>4, <1>6, <1>7, <2>1 DEF TryInv, Within
<1>10. ASSUME NEW l \in Token PROVE EntryInv(l)'
  <2>1. CASE l = k
    <3>1. /\ e.ver \in 0 .. Len(since[k]) /\ (k \in Checked => e.ver # 0)
          /\ e.exp <= now + TokenTTL /\ Within(k, e.ver, e.exp, TokenTTL + MaxWork)
      BY <1>1, <1>3, <1>4 DEF TokenAssumption
    <3> QED
      BY <1>2, <1>7, <2>1, <3>1 DEF EntryInv, Within
  <2>2. CASE l # k
    BY <1>2, <1>7, <2>2 DEF TokenInv, EntryInv, Within
  <2> QED
    BY <2>1, <2>2
<1> QED
  BY <1>2, <1>5, <1>8, <1>9, <1>10, TryStep

LEMMA UsedStep ==
  ASSUME TokenAssumption, TokenInv, NEW r \in Caller, TokenUsed(r) PROVE TokenInv'
<1> DEFINE k == try[r].token
           v == try[r].ver
           step == CASE v = 0 -> "failed" [] v = Current(k) -> "accepted" [] OTHER -> "refused"
           t == [at |-> step, token |-> k, ver |-> v, time |-> now]
<1>1. TokensOK /\ now \in Nat /\ k \in Token /\ since[k] \in Seq(Nat) /\ Len(since[k]) \in Nat /\ Len(since[k]) >= 1
      /\ v \in 0 .. MaxKeys + 1 /\ try[r].time \in Nat
  BY TypesOf DEF TokenInv
<1>2. try' = [try EXCEPT ![r] = t] /\ UNCHANGED <<now, since, entry>>
  BY <1>1 DEF Goes, TokenUsed
<1>3. /\ v \in 0 .. Len(since[k])
      /\ Within(k, v, try[r].time, TokenTTL + MaxWork) /\ now <= try[r].time + MaxWork
  BY DEF TokenInv, TryInv, TokenUsed
<1>4. step \in {"failed", "accepted", "refused"} /\ (step = "refused" => v \in 1 .. Len(since[k]) - 1)
  <2>1. CASE v = 0
    BY <2>1
  <2>2. CASE v # 0 /\ v = Current(k)
    BY <2>2
  <2>3. CASE v # 0 /\ v # Current(k)
    <3>1. step = "refused"
      BY <2>3
    <3>2. v # Len(since[k]) /\ v # 0
      BY <2>3 DEF Current
    <3> HIDE DEF step, t
    <3>3. v \in 1 .. Len(since[k]) - 1
      <4> DEFINE n == Len(since[k])
      <4>1. n \in Nat /\ v \in 0 .. n /\ v # n /\ v # 0
        BY <1>1, <1>3, <3>2
      <4> HIDE DEF n, v, k
      <4>2. v \in 1 .. n - 1
        BY <4>1
      <4> QED
        BY <4>2 DEF n
    <3> QED
      BY <3>1, <3>3
  <2> QED
    BY <2>1, <2>2, <2>3
<1> HIDE DEF step
<1>5. Within(k, v, now, TokenTTL + 2 * MaxWork)
  <2> SUFFICES ASSUME v \in 1 .. Len(since[k]) - 1
               PROVE  now <= since[k][v + 1] + (TokenTTL + 2 * MaxWork)
    BY DEF Within
  <2>1. try[r].time <= since[k][v + 1] + (TokenTTL + MaxWork)
    BY <1>3 DEF Within
  <2>2. since[k][v + 1] \in Nat
    BY <1>1, NextSince
  <2>3. TokenTTL \in Nat /\ MaxWork \in Nat
    BY DEF TokenAssumption
  <2> HIDE DEF k, v
  <2> QED
    BY <1>1, <1>3, <2>1, <2>2, <2>3, Sum3
<1>6. t \in [at : TrySteps, token : Token, ver : 0 .. MaxKeys + 1, time : Nat]
  BY <1>1, <1>4 DEF TrySteps
<1>7. try'[r] = t
  BY <1>1, <1>2 DEF TokensOK
<1>8. TokensOK'
  BY <1>1, <1>2, <1>6, TypesStay DEF TokensOK
<1>9. TryInv(r)'
  BY <1>2, <1>3, <1>4, <1>5, <1>7 DEF TryInv, Within
<1> QED
  BY <1>2, <1>6, <1>8, <1>9, TryStep, EntriesStay

-----------------------------------------------------------------------------
(* A key that comes into force is the newest and begins now: what was in   *)
(* force before has now as the time of its replacement.                    *)
LEMMA ReplaceStep ==
  ASSUME TokenAssumption, TokenInv, NEW k \in Token, SiteReplaces(k) PROVE TokenInv'
<1> DEFINE n == Len(since[k])
<1>1. /\ TokensOK /\ now \in Nat /\ since[k] \in Seq(Nat) /\ n \in Nat /\ n >= 1 /\ n <= MaxKeys
      /\ since' = [since EXCEPT ![k] = Append(since[k], now)] /\ UNCHANGED <<now, entry, try>>
  BY DEF TokenInv, TokensOK, SiteReplaces, Current
<1>2. /\ since'[k] = Append(since[k], now) /\ Len(since'[k]) = n + 1 /\ since'[k] \in Seq(Nat)
      /\ since'[k][n + 1] = now /\ \A i \in 1 .. n : since'[k][i] = since[k][i]
  BY <1>1 DEF TokensOK
<1>3. \A l \in Token \ {k} : since'[l] = since[l]
  BY <1>1 DEF TokensOK
<1>4. TokensOK'
  <2>1. since' \in [Token -> Seq(Nat)]
    BY <1>1, <1>2 DEF TokensOK
  <2>2. \A l \in Token : Len(since'[l]) <= MaxKeys + 1
    BY <1>1, <1>2, <1>3 DEF TokensOK, TokenAssumption
  <2> QED
    BY <1>1, <2>1, <2>2 DEF TokensOK, NoEntry
<1>5. \A l \in Token : Len(since'[l]) >= 1 /\ \A i \in 1 .. Len(since'[l]) : since'[l][i] <= now'
  <2> TAKE l \in Token
  <2>1. CASE l = k
    BY <1>1, <1>2, <2>1 DEF TokenInv
  <2>2. CASE l # k
    BY <1>1, <1>3, <2>2 DEF TokenInv
  <2> QED
    BY <2>1, <2>2
(* the bound moves only for the version that has just been replaced *)
<1>6. ASSUME NEW l \in Token, NEW v \in Nat, NEW t \in Nat, NEW slack \in Nat,
             Within(l, v, t, slack), t <= now + slack
      PROVE  Within(l, v, t, slack)'
  <2>1. CASE l # k
    BY <1>3, <1>6, <2>1 DEF Within
  <2>2. CASE l = k /\ v = n
    <3>1. since'[l][v + 1] = now
      BY <1>2, <2>2
    <3> QED
      BY <1>6, <3>1 DEF Within
  <2>3. CASE l = k /\ v # n
    <3> SUFFICES ASSUME v \in 1 .. n, v # n PROVE t <= since'[k][v + 1] + slack
      BY <1>2, <2>3, <1>1 DEF Within
    <3>1. v \in 1 .. n - 1 /\ v + 1 \in 1 .. n
      BY <1>1
    <3> QED
      BY <1>2, <1>6, <2>3, <3>1 DEF Within
  <2> QED
    BY <2>1, <2>2, <2>3
<1>7. \A l \in Token : Len(since'[l]) \in Nat /\ Len(since[l]) \in Nat /\ Len(since[l]) <= Len(since'[l])
  BY <1>1, <1>2, <1>3 DEF TokensOK
<1>8. ASSUME NEW l \in Token PROVE EntryInv(l)'
  <2> SUFFICES ASSUME entry[l] # NoEntry PROVE EntryInv(l)'
    BY <1>1 DEF EntryInv
  <2>1. /\ entry[l].ver \in 0 .. Len(since[l]) /\ (l \in Checked => entry[l].ver # 0)
        /\ entry[l].exp <= now + TokenTTL /\ Within(l, entry[l].ver, entry[l].exp, TokenTTL + MaxWork)
    BY DEF TokenInv, EntryInv
  <2>2. entry[l].exp \in Nat /\ entry[l].ver \in Nat
    BY <1>1 DEF TokensOK
  <2>3. entry[l].exp <= now + (TokenTTL + MaxWork) /\ TokenTTL + MaxWork \in Nat
    BY <1>1, <2>1, <2>2 DEF TokenAssumption
  <2>4. Within(l, entry[l].ver, entry[l].exp, TokenTTL + MaxWork)'
    BY <1>1, <1>6, <2>1, <2>2, <2>3 DEF Within
  <2>5. entry[l].ver \in 0 .. Len(since'[l])
    BY <1>7, <2>1
  <2> QED
    BY <1>1, <2>1, <2>4, <2>5 DEF EntryInv
<1>9. ASSUME NEW r \in Caller PROVE TryInv(r)'
  <2> DEFINE l == try[r].token
             v == try[r].ver
             t == try[r].time
  <2>1. l \in Token /\ v \in Nat /\ t \in Nat /\ try' = try /\ now' = now
    BY <1>1 DEF TokensOK
  <2>2. TryInv(r)
    BY DEF TokenInv
  <2>3. 0 \in Nat /\ TokenTTL + MaxWork \in Nat /\ TokenTTL + 2 * MaxWork \in Nat /\ MaxWork \in Nat
    BY DEF TokenAssumption
  <2>4. CASE try[r].at = "keep"
    <3>1. Within(l, v, t, 0) /\ t <= now /\ now <= t + MaxWork /\ v \in 0 .. Len(since[l]) /\ (l \in Checked => v # 0)
      BY <2>2, <2>4 DEF TryInv
    <3>2. t <= now + 0
      BY <1>1, <2>1, <3>1
    <3>3. Within(l, v, t, 0)'
      BY <1>6, <2>1, <2>3, <3>1, <3>2
    <3>4. v \in 0 .. Len(since'[l])
      BY <1>7, <2>1, <3>1
    <3> QED
      BY <2>1, <2>4, <3>1, <3>3, <3>4 DEF TryInv, Within
  <2>5. CASE try[r].at = "have"
    <3>1. Within(l, v, t, TokenTTL + MaxWork) /\ t <= now /\ now <= t + MaxWork /\ v \in 0 .. Len(since[l])
      BY <2>2, <2>5 DEF TryInv
    <3>2. t <= now + (TokenTTL + MaxWork)
      BY <1>1, <2>1, <2>3, <3>1
    <3>3. Within(l, v, t, TokenTTL + MaxWork)'
      BY <1>6, <2>1, <2>3, <3>1, <3>2
    <3>4. v \in 0 .. Len(since'[l])
      BY <1>7, <2>1, <3>1
    <3> QED
      BY <2>1, <2>5, <3>1, <3>3, <3>4 DEF TryInv, Within
  <2>6. CASE try[r].at = "refused"
    <3>1. v \in 1 .. Len(since[l]) - 1 /\ t <= since[l][v + 1] + (TokenTTL + 2 * MaxWork)
      BY <2>2, <2>6 DEF TryInv, Within
    <3>2. since'[l][v + 1] = since[l][v + 1]
      <4>1. CASE l = k
        <5>1. v + 1 \in 1 .. Len(since[k])
          BY <1>1, <3>1, <4>1, NextSince
        <5> QED
          BY <1>2, <4>1, <5>1
      <4>2. CASE l # k
        BY <1>3, <2>1, <4>2
      <4> QED
        BY <4>1, <4>2
    <3>3. v \in 1 .. Len(since'[l]) - 1 /\ v \in 0 .. Len(since'[l])
      BY <1>7, <2>1, <3>1
    <3> QED
      BY <2>1, <2>6, <3>1, <3>2, <3>3 DEF TryInv, Within
  <2>7. CASE try[r].at = "accepted"
    <3>1. v \in 0 .. Len(since'[l])
      BY <1>7, <2>1, <2>2, <2>7 DEF TryInv
    <3> QED
      BY <2>1, <2>7, <3>1 DEF TryInv
  <2>8. CASE try[r].at \notin {"keep", "have", "refused", "accepted"}
    BY <2>1, <2>8 DEF TryInv
  <2> QED
    BY <2>4, <2>5, <2>6, <2>7, <2>8
<1> QED
  BY <1>4, <1>5, <1>8, <1>9 DEF TokenInv

LEMMA TickStep ==
  ASSUME TokenAssumption, TokenInv, TokenTick PROVE TokenInv'
<1>1. /\ TokensOK /\ now \in Nat /\ now < MaxNow /\ now' = now + 1 /\ UNCHANGED <<since, entry, try>>
      /\ \A r \in Caller : try[r].at \in {"keep", "have"} => now < try[r].time + MaxWork
  BY DEF TokenInv, TokensOK, TokenTick
<1>2. TokensOK'
  <2>1. now' \in 0 .. MaxNow
    BY <1>1 DEF TokenAssumption
  <2> QED
    BY <1>1, <2>1 DEF TokensOK, NoEntry
<1>3. \A k \in Token : Len(since'[k]) >= 1 /\ \A i \in 1 .. Len(since'[k]) : since'[k][i] <= now'
  <2> TAKE k \in Token
  <2>1. since[k] \in Seq(Nat) /\ Len(since[k]) >= 1 /\ \A i \in 1 .. Len(since[k]) : since[k][i] <= now
    BY <1>1 DEF TokenInv, TokensOK
  <2> QED
    BY <1>1, <2>1
<1>4. ASSUME NEW k \in Token PROVE EntryInv(k)'
  <2> SUFFICES ASSUME entry[k] # NoEntry PROVE EntryInv(k)'
    BY <1>1 DEF EntryInv
  <2>1. EntryInv(k) /\ entry[k].exp \in Nat
    BY <1>1 DEF TokenInv, TokensOK
  <2>2. entry[k].exp <= now' + TokenTTL
    BY <1>1, <2>1 DEF EntryInv, TokenAssumption
  <2> QED
    BY <1>1, <2>1, <2>2 DEF EntryInv, Within
<1>5. ASSUME NEW r \in Caller PROVE TryInv(r)'
  <2>1. TryInv(r) /\ try[r].time \in Nat
    BY <1>1 DEF TokenInv, TokensOK
  <2>2. try[r].at \in {"keep", "have"} =>
          (try[r].time <= now => try[r].time <= now') /\ now' <= try[r].time + MaxWork
    BY <1>1, <2>1 DEF TokenAssumption
  <2> QED
    BY <1>1, <2>1, <2>2 DEF TryInv, Within
<1> QED
  BY <1>2, <1>3, <1>4, <1>5 DEF TokenInv

LEMMA TokenStill ==
  ASSUME TokenInv, UNCHANGED tokenVars PROVE TokenInv'
<1>1. UNCHANGED <<now, since, entry, try>>
  BY DEF tokenVars
<1> QED
  BY <1>1 DEF TokenInv, TokensOK, EntryInv, TryInv, Within, NoEntry

LEMMA TokenNextKeeps ==
  ASSUME TokenAssumption, TokenInv, [TokenNext]_tokenVars PROVE TokenInv'
<1>1. ASSUME NEW r \in Caller, NEW k \in Token, TokenHit(r, k) \/ TokenMiss(r, k) PROVE TokenInv'
  BY <1>1, HitStep, MissStep
<1>2. ASSUME NEW r \in Caller,
             TokenRead(r) \/ TokenEmpty(r) \/ TokenFails(r) \/ TokenKeep(r) \/ TokenUsed(r)
      PROVE  TokenInv'
  BY <1>2, ReadStep, EmptyStep, FailStep, KeepStep, UsedStep
<1>3. ASSUME NEW k \in Token, SiteReplaces(k) PROVE TokenInv'
  BY <1>3, ReplaceStep
<1> QED
  BY <1>1, <1>2, <1>3, TickStep, TokenStill DEF TokenNext

(* For any number of requests, tokens and replaced keys, and any lifetime: *)
(* everything a request or the cache knows of a token ages as it should.   *)
THEOREM TokenInvariant == TokenSpec => []TokenInv
<1>1. TokenInit => TokenInv
  BY TokenAssumption, Init0
<1>2. TokenInv /\ [TokenNext]_tokenVars => TokenInv'
  BY TokenAssumption, TokenNextKeeps
<1> QED
  BY <1>1, <1>2, PTL DEF TokenSpec

LEMMA OutdatedFromInv == ASSUME TokenInv PROVE OutdatedTokensDie
<1> SUFFICES ASSUME NEW r \in Caller, try[r].at = "refused"
             PROVE  try[r].time <= since[try[r].token][try[r].ver + 1] + TokenTTL + 2 * MaxWork
  BY DEF OutdatedTokensDie
<1> DEFINE s == since[try[r].token][try[r].ver + 1]
<1>1. try[r].ver \in 1 .. Len(since[try[r].token]) - 1 /\ try[r].time <= s + (TokenTTL + 2 * MaxWork)
  BY DEF TokenInv, TryInv, Within
<1>2. s \in Nat /\ try[r].time \in Nat
  <2>1. since[try[r].token] \in Seq(Nat) /\ try[r].time \in Nat
    BY DEF TokenInv, TokensOK
  <2> QED
    BY <1>1, <2>1, NextSince
<1> HIDE DEF s
<1>3. try[r].time <= s + TokenTTL + 2 * MaxWork
  BY <1>1, <1>2, TokenAssumption DEF TokenAssumption
<1> QED
  BY <1>3 DEF s

LEMMA CheckedFromInv == ASSUME TokenInv PROVE CheckedTokensAreUsable
<1> SUFFICES ASSUME NEW k \in Checked, entry[k] # NoEntry PROVE entry[k].ver \in DOMAIN since[k]
  BY DEF CheckedTokensAreUsable
<1>1. k \in Token
  BY TokenAssumption DEF TokenAssumption
<1>2. since[k] \in Seq(Nat) /\ entry[k].ver \in 0 .. Len(since[k]) /\ entry[k].ver # 0
  BY <1>1 DEF TokenInv, TokensOK, EntryInv
<1> QED
  BY <1>2

(* An outdated token dies: a request the site refuses for it comes within  *)
(* the lifetime and two steps of the key's replacement.                    *)
THEOREM OutdatedDie == TokenSpec => []OutdatedTokensDie
<1> QED
  BY TokenInvariant, OutdatedFromInv, PTL

(* A route that checks for an empty token never finds one in the cache.    *)
THEOREM CheckedUsable == TokenSpec => []CheckedTokensAreUsable
<1> QED
  BY TokenInvariant, CheckedFromInv, PTL
==============================================================================
