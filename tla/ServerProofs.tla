----------------------------- MODULE ServerProofs -----------------------------
(***************************************************************************)
(* The server's steps are steps of its parts - PoolSpec and TokenSpec hold *)
(* of it - so what is proved of each part by itself holds of the server,   *)
(* and with it that the process exits cleanly, for any number of requests, *)
(* pages and slots.                                                        *)
(***************************************************************************)
EXTENDS Server, RouteCacheProofs, WellFoundedInduction

-----------------------------------------------------------------------------
(* The pools by themselves.                                                *)

(* A goroutine of a pool that is over could still write into its results.  *)
PoolsAreOver ==
  \A r \in Fan : pool[r].at = "over" => In(r, {"waiting", "running"}) = {}

PoolInv == PoolsOK /\ PoolsAreOver

(* One pool's share of the invariant. *)
PoolOK(p) ==
  /\ p.at \in {"off", "feed", "await", "over"}
  /\ IF p.at = "off" THEN p = Off
     ELSE /\ p.kind \in Kinds /\ p.job \in [1 .. p.kind.jobs -> JobState]
          /\ p.out \in [1 .. p.kind.jobs -> {0} \cup 1 .. p.kind.jobs]
  /\ p.at = "over" => {i \in DOMAIN p.job : p.job[i] \in {"waiting", "running"}} = {}

LEMMA PoolInvIs == PoolInv <=> DOMAIN pool = Fan /\ \A r \in Fan : PoolOK(pool[r])
BY DEF PoolInv, PoolsOK, PoolsAreOver, PoolOK, Job, In

LEMMA OnePool ==
  ASSUME PoolInv, NEW r \in Fan, NEW p, pool' = [pool EXCEPT ![r] = p], PoolOK(p)
  PROVE  PoolInv'
<1>1. DOMAIN pool' = Fan /\ \A s \in Fan : pool'[s] = IF s = r THEN p ELSE pool[s]
  BY PoolInvIs
<1>2. \A s \in Fan : PoolOK(pool'[s])
  BY <1>1, PoolInvIs
<1>3. PoolsOK'
  BY <1>1, <1>2 DEF PoolsOK, PoolOK, Job
<1>4. PoolsAreOver'
  BY <1>2 DEF PoolsAreOver, PoolOK, In
<1> QED
  BY <1>3, <1>4 DEF PoolInv

(* A job that moves on. *)
LEMMA ReachesKeeps ==
  ASSUME PoolInv, NEW r \in Fan, NEW i \in DOMAIN pool[r].job,
         NEW state \in JobState, NEW item \in {0, i}, Reaches(r, i, state, item),
         pool[r].at \in {"feed", "await"}
  PROVE  PoolInv'
<1> DEFINE q == pool[r]
           p == [at  |-> q.at, kind |-> q.kind,
                 job |-> [q.job EXCEPT ![i] = state], out |-> [q.out EXCEPT ![i] = item]]
<1>1. PoolOK(q) /\ pool' = [pool EXCEPT ![r] = p]
  BY PoolInvIs DEF Reaches
<1>2. /\ q.kind \in Kinds /\ q.job \in [1 .. q.kind.jobs -> JobState]
      /\ q.out \in [1 .. q.kind.jobs -> {0} \cup 1 .. q.kind.jobs] /\ q.at \in {"feed", "await"}
  BY <1>1 DEF PoolOK
<1>3. i \in 1 .. q.kind.jobs /\ item \in {0} \cup 1 .. q.kind.jobs
  BY <1>2
<1>4. /\ p.at = q.at /\ p.kind = q.kind /\ p.job \in [1 .. q.kind.jobs -> JobState]
      /\ p.out \in [1 .. q.kind.jobs -> {0} \cup 1 .. q.kind.jobs]
  BY <1>2, <1>3
<1> HIDE DEF p
<1>5. PoolOK(p)
  BY <1>2, <1>4 DEF PoolOK
<1> QED
  BY <1>1, <1>5, OnePool

(* A pool that goes on to its next stage keeps its jobs. *)
LEMMA StageKeeps ==
  ASSUME PoolAssumption, PoolInv, NEW r \in Fan, NEW stage \in {"await", "over"},
         pool[r].at # "off",
         pool' = [pool EXCEPT ![r] = [at |-> stage, kind |-> @.kind, job |-> @.job, out |-> @.out]],
         stage = "over" => In(r, {"waiting", "running"}) = {}
  PROVE  PoolInv'
<1> DEFINE q == pool[r]
           p == [at |-> stage, kind |-> q.kind, job |-> q.job, out |-> q.out]
<1>1. PoolOK(q) /\ pool' = [pool EXCEPT ![r] = p]
  BY PoolInvIs
<1>2. p.at = stage /\ p.kind = q.kind /\ p.job = q.job /\ p.out = q.out
  OBVIOUS
<1>3. stage = "over" => {i \in DOMAIN q.job : q.job[i] \in {"waiting", "running"}} = {}
  BY DEF In
<1> HIDE DEF p, q
<1>4. PoolOK(p)
  BY <1>1, <1>2, <1>3 DEF PoolOK, q
<1> QED
  BY <1>1, <1>4, OnePool

LEMMA StartKeeps ==
  ASSUME PoolAssumption, PoolInv, NEW r \in Fan, StartPool(r) PROVE PoolInv'
<1> PICK k \in Kinds : pool' = [pool EXCEPT ![r] =
       [at   |-> IF k.queue THEN "feed" ELSE "await",
        kind |-> k,
        job  |-> [i \in 1 .. k.jobs |-> IF k.queue THEN "unsent" ELSE "waiting"],
        out  |-> [i \in 1 .. k.jobs |-> 0]]]
  BY DEF StartPool
<1> DEFINE p == [at   |-> IF k.queue THEN "feed" ELSE "await",
                 kind |-> k,
                 job  |-> [i \in 1 .. k.jobs |-> IF k.queue THEN "unsent" ELSE "waiting"],
                 out  |-> [i \in 1 .. k.jobs |-> 0]]
<1> DEFINE stage == IF k.queue THEN "feed" ELSE "await"
           first == IF k.queue THEN "unsent" ELSE "waiting"
           job == [i \in 1 .. k.jobs |-> first]
           out == [i \in 1 .. k.jobs |-> 0]
<1>a. stage \in {"feed", "await"} /\ first \in JobState
  BY DEF JobState
<1>b. p.at = stage /\ p.kind = k /\ p.job = job /\ p.out = out
  OBVIOUS
<1>1. p.at \in {"feed", "await"} /\ p.kind = k /\ DOMAIN p.job = 1 .. k.jobs
      /\ p.job \in [1 .. k.jobs -> JobState] /\ p.out \in [1 .. k.jobs -> {0} \cup 1 .. k.jobs]
  <2> HIDE DEF p, stage, first
  <2> QED
    BY <1>a, <1>b
<1>2. pool' = [pool EXCEPT ![r] = p]
  OBVIOUS
<1> HIDE DEF p
<1> HIDE DEF stage, first, job, out
<1>5. /\ p.at \in {"feed", "await"} /\ p.kind \in Kinds
      /\ p.job \in [1 .. p.kind.jobs -> JobState]
      /\ p.out \in [1 .. p.kind.jobs -> {0} \cup 1 .. p.kind.jobs]
  BY <1>1
<1>6. PoolOK(p)
  <2>1. p.at # "off" /\ p.at # "over"
    BY <1>5
  <2> QED
    BY <1>5, <2>1, Zenon DEF PoolOK
<1> QED
  BY <1>2, <1>6, OnePool

(* Jobs are there only in a pool that is at work, or over. *)
LEMMA AtWork ==
  ASSUME PoolInv, NEW r \in Fan, NEW i \in In(r, {"waiting", "running"})
  PROVE  pool[r].at \in {"feed", "await"} /\ i \in DOMAIN pool[r].job
<1>1. PoolOK(pool[r]) /\ i \in DOMAIN pool[r].job /\ pool[r].job[i] \in {"waiting", "running"}
  BY PoolInvIs DEF In
<1>2. pool[r].at # "off"
  <2>1. DOMAIN Off.job = {}
    BY DEF Off
  <2> QED
    BY <1>1, <2>1 DEF PoolOK
<1> QED
  BY <1>1, <1>2 DEF PoolOK

LEMMA PoolNextKeeps ==
  ASSUME PoolAssumption, PoolInv, [PoolNext]_pool PROVE PoolInv'
<1>1. ASSUME NEW r \in Fan, StartPool(r) PROVE PoolInv'
  BY <1>1, StartKeeps
<1>2. ASSUME NEW r \in Fan, Gather(r) PROVE PoolInv'
  BY <1>2, StageKeeps DEF Gather, PoolDone
<1>3. ASSUME NEW r \in Fan, NEW ended \in BOOLEAN, CloseQueue(r, ended) PROVE PoolInv'
  BY <1>3, StageKeeps DEF CloseQueue
<1>4. ASSUME NEW r \in Fan, NEW i \in Job(r), HandJob(r, i) PROVE PoolInv'
  <2>1. i \in DOMAIN pool[r].job /\ pool[r].at = "feed" /\ Reaches(r, i, "running", 0)
    BY <1>4 DEF HandJob, In
  <2> QED
    BY <2>1, ReachesKeeps DEF JobState
<1>5. ASSUME NEW r \in Fan, NEW i \in Job(r), AcquireSlot(r, i) PROVE PoolInv'
  <2>1. i \in In(r, {"waiting", "running"}) /\ Reaches(r, i, "running", 0)
    BY <1>5 DEF AcquireSlot, In
  <2> QED
    BY <2>1, AtWork, ReachesKeeps DEF JobState
<1>6. ASSUME NEW r \in Fan, NEW i \in Job(r), PageArrives(r, i) \/ PageGone(r, i) \/ PageFails(r, i)
      PROVE  PoolInv'
  <2>1. i \in In(r, {"waiting", "running"})
    BY <1>6 DEF PageArrives, PageGone, PageFails, Running, In
  <2>2. \E state \in JobState \ {"running"}, item \in {0, i} : Reaches(r, i, state, item)
    BY <1>6 DEF PageArrives, PageGone, PageFails, JobState
  <2> QED
    BY <2>1, <2>2, AtWork, ReachesKeeps
<1>7. CASE UNCHANGED pool
  BY <1>7 DEF PoolInv, PoolsOK, PoolsAreOver, In, Job
<1> QED
  BY <1>1, <1>2, <1>3, <1>4, <1>5, <1>6, <1>7 DEF PoolNext

(* For any number of pages and slots, a pool keeps its shape, and no        *)
(* goroutine of it is left when its route goes on.                         *)
THEOREM PoolsInvariant == PoolSpec => []PoolInv
<1>1. PoolInit => PoolInv
  <2> SUFFICES ASSUME PoolInit PROVE PoolInv
    OBVIOUS
  <2>1. DOMAIN pool = Fan /\ \A r \in Fan : pool[r] = Off
    BY DEF PoolInit
  <2>2. Off.at = "off"
    BY DEF Off
  <2>3. PoolOK(Off)
    BY <2>2 DEF PoolOK
  <2> QED
    BY <2>1, <2>3, PoolInvIs
<1>2. PoolInv /\ [PoolNext]_pool => PoolInv'
  BY PoolAssumption, PoolNextKeeps
<1> QED
  BY <1>1, <1>2, PTL DEF PoolSpec


-----------------------------------------------------------------------------
(* The server's steps are its parts' steps.                                *)

LEMMA StepsOfPools == ASSUME [Next]_vars PROVE [PoolNext]_pool
<1>1. ASSUME NEW r \in Fan, FeedMiss(r) PROVE [PoolNext]_pool
  BY <1>1 DEF FeedMiss, PoolNext
<1>2. ASSUME NEW r \in Request, FeedMiss(r), r \notin Fan PROVE [PoolNext]_pool
  BY <1>2 DEF FeedMiss
<1>3. ASSUME NEW r \in Request, PoolStep(r) PROVE [PoolNext]_pool
  <2>1. CASE CloseQueue(r, r \in left)
    <3>1. (r \in left) \in BOOLEAN
      OBVIOUS
    <3> QED
      BY <1>3, <2>1, <3>1 DEF PoolStep, PoolNext
  <2>2. CASE \E i \in Job(r) : \/ HandJob(r, i) \/ AcquireSlot(r, i)
                               \/ PageArrives(r, i) \/ PageGone(r, i) \/ PageFails(r, i)
    BY <1>3, <2>2 DEF PoolStep, PoolNext
  <2> QED
    BY <1>3, <2>1, <2>2 DEF PoolStep
<1>4. ASSUME NEW r \in Request, FanIn(r) PROVE [PoolNext]_pool
  BY <1>4 DEF FanIn, PoolNext
<1>5. ASSUME NEW r \in Request,
             \/ Connect(r) \/ Begin(r) \/ FeedHit(r) \/ TokenStep(r) \/ TokenOver(r)
             \/ StoreFeed(r) \/ Answer(r) \/ Leave(r)
      PROVE  UNCHANGED pool
  BY <1>5 DEF Connect, Begin, FeedHit, TokenStep, TokenOver, StoreFeed, Answer, Leave
<1>6. ASSUME Signal \/ Drained \/ TimeUp \/ ServeFails \/ WorkerPanics \/ CloseCache \/ World \/ Ended
      PROVE  UNCHANGED pool
  BY <1>6 DEF Signal, Drained, TimeUp, ServeFails, WorkerPanics, CloseCache, World, Ended, Becomes, vars
<1>7. CASE UNCHANGED vars
  BY <1>7 DEF vars
<1> QED
  BY <1>1, <1>2, <1>3, <1>4, <1>5, <1>6, <1>7 DEF Next, Step

LEMMA StepsOfTokens == ASSUME [Next]_vars PROVE [TokenNext]_tokenVars
<1>1. ASSUME NEW r \in Request, TokenStep(r) PROVE [TokenNext]_tokenVars
  BY <1>1 DEF TokenStep, TokenNext
<1>2. ASSUME World PROVE [TokenNext]_tokenVars
  BY <1>2 DEF World, TokenNext
<1>3. ASSUME NEW r \in Request,
             \/ Connect(r) \/ Begin(r) \/ FeedHit(r) \/ FeedMiss(r) \/ PoolStep(r) \/ FanIn(r)
             \/ TokenOver(r) \/ StoreFeed(r) \/ Answer(r) \/ Leave(r)
      PROVE  UNCHANGED tokenVars
  BY <1>3 DEF Connect, Begin, FeedHit, FeedMiss, PoolStep, FanIn, TokenOver, StoreFeed, Answer, Leave
<1>4. ASSUME Signal \/ Drained \/ TimeUp \/ ServeFails \/ WorkerPanics \/ CloseCache \/ Ended
      PROVE  UNCHANGED tokenVars
  BY <1>4 DEF Signal, Drained, TimeUp, ServeFails, WorkerPanics, CloseCache, Ended, Becomes, vars
<1>5. CASE UNCHANGED vars
  BY <1>5 DEF vars
<1> QED
  BY <1>1, <1>2, <1>3, <1>4, <1>5 DEF Next, Step

(* The server implements the pools: every step of it starts, moves or ends *)
(* a pool as RoutePool says, or leaves them alone.                         *)
THEOREM ServerImplementsPools == Spec => PoolSpec
<1>1. Init => PoolInit
  BY DEF Init
<1>2. [Next]_vars => [PoolNext]_pool
  BY StepsOfPools
<1> QED
  BY <1>1, <1>2, PTL DEF Spec, PoolSpec

(* The server implements the tokens of RouteCache.                         *)
THEOREM ServerImplementsTokens == Spec => TokenSpec
<1>1. Init => TokenInit
  BY DEF Init
<1>2. [Next]_vars => [TokenNext]_tokenVars
  BY StepsOfTokens
<1> QED
  BY <1>1, <1>2, PTL DEF Spec, TokenSpec

-----------------------------------------------------------------------------
(* A clean exit.                                                           *)

(* What the requests and the main goroutine have to do with each other and *)
(* with their pools and tokens.                                            *)
PoolAtWork(r)  == (pool[r].at \in {"feed", "await"}) = (req[r] = "pool")
TokenAtWork(r) == req[r] # "token" => try[r].at \notin {"compute", "keep", "have"}

MainInv ==
  /\ phase \in Phases /\ open \in BOOLEAN /\ left \subseteq Request
  /\ req \in [Request -> Steps]
  /\ \A r \in Fan : PoolAtWork(r)
  /\ \A r \in Caller : TokenAtWork(r)
  /\ ~open = (phase = "exited")
  /\ phase \in {"closing", "exited"} => \A r \in Request : ~Serving(r)

(* A request that takes a step is served, so the process is neither        *)
(* closing nor gone: its next step is all there is to show.                *)
LEMMA RequestMoves ==
  ASSUME MainInv, NEW r \in Request, NEW step \in Steps, Moves(r, step), UNCHANGED <<phase, open, left>>,
         phase \notin {"closing", "exited"},
         \A s \in Fan : s # r => pool'[s] = pool[s],
         \A s \in Caller : s # r => try'[s] = try[s],
         r \in Fan => PoolAtWork(r)', r \in Caller => TokenAtWork(r)'
  PROVE  MainInv'
<1>1. req' \in [Request -> Steps] /\ \A s \in Request : req'[s] = IF s = r THEN step ELSE req[s]
  BY DEF MainInv, Moves
<1>2. \A s \in Fan : PoolAtWork(s)'
  BY <1>1 DEF MainInv, PoolAtWork, Request
<1>3. \A s \in Caller : TokenAtWork(s)'
  BY <1>1 DEF MainInv, TokenAtWork, Request
<1> QED
  BY <1>1, <1>2, <1>3 DEF MainInv

LEMMA StepsServed ==
  ASSUME MainInv, NEW r \in Request, Step(r) \/ Leave(r)
  PROVE  phase \notin {"closing", "exited"}
<1>1. Serving(r)
  BY DEF Step, Begin, FeedHit, FeedMiss, PoolStep, FanIn, TokenStep, TokenOver, StoreFeed, Answer, Leave, Serving
<1> QED
  BY <1>1 DEF MainInv

LEMMA PlainMove ==
  ASSUME MainInv, NEW r \in Request, NEW step \in Steps \ {"pool"}, Moves(r, step),
         UNCHANGED <<phase, open, left, pool, tokenVars>>, phase \notin {"closing", "exited"},
         req[r] \notin {"pool", "token"}
  PROVE  MainInv'
<1>1. req'[r] = step /\ try' = try /\ pool' = pool
  BY DEF MainInv, Moves, tokenVars
<1>2. r \in Fan => PoolAtWork(r)'
  BY <1>1 DEF MainInv, PoolAtWork
<1>3. r \in Caller => TokenAtWork(r)'
  BY <1>1 DEF MainInv, TokenAtWork
<1> QED
  BY <1>1, <1>2, <1>3, RequestMoves

(* A step of a pool does not end its work, and moves no other pool. *)
LEMMA PoolStepStays ==
  ASSUME PoolInv, MainInv, NEW r \in Fan, PoolStep(r)
  PROVE  /\ pool'[r].at \in {"feed", "await"}
         /\ \A s \in Fan : s # r => pool'[s] = pool[s]
<1>1. DOMAIN pool = Fan /\ pool[r].at \in {"feed", "await"}
  BY PoolInvIs DEF PoolStep, MainInv, PoolAtWork
<1>2. ASSUME NEW i, NEW state, NEW item, Reaches(r, i, state, item)
      PROVE  pool'[r].at = pool[r].at /\ \A s \in Fan : s # r => pool'[s] = pool[s]
  BY <1>1, <1>2 DEF Reaches
<1>3. CASE CloseQueue(r, r \in left)
  BY <1>1, <1>3 DEF CloseQueue
<1>4. CASE \E i \in Job(r) : \/ HandJob(r, i) \/ AcquireSlot(r, i)
                             \/ PageArrives(r, i) \/ PageGone(r, i) \/ PageFails(r, i)
  <2>1. \E i, state, item : Reaches(r, i, state, item)
    BY <1>4 DEF HandJob, AcquireSlot, PageArrives, PageGone, PageFails
  <2> QED
    BY <1>1, <1>2, <2>1
<1> QED
  BY <1>3, <1>4 DEF PoolStep

(* A step of a request's token moves no other request's. *)
LEMMA TokenStepStays ==
  ASSUME TokenInv, NEW r \in Caller, TokenStep(r)
  PROVE  \A s \in Caller : s # r => try'[s] = try[s]
<1>1. try \in [Caller -> [at : TrySteps, token : Token, ver : 0 .. MaxKeys + 1, time : Nat]]
  BY DEF TokenInv, TokensOK
<1>2. \E t : try' = [try EXCEPT ![r] = t]
  BY DEF TokenStep, TokenHit, TokenMiss, TokenRead, TokenEmpty, TokenFails, TokenKeep, TokenUsed, Goes
<1> QED
  BY <1>1, <1>2

LEMMA FeedMissKeeps ==
  ASSUME PoolInv, MainInv, NEW r \in Request, FeedMiss(r) PROVE MainInv'
<1>1. phase \notin {"closing", "exited"} /\ UNCHANGED <<phase, open, left, try>> /\ req \in [Request -> Steps]
      /\ req[r] = "lookup"
  BY StepsServed DEF FeedMiss, Step, MainInv, tokenVars
<1>2. CASE r \in Fan
  <2>1. StartPool(r) /\ Moves(r, "pool")
    BY <1>2 DEF FeedMiss
  <2>2. DOMAIN pool = Fan
    BY PoolInvIs
  <2>3. pool'[r].at \in {"feed", "await"} /\ \A s \in Fan : s # r => pool'[s] = pool[s]
    BY <1>2, <2>1, <2>2 DEF StartPool
  <2>4. PoolAtWork(r)'
    BY <1>1, <2>1, <2>3 DEF PoolAtWork, Moves
  <2>5. r \notin Caller
    BY <1>2, ServerAssumption DEF ServerAssumption
  <2> QED
    BY <1>1, <2>1, <2>3, <2>4, <2>5, RequestMoves DEF Steps
<1>3. CASE r \notin Fan
  <2>1. UNCHANGED pool /\ Moves(r, "token")
    BY <1>3 DEF FeedMiss
  <2>2. TokenAtWork(r)'
    BY <1>1, <2>1 DEF TokenAtWork, Moves
  <2> QED
    BY <1>1, <1>3, <2>1, <2>2, RequestMoves DEF Steps
<1> QED
  BY <1>2, <1>3

LEMMA FanInKeeps ==
  ASSUME PoolInv, MainInv, NEW r \in Request, FanIn(r) PROVE MainInv'
<1>1. phase \notin {"closing", "exited"} /\ UNCHANGED <<phase, open, left, try>> /\ req \in [Request -> Steps]
      /\ r \in Fan /\ Gather(r) /\ DOMAIN pool = Fan
  BY StepsServed, PoolInvIs DEF FanIn, Step, MainInv, tokenVars
<1>2. PICK step \in {"store", "answer"} : Moves(r, step)
  BY DEF FanIn
<1>3. pool'[r].at = "over" /\ \A s \in Fan : s # r => pool'[s] = pool[s]
  BY <1>1 DEF Gather
<1>4. PoolAtWork(r)'
  BY <1>1, <1>2, <1>3 DEF PoolAtWork, Moves
<1>5. r \notin Caller
  BY <1>1, ServerAssumption DEF ServerAssumption
<1> QED
  BY <1>1, <1>2, <1>3, <1>4, <1>5, RequestMoves DEF Steps

LEMMA PoolStepKeeps ==
  ASSUME PoolInv, MainInv, NEW r \in Request, PoolStep(r) PROVE MainInv'
<1>1. UNCHANGED <<phase, open, left, req, try>> /\ r \in Fan /\ req[r] = "pool"
  BY DEF PoolStep, serverVars, tokenVars
<1>2. \A s \in Fan : PoolAtWork(s)'
  BY <1>1, PoolStepStays DEF MainInv, PoolAtWork
<1>3. \A s \in Caller : TokenAtWork(s)'
  BY <1>1 DEF MainInv, TokenAtWork
<1>4. \A s \in Request : Serving(s)' = Serving(s)
  BY <1>1 DEF Serving
<1> QED
  BY <1>1, <1>2, <1>3, <1>4 DEF MainInv

LEMMA TokenStepKeeps ==
  ASSUME TokenInv, MainInv, NEW r \in Request, TokenStep(r) PROVE MainInv'
<1>1. UNCHANGED <<phase, open, left, req, pool>> /\ r \in Caller /\ req[r] = "token"
  BY DEF TokenStep, serverVars
<1>2. \A s \in Fan : PoolAtWork(s)'
  BY <1>1 DEF MainInv, PoolAtWork
<1>3. \A s \in Caller : TokenAtWork(s)'
  BY <1>1, TokenStepStays DEF MainInv, TokenAtWork
<1>4. \A s \in Request : Serving(s)' = Serving(s)
  BY <1>1 DEF Serving
<1> QED
  BY <1>1, <1>2, <1>3, <1>4 DEF MainInv

LEMMA TokenOverKeeps ==
  ASSUME MainInv, NEW r \in Request, TokenOver(r) PROVE MainInv'
<1>1. phase \notin {"closing", "exited"} /\ UNCHANGED <<phase, open, left, pool, try>> /\ req \in [Request -> Steps]
      /\ r \in Caller /\ try[r].at \in {"failed", "refused", "accepted"}
  BY StepsServed DEF TokenOver, Step, MainInv, tokenVars
<1>2. PICK step \in {"store", "answer"} : Moves(r, step)
  BY DEF TokenOver
<1>3. TokenAtWork(r)'
  BY <1>1 DEF TokenAtWork
<1>4. r \notin Fan
  BY <1>1, ServerAssumption DEF ServerAssumption
<1> QED
  BY <1>1, <1>2, <1>3, <1>4, RequestMoves DEF Steps

LEMMA ProcessKeeps ==
  ASSUME MainInv, Signal \/ Drained \/ TimeUp \/ ServeFails \/ WorkerPanics \/ CloseCache
  PROVE  MainInv'
<1>1. UNCHANGED <<req, left, pool, try>>
  BY DEF Signal, Drained, TimeUp, ServeFails, WorkerPanics, CloseCache, Becomes, tokenVars
<1>2. /\ \A r \in Fan : PoolAtWork(r)' = PoolAtWork(r)
      /\ \A r \in Caller : TokenAtWork(r)' = TokenAtWork(r)
      /\ \A r \in Request : Serving(r)' = Serving(r)
  BY <1>1 DEF PoolAtWork, TokenAtWork, Serving
<1>3. CASE Signal \/ TimeUp \/ ServeFails \/ WorkerPanics
  BY <1>1, <1>2, <1>3 DEF MainInv, Signal, TimeUp, ServeFails, WorkerPanics, Becomes, Phases, Alive
<1>4. CASE Drained
  BY <1>1, <1>2, <1>4 DEF MainInv, Drained, Becomes, Phases
<1>5. CASE CloseCache
  BY <1>1, <1>2, <1>5 DEF MainInv, CloseCache, Becomes, Phases
<1> QED
  BY <1>3, <1>4, <1>5

LEMMA MainNextKeeps ==
  ASSUME PoolInv, TokenInv, MainInv, [Next]_vars PROVE MainInv'
<1>1. ASSUME NEW r \in Request, Connect(r) PROVE MainInv'
  <2>1. Moves(r, "connected") /\ phase = "serving" /\ req[r] = "away" /\ UNCHANGED <<phase, open, left, pool, tokenVars>>
    BY <1>1 DEF Connect
  <2> QED
    BY <2>1, PlainMove DEF Steps
<1>2. ASSUME NEW r \in Request, Begin(r) \/ FeedHit(r) \/ StoreFeed(r) \/ Answer(r) PROVE MainInv'
  <2>1. phase \notin {"closing", "exited"}
    BY <1>2, StepsServed DEF Step
  <2>2. \E step \in {"lookup", "answer", "done"} : Moves(r, step)
    BY <1>2 DEF Begin, FeedHit, StoreFeed, Answer
  <2>3. req[r] \notin {"pool", "token"} /\ UNCHANGED <<phase, open, left, pool, tokenVars>>
    BY <1>2 DEF Begin, FeedHit, StoreFeed, Answer
  <2> QED
    BY <2>1, <2>2, <2>3, PlainMove DEF Steps
<1>3. ASSUME NEW r \in Request, FeedMiss(r) \/ PoolStep(r) \/ FanIn(r) \/ TokenStep(r) \/ TokenOver(r)
      PROVE  MainInv'
  BY <1>3, FeedMissKeeps, PoolStepKeeps, FanInKeeps, TokenStepKeeps, TokenOverKeeps
<1>4. ASSUME NEW r \in Request, Leave(r) PROVE MainInv'
  <2>1. UNCHANGED <<phase, open, req, pool, try>> /\ left' = left \cup {r}
    BY <1>4 DEF Leave, tokenVars
  <2> QED
    BY <2>1 DEF MainInv, PoolAtWork, TokenAtWork, Serving
<1>5. ASSUME Signal \/ Drained \/ TimeUp \/ ServeFails \/ WorkerPanics \/ CloseCache PROVE MainInv'
  BY <1>5, ProcessKeeps
<1>6. ASSUME World PROVE MainInv'
  <2>1. UNCHANGED <<phase, open, left, req, pool, try>>
    BY <1>6 DEF World, serverVars, SiteReplaces, TokenTick
  <2> QED
    BY <2>1 DEF MainInv, PoolAtWork, TokenAtWork, Serving
<1>7. CASE UNCHANGED vars
  BY <1>7 DEF vars, serverVars, tokenVars, MainInv, PoolAtWork, TokenAtWork, Serving
<1> QED
  BY <1>1, <1>2, <1>3, <1>4, <1>5, <1>6, <1>7 DEF Next, Step, Ended

LEMMA MainInit == ASSUME Init PROVE MainInv
<1>1. /\ phase = "serving" /\ open = TRUE /\ left = {}
      /\ \A r \in Request : req[r] = "away"
  BY DEF Init, Steps
<1>2. \A r \in Fan : pool[r].at = "off"
  BY DEF Init, PoolInit, Off
<1>3. \A r \in Caller : try[r].at = "idle"
  BY DEF Init, TokenInit, NoTry
<1>4. req \in [Request -> Steps]
  BY DEF Init, Steps
<1>5. \A r \in Fan : PoolAtWork(r)
  <2> TAKE r \in Fan
  <2>1. req[r] = "away" /\ pool[r].at = "off"
    BY <1>1, <1>2 DEF Request
  <2> QED
    BY <2>1 DEF PoolAtWork
<1>6. \A r \in Caller : TokenAtWork(r)
  BY <1>3 DEF TokenAtWork
<1> QED
  BY <1>1, <1>4, <1>5, <1>6 DEF MainInv, Phases

(* Each part keeps its invariant, and the server ties them together.       *)
THEOREM ServerInvariant == Spec => [](PoolInv /\ TokenInv /\ MainInv)
<1>1. Spec => []PoolInv
  BY ServerImplementsPools, PoolsInvariant, PTL
<1>2. Spec => []TokenInv
  BY ServerImplementsTokens, TokenInvariant, PTL
<1>3. Init => MainInv
  BY MainInit
<1>4. PoolInv /\ TokenInv /\ MainInv /\ [Next]_vars => MainInv'
  BY MainNextKeeps
<1> QED
  BY <1>1, <1>2, <1>3, <1>4, PTL DEF Spec

(* Types, and a pool is at work exactly while its request waits for it.    *)
THEOREM ServerTypes == Spec => []TypeOK
<1>1. PoolInv /\ TokenInv /\ MainInv => TypeOK
  BY DEF TypeOK, PoolInv, TokenInv, MainInv, PoolAtWork, TokenAtWork
<1> QED
  BY <1>1, ServerInvariant, PTL

(* When the main goroutine closes the cache, every accepted request has    *)
(* been answered and none of their goroutines is left.                     *)
THEOREM ExitIsClean == Spec => []CleanExit
<1>1. PoolInv /\ TokenInv /\ MainInv => CleanExit
  <2> SUFFICES ASSUME PoolInv, TokenInv, MainInv PROVE CleanExit
    OBVIOUS
  <2>1. ~open = (phase = "exited")
    BY DEF MainInv
  <2>2. ASSUME phase \in {"closing", "exited"} PROVE
           /\ \A r \in Request : ~Serving(r)
           /\ \A r \in Fan : Running(r) = {}
           /\ \A r \in Caller : try[r].at \notin {"compute", "keep"}
    <3>1. \A r \in Request : ~Serving(r)
      BY <2>2 DEF MainInv
    <3>2. \A r \in Request : req[r] \in {"away", "done"}
      BY <3>1 DEF Serving
    <3>3. \A r \in Fan : Running(r) = {}
      BY <3>2, AtWork DEF MainInv, PoolAtWork, Running, In, Request
    <3>4. \A r \in Caller : try[r].at \notin {"compute", "keep"}
      BY <3>2 DEF MainInv, TokenAtWork, Request
    <3> QED
      BY <3>1, <3>3, <3>4
  <2> QED
    BY <2>1, <2>2 DEF CleanExit
<1> QED
  BY <1>1, ServerInvariant, PTL

-----------------------------------------------------------------------------
(* The loop over the results.                                              *)

(* Induction over the naturals, for a set in place of a predicate. *)
LEMMA Induction ==
  ASSUME NEW S \in SUBSET Nat, 0 \in S, \A n \in S : n + 1 \in S
  PROVE  S = Nat
<1> SUFFICES ASSUME Nat \ S # {} PROVE FALSE
  OBVIOUS
<1> DEFINE T == Nat \ S
<1>1. T \in SUBSET Nat /\ T # {}
  OBVIOUS
<1> HIDE DEF T
<1>2. PICK n \in T : \A x \in T : ~(<<x, n>> \in OpToRel(<, Nat))
  BY <1>1, WFMin, NatLessThanWellFounded
<1>3. n \in Nat /\ n \notin S
  BY DEF T
<1>4. n # 0 /\ n - 1 \in Nat /\ n - 1 < n
  BY <1>3
<1>5. n - 1 \notin T
  BY <1>2, <1>3, <1>4 DEF OpToRel
<1>6. n - 1 \in S
  BY <1>4, <1>5 DEF T
<1>7. (n - 1) + 1 = n
  BY <1>3
<1> QED
  BY <1>3, <1>6, <1>7

(* What the recursive definition in WithoutNil defines, and that there is  *)
(* such a function.                                                        *)
Adding(added, out, n) ==
  added = [m \in 0 .. n |->
             IF m = 0 THEN <<>>
             ELSE IF out[m] = 0 THEN added[m - 1] ELSE Append(added[m - 1], out[m])]

LEMMA AddingExists ==
  ASSUME NEW out, NEW n \in Nat PROVE \E added : Adding(added, out, n)
<1> DEFINE S == {k \in Nat : \E added : Adding(added, out, k)}
<1>1. 0 \in S
  <2> DEFINE a == [m \in 0 .. 0 |-> <<>>]
  <2>1. a = [m \in 0 .. 0 |-> IF m = 0 THEN <<>>
             ELSE IF out[m] = 0 THEN a[m - 1] ELSE Append(a[m - 1], out[m])]
    OBVIOUS
  <2> HIDE DEF a
  <2> QED
    BY <2>1, Zenon DEF Adding
<1>2. ASSUME NEW k \in S PROVE k + 1 \in S
  <2>1. PICK g : Adding(g, out, k)
    OBVIOUS
  <2>2. k \in Nat /\ \A m \in 0 .. k : g[m] = IF m = 0 THEN <<>>
             ELSE IF out[m] = 0 THEN g[m - 1] ELSE Append(g[m - 1], out[m])
    BY <2>1, Zenon DEF Adding
  <2> DEFINE h == [m \in 0 .. k + 1 |-> IF m = 0 THEN <<>>
             ELSE IF out[m] = 0 THEN g[m - 1] ELSE Append(g[m - 1], out[m])]
  <2>3. \A m \in 0 .. k : h[m] = g[m]
    BY <2>2
  <2>4. \A m \in 0 .. k + 1 : m # 0 => m - 1 \in 0 .. k
    BY <2>2
  <2>5. \A m \in 0 .. k + 1 : m # 0 => h[m - 1] = g[m - 1]
    BY <2>3, <2>4
  <2>6. h = [m \in 0 .. k + 1 |-> IF m = 0 THEN <<>>
             ELSE IF out[m] = 0 THEN h[m - 1] ELSE Append(h[m - 1], out[m])]
    <3>1. ASSUME NEW m \in 0 .. k + 1
          PROVE  (IF m = 0 THEN <<>> ELSE IF out[m] = 0 THEN g[m - 1] ELSE Append(g[m - 1], out[m]))
               = (IF m = 0 THEN <<>> ELSE IF out[m] = 0 THEN h[m - 1] ELSE Append(h[m - 1], out[m]))
      <4> HIDE DEF h
      <4> QED
        BY <2>5
    <3> QED
      BY <3>1, Zenon
  <2> HIDE DEF h
  <2>7. Adding(h, out, k + 1)
    BY <2>6 DEF Adding
  <2> QED
    BY <2>2, <2>7
<1> HIDE DEF S
<1>3. S = Nat
  <2>1. S \in SUBSET Nat
    BY DEF S
  <2> QED
    BY <1>1, <1>2, <2>1, Induction
<1> QED
  BY <1>3 DEF S

LEMMA WithoutNilIs ==
  ASSUME NEW out, NEW n \in Nat
  PROVE  \E added : Adding(added, out, n) /\ WithoutNil(out, n) = added[n]
<1> DEFINE a == CHOOSE added : Adding(added, out, n)
<1>1. Adding(a, out, n)
  BY AddingExists, Zenon
<1>2. WithoutNil(out, n) = a[n]
  BY Zenon DEF WithoutNil, Adding
<1> QED
  BY <1>1, <1>2
(* What the loop over the first m results has added: the numbers of those  *)
(* that are there, in their order.                                         *)
InOrder(s, out, m) ==
  /\ s \in Seq(Nat)
  /\ \A k \in DOMAIN s : s[k] \in 1 .. m /\ out[s[k]] # 0
  /\ \A j, k \in DOMAIN s : j < k => s[j] < s[k]
  /\ \A i \in 1 .. m : out[i] # 0 => \E k \in DOMAIN s : s[k] = i

LEMMA OneAdded ==
  ASSUME NEW m \in Nat, NEW out, NEW s, InOrder(s, out, m), out[m + 1] = m + 1
  PROVE  InOrder(Append(s, m + 1), out, m + 1)
<1> DEFINE t == Append(s, m + 1)
<1>1. s \in Seq(Nat) /\ m + 1 \in Nat /\ m + 1 # 0
  BY DEF InOrder
<1>2. t \in Seq(Nat) /\ DOMAIN s = 1 .. Len(s) /\ DOMAIN t = 1 .. Len(s) + 1 /\ Len(s) \in Nat
  BY <1>1
<1>3. t[Len(s) + 1] = m + 1 /\ \A k \in DOMAIN s : t[k] = s[k]
  BY <1>1
<1> HIDE DEF t
<1>4. \A k \in DOMAIN t : k = Len(s) + 1 \/ k \in DOMAIN s
  BY <1>2
<1>5. \A k \in DOMAIN s : s[k] \in 1 .. m /\ out[s[k]] # 0
  BY DEF InOrder
<1>6. ASSUME NEW k \in DOMAIN t PROVE t[k] \in 1 .. m + 1 /\ out[t[k]] # 0
  <2>1. CASE k = Len(s) + 1
    BY <1>1, <1>3, <2>1
  <2>2. CASE k \in DOMAIN s
    BY <1>3, <1>5, <2>2
  <2> QED
    BY <1>4, <2>1, <2>2
<1>7. ASSUME NEW j \in DOMAIN t, NEW k \in DOMAIN t, j < k PROVE t[j] < t[k]
  <2>1. j \in DOMAIN s
    BY <1>2, <1>7
  <2>2. CASE k = Len(s) + 1
    BY <1>3, <1>5, <2>1, <2>2
  <2>3. CASE k \in DOMAIN s
    BY <1>3, <1>7, <2>1, <2>3 DEF InOrder
  <2> QED
    BY <1>4, <2>2, <2>3
<1>8. ASSUME NEW i \in 1 .. m + 1, out[i] # 0 PROVE \E k \in DOMAIN t : t[k] = i
  <2>1. CASE i = m + 1
    BY <1>2, <1>3, <2>1
  <2>2. CASE i # m + 1
    <3>1. i \in 1 .. m
      BY <2>2
    <3>2. PICK k \in DOMAIN s : s[k] = i
      BY <1>8, <3>1 DEF InOrder
    <3> QED
      BY <1>2, <1>3, <3>2
  <2> QED
    BY <2>1, <2>2
<1>9. InOrder(t, out, m + 1)
  BY <1>2, <1>6, <1>7, <1>8 DEF InOrder
<1> QED
  BY <1>9 DEF t

LEMMA GatheredInOrder ==
  ASSUME NEW n \in Nat, NEW out, \A i \in 1 .. n : out[i] \in {0, i}
  PROVE  InOrder(WithoutNil(out, n), out, n)
<1>1. PICK added : Adding(added, out, n) /\ WithoutNil(out, n) = added[n]
  BY WithoutNilIs
<1>2. \A m \in 0 .. n : added[m] = IF m = 0 THEN <<>>
        ELSE IF out[m] = 0 THEN added[m - 1] ELSE Append(added[m - 1], out[m])
  BY <1>1, Zenon DEF Adding
<1> DEFINE S == {m \in Nat : m <= n => InOrder(added[m], out, m)}
<1>3. 0 \in S
  <2>1. added[0] = <<>>
    BY <1>2
  <2>2. \A i : i \notin 1 .. 0 /\ i \notin DOMAIN <<>>
    OBVIOUS
  <2>3. InOrder(<<>>, out, 0)
    BY <2>2 DEF InOrder
  <2> QED
    BY <2>1, <2>3
<1>4. ASSUME NEW m \in S PROVE m + 1 \in S
  <2>1. m \in Nat
    OBVIOUS
  <2> SUFFICES ASSUME m + 1 <= n PROVE InOrder(added[m + 1], out, m + 1)
    BY <2>1
  <2>2. InOrder(added[m], out, m)
    BY <2>1
  <2> HIDE DEF S
  <2>3. added[m + 1] = IF out[m + 1] = 0 THEN added[m] ELSE Append(added[m], out[m + 1])
    <3>1. m + 1 \in 0 .. n /\ m + 1 # 0 /\ (m + 1) - 1 = m
      BY <2>1
    <3> QED
      BY <1>2, <3>1
  <2>4. CASE out[m + 1] = 0
    <3>1. added[m + 1] = added[m]
      BY <2>3, <2>4
    <3>2. \A i \in 1 .. m + 1 : out[i] # 0 => i \in 1 .. m
      BY <2>1, <2>4
    <3>3. \A i \in 1 .. m : i \in 1 .. m + 1
      BY <2>1
    <3> QED
      BY <2>2, <3>1, <3>2, <3>3 DEF InOrder
  <2>5. CASE out[m + 1] # 0
    <3>1. m + 1 \in 1 .. n
      BY <2>1
    <3>2. out[m + 1] = m + 1
      BY <2>5, <3>1
    <3>3. added[m + 1] = Append(added[m], m + 1)
      BY <2>3, <2>5, <3>2
    <3> QED
      BY <2>1, <2>2, <3>2, <3>3, OneAdded
  <2> QED
    BY <2>4, <2>5
<1>5. S \in SUBSET Nat
  OBVIOUS
<1> HIDE DEF S
<1>6. n \in S
  BY <1>3, <1>4, <1>5, Induction
<1>7. InOrder(added[n], out, n)
  <2>1. n <= n
    OBVIOUS
  <2> QED
    BY <1>6, <2>1 DEF S
<1> QED
  BY <1>1, <1>7

-----------------------------------------------------------------------------
(* What is stored.                                                         *)

(* The result of a job is at its own place, and only of a job that has one. *)
Yields(p, i) == p.job[i] = "ok" \/ (p.job[i] = "failed" /\ p.kind.failing = "replace")
PlacesOK(p)  == \A i \in DOMAIN p.job : p.out[i] = IF Yields(p, i) THEN i ELSE 0

(* A job is left unsent only by a client that has gone. *)
SentOK(p, gone) == \A i \in DOMAIN p.job : p.job[i] = "unsent" => p.at = "feed" \/ gone

(* Once gathered, what a pool has yielded does not change: the reply to    *)
(* store, and then the feed stored, are it.                                *)
Yielded(r, items) == pool[r].at = "over" /\ ~PoolFails(r) /\ items = PoolItems(r)

FeedOK(r) ==
  /\ PlacesOK(pool[r]) /\ SentOK(pool[r], r \in left)
  /\ req[r] = "store" => Yielded(r, reply[r].items)
  /\ kept[r].stored => Yielded(r, kept[r].items)

FeedInv == DOMAIN reply = Request /\ DOMAIN kept = Request /\ \A r \in Fan : FeedOK(r)

(* A pool that is left alone yields the same. *)
LEMMA SamePool ==
  ASSUME NEW r \in Fan, pool'[r] = pool[r] PROVE \A items : Yielded(r, items)' = Yielded(r, items)
<1>1. PoolFails(r)' = PoolFails(r) /\ PoolItems(r)' = PoolItems(r)
  BY DEF PoolFails, PoolItems, In
<1> QED
  BY <1>1 DEF Yielded

(* A step that touches no pool, stores nothing and brings no request that  *)
(* fans out to the step of storing.                                        *)
LEMMA NothingStored ==
  ASSUME FeedInv, UNCHANGED <<pool, kept>>, left \subseteq left', DOMAIN reply' = Request,
         \A r \in Fan : req'[r] = "store" => req[r] = "store" /\ reply'[r] = reply[r]
  PROVE  FeedInv'
<1> SUFFICES ASSUME NEW r \in Fan PROVE FeedOK(r)'
  BY DEF FeedInv
<1>1. FeedOK(r) /\ pool'[r] = pool[r]
  BY DEF FeedInv
<1>2. \A items : Yielded(r, items)' = Yielded(r, items)
  BY <1>1, SamePool
<1>3. SentOK(pool'[r], r \in left')
  BY <1>1 DEF FeedOK, SentOK
<1> QED
  BY <1>1, <1>2, <1>3 DEF FeedOK

(* A pool at work moves. *)
LEMMA PoolMoves ==
  ASSUME FeedInv, PoolInv, NEW r \in Fan, NEW p, pool' = [pool EXCEPT ![r] = p], pool[r].at # "over",
         PlacesOK(p), SentOK(p, r \in left), UNCHANGED <<left, reply, kept>>,
         \A s \in Fan : req'[s] = "store" => req[s] = "store" /\ s # r
  PROVE  FeedInv'
<1> SUFFICES ASSUME NEW s \in Fan PROVE FeedOK(s)'
  BY DEF FeedInv
<1>1. FeedOK(s) /\ FeedOK(r) /\ DOMAIN pool = Fan
  BY PoolInvIs DEF FeedInv
<1>2. CASE s = r
  <2>1. pool'[r] = p /\ ~kept[r].stored
    BY <1>1 DEF FeedOK, Yielded
  <2> QED
    BY <1>2, <2>1 DEF FeedOK
<1>3. CASE s # r
  <2>1. pool'[s] = pool[s]
    BY <1>1, <1>3
  <2>2. \A items : Yielded(s, items)' = Yielded(s, items)
    BY <2>1, SamePool
  <2> QED
    BY <1>1, <2>1, <2>2 DEF FeedOK
<1> QED
  BY <1>2, <1>3

(* A job reaches a state. *)
LEMMA JobMoves ==
  ASSUME FeedInv, PoolInv, NEW r \in Fan, NEW i \in DOMAIN pool[r].job, NEW state, NEW item,
         Reaches(r, i, state, item), pool[r].at \in {"feed", "await"}, state # "unsent",
         item = IF state = "ok" \/ (state = "failed" /\ pool[r].kind.failing = "replace") THEN i ELSE 0,
         UNCHANGED <<req, left, reply, kept>>, req[r] # "store"
  PROVE  FeedInv'
<1> DEFINE q == pool[r]
           p == [at  |-> q.at, kind |-> q.kind,
                 job |-> [q.job EXCEPT ![i] = state], out |-> [q.out EXCEPT ![i] = item]]
<1>1. FeedOK(r) /\ PoolOK(q) /\ pool' = [pool EXCEPT ![r] = p]
  BY PoolInvIs DEF Reaches, FeedInv
<1>2. DOMAIN q.job = DOMAIN q.out
  BY <1>1 DEF PoolOK
<1>3. /\ p.at = q.at /\ p.kind = q.kind /\ DOMAIN p.job = DOMAIN q.job
      /\ \A j \in DOMAIN q.job : /\ p.job[j] = IF j = i THEN state ELSE q.job[j]
                                /\ p.out[j] = IF j = i THEN item ELSE q.out[j]
  BY <1>2
<1> HIDE DEF p
<1>4. PlacesOK(p)
  BY <1>1, <1>3 DEF PlacesOK, Yields, FeedOK
<1>5. SentOK(p, r \in left)
  BY <1>1, <1>3 DEF SentOK, FeedOK
<1> QED
  BY <1>1, <1>4, <1>5, PoolMoves

LEMMA StartMoves ==
  ASSUME FeedInv, PoolInv, MainInv, NEW r \in Fan, FeedMiss(r) PROVE FeedInv'
<1> PICK k \in Kinds : pool' = [pool EXCEPT ![r] =
       [at   |-> IF k.queue THEN "feed" ELSE "await",
        kind |-> k,
        job  |-> [i \in 1 .. k.jobs |-> IF k.queue THEN "unsent" ELSE "waiting"],
        out  |-> [i \in 1 .. k.jobs |-> 0]]]
  BY DEF FeedMiss, StartPool
<1> DEFINE p == [at   |-> IF k.queue THEN "feed" ELSE "await",
                 kind |-> k,
                 job  |-> [i \in 1 .. k.jobs |-> IF k.queue THEN "unsent" ELSE "waiting"],
                 out  |-> [i \in 1 .. k.jobs |-> 0]]
<1>1. pool' = [pool EXCEPT ![r] = p] /\ pool[r].at = "off"
  BY DEF FeedMiss, StartPool
<1>2. /\ DOMAIN p.job = 1 .. k.jobs
      /\ \A i \in 1 .. k.jobs : /\ p.job[i] \in {"unsent", "waiting"} /\ p.out[i] = 0
                                /\ p.job[i] = "unsent" => p.at = "feed"
  OBVIOUS
<1> HIDE DEF p
<1>3. PlacesOK(p) /\ SentOK(p, r \in left)
  BY <1>2 DEF PlacesOK, SentOK, Yields
<1>4. UNCHANGED <<left, reply, kept>> /\ \A s \in Fan : req'[s] = "store" => req[s] = "store" /\ s # r
  BY DEF FeedMiss, Moves, MainInv, Request
<1> QED
  BY <1>1, <1>3, <1>4, PoolMoves

LEMMA StepMoves ==
  ASSUME FeedInv, PoolInv, MainInv, NEW r \in Request, PoolStep(r) PROVE FeedInv'
<1>1. r \in Fan /\ req[r] = "pool" /\ UNCHANGED <<req, left, reply, kept>>
  BY DEF PoolStep, serverVars
<1>2. pool[r].at \in {"feed", "await"} /\ FeedOK(r)
  BY <1>1 DEF MainInv, PoolAtWork, FeedInv
<1>3. CASE CloseQueue(r, r \in left)
  <2> DEFINE p == [at |-> "await", kind |-> pool[r].kind, job |-> pool[r].job, out |-> pool[r].out]
  <2>1. pool' = [pool EXCEPT ![r] = p]
    BY <1>3 DEF CloseQueue
  <2>2. PlacesOK(p)
    BY <1>2 DEF FeedOK, PlacesOK, Yields
  <2>3. SentOK(p, r \in left)
    BY <1>3 DEF CloseQueue, In, SentOK
  <2> QED
    BY <1>1, <1>2, <2>1, <2>2, <2>3, PoolMoves
<1>4. ASSUME NEW i \in Job(r), HandJob(r, i) \/ AcquireSlot(r, i) PROVE FeedInv'
  <2>1. i \in DOMAIN pool[r].job /\ Reaches(r, i, "running", 0)
    BY <1>4 DEF HandJob, AcquireSlot, In
  <2> QED
    BY <1>1, <1>2, <2>1, JobMoves
<1>5. ASSUME NEW i \in Job(r), PageArrives(r, i) \/ PageGone(r, i) \/ PageFails(r, i) PROVE FeedInv'
  <2>1. i \in DOMAIN pool[r].job
    BY <1>5 DEF PageArrives, PageGone, PageFails, Running, In
  <2>2. \/ Reaches(r, i, "ok", i) \/ Reaches(r, i, "gone", 0)
        \/ Reaches(r, i, "failed", IF pool[r].kind.failing = "replace" THEN i ELSE 0)
    BY <1>5 DEF PageArrives, PageGone, PageFails
  <2> QED
    BY <1>1, <1>2, <2>1, <2>2, JobMoves
<1> QED
  BY <1>3, <1>4, <1>5 DEF PoolStep

(* The handler returns: from here on its pool yields what it returned.     *)
LEMMA FanInStores ==
  ASSUME FeedInv, PoolInv, MainInv, NEW r \in Request, FanIn(r) PROVE FeedInv'
<1>1. r \in Fan /\ req[r] = "pool" /\ UNCHANGED <<left, kept>> /\ DOMAIN pool = Fan
      /\ req \in [Request -> Steps]
  BY PoolInvIs DEF FanIn, MainInv
<1> DEFINE p == [at |-> "over", kind |-> pool[r].kind, job |-> pool[r].job, out |-> pool[r].out]
<1>2. pool' = [pool EXCEPT ![r] = p] /\ pool[r].at = "await"
  BY <1>1 DEF FanIn, Gather, PoolDone
<1>3. pool'[r] = p /\ \A s \in Fan : s # r => pool'[s] = pool[s]
  BY <1>1, <1>2
<1>4. /\ p.at = "over" /\ p.kind = pool[r].kind /\ p.job = pool[r].job /\ p.out = pool[r].out
  OBVIOUS
<1> HIDE DEF p
<1>5. FeedOK(r)
  BY <1>1 DEF FeedInv
<1>6. PlacesOK(p) /\ SentOK(p, r \in left)
  BY <1>2, <1>4, <1>5 DEF FeedOK, PlacesOK, SentOK, Yields
<1>7. ~kept[r].stored
  BY <1>2, <1>5 DEF FeedOK, Yielded
<1>8. /\ PoolItems(r)' = PoolItems(r) /\ PoolFails(r)' = PoolFails(r)
      /\ pool'[r].at = "over"
  BY <1>3, <1>4 DEF PoolItems, PoolFails, In
<1>9. req'[r] = "store" => Yielded(r, reply[r].items)'
  <2>1. ASSUME req'[r] = "store" PROVE ~PoolFails(r) /\ reply'[r] = Reply(PoolItems(r))
    BY <1>1, <2>1 DEF FanIn, Moves, Answers, FeedInv
  <2> QED
    BY <1>8, <2>1 DEF Yielded, Reply
<1>10. ASSUME NEW s \in Fan, s # r PROVE FeedOK(s)'
  <2>1. pool'[s] = pool[s] /\ FeedOK(s) /\ req'[s] = req[s] /\ reply'[s] = reply[s]
    BY <1>1, <1>3, <1>10 DEF FeedInv, FanIn, Moves, Answers, Request
  <2>2. \A items : Yielded(s, items)' = Yielded(s, items)
    BY <2>1, SamePool
  <2> QED
    BY <1>1, <2>1, <2>2 DEF FeedOK
<1>11. FeedOK(r)'
  BY <1>1, <1>3, <1>6, <1>7, <1>9 DEF FeedOK
<1>12. DOMAIN reply' = Request /\ DOMAIN kept' = Request
  BY <1>1 DEF FanIn, Answers, FeedInv
<1> QED
  BY <1>10, <1>11, <1>12 DEF FeedInv

LEMMA StoreKeeps ==
  ASSUME FeedInv, MainInv, NEW r \in Request, StoreFeed(r) PROVE FeedInv'
<1>1. /\ req[r] = "store" /\ UNCHANGED <<pool, left, reply>>
      /\ \A s \in Request : req'[s] = IF s = r THEN "answer" ELSE req[s]
  BY DEF StoreFeed, Moves, MainInv
<1>2. CASE kept' = kept
  BY <1>1, <1>2, NothingStored DEF FeedInv, Request
<1>3. CASE kept' = [kept EXCEPT ![r] = [stored |-> TRUE, items |-> reply[r].items]]
  <2> SUFFICES ASSUME NEW s \in Fan PROVE FeedOK(s)'
    BY <1>1, <1>3 DEF FeedInv
  <2>1. FeedOK(s) /\ pool'[s] = pool[s] /\ \A items : Yielded(s, items)' = Yielded(s, items)
    BY <1>1, SamePool DEF FeedInv
  <2>2. s = r => kept'[s].items = reply[s].items /\ Yielded(s, reply[s].items)
    BY <1>1, <1>3, <2>1 DEF FeedInv, FeedOK
  <2>3. s # r => kept'[s] = kept[s]
    BY <1>3 DEF FeedInv
  <2>4. kept'[s].stored => Yielded(s, kept'[s].items)
    BY <2>1, <2>2, <2>3 DEF FeedOK
  <2>5. req'[s] = "store" => req[s] = "store" /\ reply'[s] = reply[s]
    BY <1>1 DEF Request
  <2> QED
    BY <1>1, <2>1, <2>4, <2>5 DEF FeedOK
<1> QED
  BY <1>2, <1>3 DEF StoreFeed

LEMMA FeedNextKeeps ==
  ASSUME FeedInv, PoolInv, MainInv, [Next]_vars PROVE FeedInv'
<1>1. ASSUME NEW r \in Request,
             Connect(r) \/ Begin(r) \/ FeedHit(r) \/ Answer(r) \/ (r \notin Fan /\ FeedMiss(r))
      PROVE  FeedInv'
  <2>1. UNCHANGED <<pool, left, reply, kept>>
    BY <1>1 DEF Connect, Begin, FeedHit, Answer, FeedMiss
  <2>2. \E step \in Steps \ {"store"} : Moves(r, step)
    BY <1>1 DEF Connect, Begin, FeedHit, Answer, FeedMiss, Steps
  <2>3. \A s \in Fan : req'[s] = "store" => req[s] = "store"
    BY <2>2 DEF Moves, MainInv, Request
  <2> QED
    BY <2>1, <2>3, NothingStored DEF FeedInv
<1>2. ASSUME NEW r \in Request, TokenOver(r) PROVE FeedInv'
  <2>1. r \notin Fan
    BY <1>2, ServerAssumption DEF TokenOver, ServerAssumption
  <2>2. UNCHANGED <<pool, left, kept>> /\ \E what : Answers(r, what)
    BY <1>2 DEF TokenOver
  <2>3. \E step : Moves(r, step)
    BY <1>2 DEF TokenOver
  <2>4. DOMAIN reply' = Request /\ \A s \in Fan : req'[s] = req[s] /\ reply'[s] = reply[s]
    BY <2>1, <2>2, <2>3 DEF Answers, Moves, FeedInv, MainInv, Request
  <2> QED
    BY <2>2, <2>4, NothingStored
<1>3. ASSUME NEW r \in Request, Leave(r) PROVE FeedInv'
  BY <1>3, NothingStored DEF Leave, FeedInv
<1>4. ASSUME \/ \E r \in Request : TokenStep(r)
             \/ Signal \/ Drained \/ TimeUp \/ ServeFails \/ WorkerPanics \/ CloseCache
             \/ World \/ UNCHANGED vars
      PROVE  FeedInv'
  <2>1. UNCHANGED <<pool, left, reply, kept, req>>
    BY <1>4 DEF TokenStep, Signal, Drained, TimeUp, ServeFails, WorkerPanics, CloseCache, World, Becomes,
                serverVars, vars
  <2> QED
    BY <2>1, NothingStored DEF FeedInv
<1> QED
  BY <1>1, <1>2, <1>3, <1>4, StartMoves, StepMoves, FanInStores, StoreKeeps DEF Next, Step, Ended

(* A feed is stored in the order of its list, and what is missing from it  *)
(* is what was gone, skipped or never asked for - whatever the order in    *)
(* which any number of pages arrive, fail or are given up.                 *)
THEOREM FeedsFollowTheList == Spec => []StoredFeedsFollowTheList
<1>1. Init => FeedInv
  <2> SUFFICES ASSUME Init PROVE FeedInv
    OBVIOUS
  <2>1. DOMAIN Off.job = {}
    BY DEF Off
  <2>2. \A r \in Fan : pool[r] = Off /\ req[r] = "away" /\ kept[r] = NotKept
    BY DEF Init, PoolInit, Request
  <2>3. DOMAIN reply = Request /\ DOMAIN kept = Request /\ ~NotKept.stored
    BY DEF Init, NotKept
  <2> QED
    BY <2>1, <2>2, <2>3 DEF FeedInv, FeedOK, PlacesOK, SentOK
<1>2. PoolInv /\ MainInv /\ FeedInv /\ [Next]_vars => FeedInv'
  BY FeedNextKeeps
<1>3. PoolInv /\ MainInv /\ FeedInv => StoredFeedsFollowTheList
  <2> SUFFICES ASSUME PoolInv, MainInv, FeedInv, NEW r \in Fan, kept[r].stored
               PROVE  LET items == kept[r].items IN
                      /\ \A m, n \in DOMAIN items : m < n => items[m] < items[n]
                      /\ \A i \in Job(r) :
                           (\A n \in DOMAIN items : items[n] # i) <=>
                             \/ pool[r].job[i] = "gone"
                             \/ pool[r].job[i] = "failed" /\ pool[r].kind.failing = "skip"
                             \/ pool[r].job[i] = "unsent" /\ r \in left
                      /\ pool[r].kind.failing = "fail" => In(r, {"failed"}) = {}
    BY DEF StoredFeedsFollowTheList
  <2> DEFINE p == pool[r]
             n == p.kind.jobs
             items == kept[r].items
  <2>1. FeedOK(r) /\ PoolOK(p) /\ Yielded(r, items)
    BY PoolInvIs DEF FeedInv, FeedOK
  <2>2. /\ p.at = "over" /\ p.kind \in Kinds /\ p.job \in [1 .. n -> JobState]
        /\ items = WithoutNil(p.out, n) /\ Job(r) = 1 .. n
    BY <2>1 DEF Yielded, PoolOK, PoolItems, Job
  <2>3. n \in Nat /\ p.kind.failing \in {"skip", "replace", "fail"}
    BY <2>2, PoolAssumption DEF PoolAssumption
  <2>4. \A i \in 1 .. n : p.out[i] = IF Yields(p, i) THEN i ELSE 0
    BY <2>1, <2>2 DEF FeedOK, PlacesOK
  <2>5. InOrder(items, p.out, n)
    BY <2>2, <2>3, <2>4, GatheredInOrder
  <2>6. p.kind.failing = "fail" => In(r, {"failed"}) = {}
    BY <2>1 DEF Yielded, PoolFails
  <2> HIDE DEF p, n, items
  <2>7. ASSUME NEW i \in 1 .. n
        PROVE  (\A k \in DOMAIN items : items[k] # i) <=> ~Yields(p, i)
    <3>1. p.out[i] # 0 <=> Yields(p, i)
      BY <2>3, <2>4
    <3>2. (\E k \in DOMAIN items : items[k] = i) <=> p.out[i] # 0
      BY <2>5 DEF InOrder
    <3> QED
      BY <3>1, <3>2
  <2>8. ASSUME NEW i \in 1 .. n
        PROVE  ~Yields(p, i) <=> \/ p.job[i] = "gone"
                                 \/ p.job[i] = "failed" /\ p.kind.failing = "skip"
                                 \/ p.job[i] = "unsent" /\ r \in left
    <3>1. p.job[i] \in JobState \ {"waiting", "running"}
      BY <2>1, <2>2 DEF PoolOK
    <3>2. p.job[i] = "unsent" => r \in left
      BY <2>1, <2>2 DEF FeedOK, SentOK, p
    <3>3. p.kind.failing = "fail" => p.job[i] # "failed"
      BY <2>2, <2>6 DEF In, p
    <3> QED
      BY <2>3, <3>1, <3>2, <3>3 DEF Yields, JobState
  <2>9. \A j, k \in DOMAIN items : j < k => items[j] < items[k]
    BY <2>5 DEF InOrder
  <2> QED
    BY <2>2, <2>6, <2>7, <2>8, <2>9 DEF p, items
<1>4. Spec => [](PoolInv /\ MainInv)
  BY ServerInvariant, PTL
<1> QED
  BY <1>1, <1>2, <1>3, <1>4, PTL DEF Spec
=============================================================================
