------------------------------ MODULE RoutePool ------------------------------
(***************************************************************************)
(* The bounded fan-out with which eight routes fetch the pages behind a    *)
(* list: hackernews feeds a channel that at most eight workers read, the   *)
(* others start a goroutine per page, each of which waits for a place in a *)
(* semaphore.  Both await all goroutines before the results are read.      *)
(* What a page yields is the number of its job, so that an item in the     *)
(* wrong place can be seen.                                                *)
(***************************************************************************)
EXTENDS Integers, Sequences, FiniteSets

CONSTANTS
  Fan,         \* requests that fan out
  Slots,       \* workers of the channel, places in the semaphore
  Kinds        \* what their routes are like: does it use the channel, how
               \* many pages does its list name, and is a page that fails
               \* skipped, replaced by what the list says of it, or does it
               \* fail the request?

ASSUME PoolAssumption ==
  /\ Slots \in Nat \ {0}
  /\ Kinds \subseteq [queue : BOOLEAN, jobs : Nat, failing : {"skip", "replace", "fail"}]

VARIABLE pool   \* per request: its fan-out

JobState == {"unsent", "waiting", "running", "ok", "gone", "failed"}

Off == [at |-> "off", kind |-> CHOOSE k \in Kinds : TRUE, job |-> <<>>, out |-> <<>>]

Job(r)        == 1 .. pool[r].kind.jobs
In(r, states) == {i \in DOMAIN pool[r].job : pool[r].job[i] \in states}
Running(r)    == In(r, {"running"})

PoolInit == pool = [r \in Fan |-> Off]

(* The channel's workers are started; or all goroutines are, and wait.     *)
StartPool(r) ==
  /\ pool[r].at = "off"
  /\ \E k \in Kinds : pool' = [pool EXCEPT ![r] =
       [at   |-> IF k.queue THEN "feed" ELSE "await",
        kind |-> k,
        job  |-> [i \in 1 .. k.jobs |-> IF k.queue THEN "unsent" ELSE "waiting"],
        out  |-> [i \in 1 .. k.jobs |-> 0]]]

(* job i reaches a state, and leaves item at its place *)
Reaches(r, i, state, item) ==
  pool' = [pool EXCEPT ![r] =
    [at  |-> @.at, kind |-> @.kind,
     job |-> [@.job EXCEPT ![i] = state], out |-> [@.out EXCEPT ![i] = item]]]

(* jobs <- job: the channel has no buffer, a worker has to be free *)
HandJob(r, i) ==
  /\ pool[r].at = "feed"
  /\ i \in In(r, {"unsent"})
  /\ \A j \in In(r, {"unsent"}) : i <= j
  /\ Cardinality(Running(r)) < Slots
  /\ Reaches(r, i, "running", 0)

(* close(jobs): all are handed out, or the request's context has ended *)
CloseQueue(r, ended) ==
  /\ pool[r].at = "feed"
  /\ ended \/ In(r, {"unsent"}) = {}
  /\ pool' = [pool EXCEPT ![r] = [at |-> "await", kind |-> @.kind, job |-> @.job, out |-> @.out]]

(* sem <- struct{}{} *)
AcquireSlot(r, i) ==
  /\ i \in In(r, {"waiting"})
  /\ Cardinality(Running(r)) < Slots
  /\ Reaches(r, i, "running", 0)

(* mutant: results are appended in the order in which pages arrive *)
PageArrives_Appended(r, i) ==
  /\ i \in Running(r)
  /\ LET n == Cardinality({k \in DOMAIN pool[r].out : pool[r].out[k] # 0}) + 1
     IN pool' = [pool EXCEPT ![r].job[i] = "ok", ![r].out[n] = i]

(* the page is there: its item goes to the place of its job *)
PageArrives(r, i) == i \in Running(r) /\ Reaches(r, i, "ok", i)

(* it is there, but deleted or of no use: no item and no error *)
PageGone(r, i) == i \in Running(r) /\ Reaches(r, i, "gone", 0)

(* it is not there *)
PageFails(r, i) ==
  /\ i \in Running(r)
  /\ Reaches(r, i, "failed", IF pool[r].kind.failing = "replace" THEN i ELSE 0)

(* mutant: a goroutine counts itself out only when it has a result *)
PoolDone_OnSuccess(r) ==
  pool[r].at = "await" /\ In(r, {"waiting", "running", "failed"}) = {}

(* wg.Wait returns *)
PoolDone(r) == pool[r].at = "await" /\ In(r, {"waiting", "running"}) = {}

(* the loop over the n results: AddItem skips what is nil *)
WithoutNil(out, n) ==
  LET added[m \in 0 .. n] ==
        IF m = 0 THEN <<>>
        ELSE IF out[m] = 0 THEN added[m - 1] ELSE Append(added[m - 1], out[m])
  IN added[n]

PoolItems(r) == WithoutNil(pool[r].out, pool[r].kind.jobs)

(* a remembered error fails the whole request *)
PoolFails(r) == pool[r].kind.failing = "fail" /\ In(r, {"failed"}) # {}

Gather(r) ==
  /\ PoolDone(r)
  /\ pool' = [pool EXCEPT ![r] = [at |-> "over", kind |-> @.kind, job |-> @.job, out |-> @.out]]

(* ended: whether the context of a request has ended is not the pool's to know *)
PoolNext ==
  \E r \in Fan :
    \/ StartPool(r) \/ Gather(r)
    \/ \E ended \in BOOLEAN : CloseQueue(r, ended)
    \/ \E i \in Job(r) : \/ HandJob(r, i) \/ AcquireSlot(r, i)
                         \/ PageArrives(r, i) \/ PageGone(r, i) \/ PageFails(r, i)

PoolSpec == PoolInit /\ [][PoolNext]_pool

-----------------------------------------------------------------------------
(* Properties.                                                             *)

PoolsOK ==
  /\ DOMAIN pool = Fan
  /\ \A r \in Fan :
       /\ pool[r].at \in {"off", "feed", "await", "over"}
       /\ IF pool[r].at = "off" THEN pool[r] = Off
          ELSE /\ pool[r].kind \in Kinds
               /\ pool[r].job \in [Job(r) -> JobState]
               /\ pool[r].out \in [Job(r) -> {0} \cup Job(r)]
=============================================================================
