-------------------------------- MODULE Server --------------------------------
(***************************************************************************)
(* cmd/server.go around its requests: connections, requests that consult   *)
(* the cache and then fan out (RoutePool) or get a token (RouteCache), a   *)
(* signal, Shutdown with its five-second limit, Close of the cache, and    *)
(* the fatal exits in between.  net/http is external: Shutdown refuses     *)
(* connections, waits for those there are and returns an error when its    *)
(* time is up.                                                             *)
(***************************************************************************)
EXTENDS RoutePool, RouteCache

CONSTANTS MayPanic,   \* may a goroutine of a pool panic?
          MayLeave    \* requests whose client may give up

ASSUME ServerAssumption ==
  /\ Fan \cap Caller = {} /\ MayPanic \in BOOLEAN /\ MayLeave \subseteq Fan

VARIABLES
  phase,    \* the main goroutine and the process
  open,     \* the cache has not been closed
  req,      \* per request: the step it has reached
  left,     \* requests whose client has gone: their context has ended
  reply,    \* per request: the items it is answered with, or an error
  kept      \* per request: the items its feed was stored with

serverVars == <<phase, open, req, left, reply, kept>>
vars == <<serverVars, pool, tokenVars>>

Request  == Fan \cup Caller
Phases   == {"serving", "draining", "closing", "exited", "killed"}
Steps    == {"away", "connected", "lookup", "token", "pool", "store", "answer", "done"}
UsesCache == {"lookup", "token", "store"}
Alive    == phase \notin {"exited", "killed"}
Serving(r) == req[r] \notin {"away", "done"}

NoReply == [by |-> "nobody", items |-> <<>>]
Error   == [by |-> "error", items |-> <<>>]
Reply(items) == [by |-> "handler", items |-> items]
NotKept == [stored |-> FALSE, items |-> <<>>]

Init ==
  /\ PoolInit /\ TokenInit
  /\ phase = "serving" /\ open = TRUE /\ left = {}
  /\ req = [r \in Request |-> "away"]
  /\ reply = [r \in Request |-> NoReply]
  /\ kept = [r \in Request |-> NotKept]

Moves(r, step)    == req' = [req EXCEPT ![r] = step]
Answers(r, what)  == reply' = [reply EXCEPT ![r] = what]

-----------------------------------------------------------------------------
(* One request.                                                            *)

Connect(r) ==
  /\ phase = "serving" /\ req[r] = "away"
  /\ Moves(r, "connected")
  /\ UNCHANGED <<phase, open, left, reply, kept, pool, tokenVars>>

(* the request is read, also from a connection that Shutdown waits for *)
Begin(r) ==
  /\ Alive /\ req[r] = "connected"
  /\ Moves(r, "lookup")
  /\ UNCHANGED <<phase, open, left, reply, kept, pool, tokenVars>>

(* the feed is cached, by another request: no handler runs *)
FeedHit(r) ==
  /\ Alive /\ req[r] = "lookup"
  /\ Moves(r, "answer")
  /\ UNCHANGED <<phase, open, left, reply, kept, pool, tokenVars>>

(* it is not: the route's handler is called *)
FeedMiss(r) ==
  /\ Alive /\ req[r] = "lookup"
  /\ IF r \in Fan THEN StartPool(r) /\ Moves(r, "pool")
                  ELSE UNCHANGED pool /\ Moves(r, "token")
  /\ UNCHANGED <<phase, open, left, reply, kept, tokenVars>>

PoolStep(r) ==
  /\ Alive /\ r \in Fan /\ req[r] = "pool"
  /\ \/ CloseQueue(r, r \in left)
     \/ \E i \in Job(r) : \/ HandJob(r, i) \/ AcquireSlot(r, i)
                          \/ PageArrives(r, i) \/ PageGone(r, i) \/ PageFails(r, i)
  /\ UNCHANGED <<serverVars, tokenVars>>

(* mutant: the handler returns on the first error and leaves its pool *)
FanIn_Early(r) ==
  /\ Alive /\ r \in Fan /\ req[r] = "pool"
  /\ IF PoolFails(r) THEN Answers(r, Error) /\ Moves(r, "answer") /\ UNCHANGED pool
                     ELSE Gather(r) /\ Answers(r, Reply(PoolItems(r))) /\ Moves(r, "store")
  /\ UNCHANGED <<phase, open, left, kept, tokenVars>>

(* The handler returns what its pool has gathered, or the first error.     *)
FanIn(r) ==
  /\ Alive /\ r \in Fan /\ req[r] = "pool"
  /\ Gather(r)
  /\ IF PoolFails(r) THEN Answers(r, Error) /\ Moves(r, "answer")
                     ELSE Answers(r, Reply(PoolItems(r))) /\ Moves(r, "store")
  /\ UNCHANGED <<phase, open, left, kept, tokenVars>>

TokenStep(r) ==
  /\ Alive /\ r \in Caller /\ req[r] = "token"
  /\ \/ \E k \in Token : TokenHit(r, k) \/ TokenMiss(r, k)
     \/ TokenRead(r) \/ TokenEmpty(r) \/ TokenFails(r) \/ TokenKeep(r) \/ TokenUsed(r)
  /\ UNCHANGED <<serverVars, pool>>

(* The handler returns: an error without a token that the site accepts, a  *)
(* feed (of one item, say) with it.                                        *)
TokenOver(r) ==
  /\ Alive /\ r \in Caller /\ req[r] = "token"
  /\ \/ try[r].at \in {"failed", "refused"} /\ Answers(r, Error) /\ Moves(r, "answer")
     \/ try[r].at = "accepted" /\ Answers(r, Reply(<<1>>)) /\ Moves(r, "store")
  /\ UNCHANGED <<phase, open, left, kept, pool, tokenVars>>

(* A feed that came without error is stored, whatever is in it and whether *)
(* or not its client is still there; ShouldCache may say no.               *)
StoreFeed(r) ==
  /\ Alive /\ req[r] = "store"
  /\ \/ kept' = [kept EXCEPT ![r] = [stored |-> TRUE, items |-> reply[r].items]]
     \/ UNCHANGED kept
  /\ Moves(r, "answer")
  /\ UNCHANGED <<phase, open, left, reply, pool, tokenVars>>

Answer(r) ==
  /\ Alive /\ req[r] = "answer"
  /\ Moves(r, "done")
  /\ UNCHANGED <<phase, open, left, reply, kept, pool, tokenVars>>

(* The client goes away: the context of its request ends.  Only a pool     *)
(* looks at that, so it does when there is one.                            *)
Leave(r) ==
  /\ Alive /\ r \in MayLeave \ left /\ req[r] = "pool"
  /\ left' = left \cup {r}
  /\ UNCHANGED <<phase, open, req, reply, kept, pool, tokenVars>>

-----------------------------------------------------------------------------
(* The process.                                                            *)

Becomes(p) == phase' = p /\ UNCHANGED <<req, left, reply, kept, pool, tokenVars>>

(* SIGINT or SIGTERM: Shutdown closes the listeners *)
Signal == phase = "serving" /\ Becomes("draining") /\ UNCHANGED open

(* mutant: Shutdown does not wait for requests that are being served *)
Drained_NoWait == phase = "draining" /\ Becomes("closing") /\ UNCHANGED open

(* Shutdown returns: no connection is left *)
Drained ==
  /\ phase = "draining" /\ \A r \in Request : ~Serving(r)
  /\ Becomes("closing") /\ UNCHANGED open

(* its context ends first: Fatal, without closing the cache *)
TimeUp == phase = "draining" /\ Becomes("killed") /\ UNCHANGED open

(* a listener cannot be opened or fails: Fatal, with requests in flight *)
ServeFails == phase = "serving" /\ Becomes("killed") /\ UNCHANGED open

(* A goroutine of a pool panics: Recovery is not on its stack, and the     *)
(* whole process ends.                                                     *)
WorkerPanics ==
  /\ Alive /\ MayPanic
  /\ \E r \in Fan : req[r] = "pool" /\ Running(r) # {}
  /\ Becomes("killed") /\ UNCHANGED open

CloseCache == phase = "closing" /\ Becomes("exited") /\ open' = FALSE

World ==
  /\ Alive
  /\ (\E k \in Token : SiteReplaces(k)) \/ TokenTick
  /\ UNCHANGED <<serverVars, pool>>

(* The process is gone. *)
Ended == ~Alive /\ UNCHANGED vars

Step(r) ==
  \/ Begin(r) \/ FeedHit(r) \/ FeedMiss(r)
  \/ PoolStep(r) \/ FanIn(r)
  \/ TokenStep(r) \/ TokenOver(r)
  \/ StoreFeed(r) \/ Answer(r)

Next ==
  \/ \E r \in Request : Connect(r) \/ Step(r) \/ Leave(r)
  \/ Signal \/ Drained \/ TimeUp \/ ServeFails \/ WorkerPanics \/ CloseCache
  \/ World \/ Ended

Spec == Init /\ [][Next]_vars

(* Goroutines run, every fetch ends by the client's timeout, connections   *)
(* that send nothing by ReadHeaderTimeout.  Nothing makes clients connect  *)
(* or signals come.                                                        *)
FairSpec ==
  /\ Spec
  /\ \A r \in Request : WF_vars(Step(r))

-----------------------------------------------------------------------------
(* Properties.                                                             *)

(* The pools, the tokens and the requests have the shape the code gives    *)
(* them, and a pool is at work exactly while its request waits for it.     *)
TypeOK ==
  /\ phase \in Phases /\ open \in BOOLEAN /\ left \subseteq Request
  /\ req \in [Request -> Steps]
  /\ TokensOK /\ PoolsOK
  /\ \A r \in Fan : (pool[r].at \in {"feed", "await"}) = (req[r] = "pool")
  /\ \A r \in Caller : req[r] # "token" => try[r].at \notin {"compute", "keep", "have"}

(* When the main goroutine closes the cache and exits, it has answered     *)
(* every request it accepted and none of their goroutines is left; nothing *)
(* else closes the cache, and no request reaches a step that uses it once  *)
(* it is closed.                                                           *)
CleanExit ==
  /\ ~open = (phase = "exited")
  /\ phase \in {"closing", "exited"} =>
       /\ \A r \in Request : ~Serving(r)
       /\ \A r \in Fan : Running(r) = {}
       /\ \A r \in Caller : try[r].at \notin {"compute", "keep"}

(* A feed is stored in the order of the list, whatever order its pages     *)
(* arrive in.  Missing from it are exactly the pages that were gone, those *)
(* that failed in a route that skips them, and those never asked for       *)
(* because the client had gone; a route that fails on an error stores none.*)
StoredFeedsFollowTheList ==
  \A r \in Fan : kept[r].stored =>
    LET items == kept[r].items IN
    /\ \A m, n \in DOMAIN items : m < n => items[m] < items[n]
    /\ \A i \in Job(r) :
         (\A n \in DOMAIN items : items[n] # i) <=>
           \/ pool[r].job[i] = "gone"
           \/ pool[r].job[i] = "failed" /\ pool[r].kind.failing = "skip"
           \/ pool[r].job[i] = "unsent" /\ r \in left
    /\ pool[r].kind.failing = "fail" => In(r, {"failed"}) = {}

(* Every request that fans out is answered, or the process is gone: no     *)
(* pool waits for a job, a slot or a goroutine that never comes.           *)
PoolsEnd == \A r \in Fan : Serving(r) ~> (~Serving(r) \/ ~Alive)

(* handler.go:229, before the test for nil: "Don't cache if feed is nil or *)
(* empty".                                                                 *)
EmptyFeedsAreNotStored ==
  \A r \in Request : kept[r].stored => kept[r].items # <<>>
=============================================================================
