--------------------------- MODULE StartAdmission ---------------------------
(***************************************************************************)
(* The start requests of one worker process, between the admission gate    *)
(* that bounds how many of them use the database (start_db_admission.py),  *)
(* the single-flight loaders of the caches they read (singleflight.py) and *)
(* the Redis lock that lets one of them validate the exam (exams.py).      *)
(*                                                                         *)
(* A request passes three stages.  "security" and "questions" read a       *)
(* cache; on a miss one request loads the value, in a segment of the gate, *)
(* and those that come later wait for its result.  "main" is a segment of  *)
(* the gate; in it the exam is validated, by one request in a nested       *)
(* segment, while others poll the cache, each holding its permit.          *)
(*                                                                         *)
(* A step runs to the next await.  A request may be cancelled at any.      *)
(***************************************************************************)
EXTENDS Integers, FiniteSets

CONSTANTS
    Request,
    Limit,      \* START_DB_ADMISSION_LIMIT of a gated process
    None

ASSUME LimitAssumption == Limit \in Nat \ {0} /\ IsFiniteSet(Request)
ASSUME NoRequestAssumption == None \notin Request

Loaded == {"security", "questions"}   \* the stages that read a cache

Caches == Loaded \cup {"integrity"}

VARIABLES
    at,       \* where each request is
    stage,    \* in which stage
    depth,    \* StartAdmissionLease.depth: segments it is in
    permits,  \* value of the gate's asyncio.Semaphore
    ahead,    \* the semaphore's waiters that came before it
    holders,  \* ProcessAdmissionGate.holders
    waiters,  \* ProcessAdmissionGate.waiters
    cached,   \* the caches that hold a value
    flight,   \* KeyedSingleFlight: who loads each key, or None
    vlock     \* holder of the Redis validation lock, or None

gate == <<depth, permits, ahead, holders, waiters>>
vars == <<at, stage, gate, cached, flight, vlock>>

Ended == {"done", "failed", "cancelled"}

Places == Ended \cup {"idle", "check", "missed", "follow", "fill", "wait",
                      "hold", "store", "landed", "validate", "poll", "tx"}

TypeOK ==
    /\ at \in [Request -> Places]
    /\ stage \in [Request -> Loaded \cup {"main"}]
    /\ depth \in [Request -> 0..2]
    /\ permits \in 0..Limit
    /\ ahead \in [Request -> SUBSET Request]
    /\ holders \in Nat
    /\ waiters \in Nat
    /\ cached \subseteq Caches
    /\ flight \in [Loaded -> Request \cup {None}]
    /\ vlock \in Request \cup {None}

Init ==
    /\ at = [p \in Request |-> "idle"]
    /\ stage = [p \in Request |-> "security"]
    /\ depth = [p \in Request |-> 0]
    /\ permits = Limit
    /\ ahead = [p \in Request |-> {}]
    /\ holders = 0
    /\ waiters = 0
    /\ cached = {}
    /\ flight = [k \in Loaded |-> None]
    /\ vlock = None

-----------------------------------------------------------------------------
(* The gate. *)

Goto(p, place) == at' = [at EXCEPT ![p] = place]

Waiting == {p \in Request : at[p] = "wait"}

Followers(k) == {p \in Request : at[p] = "follow" /\ stage[p] = k}

Floor(n) == IF n > 0 THEN n ELSE 0

(* lease.acquire of a request outside every segment: it queues. *)
Enqueues(p) ==
    /\ waiters' = waiters + 1
    /\ ahead' = [ahead EXCEPT ![p] = Waiting]
    /\ UNCHANGED <<depth, permits, holders>>

(* The queue without p. *)
AheadWithout(p) == [q \in Request |-> IF q = p THEN {} ELSE ahead[q] \ {p}]

(* Variant with a bug: a segment inside a segment waits for a permit. *)
EntersNestedWaiting(p, place) ==
    /\ Goto(p, "wait")
    /\ Enqueues(p)

(* lease.acquire of a request that is in a segment: no second permit. *)
EntersNested(p, place) ==
    /\ Goto(p, place)
    /\ depth' = [depth EXCEPT ![p] = @ + 1]
    /\ UNCHANGED <<permits, ahead, holders, waiters>>

Releases(p) ==
    /\ depth' = [depth EXCEPT ![p] = 0]
    /\ holders' = Floor(holders - 1)
    /\ permits' = permits + 1
    /\ UNCHANGED <<ahead, waiters>>

(* Variant with a bug: a cancelled holder keeps the permit. *)
LeavesGateLeaking(p) ==
    IF at[p] = "wait"
    THEN /\ waiters' = Floor(waiters - 1)
         /\ ahead' = AheadWithout(p)
         /\ UNCHANGED <<depth, permits, holders>>
    ELSE /\ depth' = [depth EXCEPT ![p] = 0]
         /\ UNCHANGED <<permits, ahead, holders, waiters>>

(* A request that is thrown out of whatever segments it is in or waits for. *)
LeavesGate(p) ==
    IF at[p] = "wait"
    THEN /\ waiters' = Floor(waiters - 1)
         /\ ahead' = AheadWithout(p)
         /\ UNCHANGED <<depth, permits, holders>>
    ELSE IF depth[p] > 0 THEN Releases(p)
    ELSE UNCHANGED gate

(* asyncio.Semaphore serves its waiters in order. *)
Granted(p) ==
    /\ at[p] = "wait"
    /\ permits > 0
    /\ ahead[p] = {}
    /\ permits' = permits - 1
    /\ waiters' = Floor(waiters - 1)
    /\ holders' = holders + 1
    /\ depth' = [depth EXCEPT ![p] = 1]
    /\ ahead' = AheadWithout(p)
    /\ Goto(p, "hold")
    /\ UNCHANGED <<stage, cached, flight, vlock>>

-----------------------------------------------------------------------------
(* Stages "security" and "questions": a cache and its single flight. *)

Arrive(p) ==
    /\ at[p] = "idle"
    /\ Goto(p, "check")
    /\ UNCHANGED <<stage, gate, cached, flight, vlock>>

(* The cache is read; a request that finds the value needs no flight. *)
CacheHit(p) ==
    /\ at[p] = "check"
    /\ stage[p] \in cached
    /\ Goto(p, "landed")
    /\ UNCHANGED <<stage, gate, cached, flight, vlock>>

CacheMiss(p) ==
    /\ at[p] = "check"
    /\ stage[p] \notin cached
    /\ Goto(p, "missed")
    /\ UNCHANGED <<stage, gate, cached, flight, vlock>>

(* Variant with a bug: the flight is not entered before the first await. *)
LeadsUnregistered(p) ==
    /\ at[p] = "missed"
    /\ flight[stage[p]] = None
    /\ Goto(p, "fill")
    /\ UNCHANGED <<stage, gate, cached, flight, vlock>>

Leads(p) ==
    /\ at[p] = "missed"
    /\ flight[stage[p]] = None
    /\ flight' = [flight EXCEPT ![stage[p]] = p]
    /\ Goto(p, "fill")
    /\ UNCHANGED <<stage, gate, cached, vlock>>

Follows(p) ==
    /\ at[p] = "missed"
    /\ flight[stage[p]] # None
    /\ Goto(p, "follow")
    /\ UNCHANGED <<stage, gate, cached, flight, vlock>>

(* Variant with a bug: a cancelled leader does not cancel its future. *)
ResolveAlone(p, how) ==
    /\ Goto(p, how)
    /\ flight' = [flight EXCEPT ![stage[p]] = None]

(* The leader's load comes to its end, and its followers' wait with it:    *)
(* they all have the value, or the exception, or are cancelled.            *)
Resolve(p, how) ==
    LET crew == Followers(stage[p]) \cup {p}
    IN /\ at' = [q \in Request |-> IF q \in crew THEN how ELSE at[q]]
       /\ flight' = [flight EXCEPT ![stage[p]] = None]

(* The loader looks at the cache again, then asks for its segment. *)
Fill(p) ==
    /\ at[p] = "fill"
    /\ IF stage[p] \in cached
       THEN Resolve(p, "landed") /\ UNCHANGED gate
       ELSE Goto(p, "wait") /\ Enqueues(p) /\ UNCHANGED flight
    /\ UNCHANGED <<stage, cached, vlock>>

(* The rows are read, and the segment is left before the cache is set. *)
Load(p) ==
    /\ at[p] = "hold"
    /\ stage[p] \in Loaded
    /\ Goto(p, "store")
    /\ Releases(p)
    /\ UNCHANGED <<stage, cached, flight, vlock>>

(* A failed read of the security settings counts as "off", one of the      *)
(* questions is an error; neither is cached.                               *)
LoadFails(p) ==
    /\ at[p] = "hold"
    /\ stage[p] \in Loaded
    /\ Resolve(p, IF stage[p] = "security" THEN "landed" ELSE "failed")
    /\ Releases(p)
    /\ UNCHANGED <<stage, cached, vlock>>

(* Redis may be down, then nothing is cached. *)
Store(p) ==
    /\ at[p] = "store"
    /\ \/ cached' = cached \cup {stage[p]}
       \/ UNCHANGED cached
    /\ Resolve(p, "landed")
    /\ UNCHANGED <<stage, gate, vlock>>

(* From "security" to "main", which needs a segment, or to the answer. *)
GoesOn(p) ==
    /\ at[p] = "landed"
    /\ IF stage[p] = "security"
       THEN /\ stage' = [stage EXCEPT ![p] = "main"]
            /\ Goto(p, "wait")
            /\ Enqueues(p)
       ELSE /\ Goto(p, "done")
            /\ UNCHANGED <<stage, gate>>
    /\ UNCHANGED <<cached, flight, vlock>>

-----------------------------------------------------------------------------
(* Stage "main": the validation of the exam, then the transaction. *)

Main(p) == at[p] = "hold" /\ stage[p] = "main"

ValidationCached(p) ==
    /\ Main(p)
    /\ "integrity" \in cached
    /\ Goto(p, "tx")
    /\ UNCHANGED <<stage, gate, cached, flight, vlock>>

(* The lock is taken with SET NX; without Redis everyone validates. *)
Validates(p) ==
    /\ Main(p)
    /\ \/ "integrity" \notin cached /\ vlock = None /\ vlock' = p
       \/ UNCHANGED vlock
    /\ EntersNested(p, "validate")
    /\ UNCHANGED <<stage, cached, flight>>

(* Another request validates: poll its result, up to 12 seconds. *)
Polls(p) ==
    /\ Main(p)
    /\ "integrity" \notin cached
    /\ vlock # None
    /\ Goto(p, "poll")
    /\ UNCHANGED <<stage, gate, cached, flight, vlock>>

(* The result is there, or the time is up and the validation is skipped. *)
PollEnds(p) ==
    /\ at[p] = "poll"
    /\ Goto(p, "tx")
    /\ UNCHANGED <<stage, gate, cached, flight, vlock>>

(* Variant with a bug: a nested segment gives a permit back as well. *)
ValidationEndsReleasing(p) ==
    /\ at[p] = "validate"
    /\ depth' = [depth EXCEPT ![p] = @ - 1]
    /\ permits' = permits + 1
    /\ cached' = cached \cup {"integrity"}
    /\ vlock' = IF vlock = p THEN None ELSE vlock
    /\ Goto(p, "tx")
    /\ UNCHANGED <<stage, ahead, holders, waiters, flight>>

(* The nested segment ends; the request keeps its permit. *)
ValidationEnds(p) ==
    /\ at[p] = "validate"
    /\ depth' = [depth EXCEPT ![p] = @ - 1]
    /\ cached' = cached \cup {"integrity"}
    /\ vlock' = IF vlock = p THEN None ELSE vlock
    /\ Goto(p, "tx")
    /\ UNCHANGED <<stage, permits, ahead, holders, waiters, flight>>

(* The exam is invalid, or the read fails: the lock is left to expire. *)
ValidationFails(p) ==
    /\ at[p] = "validate"
    /\ Releases(p)
    /\ Goto(p, "failed")
    /\ UNCHANGED <<stage, cached, flight, vlock>>

(* The session is created or resumed, and the segment left. *)
Commits(p) ==
    /\ at[p] = "tx"
    /\ Releases(p)
    /\ stage' = [stage EXCEPT ![p] = "questions"]
    /\ Goto(p, "check")
    /\ UNCHANGED <<cached, flight, vlock>>

Refuses(p) ==
    /\ at[p] = "tx"
    /\ Releases(p)
    /\ Goto(p, "failed")
    /\ UNCHANGED <<stage, cached, flight, vlock>>

-----------------------------------------------------------------------------
(* Cancellation, and time. *)

Leading(p) == stage[p] \in Loaded /\ at[p] \in {"fill", "wait", "hold", "store"}

(* The client is gone: CancelledError at whatever the request awaits. *)
Cancel(p) ==
    /\ at[p] \notin Ended \cup {"idle"}
    /\ IF Leading(p) THEN Resolve(p, "cancelled")
       ELSE Goto(p, "cancelled") /\ UNCHANGED flight
    /\ LeavesGate(p)
    /\ UNCHANGED <<stage, cached, vlock>>

(* The keys live 15 seconds to 30 minutes. *)
CacheExpires(k) ==
    /\ k \in cached
    /\ cached' = cached \ {k}
    /\ UNCHANGED <<at, stage, gate, flight, vlock>>

LockExpires ==
    /\ vlock # None
    /\ vlock' = None
    /\ UNCHANGED <<at, stage, gate, cached, flight>>

-----------------------------------------------------------------------------

(* A step of p's own: what it awaits has come. *)
Proceeds(p) ==
    \/ CacheHit(p) \/ CacheMiss(p) \/ Leads(p) \/ Follows(p) \/ Fill(p)
    \/ Granted(p) \/ Load(p) \/ LoadFails(p) \/ Store(p) \/ GoesOn(p)
    \/ ValidationCached(p) \/ Validates(p) \/ Polls(p) \/ PollEnds(p)
    \/ ValidationEnds(p) \/ ValidationFails(p) \/ Commits(p) \/ Refuses(p)

(* All requests were served. *)
Quiet == (\A p \in Request : at[p] \in Ended) /\ UNCHANGED vars

Next ==
    \/ \E p \in Request : Arrive(p) \/ Proceeds(p) \/ Cancel(p)
    \/ \E k \in Caches : CacheExpires(k)
    \/ LockExpires
    \/ Quiet

Spec == Init /\ [][Next]_vars

(* The event loop runs every task that is ready; the statements of a       *)
(* segment come back, and a poll has its deadline.                         *)
FairSpec == Spec /\ \A p \in Request : WF_vars(Proceeds(p))

-----------------------------------------------------------------------------
(* Properties. *)

Holding == {p \in Request : depth[p] > 0}

(* However requests fail or are cancelled, no permit is lost and none is   *)
(* made up, and the counters shown to the operators are true.              *)
PermitsConserved ==
    /\ permits + Cardinality(Holding) = Limit
    /\ holders = Cardinality(Holding)
    /\ waiters = Cardinality(Waiting)

(* No request waits for a permit or for another's load while it holds a    *)
(* permit, so that a full gate always empties.                             *)
NoHoldAndWait ==
    \A p \in Holding : at[p] \in {"hold", "validate", "poll", "tx"}

(* One request at a time loads a key, however many miss it and however     *)
(* many loads are cancelled or fail.                                       *)
OneLoader ==
    \A p, q \in Request :
        Leading(p) /\ Leading(q) /\ stage[p] = stage[q] => p = q

(* Nobody waits for something that will not come: a follower's key has a   *)
(* leader that can still resolve its flight, cancelled leaders included,   *)
(* and when requests queue for a permit, one is held or the first of the   *)
(* queue may take one.                                                     *)
NobodyWaitsInVain ==
    /\ \A p \in Request :
          at[p] = "follow" => \E q \in Request : Leading(q) /\ stage[q] = stage[p]
    /\ Waiting # {} =>
          \/ Holding # {}
          \/ permits > 0 /\ \E q \in Waiting : ahead[q] = {}

(* Every start request is answered, also with one permit only, and when    *)
(* the leaders of its flights are cancelled or fail.                       *)
EveryStartEnds == \A p \in Request : at[p] = "check" ~> at[p] \in Ended

=============================================================================
