------------------------ MODULE StartAdmissionProofs ------------------------
(***************************************************************************)
(* Theorems about StartAdmission for any finite set of start requests and  *)
(* any limit of the gate.                                                  *)
(***************************************************************************)
EXTENDS StartAdmission, FiniteSetTheorems, WellFoundedInduction, TLAPS

-----------------------------------------------------------------------------
(* The inductive invariant.  Where a request is decides how many segments  *)
(* it is in, so the gate's numbers are counts of places.                   *)

GatePlaces == {"hold", "validate", "poll", "tx"}

CachePlaces == {"idle", "check", "missed", "follow", "fill", "store", "landed"}

InGate == {q \in Request : at[q] \in GatePlaces}

DepthAt(place) ==
    IF place = "validate" THEN 2 ELSE IF place \in GatePlaces THEN 1 ELSE 0

Placed(q) ==
    /\ depth[q] = DepthAt(at[q])
    /\ at[q] \in CachePlaces => stage[q] \in Loaded
    /\ Leading(q) => flight[stage[q]] = q

Counted ==
    /\ permits + Cardinality(InGate) = Limit
    /\ holders = Cardinality(InGate)
    /\ waiters = Cardinality(Waiting)

Inductive == TypeOK /\ Counted /\ \A q \in Request : Placed(q)

(* TypeOK but for the three numbers. *)
Shape ==
    /\ at \in [Request -> Places]
    /\ stage \in [Request -> Loaded \cup {"main"}]
    /\ depth \in [Request -> 0..2]
    /\ ahead \in [Request -> SUBSET Request]
    /\ cached \subseteq Caches
    /\ flight \in [Loaded -> Request \cup {None}]
    /\ vlock \in Request \cup {None}

-----------------------------------------------------------------------------
(* Counting. *)

One(condition) == IF condition THEN 1 ELSE 0

(* What a step of p does to the numbers. *)
Tally(p) ==
    /\ permits' = permits + One(at[p] \in GatePlaces) - One(at'[p] \in GatePlaces)
    /\ holders' = holders - One(at[p] \in GatePlaces) + One(at'[p] \in GatePlaces)
    /\ waiters' = waiters - One(at[p] = "wait") + One(at'[p] = "wait")
    /\ permits' >= 0

(* Apart from p, only requests that wait for p's load may move. *)
Others(p) ==
    \A q \in Request \ {p} :
        at'[q] = at[q] \/ (at[q] = "follow" /\ at'[q] \in {"landed", "failed", "cancelled"})

LEMMA CountOne ==
    ASSUME NEW S, NEW T, IsFiniteSet(S), IsFiniteSet(T), NEW p, S \ {p} = T \ {p}
    PROVE  /\ Cardinality(S) \in Nat /\ Cardinality(T) \in Nat
           /\ p \in S => Cardinality(S) >= 1
           /\ Cardinality(T) = Cardinality(S) - One(p \in S) + One(p \in T)
<1>1. /\ Cardinality(S) \in Nat /\ Cardinality(S \ {p}) \in Nat
      /\ Cardinality(S \ {p}) = Cardinality(S) - One(p \in S)
  <2>1. IsFiniteSet(S \ {p})
        /\ Cardinality(S \ {p}) = IF p \in S THEN Cardinality(S) - 1 ELSE Cardinality(S)
    BY FS_RemoveElement
  <2>2. Cardinality(S) \in Nat /\ Cardinality(S \ {p}) \in Nat
    BY <2>1, FS_CardinalityType
  <2>3. QED
    BY <2>1, <2>2 DEF One
<1>2. /\ Cardinality(T) \in Nat
      /\ Cardinality(T \ {p}) = Cardinality(T) - One(p \in T)
  <2>1. Cardinality(T \ {p}) = IF p \in T THEN Cardinality(T) - 1 ELSE Cardinality(T)
    BY FS_RemoveElement
  <2>2. Cardinality(T) \in Nat
    BY FS_CardinalityType
  <2>3. QED
    BY <2>1, <2>2 DEF One
<1>3. One(p \in S) \in 0..1 /\ One(p \in T) \in 0..1 /\ (p \in S => One(p \in S) = 1)
  BY DEF One
<1>4. Cardinality(S \ {p}) = Cardinality(T \ {p})
  OBVIOUS
<1>5. QED
  BY <1>1, <1>2, <1>3, <1>4

LEMMA CountsMove ==
    ASSUME Inductive, Shape', NEW p \in Request, Others(p), Tally(p)
    PROVE  Counted' /\ permits' \in 0..Limit /\ holders' \in Nat /\ waiters' \in Nat
<1>1. InGate \ {p} = InGate' \ {p} /\ Waiting \ {p} = Waiting' \ {p}
  BY DEF Others, InGate, GatePlaces, Waiting
<1>2. /\ IsFiniteSet(InGate) /\ IsFiniteSet(InGate')
      /\ IsFiniteSet(Waiting) /\ IsFiniteSet(Waiting')
  <2>1. InGate \subseteq Request /\ InGate' \subseteq Request
        /\ Waiting \subseteq Request /\ Waiting' \subseteq Request
    BY DEF InGate, Waiting
  <2>2. QED
    BY <2>1, LimitAssumption, FS_Subset
<1>3. /\ Cardinality(InGate) \in Nat /\ Cardinality(InGate') \in Nat
      /\ Cardinality(InGate') = Cardinality(InGate) - One(p \in InGate) + One(p \in InGate')
  BY <1>1, <1>2, CountOne
<1>4. /\ Cardinality(Waiting) \in Nat /\ Cardinality(Waiting') \in Nat
      /\ Cardinality(Waiting') = Cardinality(Waiting) - One(p \in Waiting) + One(p \in Waiting')
  BY <1>1, <1>2, CountOne
<1>5. /\ One(p \in InGate) = One(at[p] \in GatePlaces)
      /\ One(p \in InGate') = One(at'[p] \in GatePlaces)
      /\ One(p \in Waiting) = One(at[p] = "wait")
      /\ One(p \in Waiting') = One(at'[p] = "wait")
  BY DEF InGate, Waiting, One
<1>6. /\ One(at[p] \in GatePlaces) \in 0..1 /\ One(at'[p] \in GatePlaces) \in 0..1
      /\ One(at[p] = "wait") \in 0..1 /\ One(at'[p] = "wait") \in 0..1
  BY DEF One
<1>7. permits \in Int /\ holders \in Int /\ waiters \in Int /\ Limit \in Nat
  BY LimitAssumption DEF Inductive, TypeOK
<1>8. /\ permits + Cardinality(InGate) = Limit
      /\ holders = Cardinality(InGate) /\ waiters = Cardinality(Waiting)
  BY DEF Inductive, Counted
<1>9. Counted'
  BY <1>3, <1>4, <1>5, <1>6, <1>7, <1>8 DEF Tally, Counted
<1>10. QED
  BY <1>3, <1>4, <1>5, <1>6, <1>7, <1>8, <1>9 DEF Tally, Counted

(* A request in the gate, or in its queue, is counted. *)
LEMMA AtLeastOne ==
    ASSUME Inductive, NEW p \in Request
    PROVE  /\ at[p] \in GatePlaces => holders >= 1
           /\ at[p] = "wait" => waiters >= 1
<1>1. IsFiniteSet(InGate) /\ IsFiniteSet(Waiting)
  <2>1. InGate \subseteq Request /\ Waiting \subseteq Request
    BY DEF InGate, Waiting
  <2>2. QED
    BY <2>1, LimitAssumption, FS_Subset
<1>2. /\ p \in InGate => Cardinality(InGate) >= 1
      /\ p \in Waiting => Cardinality(Waiting) >= 1
  BY <1>1, CountOne
<1>3. QED
  BY <1>2 DEF InGate, Waiting, Inductive, Counted

-----------------------------------------------------------------------------
(* A step: what it must show. *)

Good(p) == Shape' /\ Others(p) /\ Tally(p) /\ \A q \in Request : Placed(q)'

LEMMA GoodSteps ==
    ASSUME Inductive, NEW p \in Request, Good(p)
    PROVE  Inductive'
<1>1. Counted' /\ permits' \in 0..Limit /\ holders' \in Nat /\ waiters' \in Nat
  BY CountsMove DEF Good
<1>2. TypeOK'
  BY <1>1 DEF Good, Shape, TypeOK
<1>3. QED
  BY <1>1, <1>2 DEF Inductive, Good

(* The numbers when p stays in the gate or out of it, and out of the queue. *)
LEMMA TallySame ==
    ASSUME Inductive, NEW p \in Request, UNCHANGED <<permits, holders, waiters>>,
           at[p] \in GatePlaces <=> at'[p] \in GatePlaces, at[p] # "wait", at'[p] # "wait"
    PROVE  Tally(p)
<1>1. permits \in Nat /\ holders \in Nat /\ waiters \in Nat
  BY LimitAssumption DEF Inductive, TypeOK
<1>2. QED
  BY <1>1 DEF Tally, One

LEMMA TallyEnqueue ==
    ASSUME Inductive, NEW p \in Request, waiters' = waiters + 1, UNCHANGED <<permits, holders>>,
           at[p] \notin GatePlaces, at[p] # "wait", at'[p] = "wait"
    PROVE  Tally(p)
<1>1. permits \in Nat /\ holders \in Nat /\ waiters \in Nat
  BY LimitAssumption DEF Inductive, TypeOK
<1>2. QED
  BY <1>1 DEF Tally, One, GatePlaces

LEMMA TallyRelease ==
    ASSUME Inductive, NEW p \in Request, Releases(p),
           at[p] \in GatePlaces, at'[p] \notin GatePlaces, at'[p] # "wait"
    PROVE  Tally(p)
<1>1. permits \in Nat /\ holders \in Nat /\ waiters \in Nat /\ holders >= 1
  BY LimitAssumption, AtLeastOne DEF Inductive, TypeOK
<1>2. permits' = permits + 1 /\ holders' = holders - 1 /\ waiters' = waiters
  BY <1>1 DEF Releases, Floor
<1>3. QED
  BY <1>1, <1>2 DEF Tally, One, GatePlaces

(* p moves alone: the others are placed as before. *)
LEMMA PlacedAlone ==
    ASSUME Inductive, NEW p \in Request, NEW place \in Places, Goto(p, place),
           \A q \in Request \ {p} : /\ depth'[q] = depth[q] /\ stage'[q] = stage[q]
                                    /\ Leading(q) => flight'[stage[q]] = flight[stage[q]],
           Placed(p)'
    PROVE  Others(p) /\ at' \in [Request -> Places] /\ at'[p] = place
           /\ \A q \in Request : Placed(q)'
<1>1. at' \in [Request -> Places] /\ at'[p] = place /\ \A q \in Request \ {p} : at'[q] = at[q]
  BY DEF Goto, Inductive, TypeOK
<1>2. ASSUME NEW q \in Request \ {p} PROVE Placed(q)'
  <2>1. Placed(q) /\ at'[q] = at[q] /\ depth'[q] = depth[q] /\ stage'[q] = stage[q]
    BY <1>1, <1>2 DEF Inductive
  <2>2. QED
    BY <2>1 DEF Placed, Leading
<1>3. QED
  BY <1>1, <1>2 DEF Others

LEMMA PlacedHere ==
    ASSUME Inductive, NEW p \in Request
    PROVE  /\ Placed(p) /\ at[p] \in Places /\ depth[p] \in 0..2 /\ stage[p] \in Loaded \cup {"main"}
           /\ p # None
BY NoRequestAssumption DEF Inductive, TypeOK

-----------------------------------------------------------------------------
(* The steps of one request that touch no other. *)

Caching(p) == Arrive(p) \/ CacheHit(p) \/ CacheMiss(p) \/ Leads(p) \/ Follows(p)

LEMMA CachingGood == ASSUME Inductive, NEW p \in Request, Caching(p) PROVE Good(p)
<1>1. PICK place \in {"check", "missed", "landed", "fill", "follow"} :
        Goto(p, place) /\ (place = "fill" => flight' = [flight EXCEPT ![stage[p]] = p])
  BY DEF Caching, Arrive, CacheHit, CacheMiss, Leads, Follows
<1>2. stage' = stage /\ UNCHANGED gate /\ cached' = cached /\ vlock' = vlock
  BY DEF Caching, Arrive, CacheHit, CacheMiss, Leads, Follows
<1>3. \/ flight' = flight
      \/ flight[stage[p]] = None /\ flight' = [flight EXCEPT ![stage[p]] = p]
  BY DEF Caching, Arrive, CacheHit, CacheMiss, Leads, Follows
<1>4. at[p] \in {"idle", "check", "missed"}
  BY DEF Caching, Arrive, CacheHit, CacheMiss, Leads, Follows
<1>5. stage[p] \in Loaded /\ depth[p] = 0
  BY <1>4, PlacedHere DEF Placed, CachePlaces, DepthAt, GatePlaces
<1>6. \A q \in Request \ {p} : Leading(q) => flight'[stage[q]] = flight[stage[q]]
  <2> SUFFICES ASSUME NEW q \in Request \ {p}, Leading(q) PROVE flight'[stage[q]] = flight[stage[q]]
    OBVIOUS
  <2>1. flight[stage[q]] = q /\ q # None
    BY PlacedHere DEF Placed
  <2>2. stage[q] \in Loaded
    BY DEF Leading
  <2>3. CASE flight' = flight
    BY <2>3
  <2>4. CASE flight[stage[p]] = None /\ flight' = [flight EXCEPT ![stage[p]] = p]
    BY <2>1, <2>2, <2>4 DEF Inductive, TypeOK
  <2>5. QED
    BY <1>3, <2>3, <2>4
<1>7. at'[p] = place /\ flight' \in [Loaded -> Request \cup {None}]
  BY <1>1, <1>3 DEF Goto, Inductive, TypeOK
<1>8. Placed(p)'
  <2>1. depth'[p] = 0 /\ stage'[p] = stage[p]
    BY <1>2, <1>5 DEF gate
  <2>2. place = "fill" => flight'[stage[p]] = p
    BY <1>1, <1>5 DEF Inductive, TypeOK
  <2>3. QED
    BY <1>5, <1>7, <2>1, <2>2 DEF Placed, Leading, DepthAt, GatePlaces
<1>9. Others(p) /\ at' \in [Request -> Places] /\ \A q \in Request : Placed(q)'
  <2>1. place \in Places
    BY DEF Places
  <2>2. \A q \in Request \ {p} : depth'[q] = depth[q] /\ stage'[q] = stage[q]
    BY <1>2 DEF gate
  <2>3. QED
    BY <1>1, <1>6, <1>8, <2>1, <2>2, PlacedAlone
<1>10. Tally(p)
  BY <1>2, <1>4, <1>7, TallySame DEF gate, GatePlaces
<1>11. Shape'
  BY <1>2, <1>7, <1>9 DEF gate, Shape, Inductive, TypeOK
<1>12. QED
  BY <1>9, <1>10, <1>11 DEF Good

Validating(p) ==
    \/ ValidationCached(p) \/ Validates(p) \/ Polls(p) \/ PollEnds(p) \/ ValidationEnds(p)

LEMMA ValidatingGood == ASSUME Inductive, NEW p \in Request, Validating(p) PROVE Good(p)
<1>1. PICK place \in {"tx", "validate", "poll"} : Goto(p, place)
  BY DEF Validating, ValidationCached, Validates, Polls, PollEnds, ValidationEnds, EntersNested
<1>2. /\ stage' = stage /\ flight' = flight
      /\ UNCHANGED <<permits, ahead, holders, waiters>>
  BY DEF Validating, ValidationCached, Validates, Polls, PollEnds, ValidationEnds, EntersNested, gate
<1>3. at[p] \in GatePlaces /\ at'[p] = place
  BY <1>1 DEF Validating, ValidationCached, Validates, Polls, PollEnds, ValidationEnds, Main,
              GatePlaces, Goto, Inductive, TypeOK
<1>4. ~Leading(p)'
  BY <1>3 DEF Leading
<1>5. depth' \in [Request -> 0..2] /\ depth'[p] = DepthAt(place)
      /\ \A q \in Request \ {p} : depth'[q] = depth[q]
  <2>1. depth[p] = DepthAt(at[p]) /\ depth \in [Request -> 0..2]
    BY PlacedHere DEF Placed, Inductive, TypeOK
  <2>2. CASE Validates(p)
    <3>1. depth[p] = 1 /\ depth' = [depth EXCEPT ![p] = @ + 1] /\ place = "validate"
      BY <1>3, <2>1, <2>2 DEF Validates, Main, EntersNested, DepthAt, GatePlaces, Goto, Inductive, TypeOK
    <3>2. QED
      BY <2>1, <3>1 DEF DepthAt
  <2>3. CASE ValidationEnds(p)
    <3>1. depth[p] = 2 /\ depth' = [depth EXCEPT ![p] = @ - 1] /\ place = "tx"
      BY <1>3, <2>1, <2>3 DEF ValidationEnds, DepthAt, GatePlaces, Goto, Inductive, TypeOK
    <3>2. QED
      BY <2>1, <3>1 DEF DepthAt, GatePlaces
  <2>4. CASE ValidationCached(p) \/ Polls(p) \/ PollEnds(p)
    <3>1. depth' = depth /\ at[p] \in {"hold", "poll"} /\ place \in {"tx", "poll"}
      BY <1>3, <2>4 DEF ValidationCached, Polls, PollEnds, Main, gate, Goto, Inductive, TypeOK
    <3>2. QED
      BY <2>1, <3>1 DEF DepthAt, GatePlaces
  <2>5. QED
    BY <2>2, <2>3, <2>4 DEF Validating
<1>6. Placed(p)'
  BY <1>3, <1>4, <1>5 DEF Placed, CachePlaces
<1>7. Others(p) /\ at' \in [Request -> Places] /\ \A q \in Request : Placed(q)'
  <2>1. place \in Places
    BY DEF Places
  <2>2. QED
    BY <1>1, <1>2, <1>5, <1>6, <2>1, PlacedAlone
<1>8. Tally(p)
  BY <1>2, <1>3, TallySame DEF GatePlaces
<1>9. cached' \subseteq Caches /\ vlock' \in Request \cup {None}
  BY DEF Validating, ValidationCached, Validates, Polls, PollEnds, ValidationEnds, Caches,
         Inductive, TypeOK
<1>10. Shape'
  BY <1>2, <1>5, <1>7, <1>9 DEF Shape, Inductive, TypeOK
<1>11. QED
  BY <1>7, <1>8, <1>10 DEF Good

(* Into the queue, out of it, and out of the gate. *)
Queueing(p) == (Fill(p) /\ stage[p] \notin cached) \/ (GoesOn(p) /\ stage[p] = "security")

LEMMA QueueingGood == ASSUME Inductive, NEW p \in Request, Queueing(p) PROVE Good(p)
<1>1. Goto(p, "wait") /\ Enqueues(p) /\ UNCHANGED <<cached, flight, vlock>>
  BY DEF Queueing, Fill, GoesOn
<1>2. at[p] \in {"fill", "landed"} /\ at'[p] = "wait"
  BY <1>1 DEF Queueing, Fill, GoesOn, Goto, Inductive, TypeOK
<1>3. stage' \in [Request -> Loaded \cup {"main"}] /\ \A q \in Request \ {p} : stage'[q] = stage[q]
  BY DEF Queueing, Fill, GoesOn, Inductive, TypeOK
<1>4. Placed(p)'
  <2>1. depth'[p] = 0
    BY <1>1, <1>2, PlacedHere DEF Enqueues, Placed, DepthAt, GatePlaces
  <2>2. Leading(p)' => flight'[stage'[p]] = p
    <3>1. CASE Fill(p)
      BY <1>1, <1>2, <3>1, PlacedHere DEF Fill, Leading, Placed
    <3>2. CASE GoesOn(p) /\ stage[p] = "security"
      BY <3>2 DEF GoesOn, Leading, Loaded, Inductive, TypeOK
    <3>3. QED
      BY <3>1, <3>2 DEF Queueing
  <2>3. QED
    BY <1>2, <2>1, <2>2 DEF Placed, DepthAt, GatePlaces, CachePlaces
<1>5. Others(p) /\ at' \in [Request -> Places] /\ \A q \in Request : Placed(q)'
  <2>1. "wait" \in Places
    BY DEF Places
  <2>2. QED
    BY <1>1, <1>3, <1>4, <2>1, PlacedAlone DEF Enqueues
<1>6. Tally(p)
  BY <1>1, <1>2, TallyEnqueue DEF Enqueues, GatePlaces
<1>7. Shape'
  <2>1. Waiting \subseteq Request
    BY DEF Waiting
  <2>2. QED
    BY <1>1, <1>3, <1>5, <2>1 DEF Enqueues, Shape, Inductive, TypeOK
<1>8. QED
  BY <1>5, <1>6, <1>7 DEF Good

LEMMA AheadType ==
    ASSUME Inductive, NEW p \in Request
    PROVE  AheadWithout(p) \in [Request -> SUBSET Request]
BY DEF AheadWithout, Inductive, TypeOK

LEMMA GrantedGood == ASSUME Inductive, NEW p \in Request, Granted(p) PROVE Good(p)
<1>1. Goto(p, "hold") /\ UNCHANGED <<stage, cached, flight, vlock>>
  BY DEF Granted
<1>2. at[p] = "wait" /\ at'[p] = "hold"
  BY <1>1 DEF Granted, Goto, Inductive, TypeOK
<1>3. depth' = [depth EXCEPT ![p] = 1] /\ depth \in [Request -> 0..2]
  BY DEF Granted, Inductive, TypeOK
<1>4. Placed(p)'
  <2>1. Leading(p)' => flight'[stage'[p]] = p
    BY <1>1, <1>2, PlacedHere DEF Leading, Placed
  <2>2. QED
    BY <1>2, <1>3, <2>1 DEF Placed, DepthAt, GatePlaces, CachePlaces
<1>5. Others(p) /\ at' \in [Request -> Places] /\ \A q \in Request : Placed(q)'
  <2>1. "hold" \in Places
    BY DEF Places
  <2>2. QED
    BY <1>1, <1>3, <1>4, <2>1, PlacedAlone
<1>6. Tally(p)
  <2>1. permits \in Nat /\ holders \in Nat /\ waiters \in Nat /\ waiters >= 1 /\ permits > 0
    BY <1>2, LimitAssumption, AtLeastOne DEF Granted, Inductive, TypeOK
  <2>2. permits' = permits - 1 /\ holders' = holders + 1 /\ waiters' = waiters - 1
    BY <2>1 DEF Granted, Floor
  <2>3. QED
    BY <1>2, <2>1, <2>2 DEF Tally, One, GatePlaces
<1>7. Shape'
  <2>1. depth' \in [Request -> 0..2]
    BY <1>3
  <2>2. ahead' \in [Request -> SUBSET Request]
    BY AheadType DEF Granted
  <2>3. QED
    BY <1>1, <1>5, <2>1, <2>2 DEF Shape, Inductive, TypeOK
<1>8. QED
  BY <1>5, <1>6, <1>7 DEF Good

(* What leaving the gate does to p's own depth. *)
LEMMA ReleasedDepth ==
    ASSUME Inductive, NEW p \in Request, Releases(p)
    PROVE  /\ depth' \in [Request -> 0..2] /\ depth'[p] = 0 /\ ahead' = ahead
           /\ \A q \in Request \ {p} : depth'[q] = depth[q]
BY DEF Releases, Inductive, TypeOK

Leaving(p) == Load(p) \/ ValidationFails(p) \/ Commits(p) \/ Refuses(p)

LEMMA LeavingGood == ASSUME Inductive, NEW p \in Request, Leaving(p) PROVE Good(p)
<1>1. Releases(p) /\ UNCHANGED <<cached, flight, vlock>>
  BY DEF Leaving, Load, ValidationFails, Commits, Refuses
<1>2. PICK place \in {"store", "failed", "check"} : Goto(p, place)
  BY DEF Leaving, Load, ValidationFails, Commits, Refuses
<1>3. at[p] \in GatePlaces /\ at'[p] = place
  BY <1>2 DEF Leaving, Load, ValidationFails, Commits, Refuses, Goto, GatePlaces, Inductive, TypeOK
<1>4. stage' \in [Request -> Loaded \cup {"main"}] /\ \A q \in Request \ {p} : stage'[q] = stage[q]
  BY DEF Leaving, Load, ValidationFails, Commits, Refuses, Loaded, Inductive, TypeOK
<1>5. Placed(p)'
  <2>1. place = "store" => at[p] = "hold" /\ stage[p] \in Loaded /\ stage' = stage
    BY <1>3 DEF Leaving, Load, ValidationFails, Commits, Refuses, Goto, Inductive, TypeOK
  <2>2. place = "store" => flight'[stage'[p]] = p
    BY <1>1, <2>1, PlacedHere DEF Placed, Leading
  <2>3. place = "check" => stage'[p] \in Loaded
    BY <1>3 DEF Leaving, Load, ValidationFails, Commits, Refuses, Goto, Loaded, Inductive, TypeOK
  <2>4. depth'[p] = 0
    BY <1>1, ReleasedDepth
  <2>5. QED
    BY <1>3, <2>1, <2>2, <2>3, <2>4 DEF Placed, Leading, DepthAt, GatePlaces, CachePlaces
<1>6. Others(p) /\ at' \in [Request -> Places] /\ \A q \in Request : Placed(q)'
  <2>1. place \in Places
    BY DEF Places, Ended
  <2>2. QED
    BY <1>1, <1>2, <1>4, <1>5, <2>1, ReleasedDepth, PlacedAlone
<1>7. Tally(p)
  BY <1>1, <1>3, TallyRelease DEF GatePlaces
<1>8. Shape'
  BY <1>1, <1>4, <1>6, ReleasedDepth DEF Shape, Inductive, TypeOK
<1>9. QED
  BY <1>6, <1>7, <1>8 DEF Good

-----------------------------------------------------------------------------
(* The end of a flight moves its followers with the leader. *)

LEMMA ResolveMoves ==
    ASSUME Inductive, NEW p \in Request, Leading(p), NEW how \in {"landed", "failed", "cancelled"},
           Resolve(p, how), stage' = stage, depth'[p] = 0,
           \A q \in Request \ {p} : depth'[q] = depth[q]
    PROVE  /\ at' \in [Request -> Places] /\ at'[p] = how /\ Others(p)
           /\ flight' \in [Loaded -> Request \cup {None}]
           /\ \A q \in Request : Placed(q)'
<1>1. stage[p] \in Loaded /\ flight[stage[p]] = p
  BY PlacedHere DEF Placed, Leading
<1>2. flight' = [flight EXCEPT ![stage[p]] = None] /\ flight' \in [Loaded -> Request \cup {None}]
  BY DEF Resolve, Inductive, TypeOK
<1>3. how \in Places
  BY DEF Places, Ended
<1>4. /\ at' \in [Request -> Places] /\ at'[p] = how
      /\ \A q \in Request \ {p} :
           \/ at'[q] = at[q]
           \/ at[q] = "follow" /\ stage[q] = stage[p] /\ at'[q] = how
  BY <1>3 DEF Resolve, Followers, Inductive, TypeOK
<1>5. Others(p)
  BY <1>4 DEF Others
<1>6. Placed(p)'
  BY <1>1, <1>4 DEF Placed, Leading, DepthAt, GatePlaces
<1>7. ASSUME NEW q \in Request \ {p} PROVE Placed(q)'
  <2>1. Placed(q) /\ stage'[q] = stage[q] /\ depth'[q] = depth[q] /\ q # None
    BY PlacedHere
  <2>2. CASE at'[q] = at[q]
    <3>1. Leading(q) => flight'[stage[q]] = q
      BY <1>1, <1>2, <2>1 DEF Placed, Leading, Inductive, TypeOK
    <3>2. QED
      BY <2>1, <2>2, <3>1 DEF Placed, Leading
  <2>3. CASE at[q] = "follow" /\ stage[q] = stage[p] /\ at'[q] = how
    BY <1>1, <2>1, <2>3 DEF Placed, Leading, DepthAt, GatePlaces
  <2>4. QED
    BY <1>4, <2>2, <2>3
<1>8. QED
  BY <1>2, <1>4, <1>5, <1>6, <1>7

Landing(p) == (Fill(p) /\ stage[p] \in cached) \/ LoadFails(p) \/ Store(p)

LEMMA LandingGood == ASSUME Inductive, NEW p \in Request, Landing(p) PROVE Good(p)
<1>1. PICK how \in {"landed", "failed"} : Resolve(p, how)
  BY DEF Landing, Fill, LoadFails, Store
<1>2. stage' = stage /\ vlock' = vlock
  BY DEF Landing, Fill, LoadFails, Store
<1>3. Leading(p)
  BY PlacedHere DEF Landing, Fill, LoadFails, Store, Leading, Placed, CachePlaces
<1>4. cached' \subseteq Caches
  <2>1. stage[p] \in Caches
    BY <1>3 DEF Leading, Caches
  <2>2. QED
    BY <2>1 DEF Landing, Fill, LoadFails, Store, Inductive, TypeOK
<1>5. /\ depth' \in [Request -> 0..2] /\ depth'[p] = 0 /\ ahead' = ahead
      /\ \A q \in Request \ {p} : depth'[q] = depth[q]
  <2>1. CASE LoadFails(p)
    BY <2>1, ReleasedDepth DEF LoadFails
  <2>2. CASE (Fill(p) /\ stage[p] \in cached) \/ Store(p)
    BY <2>2, PlacedHere DEF Fill, Store, gate, Placed, DepthAt, GatePlaces, Inductive, TypeOK
  <2>3. QED
    BY <2>1, <2>2 DEF Landing
<1>6. /\ at' \in [Request -> Places] /\ at'[p] = how /\ Others(p)
      /\ flight' \in [Loaded -> Request \cup {None}]
      /\ \A q \in Request : Placed(q)'
  BY <1>1, <1>2, <1>3, <1>5, ResolveMoves
<1>7. Tally(p)
  <2>1. CASE LoadFails(p)
    BY <1>6, <2>1, TallyRelease DEF LoadFails, GatePlaces
  <2>2. CASE (Fill(p) /\ stage[p] \in cached) \/ Store(p)
    BY <1>6, <2>2, TallySame DEF Fill, Store, gate, GatePlaces
  <2>3. QED
    BY <2>1, <2>2 DEF Landing
<1>8. Shape'
  BY <1>2, <1>4, <1>5, <1>6 DEF Shape, Inductive, TypeOK
<1>9. QED
  BY <1>6, <1>7, <1>8 DEF Good

(* The answer, after the questions. *)
LEMMA AnswersGood ==
    ASSUME Inductive, NEW p \in Request, GoesOn(p), stage[p] # "security"
    PROVE  Good(p)
<1>1. at[p] = "landed" /\ Goto(p, "done") /\ UNCHANGED <<stage, gate, cached, flight, vlock>>
  BY DEF GoesOn
<1>2. at'[p] = "done" /\ depth[p] = 0
  BY <1>1, PlacedHere DEF Goto, Placed, DepthAt, GatePlaces, Inductive, TypeOK
<1>3. Placed(p)'
  BY <1>1, <1>2 DEF gate, Placed, Leading, DepthAt, GatePlaces, CachePlaces
<1>4. Others(p) /\ at' \in [Request -> Places] /\ \A q \in Request : Placed(q)'
  <2>1. "done" \in Places
    BY DEF Places, Ended
  <2>2. QED
    BY <1>1, <1>3, <2>1, PlacedAlone DEF gate
<1>5. Tally(p)
  BY <1>1, <1>2, TallySame DEF gate, GatePlaces
<1>6. Shape'
  BY <1>1, <1>4 DEF gate, Shape, Inductive, TypeOK
<1>7. QED
  BY <1>4, <1>5, <1>6 DEF Good

LEMMA CancelGood == ASSUME Inductive, NEW p \in Request, Cancel(p) PROVE Good(p)
<1>1. /\ at[p] \notin Ended \cup {"idle"} /\ LeavesGate(p)
      /\ UNCHANGED <<stage, cached, vlock>>
  BY DEF Cancel
<1>2. /\ depth' \in [Request -> 0..2] /\ depth'[p] = 0
      /\ ahead' \in [Request -> SUBSET Request]
      /\ \A q \in Request \ {p} : depth'[q] = depth[q]
  <2>1. depth[p] = DepthAt(at[p]) /\ depth \in [Request -> 0..2] /\ ahead \in [Request -> SUBSET Request]
    BY PlacedHere DEF Placed, Inductive, TypeOK
  <2>2. CASE at[p] = "wait"
    BY <1>1, <2>1, <2>2, AheadType DEF LeavesGate, DepthAt, GatePlaces
  <2>3. CASE at[p] # "wait" /\ depth[p] > 0
    BY <1>1, <2>1, <2>3, ReleasedDepth DEF LeavesGate
  <2>4. CASE at[p] # "wait" /\ ~(depth[p] > 0)
    <3>1. depth[p] = 0
      BY <2>1, <2>4
    <3>2. UNCHANGED gate
      BY <1>1, <2>4 DEF LeavesGate
    <3>3. QED
      BY <2>1, <3>1, <3>2 DEF gate
  <2>5. QED
    BY <2>2, <2>3, <2>4
<1>3. /\ at' \in [Request -> Places] /\ at'[p] = "cancelled" /\ Others(p)
      /\ flight' \in [Loaded -> Request \cup {None}]
      /\ \A q \in Request : Placed(q)'
  <2>1. CASE Leading(p)
    <3>1. Resolve(p, "cancelled")
      BY <2>1 DEF Cancel
    <3>2. QED
      BY <1>1, <1>2, <2>1, <3>1, ResolveMoves
  <2>2. CASE ~Leading(p)
    <3>1. Goto(p, "cancelled") /\ UNCHANGED flight
      BY <2>2 DEF Cancel
    <3>2. "cancelled" \in Places
      BY DEF Places, Ended
    <3>3. at'[p] = "cancelled"
      BY <3>1 DEF Goto, Inductive, TypeOK
    <3>4. Placed(p)'
      BY <1>2, <3>3 DEF Placed, Leading, DepthAt, GatePlaces, CachePlaces
    <3>5. QED
      BY <1>1, <1>2, <3>1, <3>2, <3>4, PlacedAlone DEF Inductive, TypeOK
  <2>3. QED
    BY <2>1, <2>2
<1>4. Tally(p)
  <2>1. permits \in Nat /\ holders \in Nat /\ waiters \in Nat
    BY LimitAssumption DEF Inductive, TypeOK
  <2>2. CASE at[p] = "wait"
    <3>1. waiters >= 1
      BY <2>2, AtLeastOne
    <3>2. waiters' = waiters - 1 /\ UNCHANGED <<permits, holders>>
      BY <1>1, <2>1, <2>2, <3>1 DEF LeavesGate, Floor
    <3>3. QED
      BY <1>3, <2>1, <2>2, <3>2 DEF Tally, One, GatePlaces
  <2>3. CASE at[p] \in GatePlaces
    <3>1. depth[p] > 0 /\ at[p] # "wait"
      BY <2>3, PlacedHere DEF Placed, DepthAt, GatePlaces
    <3>2. Releases(p)
      BY <1>1, <3>1 DEF LeavesGate
    <3>3. QED
      BY <1>3, <2>3, <3>2, TallyRelease DEF GatePlaces
  <2>4. CASE at[p] # "wait" /\ at[p] \notin GatePlaces
    <3>1. depth[p] = 0
      BY <2>4, PlacedHere DEF Placed, DepthAt, GatePlaces
    <3>2. UNCHANGED gate
      BY <1>1, <2>4, <3>1 DEF LeavesGate
    <3>3. QED
      BY <1>3, <2>4, <3>2, TallySame DEF gate, GatePlaces
  <2>5. QED
    BY <2>2, <2>3, <2>4
<1>5. Shape'
  BY <1>1, <1>2, <1>3 DEF Shape, Inductive, TypeOK
<1>6. QED
  BY <1>3, <1>4, <1>5 DEF Good

-----------------------------------------------------------------------------
(* All together. *)

LEMMA ProceedsGood == ASSUME Inductive, NEW p \in Request, Proceeds(p) PROVE Good(p)
<1>1. \/ Caching(p) \/ Validating(p) \/ Queueing(p) \/ Granted(p) \/ Leaving(p) \/ Landing(p)
      \/ (GoesOn(p) /\ stage[p] # "security")
  BY DEF Proceeds, Caching, Validating, Queueing, Leaving, Landing
<1>2. QED
  BY <1>1, CachingGood, ValidatingGood, QueueingGood, GrantedGood, LeavingGood, LandingGood,
     AnswersGood

LEMMA InductiveInit == Init => Inductive
<1> SUFFICES ASSUME Init PROVE Inductive
  OBVIOUS
<1>1. Limit \in Nat
  BY LimitAssumption
<1>2. TypeOK
  BY <1>1 DEF Init, TypeOK, Places, Loaded, Caches
<1>3. InGate = {} /\ Waiting = {}
  BY DEF Init, InGate, GatePlaces, Waiting
<1>4. Counted
  BY <1>1, <1>3, FS_EmptySet DEF Init, Counted
<1>5. \A q \in Request : Placed(q)
  BY DEF Init, Placed, Leading, DepthAt, GatePlaces, CachePlaces, Loaded
<1>6. QED
  BY <1>2, <1>4, <1>5 DEF Inductive

LEMMA InductiveStep == Inductive /\ [Next]_vars => Inductive'
<1> SUFFICES ASSUME Inductive, [Next]_vars PROVE Inductive'
  OBVIOUS
<1>1. CASE \E p \in Request : Proceeds(p) \/ Cancel(p)
  BY <1>1, ProceedsGood, CancelGood, GoodSteps
<1>2. CASE \E p \in Request : Arrive(p)
  BY <1>2, CachingGood, GoodSteps DEF Caching
<1>3. CASE UNCHANGED <<at, stage, gate, flight>> /\ cached' \subseteq Caches
           /\ vlock' \in Request \cup {None}
  <2>1. TypeOK'
    BY <1>3 DEF gate, Inductive, TypeOK
  <2>2. Counted'
    BY <1>3 DEF gate, Inductive, Counted, InGate, Waiting
  <2>3. \A q \in Request : Placed(q)'
    BY <1>3 DEF gate, Inductive, Placed, Leading
  <2>4. QED
    BY <2>1, <2>2, <2>3 DEF Inductive
<1>4. CASE (\E k \in Caches : CacheExpires(k)) \/ LockExpires \/ Quiet \/ UNCHANGED vars
  BY <1>3, <1>4 DEF CacheExpires, LockExpires, Quiet, vars, gate, Inductive, TypeOK
<1>5. QED
  BY <1>1, <1>2, <1>4 DEF Next

LEMMA Always == Spec => []Inductive
BY InductiveInit, InductiveStep, PTL DEF Spec

(* No step takes a permit the gate does not have, or a segment that is not   *)
(* left again.                                                             *)
THEOREM TypeCorrect == Spec => []TypeOK
<1>1. Inductive => TypeOK
  BY DEF Inductive
<1>2. QED
  BY <1>1, Always, PTL

(* However many requests there are, and however they fail or are cancelled, *)
(* the gate's permits and its counters are true.                           *)
THEOREM PermitsKept == Spec => []PermitsConserved
<1>1. Inductive => PermitsConserved
  <2> SUFFICES ASSUME Inductive PROVE PermitsConserved
    OBVIOUS
  <2>1. \A q \in Request : depth[q] > 0 <=> at[q] \in GatePlaces
    BY PlacedHere DEF Placed, DepthAt, GatePlaces
  <2>2. Holding = InGate
    BY <2>1 DEF Holding, InGate
  <2>3. QED
    BY <2>2 DEF PermitsConserved, Inductive, Counted
<1>2. QED
  BY <1>1, Always, PTL

(* A request that waits, for a permit or for another's load, holds none. *)
THEOREM NothingHeldWaiting == Spec => []NoHoldAndWait
<1>1. Inductive => NoHoldAndWait
  BY PlacedHere DEF NoHoldAndWait, Holding, Placed, DepthAt, GatePlaces
<1>2. QED
  BY <1>1, Always, PTL

(* A key is loaded by one request at a time. *)
THEOREM LoadsAlone == Spec => []OneLoader
<1>1. Inductive => OneLoader
  BY PlacedHere DEF OneLoader, Placed
<1>2. QED
  BY <1>1, Always, PTL

-----------------------------------------------------------------------------
(* What is waited for is there. *)

(* A flight has a leader that is still loading, a follower has a flight. *)
Linked ==
    /\ \A k \in Loaded : flight[k] # None => Leading(flight[k]) /\ stage[flight[k]] = k
    /\ \A q \in Request : at[q] = "follow" => flight[stage[q]] # None

(* Who is ahead of a request waits, and has fewer ahead of it. *)
Queue ==
    \A q \in Request :
        /\ ahead[q] \subseteq Waiting
        /\ \A r \in ahead[q] : ahead[r] \subseteq ahead[q] /\ r \notin ahead[r]

WaitInv == Inductive /\ Linked /\ Queue

(* p moves alone and ends no flight. *)
LEMMA LinkedAlone ==
    ASSUME Inductive, Linked, NEW p \in Request, NEW place \in Places, Goto(p, place),
           \A q \in Request \ {p} : stage'[q] = stage[q],
           \A k \in Loaded :
             \/ flight'[k] = flight[k]
             \/ flight[k] = None /\ flight'[k] = p /\ Leading(p)' /\ stage'[p] = k,
           Leading(p) => Leading(p)' /\ stage'[p] = stage[p],
           place = "follow" => flight'[stage'[p]] # None
    PROVE  Linked'
<1>1. /\ at'[p] = place /\ \A q \in Request \ {p} : at'[q] = at[q]
      /\ p # None
      /\ \A k \in Loaded : flight[k] # None => flight[k] \in Request
  BY NoRequestAssumption DEF Goto, Inductive, TypeOK
<1>2. ASSUME NEW k \in Loaded, flight'[k] # None
      PROVE  (Leading(flight[k]) /\ stage[flight[k]] = k)'
  <2>1. CASE flight'[k] = flight[k]
    <3>1. flight[k] \in Request /\ Leading(flight[k]) /\ stage[flight[k]] = k
      BY <1>1, <1>2, <2>1 DEF Linked
    <3>2. CASE flight[k] = p
      BY <2>1, <3>1, <3>2
    <3>3. CASE flight[k] # p
      <4>1. at'[flight[k]] = at[flight[k]] /\ stage'[flight[k]] = stage[flight[k]]
        BY <1>1, <3>1, <3>3
      <4>2. QED
        BY <2>1, <3>1, <4>1 DEF Leading
    <3>4. QED
      BY <3>2, <3>3
  <2>2. CASE flight[k] = None /\ flight'[k] = p /\ Leading(p)' /\ stage'[p] = k
    BY <2>2
  <2>3. QED
    BY <2>1, <2>2
<1>3. ASSUME NEW q \in Request, at'[q] = "follow"
      PROVE  flight'[stage'[q]] # None
  <2>1. CASE q = p
    BY <1>1, <1>3, <2>1
  <2>2. CASE q # p
    <3>1. at[q] = "follow" /\ stage'[q] = stage[q]
      BY <1>1, <1>3, <2>2
    <3>2. flight[stage[q]] # None /\ stage[q] \in Loaded
      BY <3>1, PlacedHere DEF Linked, Placed, CachePlaces
    <3>3. QED
      BY <1>1, <3>1, <3>2
  <2>3. QED
    BY <2>1, <2>2
<1>4. QED
  BY <1>2, <1>3 DEF Linked

(* A flight ends for all who wait for it. *)
LEMMA LinkedResolve ==
    ASSUME Inductive, Linked, NEW p \in Request, Leading(p),
           NEW how \in {"landed", "failed", "cancelled"}, Resolve(p, how), stage' = stage
    PROVE  Linked'
<1>1. stage[p] \in Loaded /\ flight[stage[p]] = p
  BY PlacedHere DEF Placed, Leading
<1>2. /\ flight'[stage[p]] = None
      /\ \A k \in Loaded \ {stage[p]} : flight'[k] = flight[k]
  BY <1>1 DEF Resolve, Inductive, TypeOK
<1>3. \A q \in Request : at'[q] = IF q = p \/ (at[q] = "follow" /\ stage[q] = stage[p])
                                  THEN how ELSE at[q]
  BY DEF Resolve, Followers
<1>4. ASSUME NEW k \in Loaded, flight'[k] # None
      PROVE  (Leading(flight[k]) /\ stage[flight[k]] = k)'
  <2>1. k # stage[p] /\ flight'[k] = flight[k]
    BY <1>2, <1>4
  <2>2. flight[k] \in Request /\ Leading(flight[k]) /\ stage[flight[k]] = k
    BY <1>4, <2>1 DEF Linked, Inductive, TypeOK
  <2>3. flight[k] # p /\ at[flight[k]] # "follow"
    BY <2>1, <2>2 DEF Leading
  <2>4. at'[flight[k]] = at[flight[k]]
    BY <1>3, <2>2, <2>3
  <2>5. QED
    BY <2>1, <2>2, <2>4 DEF Leading
<1>5. ASSUME NEW q \in Request, at'[q] = "follow"
      PROVE  flight'[stage'[q]] # None
  <2>1. at[q] = "follow" /\ stage[q] # stage[p]
    BY <1>3, <1>5
  <2>2. stage[q] \in Loaded /\ flight[stage[q]] # None
    BY <2>1, PlacedHere DEF Linked, Placed, CachePlaces
  <2>3. QED
    BY <1>2, <2>1, <2>2
<1>6. QED
  BY <1>4, <1>5 DEF Linked

LEMMA QueueSame ==
    ASSUME Queue, ahead' = ahead, NEW p \in Request, at[p] # "wait", Others(p)
    PROVE  Queue'
BY DEF Queue, Others, Waiting

LEMMA QueueGrows ==
    ASSUME Inductive, Queue, NEW p \in Request, at[p] # "wait", Goto(p, "wait"), Enqueues(p)
    PROVE  Queue'
<1>1. /\ \A q \in Request : ahead'[q] = IF q = p THEN Waiting ELSE ahead[q]
      /\ Waiting' = Waiting \cup {p} /\ p \notin Waiting
  BY DEF Enqueues, Goto, Waiting, Inductive, TypeOK
<1>2. Waiting \subseteq Request
  BY DEF Waiting
<1>3. ASSUME NEW q \in Request
      PROVE  /\ ahead'[q] \subseteq Waiting'
             /\ \A r \in ahead'[q] : ahead'[r] \subseteq ahead'[q] /\ r \notin ahead'[r]
  <2>1. CASE q = p
    <3>1. ASSUME NEW r \in Waiting
          PROVE  ahead[r] \subseteq Waiting /\ r \notin ahead[r] /\ r # p /\ r \in Request
      <4>1. r \in Request /\ ahead[r] \subseteq Waiting
        BY <1>2 DEF Queue
      <4>2. ASSUME r \in ahead[r] PROVE FALSE
        BY <4>1, <4>2 DEF Queue
      <4>3. QED
        BY <1>1, <4>1, <4>2
    <3>2. QED
      BY <1>1, <2>1, <3>1
  <2>2. CASE q # p
    <3>1. ahead'[q] = ahead[q] /\ ahead[q] \subseteq Waiting /\ p \notin ahead[q]
      BY <1>1, <2>2 DEF Queue
    <3>2. QED
      BY <1>1, <1>2, <3>1 DEF Queue
  <2>3. QED
    BY <2>1, <2>2
<1>4. QED
  BY <1>3 DEF Queue

LEMMA QueueShrinks ==
    ASSUME Inductive, Queue, NEW p \in Request, ahead' = AheadWithout(p), Others(p)
    PROVE  Queue'
<1>1. \A q \in Request : ahead'[q] = IF q = p THEN {} ELSE ahead[q] \ {p}
  BY DEF AheadWithout
<1>2. Waiting \ {p} \subseteq Waiting'
  BY DEF Others, Waiting
<1>3. Waiting \subseteq Request
  BY DEF Waiting
<1>4. ASSUME NEW q \in Request
      PROVE  /\ ahead'[q] \subseteq Waiting'
             /\ \A r \in ahead'[q] : ahead'[r] \subseteq ahead'[q] /\ r \notin ahead'[r]
  <2>1. CASE q = p
    BY <1>1, <2>1
  <2>2. CASE q # p
    <3>1. ahead'[q] = ahead[q] \ {p} /\ ahead[q] \subseteq Waiting
      BY <1>1, <2>2 DEF Queue
    <3>2. ASSUME NEW r \in ahead'[q]
          PROVE  ahead'[r] \subseteq ahead'[q] /\ r \notin ahead'[r]
      <4>1. r \in ahead[q] /\ r # p /\ r \in Request
        BY <1>3, <3>1
      <4>2. ahead'[r] = ahead[r] \ {p} /\ ahead[r] \subseteq ahead[q] /\ r \notin ahead[r]
        BY <1>1, <4>1 DEF Queue
      <4>3. QED
        BY <3>1, <4>2
    <3>3. QED
      BY <1>2, <3>1, <3>2
  <2>3. QED
    BY <2>1, <2>2
<1>5. QED
  BY <1>4 DEF Queue

(* No one is ahead of some request in the queue: of the sets of requests   *)
(* ahead, take one that contains no other.                                 *)
LEMMA SomeoneIsFirst ==
    ASSUME WaitInv, Waiting # {}
    PROVE  \E q \in Waiting : ahead[q] = {}
<1> DEFINE T == {ahead[q] : q \in Waiting}
<1> HIDE DEF T
<1>1. Waiting \subseteq Request /\ \A q \in Request : ahead[q] \subseteq Request
  BY DEF Waiting, WaitInv, Inductive, TypeOK
<1>2. FiniteSubsetsOf(Request) = SUBSET Request
  BY LimitAssumption, FS_FiniteSubsetsOfFinite
<1>3. T \subseteq FiniteSubsetsOf(Request) /\ T # {}
  <2>1. \A V \in T : V \in SUBSET Request
    BY <1>1 DEF T
  <2>2. PICK q \in Waiting : TRUE
    OBVIOUS
  <2>3. ahead[q] \in T
    BY DEF T
  <2>4. QED
    BY <1>2, <2>1, <2>3
<1>4. IsWellFoundedOn(StrictSubsetOrdering(Request), FiniteSubsetsOf(Request))
  BY FS_StrictSubsetOrderingWellFounded
<1>5. PICK U \in T : \A V \in T : ~ (<<V, U>> \in StrictSubsetOrdering(Request))
  BY <1>3, <1>4, WFMin
<1>6. PICK q \in Waiting : U = ahead[q]
  BY <1>5 DEF T
<1>7. ASSUME NEW r \in ahead[q]
      PROVE  FALSE
  <2>1. r \in Waiting /\ ahead[r] \subseteq ahead[q] /\ r \notin ahead[r]
    BY <1>1 DEF WaitInv, Queue
  <2>2. ahead[r] \in T /\ ahead[r] \in SUBSET Request /\ ahead[q] \in SUBSET Request
    BY <1>1, <2>1 DEF T
  <2>3. ahead[r] # ahead[q]
    BY <1>7, <2>1
  <2>4. <<ahead[r], ahead[q]>> \in StrictSubsetOrdering(Request)
    BY <2>1, <2>2, <2>3 DEF StrictSubsetOrdering
  <2>5. QED
    BY <1>5, <1>6, <2>2, <2>4
<1>8. QED
  BY <1>6, <1>7

LEMMA OthersGood == ASSUME Inductive, NEW p \in Request, Proceeds(p) \/ Cancel(p) PROVE Others(p)
BY ProceedsGood, CancelGood DEF Good

LEMMA CachingLinks ==
    ASSUME WaitInv, NEW p \in Request, Caching(p)
    PROVE  Linked' /\ Queue'
<1>1. stage' = stage /\ ahead' = ahead /\ at[p] \in {"idle", "check", "missed"}
  BY DEF Caching, Arrive, CacheHit, CacheMiss, Leads, Follows, gate
<1>2. PICK place \in {"check", "missed", "landed", "fill", "follow"} :
        /\ Goto(p, place)
        /\ \/ flight' = flight /\ (place = "follow" => flight[stage[p]] # None)
           \/ /\ place = "fill" /\ flight[stage[p]] = None
              /\ flight' = [flight EXCEPT ![stage[p]] = p]
  BY DEF Caching, Arrive, CacheHit, CacheMiss, Leads, Follows
<1>3. place \in Places /\ stage[p] \in Loaded /\ at'[p] = place
  BY <1>1, <1>2, PlacedHere DEF Places, Placed, CachePlaces, Goto, WaitInv, Inductive, TypeOK
<1>4. \A k \in Loaded :
        \/ flight'[k] = flight[k]
        \/ flight[k] = None /\ flight'[k] = p /\ Leading(p)' /\ stage'[p] = k
  <2>1. CASE flight' = flight
    BY <2>1
  <2>2. CASE place = "fill" /\ flight[stage[p]] = None /\ flight' = [flight EXCEPT ![stage[p]] = p]
    <3>1. Leading(p)' /\ flight'[stage[p]] = p
      BY <1>1, <1>3, <2>2 DEF Leading, WaitInv, Inductive, TypeOK
    <3>2. \A k \in Loaded \ {stage[p]} : flight'[k] = flight[k]
      BY <2>2 DEF WaitInv, Inductive, TypeOK
    <3>3. QED
      BY <1>1, <2>2, <3>1, <3>2
  <2>3. QED
    BY <1>2, <2>1, <2>2
<1>5. ~Leading(p)
  BY <1>1 DEF Leading
<1>6. place = "follow" => flight'[stage'[p]] # None
  BY <1>1, <1>2
<1>7. Linked'
  BY <1>1, <1>2, <1>3, <1>4, <1>5, <1>6, LinkedAlone DEF WaitInv
<1>8. Others(p)
  BY CachingGood DEF Good, WaitInv
<1>9. Queue'
  BY <1>1, <1>8, QueueSame DEF WaitInv
<1>10. QED
  BY <1>7, <1>9

(* Between the stages of the gate: in it, into its queue and out of it. *)
LEMMA GateLinks ==
    ASSUME WaitInv, NEW p \in Request,
           Validating(p) \/ Queueing(p) \/ Granted(p) \/ Leaving(p) \/ (GoesOn(p) /\ stage[p] # "security")
    PROVE  Linked' /\ Queue'
<1>1. /\ \A q \in Request \ {p} : stage'[q] = stage[q]
      /\ flight' = flight
  BY DEF Validating, ValidationCached, Validates, Polls, PollEnds, ValidationEnds, Queueing, Fill,
         GoesOn, Granted, Leaving, Load, ValidationFails, Commits, Refuses, WaitInv, Inductive, TypeOK
<1>2. PICK place \in Places \ {"follow"} : Goto(p, place)
  <2>1. {"tx", "validate", "poll", "wait", "hold", "store", "failed", "check", "done"}
          \subseteq Places \ {"follow"}
    BY DEF Places, Ended
  <2>2. QED
    BY <2>1 DEF Validating, ValidationCached, Validates, Polls, PollEnds, ValidationEnds, EntersNested,
       Queueing, Fill, GoesOn, Granted, Leaving, Load, ValidationFails, Commits, Refuses
<1>3. Leading(p) => Leading(p)' /\ stage'[p] = stage[p]
  <2> SUFFICES ASSUME Leading(p)
               PROVE  Leading(p)' /\ stage'[p] = stage[p]
    OBVIOUS
  <2>1. stage[p] \in Loaded /\ stage[p] # "main" /\ at[p] \in {"fill", "wait", "hold", "store"}
    BY DEF Leading, Loaded
  <2>2. (Fill(p) /\ stage[p] \notin cached) \/ Granted(p) \/ Load(p)
    BY <2>1 DEF Validating, ValidationCached, Validates, Polls, PollEnds, ValidationEnds, Main, Queueing,
       GoesOn, Leaving, ValidationFails, Commits, Refuses
  <2>3. stage' = stage /\ (Goto(p, "wait") \/ Goto(p, "hold") \/ Goto(p, "store"))
    BY <2>2 DEF Fill, Granted, Load
  <2>4. at'[p] \in {"wait", "hold", "store"}
    BY <2>3 DEF Goto, WaitInv, Inductive, TypeOK
  <2>5. QED
    BY <2>1, <2>3, <2>4 DEF Leading
<1>4. Linked'
  BY <1>1, <1>2, <1>3, LinkedAlone DEF WaitInv
<1>5. Others(p)
  BY ValidatingGood, QueueingGood, GrantedGood, LeavingGood, AnswersGood DEF Good, WaitInv
<1>6. CASE Queueing(p)
  <2>1. Goto(p, "wait") /\ Enqueues(p) /\ at[p] # "wait"
    BY <1>6 DEF Queueing, Fill, GoesOn
  <2>2. QED
    BY <1>4, <2>1, QueueGrows DEF WaitInv
<1>7. CASE Granted(p)
  BY <1>4, <1>5, <1>7, QueueShrinks DEF Granted, WaitInv
<1>8. CASE Validating(p) \/ Leaving(p) \/ (GoesOn(p) /\ stage[p] # "security")
  <2>1. ahead' = ahead /\ at[p] # "wait"
    BY <1>8 DEF Validating, ValidationCached, Validates, Polls, PollEnds, ValidationEnds, EntersNested,
       Main, Leaving, Load, ValidationFails, Commits, Refuses, Releases, GoesOn, gate
  <2>2. QED
    BY <1>4, <1>5, <2>1, QueueSame DEF WaitInv
<1>9. QED
  BY <1>6, <1>7, <1>8

LEMMA LandingLinks ==
    ASSUME WaitInv, NEW p \in Request, Landing(p)
    PROVE  Linked' /\ Queue'
<1>1. PICK how \in {"landed", "failed"} : Resolve(p, how)
  BY DEF Landing, Fill, LoadFails, Store
<1>2. stage' = stage /\ ahead' = ahead /\ at[p] # "wait"
  BY DEF Landing, Fill, LoadFails, Store, Releases, gate
<1>3. Leading(p)
  BY PlacedHere DEF Landing, Fill, LoadFails, Store, Leading, Placed, CachePlaces, WaitInv
<1>4. Linked'
  BY <1>1, <1>2, <1>3, LinkedResolve DEF WaitInv
<1>5. Others(p)
  BY LandingGood DEF Good, WaitInv
<1>6. QED
  BY <1>2, <1>4, <1>5, QueueSame DEF WaitInv

(* A cancelled leader ends its flight; a cancelled waiter leaves the queue. *)
LEMMA CancelLinks ==
    ASSUME WaitInv, NEW p \in Request, Cancel(p)
    PROVE  Linked' /\ Queue'
<1>1. stage' = stage /\ LeavesGate(p)
  BY DEF Cancel
<1>2. Linked'
  <2>1. CASE Leading(p)
    BY <1>1, <2>1, LinkedResolve DEF Cancel, WaitInv
  <2>2. CASE ~Leading(p)
    <3>1. Goto(p, "cancelled") /\ flight' = flight /\ "cancelled" \in Places
      BY <2>2 DEF Cancel, Places, Ended
    <3>2. QED
      BY <1>1, <2>2, <3>1, LinkedAlone DEF WaitInv
  <2>3. QED
    BY <2>1, <2>2
<1>3. Others(p)
  BY CancelGood DEF Good, WaitInv
<1>4. Queue'
  <2>1. CASE at[p] = "wait"
    BY <1>1, <1>3, <2>1, QueueShrinks DEF LeavesGate, WaitInv
  <2>2. CASE at[p] # "wait"
    <3>1. ahead' = ahead
      BY <1>1, <2>2 DEF LeavesGate, Releases, gate
    <3>2. QED
      BY <1>3, <2>2, <3>1, QueueSame DEF WaitInv
  <2>3. QED
    BY <2>1, <2>2
<1>5. QED
  BY <1>2, <1>4

LEMMA WaitStep == WaitInv /\ [Next]_vars => WaitInv'
<1> SUFFICES ASSUME WaitInv, [Next]_vars PROVE Linked' /\ Queue'
  BY InductiveStep DEF WaitInv
<1>1. CASE \E p \in Request : Proceeds(p)
  <2>1. PICK p \in Request : Proceeds(p)
    BY <1>1
  <2>2. \/ Caching(p) \/ Validating(p) \/ Queueing(p) \/ Granted(p) \/ Leaving(p) \/ Landing(p)
        \/ (GoesOn(p) /\ stage[p] # "security")
    BY <2>1 DEF Proceeds, Caching, Validating, Queueing, Leaving, Landing
  <2>3. QED
    BY <2>2, CachingLinks, GateLinks, LandingLinks
<1>2. CASE \E p \in Request : Arrive(p) \/ Cancel(p)
  BY <1>2, CachingLinks, CancelLinks DEF Caching
<1>3. CASE (\E k \in Caches : CacheExpires(k)) \/ LockExpires \/ Quiet \/ UNCHANGED vars
  <2>1. UNCHANGED <<at, stage, ahead, flight>>
    BY <1>3 DEF CacheExpires, LockExpires, Quiet, vars, gate
  <2>2. QED
    BY <2>1 DEF WaitInv, Linked, Queue, Leading, Waiting
<1>4. QED
  BY <1>1, <1>2, <1>3 DEF Next

(* For any number of requests and permits: a follower's leader is alive,    *)
(* and a queue for permits stands before a gate that somebody will leave or *)
(* that lets its first request in.  With fairness this is why every start   *)
(* ends.                                                                    *)
THEOREM WaitsEnd == Spec => []NobodyWaitsInVain
<1>1. Init => WaitInv
  <2>1. Init => Linked /\ Queue
    BY DEF Init, Linked, Queue, Waiting
  <2>2. QED
    BY <2>1, InductiveInit DEF WaitInv
<1>2. WaitInv => NobodyWaitsInVain
  <2> SUFFICES ASSUME WaitInv PROVE NobodyWaitsInVain
    OBVIOUS
  <2>1. ASSUME NEW p \in Request, at[p] = "follow"
        PROVE  \E q \in Request : Leading(q) /\ stage[q] = stage[p]
    <3>1. stage[p] \in Loaded /\ flight[stage[p]] # None
      BY <2>1, PlacedHere DEF WaitInv, Linked, Placed, CachePlaces
    <3>2. flight[stage[p]] \in Request /\ Leading(flight[stage[p]]) /\ stage[flight[stage[p]]] = stage[p]
      BY <3>1 DEF WaitInv, Linked, Inductive, TypeOK
    <3>3. QED
      BY <3>2
  <2>2. ASSUME Waiting # {}, Holding = {}
        PROVE  permits > 0 /\ \E q \in Waiting : ahead[q] = {}
    <3>1. \A q \in Request : depth[q] > 0 <=> at[q] \in GatePlaces
      BY PlacedHere DEF Placed, DepthAt, GatePlaces, WaitInv
    <3>2. InGate = {}
      BY <2>2, <3>1 DEF Holding, InGate
    <3>3. permits = Limit
      BY <3>2, FS_EmptySet, LimitAssumption DEF WaitInv, Inductive, Counted, TypeOK
    <3>4. QED
      BY <2>2, <3>3, SomeoneIsFirst, LimitAssumption
  <2>3. QED
    BY <2>1, <2>2 DEF NobodyWaitsInVain
<1>3. QED
  BY <1>1, <1>2, WaitStep, PTL DEF Spec

=============================================================================
