------------------------ MODULE AnswerJournalProofs ------------------------
(***************************************************************************)
(* Theorems about AnswerJournal for any questions, any number of requests  *)
(* the server works on at a time, any batch size and any number of events  *)
(* and faults.                                                             *)
(***************************************************************************)
EXTENDS AnswerJournal, LastIndex, FiniteSetTheorems, TLAPS

-----------------------------------------------------------------------------
(* What the two selections return. *)

(* Latest is the last of the events it is given that answer the question. *)
LEMMA LatestIs ==
    ASSUME Len(asked) \in Nat, NEW ids \in SUBSET Events, NEW q \in Question
    PROVE  \/ Latest(ids, q) = 0 /\ \A e \in ids : asked[e] # q
           \/ /\ Latest(ids, q) \in ids
              /\ asked[Latest(ids, q)] = q
              /\ \A e \in ids : asked[e] = q => e <= Latest(ids, q)
<1> DEFINE of == {e \in ids : asked[e] = q}
<1>1. CASE of = {}
  BY <1>1 DEF Latest
<1>2. CASE of # {}
  <2>1. of \in SUBSET (1..Len(asked))
    BY DEF Events
  <2>2. \E m \in of : \A d \in of : d <= m
    BY <1>2, <2>1, HasLast
  <2>3. Latest(ids, q) = CHOOSE e \in of : \A d \in of : d <= e
    BY <1>2 DEF Latest
  <2>4. Latest(ids, q) \in of /\ \A d \in of : d <= Latest(ids, q)
    BY <2>2, <2>3
  <2>5. QED
    BY <2>4
<1>3. QED
  BY <1>1, <1>2

(* The oldest events of a set. *)
LEMMA OldestIs ==
    ASSUME NEW n \in Nat, NEW S \in SUBSET (1..n)
    PROVE  /\ Oldest(S, Batch) \subseteq S
           /\ \A e \in Oldest(S, Batch) :
                /\ Cardinality({d \in S : d < e}) < Batch
                /\ \A d \in S : d < e => d \in Oldest(S, Batch)
<1>1. Oldest(S, Batch) = {e \in S : Cardinality({d \in S : d < e}) < Batch}
  BY DEF Oldest
<1>2. ASSUME NEW e \in Oldest(S, Batch), NEW d \in S, d < e
      PROVE  d \in Oldest(S, Batch)
  <2> DEFINE Below(x) == {y \in S : y < x}
  <2>1. \A x \in S : x \in Int
    OBVIOUS
  <2>2. Below(d) \in SUBSET Below(e)
    <3>1. e \in S /\ e \in Int /\ d \in Int
      BY <1>1, <2>1
    <3>2. \A y \in S : y < d => y < e
      BY <1>2, <2>1, <3>1
    <3>3. QED
      BY <3>2
  <2>3. IsFiniteSet(Below(e))
    <3>1. IsFiniteSet(1..n)
      BY FS_Interval
    <3>2. Below(e) \in SUBSET (1..n)
      OBVIOUS
    <3>3. QED
      BY <3>1, <3>2, FS_Subset
  <2>4. Cardinality(Below(d)) <= Cardinality(Below(e))
    BY <2>2, <2>3, FS_Subset
  <2>5. Cardinality(Below(d)) \in Nat /\ Cardinality(Below(e)) \in Nat
    BY <2>2, <2>3, FS_Subset, FS_CardinalityType
  <2>6. Cardinality(Below(e)) < Batch
    BY <1>1, <1>2
  <2> HIDE DEF Below
  <2>7. Cardinality(Below(d)) < Batch
    BY <2>4, <2>5, <2>6, BoundAssumption
  <2>8. QED
    BY <1>1, <2>7 DEF Below
<1>3. QED
  BY <1>1, <1>2

(* The events below e in a smaller set are not more. *)
LEMMA FewerBelow ==
    ASSUME NEW n \in Nat, NEW S \in SUBSET (1..n), NEW T \in SUBSET S, NEW e \in Int,
           Cardinality({d \in S : d < e}) < Batch
    PROVE  Cardinality({d \in T : d < e}) < Batch
<1> DEFINE A == {d \in T : d < e}
           B == {d \in S : d < e}
<1>1. A \in SUBSET B /\ B \in SUBSET (1..n)
  OBVIOUS
<1> HIDE DEF A, B
<1>2. IsFiniteSet(1..n)
  BY FS_Interval
<1>3. IsFiniteSet(B)
  BY <1>1, <1>2, FS_Subset
<1>4. IsFiniteSet(A) /\ Cardinality(A) <= Cardinality(B)
  BY <1>1, <1>3, FS_Subset
<1>5. Cardinality(A) \in Nat /\ Cardinality(B) \in Nat
  BY <1>3, <1>4, FS_CardinalityType
<1>6. Cardinality(B) < Batch
  BY DEF B
<1>7. Cardinality(A) < Batch
  BY <1>4, <1>5, <1>6, BoundAssumption
<1>8. QED
  BY <1>7 DEF A

-----------------------------------------------------------------------------
(* Types. *)

ReqType == [stage : Stages, events : SUBSET Events, fresh : SUBSET Events]

LEMMA TypeInit == Init => TypeOK
BY BoundAssumption DEF Init, TypeOK, Events, Idle, Stages

(* A step that makes no event keeps the set of events. *)
LEMMA SameEvents ==
    ASSUME TypeOK, asked' = asked,
           req' \in [Request -> ReqType],
           journal' \in SUBSET Events, read' \in SUBSET Events,
           flight' \in Request \cup {None},
           acked' \in SUBSET Events, taken' \in SUBSET Events, during' \in SUBSET Events,
           stored' \in [Question -> Events \cup {0}],
           open' \in BOOLEAN, faults' \in 0..MaxFaults
    PROVE  TypeOK'
<1>1. Events' = Events
  BY DEF Events
<1>2. QED
  BY <1>1 DEF TypeOK, ReqType

LEMMA TypeStep == TypeOK /\ [Next]_vars => TypeOK'
<1> SUFFICES ASSUME TypeOK, [Next]_vars
             PROVE  TypeOK'
  OBVIOUS
<1> DEFINE Kind == /\ req \in [Request -> ReqType]
                   /\ journal \in SUBSET Events /\ read \in SUBSET Events
                   /\ flight \in Request \cup {None}
                   /\ acked \in SUBSET Events /\ taken \in SUBSET Events
                   /\ during \in SUBSET Events
                   /\ stored \in [Question -> Events \cup {0}]
                   /\ open \in BOOLEAN /\ faults \in 0..MaxFaults
                   /\ Len(asked) \in Nat
<1>0. Kind
  BY DEF TypeOK, ReqType
<1>1. ASSUME NEW q \in Question, Enqueue(q)
      PROVE  TypeOK'
  <2>1. /\ asked' \in Seq(Question)
        /\ Len(asked') = Len(asked) + 1
        /\ Len(asked) \in Nat
    BY <1>1 DEF Enqueue, TypeOK
  <2>2. Events \subseteq Events' /\ Len(asked) + 1 \in Events'
    BY <2>1 DEF Events
  <2>3. Len(asked') <= MaxEvents
    BY <1>1, <2>1, BoundAssumption DEF Enqueue
  <2>4. journal' \subseteq Events' /\ during' \subseteq Events'
    BY <1>1, <2>2, <1>0 DEF Enqueue
  <2>5. req' \in [Request -> [stage : Stages, events : SUBSET Events', fresh : SUBSET Events']]
    <3>1. req' = req /\ req \in [Request -> ReqType]
      BY <1>1, <1>0 DEF Enqueue, server
    <3>2. \A x \in ReqType : x \in [stage : Stages, events : SUBSET Events', fresh : SUBSET Events']
      BY <2>2 DEF ReqType
    <3>3. QED
      BY <3>1, <3>2
  <2>6. stored' \in [Question -> Events' \cup {0}]
    BY <1>1, <1>0, <2>2 DEF Enqueue, server
  <2>7. /\ read' \subseteq Events' /\ acked' \subseteq Events' /\ taken' \subseteq Events'
        /\ flight' \in Request \cup {None} /\ open' \in BOOLEAN /\ faults' \in 0..MaxFaults
    BY <1>1, <1>0, <2>2 DEF Enqueue, server
  <2>8. QED
    BY <2>1, <2>3, <2>4, <2>5, <2>6, <2>7 DEF TypeOK
<1>2. ASSUME NEW r \in Request, FlushSends(r)
      PROVE  TypeOK'
  <2>1. Oldest(journal, Batch) \in SUBSET Events
    <3>1. Len(asked) \in Nat /\ journal \in SUBSET (1..Len(asked))
      BY <1>0 DEF Events
    <3>2. Oldest(journal, Batch) \subseteq journal
      BY <3>1, OldestIs
    <3>3. QED
      BY <1>0, <3>2
  <2>2. [stage |-> "sent", events |-> Oldest(journal, Batch), fresh |-> {}] \in ReqType
    BY <2>1 DEF ReqType, Stages
  <2>3. req' \in [Request -> ReqType]
    BY <1>0, <1>2, <2>2 DEF FlushSends
  <2>4. QED
    BY <1>0, <1>2, <2>3, SameEvents DEF FlushSends
<1>3. Idle \in ReqType
  BY DEF Idle, ReqType, Stages
<1>4. CASE FlushWritesBack \/ FlushRefused \/ FlushGivesUp
  <2>1. req' \in [Request -> ReqType]
    BY <1>0, <1>3, <1>4 DEF FlushWritesBack, FlushRefused, FlushGivesUp, server
  <2>2. faults' \in 0..MaxFaults
    BY <1>0, <1>4, BoundAssumption DEF FlushWritesBack, FlushRefused, FlushGivesUp, Fault
  <2>3. journal' \in SUBSET Events
    BY <1>0, <1>4 DEF FlushWritesBack, FlushRefused, FlushGivesUp, Kept
  <2>4. QED
    BY <1>0, <1>4, <2>1, <2>2, <2>3, SameEvents
    DEF FlushWritesBack, FlushRefused, FlushGivesUp, server
<1>5. ASSUME NEW r \in Request, Serves(r) \/ Dies(r)
      PROVE  TypeOK'
  <2>1. \A x \in ReqType, st \in Stages : [x EXCEPT !.stage = st] \in ReqType
    BY DEF ReqType
  <2>2. \A x \in ReqType, st \in Stages, ids \in SUBSET Events :
            [x EXCEPT !.fresh = ids, !.stage = st] \in ReqType
    BY DEF ReqType
  <2>3. req[r] \in ReqType /\ req[r].fresh \in SUBSET Events /\ req[r].events \in SUBSET Events
    BY <1>0 DEF ReqType
  <2>4. faults' \in 0..MaxFaults
    BY <1>0, <1>5, BoundAssumption
    DEF Serves, Classifies, Applies, Remembers, ReplyLost, Dies, Moves, Fault
  <2>5. CASE Classifies(r)
    <3>1. req' \in [Request -> ReqType]
      <4>1. CASE ~open
        BY <1>0, <2>1, <2>3, <2>5, <4>1 DEF Classifies, Moves, Stages
      <4>2. CASE open
        <5>1. PICK known \in {acked, {}} :
                req' = [req EXCEPT ![r].fresh = req[r].events \ known,
                                   ![r].stage = IF req[r].events \ known = {}
                                                THEN "answered" ELSE "classified"]
          BY <2>5, <4>2 DEF Classifies
        <5>2. req' = [req EXCEPT ![r] = [req[r] EXCEPT !.fresh = req[r].events \ known,
                                                      !.stage = IF req[r].events \ known = {}
                                                                THEN "answered" ELSE "classified"]]
          BY <5>1
        <5>3. req[r].events \ known \in SUBSET Events
          BY <2>3
        <5>4. [req[r] EXCEPT !.fresh = req[r].events \ known,
                             !.stage = IF req[r].events \ known = {}
                                       THEN "answered" ELSE "classified"] \in ReqType
          BY <2>2, <2>3, <5>3 DEF Stages
        <5>5. QED
          BY <1>0, <5>2, <5>4
      <4>3. QED
        BY <4>1, <4>2
    <3>2. QED
      BY <1>0, <2>4, <2>5, <3>1, SameEvents DEF Classifies, client
  <2>6. CASE Applies(r)
    <3>1. req' \in [Request -> ReqType]
      BY <1>0, <2>1, <2>3, <2>6 DEF Applies, Moves, Stages
    <3>2. \A q \in Question : Latest(req[r].fresh, q) \in Events \cup {0}
      BY <1>0, <2>3, LatestIs
    <3>3. stored' \in [Question -> Events \cup {0}]
      BY <1>0, <2>6, <3>2 DEF Applies
    <3>4. QED
      BY <1>0, <2>3, <2>4, <2>6, <3>1, <3>3, SameEvents DEF Applies, client
  <2>7. CASE Remembers(r) \/ Dies(r)
    <3>1. req' \in [Request -> ReqType]
      BY <1>0, <2>1, <2>3, <2>7 DEF Remembers, Dies, Moves, Stages
    <3>2. acked' \in SUBSET Events
      BY <1>0, <2>3, <2>7 DEF Remembers, Dies
    <3>3. QED
      BY <1>0, <2>4, <2>7, <3>1, <3>2, SameEvents DEF Remembers, Dies, client
  <2>8. CASE ReplyLost(r)
    <3>1. req' \in [Request -> ReqType]
      BY <1>0, <1>3, <2>8 DEF ReplyLost
    <3>2. QED
      BY <1>0, <2>4, <2>8, <3>1, SameEvents DEF ReplyLost, client
  <2>9. QED
    BY <1>5, <2>5, <2>6, <2>7, <2>8 DEF Serves
<1>6. CASE Closes \/ UNCHANGED vars
  BY <1>0, <1>6, SameEvents DEF Closes, vars, client, server
<1>7. QED
  BY <1>1, <1>2, <1>4, <1>5, <1>6 DEF Next

(* Whatever fails, the ids, rows and requests keep their shape; in particular
   a row never names an event that was not made. *)
THEOREM TypeCorrect == Spec => []TypeOK
BY TypeInit, TypeStep, PTL DEF Spec

-----------------------------------------------------------------------------
(* No answer leaves the journal unstored. *)

(* What the ids a request carries say about the Redis set and the rows. *)
RequestsHold ==
    \A r \in Request :
        /\ req[r].fresh \subseteq req[r].events
        /\ req[r].stage \in {"classified", "committed", "answered"} =>
               req[r].events \ req[r].fresh \subseteq acked
        /\ req[r].stage \in {"committed", "answered"} => req[r].fresh \subseteq taken

(* While flushNow waits, the journal is what it read and what came since. *)
FlightHolds ==
    flight # None => /\ req[flight].stage # "free"
                     /\ read \subseteq journal
                     /\ journal \ read \subseteq during

KeptInv == RequestsHold /\ FlightHolds /\ AckedIsTaken /\ LostOnlyDuringFlush

LEMMA KeptInit == Init => KeptInv
BY DEF Init, KeptInv, RequestsHold, FlightHolds, AckedIsTaken, LostOnlyDuringFlush, Idle, Events

LEMMA KeptStep == TypeOK /\ KeptInv /\ [Next]_vars => KeptInv'
<1> SUFFICES ASSUME TypeOK, KeptInv, [Next]_vars
             PROVE  KeptInv'
  OBVIOUS
<1> USE DEF KeptInv, RequestsHold, FlightHolds, AckedIsTaken, LostOnlyDuringFlush
<1>0. /\ req \in [Request -> ReqType] /\ flight \in Request \cup {None}
      /\ None \notin Request
  BY NoneAssumption DEF TypeOK, ReqType
<1>1. ASSUME NEW q \in Question, Enqueue(q)
      PROVE  KeptInv'
  <2>1. Events' \subseteq Events \cup {Len(asked) + 1}
    BY <1>1 DEF Enqueue, Events, TypeOK
  <2>2. QED
    BY <1>0, <1>1, <2>1 DEF Enqueue, server
<1>2. ASSUME NEW r \in Request, FlushSends(r)
      PROVE  KeptInv'
  <2>1. Events' = Events
    BY <1>2 DEF FlushSends, Events
  <2>2. QED
    BY <1>0, <1>2, <2>1 DEF FlushSends
<1>3. CASE FlushWritesBack
  <2>1. Events' = Events
    BY <1>3 DEF FlushWritesBack, Events
  <2>2. req[flight].events \subseteq taken
    BY <1>0, <1>3 DEF FlushWritesBack
  <2>3. QED
    BY <1>0, <1>3, <2>1, <2>2 DEF FlushWritesBack, Kept, Idle
<1>4. CASE FlushRefused \/ FlushGivesUp
  <2>1. Events' = Events
    BY <1>4 DEF FlushRefused, FlushGivesUp, Events
  <2>2. QED
    BY <1>0, <1>4, <2>1 DEF FlushRefused, FlushGivesUp, Idle, server
<1>5. ASSUME NEW r \in Request, Serves(r) \/ Dies(r)
      PROVE  KeptInv'
  <2>1. Events' = Events
    BY <1>5 DEF Serves, Classifies, Applies, Remembers, ReplyLost, Dies, client, Events
  <2>2. CASE Classifies(r)
    BY <1>0, <2>1, <2>2 DEF Classifies, Moves, client, ReqType
  <2>3. CASE Applies(r)
    BY <1>0, <2>1, <2>3 DEF Applies, Moves, client, ReqType
  <2>4. CASE Remembers(r) \/ Dies(r)
    BY <1>0, <2>1, <2>4 DEF Remembers, Dies, Moves, client, ReqType
  <2>5. CASE ReplyLost(r)
    BY <1>0, <2>1, <2>5 DEF ReplyLost, Abandoned, Idle, client, ReqType
  <2>6. QED
    BY <1>5, <2>2, <2>3, <2>4, <2>5 DEF Serves
<1>6. CASE Closes \/ UNCHANGED vars
  BY <1>0, <1>6 DEF Closes, vars, client, server, Events
<1>7. QED
  BY <1>1, <1>2, <1>3, <1>4, <1>5, <1>6 DEF Next

LEMMA KeptHolds == Spec => [](TypeOK /\ KeptInv)
BY TypeInit, TypeStep, KeptInit, KeptStep, PTL DEF Spec

(* However requests, failures of Redis and deaths of workers interleave, an id
   in the Redis set stands for an answer a transaction has committed. *)
THEOREM DuplicatesAreStored == Spec => []AckedIsTaken
BY KeptHolds, PTL DEF KeptInv

(* The client drops an event only when it is stored, or when it was made while
   flushNow waited and the journal read before was written over it. *)
THEOREM DroppedIsStored == Spec => []LostOnlyDuringFlush
BY KeptHolds, PTL DEF KeptInv

-----------------------------------------------------------------------------
(* A request the client waits for carries the newest events the server has  *)
(* seen, if it carries older ones: batches are taken from the front of the   *)
(* journal, and an event never comes back into it.                           *)

WasSent(e) == e \in taken \/ \E r \in Request : e \in req[r].events

Flying == IF flight = None THEN {} ELSE req[flight].events

(* Of what was sent, nothing newer left the journal before something older. *)
OldestSent ==
    \A e \in Events : WasSent(e) =>
        /\ Cardinality({d \in journal : d < e}) < Batch
        /\ \A d \in journal : d < e => e \in journal

(* An event the client still has is in every request, and in the Redis set, *)
(* with a newer one.                                                         *)
Whole ==
    \A d \in journal \cup Flying :
        /\ \A r \in Request : \A e \in req[r].events : d < e => d \in req[r].events
        /\ \A e \in acked : d < e => d \in acked

FlyingIsNewest ==
    flight # None =>
        /\ \A e \in Events, d \in Flying : WasSent(e) /\ d < e => e \in Flying
        /\ \A e \in journal : WasSent(e) => e \in read
        /\ req[flight].stage = "classified" =>
               \A d \in req[flight].fresh, e \in Flying : d < e => e \in req[flight].fresh

RowsHold ==
    \A q \in Question : stored[q] # 0 => stored[q] \in taken /\ asked[stored[q]] = q

FrontInv == OldestSent /\ Whole /\ FlyingIsNewest /\ RowsHold

LEMMA FrontInit == Init => FrontInv
BY DEF Init, FrontInv, OldestSent, Whole, FlyingIsNewest, RowsHold, WasSent, Flying, Idle, Events

LEMMA FrontEnqueue ==
    ASSUME TypeOK, FrontInv, NEW q \in Question, Enqueue(q)
    PROVE  FrontInv'
<1> DEFINE n == Len(asked) + 1
<1>1. /\ n \in Nat /\ Len(asked) \in Nat /\ asked' = Append(asked, q) /\ journal' = journal \cup {n}
      /\ UNCHANGED <<flight, req, acked, stored, taken, read>>
      /\ Events' = Events \cup {n}
      /\ \A e \in Events : e \in Int /\ e < n /\ asked'[e] = asked[e]
  BY DEF Enqueue, TypeOK, Events, server
<1>2. /\ \A r \in Request : req[r].events \subseteq Events
      /\ journal \subseteq Events /\ acked \subseteq Events /\ taken \subseteq Events
      /\ flight \in Request \cup {None}
  BY DEF TypeOK
<1> HIDE DEF n
<1>3. \A e : WasSent(e)' <=> WasSent(e)
  BY <1>1 DEF WasSent
<1>4. \A e : WasSent(e) => e \in Events
  BY <1>2 DEF WasSent
<1>5. Flying' = Flying /\ Flying \subseteq Events
  BY <1>1, <1>2 DEF Flying
<1>6. OldestSent'
  <2> SUFFICES ASSUME NEW e \in Events', WasSent(e)'
               PROVE  /\ Cardinality({d \in journal' : d < e}) < Batch
                      /\ \A d \in journal' : d < e => e \in journal'
    BY DEF OldestSent
  <2>1. WasSent(e) /\ e \in Events
    BY <1>3, <1>4
  <2>2. {d \in journal' : d < e} = {d \in journal : d < e}
    BY <1>1, <2>1
  <2>3. QED
    BY <1>1, <2>1, <2>2 DEF FrontInv, OldestSent
<1>7. Whole'
  <2>1. \A e \in Events : ~ (n < e)
    BY <1>1
  <2>2. QED
    BY <1>1, <1>2, <1>5, <2>1 DEF FrontInv, Whole
<1>8. FlyingIsNewest'
  BY <1>1, <1>3, <1>4, <1>5 DEF FrontInv, FlyingIsNewest
<1>9. RowsHold'
  BY <1>1, <1>2 DEF FrontInv, RowsHold
<1>10. QED
  BY <1>6, <1>7, <1>8, <1>9 DEF FrontInv

LEMMA FrontSends ==
    ASSUME TypeOK, FrontInv, NEW r \in Request, FlushSends(r)
    PROVE  FrontInv'
<1> DEFINE batch == Oldest(journal, Batch)
<1>1. /\ flight = None /\ flight' = r /\ read' = journal
      /\ req' = [req EXCEPT ![r] = [stage |-> "sent", events |-> batch, fresh |-> {}]]
      /\ UNCHANGED <<asked, journal, acked, stored, taken>>
      /\ Events' = Events
  BY DEF FlushSends, Events
<1>2. /\ Len(asked) \in Nat /\ journal \in SUBSET (1..Len(asked))
      /\ req \in [Request -> ReqType]
  BY DEF TypeOK, Events, ReqType
<1>3. /\ batch \subseteq journal
      /\ \A e \in batch : /\ Cardinality({d \in journal : d < e}) < Batch
                          /\ \A d \in journal : d < e => d \in batch
  BY <1>2, OldestIs
<1>4. \A e \in journal : Cardinality({d \in journal : d < e}) < Batch => e \in batch
  BY DEF Oldest
<1> HIDE DEF batch
<1>5. /\ req'[r].events = batch /\ req'[r].stage = "sent" /\ req'[r].fresh = {}
      /\ \A p \in Request : p # r => req'[p] = req[p]
      /\ Flying' = batch
  BY <1>1, <1>2, NoneAssumption DEF Flying
<1>6. \A e : WasSent(e)' => WasSent(e) \/ e \in batch
  BY <1>1, <1>5 DEF WasSent
<1>7. OldestSent'
  BY <1>1, <1>3, <1>6 DEF FrontInv, OldestSent
<1>8. Whole'
  BY <1>1, <1>3, <1>5 DEF FrontInv, Whole
<1>9. FlyingIsNewest'
  BY <1>1, <1>3, <1>4, <1>5, <1>6 DEF FrontInv, OldestSent, FlyingIsNewest
<1>10. RowsHold'
  BY <1>1 DEF FrontInv, RowsHold
<1>11. QED
  BY <1>7, <1>8, <1>9, <1>10 DEF FrontInv

(* The end of a flush: nothing is sent, and the journal at most shrinks. *)
LEMMA FrontEnds ==
    ASSUME TypeOK, KeptInv, FrontInv, FlushWritesBack \/ FlushRefused \/ FlushGivesUp
    PROVE  FrontInv'
<1>1. /\ flight \in Request /\ flight' = None
      /\ UNCHANGED <<asked, acked, stored, taken>>
      /\ Events' = Events
      /\ req \in [Request -> ReqType]
      /\ Len(asked) \in Nat /\ journal \in SUBSET (1..Len(asked))
  BY DEF FlushWritesBack, FlushRefused, FlushGivesUp, server, TypeOK, Events, ReqType
<1>2. \A r \in Request : req'[r].events = req[r].events \/ req'[r].events = {}
  BY <1>1 DEF FlushWritesBack, FlushRefused, FlushGivesUp, server, Idle
<1>3. \A e : WasSent(e)' => WasSent(e)
  BY <1>1, <1>2 DEF WasSent
<1>4. Flying' = {}
  BY <1>1 DEF Flying
<1>5. journal' = journal \/ journal' = read \ req[flight].events
  BY DEF FlushWritesBack, FlushRefused, FlushGivesUp, Kept
<1>6. read \subseteq journal /\ Flying = req[flight].events
  BY <1>1, NoneAssumption DEF KeptInv, FlightHolds, Flying
<1>7. journal' \in SUBSET journal
  BY <1>5, <1>6
<1>8. OldestSent'
  <2> SUFFICES ASSUME NEW e \in Events, WasSent(e)
               PROVE  /\ Cardinality({d \in journal' : d < e}) < Batch
                      /\ \A d \in journal' : d < e => e \in journal'
    BY <1>1, <1>3 DEF OldestSent
  <2>1. /\ Cardinality({d \in journal : d < e}) < Batch
        /\ \A d \in journal : d < e => e \in journal
    BY DEF FrontInv, OldestSent
  <2>2. e \in Int
    BY DEF Events
  <2>3. Cardinality({d \in journal' : d < e}) < Batch
    BY <1>1, <1>7, <2>1, <2>2, FewerBelow
  <2>4. ASSUME NEW d \in journal', d < e, e \notin journal'
        PROVE  FALSE
    <3>1. d \in journal /\ e \in journal
      BY <1>7, <2>1, <2>4
    <3>2. journal' = read \ req[flight].events
      BY <1>5, <2>4, <3>1
    <3>3. e \in read
      BY <1>1, <3>1, NoneAssumption DEF FrontInv, FlyingIsNewest
    <3>4. e \in req[flight].events
      BY <2>4, <3>2, <3>3
    <3>5. d \in req[flight].events
      BY <1>1, <2>4, <3>1, <3>4 DEF FrontInv, Whole
    <3>6. QED
      BY <2>4, <3>2, <3>5
  <2>5. QED
    BY <2>3, <2>4
<1>9. Whole'
  BY <1>1, <1>2, <1>4, <1>7 DEF FrontInv, Whole
<1>10. FlyingIsNewest'
  BY <1>1 DEF FlyingIsNewest
<1>11. RowsHold'
  BY <1>1 DEF FrontInv, RowsHold
<1>12. QED
  BY <1>8, <1>9, <1>10, <1>11 DEF FrontInv

LEMMA FrontServes ==
    ASSUME TypeOK, KeptInv, FrontInv, NEW r \in Request, Serves(r) \/ Dies(r)
    PROVE  FrontInv'
<1>1. /\ UNCHANGED <<asked, journal, read, flight>>
      /\ Events' = Events
      /\ req \in [Request -> ReqType]
      /\ flight \in Request \cup {None} /\ None \notin Request
  BY NoneAssumption
  DEF Serves, Classifies, Applies, Remembers, ReplyLost, Dies, client, Events, TypeOK, ReqType
<1>2. \A p \in Request : /\ req'[p].events = req[p].events \/ req'[p].events = {}
                         /\ p = flight => req'[p].events = req[p].events
                         /\ p # r => req'[p] = req[p]
  BY <1>1 DEF Serves, Classifies, Applies, Remembers, ReplyLost, Dies, Moves, Abandoned, Idle, ReqType
<1>3. taken' \subseteq taken \cup req[r].fresh /\ req[r].fresh \subseteq req[r].events
  BY DEF Serves, Classifies, Applies, Remembers, ReplyLost, Dies, KeptInv, RequestsHold
<1>4. \A e : WasSent(e)' => WasSent(e)
  BY <1>2, <1>3 DEF WasSent
<1>5. Flying' = Flying
  BY <1>1, <1>2 DEF Flying
<1>6. OldestSent'
  BY <1>1, <1>4 DEF FrontInv, OldestSent
<1>7. acked' = acked \/ (req[r].stage = "committed" /\ acked' = acked \cup req[r].fresh)
  BY DEF Serves, Classifies, Applies, Remembers, ReplyLost, Dies
<1>8. Whole'
  <2> SUFFICES ASSUME NEW d \in journal \cup Flying
               PROVE  /\ \A p \in Request : \A e \in req'[p].events : d < e => d \in req'[p].events
                      /\ \A e \in acked' : d < e => d \in acked'
    BY <1>1, <1>5 DEF Whole
  <2>1. /\ \A p \in Request : \A e \in req[p].events : d < e => d \in req[p].events
        /\ \A e \in acked : d < e => d \in acked
    BY DEF FrontInv, Whole
  <2>2. \A p \in Request : \A e \in req'[p].events : d < e => d \in req'[p].events
    BY <1>2, <2>1
  <2>3. ASSUME NEW e \in acked', d < e
        PROVE  d \in acked'
    <3>1. CASE e \in acked
      BY <1>7, <2>1, <2>3, <3>1
    <3>2. CASE e \notin acked
      <4>1. e \in req[r].fresh /\ req[r].stage = "committed" /\ acked' = acked \cup req[r].fresh
        BY <1>7, <2>3, <3>2
      <4>2. d \in req[r].events
        BY <1>3, <2>1, <2>3, <4>1
      <4>3. req[r].events \ req[r].fresh \subseteq acked
        BY <4>1 DEF KeptInv, RequestsHold
      <4>4. QED
        BY <4>1, <4>2, <4>3
    <3>3. QED
      BY <3>1, <3>2
  <2>4. QED
    BY <2>2, <2>3
<1>9. FlyingIsNewest'
  <2> SUFFICES ASSUME flight # None
               PROVE  FlyingIsNewest'
    BY <1>1 DEF FlyingIsNewest
  <2>1. ASSUME req'[flight].stage = "classified",
               NEW d \in req'[flight].fresh, NEW e \in Flying, d < e
        PROVE  e \in req'[flight].fresh
    <3>1. CASE req'[flight] = req[flight]
      BY <2>1, <3>1 DEF FrontInv, FlyingIsNewest
    <3>2. CASE req'[flight] # req[flight]
      <4>1. r = flight
        BY <1>1, <1>2, <3>2
      <4>2. Classifies(r) /\ open
        BY <1>1, <2>1, <4>1
        DEF Serves, Classifies, Applies, Remembers, ReplyLost, Dies, Moves, Abandoned, ReqType
      <4>3. PICK known \in {acked, {}} : req'[r].fresh = req[r].events \ known
        BY <1>1, <4>2 DEF Classifies, ReqType
      <4>4. Flying = req[r].events
        BY <4>1 DEF Flying
      <4>5. CASE e \in known
        <5>1. e \in acked /\ known = acked
          BY <4>3, <4>5
        <5>2. d \in Flying /\ d \notin acked
          BY <2>1, <4>1, <4>3, <4>4, <5>1
        <5>3. QED
          BY <2>1, <5>1, <5>2 DEF FrontInv, Whole
      <4>6. QED
        BY <2>1, <4>1, <4>3, <4>4, <4>5
    <3>3. QED
      BY <3>1, <3>2
  <2>2. QED
    BY <1>1, <1>4, <1>5, <2>1 DEF FrontInv, FlyingIsNewest
<1>10. RowsHold'
  <2>1. CASE Applies(r)
    <3>1. Len(asked) \in Nat /\ req[r].fresh \in SUBSET Events
      BY <1>1 DEF TypeOK
    <3> SUFFICES ASSUME NEW q \in Question, stored'[q] # 0
                 PROVE  stored'[q] \in taken' /\ asked[stored'[q]] = q
      BY <1>1 DEF RowsHold
    <3>2. stored'[q] = IF Latest(req[r].fresh, q) = 0 THEN stored[q] ELSE Latest(req[r].fresh, q)
      BY <2>1 DEF Applies
    <3>3. taken' = taken \cup req[r].fresh
      BY <2>1 DEF Applies
    <3>4. CASE Latest(req[r].fresh, q) = 0
      BY <3>2, <3>3, <3>4 DEF FrontInv, RowsHold
    <3>5. CASE Latest(req[r].fresh, q) # 0
      BY <3>1, <3>2, <3>3, <3>5, LatestIs
    <3>6. QED
      BY <3>4, <3>5
  <2>2. CASE ~ Applies(r)
    BY <1>1, <2>2 DEF FrontInv, RowsHold, Serves, Classifies, Remembers, ReplyLost, Dies
  <2>3. QED
    BY <2>1, <2>2
<1>11. QED
  BY <1>6, <1>8, <1>9, <1>10 DEF FrontInv

LEMMA FrontStep == TypeOK /\ KeptInv /\ FrontInv /\ [Next]_vars => FrontInv'
<1> SUFFICES ASSUME TypeOK, KeptInv, FrontInv, [Next]_vars
             PROVE  FrontInv'
  OBVIOUS
<1>1. CASE Closes \/ UNCHANGED vars
  BY <1>1 DEF Closes, vars, client, server, FrontInv, OldestSent, Whole, FlyingIsNewest,
              RowsHold, WasSent, Flying, Events
<1>2. QED
  BY <1>1, FrontEnqueue, FrontSends, FrontEnds, FrontServes DEF Next

LEMMA FrontHolds == Spec => [](TypeOK /\ KeptInv /\ FrontInv)
BY TypeInit, TypeStep, KeptInit, KeptStep, FrontInit, FrontStep, PTL DEF Spec

(* A request the client waits for applies nothing older than what is stored. *)
LEMMA AwaitedIsNewest ==
    ASSUME TypeOK, KeptInv, FrontInv, NEW r \in Request, Applies(r), r = flight, NEW q \in Question
    PROVE  stored'[q] >= stored[q]
<1> DEFINE m == Latest(req[r].fresh, q)
           e == stored[q]
<1>1. Len(asked) \in Nat /\ req[r].fresh \in SUBSET Events /\ e \in Nat /\ taken \subseteq Events
  BY DEF TypeOK, Events
<1>2. \/ m = 0 /\ stored'[q] = e
      \/ m # 0 /\ stored'[q] = m
  BY DEF Applies
<1>3. CASE m # 0 /\ e # 0
  <2>1. /\ m \in req[r].fresh /\ asked[m] = q
        /\ \A d \in req[r].fresh : asked[d] = q => d <= m
    BY <1>1, <1>3, LatestIs
  <2>2. m \in Nat
    BY <1>1, <2>1 DEF Events
  <2>3. e \in taken /\ asked[e] = q /\ e \in Events
    BY <1>1, <1>3 DEF FrontInv, RowsHold
  <2>4. ASSUME m < e
        PROVE  FALSE
    <3>1. flight # None /\ Flying = req[r].events /\ req[r].stage = "classified"
      BY NoneAssumption DEF Flying, Applies
    <3>2. m \in Flying
      BY <2>1, <3>1 DEF KeptInv, RequestsHold
    <3>3. e \in Flying
      BY <2>3, <2>4, <3>1, <3>2 DEF FrontInv, FlyingIsNewest, WasSent
    <3>4. e \in req[r].fresh
      BY <2>1, <2>4, <3>1, <3>3 DEF FrontInv, FlyingIsNewest
    <3>5. e <= m
      BY <2>1, <2>3, <3>4
    <3>6. QED
      BY <1>1, <2>2, <2>4, <3>5
  <2>5. QED
    BY <1>1, <1>2, <1>3, <2>2, <2>4
<1>4. CASE m # 0 /\ e = 0
  <2>1. m \in req[r].fresh
    BY <1>1, <1>4, LatestIs
  <2>2. m \in Nat
    BY <1>1, <2>1 DEF Events
  <2>3. QED
    BY <1>2, <1>4, <2>2
<1>5. QED
  BY <1>1, <1>2, <1>3, <1>4

(* Timeouts, reloads, lost replies and forgotten ids notwithstanding, only a
   request the client has given up on can put an older answer back. *)
THEOREM AwaitedNeverBack == Spec => AwaitedMovesForward
<1>1. TypeOK /\ KeptInv /\ FrontInv /\ [Next]_vars =>
        [\A q \in Question : stored'[q] < stored[q] => flight = None \/ req'[flight] = req[flight]]_vars
  <2> SUFFICES ASSUME TypeOK, KeptInv, FrontInv, Next, NEW q \in Question,
                      stored'[q] < stored[q], flight # None
               PROVE  req'[flight] = req[flight]
    OBVIOUS
  <2>1. stored[q] \in Int
    BY DEF TypeOK, Events
  <2>2. stored' # stored
    BY <2>1
  <2>3. PICK r \in Request : Applies(r)
    BY <2>2 DEF Next, Serves, Enqueue, FlushSends, Classifies, Remembers, ReplyLost, Dies,
                FlushWritesBack, FlushRefused, FlushGivesUp, Closes, server, client
  <2>4. CASE r = flight
    <3>1. stored'[q] >= stored[q]
      BY <2>3, <2>4, AwaitedIsNewest
    <3>2. stored'[q] \in Int
      BY <2>1, <2>3, TypeStep DEF TypeOK, Events
    <3>3. QED
      BY <2>1, <3>1, <3>2
  <2>5. CASE r # flight
    BY <2>3, <2>5 DEF Applies, Moves, TypeOK
  <2>6. QED
    BY <2>4, <2>5
<1>2. QED
  BY <1>1, FrontHolds, PTL DEF AwaitedMovesForward, Spec

-----------------------------------------------------------------------------
(* Without failures the rows hold the newest answers. *)

(* No request is left behind, and no row is behind what was taken. *)
SmoothInv ==
    faults = 0 =>
        /\ \A r \in Request : r # flight => req[r].stage = "free" 
        /\ \A e \in taken : e <= stored[asked[e]]

LEMMA SmoothStep == TypeOK /\ KeptInv /\ FrontInv /\ SmoothInv /\ [Next]_vars => SmoothInv'
<1> SUFFICES ASSUME TypeOK, KeptInv, FrontInv, SmoothInv, [Next]_vars, faults' = 0
             PROVE  /\ \A r \in Request : r # flight' => req'[r].stage = "free"
                    /\ \A e \in taken' : e <= stored'[asked'[e]]
  BY DEF SmoothInv
<1>1. /\ req \in [Request -> ReqType] /\ flight \in Request \cup {None} /\ None \notin Request
      /\ faults \in Nat /\ taken \subseteq Events
      /\ asked \in Seq(Question) /\ Len(asked) \in Nat
      /\ stored \in [Question -> Events \cup {0}]
  BY NoneAssumption, BoundAssumption DEF TypeOK, ReqType
<1>2. faults = 0
  <2>1. faults' = faults \/ faults' = faults + 1
    <3>1. CASE \E q \in Question : Enqueue(q)
      BY <3>1 DEF Enqueue
    <3>2. ASSUME NEW r \in Request, FlushSends(r) \/ Serves(r) \/ Dies(r)
          PROVE  faults' = faults \/ faults' = faults + 1
      BY <3>2 DEF Serves, FlushSends, Classifies, Applies, Remembers, ReplyLost, Dies, Fault
    <3>3. CASE FlushWritesBack \/ FlushRefused \/ FlushGivesUp \/ Closes \/ UNCHANGED vars
      BY <3>3 DEF FlushWritesBack, FlushRefused, FlushGivesUp, Closes, Fault, vars
    <3>4. QED
      BY <3>1, <3>2, <3>3 DEF Next
  <2>2. QED
    BY <1>1, <2>1
<1>3. /\ \A r \in Request : r # flight => req[r].stage = "free"
      /\ \A e \in taken : e <= stored[asked[e]]
  BY <1>2 DEF SmoothInv
<1>4. \A r \in Request : r # flight' => req'[r].stage = "free"
  <2>1. CASE \E q \in Question : Enqueue(q)
    BY <1>3, <2>1 DEF Enqueue, server
  <2>2. CASE \E r \in Request : FlushSends(r)
    BY <1>1, <1>3, <2>2 DEF FlushSends
  <2>3. ASSUME NEW r \in Request, Serves(r) \/ Dies(r)
        PROVE  \A p \in Request : p # flight' => req'[p].stage = "free"
    <3>1. req[r].stage # "free" \/ req'[r].stage = "free"
      BY <2>3 DEF Serves, Classifies, Applies, Remembers, ReplyLost, Dies, Abandoned, Idle
    <3>2. flight' = flight /\ \A p \in Request : p # r => req'[p] = req[p]
      BY <1>1, <2>3 DEF Serves, Classifies, Applies, Remembers, ReplyLost, Dies, Moves, client
    <3>3. QED
      BY <1>3, <3>1, <3>2
  <2>4. CASE FlushWritesBack \/ FlushRefused
    BY <1>1, <1>3, <2>4 DEF FlushWritesBack, FlushRefused, Idle
  <2>5. ~ FlushGivesUp
    BY <1>1, <1>2 DEF FlushGivesUp, Fault
  <2>6. CASE Closes \/ UNCHANGED vars
    BY <1>3, <2>6 DEF Closes, vars, client, server
  <2>7. QED
    BY <2>1, <2>2, <2>3, <2>4, <2>5, <2>6 DEF Next
<1>5. \A e \in taken' : e <= stored'[asked'[e]]
  <2>1. ASSUME NEW q \in Question, Enqueue(q)
        PROVE  \A e \in taken' : e <= stored'[asked'[e]]
    <3>1. \A e \in Events : asked'[e] = asked[e]
      BY <1>1, <2>1 DEF Enqueue, Events
    <3>2. QED
      BY <1>1, <1>3, <2>1, <3>1 DEF Enqueue, server
  <2>2. ASSUME NEW r \in Request, Applies(r)
        PROVE  \A e \in taken' : e <= stored'[asked'[e]]
    <3>1. r = flight
      BY <1>3, <2>2 DEF Applies
    <3>2. \A q \in Question : stored'[q] >= stored[q]
      BY <2>2, <3>1, AwaitedIsNewest
    <3>3. \A q \in Question : stored[q] \in Int /\ stored'[q] \in Int
      <4>1. TypeOK'
        BY TypeStep
      <4>2. QED
        BY <1>1, <4>1 DEF TypeOK, Events
    <3>4. req[r].fresh \in SUBSET Events /\ asked' = asked /\ taken' = taken \cup req[r].fresh
      BY <1>1, <2>2 DEF Applies, client, ReqType
    <3>5. \A e \in Events : e \in Int /\ asked[e] \in Question
      BY <1>1 DEF Events
    <3>6. ASSUME NEW e \in taken
          PROVE  e <= stored'[asked[e]]
      BY <1>1, <1>3, <3>2, <3>3, <3>5
    <3>7. ASSUME NEW e \in req[r].fresh
          PROVE  e <= stored'[asked[e]]
      <4> DEFINE m == Latest(req[r].fresh, asked[e])
      <4>1. e \in Events /\ e \in 1..Len(asked)
        BY <3>4 DEF Events
      <4>2. m # 0 /\ e <= m
        BY <1>1, <3>4, <3>5, <4>1, LatestIs
      <4>3. stored'[asked[e]] = m
        BY <2>2, <3>5, <4>1, <4>2 DEF Applies
      <4>4. QED
        BY <4>2, <4>3
    <3>8. QED
      BY <3>4, <3>6, <3>7
  <2>3. CASE UNCHANGED <<asked, stored, taken>>
    BY <1>3, <2>3
  <2>4. QED
    BY <2>1, <2>2, <2>3
    DEF Next, Serves, FlushSends, Classifies, Remembers, ReplyLost, Dies,
        FlushWritesBack, FlushRefused, FlushGivesUp, Closes, server, client, vars
<1>6. QED
  BY <1>4, <1>5

(* With no failure at all, a journal that has drained leaves each question the
   student's last answer. *)
THEOREM DrainedIsStored == Spec => []EmptyIsStored
<1>1. Init => SmoothInv
  BY DEF Init, SmoothInv, Idle
<1>2. TypeOK /\ KeptInv /\ FrontInv /\ SmoothInv => EmptyIsStored
  BY DEF SmoothInv, EmptyIsStored
<1>3. QED
  BY <1>1, <1>2, SmoothStep, FrontHolds, PTL DEF Spec

-----------------------------------------------------------------------------
(* The journal delivers at least once: refinement of AnswerDelivery. *)

Delivers == [Delivery!DeliveryNext]_(Delivery!deliveryVars)

(* A new event is taken over, unless flushNow waits: then it is during. *)
LEMMA EnqueueDelivers ==
    ASSUME TypeOK, NEW q \in Question, Enqueue(q)
    PROVE  Delivers
<1> DEFINE e == Len(asked) + 1
<1>1. /\ asked \in Seq(Question) /\ asked' = Append(asked, q) /\ Len(asked) < MaxEvents
      /\ journal' = journal \cup {e} /\ taken' = taken
      /\ during' = IF flight = None THEN during ELSE during \cup {e}
  BY DEF Enqueue, server, TypeOK
<1>2. Events' = Events \cup {e} /\ e \notin Events /\ e \in 1..MaxEvents
  BY <1>1, BoundAssumption DEF Events
<1>3. journal \subseteq Events /\ taken \subseteq Events /\ during \subseteq Events
  BY DEF TypeOK
<1> HIDE DEF e
<1>4. CASE flight = None
  <2>1. during' = during
    BY <1>1, <1>4
  <2>2. /\ Events' \ during' = (Events \ during) \cup {e}
        /\ journal' \ during' = (journal \ during) \cup {e}
        /\ taken' \ during' = taken \ during
    BY <1>1, <1>2, <1>3, <2>1
  <2>3. Delivery!Accept(e)
    BY <2>2 DEF Delivery!Accept
  <2>4. QED
    BY <1>2, <2>3 DEF Delivers, Delivery!DeliveryNext
<1>5. CASE flight # None
  <2>1. during' = during \cup {e}
    BY <1>1, <1>5
  <2>2. /\ Events' \ during' = Events \ during
        /\ journal' \ during' = journal \ during
        /\ taken' \ during' = taken \ during
    BY <1>1, <1>2, <1>3, <2>1
  <2>3. QED
    BY <2>2 DEF Delivers, Delivery!deliveryVars
<1>6. QED
  BY <1>4, <1>5

(* A reply lets go of what the request carried, and all of that is stored;  *)
(* what was made while flushNow waited is overwritten with it.              *)
LEMMA WritesBackDelivers ==
    ASSUME TypeOK, KeptInv, FlushWritesBack
    PROVE  Delivers
<1> DEFINE ids == req[flight].events
           S == (journal \ during) \ (journal' \ during)
<1>1. /\ flight # None /\ req[flight].stage = "answered"
      /\ journal' = read \ ids /\ UNCHANGED <<asked, during, taken>>
  BY DEF FlushWritesBack, Kept
<1>2. flight \in Request
  BY <1>1 DEF TypeOK
<1>3. ids \subseteq taken
  BY <1>1, <1>2 DEF KeptInv, RequestsHold, AckedIsTaken
<1>4. read \subseteq journal /\ journal \ read \subseteq during
  BY <1>1 DEF KeptInv, FlightHolds
<1> HIDE DEF ids
<1>5. /\ S \in SUBSET ((journal \ during) \cap (taken \ during))
      /\ journal' \ during = (journal \ during) \ S
  BY <1>1, <1>3, <1>4
<1>6. \E T \in SUBSET ((journal \ during) \cap (taken \ during)) :
          journal' \ during' = (journal \ during) \ T
  BY <1>1, <1>5
<1>7. Events' = Events
  BY <1>1 DEF Events
<1>8. Delivery!LetGo
  BY <1>1, <1>6, <1>7 DEF Delivery!LetGo
<1>9. QED
  BY <1>8 DEF Delivers, Delivery!DeliveryNext

(* A transaction stores events that were made, some perhaps again. *)
LEMMA AppliesDelivers ==
    ASSUME TypeOK, NEW r \in Request, Applies(r)
    PROVE  Delivers
<1>1. taken' = taken \cup req[r].fresh /\ UNCHANGED <<asked, journal, during>>
  BY DEF Applies, client
<1>2. req[r].fresh \subseteq Events /\ Events' = Events
  BY <1>1 DEF TypeOK, Events
<1>3. /\ req[r].fresh \ during \in SUBSET (Events \ during)
      /\ taken' \ during' = (taken \ during) \cup (req[r].fresh \ during)
  BY <1>1, <1>2
<1>4. \E S \in SUBSET (Events \ during) : taken' \ during' = (taken \ during) \cup S
  BY <1>3
<1>5. Delivery!Store
  BY <1>1, <1>2, <1>4 DEF Delivery!Store
<1>6. QED
  BY <1>5 DEF Delivers, Delivery!DeliveryNext

LEMMA DeliveryStep == TypeOK /\ KeptInv /\ [Next]_vars => Delivers
<1> SUFFICES ASSUME TypeOK, KeptInv, [Next]_vars
             PROVE  Delivers
  OBVIOUS
<1>1. ASSUME UNCHANGED <<asked, journal, taken, during>>
      PROVE  Delivers
  BY <1>1 DEF Delivers, Delivery!deliveryVars, Events
<1>2. ASSUME NEW r \in Request, FlushSends(r) \/ Serves(r) \/ Dies(r)
      PROVE  Delivers
  <2>1. CASE Applies(r)
    BY <2>1, AppliesDelivers
  <2>2. CASE ~Applies(r)
    <3>1. UNCHANGED <<asked, journal, taken, during>>
      BY <1>2, <2>2 DEF FlushSends, Serves, Classifies, Remembers, ReplyLost, Dies, client
    <3>2. QED
      BY <1>1, <3>1
  <2>3. QED
    BY <2>1, <2>2
<1>3. CASE FlushRefused \/ FlushGivesUp \/ Closes \/ UNCHANGED vars
  <2>1. UNCHANGED <<asked, journal, taken, during>>
    BY <1>3 DEF FlushRefused, FlushGivesUp, Closes, vars, client, server
  <2>2. QED
    BY <1>1, <2>1
<1>4. QED
  BY <1>2, <1>3, EnqueueDelivers, WritesBackDelivers DEF Next

(* The journal delivers at least once what was not made while flushNow      *)
(* waited: an event leaves it only when it is stored, however requests are  *)
(* given up on, refused, resent or answered late.                           *)
THEOREM RefinesDelivery == Spec => ImplementsDelivery
<1>1. Init => Delivery!DeliveryInit
  BY DEF Init, Delivery!DeliveryInit, Events
<1>2. TypeOK /\ KeptInv /\ [Next]_vars => [Delivery!DeliveryNext]_(Delivery!deliveryVars)
  BY DeliveryStep DEF Delivers
<1>3. QED
  BY <1>1, <1>2, KeptHolds, PTL DEF Spec, ImplementsDelivery, Delivery!DeliverySpec

=============================================================================
