------------------------ MODULE SessionWritesProofs ------------------------
(***************************************************************************)
(* Theorems about SessionWrites for every set of requests, questions and   *)
(* answers, and for every choice of the kinds of request that occur.       *)
(***************************************************************************)
EXTENDS SessionWrites, TLAPS

Rows == [Question -> Row \cup {None}]

-----------------------------------------------------------------------------
(* What the row operators return. *)

(* Every kind of request carries an answer sheet. *)
LEMMA CarriesType ==
    ASSUME NEW k, NEW a \in Carries(k)
    PROVE  a \in Payload
BY DEF Carries, Payload, Blank, AnswerKinds

(* Answer writes leave one well-formed row, or none, for each question. *)
LEMMA WritesType ==
    ASSUME rows \in Rows, NEW a \in Payload
    PROVE  /\ Upserted(a) \in Rows
           /\ Merged(a) \in Rows
           /\ Journaled(a) \in Rows
<1>1. ASSUME NEW q \in Question, a[q] # None
      PROVE  /\ [value |-> a[q], points |-> None] \in Row
             /\ [value |-> a[q], points |-> Grade[q][a[q]]] \in Row
  BY <1>1, GradeAssumption DEF Payload, Row
<1>2. Upserted(a) \in Rows
  BY <1>1 DEF Upserted, Rows
<1>3. Merged(a) \in Rows
  BY <1>1 DEF Merged, Rows
<1>4. Journaled(a) \in Rows
  BY <1>1 DEF Journaled, Rows
<1>5. QED
  BY <1>2, <1>3, <1>4

(* Whatever rows a submit has read, the points it sums are numbers: a row  *)
(* without a grade is graded, an absent row earns nothing.                 *)
LEMMA PointsType ==
    ASSUME NEW q \in Question, NEW row \in Row
    PROVE  PointsOf(q, row) \in Nat
BY GradeAssumption DEF PointsOf, Row

LEMMA BreakdownType ==
    ASSUME NEW v \in Rows
    PROVE  Breakdown(v) \in [Question -> Nat]
<1>1. ASSUME NEW q \in Question, v[q] # None
      PROVE  PointsOf(q, v[q]) \in Nat
  BY <1>1, PointsType DEF Rows
<1>2. QED
  BY <1>1 DEF Breakdown

LEMMA AnewType ==
    ASSUME NEW v \in Rows
    PROVE  Anew(v) \in Rows
BY DEF Anew, Rows, Row

LEMMA ScoredType ==
    ASSUME rows \in Rows, NEW v \in Rows
    PROVE  Scored(v) \in Rows /\ ScoredAll(v) \in Rows
<1>1. ASSUME NEW q \in Question, v[q] # None, rows[q] # None
      PROVE  [rows[q] EXCEPT !.points = PointsOf(q, v[q])] \in Row
  <2>1. PointsOf(q, v[q]) \in Nat
    BY <1>1, PointsType DEF Rows
  <2>2. rows[q] \in Row
    BY <1>1 DEF Rows
  <2>3. QED
    BY <2>1, <2>2 DEF Row
<1>2. Scored(v) \in Rows
  BY <1>1 DEF Scored, Rows
<1>3. ScoredAll(v) \in Rows
  BY <1>1 DEF ScoredAll, Rows
<1>4. QED
  BY <1>2, <1>3

(* A finalisation grades answers; it never changes one. *)
LEMMA ScoredKeepsValues ==
    ASSUME rows \in Rows, NEW v \in Rows, NEW q \in Question
    PROVE  /\ ValueOf(Scored(v)[q]) = ValueOf(rows[q])
           /\ ValueOf(ScoredAll(v)[q]) = ValueOf(rows[q])
<1> DEFINE graded == [rows[q] EXCEPT !.points = PointsOf(q, v[q])]
<1>1. Scored(v)[q] \in {rows[q], graded} /\ ScoredAll(v)[q] \in {rows[q], graded}
  BY DEF Scored, ScoredAll
<1>2. CASE v[q] # None /\ rows[q] # None
  <2>1. rows[q] \in Row
    BY <1>2 DEF Rows
  <2>2. PointsOf(q, v[q]) \in Nat
    BY <1>2, PointsType DEF Rows
  <2>3. graded \in Row /\ graded.value = rows[q].value
    BY <2>1, <2>2 DEF Row
  <2>4. ValueOf(graded) = ValueOf(rows[q])
    <3> HIDE DEF graded
    <3>1. graded # None
      BY <2>3, NoneAssumption
    <3>2. QED
      BY <1>2, <2>3, <3>1 DEF ValueOf
  <2> HIDE DEF graded
  <2>5. QED
    BY <1>1, <2>4
<1>3. CASE ~(v[q] # None /\ rows[q] # None)
  BY <1>3 DEF Scored, ScoredAll
<1>4. QED
  BY <1>2, <1>3

-----------------------------------------------------------------------------
(* Type correctness. *)

Handled == {"idle", "scanned", "probed", "locked", "loaded", "read", "done"}

Answered == {"none", "saved", "ignored", "ended", "submitted", "already", "busy", "tick"}

(* The pieces of the handlers keep the parts of the state they change       *)
(* well-formed.                                                             *)
LEMMA FinishType ==
    ASSUME TypeOK, NEW p \in Request, NEW answer \in Answered,
           NEW points \in [Question -> Nat] \cup {None}, Finish(p, answer, points)
    PROVE  /\ pc' \in [Request -> Handled]
           /\ reply' \in [Request -> Answered]
           /\ told' \in [Request -> [Question -> Nat] \cup {None}]
BY DEF TypeOK, Finish, Goto, Handled, Answered

LEMMA GotoType ==
    ASSUME TypeOK, NEW p \in Request, NEW at \in Handled, Goto(p, at)
    PROVE  pc' \in [Request -> Handled]
BY DEF TypeOK, Goto, Handled

LEMMA ProbesType ==
    ASSUME TypeOK, NEW p \in Request, NEW ks, Probes(p, ks)
    PROVE  /\ status' = status /\ rows' = rows /\ score' = score
           /\ finalizedBy' = finalizedBy /\ lock' = lock /\ view' = view
           /\ kind' \in [Request -> AllKinds \cup {None}]
           /\ sent' \in [Request -> Payload]
           /\ seen' \in [Request -> {"in_progress", "submitted"}]
<1>1. PICK k \in Kinds \cap ks :
        /\ kind' = [kind EXCEPT ![p] = k]
        /\ \E a \in Carries(k) : sent' = [sent EXCEPT ![p] = a]
  BY DEF Probes
<1>2. PICK a \in Carries(k) : sent' = [sent EXCEPT ![p] = a]
  BY <1>1
<1>3. a \in Payload
  BY <1>2, CarriesType
<1>4. k \in AllKinds
  BY KindsAssumption
<1>5. QED
  BY <1>1, <1>2, <1>3, <1>4 DEF TypeOK, Probes, db

LEMMA LockType ==
    ASSUME TypeOK, NEW p \in Request, TakesLock(p)
    PROVE  /\ status' = status /\ rows' = rows /\ score' = score
           /\ finalizedBy' = finalizedBy /\ lock' = p
           /\ kind' = kind /\ sent' = sent
           /\ reply' = reply /\ told' = told
           /\ pc' \in [Request -> Handled]
           /\ view' \in [Request -> Rows]
BY DEF TypeOK, TakesLock, Goto, Handled, Rows, db, client

LEMMA ReleasesType ==
    ASSUME TypeOK, NEW p \in Request, Releases(p)
    PROVE  lock' \in Request \cup {None}
BY DEF TypeOK, Releases

LEMMA CommitsRowsType ==
    ASSUME TypeOK, NEW p \in Request, NEW ks, NEW newRows \in Rows,
           CommitsRows(p, ks, newRows)
    PROVE  TypeOK'
<1>1. "saved" \in Answered
  BY DEF Answered
<1>2. Finish(p, "saved", None) /\ Releases(p)
  BY DEF CommitsRows
<1>3. /\ pc' \in [Request -> Handled]
      /\ reply' \in [Request -> Answered]
      /\ told' \in [Request -> [Question -> Nat] \cup {None}]
  BY <1>1, <1>2, FinishType
<1>4. lock' \in Request \cup {None}
  BY <1>2, ReleasesType
<1>5. QED
  BY <1>3, <1>4 DEF TypeOK, CommitsRows, locals, Rows, Handled, Answered

LEMMA CommitsFinalType ==
    ASSUME TypeOK, NEW p \in Request, NEW newRows \in Rows,
           NEW points \in [Question -> Nat], NEW answer \in Answered,
           CommitsFinal(p, newRows, points, answer)
    PROVE  TypeOK'
<1>1. Finish(p, answer, points) /\ Releases(p)
  BY DEF CommitsFinal
<1>2. /\ pc' \in [Request -> Handled]
      /\ reply' \in [Request -> Answered]
      /\ told' \in [Request -> [Question -> Nat] \cup {None}]
  BY <1>1, FinishType
<1>3. lock' \in Request \cup {None}
  BY <1>1, ReleasesType
<1>4. QED
  BY <1>2, <1>3 DEF TypeOK, CommitsFinal, locals, Rows, Handled, Answered

LEMMA ArrivesType ==
    ASSUME TypeOK, NEW p \in Request, Arrives(p)
    PROVE  TypeOK'
<1>1. CASE ProbeOpen(p)
  <2>1. pc' \in [Request -> Handled]
    BY <1>1, GotoType DEF ProbeOpen, Handled
  <2>2. QED
    BY <1>1, <2>1, ProbesType DEF TypeOK, ProbeOpen, client, Handled
<1>2. CASE ProbeClosed(p)
  <2>1. \E answer \in Answered : Finish(p, answer, None)
    BY <1>2 DEF ProbeClosed, Answered
  <2>2. QED
    BY <1>2, <2>1, ProbesType, FinishType DEF TypeOK, ProbeClosed, Handled, Answered
<1>3. CASE ProbeSubmitted(p)
  <2>1. score \in [Question -> Nat] \cup {None} /\ "already" \in Answered
    BY DEF TypeOK, Answered
  <2>2. QED
    BY <1>3, <2>1, ProbesType, FinishType DEF TypeOK, ProbeSubmitted, Handled, Answered
<1>4. CASE ForceLoad(p)
  <2>1. pc' \in [Request -> Handled]
    BY <1>4, GotoType DEF ForceLoad, Handled
  <2>2. QED
    BY <1>4, <2>1, ProbesType DEF TypeOK, ForceLoad, client, Handled, Answered
<1>5. CASE ScanExpired(p)
  <2>1. pc' \in [Request -> Handled]
    BY <1>5, GotoType DEF ScanExpired, Handled
  <2>2. QED
    BY <1>5, <2>1, ProbesType DEF TypeOK, ScanExpired, client, Handled
<1>6. QED
  BY <1>1, <1>2, <1>3, <1>4, <1>5 DEF Arrives

LEMMA LocksType ==
    ASSUME TypeOK, NEW p \in Request, Locks(p)
    PROVE  TypeOK'
<1>1. TakesLock(p)
  BY DEF Locks, LockAndRecheck, LockAndRecheckStale, ForceLock
<1>2. seen' \in [Request -> {"in_progress", "submitted"}]
  BY DEF TypeOK, Locks, LockAndRecheck, LockAndRecheckStale, ForceLock
<1>3. QED
  BY <1>1, <1>2, LockType DEF TypeOK, Handled, Rows

LEMMA ReadsType ==
    ASSUME TypeOK, NEW p \in Request, Reads(p)
    PROVE  TypeOK'
<1>1. CASE LoadExpired(p) /\ status = "in_progress"
  BY <1>1 DEF TypeOK, LoadExpired, Goto, db, client
<1>2. CASE LoadExpired(p) /\ status # "in_progress"
  <2>1. "tick" \in Answered
    BY DEF Answered
  <2>2. Finish(p, "tick", None)
    BY <1>2 DEF LoadExpired
  <2>3. QED
    BY <1>2, <2>1, <2>2, FinishType DEF TypeOK, LoadExpired, db, Handled, Answered
<1>3. CASE ReadAnswers(p)
  BY <1>3 DEF TypeOK, ReadAnswers, Goto, db, client
<1>4. QED
  BY <1>1, <1>2, <1>3 DEF Reads

LEMMA EndsType ==
    ASSUME TypeOK, NEW p \in Request, Ends(p)
    PROVE  TypeOK'
<1>1. rows \in Rows /\ view[p] \in Rows /\ sent[p] \in Payload
  BY DEF TypeOK, Rows
<1>2. /\ Upserted(sent[p]) \in Rows
      /\ Merged(sent[p]) \in Rows
      /\ Journaled(sent[p]) \in Rows
  BY <1>1, WritesType
<1>3. /\ Scored(view[p]) \in Rows
      /\ ScoredAll(view[p]) \in Rows
      /\ ScoredAll(Anew(view[p])) \in Rows
      /\ Breakdown(view[p]) \in [Question -> Nat]
      /\ Breakdown(Anew(view[p])) \in [Question -> Nat]
  BY <1>1, ScoredType, AnewType, BreakdownType
<1>4. "submitted" \in Answered /\ "tick" \in Answered
  BY DEF Answered
<1>5. CASE CommitSingle(p)
  BY <1>2, <1>5, CommitsRowsType DEF CommitSingle
<1>6. CASE CommitGoSingle(p)
  BY <1>2, <1>6, CommitsRowsType DEF CommitGoSingle
<1>7. CASE CommitBatch(p)
  BY <1>2, <1>7, CommitsRowsType DEF CommitBatch
<1>8. CASE CommitGoBatch(p)
  BY <1>2, <1>8, CommitsRowsType DEF CommitGoBatch
<1>9. CASE CommitJournal(p)
  BY <1>2, <1>9, CommitsRowsType DEF CommitJournal
<1>10. CASE CommitSubmit(p)
  BY <1>3, <1>4, <1>10, CommitsFinalType DEF CommitSubmit
<1>11. CASE CommitGoSubmit(p)
  BY <1>3, <1>4, <1>11, CommitsFinalType DEF CommitGoSubmit
<1>12. CASE CommitGoForce(p)
  BY <1>3, <1>4, <1>12, CommitsFinalType DEF CommitGoForce
<1>13. CASE CommitForce(p)
  BY <1>3, <1>4, <1>13, CommitsFinalType DEF CommitForce
<1>14. CASE CommitClose(p)
  BY <1>3, <1>4, <1>14, CommitsFinalType DEF CommitClose
<1>15. CASE RejectUnderLock(p)
  <2>1. \E answer \in Answered, points \in [Question -> Nat] \cup {None} :
          Finish(p, answer, points)
    BY <1>15 DEF RejectUnderLock, TypeOK, Answered
  <2>2. Releases(p)
    BY <1>15 DEF RejectUnderLock
  <2>3. lock' \in Request \cup {None}
    BY <2>2, ReleasesType
  <2>4. QED
    BY <1>15, <2>1, <2>3, FinishType DEF TypeOK, RejectUnderLock, db, locals, Handled, Answered
<1>16. CASE ForceRepeats(p)
  <2> DEFINE points == [q \in Question |->
                          IF view[p][q] = None \/ view[p][q].points = None THEN 0
                          ELSE view[p][q].points]
  <2>1. \A q \in Question : view[p][q] \in Row \cup {None}
    BY DEF TypeOK
  <2>2. points \in [Question -> Nat]
    BY <2>1 DEF Row
  <2>3. Finish(p, "already", points) /\ Releases(p) /\ UNCHANGED <<db, locals>>
    BY <1>16 DEF ForceRepeats
  <2> HIDE DEF points
  <2>4. lock' \in Request \cup {None}
    BY <2>3, ReleasesType
  <2>5. "already" \in Answered
    BY DEF Answered
  <2>6. QED
    BY <2>2, <2>3, <2>4, <2>5, FinishType DEF TypeOK, db, locals, Handled, Answered
<1>17. QED
  BY <1>5, <1>6, <1>7, <1>8, <1>9, <1>10, <1>11, <1>12, <1>13, <1>14, <1>15, <1>16 DEF Ends

LEMMA FailType ==
    ASSUME TypeOK, NEW p \in Request, Fail(p)
    PROVE  TypeOK'
<1>1. "busy" \in Answered
  BY DEF Answered
<1>2. Finish(p, "busy", None) /\ Releases(p)
  BY DEF Fail
<1>3. lock' \in Request \cup {None}
  BY <1>2, ReleasesType
<1>4. QED
  BY <1>1, <1>2, <1>3, FinishType DEF TypeOK, Fail, db, locals, Handled, Answered

LEMMA TypeInit == Init => TypeOK
BY DEF Init, TypeOK, Blank, Payload

LEMMA TypeStep == TypeOK /\ [Next]_vars => TypeOK'
<1> SUFFICES ASSUME TypeOK, [Next]_vars
             PROVE  TypeOK'
  OBVIOUS
<1>1. ASSUME NEW p \in Request, Arrives(p) PROVE TypeOK'
  BY <1>1, ArrivesType
<1>2. ASSUME NEW p \in Request, Locks(p) PROVE TypeOK'
  BY <1>2, LocksType
<1>3. ASSUME NEW p \in Request, Reads(p) PROVE TypeOK'
  BY <1>3, ReadsType
<1>4. ASSUME NEW p \in Request, Ends(p) PROVE TypeOK'
  BY <1>4, EndsType
<1>5. ASSUME NEW p \in Request, Fail(p) PROVE TypeOK'
  BY <1>5, FailType
<1>6. CASE UNCHANGED vars
  BY <1>6 DEF TypeOK, vars, db, locals, client
<1>7. QED
  BY <1>1, <1>2, <1>3, <1>4, <1>5, <1>6 DEF Next, Quiet

(* Whatever the kinds of request, every value the handlers store keeps its  *)
(* shape; in particular a score is a number for every question, though      *)
(* autosaves leave NULL grades behind.                                      *)
THEOREM TypeCorrect == Spec => []TypeOK
BY TypeInit, TypeStep, PTL DEF Spec

-----------------------------------------------------------------------------
(* What the locks give: who holds them, and what stays true under them.    *)

Step(p) == Arrives(p) \/ Locks(p) \/ Reads(p) \/ Ends(p) \/ Fail(p)

(* A request is where its handler can be, and the advisory lock is held by  *)
(* the one request that is between its lock and its commit.                 *)
Handlers ==
    \A p \in Request :
        /\ pc[p] # "idle" => kind[p] \in Kinds
        /\ pc[p] \in {"probed", "locked"} => kind[p] \notin {"force", "close"}
        /\ pc[p] \in {"scanned", "loaded", "read"} => kind[p] \in {"force", "close"}
        /\ lock = p <=> pc[p] = "locked"

(* The rows a request read under both locks are still the rows. *)
ReadsStand ==
    \A p \in Request : pc[p] = "locked" /\ kind[p] # "goForce" => view[p] = rows

(* The status that was checked under both locks is still the status. *)
CheckStands ==
    \A p \in Request :
        pc[p] = "locked" /\ kind[p] \in FreshWriters \cup LockedSubmits => seen[p] = status

LockInv == TypeOK /\ Handlers /\ ReadsStand /\ CheckStands

(* A request's step leaves what the other requests know alone. *)
LEMMA OthersKeep ==
    ASSUME TypeOK, NEW p \in Request, Step(p), NEW r \in Request, r # p
    PROVE  /\ pc'[r] = pc[r] /\ kind'[r] = kind[r]
           /\ seen'[r] = seen[r] /\ view'[r] = view[r]
           /\ reply'[r] = reply[r] /\ told'[r] = told[r]
<1>1. CASE Arrives(p)
  BY <1>1 DEF TypeOK, Arrives, ProbeOpen, ProbeClosed, ProbeSubmitted, ForceLoad,
              ScanExpired, Probes, Goto, Finish, client
<1>2. CASE Locks(p)
  BY <1>2 DEF TypeOK, Locks, LockAndRecheck, LockAndRecheckStale, ForceLock,
              TakesLock, Goto, client
<1>3. CASE Reads(p)
  BY <1>3 DEF TypeOK, Reads, LoadExpired, ReadAnswers, Goto, Finish, client
<1>4. CASE Ends(p) \/ Fail(p)
  <2>1. Finish(p, reply'[p], told'[p]) /\ UNCHANGED locals
    BY <1>4 DEF TypeOK, Ends, Fail, CommitSingle, CommitGoSingle, CommitBatch, CommitGoBatch,
                CommitJournal, CommitSubmit, CommitGoSubmit, CommitGoForce,
                CommitForce, CommitClose, RejectUnderLock, ForceRepeats, CommitsRows,
                CommitsFinal, Finish
  <2>2. QED
    BY <2>1 DEF TypeOK, Finish, Goto, locals
<1>5. QED
  BY <1>1, <1>2, <1>3, <1>4 DEF Step

(* Only the holder of the session's row, or one that needs no lock because *)
(* nobody holds it, changes the session or its answers.                    *)
LEMMA WritesNeedTheRow ==
    ASSUME TypeOK, NEW p \in Request, Step(p)
    PROVE  \/ rows' = rows /\ status' = status
           \/ pc[p] = "locked"
           \/ ~RowLocked
<1>1. CASE Arrives(p) \/ Locks(p) \/ Reads(p)
  BY <1>1 DEF Arrives, ProbeOpen, ProbeClosed, ProbeSubmitted, ForceLoad, ScanExpired, Probes,
              Locks, LockAndRecheck, LockAndRecheckStale, ForceLock, TakesLock,
              Reads, LoadExpired, ReadAnswers, db
<1>2. CASE Ends(p)
  BY <1>2 DEF Ends, CommitSingle, CommitGoSingle, CommitBatch, CommitGoBatch,
              CommitJournal, CommitSubmit, CommitGoSubmit, CommitGoForce,
              CommitForce, CommitClose, RejectUnderLock, ForceRepeats, CommitsRows, db
<1>3. CASE Fail(p)
  BY <1>3 DEF Fail, db
<1>4. QED
  BY <1>1, <1>2, <1>3 DEF Step

(* What a step does to the place of its own request and to the lock. *)
LEMMA ArrivesHandlers ==
    ASSUME TypeOK, Handlers, NEW p \in Request, Arrives(p)
    PROVE  /\ lock' = lock /\ pc[p] = "idle"
           /\ kind'[p] \in Kinds
           /\ pc'[p] \in {"probed", "scanned", "loaded", "done"}
           /\ pc'[p] = "probed" => kind'[p] \notin {"force", "close"}
           /\ pc'[p] \in {"scanned", "loaded"} => kind'[p] \in {"force", "close"}
<1>1. ASSUME NEW ks, Probes(p, ks)
      PROVE  lock' = lock /\ pc[p] = "idle" /\ kind'[p] \in Kinds \cap ks
  BY <1>1 DEF TypeOK, Probes
<1>2. CASE ProbeOpen(p)
  <2>1. Probes(p, AnswerKinds \cup LockedSubmits \cup {"goForce"}) /\ Goto(p, "probed")
    BY <1>2 DEF ProbeOpen
  <2>2. kind'[p] \in Kinds \cap (AnswerKinds \cup LockedSubmits \cup {"goForce"})
    BY <1>1, <2>1
  <2>3. pc'[p] = "probed"
    BY <2>1 DEF TypeOK, Goto
  <2>4. QED
    BY <1>1, <2>1, <2>2, <2>3 DEF AnswerKinds, FreshWriters, StaleWriters, LockedSubmits
<1>3. CASE ProbeClosed(p) \/ ProbeSubmitted(p)
  BY <1>1, <1>3 DEF TypeOK, ProbeClosed, ProbeSubmitted, Finish, Goto
<1>4. CASE ForceLoad(p)
  BY <1>1, <1>4 DEF TypeOK, ForceLoad, Goto
<1>5. CASE ScanExpired(p)
  BY <1>1, <1>5 DEF TypeOK, ScanExpired, Goto
<1>6. QED
  BY <1>2, <1>3, <1>4, <1>5 DEF Arrives

LEMMA LocksHandlers ==
    ASSUME TypeOK, Handlers, NEW p \in Request, Locks(p)
    PROVE  /\ lock = None /\ lock' = p
           /\ pc[p] = "probed" /\ pc'[p] = "locked"
           /\ kind' = kind /\ view'[p] = rows
           /\ rows' = rows /\ status' = status
           /\ kind[p] \in FreshWriters \cup LockedSubmits => seen'[p] = status
BY DEF TypeOK, Locks, LockAndRecheck, LockAndRecheckStale, ForceLock, TakesLock, Goto, db,
       FreshWriters, StaleWriters, LockedSubmits

LEMMA ReadsHandlers ==
    ASSUME TypeOK, Handlers, NEW p \in Request, Reads(p)
    PROVE  /\ lock' = lock /\ kind' = kind
           /\ pc[p] \in {"scanned", "loaded"} /\ pc'[p] \in {"loaded", "read", "done"}
BY DEF TypeOK, Reads, LoadExpired, ReadAnswers, Goto, Finish

LEMMA EndsHandlers ==
    ASSUME TypeOK, Handlers, NEW p \in Request, Ends(p) \/ Fail(p)
    PROVE  /\ pc[p] # "idle" /\ pc'[p] = "done" /\ kind' = kind
           /\ lock' = IF lock = p THEN None ELSE lock
<1>1. /\ \E answer, points : Finish(p, answer, points)
      /\ pc[p] # "idle" /\ Releases(p) /\ UNCHANGED locals
  BY DEF TypeOK, Ends, Fail, CommitSingle, CommitGoSingle, CommitBatch, CommitGoBatch,
         CommitJournal, CommitSubmit, CommitGoSubmit, CommitGoForce,
         CommitForce, CommitClose, RejectUnderLock, ForceRepeats, CommitsRows, CommitsFinal
<1>2. QED
  BY <1>1 DEF TypeOK, Finish, Goto, Releases, locals

LEMMA HandlersStep ==
    ASSUME TypeOK, Handlers, NEW p \in Request, Step(p)
    PROVE  Handlers'
<1> SUFFICES ASSUME NEW r \in Request
             PROVE  /\ pc'[r] # "idle" => kind'[r] \in Kinds
                    /\ pc'[r] \in {"probed", "locked"} => kind'[r] \notin {"force", "close"}
                    /\ pc'[r] \in {"scanned", "loaded", "read"} => kind'[r] \in {"force", "close"}
                    /\ lock' = r <=> pc'[r] = "locked"
  BY DEF Handlers
<1>1. None \notin Request
  BY NoneAssumption
<1>2. CASE Arrives(p)
  <2>1. CASE r = p
    BY <1>1, <1>2, <2>1, ArrivesHandlers DEF Handlers
  <2>2. CASE r # p
    BY <1>2, <2>2, ArrivesHandlers, OthersKeep DEF Handlers
  <2>3. QED
    BY <2>1, <2>2
<1>3. CASE Locks(p)
  <2>1. CASE r = p
    BY <1>3, <2>1, LocksHandlers DEF Handlers
  <2>2. CASE r # p
    BY <1>1, <1>3, <2>2, LocksHandlers, OthersKeep DEF Handlers
  <2>3. QED
    BY <2>1, <2>2
<1>4. CASE Reads(p)
  <2>1. CASE r = p
    BY <1>1, <1>4, <2>1, ReadsHandlers DEF Handlers
  <2>2. CASE r # p
    BY <1>4, <2>2, ReadsHandlers, OthersKeep DEF Handlers
  <2>3. QED
    BY <2>1, <2>2
<1>5. CASE Ends(p) \/ Fail(p)
  <2>1. CASE r = p
    BY <1>1, <1>5, <2>1, EndsHandlers DEF Handlers
  <2>2. CASE r # p
    BY <1>1, <1>5, <2>2, EndsHandlers, OthersKeep DEF Handlers
  <2>3. QED
    BY <2>1, <2>2
<1>6. QED
  BY <1>2, <1>3, <1>4, <1>5 DEF Step

(* While a request other than a Go force submit holds its locks, the rows   *)
(* and the status it read under them do not move.                           *)
LEMMA LocksProtect ==
    ASSUME LockInv, NEW p \in Request, Step(p)
    PROVE  ReadsStand' /\ CheckStands'
<1> SUFFICES ASSUME NEW r \in Request, pc'[r] = "locked"
             PROVE  /\ kind'[r] # "goForce" => view'[r] = rows'
                    /\ kind'[r] \in FreshWriters \cup LockedSubmits => seen'[r] = status'
  BY DEF ReadsStand, CheckStands
<1>1. TypeOK /\ Handlers
  BY DEF LockInv
<1>2. CASE r = p
  <2>1. Locks(p)
    BY <1>1, <1>2, ArrivesHandlers, ReadsHandlers, EndsHandlers DEF Step
  <2>2. QED
    BY <1>1, <1>2, <2>1, LocksHandlers
<1>3. CASE r # p
  <2>1. /\ pc[r] = "locked" /\ kind'[r] = kind[r]
        /\ seen'[r] = seen[r] /\ view'[r] = view[r]
    BY <1>1, <1>3, OthersKeep
  <2>2. lock = r /\ r # None
    BY <1>1, <2>1, NoneAssumption DEF Handlers
  <2>3. CASE kind[r] = "goForce"
    BY <2>1, <2>3 DEF FreshWriters, LockedSubmits
  <2>4. CASE kind[r] # "goForce"
    <3>1. RowLocked
      BY <2>2, <2>4 DEF RowLocked
    <3>2. pc[p] # "locked"
      BY <1>1, <1>3, <2>2 DEF Handlers
    <3>3. rows' = rows /\ status' = status
      BY <1>1, <3>1, <3>2, WritesNeedTheRow
    <3>4. QED
      BY <2>1, <2>4, <3>3 DEF LockInv, ReadsStand, CheckStands
  <2>5. QED
    BY <2>3, <2>4
<1>4. QED
  BY <1>2, <1>3

LEMMA LockInvInit == Init => LockInv
<1>1. ASSUME Init PROVE Handlers /\ ReadsStand /\ CheckStands
  BY <1>1, NoneAssumption DEF Init, Handlers, ReadsStand, CheckStands
<1>2. QED
  BY <1>1, TypeInit DEF LockInv

LEMMA LockInvStep == LockInv /\ [Next]_vars => LockInv'
<1> SUFFICES ASSUME LockInv, [Next]_vars
             PROVE  LockInv'
  OBVIOUS
<1>1. TypeOK'
  BY TypeStep DEF LockInv
<1>2. ASSUME NEW p \in Request, Step(p)
      PROVE  Handlers' /\ ReadsStand' /\ CheckStands'
  BY <1>2, HandlersStep, LocksProtect DEF LockInv
<1>3. CASE UNCHANGED vars
  BY <1>1, <1>3 DEF LockInv, Handlers, ReadsStand, CheckStands, vars, db, locals, client
<1>4. QED
  BY <1>1, <1>2, <1>3 DEF LockInv, Next, Quiet, Step

(* The advisory lock and the row lock do what the handlers rely on. *)
THEOREM LocksHold == Spec => []LockInv
BY LockInvInit, LockInvStep, PTL DEF Spec

-----------------------------------------------------------------------------
(* Without the writers that trust a stale status, a handed-in sheet stays   *)
(* as it is, whoever handed it in.                                          *)

(* An answer write that commits found the session open under its lock. *)
LEMMA WritersSeeTheStatus ==
    ASSUME Kinds \cap StaleWriters = {}, LockInv,
           NEW p \in Request, NEW ks \in SUBSET AnswerKinds, NEW newRows,
           CommitsRows(p, ks, newRows)
    PROVE  status = "in_progress"
<1>1. pc[p] = "locked" /\ kind[p] \in AnswerKinds /\ seen[p] = "in_progress"
  BY DEF CommitsRows
<1>2. kind[p] \in FreshWriters
  BY <1>1 DEF LockInv, Handlers, AnswerKinds
<1>3. QED
  BY <1>1, <1>2 DEF LockInv, CheckStands

(* A step either leaves every answer as it is, or is an answer write. *)
LEMMA AnswersMove ==
    ASSUME TypeOK, NEW p \in Request, Step(p)
    PROVE  \/ \A q \in Question : ValueOf(rows'[q]) = ValueOf(rows[q])
           \/ \E ks \in SUBSET AnswerKinds : \E newRows : CommitsRows(p, ks, newRows)
<1>1. rows \in Rows /\ view[p] \in Rows /\ Anew(view[p]) \in Rows
  BY AnewType DEF TypeOK, Rows
<1>2. ASSUME NEW v \in Rows, rows' \in {Scored(v), ScoredAll(v)}
      PROVE  \A q \in Question : ValueOf(rows'[q]) = ValueOf(rows[q])
  BY <1>1, <1>2, ScoredKeepsValues
<1>3. CASE Arrives(p) \/ Locks(p) \/ Reads(p) \/ Fail(p) \/ RejectUnderLock(p) \/ ForceRepeats(p)
  BY <1>3 DEF Arrives, ProbeOpen, ProbeClosed, ProbeSubmitted, ForceLoad, ScanExpired, Probes,
              Locks, LockAndRecheck, LockAndRecheckStale, ForceLock, TakesLock,
              Reads, LoadExpired, ReadAnswers, Fail, RejectUnderLock, ForceRepeats, db
<1>4. CASE CommitSingle(p) \/ CommitGoSingle(p) \/ CommitBatch(p) \/ CommitGoBatch(p) \/ CommitJournal(p)
  <2>1. /\ {"single"} \in SUBSET AnswerKinds /\ {"goSingle"} \in SUBSET AnswerKinds
        /\ {"batch"} \in SUBSET AnswerKinds /\ {"goBatch"} \in SUBSET AnswerKinds
        /\ {"journal"} \in SUBSET AnswerKinds
    BY DEF AnswerKinds, FreshWriters, StaleWriters
  <2>2. QED
    BY <1>4, <2>1 DEF CommitSingle, CommitGoSingle, CommitBatch, CommitGoBatch, CommitJournal
<1>5. CASE CommitSubmit(p) \/ CommitForce(p) \/ CommitClose(p)
  BY <1>1, <1>2, <1>5 DEF CommitSubmit, CommitForce, CommitClose, CommitsFinal
<1>6. CASE CommitGoSubmit(p) \/ CommitGoForce(p)
  BY <1>1, <1>2, <1>6 DEF CommitGoSubmit, CommitGoForce, CommitsFinal
<1>7. QED
  BY <1>3, <1>4, <1>5, <1>6 DEF Step, Ends

(* An answer that arrived in time but lost the race to a submit, a force    *)
(* submit or the scheduler changes nothing in the graded sheet.             *)
THEOREM HandedInFrozen ==
    ASSUME Kinds \cap StaleWriters = {}
    PROVE  Spec => AnswersFrozen
<1>1. LockInv /\ [Next]_vars =>
        [status = "submitted" =>
           \A q \in Question : ValueOf(rows'[q]) = ValueOf(rows[q])]_vars
  <2> SUFFICES ASSUME LockInv, Next, status = "submitted"
               PROVE  \A q \in Question : ValueOf(rows'[q]) = ValueOf(rows[q])
    OBVIOUS
  <2>1. ASSUME NEW p \in Request, Step(p)
        PROVE  \A q \in Question : ValueOf(rows'[q]) = ValueOf(rows[q])
    BY <2>1, AnswersMove, WritersSeeTheStatus DEF LockInv
  <2>2. CASE Quiet
    BY <2>2 DEF Quiet, vars, db
  <2>3. QED
    BY <2>1, <2>2 DEF Next, Step
<1>2. QED
  BY <1>1, LocksHold, PTL DEF Spec, AnswersFrozen

(* A request becomes "saved" only by committing its rows. *)
LEMMA SavedByCommit ==
    ASSUME TypeOK, NEW p \in Request, Step(p), reply[p] # "saved", reply'[p] = "saved"
    PROVE  \E ks \in SUBSET AnswerKinds : \E newRows : CommitsRows(p, ks, newRows)
<1>1. ASSUME NEW answer, NEW points, Finish(p, answer, points)
      PROVE  reply'[p] = answer
  BY <1>1 DEF TypeOK, Finish
<1>2. CASE Arrives(p) \/ Locks(p) \/ Reads(p) \/ Fail(p) \/ RejectUnderLock(p) \/ ForceRepeats(p)
  BY <1>1, <1>2 DEF Arrives, ProbeOpen, ProbeClosed, ProbeSubmitted, ForceLoad, ScanExpired,
              Locks, LockAndRecheck, LockAndRecheckStale, ForceLock, TakesLock,
              Reads, LoadExpired, ReadAnswers, Fail, RejectUnderLock, ForceRepeats, client
<1>3. CASE CommitSingle(p) \/ CommitGoSingle(p) \/ CommitBatch(p) \/ CommitGoBatch(p) \/ CommitJournal(p)
  <2>1. /\ {"single"} \in SUBSET AnswerKinds /\ {"goSingle"} \in SUBSET AnswerKinds
        /\ {"batch"} \in SUBSET AnswerKinds /\ {"goBatch"} \in SUBSET AnswerKinds
        /\ {"journal"} \in SUBSET AnswerKinds
    BY DEF AnswerKinds, FreshWriters, StaleWriters
  <2>2. QED
    BY <1>3, <2>1 DEF CommitSingle, CommitGoSingle, CommitBatch, CommitGoBatch, CommitJournal
<1>4. CASE CommitSubmit(p) \/ CommitForce(p) \/ CommitClose(p) \/ CommitGoSubmit(p) \/ CommitGoForce(p)
  BY <1>1, <1>4 DEF CommitSubmit, CommitForce, CommitClose, CommitGoSubmit, CommitGoForce, CommitsFinal
<1>5. QED
  BY <1>2, <1>3, <1>4 DEF Step, Ends

(* No answer is acknowledged as saved into a session already handed in. *)
THEOREM SavedInTime ==
    ASSUME Kinds \cap StaleWriters = {}
    PROVE  Spec => SavedWhileOpen
<1>1. LockInv /\ [Next]_vars =>
        [\A p \in Request :
           reply[p] # "saved" /\ reply'[p] = "saved" => status = "in_progress"]_vars
  <2> SUFFICES ASSUME LockInv, Next, NEW p \in Request,
                      reply[p] # "saved", reply'[p] = "saved"
               PROVE  status = "in_progress"
    OBVIOUS
  <2>1. ASSUME NEW r \in Request, Step(r)
        PROVE  status = "in_progress"
    <3>1. r = p
      BY <2>1, OthersKeep DEF LockInv
    <3>2. QED
      BY <2>1, <3>1, SavedByCommit, WritersSeeTheStatus DEF LockInv
  <2>2. CASE Quiet
    BY <2>2 DEF Quiet, vars, client
  <2>3. QED
    BY <2>1, <2>2 DEF Next, Step
<1>2. QED
  BY <1>1, LocksHold, PTL DEF Spec, SavedWhileOpen

-----------------------------------------------------------------------------
(* Without the finalisers that take no lock, the rows change under the      *)
(* advisory lock only, and every commit writes what it has just read.       *)

UnlockedFinalizers == {"force", "close"}

(* Whoever changes the session or its answers holds the advisory lock. *)
LEMMA WritesNeedTheLock ==
    ASSUME Kinds \cap UnlockedFinalizers = {}, Handlers, NEW p \in Request, Step(p)
    PROVE  (rows' = rows /\ status' = status) \/ pc[p] = "locked"
<1>1. CASE Arrives(p) \/ Locks(p) \/ Reads(p)
  BY <1>1 DEF Arrives, ProbeOpen, ProbeClosed, ProbeSubmitted, ForceLoad, ScanExpired, Probes,
              Locks, LockAndRecheck, LockAndRecheckStale, ForceLock, TakesLock,
              Reads, LoadExpired, ReadAnswers, db
<1>2. CASE CommitForce(p) \/ CommitClose(p)
  <2>1. kind[p] \in UnlockedFinalizers /\ pc[p] # "idle"
    BY <1>2 DEF CommitForce, CommitClose, UnlockedFinalizers
  <2>2. QED
    BY <2>1 DEF Handlers
<1>3. CASE Ends(p) /\ ~CommitForce(p) /\ ~CommitClose(p)
  BY <1>3 DEF Ends, CommitSingle, CommitGoSingle, CommitBatch, CommitGoBatch,
              CommitJournal, CommitSubmit, CommitGoSubmit, CommitGoForce,
              RejectUnderLock, ForceRepeats, CommitsRows, db
<1>4. CASE Fail(p)
  BY <1>4 DEF Fail, db
<1>5. QED
  BY <1>1, <1>2, <1>3, <1>4 DEF Step

(* Then the rows that the Go force submit read stand as well, although it   *)
(* never selects the session's row.                                         *)
AllReadsStand == \A p \in Request : pc[p] = "locked" => view[p] = rows

LEMMA AllReadsStep ==
    ASSUME Kinds \cap UnlockedFinalizers = {}, LockInv, AllReadsStand,
           NEW p \in Request, Step(p)
    PROVE  AllReadsStand'
<1> SUFFICES ASSUME NEW r \in Request, pc'[r] = "locked"
             PROVE  view'[r] = rows'
  BY DEF AllReadsStand
<1>1. TypeOK /\ Handlers
  BY DEF LockInv
<1>2. CASE r = p
  <2>1. Locks(p)
    BY <1>1, <1>2, ArrivesHandlers, ReadsHandlers, EndsHandlers DEF Step
  <2>2. QED
    BY <1>1, <1>2, <2>1, LocksHandlers
<1>3. CASE r # p
  <2>1. pc[r] = "locked" /\ view'[r] = view[r]
    BY <1>1, <1>3, OthersKeep
  <2>2. pc[p] # "locked"
    BY <1>1, <1>3, <2>1 DEF Handlers
  <2>3. rows' = rows
    BY <1>1, <2>2, WritesNeedTheLock
  <2>4. QED
    BY <2>1, <2>3 DEF AllReadsStand
<1>4. QED
  BY <1>2, <1>3

LEMMA AllReadsHold ==
    ASSUME Kinds \cap UnlockedFinalizers = {}
    PROVE  Spec => []AllReadsStand
<1>1. Init => AllReadsStand
  BY DEF Init, AllReadsStand
<1>2. LockInv /\ AllReadsStand /\ [Next]_vars => AllReadsStand'
  <2> SUFFICES ASSUME LockInv, AllReadsStand, [Next]_vars
               PROVE  AllReadsStand'
    OBVIOUS
  <2>1. CASE UNCHANGED vars
    BY <2>1 DEF AllReadsStand, vars, db, locals
  <2>2. QED
    BY <2>1, AllReadsStep DEF Next, Quiet, Step
<1>3. QED
  BY <1>1, <1>2, LocksHold, PTL DEF Spec

Saves(p) ==
    /\ pc[p] = "locked" /\ kind[p] \in AnswerKinds /\ seen[p] = "in_progress"
    /\ \E a \in Payload : rows' \in {Upserted(a), Merged(a), Journaled(a)}
    /\ UNCHANGED <<status, score, finalizedBy>>
    /\ told'[p] = None

HandsIn(p) ==
    /\ status = "in_progress"
    /\ status' = "submitted"
    /\ rows' \in {Scored(rows), ScoredAll(rows)}
    /\ score' = Breakdown(rows)
    /\ finalizedBy' = finalizedBy \cup {p}
    /\ told'[p] = Breakdown(rows)

(* The Go force submit grades and stores what it read, open session or not. *)
ForcesIn(p) ==
    /\ pc[p] = "locked"
    /\ status' = "submitted"
    /\ rows' = ScoredAll(Anew(view[p]))
    /\ score' = Breakdown(Anew(view[p]))
    /\ told'[p] = Breakdown(Anew(view[p]))

Looks(p) ==
    /\ UNCHANGED db
    /\ \/ told'[p] \in {None, told[p]}
       \/ status = "submitted" /\ told'[p] = score

(* Under the locks a request saves answers, hands in the rows it sees, or   *)
(* leaves the session alone and reports what it holds; or it is forced in.  *)
LEMMA FourOutcomes ==
    ASSUME Kinds \cap UnlockedFinalizers = {}, LockInv, NEW p \in Request, Step(p)
    PROVE  Saves(p) \/ HandsIn(p) \/ Looks(p) \/ (ForcesIn(p) /\ kind[p] = "goForce")
<1>1. TypeOK /\ Handlers /\ ReadsStand /\ CheckStands
  BY DEF LockInv
<1>2. ASSUME NEW answer, NEW points, Finish(p, answer, points)
      PROVE  told'[p] = points
  BY <1>1, <1>2 DEF TypeOK, Finish
<1>3. CASE Arrives(p)
  <2>1. ASSUME NEW ks, Probes(p, ks) PROVE UNCHANGED db
    BY <2>1 DEF Probes
  <2>2. CASE ProbeOpen(p) \/ ScanExpired(p)
    BY <2>1, <2>2 DEF ProbeOpen, ScanExpired, Looks, client
  <2>3. CASE ProbeClosed(p)
    BY <1>2, <2>1, <2>3 DEF ProbeClosed, Looks
  <2>4. CASE ProbeSubmitted(p)
    BY <1>1, <1>2, <2>1, <2>4 DEF ProbeSubmitted, Looks, TypeOK
  <2>5. CASE ForceLoad(p)
    BY <2>1, <2>5 DEF ForceLoad, Looks, client
  <2>6. QED
    BY <1>3, <2>2, <2>3, <2>4, <2>5 DEF Arrives
<1>4. CASE Locks(p)
  BY <1>4 DEF Locks, LockAndRecheck, LockAndRecheckStale, ForceLock, TakesLock, Looks, client
<1>5. CASE Reads(p)
  BY <1>2, <1>5 DEF Reads, LoadExpired, ReadAnswers, Looks, client
<1>6. CASE Fail(p)
  BY <1>2, <1>6 DEF Fail, Looks
<1>7. CASE RejectUnderLock(p)
  <2>1. kind[p] \in LockedSubmits => status = "submitted"
    BY <1>1, <1>7 DEF RejectUnderLock, CheckStands, TypeOK
  <2>2. QED
    BY <1>2, <1>7, <2>1 DEF RejectUnderLock, Looks
<1>8. CASE CommitSingle(p) \/ CommitGoSingle(p) \/ CommitBatch(p) \/ CommitGoBatch(p) \/ CommitJournal(p)
  <2>1. sent[p] \in Payload
    BY <1>1 DEF TypeOK
  <2>2. ASSUME NEW ks \in SUBSET AnswerKinds, NEW newRows, CommitsRows(p, ks, newRows),
               newRows \in {Upserted(sent[p]), Merged(sent[p]), Journaled(sent[p])}
        PROVE  Saves(p)
    BY <1>2, <2>1, <2>2 DEF CommitsRows, Saves
  <2>3. /\ {"single"} \in SUBSET AnswerKinds /\ {"goSingle"} \in SUBSET AnswerKinds
        /\ {"batch"} \in SUBSET AnswerKinds /\ {"goBatch"} \in SUBSET AnswerKinds
        /\ {"journal"} \in SUBSET AnswerKinds
    BY DEF AnswerKinds, FreshWriters, StaleWriters
  <2>4. QED
    BY <1>8, <2>2, <2>3 DEF CommitSingle, CommitGoSingle, CommitBatch, CommitGoBatch, CommitJournal
<1>9. CASE CommitSubmit(p) \/ CommitGoSubmit(p)
  <2>1. pc[p] = "locked" /\ kind[p] \in LockedSubmits /\ seen[p] = "in_progress"
    BY <1>9 DEF CommitSubmit, CommitGoSubmit, LockedSubmits
  <2>2. view[p] = rows /\ status = "in_progress"
    BY <1>1, <2>1 DEF ReadsStand, CheckStands, LockedSubmits
  <2>3. CommitsFinal(p, rows', Breakdown(rows), "submitted") /\ rows' \in {Scored(rows), ScoredAll(rows)}
    BY <1>9, <2>2 DEF CommitSubmit, CommitGoSubmit, CommitsFinal
  <2>4. QED
    BY <1>2, <2>2, <2>3 DEF CommitsFinal, HandsIn
<1>10. CASE CommitForce(p) \/ CommitClose(p) \/ ForceRepeats(p)
  <2>1. kind[p] \in UnlockedFinalizers /\ pc[p] # "idle"
    BY <1>10 DEF CommitForce, CommitClose, ForceRepeats, UnlockedFinalizers
  <2>2. kind[p] \in Kinds
    BY <1>1, <2>1 DEF Handlers
  <2>3. QED
    BY <2>1, <2>2
<1>11. CASE CommitGoForce(p)
  BY <1>2, <1>11 DEF CommitGoForce, CommitsFinal, ForcesIn
<1>12. QED
  BY <1>3, <1>4, <1>5, <1>6, <1>7, <1>8, <1>9, <1>10, <1>11 DEF Step, Ends

LEMMA ThreeOutcomes ==
    ASSUME Kinds \cap LooseFinalizers = {}, LockInv, NEW p \in Request, Step(p)
    PROVE  Saves(p) \/ HandsIn(p) \/ Looks(p)
<1>1. Kinds \cap UnlockedFinalizers = {}
  BY DEF LooseFinalizers, UnlockedFinalizers
<1>2. pc[p] = "locked" => kind[p] # "goForce"
  BY DEF LockInv, Handlers, LooseFinalizers
<1>3. QED
  BY <1>1, <1>2, FourOutcomes DEF ForcesIn

(* The grades that a submit trusts are those of the answers beside them. *)
LEMMA WritesGrade ==
    ASSUME rows \in Rows, GradesBelongToAnswers, NEW a \in Payload, NEW q \in Question,
           NEW new \in {Upserted(a), Merged(a), Journaled(a)}, new[q] # None
    PROVE  new[q].points \in {None, Grade[q][new[q].value]}
BY DEF GradesBelongToAnswers, Upserted, Merged, Journaled

(* Handing in grades every stored answer, and the score is their sum. *)
LEMMA HandsInGrades ==
    ASSUME rows \in Rows, GradesBelongToAnswers,
           NEW new \in {Scored(rows), ScoredAll(rows)}, NEW q \in Question
    PROVE  IF new[q] = None THEN Breakdown(rows)[q] = 0
           ELSE /\ new[q].points = Grade[q][new[q].value]
                /\ Breakdown(rows)[q] = new[q].points
<1>1. CASE rows[q] = None
  BY <1>1 DEF Scored, ScoredAll, Breakdown
<1>2. CASE rows[q] # None
  <2>1. rows[q] \in Row
    BY <1>2 DEF Rows
  <2> DEFINE points == PointsOf(q, rows[q])
             graded == [rows[q] EXCEPT !.points = points]
  <2>2. points = Grade[q][rows[q].value] /\ points \in Nat
    BY <1>2, <2>1, PointsType DEF PointsOf, GradesBelongToAnswers
  <2>3. Breakdown(rows)[q] = points
    BY <1>2 DEF Breakdown
  <2>4. graded \in Row /\ graded.value = rows[q].value /\ graded.points = points
    <3> HIDE DEF points
    <3>1. QED
      BY <2>1, <2>2 DEF Row
  <2>5. new[q] = graded \/ (new[q] = rows[q] /\ rows[q].points # None)
    BY <1>2 DEF Scored, ScoredAll
  <2>6. rows[q].points # None => rows[q].points = points
    BY DEF PointsOf
  <2> HIDE DEF graded, points
  <2>7. new[q] # None
    BY <1>2, <2>4, <2>5, NoneAssumption
  <2>8. QED
    BY <2>2, <2>3, <2>4, <2>5, <2>6, <2>7
<1>3. QED
  BY <1>1, <1>2

(* Grades that are those of their answers come out the same when every      *)
(* answer is graded anew.                                                   *)
LEMMA AnewAgrees ==
    ASSUME rows \in Rows, GradesBelongToAnswers
    PROVE  /\ Breakdown(Anew(rows)) = Breakdown(rows)
           /\ ScoredAll(Anew(rows)) = ScoredAll(rows)
<1>1. ASSUME NEW q \in Question, rows[q] # None
      PROVE  Anew(rows)[q] # None /\ PointsOf(q, Anew(rows)[q]) = PointsOf(q, rows[q])
  <2> DEFINE bare == [value |-> rows[q].value, points |-> None]
  <2>1. Anew(rows)[q] = bare
    BY <1>1 DEF Anew
  <2>2. bare \in Row
    BY <1>1 DEF Rows, Row
  <2>3. bare.points = None /\ bare.value = rows[q].value
    OBVIOUS
  <2>4. rows[q].points \in {None, Grade[q][rows[q].value]}
    BY <1>1 DEF GradesBelongToAnswers
  <2> HIDE DEF bare
  <2>5. bare # None
    BY <2>2, NoneAssumption
  <2>6. QED
    BY <2>1, <2>3, <2>4, <2>5 DEF PointsOf
<1>2. ASSUME NEW q \in Question, rows[q] = None
      PROVE  Anew(rows)[q] = None
  BY <1>2 DEF Anew
<1>3. QED
  BY <1>1, <1>2 DEF Breakdown, ScoredAll

(* So what the Go force submit commits is what a submit would commit. *)
LEMMA ForcesLikeASubmit ==
    ASSUME LockInv, AllReadsStand, GradesBelongToAnswers, NEW p \in Request, ForcesIn(p)
    PROVE  /\ rows' = ScoredAll(rows)
           /\ score' = Breakdown(rows)
           /\ told'[p] = Breakdown(rows)
<1>1. view[p] = rows /\ rows \in Rows
  BY DEF ForcesIn, AllReadsStand, LockInv, TypeOK, Rows
<1>2. QED
  BY <1>1, AnewAgrees DEF ForcesIn

LEMMA GradesStep ==
    ASSUME Kinds \cap UnlockedFinalizers = {}, LockInv, AllReadsStand,
           GradesBelongToAnswers, NEW p \in Request, Step(p)
    PROVE  GradesBelongToAnswers'
<1>1. rows \in Rows
  BY DEF LockInv, TypeOK, Rows
<1>2. CASE Saves(p)
  BY <1>1, <1>2, WritesGrade DEF Saves, GradesBelongToAnswers
<1>3. CASE HandsIn(p)
  BY <1>1, <1>3, HandsInGrades DEF HandsIn, GradesBelongToAnswers
<1>4. CASE ForcesIn(p)
  BY <1>1, <1>4, ForcesLikeASubmit, HandsInGrades DEF GradesBelongToAnswers
<1>5. CASE Looks(p)
  BY <1>5 DEF Looks, GradesBelongToAnswers, db
<1>6. QED
  BY <1>2, <1>3, <1>4, <1>5, FourOutcomes

(* Every stored grade is that of the answer stored with it, so a submit may *)
(* reuse it; this holds with the stale autosaves and the Go force submit,   *)
(* and needs only that whoever grades holds the lock.                       *)
THEOREM GradesBelong ==
    ASSUME Kinds \cap UnlockedFinalizers = {}
    PROVE  Spec => []GradesBelongToAnswers
<1>1. Init => GradesBelongToAnswers
  BY DEF Init, GradesBelongToAnswers, Blank
<1>2. LockInv /\ AllReadsStand /\ GradesBelongToAnswers /\ [Next]_vars => GradesBelongToAnswers'
  <2> SUFFICES ASSUME LockInv, AllReadsStand, GradesBelongToAnswers, [Next]_vars
               PROVE  GradesBelongToAnswers'
    OBVIOUS
  <2>1. CASE UNCHANGED vars
    BY <2>1 DEF GradesBelongToAnswers, vars, db
  <2>2. QED
    BY <2>1, GradesStep DEF Next, Quiet, Step
<1>3. QED
  BY <1>1, <1>2, LocksHold, AllReadsHold, PTL DEF Spec

-----------------------------------------------------------------------------
(* Without the finalisers that skip the check under the lock, a session is  *)
(* handed in once.                                                          *)

(* An open session was finalised by nobody, and nobody was told a score     *)
(* that it does not have.                                                   *)
OnceInv ==
    /\ FinalizedOnce
    /\ status = "in_progress" => finalizedBy = {}
    /\ \A p \in Request : told[p] # None => status = "submitted" /\ told[p] = score

LEMMA OnceInit == Init => OnceInv
BY DEF Init, OnceInv, FinalizedOnce

LEMMA OnceStep ==
    ASSUME Kinds \cap LooseFinalizers = {}, LockInv, OnceInv, NEW p \in Request, Step(p)
    PROVE  OnceInv'
<1>1. \A r \in Request : r # p => told'[r] = told[r]
  BY OthersKeep DEF LockInv
<1>2. CASE Saves(p)
  BY <1>1, <1>2 DEF Saves, OnceInv, FinalizedOnce
<1>3. CASE HandsIn(p)
  <2>1. finalizedBy' = {p} /\ status' = "submitted"
    BY <1>3 DEF HandsIn, OnceInv
  <2>2. \A r \in Request : r # p => told'[r] = None
    BY <1>1, <1>3 DEF HandsIn, OnceInv
  <2>3. QED
    BY <1>3, <2>1, <2>2 DEF HandsIn, OnceInv, FinalizedOnce
<1>4. CASE Looks(p)
  BY <1>1, <1>4 DEF Looks, OnceInv, FinalizedOnce, db
<1>5. QED
  BY <1>2, <1>3, <1>4, ThreeOutcomes

LEMMA OnceHolds ==
    ASSUME Kinds \cap LooseFinalizers = {}
    PROVE  Spec => []OnceInv
<1>1. LockInv /\ OnceInv /\ [Next]_vars => OnceInv'
  <2> SUFFICES ASSUME LockInv, OnceInv, [Next]_vars
               PROVE  OnceInv'
    OBVIOUS
  <2>1. CASE UNCHANGED vars
    BY <2>1 DEF OnceInv, FinalizedOnce, vars, db, client
  <2>2. QED
    BY <2>1, OnceStep DEF Next, Quiet, Step
<1>2. QED
  BY <1>1, OnceInit, LocksHold, PTL DEF Spec

(* Submits that race or are repeated finalise the session exactly once,     *)
(* with the stale autosaves too.                                            *)
THEOREM OneFinalisation ==
    ASSUME Kinds \cap LooseFinalizers = {}
    PROVE  Spec => []FinalizedOnce
<1>1. OnceInv => FinalizedOnce
  BY DEF OnceInv
<1>2. QED
  BY <1>1, OnceHolds, PTL

(* Submits that race or are repeated all report the same score, although a  *)
(* stale autosave may have changed the answers since.                       *)
THEOREM OneScoreTold ==
    ASSUME Kinds \cap LooseFinalizers = {}
    PROVE  Spec => []SubmitRepliesAgree
<1>1. OnceInv => SubmitRepliesAgree
  BY DEF OnceInv, SubmitRepliesAgree
<1>2. QED
  BY <1>1, OnceHolds, PTL

-----------------------------------------------------------------------------
(* Without the unlocked finalisers and the stale autosaves the score is     *)
(* that of the answers, and the session is an answer sheet, though the Go   *)
(* force submit may finalise it a second time.                              *)

LEMMA ScoreStep ==
    ASSUME Kinds \cap UnlockedFinalizers = {}, Kinds \cap StaleWriters = {},
           LockInv, AllReadsStand, GradesBelongToAnswers, ScoreMatchesAnswers,
           NEW p \in Request, Step(p)
    PROVE  ScoreMatchesAnswers'
<1>1. rows \in Rows
  BY DEF LockInv, TypeOK, Rows
<1>2. CASE Saves(p)
  <2>1. kind[p] \in FreshWriters
    BY <1>2 DEF Saves, LockInv, Handlers, AnswerKinds
  <2>2. status' = "in_progress"
    BY <1>2, <2>1 DEF Saves, LockInv, CheckStands
  <2>3. QED
    BY <2>2 DEF ScoreMatchesAnswers
<1>3. CASE HandsIn(p)
  BY <1>1, <1>3, HandsInGrades DEF HandsIn, ScoreMatchesAnswers
<1>4. CASE ForcesIn(p)
  BY <1>1, <1>4, ForcesLikeASubmit, HandsInGrades DEF ScoreMatchesAnswers
<1>5. CASE Looks(p)
  BY <1>5 DEF Looks, ScoreMatchesAnswers, db
<1>6. QED
  BY <1>2, <1>3, <1>4, <1>5, FourOutcomes

(* The score a student is given is the score of the answers on record, for  *)
(* any number of saves, submits and Go force submits in any order.          *)
THEOREM ScoreIsOfTheAnswers ==
    ASSUME Kinds \cap UnlockedFinalizers = {}, Kinds \cap StaleWriters = {}
    PROVE  Spec => []ScoreMatchesAnswers
<1>1. Init => ScoreMatchesAnswers
  BY DEF Init, ScoreMatchesAnswers
<1>2. LockInv /\ AllReadsStand /\ GradesBelongToAnswers /\ ScoreMatchesAnswers /\ [Next]_vars
        => ScoreMatchesAnswers'
  <2> SUFFICES ASSUME LockInv, AllReadsStand, GradesBelongToAnswers, ScoreMatchesAnswers,
                      [Next]_vars
               PROVE  ScoreMatchesAnswers'
    OBVIOUS
  <2>1. CASE UNCHANGED vars
    BY <2>1 DEF ScoreMatchesAnswers, vars, db
  <2>2. QED
    BY <2>1, ScoreStep DEF Next, Quiet, Step
<1>3. QED
  BY <1>1, <1>2, LocksHold, AllReadsHold, GradesBelong, PTL DEF Spec

(* A handed-in session has a score, and everyone who was told one was told  *)
(* that one.                                                                *)
ToldInv ==
    /\ status = "submitted" => score \in [Question -> Nat]
    /\ \A p \in Request : told[p] # None => status = "submitted" /\ told[p] = score

(* Grading the answers of a handed-in session again yields its score. *)
LEMMA GradedAgain ==
    ASSUME LockInv, GradesBelongToAnswers, ScoreMatchesAnswers, ToldInv,
           status = "submitted"
    PROVE  Breakdown(rows) = score
<1>1. rows \in Rows /\ score \in [Question -> Nat]
  BY DEF LockInv, TypeOK, Rows, ToldInv
<1>2. ASSUME NEW q \in Question
      PROVE  Breakdown(rows)[q] = score[q]
  <2>1. CASE rows[q] = None
    BY <2>1 DEF ScoreMatchesAnswers, Breakdown
  <2>2. CASE rows[q] # None
    <3>1. rows[q].points = score[q] /\ score[q] \in Nat
      BY <1>1, <2>2 DEF ScoreMatchesAnswers
    <3>2. rows[q].points # None
      BY <3>1, NoneAssumption
    <3>3. QED
      BY <2>2, <3>1, <3>2 DEF Breakdown, PointsOf
  <2>3. QED
    BY <2>1, <2>2
<1>3. QED
  BY <1>1, <1>2 DEF Breakdown

(* What a step does to an open session, and that it leaves the score of one *)
(* that was handed in alone.                                                *)
LEMMA ScoreSettles ==
    ASSUME Kinds \cap UnlockedFinalizers = {}, Kinds \cap StaleWriters = {},
           LockInv, AllReadsStand, GradesBelongToAnswers, ScoreMatchesAnswers, ToldInv,
           NEW p \in Request, Step(p)
    PROVE  \/ /\ status' = "submitted" /\ score' = Breakdown(rows)
              /\ status = "submitted" => score' = score
              /\ told'[p] = score'
              /\ rows' \in {Scored(rows), ScoredAll(rows)}
           \/ Saves(p) /\ status = "in_progress"
           \/ Looks(p)
<1>1. CASE Saves(p)
  <2>1. kind[p] \in FreshWriters
    BY <1>1 DEF Saves, LockInv, Handlers, AnswerKinds
  <2>2. QED
    BY <1>1, <2>1 DEF Saves, LockInv, CheckStands
<1>2. CASE HandsIn(p)
  BY <1>2 DEF HandsIn
<1>3. CASE ForcesIn(p)
  <2>1. rows' = ScoredAll(rows) /\ score' = Breakdown(rows) /\ told'[p] = Breakdown(rows)
    BY <1>3, ForcesLikeASubmit
  <2>2. status = "submitted" => score' = score
    BY <2>1, GradedAgain
  <2>3. QED
    BY <1>3, <2>1, <2>2 DEF ForcesIn
<1>4. QED
  BY <1>1, <1>2, <1>3, FourOutcomes

LEMMA ToldStep ==
    ASSUME Kinds \cap UnlockedFinalizers = {}, Kinds \cap StaleWriters = {},
           LockInv, AllReadsStand, GradesBelongToAnswers, ScoreMatchesAnswers, ToldInv,
           NEW p \in Request, Step(p)
    PROVE  ToldInv'
<1>1. \A r \in Request : r # p => told'[r] = told[r]
  BY OthersKeep DEF LockInv
<1>2. rows \in Rows
  BY DEF LockInv, TypeOK, Rows
<1>3. CASE /\ status' = "submitted" /\ score' = Breakdown(rows)
           /\ status = "submitted" => score' = score
           /\ told'[p] = score'
  <2>1. score' \in [Question -> Nat]
    BY <1>2, <1>3, BreakdownType
  <2>2. ASSUME NEW r \in Request, told'[r] # None
        PROVE  told'[r] = score'
    BY <1>1, <1>3, <2>2 DEF ToldInv
  <2>3. QED
    BY <1>3, <2>1, <2>2 DEF ToldInv
<1>4. CASE Saves(p) /\ status = "in_progress"
  BY <1>1, <1>4 DEF Saves, ToldInv
<1>5. CASE Looks(p)
  BY <1>1, <1>5 DEF Looks, ToldInv, db
<1>6. QED
  BY <1>3, <1>4, <1>5, ScoreSettles

LEMMA ToldHolds ==
    ASSUME Kinds \cap UnlockedFinalizers = {}, Kinds \cap StaleWriters = {}
    PROVE  Spec => []ToldInv
<1>1. Init => ToldInv
  BY DEF Init, ToldInv
<1>2. /\ LockInv /\ AllReadsStand /\ GradesBelongToAnswers /\ ScoreMatchesAnswers
      /\ ToldInv /\ [Next]_vars
      => ToldInv'
  <2> SUFFICES ASSUME LockInv, AllReadsStand, GradesBelongToAnswers, ScoreMatchesAnswers,
                      ToldInv, [Next]_vars
               PROVE  ToldInv'
    OBVIOUS
  <2>1. CASE UNCHANGED vars
    BY <2>1 DEF ToldInv, vars, db, client
  <2>2. QED
    BY <2>1, ToldStep DEF Next, Quiet, Step
<1>3. QED
  BY <1>1, <1>2, LocksHold, AllReadsHold, GradesBelong, ScoreIsOfTheAnswers, PTL DEF Spec

(* A teacher's Go force submit that loses the race to the student's submit  *)
(* finalises the session a second time, but every caller still hears one    *)
(* score, because no answer moved in between.                               *)
THEOREM ForcedScoreTold ==
    ASSUME Kinds \cap UnlockedFinalizers = {}, Kinds \cap StaleWriters = {}
    PROVE  Spec => []SubmitRepliesAgree
<1>1. ToldInv => SubmitRepliesAgree
  BY DEF ToldInv, SubmitRepliesAgree
<1>2. QED
  BY <1>1, ToldHolds, PTL

(* The answers on record, as the answer sheet sees them. *)
LEMMA ValuesType ==
    ASSUME NEW v \in Rows
    PROVE  [q \in Question |-> ValueOf(v[q])] \in Payload
BY DEF ValueOf, Rows, Row, Payload

(* A save on the rows is a save on the sheet: it removes no answer. *)
LEMMA SavesOnSheet ==
    ASSUME rows \in Rows, NEW a \in Payload, NEW q \in Question,
           NEW new \in {Upserted(a), Merged(a), Journaled(a)}, ValueOf(rows[q]) # None
    PROVE  ValueOf(new[q]) # None
<1>1. new \in Rows
  BY WritesType
<1>2. rows[q] # None
  BY DEF ValueOf
<1>3. new[q] # None
  <2>1. None \notin Row
    BY NoneAssumption
  <2>2. ASSUME a[q] # None
        PROVE  /\ [value |-> a[q], points |-> None] \in Row
               /\ [value |-> a[q], points |-> Grade[q][a[q]]] \in Row
    BY <2>2, GradeAssumption DEF Payload, Row
  <2>3. QED
    BY <1>2, <2>1, <2>2 DEF Upserted, Merged, Journaled
<1>4. new[q].value \in Value
  BY <1>1, <1>3 DEF Rows, Row
<1>5. QED
  BY <1>3, <1>4, NoneAssumption DEF ValueOf

(* The score of the rows is the score the sheet gives their answers. *)
LEMMA ScoreOnSheet ==
    ASSUME rows \in Rows, GradesBelongToAnswers
    PROVE  Breakdown(rows) =
             [q \in Question |-> IF ValueOf(rows[q]) = None THEN 0
                                 ELSE Grade[q][ValueOf(rows[q])]]
<1>1. ASSUME NEW q \in Question
      PROVE  Breakdown(rows)[q] = IF ValueOf(rows[q]) = None THEN 0
                                  ELSE Grade[q][ValueOf(rows[q])]
  <2>1. CASE rows[q] = None
    BY <2>1 DEF Breakdown, ValueOf
  <2>2. CASE rows[q] # None
    <3>1. rows[q].value \in Value
      BY <2>2 DEF Rows, Row
    <3>2. ValueOf(rows[q]) = rows[q].value /\ rows[q].value # None
      BY <2>2, <3>1, NoneAssumption DEF ValueOf
    <3>3. PointsOf(q, rows[q]) = Grade[q][rows[q].value]
      BY <2>2 DEF PointsOf, GradesBelongToAnswers
    <3>4. QED
      BY <2>2, <3>2, <3>3 DEF Breakdown
  <2>3. QED
    BY <2>1, <2>2
<1>2. QED
  BY <1>1 DEF Breakdown

(* A step that hands the session in hands in the sheet, or has done so. *)
LEMMA SheetStep ==
    ASSUME Kinds \cap UnlockedFinalizers = {}, Kinds \cap StaleWriters = {},
           LockInv, AllReadsStand, GradesBelongToAnswers, ScoreMatchesAnswers, ToldInv,
           TypeOK', NEW p \in Request, Step(p)
    PROVE  [Sheet!SheetNext]_(Sheet!sheetVars)
<1>1. rows \in Rows /\ rows' \in Rows /\ status \in {"in_progress", "submitted"}
  BY DEF LockInv, TypeOK, Rows
<1>2. CASE Saves(p) /\ status = "in_progress"
  <2>1. [q \in Question |-> ValueOf(rows'[q])] \in [Question -> Value \cup {None}]
    BY <1>1, ValuesType DEF Payload
  <2>2. \A q \in Question : ValueOf(rows[q]) # None => ValueOf(rows'[q]) # None
    BY <1>1, <1>2, SavesOnSheet DEF Saves
  <2>3. Sheet!Save
    BY <1>2, <2>1, <2>2 DEF Sheet!Save, Sheet!Payload, Saves
  <2>4. QED
    BY <2>3 DEF Sheet!SheetNext
<1>3. CASE /\ status' = "submitted" /\ score' = Breakdown(rows)
           /\ status = "submitted" => score' = score
           /\ rows' \in {Scored(rows), ScoredAll(rows)}
  <2>1. \A q \in Question : ValueOf(rows'[q]) = ValueOf(rows[q])
    BY <1>1, <1>3, ScoredKeepsValues
  <2>2. score' = [q \in Question |-> IF ValueOf(rows[q]) = None THEN 0
                                     ELSE Grade[q][ValueOf(rows[q])]]
    BY <1>1, <1>3, ScoreOnSheet
  <2>3. CASE status = "in_progress"
    <3>1. Sheet!HandIn
      BY <1>3, <2>1, <2>2, <2>3 DEF Sheet!HandIn
    <3>2. QED
      BY <3>1 DEF Sheet!SheetNext
  <2>4. CASE status = "submitted"
    BY <1>3, <2>1, <2>4 DEF Sheet!sheetVars
  <2>5. QED
    BY <1>1, <2>3, <2>4
<1>4. CASE Looks(p)
  BY <1>4 DEF Looks, db, Sheet!sheetVars
<1>5. QED
  BY <1>2, <1>3, <1>4, ScoreSettles

(* Locked saves, submits and Go force submits behave as one answer sheet    *)
(* that is filled in, handed in once and graded as it then stands.          *)
THEOREM RefinesAnswerSheet ==
    ASSUME Kinds \cap UnlockedFinalizers = {}, Kinds \cap StaleWriters = {}
    PROVE  Spec => ImplementsSheet
<1>1. Init => Sheet!SheetInit
  BY DEF Init, Sheet!SheetInit, Blank, ValueOf
<1>2. /\ LockInv /\ LockInv' /\ AllReadsStand /\ GradesBelongToAnswers
      /\ ScoreMatchesAnswers /\ ToldInv /\ [Next]_vars
      => [Sheet!SheetNext]_(Sheet!sheetVars)
  <2> SUFFICES ASSUME LockInv, LockInv', AllReadsStand, GradesBelongToAnswers,
                      ScoreMatchesAnswers, ToldInv, [Next]_vars
               PROVE  [Sheet!SheetNext]_(Sheet!sheetVars)
    OBVIOUS
  <2>1. CASE UNCHANGED vars
    BY <2>1 DEF vars, db, Sheet!sheetVars
  <2>2. QED
    BY <2>1, SheetStep DEF Next, Quiet, Step, LockInv
<1>3. QED
  BY <1>1, <1>2, LocksHold, AllReadsHold, GradesBelong, ScoreIsOfTheAnswers, ToldHolds, PTL
     DEF Spec, ImplementsSheet, Sheet!SheetSpec

=============================================================================
