--------------------------- MODULE SessionWrites ---------------------------
(***************************************************************************)
(* The writers of one exam session's rows in PostgreSQL: answer writes,    *)
(* final submits, the teacher's force submit and the scheduler that closes *)
(* expired sessions, of the FastAPI and of the Go backend.  All of them    *)
(* share the exam_sessions row and the answers rows; most take the         *)
(* advisory lock (48102, session_id) and SELECT ... FOR UPDATE the session *)
(* before they write, some do not.                                         *)
(*                                                                         *)
(* A step is what runs between two points at which another transaction can *)
(* commit: the unlocked probe, the lock and the reads under it, the        *)
(* commit.  Answer queue and Redis buffer are off here (the production     *)
(* default ANSWER_WRITE_MODE=direct); they have modules of their own.      *)
(***************************************************************************)
EXTENDS Naturals

CONSTANTS
    Request,    \* requests and scheduler ticks that touch the session
    Question,   \* the exam's questions, graded by the program
    Value,      \* the answers a student may give
    Grade,      \* Grade[q][v]: points answer v earns on question q
    Kinds,      \* the kinds of request that occur
    None        \* SQL NULL, a missing row, nobody

(* Answer writers that re-read the session's status under the lock. *)
FreshWriters == {"single", "goSingle", "goBatch"}

(* Answer writers whose status check under the lock returns the ORM object *)
(* the unlocked probe loaded, with the status it had then.                 *)
StaleWriters == {"batch", "journal"}

LockedSubmits == {"submit", "goSubmit"}

(* Finalisers that check the status before they lock, or never lock. *)
LooseFinalizers == {"goForce", "force", "close"}

AllKinds == FreshWriters \cup StaleWriters \cup LockedSubmits \cup LooseFinalizers

AnswerKinds == FreshWriters \cup StaleWriters

Row == [value : Value, points : Nat \cup {None}]

ASSUME KindsAssumption == Kinds \subseteq AllKinds
ASSUME GradeAssumption == Grade \in [Question -> [Value -> Nat]]
ASSUME NoneAssumption  ==
    None \notin Request \cup Value \cup Nat \cup Row \cup [Question -> Nat]

VARIABLES
    status,      \* exam_sessions.status
    rows,        \* answers: the row of each question, or None
    score,       \* points per question behind exam_sessions.score, or None
    finalizedBy, \* the requests that committed a finalisation (its logs)
    lock,        \* holder of pg_advisory_xact_lock(48102, session), or None
    pc,          \* where each request is
    kind,        \* which handler serves it
    sent,        \* the answers it carries: value per question, or None
    seen,        \* the status its checks look at
    view,        \* the answers rows it has read
    reply,       \* what its caller was told
    told         \* the score in that reply, or None

db     == <<status, rows, score, finalizedBy>>
locals == <<kind, sent, seen, view>>
client == <<reply, told>>
vars   == <<db, lock, pc, locals, client>>

Payload == [Question -> Value \cup {None}]
Blank   == [q \in Question |-> None]

(* What each kind of request may carry: one answer, some, or none. *)
Carries(k) ==
    IF k \in {"single", "goSingle"}
    THEN { [Blank EXCEPT ![q] = v] : q \in Question, v \in Value }
    ELSE IF k \in AnswerKinds THEN Payload \ {Blank}
    ELSE {Blank}

-----------------------------------------------------------------------------
(* What a write does to the rows. *)

(* The upsert of one answer that was graded before the lock was taken. *)
Upserted(a) ==
    [q \in Question |->
        IF a[q] = None THEN rows[q]
        ELSE [value |-> a[q], points |-> Grade[q][a[q]]]]

(* Variant with a bug, for mutation: an autosave that keeps the old grade. *)
MergedKeepsGrade(a) ==
    [q \in Question |->
        IF a[q] = None THEN rows[q]
        ELSE [value |-> a[q],
              points |-> IF rows[q] = None THEN None ELSE rows[q].points]]

(* Variant with a bug: an autosave that replaces the whole sheet. *)
MergedReplaces(a) ==
    [q \in Question |->
        IF a[q] = None THEN None ELSE [value |-> a[q], points |-> None]]

(* Autosave: a changed answer loses its grade, an equal one is skipped. *)
Merged(a) ==
    [q \in Question |->
        IF a[q] = None \/ (rows[q] # None /\ rows[q].value = a[q]) THEN rows[q]
        ELSE [value |-> a[q], points |-> None]]

(* The journal stores its event id with the answer, so the row changes and *)
(* loses its grade even when the answer is the same.                       *)
Journaled(a) ==
    [q \in Question |->
        IF a[q] = None THEN rows[q]
        ELSE [value |-> a[q], points |-> None]]

(* Variant with a bug: a NULL grade is added up as it is. *)
PointsUnchecked(q, row) == row.points

(* A grade that a row already has is trusted; otherwise it is computed. *)
PointsOf(q, row) == IF row.points # None THEN row.points ELSE Grade[q][row.value]

Breakdown(v) == [q \in Question |-> IF v[q] = None THEN 0 ELSE PointsOf(q, v[q])]

(* The ORM flushes the grades it computed; it never writes the answer. *)
Scored(v) ==
    [q \in Question |->
        IF v[q] # None /\ v[q].points = None /\ rows[q] # None
        THEN [rows[q] EXCEPT !.points = PointsOf(q, v[q])]
        ELSE rows[q]]

(* The Go submit issues an UPDATE for every answer it read. *)
ScoredAll(v) ==
    [q \in Question |->
        IF v[q] # None /\ rows[q] # None
        THEN [rows[q] EXCEPT !.points = PointsOf(q, v[q])]
        ELSE rows[q]]

(* The Go force submit grades every answer anew, trusting none. *)
Anew(v) == [q \in Question |->
    IF v[q] = None THEN None ELSE [value |-> v[q].value, points |-> None]]

-----------------------------------------------------------------------------
(* Pieces of the handlers. *)

TypeOK ==
    /\ status \in {"in_progress", "submitted"}
    /\ rows \in [Question -> Row \cup {None}]
    /\ score \in [Question -> Nat] \cup {None}
    /\ finalizedBy \subseteq Request
    /\ lock \in Request \cup {None}
    /\ pc \in [Request -> {"idle", "scanned", "probed", "locked", "loaded", "read", "done"}]
    /\ kind \in [Request -> AllKinds \cup {None}]
    /\ sent \in [Request -> Payload]
    /\ seen \in [Request -> {"in_progress", "submitted"}]
    /\ view \in [Request -> [Question -> Row \cup {None}]]
    /\ reply \in [Request -> {"none", "saved", "ignored", "ended",
                              "submitted", "already", "busy", "tick"}]
    /\ told \in [Request -> [Question -> Nat] \cup {None}]

Init ==
    /\ status = "in_progress"
    /\ rows = Blank
    /\ score = None
    /\ finalizedBy = {}
    /\ lock = None
    /\ pc = [p \in Request |-> "idle"]
    /\ kind = [p \in Request |-> None]
    /\ sent = [p \in Request |-> Blank]
    /\ seen = [p \in Request |-> "in_progress"]
    /\ view = [p \in Request |-> Blank]
    /\ reply = [p \in Request |-> "none"]
    /\ told = [p \in Request |-> None]

(* Variant with a bug: the status is selected without FOR UPDATE. *)
RowNotLocked == FALSE

(* The session row is locked FOR UPDATE by whoever holds the advisory lock, *)
(* but for the Go force submit, which never selects the row.                *)
RowLocked == lock # None /\ kind[lock] # "goForce"

Goto(p, at) == pc' = [pc EXCEPT ![p] = at]

Finish(p, answer, points) ==
    /\ Goto(p, "done")
    /\ reply' = [reply EXCEPT ![p] = answer]
    /\ told' = [told EXCEPT ![p] = points]

(* A request of one of the kinds ks arrives and its handler reads the       *)
(* session without a lock.                                                  *)
Probes(p, ks) ==
    /\ pc[p] = "idle"
    /\ \E k \in Kinds \cap ks :
        /\ kind' = [kind EXCEPT ![p] = k]
        /\ \E a \in Carries(k) : sent' = [sent EXCEPT ![p] = a]
    /\ seen' = [seen EXCEPT ![p] = status]
    /\ UNCHANGED <<db, lock, view>>

(* pg_advisory_xact_lock, then the answers are read under it. *)
TakesLock(p) ==
    /\ pc[p] = "probed"
    /\ lock = None
    /\ lock' = p
    /\ Goto(p, "locked")
    /\ view' = [view EXCEPT ![p] = rows]
    /\ UNCHANGED <<db, kind, sent, client>>

(* COMMIT or ROLLBACK ends the transaction and with it its locks. *)
Releases(p) == lock' = IF lock = p THEN None ELSE lock

(* Variant with a bug: the status under the lock is not looked at. *)
CommitsRowsUnchecked(p, ks, newRows) ==
    /\ pc[p] = "locked"
    /\ kind[p] \in ks
    /\ rows' = newRows
    /\ Releases(p)
    /\ Finish(p, "saved", None)
    /\ UNCHANGED <<status, score, finalizedBy, locals>>

(* The holder of the lock, its check passed, commits new answer rows. *)
CommitsRows(p, ks, newRows) ==
    /\ pc[p] = "locked"
    /\ kind[p] \in ks
    /\ seen[p] = "in_progress"
    /\ rows' = newRows
    /\ Releases(p)
    /\ Finish(p, "saved", None)
    /\ UNCHANGED <<status, score, finalizedBy, locals>>

(* A finalisation commits: answers' grades, status and score together. *)
CommitsFinal(p, newRows, points, answer) ==
    /\ rows' = newRows
    /\ status' = "submitted"
    /\ score' = points
    /\ finalizedBy' = finalizedBy \cup {p}
    /\ Releases(p)
    /\ Finish(p, answer, points)
    /\ UNCHANGED locals

-----------------------------------------------------------------------------
(* Answer writes: submit-answer, auto-save-batch, sync-journal. *)

(* The unlocked check lets an open session through. *)
ProbeOpen(p) ==
    /\ status = "in_progress"
    /\ Probes(p, AnswerKinds \cup LockedSubmits \cup {"goForce"})
    /\ Goto(p, "probed")
    /\ UNCHANGED client

(* A late answer is reported "saved" but dropped; a late autosave fails. *)
ProbeClosed(p) ==
    /\ status # "in_progress"
    /\ Probes(p, AnswerKinds)
    /\ Finish(p, IF kind'[p] \in {"single", "goSingle"} THEN "ignored" ELSE "ended", None)

(* Variant with a bug: the lock, but no second look at the status. *)
LockWithoutRecheck(p) ==
    /\ kind[p] \in FreshWriters \cup LockedSubmits
    /\ TakesLock(p)
    /\ UNCHANGED seen

(* The lock, then SELECT status ... FOR UPDATE reads the row as it is now. *)
LockAndRecheck(p) ==
    /\ kind[p] \in FreshWriters \cup LockedSubmits
    /\ TakesLock(p)
    /\ seen' = [seen EXCEPT ![p] = status]

(* The lock, then the same SELECT FOR UPDATE through the ORM session that   *)
(* still holds the probed object: its status is not refreshed.              *)
LockAndRecheckStale(p) ==
    /\ kind[p] \in StaleWriters
    /\ TakesLock(p)
    /\ UNCHANGED seen

CommitSingle(p) == CommitsRows(p, {"single"}, Upserted(sent[p]))

CommitGoSingle(p) == CommitsRows(p, {"goSingle"}, Upserted(sent[p]))

CommitBatch(p) == CommitsRows(p, {"batch"}, Merged(sent[p]))

CommitGoBatch(p) == CommitsRows(p, {"goBatch"}, Merged(sent[p]))

CommitJournal(p) == CommitsRows(p, {"journal"}, Journaled(sent[p]))

(* Variant with a bug: an early return that leaves the transaction open. *)
RejectHoldingLock(p) ==
    /\ pc[p] = "locked"
    /\ seen[p] # "in_progress"
    /\ IF kind[p] \in LockedSubmits THEN Finish(p, "already", score)
       ELSE Finish(p, IF kind[p] \in {"single", "goSingle"} THEN "ignored" ELSE "ended", None)
    /\ UNCHANGED <<db, lock, locals>>

(* The check under the lock finds the session handed in. *)
RejectUnderLock(p) ==
    /\ pc[p] = "locked"
    /\ seen[p] # "in_progress"
    /\ Releases(p)
    /\ IF kind[p] \in LockedSubmits THEN Finish(p, "already", score)
       ELSE Finish(p, IF kind[p] \in {"single", "goSingle"} THEN "ignored" ELSE "ended", None)
    /\ UNCHANGED <<db, locals>>

-----------------------------------------------------------------------------
(* Final submit, force submit. *)

(* A repeated submit is answered with the stored score. *)
ProbeSubmitted(p) ==
    /\ status # "in_progress"
    /\ Probes(p, LockedSubmits \cup {"goForce"})
    /\ Finish(p, "already", score)

(* Variant with a bug: a repeated submit is graded and stored again. *)
CommitSubmitAgain(p) ==
    /\ pc[p] = "locked"
    /\ kind[p] = "submit"
    /\ CommitsFinal(p, Scored(view[p]), Breakdown(view[p]), "submitted")

CommitSubmit(p) ==
    /\ pc[p] = "locked"
    /\ kind[p] = "submit"
    /\ seen[p] = "in_progress"
    /\ CommitsFinal(p, Scored(view[p]), Breakdown(view[p]), "submitted")

CommitGoSubmit(p) ==
    /\ pc[p] = "locked"
    /\ kind[p] = "goSubmit"
    /\ seen[p] = "in_progress"
    /\ CommitsFinal(p, ScoredAll(view[p]), Breakdown(view[p]), "submitted")

(* The Go force submit locks after its probe and does not look again; the   *)
(* answers it grades are read on another connection, under the lock.        *)
ForceLock(p) ==
    /\ kind[p] = "goForce"
    /\ TakesLock(p)
    /\ UNCHANGED seen

CommitGoForce(p) ==
    /\ pc[p] = "locked"
    /\ kind[p] = "goForce"
    /\ CommitsFinal(p, ScoredAll(Anew(view[p])), Breakdown(Anew(view[p])), "submitted")

(* The FastAPI force submit loads the session and then its answers, in two  *)
(* statements and without a lock.                                           *)
ForceLoad(p) ==
    /\ Probes(p, {"force"})
    /\ Goto(p, "loaded")
    /\ UNCHANGED client

(* Of a session handed in, it does not tell the stored score: it adds up    *)
(* the grades of the answers it read, an ungraded one counting nothing.     *)
ForceRepeats(p) ==
    /\ pc[p] = "read"
    /\ kind[p] = "force"
    /\ seen[p] # "in_progress"
    /\ Releases(p)
    /\ Finish(p, "already",
         [q \in Question |-> IF view[p][q] = None \/ view[p][q].points = None THEN 0
                            ELSE view[p][q].points])
    /\ UNCHANGED <<db, locals>>

CommitForce(p) ==
    /\ pc[p] = "read"
    /\ kind[p] = "force"
    /\ seen[p] = "in_progress"
    /\ ~RowLocked
    /\ CommitsFinal(p, Scored(view[p]), Breakdown(view[p]), "submitted")

-----------------------------------------------------------------------------
(* The scheduler's close_expired_sessions, every 30 seconds. *)

(* Phase 1 lists the open sessions whose timer says they expired. *)
ScanExpired(p) ==
    /\ status = "in_progress"
    /\ Probes(p, {"close"})
    /\ Goto(p, "scanned")
    /\ UNCHANGED client

(* Phase 2 selects those of them that are still open, *)
LoadExpired(p) ==
    /\ pc[p] = "scanned"
    /\ IF status = "in_progress"
       THEN Goto(p, "loaded") /\ UNCHANGED client
       ELSE Finish(p, "tick", None)
    /\ seen' = [seen EXCEPT ![p] = status]
    /\ UNCHANGED <<db, lock, kind, sent, view>>

(* then, in another statement, their answers.  The force submit does too. *)
ReadAnswers(p) ==
    /\ pc[p] = "loaded"
    /\ view' = [view EXCEPT ![p] = rows]
    /\ Goto(p, "read")
    /\ UNCHANGED <<db, lock, kind, sent, seen, client>>

(* The UPDATE of exam_sessions waits for a row lock, then all is written. *)
CommitClose(p) ==
    /\ pc[p] = "read"
    /\ kind[p] = "close"
    /\ ~RowLocked
    /\ CommitsFinal(p, Scored(view[p]), Breakdown(view[p]), "tick")

(* A database error: the transaction rolls back, the caller may retry. *)
Fail(p) ==
    /\ pc[p] \in {"probed", "locked", "loaded", "read"}
    /\ Releases(p)
    /\ Finish(p, "busy", None)
    /\ UNCHANGED <<db, locals>>

-----------------------------------------------------------------------------

Locks(p) == LockAndRecheck(p) \/ LockAndRecheckStale(p) \/ ForceLock(p)

Arrives(p) ==
    \/ ProbeOpen(p) \/ ProbeClosed(p) \/ ProbeSubmitted(p)
    \/ ForceLoad(p) \/ ScanExpired(p)

Ends(p) ==
    \/ CommitSingle(p) \/ CommitGoSingle(p)
    \/ CommitBatch(p) \/ CommitGoBatch(p) \/ CommitJournal(p)
    \/ CommitSubmit(p) \/ CommitGoSubmit(p) \/ CommitGoForce(p) \/ CommitForce(p)
    \/ CommitClose(p)
    \/ RejectUnderLock(p) \/ ForceRepeats(p)

Reads(p) == LoadExpired(p) \/ ReadAnswers(p)

(* All requests were served; the session rests until the next one. *)
Quiet == (\A p \in Request : pc[p] = "done") /\ UNCHANGED vars

Next ==
    \/ \E p \in Request : Arrives(p) \/ Locks(p) \/ Reads(p) \/ Ends(p) \/ Fail(p)
    \/ Quiet

Spec == Init /\ [][Next]_vars

(* A request that arrived runs to its end: PostgreSQL grants a lock that is *)
(* free, and a handler goes on once its statement returns.  Nothing forces  *)
(* a request to arrive.                                                     *)
Fairness == \A p \in Request : WF_vars(Locks(p) \/ Reads(p) \/ Ends(p))

FairSpec == Spec /\ Fairness

-----------------------------------------------------------------------------
(* Properties. *)

(* The score a handed-in session shows is what its stored answers are       *)
(* worth, and every stored answer carries that grade: final submit, the     *)
(* force submit and the scheduler grade all persisted answers.              *)
ScoreMatchesAnswers ==
    status = "submitted" =>
        \A q \in Question :
            IF rows[q] = None THEN score[q] = 0
            ELSE /\ rows[q].points = Grade[q][rows[q].value]
                 /\ score[q] = rows[q].points

(* A session is finalised, logged and scored by one request only, however   *)
(* many submits race for it.  Claimed of those that look under the lock.    *)
FinalizedOnce == \A p1, p2 \in finalizedBy : p1 = p2

(* Every caller that is told a score is told the same one: a submit that is *)
(* retried, or that loses the race, answers what the first submit answered, *)
(* and so does a force submit of the Go back end.                           *)
SubmitRepliesAgree ==
    \A p1, p2 \in Request :
        told[p1] # None /\ told[p2] # None => told[p1] = told[p2]

(* A stored grade belongs to the answer beside it: a submit that reuses     *)
(* grades (_can_reuse_persisted_score) never reuses that of another answer. *)
GradesBelongToAnswers ==
    \A q \in Question :
        rows[q] # None => rows[q].points \in {None, Grade[q][rows[q].value]}

ValueOf(row) == IF row = None THEN None ELSE row.value

(* Once a session is handed in, no request that is still under way changes  *)
(* or adds an answer, even if it arrived while the session was open.        *)
AnswersFrozen ==
    [][status = "submitted" =>
         \A q \in Question : ValueOf(rows'[q]) = ValueOf(rows[q])]_vars

(* A request told "saved" found the session open when its rows committed:   *)
(* an answer is never acknowledged into a session already graded.           *)
SavedWhileOpen ==
    [][\A p \in Request :
         reply[p] # "saved" /\ reply'[p] = "saved" => status = "in_progress"]_vars

(* Every request that reached the server is answered: no order of locks,    *)
(* waits and failures leaves one hanging.                                   *)
EveryRequestEnds ==
    \A p \in Request : pc[p] # "idle" ~> pc[p] = "done"

(* The session as its student sees it, without grades and locks. *)
Sheet == INSTANCE AnswerSheet WITH answers <- [q \in Question |-> ValueOf(rows[q])]

(* Fresh writers, locked submits and the Go force submit implement the      *)
(* answer sheet: a second finalisation leaves answers and score alone.      *)
ImplementsSheet == Sheet!SheetSpec

=============================================================================
