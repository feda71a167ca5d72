---------------------------- MODULE AnswerBuffer ----------------------------
(***************************************************************************)
(* The runtime answer buffer of one session (ANSWER_WRITE_MODE=hybrid):    *)
(* answers go to a Redis hash and a set of dirty questions; drainers, one  *)
(* per API worker, and the final submit write them to PostgreSQL.          *)
(*                                                                         *)
(* A step is one awaited Redis command (a pipeline is one, MULTI/EXEC), or *)
(* one database transaction that runs under the session's advisory lock.   *)
(* The queues are lists of session ids; of this session they hold so many. *)
(* The four-hour TTL of the keys is longer than an exam and left out.      *)
(***************************************************************************)
EXTENDS Integers

CONSTANTS
    Writer,     \* requests that send an answer
    Drainer,    \* API workers, each with its drain loop
    Submitter,  \* final submit requests
    Question, Value,
    None,       \* no answer, nobody
    MaxFaults   \* bound on crashes and failed calls

Flusher == Drainer \cup Submitter

ASSUME ActorsAssumption ==
    /\ Drainer \cap Submitter = {}
    /\ None \notin Writer \cup Flusher \cup Value
ASSUME FaultsAssumption == MaxFaults \in Nat

VARIABLES
    status,      \* exam_sessions.status
    rows,        \* the stored answer to each question, or None
    graded,      \* the rows the final submit graded, or None
    gradedBy,    \* the submit that did, or None
    answers,     \* runtime:session:<id>:answers
    dirty,       \* runtime:session:<id>:dirty_questions
    pending,     \* occurrences of the session in ...:pending
    processing,  \* ... and in ...:processing
    queued,      \* the key ...:queued:<id> exists
    lease,       \* owner of ...:flush:lock, or None
    writeLock,   \* the writer that holds the session's advisory lock, or None
    wpc, item,   \* where each writer is, and its question and value
    fpc,         \* where each flusher is
    taken,       \* the dirty questions it read
    batch,       \* the answers it read for them
    claimed,     \* how often a drainer moved the session to processing
    due,         \* the answers buffered when a submit arrived
    times,       \* how often each question was buffered
    faults       \* crashes and failed calls so far

db      == <<status, rows, graded, gradedBy>>
buffer  == <<answers, dirty>>
queue   == <<pending, processing, queued>>
writers == <<writeLock, wpc, item>>
flush   == <<taken, batch>>
ghosts  == <<due, times>>
vars    == <<db, buffer, queue, lease, writers, fpc, flush, claimed, ghosts, faults>>

Blank == [q \in Question |-> None]
Sheet == [Question -> Value \cup {None}]

FlushSteps == {"flush", "read", "check", "commit", "clean", "count"}
AckSteps   == {"ack1", "ack2", "ack3"}
AfterFlush == {"restore1", "restore2"}

TypeOK ==
    /\ status \in {"in_progress", "submitted"}
    /\ rows \in Sheet
    /\ graded \in Sheet \cup {None}
    /\ gradedBy \in Submitter \cup {None}
    /\ answers \in Sheet
    /\ dirty \subseteq Question
    /\ pending \in Nat
    /\ processing \in Nat
    /\ queued \in BOOLEAN
    /\ lease \in Drainer \cup {None}
    /\ writeLock \in Writer \cup {None}
    /\ wpc \in [Writer -> {"idle", "checked", "buffered", "marked", "done"}]
    /\ item \in [Writer -> (Question \X Value) \cup {None}]
    /\ fpc \in [Flusher -> {"idle", "claim", "peek", "release", "unlock", "submit", "done"}
                             \cup FlushSteps \cup AckSteps \cup AfterFlush]
    /\ taken \in [Flusher -> SUBSET Question]
    /\ batch \in [Flusher -> Sheet]
    /\ claimed \in [Drainer -> Nat]
    /\ due \in [Submitter -> Sheet]
    /\ times \in [Question -> Nat]
    /\ faults \in 0..MaxFaults

Init ==
    /\ status = "in_progress"
    /\ rows = Blank
    /\ graded = None
    /\ gradedBy = None
    /\ answers = Blank
    /\ dirty = {}
    /\ pending = 0
    /\ processing = 0
    /\ queued = FALSE
    /\ lease = None
    /\ writeLock = None
    /\ wpc = [w \in Writer |-> "idle"]
    /\ item = [w \in Writer |-> None]
    /\ fpc = [f \in Flusher |-> "idle"]
    /\ taken = [f \in Flusher |-> {}]
    /\ batch = [f \in Flusher |-> Blank]
    /\ claimed = [d \in Drainer |-> 0]
    /\ due = [s \in Submitter |-> Blank]
    /\ times = [q \in Question |-> 0]
    /\ faults = 0

Goto(f, at) == fpc' = [fpc EXCEPT ![f] = at]

-----------------------------------------------------------------------------
(* Writers: submit-answer, auto-save-batch, sync-journal. *)

Sends(w) ==
    /\ wpc[w] = "idle"
    /\ status = "in_progress"
    /\ \E q \in Question, v \in Value : item' = [item EXCEPT ![w] = <<q, v>>]
    /\ wpc' = [wpc EXCEPT ![w] = "checked"]
    /\ UNCHANGED <<db, buffer, queue, lease, fpc, flush, claimed, ghosts, faults>>

(* A batch or journal checks the session's status without a lock. *)
SendBatch(w) == Sends(w) /\ UNCHANGED writeLock

(* A single answer is buffered inside the transaction that holds the lock. *)
SendSingle(w) == Sends(w) /\ writeLock = None /\ writeLock' = w

(* One pipeline stores the answer and marks its question dirty. *)
Buffer(w) ==
    /\ wpc[w] = "checked"
    /\ LET q == item[w][1] IN
        /\ answers' = [answers EXCEPT ![q] = item[w][2]]
        /\ dirty' = dirty \cup {q}
        /\ times' = [times EXCEPT ![q] = @ + 1]
    /\ wpc' = [wpc EXCEPT ![w] = "buffered"]
    /\ UNCHANGED <<db, queue, lease, writeLock, item, fpc, flush, claimed, due, faults>>

(* Variant with a bug, for mutation: the transaction is left open. *)
AnsweredHoldingLock(w) ==
    /\ wpc' = [wpc EXCEPT ![w] = "done"]
    /\ item' = [item EXCEPT ![w] = None]
    /\ UNCHANGED <<db, buffer, processing, lease, writeLock, fpc, flush, claimed, ghosts>>

Answered(w) ==
    /\ wpc' = [wpc EXCEPT ![w] = "done"]
    /\ item' = [item EXCEPT ![w] = None]
    /\ writeLock' = IF writeLock = w THEN None ELSE writeLock
    /\ UNCHANGED <<db, buffer, processing, lease, fpc, flush, claimed, ghosts>>

(* SET queued NX: whoever sets the key pushes the session, *)
MarkQueued(w) ==
    /\ wpc[w] = "buffered"
    /\ IF queued THEN Answered(w) /\ UNCHANGED queued
       ELSE /\ queued' = TRUE
            /\ wpc' = [wpc EXCEPT ![w] = "marked"]
            /\ UNCHANGED <<db, buffer, processing, lease, writeLock, item,
                           fpc, flush, claimed, ghosts>>
    /\ UNCHANGED <<pending, faults>>

(* in a second command. *)
Push(w) ==
    /\ wpc[w] = "marked"
    /\ pending' = pending + 1
    /\ Answered(w)
    /\ UNCHANGED <<queued, faults>>

(* A Redis call fails: the request rolls back and is answered 409. *)
WriterFails(w) ==
    /\ wpc[w] \in {"checked", "buffered", "marked"}
    /\ faults < MaxFaults
    /\ faults' = faults + 1
    /\ Answered(w)
    /\ UNCHANGED <<pending, queued>>

-----------------------------------------------------------------------------
(* Flushing the session, by a drainer or by a final submit. *)

(* What a drainer does after one session of its claims, and a submit next. *)
AfterOne(f) ==
    IF f \in Submitter THEN Goto(f, "submit") /\ UNCHANGED claimed
    ELSE /\ claimed' = [claimed EXCEPT ![f] = @ - 1]
         /\ Goto(f, IF claimed[f] > 1 THEN "flush" ELSE "release")

(* Variant with a bug: SPOP of the dirty set instead of SMEMBERS. *)
ReadDirtyPops(f) ==
    /\ fpc[f] = "flush"
    /\ dirty' = {}
    /\ taken' = [taken EXCEPT ![f] = dirty]
    /\ Goto(f, IF dirty = {} THEN "ack1" ELSE "read")
    /\ UNCHANGED <<db, answers, queue, lease, writers, batch, claimed, ghosts, faults>>

ReadDirty(f) ==
    /\ fpc[f] = "flush"
    /\ taken' = [taken EXCEPT ![f] = dirty]
    /\ Goto(f, IF dirty = {} THEN "ack1" ELSE "read")
    /\ UNCHANGED <<db, buffer, queue, lease, writers, batch, claimed, ghosts, faults>>

ReadAnswers(f) ==
    /\ fpc[f] = "read"
    /\ batch' = [batch EXCEPT ![f] =
            [q \in Question |-> IF q \in taken[f] THEN answers[q] ELSE None]]
    /\ Goto(f, "check")
    /\ UNCHANGED <<db, buffer, queue, lease, writers, taken, claimed, ghosts, faults>>

(* The session's status is read before its advisory lock is taken. *)
CheckSession(f) ==
    /\ fpc[f] = "check"
    /\ Goto(f, IF status = "in_progress" THEN "commit" ELSE "ack1")
    /\ UNCHANGED <<db, buffer, queue, lease, writers, flush, claimed, ghosts, faults>>

(* The advisory lock, the upserts, COMMIT. *)
CommitFlush(f) ==
    /\ fpc[f] = "commit"
    /\ writeLock = None
    /\ rows' = [q \in Question |-> IF q \in taken[f] THEN batch[f][q] ELSE rows[q]]
    /\ batch' = [batch EXCEPT ![f] = Blank]
    /\ Goto(f, "clean")
    /\ UNCHANGED <<status, graded, gradedBy, buffer, queue, lease, writers, taken,
                   claimed, ghosts, faults>>

(* SREM of the flushed questions, whatever was buffered since. *)
Clean(f) ==
    /\ fpc[f] = "clean"
    /\ dirty' = dirty \ taken[f]
    /\ taken' = [taken EXCEPT ![f] = {}]
    /\ Goto(f, "count")
    /\ UNCHANGED <<db, answers, queue, lease, writers, batch, claimed, ghosts, faults>>

Count(f) ==
    /\ fpc[f] = "count"
    /\ Goto(f, IF dirty = {} THEN "ack1" ELSE "restore1")
    /\ UNCHANGED <<db, buffer, queue, lease, writers, flush, claimed, ghosts, faults>>

(* _ack_processing_session: LREM, LREM, DEL. *)
AckProcessing(f) ==
    /\ fpc[f] = "ack1"
    /\ processing' = 0
    /\ Goto(f, "ack2")
    /\ UNCHANGED <<db, buffer, pending, queued, lease, writers, flush, claimed, ghosts, faults>>

AckPending(f) ==
    /\ fpc[f] = "ack2"
    /\ pending' = 0
    /\ Goto(f, "ack3")
    /\ UNCHANGED <<db, buffer, processing, queued, lease, writers, flush, claimed, ghosts, faults>>

AckQueued(f) ==
    /\ fpc[f] = "ack3"
    /\ queued' = FALSE
    /\ AfterOne(f)
    /\ UNCHANGED <<db, buffer, pending, processing, lease, writers, flush, ghosts, faults>>

(* Variant with a bug: the claim to give back is taken for granted. *)
RestoreUnclaimed(f) ==
    /\ fpc[f] = "restore1"
    /\ processing' = processing - 1
    /\ Goto(f, "restore2")
    /\ UNCHANGED <<db, buffer, pending, queued, lease, writers, flush, claimed, ghosts, faults>>

(* _restore_processing_session: LREM of one occurrence, RPUSH. *)
RestoreProcessing(f) ==
    /\ fpc[f] = "restore1"
    /\ processing' = IF processing > 0 THEN processing - 1 ELSE 0
    /\ Goto(f, "restore2")
    /\ UNCHANGED <<db, buffer, pending, queued, lease, writers, flush, claimed, ghosts, faults>>

RestorePending(f) ==
    /\ fpc[f] = "restore2"
    /\ pending' = pending + 1
    /\ AfterOne(f)
    /\ UNCHANGED <<db, buffer, processing, queued, lease, writers, flush, ghosts, faults>>

-----------------------------------------------------------------------------
(* The drain loop, every two seconds, under a lock that expires after 60. *)

TakeLease(d) ==
    /\ fpc[d] = "idle"
    /\ lease = None
    /\ lease' = d
    /\ Goto(d, "claim")
    /\ UNCHANGED <<db, buffer, queue, writers, flush, claimed, ghosts, faults>>

(* LMOVE pending processing, until the batch is full or pending is empty. *)
Claim(d) ==
    /\ fpc[d] = "claim"
    /\ IF pending > 0
       THEN /\ pending' = pending - 1
            /\ processing' = processing + 1
            /\ claimed' = [claimed EXCEPT ![d] = @ + 1]
            /\ UNCHANGED fpc
       ELSE /\ Goto(d, IF claimed[d] > 0 THEN "flush" ELSE "release")
            /\ UNCHANGED <<pending, processing, claimed>>
    /\ UNCHANGED <<db, buffer, queued, lease, writers, flush, ghosts, faults>>

(* GET the lock: only its owner goes on to delete it, *)
CheckLease(d) ==
    /\ fpc[d] = "release"
    /\ Goto(d, IF lease = d THEN "unlock" ELSE "idle")
    /\ UNCHANGED <<db, buffer, queue, lease, writers, flush, claimed, ghosts, faults>>

(* but by then it may have expired and be another's. *)
DropLease(d) ==
    /\ fpc[d] = "unlock"
    /\ lease' = None
    /\ Goto(d, "idle")
    /\ UNCHANGED <<db, buffer, queue, writers, flush, claimed, ghosts, faults>>

LeaseExpires ==
    /\ lease # None
    /\ lease' = None
    /\ UNCHANGED <<db, buffer, queue, writers, fpc, flush, claimed, ghosts, faults>>

(* An exception rolls the transaction back and requeues the session. *)
DrainFails(d) ==
    /\ fpc[d] \in FlushSteps \cup AckSteps \cup AfterFlush
    /\ faults < MaxFaults
    /\ faults' = faults + 1
    /\ Goto(d, "restore1")
    /\ UNCHANGED <<db, buffer, queue, lease, writers, flush, claimed, ghosts>>

(* An exception while requeueing ends the tick: its other claims are left. *)
TickFails(d) ==
    /\ fpc[d] \in {"claim"} \cup AfterFlush
    /\ faults < MaxFaults
    /\ faults' = faults + 1
    /\ claimed' = [claimed EXCEPT ![d] = 0]
    /\ Goto(d, "release")
    /\ UNCHANGED <<db, buffer, queue, lease, writers, flush, ghosts>>

(* The worker is killed; the session stays where its claim put it. *)
Crash(d) ==
    /\ fpc[d] # "idle"
    /\ faults < MaxFaults
    /\ faults' = faults + 1
    /\ claimed' = [claimed EXCEPT ![d] = 0]
    /\ Goto(d, "idle")
    /\ UNCHANGED <<db, buffer, queue, lease, writers, flush, ghosts>>

-----------------------------------------------------------------------------
(* Final submit: flush this session's buffer, then lock, grade and commit. *)

Arrive(s) ==
    /\ fpc[s] = "idle"
    /\ Goto(s, IF status = "in_progress" THEN "peek" ELSE "done")
    /\ due' = [due EXCEPT ![s] = answers]
    /\ UNCHANGED <<db, buffer, queue, lease, writers, flush, claimed, times, faults>>

(* Variant with a bug: a session that is not queued is taken for clean. *)
PeekQueue(s) ==
    /\ fpc[s] = "peek"
    /\ Goto(s, IF pending = 0 THEN "ack1" ELSE "flush")
    /\ UNCHANGED <<db, buffer, queue, lease, writers, flush, claimed, ghosts, faults>>

Peek(s) ==
    /\ fpc[s] = "peek"
    /\ Goto(s, IF dirty = {} THEN "ack1" ELSE "flush")
    /\ UNCHANGED <<db, buffer, queue, lease, writers, flush, claimed, ghosts, faults>>

Submit(s) ==
    /\ fpc[s] = "submit"
    /\ writeLock = None
    /\ IF status = "in_progress"
       THEN status' = "submitted" /\ graded' = rows /\ gradedBy' = s
       ELSE UNCHANGED <<status, graded, gradedBy>>
    /\ Goto(s, "done")
    /\ UNCHANGED <<rows, buffer, queue, lease, writers, flush, claimed, ghosts, faults>>

(* A failed flush is answered 503 and the student submits again. *)
SubmitFails(s) ==
    /\ fpc[s] \in {"peek", "submit"} \cup FlushSteps \cup AckSteps \cup AfterFlush
    /\ faults < MaxFaults
    /\ faults' = faults + 1
    /\ Goto(s, "idle")
    /\ UNCHANGED <<db, buffer, queue, lease, writers, flush, claimed, ghosts>>

-----------------------------------------------------------------------------

Write(w) == Buffer(w) \/ MarkQueued(w) \/ Push(w)

Flush(f) ==
    \/ ReadDirty(f) \/ ReadAnswers(f) \/ CheckSession(f) \/ CommitFlush(f)
    \/ Clean(f) \/ Count(f)
    \/ AckProcessing(f) \/ AckPending(f) \/ AckQueued(f)
    \/ RestoreProcessing(f) \/ RestorePending(f)

Drain(d) == TakeLease(d) \/ Claim(d) \/ CheckLease(d) \/ DropLease(d)

Next ==
    \/ \E w \in Writer : SendBatch(w) \/ SendSingle(w) \/ Write(w) \/ WriterFails(w)
    \/ \E f \in Flusher : Flush(f)
    \/ \E d \in Drainer : Drain(d) \/ DrainFails(d) \/ TickFails(d) \/ Crash(d)
    \/ \E s \in Submitter : Arrive(s) \/ Peek(s) \/ Submit(s) \/ SubmitFails(s)
    \/ LeaseExpires

Spec == Init /\ [][Next]_vars

(* A handler that was entered goes on; drain loops run for ever; no answer  *)
(* and no submit is forced to arrive.                                       *)
Fairness ==
    /\ \A w \in Writer : WF_vars(Write(w))
    /\ \A f \in Flusher : WF_vars(Flush(f))
    /\ \A d \in Drainer : WF_vars(Drain(d))
    /\ \A s \in Submitter : WF_vars(Peek(s) \/ Submit(s))

FairSpec == Spec /\ Fairness

-----------------------------------------------------------------------------
(* Properties. *)

(* A question whose answer left the dirty set has an answer in PostgreSQL:  *)
(* no crash, failed call, expired lock or race of drainers makes an         *)
(* answered question unanswered.                                            *)
AnsweredIsStored ==
    \A q \in Question : answers[q] # None /\ q \notin dirty => rows[q] # None

(* The final submit grades every answer that was buffered before it came,   *)
(* unless the student changed it.                                           *)
SubmitSeesTheBuffer ==
    gradedBy # None =>
        \A q \in Question :
            due[gradedBy][q] # None /\ times[q] = 1 => graded[q] = due[gradedBy][q]

(* A submit always comes to an end, or to an error the student can retry.   *)
EverySubmitEnds ==
    \A s \in Submitter : fpc[s] = "peek" ~> fpc[s] \in {"idle", "done"}

Delivery == INSTANCE AnswerDelivery WITH
    Answer <- Question,
    given  <- {q \in Question : answers[q] # None},
    held   <- dirty,
    stored <- {q \in Question : rows[q] # None}

(* Question by question, the buffer delivers at least once: a question      *)
(* leaves the dirty set only when its row has an answer, and a flush stores *)
(* an answer only to questions the student answered.  (Which of a           *)
(* question's answers is stored is another matter: see SubmitSeesTheBuffer.)*)
ImplementsDelivery == Delivery!DeliverySpec

=============================================================================
