---------------------------- MODULE AnswerQueue ----------------------------
(***************************************************************************)
(* The legacy answer queue (ANSWER_WRITE_MODE=queue): submit-answer pushes *)
(* the answer to a Redis list; a Celery task every five seconds, and every *)
(* final submit, claims a batch, upserts it and acknowledges it.           *)
(*                                                                         *)
(* A step is one awaited Redis command or one database transaction.  The   *)
(* answers are those of one session, numbered in the order they were       *)
(* given; a question's row holds the number of the answer it stores.       *)
(***************************************************************************)
EXTENDS Integers, SequencesExt

CONSTANTS
    Worker,       \* Celery workers that run process_answer_queue
    Submitter,    \* final submit requests
    Question,
    None,
    WorkerBatch,  \* batch_size of the Celery task
    DrainBatch,   \* batch_size of the final submit's drain
    MaxRounds,    \* max_rounds of the final submit's drain
    MaxAnswers,   \* bound on the answers that are given
    MaxFaults     \* bound on crashes and failed calls

Consumer == Worker \cup Submitter

ASSUME ConsumersAssumption == Worker \cap Submitter = {} /\ None \notin Consumer
ASSUME BatchAssumption ==
    /\ WorkerBatch \in Nat \ {0} /\ DrainBatch \in Nat \ {0} /\ MaxRounds \in Nat \ {0}
    /\ MaxAnswers \in Nat /\ MaxFaults \in Nat

VARIABLES
    status,      \* exam_sessions.status
    about,       \* the question of each answer given so far
    rows,        \* the number of the answer stored for each question, or 0
    graded,      \* the rows a submit graded, or None
    gradedBy,    \* that submit, or None
    pending,     \* answer_queue:pending
    processing,  \* answer_queue:processing
    lock,        \* owner of answer_queue:processing:lock, or None
    pc,          \* where each consumer is
    claim,       \* raw_batch: what it moved to processing
    left,        \* iterations left in its loop
    rounds,      \* rounds left of a submit's drain
    written,     \* history: answers that were committed to the rows
    due,         \* history: the latest answers when a submit arrived
    drained,     \* history: its last round found the queue empty
    orderly,     \* history: nothing so far upset the order of the queue
    faults       \* crashes and failed calls so far

session == <<status, about, rows, graded, gradedBy>>
lists   == <<pending, processing>>
locals  == <<claim, left>>
history == <<written, due, drained>>
vars    == <<session, lists, lock, pc, locals, rounds, history, orderly, faults>>

Answers == 1..MaxAnswers
Sheet   == [Question -> 0..MaxAnswers]
Blank   == [q \in Question |-> 0]

Rescuing == {"rescue", "claim"}
Writing  == {"upsert", "ack"}

TypeOK ==
    /\ status \in {"in_progress", "submitted"}
    /\ about \in Seq(Question) /\ Len(about) <= MaxAnswers
    /\ rows \in Sheet
    /\ graded \in Sheet \cup {None}
    /\ gradedBy \in Submitter \cup {None}
    /\ pending \in Seq(Answers) /\ processing \in Seq(Answers)
    /\ lock \in Consumer \cup {None}
    /\ pc \in [Consumer -> Rescuing \cup Writing
                             \cup {"idle", "round", "restore", "release", "submit", "done"}]
    /\ claim \in [Consumer -> Seq(Answers)]
    /\ left \in [Consumer -> Nat]
    /\ rounds \in [Submitter -> 0..MaxRounds]
    /\ written \subseteq Answers
    /\ due \in [Submitter -> Sheet]
    /\ drained \in [Submitter -> BOOLEAN]
    /\ orderly \in BOOLEAN
    /\ faults \in 0..MaxFaults

Init ==
    /\ status = "in_progress"
    /\ about = <<>>
    /\ rows = Blank
    /\ graded = None /\ gradedBy = None
    /\ pending = <<>> /\ processing = <<>>
    /\ lock = None
    /\ pc = [c \in Consumer |-> "idle"]
    /\ claim = [c \in Consumer |-> <<>>]
    /\ left = [c \in Consumer |-> 0]
    /\ rounds = [s \in Submitter |-> 0]
    /\ written = {}
    /\ due = [s \in Submitter |-> Blank]
    /\ drained = [s \in Submitter |-> FALSE]
    /\ orderly = TRUE
    /\ faults = 0

BatchOf(c) == IF c \in Submitter THEN DrainBatch ELSE WorkerBatch

Goto(c, at) == pc' = [pc EXCEPT ![c] = at]

Loop(c, n) == left' = [left EXCEPT ![c] = n]

(* A run's local variables are gone when it ends. *)
Forget(c) ==
    /\ claim' = [claim EXCEPT ![c] = <<>>]
    /\ left' = [left EXCEPT ![c] = 0]

(* LREM key 1 x *)
Removed(s, x) ==
    IF x \in ToSet(s) THEN RemoveAt(s, CHOOSE i \in DOMAIN s : s[i] = x) ELSE s

-----------------------------------------------------------------------------
(* Answers. *)

(* submit-answer, in the transaction that holds the session's lock. *)
Enqueue(q) ==
    /\ status = "in_progress"
    /\ Len(about) < MaxAnswers
    /\ about' = Append(about, q)
    /\ pending' = Append(pending, Len(about) + 1)
    /\ UNCHANGED <<status, rows, graded, gradedBy, processing, lock, pc, locals, rounds,
                   history, orderly, faults>>

(* RPUSH failed, or an autosave: the answer is stored past the queue. *)
WriteDirect(q) ==
    /\ status = "in_progress"
    /\ Len(about) < MaxAnswers
    /\ about' = Append(about, q)
    /\ rows' = [rows EXCEPT ![q] = Len(about) + 1]
    /\ written' = written \cup {Len(about) + 1}
    /\ orderly' = FALSE
    /\ UNCHANGED <<status, graded, gradedBy, lists, lock, pc, locals, rounds, due, drained, faults>>

-----------------------------------------------------------------------------
(* One run of _async_process_answer_queue. *)

(* SET lock NX EX 60 *)
Acquire(c) ==
    /\ pc[c] = IF c \in Submitter THEN "round" ELSE "idle"
    /\ lock = None
    /\ lock' = c
    /\ Goto(c, "rescue")
    /\ Loop(c, BatchOf(c))
    /\ UNCHANGED <<session, lists, claim, rounds, history, orderly, faults>>

(* Variant with a bug, for mutation: a run that claims without a rescue. *)
RescueNothing(c) ==
    /\ pc[c] = "rescue"
    /\ Goto(c, "claim")
    /\ UNCHANGED <<session, lists, lock, locals, rounds, history, orderly, faults>>

(* Variant with a bug: the limit counts down but is not looked at. *)
RescueUnlimited(c) ==
    /\ pc[c] = "rescue"
    /\ IF processing # <<>>
       THEN /\ processing' = Front(processing)
            /\ pending' = <<Last(processing)>> \o pending
            /\ Loop(c, left[c] - 1)
            /\ UNCHANGED pc
       ELSE /\ Goto(c, "claim")
            /\ Loop(c, BatchOf(c))
            /\ UNCHANGED lists
    /\ UNCHANGED <<session, lock, claim, rounds, history, orderly, faults>>

(* LMOVE processing pending RIGHT LEFT, at most batch_size times. *)
Rescue(c) ==
    /\ pc[c] = "rescue"
    /\ IF left[c] > 0 /\ processing # <<>>
       THEN /\ processing' = Front(processing)
            /\ pending' = <<Last(processing)>> \o pending
            /\ Loop(c, left[c] - 1)
            /\ UNCHANGED <<pc, orderly>>
       ELSE /\ Goto(c, "claim")
            /\ Loop(c, BatchOf(c))
            /\ orderly' = (orderly /\ processing = <<>>)
            /\ UNCHANGED lists
    /\ UNCHANGED <<session, lock, claim, rounds, history, faults>>

(* Variant with a bug: LPOP instead of LMOVE. *)
PopOne(c) ==
    /\ pc[c] = "claim"
    /\ left[c] > 0 /\ pending # <<>>
    /\ pending' = Tail(pending)
    /\ claim' = [claim EXCEPT ![c] = Append(@, Head(pending))]
    /\ Loop(c, left[c] - 1)
    /\ UNCHANGED <<session, processing, lock, pc, rounds, history, orderly, faults>>

(* LMOVE pending processing LEFT RIGHT *)
ClaimOne(c) ==
    /\ pc[c] = "claim"
    /\ left[c] > 0 /\ pending # <<>>
    /\ pending' = Tail(pending)
    /\ processing' = Append(processing, Head(pending))
    /\ claim' = [claim EXCEPT ![c] = Append(@, Head(pending))]
    /\ Loop(c, left[c] - 1)
    /\ UNCHANGED <<session, lock, pc, rounds, history, orderly, faults>>

(* The batch is full, or pending is empty; with nothing claimed, return 0. *)
EndClaim(c) ==
    /\ pc[c] = "claim"
    /\ left[c] = 0 \/ pending = <<>>
    /\ Goto(c, IF claim[c] = <<>> THEN "release" ELSE "upsert")
    /\ drained' = IF c \in Submitter THEN [drained EXCEPT ![c] = claim[c] = <<>>] ELSE drained
    /\ UNCHANGED <<session, lists, lock, locals, rounds, written, due, orderly, faults>>

(* The upserts, sorted by question; of one question the last claimed wins. *)
Upserted(s) ==
    [q \in Question |->
        LET mine == {k \in DOMAIN s : about[s[k]] = q}
        IN  IF mine = {} THEN rows[q] ELSE s[Max(mine)]]

(* COMMIT, whatever the session's status is by now. *)
Commit(c) ==
    /\ pc[c] = "upsert"
    /\ rows' = Upserted(claim[c])
    /\ written' = written \cup ToSet(claim[c])
    /\ Goto(c, "ack")
    /\ Loop(c, Len(claim[c]))
    /\ UNCHANGED <<status, about, graded, gradedBy, lists, lock, claim, rounds, due, drained,
                   orderly, faults>>

(* LREM processing 1, for each answer of the batch. *)
Ack(c) ==
    /\ pc[c] = "ack"
    /\ IF left[c] > 0
       THEN /\ processing' = Removed(processing, claim[c][Len(claim[c]) - left[c] + 1])
            /\ Loop(c, left[c] - 1)
            /\ UNCHANGED pc
       ELSE /\ Goto(c, "release")
            /\ UNCHANGED <<processing, left>>
    /\ UNCHANGED <<session, pending, lock, claim, rounds, history, orderly, faults>>

(* A submit goes on for some rounds, until one processes nothing. *)
AfterRun(c) ==
    /\ pc[c] = "release"
    /\ IF c \notin Submitter THEN Goto(c, "idle") /\ UNCHANGED rounds
       ELSE /\ rounds' = [rounds EXCEPT ![c] = @ - 1]
            /\ Goto(c, IF rounds[c] > 1 /\ ~drained[c] THEN "round" ELSE "submit")
    /\ Forget(c)
    /\ UNCHANGED <<session, lists, history, orderly>>

(* The lock is deleted if it is still ours. *)
Release(c) ==
    /\ AfterRun(c)
    /\ lock' = IF lock = c THEN None ELSE lock
    /\ UNCHANGED faults

(* Variant with a bug: LMOVE LEFT LEFT turns the order of the answers round. *)
RestoreReversed(c) ==
    /\ pc[c] = "restore"
    /\ IF left[c] > 0 /\ processing # <<>>
       THEN /\ processing' = Tail(processing)
            /\ pending' = <<Head(processing)>> \o pending
            /\ Loop(c, left[c] - 1)
            /\ UNCHANGED <<pc, rounds>>
       ELSE /\ Goto(c, "release")
            /\ rounds' = IF c \in Submitter THEN [rounds EXCEPT ![c] = 1] ELSE rounds
            /\ UNCHANGED <<lists, left>>
    /\ UNCHANGED <<session, lock, claim, history, orderly, faults>>

(* LMOVE processing pending RIGHT LEFT, as often as answers were claimed. *)
Restore(c) ==
    /\ pc[c] = "restore"
    /\ IF left[c] > 0 /\ processing # <<>>
       THEN /\ processing' = Front(processing)
            /\ pending' = <<Last(processing)>> \o pending
            /\ Loop(c, left[c] - 1)
            /\ UNCHANGED <<pc, rounds>>
       ELSE /\ Goto(c, "release")
            /\ rounds' = IF c \in Submitter THEN [rounds EXCEPT ![c] = 1] ELSE rounds
            /\ UNCHANGED <<lists, left>>
    /\ UNCHANGED <<session, lock, claim, history, orderly, faults>>

-----------------------------------------------------------------------------
(* Faults. *)

(* A failed upsert, commit or acknowledgement: rollback and restore. *)
BatchFails(c) ==
    /\ pc[c] \in Writing
    /\ faults < MaxFaults
    /\ faults' = faults + 1
    /\ Goto(c, "restore")
    /\ Loop(c, Len(claim[c]))
    /\ UNCHANGED <<session, lists, lock, claim, rounds, history, orderly>>

(* A failed Redis call outside the batch ends the run, and a drain with it. *)
RunFails(c) ==
    /\ pc[c] \in Rescuing \cup {"round", "restore"}
    /\ faults < MaxFaults
    /\ faults' = faults + 1
    /\ Goto(c, "release")
    /\ rounds' = IF c \in Submitter THEN [rounds EXCEPT ![c] = 1] ELSE rounds
    /\ UNCHANGED <<session, lists, lock, locals, history, orderly>>

(* A failure to delete the lock is only logged; the lock stays. *)
ReleaseFails(c) ==
    /\ AfterRun(c)
    /\ faults < MaxFaults
    /\ faults' = faults + 1
    /\ UNCHANGED lock

(* The process is killed. *)
Crash(c) ==
    /\ pc[c] \notin {"idle", "done"}
    /\ faults < MaxFaults
    /\ faults' = faults + 1
    /\ Goto(c, "idle")
    /\ Forget(c)
    /\ UNCHANGED <<session, lists, lock, rounds, history, orderly>>

(* Sixty seconds are over, perhaps under a slow owner. *)
LockExpires ==
    /\ lock # None
    /\ lock' = None
    /\ orderly' = (orderly /\ pc[lock] \in {"idle", "done"})
    /\ UNCHANGED <<session, lists, pc, locals, rounds, history, faults>>

-----------------------------------------------------------------------------
(* The final submit: drain, then grade under the session's lock. *)

Latest == [q \in Question |->
    LET given == {i \in DOMAIN about : about[i] = q}
    IN  IF given = {} THEN 0 ELSE Max(given)]

Arrive(s) ==
    /\ pc[s] = "idle"
    /\ Goto(s, IF status = "in_progress" THEN "round" ELSE "done")
    /\ rounds' = [rounds EXCEPT ![s] = MaxRounds]
    /\ due' = [due EXCEPT ![s] = Latest]
    /\ drained' = [drained EXCEPT ![s] = FALSE]
    /\ UNCHANGED <<session, lists, lock, locals, written, orderly, faults>>

(* Somebody else processes the queue: the round returns 0 at once. *)
TurnedAway(s) ==
    /\ pc[s] = "round"
    /\ lock # None
    /\ Goto(s, "submit")
    /\ UNCHANGED <<session, lists, lock, locals, rounds, history, orderly, faults>>

Submit(s) ==
    /\ pc[s] = "submit"
    /\ IF status = "in_progress"
       THEN status' = "submitted" /\ graded' = rows /\ gradedBy' = s
       ELSE UNCHANGED <<status, graded, gradedBy>>
    /\ Goto(s, "done")
    /\ UNCHANGED <<about, rows, lists, lock, locals, rounds, history, orderly, faults>>

-----------------------------------------------------------------------------

Process(c) ==
    \/ Acquire(c) \/ Rescue(c) \/ ClaimOne(c) \/ EndClaim(c) \/ Commit(c) \/ Ack(c)
    \/ Restore(c) \/ Release(c)

Next ==
    \/ \E q \in Question : Enqueue(q) \/ WriteDirect(q)
    \/ \E c \in Consumer : Process(c) \/ BatchFails(c) \/ RunFails(c) \/ ReleaseFails(c) \/ Crash(c)
    \/ \E s \in Submitter : Arrive(s) \/ TurnedAway(s) \/ Submit(s)
    \/ LockExpires

Spec == Init /\ [][Next]_vars

(* Workers tick every five seconds, a step that can be taken is taken, and  *)
(* a lock that nobody deletes expires.  No answer or submit must come.      *)
Fairness ==
    /\ \A c \in Consumer : WF_vars(Process(c))
    /\ \A s \in Submitter : WF_vars(TurnedAway(s) \/ Submit(s))
    /\ WF_vars(LockExpires)

FairSpec == Spec /\ Fairness

-----------------------------------------------------------------------------
(* Properties. *)

(* An answer that was accepted is in one of the lists until it is stored:   *)
(* claiming, rescuing, requeueing and acknowledging lose none, even when    *)
(* the lock expires and two workers move each other's answers.              *)
NothingLost ==
    \A i \in DOMAIN about : i \in ToSet(pending) \cup ToSet(processing) \cup written

(* The newest answer of a question is stored or still in the queue, and no  *)
(* older one replaces it for good, as long as all answers take the queue,   *)
(* no owner outlives its lock, and no rescue leaves part of a stuck batch   *)
(* behind.                                                                  *)
NewestIsKept ==
    orderly => \A q \in Question :
        Latest[q] \in ToSet(pending) \cup ToSet(processing) \cup {rows[q]}

(* A submit whose drain found the queue empty grades every answer given     *)
(* before it came, under the same conditions.                               *)
DrainedIsGraded ==
    gradedBy # None /\ orderly =>
        (drained[gradedBy] => \A q \in Question : graded[q] >= due[gradedBy][q])

(* Every accepted answer is stored in the end, after crashes too. *)
EveryAnswerStored ==
    \A i \in Answers : i <= Len(about) ~> i \in written

Delivery == INSTANCE AnswerDelivery WITH
    Answer <- Answers,
    given  <- DOMAIN about,
    held   <- ToSet(pending) \cup ToSet(processing),
    stored <- written

(* The two lists deliver every accepted answer at least once: an answer is  *)
(* let go by LREM only when a transaction has stored it, and a batch stores *)
(* nothing the student did not give, whoever rescues, restores or claims it *)
(* a second time.                                                           *)
ImplementsDelivery == Delivery!DeliverySpec

=============================================================================
