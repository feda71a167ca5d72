----------------------------- MODULE ExamTimer -----------------------------
(***************************************************************************)
(* The clock of an exam's sessions.  No part of the system counts time     *)
(* down: the time a student has left is computed on each request from the  *)
(* session's start, the pauses added up in exam_sessions and in the Redis  *)
(* snapshot, and the pause that is going on.  Two kinds of pause write     *)
(* these fields - the exam's (exam_pause_control.py, Go SetExamPaused) and *)
(* the administrator's (exam_admin.py) - and so do reset and reopen.  The  *)
(* scheduler closes a session by a stricter reading of the same fields.    *)
(*                                                                         *)
(* is_paused and is_globally_paused are set exactly when paused_at and     *)
(* globally_paused_at are, by every writer, so one variable stands for     *)
(* both.  Each handler reads and commits in one step here.                 *)
(***************************************************************************)
EXTENDS Integers

CONSTANTS
    Session,
    Controls,    \* the pause controls in use
    Duration,    \* the exam's duration
    ExamEnd,     \* the exam's end_time; it opens at 0
    Tolerance,   \* TIMEOUT_TOLERANCE_SECONDS
    StaleGrace,  \* STALE_PAUSE_GRACE_SECONDS
    MaxTime,     \* bound: the clock stops here
    None         \* SQL NULL

ASSUME TimesAssumption ==
    /\ Duration \in Nat /\ ExamEnd \in Nat
    /\ Tolerance \in Nat /\ StaleGrace \in Nat /\ MaxTime \in Nat
ASSUME ControlsAssumption == Controls \subseteq {"exam", "goExam", "admin"}
ASSUME NullAssumption == None \notin Int

VARIABLES
    now,
    globalAt,   \* exams.globally_paused_at, or None
    status,     \* exam_sessions.status of each session
    started,    \* its start_time
    pausedAt,   \* its paused_at, or None
    total,      \* its total_paused_seconds
    snapshot,   \* total_paused_seconds in its Redis snapshot
    patches,    \* snapshots a resume-all has still to patch, and their totals
    expired,    \* sessions the scheduler's tick found expired
    worked,     \* history: how long the student could work
    past        \* history: what may have bent the session's clock

db      == <<globalAt, status, started, pausedAt, total>>
history == <<worked, past>>
vars    == <<now, db, snapshot, patches, expired, history>>

TypeOK ==
    /\ now \in Nat
    /\ globalAt \in Nat \cup {None}
    /\ status \in [Session -> {"none", "in_progress", "submitted"}]
    /\ started \in [Session -> Nat]
    /\ pausedAt \in [Session -> Nat \cup {None}]
    /\ total \in [Session -> Nat]
    /\ snapshot \in [Session -> Nat]
    /\ patches \subseteq Session \X Nat
    /\ expired \subseteq Session
    /\ worked \in [Session -> Nat]
    /\ past \in [Session -> {"plain", "mixed", "reopened"}]

Init ==
    /\ now = 0
    /\ globalAt = None
    /\ status = [s \in Session |-> "none"]
    /\ started = [s \in Session |-> 0]
    /\ pausedAt = [s \in Session |-> None]
    /\ total = [s \in Session |-> 0]
    /\ snapshot = [s \in Session |-> 0]
    /\ patches = {}
    /\ expired = {}
    /\ worked = [s \in Session |-> 0]
    /\ past = [s \in Session |-> "plain"]

-----------------------------------------------------------------------------
(* The readings of the clock. *)

Larger(a, b) == IF a > b THEN a ELSE b

Minus(a, b) == IF a > b THEN a - b ELSE 0

(* Variant with a bug: the operands of the difference are swapped. *)
OngoingSwapped(at) == IF at = None THEN 0 ELSE at - now

Ongoing(at) == IF at = None THEN 0 ELSE now - at

(* Variant with a bug: an exam-wide pause and the session's are added up. *)
OngoingPauseSummed(s) == Ongoing(pausedAt[s]) + Ongoing(globalAt)

(* The longer of the session's pause and the exam's. *)
OngoingPause(s) == Larger(Ongoing(pausedAt[s]), Ongoing(globalAt))

Frozen(s) == pausedAt[s] # None \/ globalAt # None

(* resolve_timer_context and calculate_effective_timer. *)
Elapsed(s) ==
    Minus(now - started[s], Larger(snapshot[s], total[s]) + OngoingPause(s))

Remaining(s) == Minus(Duration, Elapsed(s))

(* remaining-time, answered from the Redis snapshot alone. *)
FastElapsed(s) == Minus(now - started[s], snapshot[s])

(* evaluate_timer under CLOSE_EXPIRED_POLICY.  A pause that outlives the   *)
(* exam by the grace is stale: it neither blocks the close nor counts.     *)
StalePause(s) == Frozen(s) /\ now > ExamEnd + StaleGrace

(* Variant with a bug: only the pause going on counts. *)
CountedPauseOngoing(s) == IF StalePause(s) THEN 0 ELSE OngoingPause(s)

CountedPause(s) == total[s] + (IF StalePause(s) THEN 0 ELSE OngoingPause(s))

DurationExpired(s) ==
    Minus(now - started[s], CountedPause(s)) > Duration + Tolerance

ExamEndExpired(s) ==
    StalePause(s) \/ now > ExamEnd + CountedPause(s) + Tolerance

ShouldClose(s) ==
    /\ Frozen(s) => StalePause(s)
    /\ DurationExpired(s) \/ ExamEndExpired(s)

-----------------------------------------------------------------------------
(* Time, and the student. *)

Tick ==
    /\ now < MaxTime
    /\ now' = now + 1
    /\ worked' = [s \in Session |->
         IF past[s] = "plain" /\ status[s] = "in_progress" /\ ~Frozen(s)
         THEN worked[s] + 1 ELSE worked[s]]
    /\ UNCHANGED <<db, snapshot, patches, expired, past>>

Bends(ss, how) ==
    /\ past' = [s \in Session |->
         IF s \in ss /\ past[s] # "reopened" THEN how ELSE past[s]]
    /\ worked' = [s \in Session |-> IF s \in ss THEN 0 ELSE worked[s]]

(* A session that starts during an exam-wide pause is not paused itself. *)
Start(s) ==
    /\ status[s] = "none"
    /\ now <= ExamEnd
    /\ status' = [status EXCEPT ![s] = "in_progress"]
    /\ started' = [started EXCEPT ![s] = now]
    /\ Bends(IF globalAt = None THEN {} ELSE {s}, "mixed")
    /\ UNCHANGED <<now, globalAt, pausedAt, total, snapshot, patches, expired>>

(* A student who starts again gets a snapshot with the larger total. *)
StartAgain(s) ==
    /\ status[s] = "in_progress"
    /\ snapshot' = [snapshot EXCEPT ![s] = Larger(@, total[s])]
    /\ UNCHANGED <<now, db, patches, expired, history>>

HandIn(s) ==
    /\ status[s] = "in_progress"
    /\ status' = [status EXCEPT ![s] = "submitted"]
    /\ UNCHANGED <<now, globalAt, started, pausedAt, total, snapshot, patches, expired, history>>

-----------------------------------------------------------------------------
(* Pauses. *)

Open == {s \in Session : status[s] = "in_progress"}

Paused == {s \in Session : pausedAt[s] # None}

(* The exam's pause stamps every open session, one that was paused before  *)
(* included: the time it had been paused is forgotten.                     *)
PauseExam ==
    /\ Controls \cap {"exam", "goExam"} # {}
    /\ globalAt = None
    /\ globalAt' = now
    /\ pausedAt' = [s \in Session |-> IF s \in Open THEN now ELSE pausedAt[s]]
    /\ Bends(Paused, "mixed")
    /\ UNCHANGED <<now, status, started, total, snapshot, patches, expired>>

(* Its end gives every paused session the length of the exam's pause. *)
Resumes ==
    /\ globalAt # None
    /\ globalAt' = None
    /\ pausedAt' = [s \in Session |-> None]
    /\ total' = [s \in Session |->
         IF s \in Paused THEN total[s] + Ongoing(globalAt) ELSE total[s]]
    /\ UNCHANGED <<now, status, started, snapshot, expired, history>>

(* FastAPI patches the snapshots one by one, after the commit. *)
ResumeExam ==
    /\ "exam" \in Controls
    /\ Resumes
    /\ patches' = patches \cup { <<s, total'[s]>> : s \in Paused }

GoResumeExam ==
    /\ "goExam" \in Controls
    /\ Resumes
    /\ UNCHANGED patches

PatchSnapshot(s, seconds) ==
    /\ <<s, seconds>> \in patches
    /\ patches' = patches \ {<<s, seconds>>}
    /\ snapshot' = [snapshot EXCEPT ![s] = seconds]
    /\ UNCHANGED <<now, db, expired, history>>

(* The administrator's pause leaves the exam and paused sessions alone. *)
AdminPause ==
    /\ "admin" \in Controls
    /\ Open \ Paused # {}
    /\ pausedAt' = [s \in Session |-> IF s \in Open \ Paused THEN now ELSE pausedAt[s]]
    /\ UNCHANGED <<now, globalAt, status, started, total, snapshot, patches, expired, history>>

(* Its end also resumes sessions the exam's pause has paused. *)
AdminResume ==
    /\ "admin" \in Controls
    /\ Paused # {}
    /\ pausedAt' = [s \in Session |-> None]
    /\ total' = [s \in Session |-> total[s] + Ongoing(pausedAt[s])]
    /\ Bends(IF globalAt = None THEN {} ELSE Paused, "mixed")
    /\ UNCHANGED <<now, globalAt, status, started, snapshot, patches, expired>>

(* The Go reset of an open session ends its pause and counts nothing. *)
GoReset(s) ==
    /\ status[s] = "in_progress"
    /\ pausedAt' = [pausedAt EXCEPT ![s] = None]
    /\ Bends({s} \cap Paused, "mixed")
    /\ UNCHANGED <<now, globalAt, status, started, total, snapshot, patches, expired>>

(* A reopen forgets the pauses in the row, but not those in the snapshot.   *)
(* The Go reopen keeps the total unless it also resets the violations.     *)
Reopen(s) ==
    /\ status[s] # "none"
    /\ now <= ExamEnd
    /\ status' = [status EXCEPT ![s] = "in_progress"]
    /\ pausedAt' = [pausedAt EXCEPT ![s] = None]
    /\ \E kept \in {0, total[s]} : total' = [total EXCEPT ![s] = kept]
    /\ Bends({s}, "reopened")
    /\ UNCHANGED <<now, globalAt, started, snapshot, patches, expired>>

-----------------------------------------------------------------------------
(* The scheduler, every 30 seconds. *)

ToClose == {s \in Open : ShouldClose(s)}

Scan ==
    /\ expired = {}
    /\ ToClose # {}
    /\ expired' = ToClose
    /\ UNCHANGED <<now, db, snapshot, patches, history>>

(* Variant with a bug: the close is not committed. *)
CloseRolledBack ==
    /\ expired # {}
    /\ expired' = {}
    /\ UNCHANGED <<now, db, snapshot, patches, history>>

(* Those of them that are still open are closed; nothing is evaluated anew.*)
CloseExpired ==
    /\ expired # {}
    /\ status' = [s \in Session |-> IF s \in expired \cap Open THEN "submitted" ELSE status[s]]
    /\ expired' = {}
    /\ UNCHANGED <<now, globalAt, started, pausedAt, total, snapshot, patches, history>>

-----------------------------------------------------------------------------

Pauses ==
    \/ PauseExam \/ ResumeExam \/ GoResumeExam
    \/ AdminPause \/ AdminResume
    \/ \E p \in patches : PatchSnapshot(p[1], p[2])

(* Beyond the bound nothing more is looked at. *)
Rest == now = MaxTime /\ UNCHANGED vars

Next ==
    \/ Tick \/ Rest \/ Pauses \/ Scan \/ CloseExpired
    \/ \E s \in Session :
         Start(s) \/ StartAgain(s) \/ HandIn(s) \/ GoReset(s) \/ Reopen(s)

Spec == Init /\ [][Next]_vars

(* celery beat calls the scheduler again and again. *)
Fairness == WF_vars(Scan) /\ WF_vars(CloseExpired)

FairSpec == Spec /\ Fairness

-----------------------------------------------------------------------------
(* Properties. *)

(* A pause costs the student nothing and gives nothing: the time counted   *)
(* is the time the student could work, whatever pauses there were and      *)
(* while they last.  Excepted are sessions started or reopened during a    *)
(* pause and those both kinds of pause took turns on.                      *)
ClockIsFair ==
    \A s \in Session :
        status[s] = "in_progress" /\ past[s] = "plain" => Elapsed(s) = worked[s]

(* The scheduler closes no session for its duration while the clock shown  *)
(* to the student has time left, however its pauses were mixed; only after *)
(* a reopen do the two clocks differ.                                      *)
ClosedOnlyAtZero ==
    \A s \in Open :
        ShouldClose(s) /\ ~ExamEndExpired(s) /\ past[s] # "reopened" => Remaining(s) = 0

(* A session whose time is up is closed, or given time again by a pause or *)
(* a reopen: no order of pauses and resumes leaves it open forever.        *)
ExpiredIsClosed == \A s \in Session : s \in ToClose ~> s \notin ToClose

(* The end of a pause reaches the clock the student polls: once no resume  *)
(* is patching, a session that is not paused shows the time worked.        *)
ResumeReachesTheClock ==
    \A s \in Open :
        past[s] = "plain" /\ ~Frozen(s) /\ patches = {} => FastElapsed(s) = worked[s]

=============================================================================
