---------------------------- MODULE SessionLife ----------------------------
(***************************************************************************)
(* The sessions of one student in one exam, from the start request that    *)
(* creates or recovers one to the submit, the scheduler or the member of   *)
(* staff that ends it, and the resets and reopens that open it again.      *)
(*                                                                         *)
(* Most of these handlers load the session, decide, and write in a later   *)
(* statement without a lock.  The FastAPI ones write through the ORM,      *)
(* which issues an UPDATE of the columns whose value differs from the one  *)
(* it loaded; the Go ones issue a full UPDATE WHERE id.  What the final    *)
(* submit does under its lock is SessionWrites; here it is one step.       *)
(***************************************************************************)
EXTENDS Naturals, FiniteSets

CONSTANTS
    Request,      \* requests, and ticks of the scheduler
    Kinds,        \* the kinds of request that occur
    MaxAttempts,  \* exams.max_attempts
    MaxSessions,  \* bound: session ids the database hands out
    MayForce,     \* bound: sessions in which violations force a submit
    None

Sid == 1..MaxSessions

StaffKinds == {"kick", "goKick", "terminate", "reset", "goReset",
               "reopen", "goReopen", "force", "goForce", "cleanup"}

AllKinds == StaffKinds \cup {"start", "submit", "close"}

ASSUME SessionKindsAssumption == Kinds \subseteq AllKinds
ASSUME AttemptsAssumption == MaxAttempts \in Nat /\ MaxSessions \in Nat
ASSUME ForcedAssumption == MayForce \subseteq Sid
ASSUME NobodyAssumption == None \notin AllKinds

VARIABLES
    sess,    \* exam_sessions, and what their logs say of how they ended
    pc,      \* where each request is; "ok" and "refused" are its answers
    kind,    \* which handler serves it
    on,      \* the sessions it decides on
    looked   \* their rows as it read them

locals == <<kind, on, looked>>
vars   == <<sess, pc, locals>>

(* staffLog: FORCE_SUBMIT_BY_TEACHER, SESSION_TERMINATED or                *)
(* SESSION_FORCE_KICK is among the session's last 30 log rows (bound:      *)
(* no more than 29 rows follow it).  cheatLog: so is the log of a submit    *)
(* that violations forced.                                                 *)
Row == [status   : {"none", "in_progress", "submitted", "terminated", "deleted"},
        byAdmin  : BOOLEAN,
        staffLog : BOOLEAN,
        cheatLog : BOOLEAN]

NoRow == [status |-> "none", byAdmin |-> FALSE, staffLog |-> FALSE, cheatLog |-> FALSE]

(* Sessions that were interrupted, which the recovery rules are for; one of *)
(* them after violations.                                                  *)
Interrupted == {[NoRow EXCEPT !.status = "terminated", !.cheatLog = b] : b \in BOOLEAN}

TypeOK ==
    /\ sess \in [Sid -> Row]
    /\ pc \in [Request -> {"idle", "looked", "judged", "reread", "loaded",
                           "logging", "ok", "refused"}]
    /\ kind \in [Request -> AllKinds \cup {None}]
    /\ on \in [Request -> SUBSET Sid]
    /\ looked \in [Request -> [Sid -> Row]]

Init ==
    /\ \E row \in Interrupted \cup {NoRow} :
         sess = [s \in Sid |-> IF s = 1 THEN row ELSE NoRow]
    /\ pc = [p \in Request |-> "idle"]
    /\ kind = [p \in Request |-> None]
    /\ on = [p \in Request |-> {}]
    /\ looked = [p \in Request |-> [s \in Sid |-> NoRow]]

-----------------------------------------------------------------------------
(* What the handlers read and how they decide. *)

Exists(row) == row.status \notin {"none", "deleted"}

InProgress(view) == {s \in Sid : view[s].status = "in_progress"}

Candidates(view) == {s \in Sid : view[s].status = "terminated"}

Attempts(view) == Cardinality({s \in Sid : view[s].status = "submitted"})

(* Variant with a bug: the flag a kick sets is not looked at. *)
RecoveryByLogOnly(row) ==
    IF row.status = "in_progress" THEN "network"
    ELSE IF row.staffLog THEN "admin"
    ELSE IF row.status = "submitted" THEN "handed_in"
    ELSE IF row.cheatLog THEN "cheating"
    ELSE "network"

(* Variant with a bug: a session nobody ended by hand may continue. *)
RecoveryOfSubmitted(row) ==
    IF row.status = "in_progress" THEN "network"
    ELSE IF row.staffLog \/ row.byAdmin THEN "admin"
    ELSE IF row.status = "terminated" /\ row.cheatLog THEN "cheating"
    ELSE "network"

(* evaluate_session_recovery.  Of a session that was handed in, violations *)
(* change the message only, so their category is part of "handed_in".      *)
Recovery(row) ==
    IF row.status = "in_progress" THEN "network"
    ELSE IF row.staffLog \/ (row.status = "terminated" /\ row.byAdmin) THEN "admin"
    ELSE IF row.status = "submitted" THEN "handed_in"
    ELSE IF row.cheatLog THEN "cheating"
    ELSE "network"

Recoverable(view) == {s \in Candidates(view) : Recovery(view[s]) = "network"}

(* Variant with a bug: no such index. *)
IndexMissing(s, row) == TRUE

(* The unique partial index on (user_id, exam_id) of active sessions.       *)
IndexAllows(s, row) ==
    row.status = "in_progress" => InProgress(sess) \subseteq {s}

Ready(p) == pc[p] \in {"idle", "ok", "refused"}

(* A request of kind k reads the rows of the sessions ss. *)
Looks(p, k, ss, next) ==
    /\ Ready(p)
    /\ k \in Kinds
    /\ pc' = [pc EXCEPT ![p] = next]
    /\ kind' = [kind EXCEPT ![p] = k]
    /\ on' = [on EXCEPT ![p] = ss]
    /\ looked' = [looked EXCEPT ![p] = [s \in Sid |-> IF s \in ss THEN sess[s] ELSE NoRow]]
    /\ UNCHANGED sess

Answers(p, answer) ==
    /\ pc' = [pc EXCEPT ![p] = answer]
    /\ kind' = [kind EXCEPT ![p] = None]
    /\ on' = [on EXCEPT ![p] = {}]
    /\ looked' = [looked EXCEPT ![p] = [s \in Sid |-> NoRow]]

(* A row is written and committed, unless it is gone or the index refuses. *)
Stores(s, row) ==
    /\ Exists(sess[s])
    /\ IndexAllows(s, row)
    /\ sess' = [sess EXCEPT ![s] = row]

(* The row after a flush of the ORM object p loaded: the columns that it    *)
(* did not change keep what other transactions stored meanwhile.            *)
OrmRow(p, s, status, byAdmin, log) ==
    [status   |-> IF status = looked[p][s].status THEN sess[s].status ELSE status,
     byAdmin  |-> IF byAdmin = looked[p][s].byAdmin THEN sess[s].byAdmin ELSE byAdmin,
     staffLog |-> sess[s].staffLog \/ log,
     cheatLog |-> sess[s].cheatLog]
-----------------------------------------------------------------------------
(* The student starts or resumes. *)

(* max_attempts is reached, or there is a session to resume. *)
StartAnsweredAtOnce(p) ==
    /\ Ready(p)
    /\ "start" \in Kinds
    /\ \/ Attempts(sess) >= MaxAttempts /\ Answers(p, "refused")
       \/ /\ Attempts(sess) < MaxAttempts
          /\ InProgress(sess) # {}
          /\ Answers(p, "ok")
    /\ UNCHANGED sess

(* Bound: an id is left for every start that is under way. *)
RoomForStart ==
    Cardinality({p \in Request : kind[p] = "start"})
        < Cardinality({s \in Sid : sess[s].status = "none"})

(* One SELECT reads attempt_count and the sessions that may be resumed. *)
StartLooks(p) ==
    /\ Attempts(sess) < MaxAttempts
    /\ InProgress(sess) = {}
    /\ RoomForStart
    /\ Looks(p, "start", Sid, "looked")

(* Variant with a bug: a session staff ended is passed over. *)
StartJudgesLeniently(p) ==
    /\ pc[p] = "looked"
    /\ looked' = [looked EXCEPT ![p] =
         [s \in Sid |-> [@[s] EXCEPT !.staffLog = sess[s].staffLog,
                                     !.cheatLog = sess[s].cheatLog]]]
    /\ pc' = [pc EXCEPT ![p] = "judged"]
    /\ UNCHANGED <<sess, kind, on>>

(* The logs of the candidates are read, in statements after the first; one *)
(* that staff ended refuses the start, one that violations ended is merely *)
(* passed over.                                                            *)
StartJudges(p) ==
    /\ pc[p] = "looked"
    /\ LET logged == [s \in Sid |->
             [looked[p][s] EXCEPT !.staffLog = sess[s].staffLog,
                                  !.cheatLog = sess[s].cheatLog]]
       IN IF \E s \in Candidates(logged) : Recovery(logged[s]) = "admin"
          THEN Answers(p, "refused")
          ELSE /\ looked' = [looked EXCEPT ![p] = logged]
               /\ pc' = [pc EXCEPT ![p] = "judged"]
               /\ UNCHANGED <<kind, on>>
    /\ UNCHANGED sess

(* UPDATE ... WHERE id, whatever became of the candidate meanwhile. *)
StartRecovers(p) ==
    /\ pc[p] = "judged"
    /\ \E s \in Recoverable(looked[p]) :
         Stores(s, [sess[s] EXCEPT !.status = "in_progress", !.byAdmin = FALSE])
    /\ Answers(p, "ok")

StartInserts(p) ==
    /\ pc[p] = "judged"
    /\ Recoverable(looked[p]) = {}
    /\ \E s \in Sid :
         /\ sess[s].status = "none"
         /\ \A t \in Sid : t < s => sess[t].status # "none"
         /\ IndexAllows(s, [NoRow EXCEPT !.status = "in_progress"])
         /\ sess' = [sess EXCEPT ![s].status = "in_progress"]
    /\ Answers(p, "ok")

(* The index refuses the INSERT: roll back, then look for the winner. *)
StartLosesRace(p) ==
    /\ pc[p] = "judged"
    /\ Recoverable(looked[p]) = {}
    /\ InProgress(sess) # {}
    /\ pc' = [pc EXCEPT ![p] = "reread"]
    /\ UNCHANGED <<sess, locals>>

StartRereads(p) ==
    /\ pc[p] = "reread"
    /\ Answers(p, IF InProgress(sess) # {} THEN "ok" ELSE "refused")
    /\ UNCHANGED sess

(* The student hands the session in, under its lock, or the client does so *)
(* after too many violations (force_submit), which its log remembers.      *)
Submit(p) ==
    /\ Ready(p)
    /\ "submit" \in Kinds
    /\ \E s \in InProgress(sess), forced \in BOOLEAN :
         /\ forced => s \in MayForce
         /\ sess' = [sess EXCEPT ![s].status = "submitted",
                                 ![s].cheatLog = @ \/ forced]
    /\ Answers(p, "ok")

-----------------------------------------------------------------------------
(* Staff and the scheduler. *)

(* A handler loads an open session that it will end. *)
EndingLoads(p) ==
    \E k \in {"close", "force", "goForce", "terminate"}, s \in InProgress(sess) :
        Looks(p, k, {s}, "loaded")

(* Kick and reopen load the session whatever its status. *)
ControlLoads(p) ==
    \E k \in {"kick", "reopen", "goReopen"}, s \in Sid :
        Exists(sess[s]) /\ Looks(p, k, {s}, "loaded")

(* A reset goes on only if the session may continue.  Its logs are read    *)
(* after its row, and no one ends it without setting the row first.        *)
ResetLoads(p) ==
    \E k \in {"reset", "goReset"}, s \in Sid :
        /\ Exists(sess[s])
        /\ Recovery(sess[s]) = "network"
        /\ Looks(p, k, {s}, "loaded")

(* The object p loaded is flushed and committed. *)
Flushes(p, ks, status, byAdmin, log) ==
    /\ pc[p] = "loaded"
    /\ kind[p] \in ks
    /\ \E s \in on[p] : Stores(s, OrmRow(p, s, status, byAdmin[s], log))
    /\ Answers(p, "ok")

FinalizerCommits(p) ==
    LET flag == [s \in Sid |-> looked[p][s].byAdmin]
    IN \/ Flushes(p, {"close"}, "submitted", flag, FALSE)
       \/ Flushes(p, {"force"}, "submitted", flag, TRUE)

(* Variant with a bug: a session that is not open keeps its status. *)
KickCommitsIfOpen(p) ==
    \E status \in {looked[p][s].status : s \in on[p]} :
        Flushes(p, {"kick", "terminate"},
                IF status = "in_progress" THEN "terminated" ELSE status,
                [s \in Sid |-> TRUE], TRUE)

(* The kick and its log are one transaction; so are terminate's. *)
KickCommits(p) ==
    Flushes(p, {"kick", "terminate"}, "terminated", [s \in Sid |-> TRUE], TRUE)

ReopenCommits(p) ==
    Flushes(p, {"reset", "reopen"}, "in_progress", [s \in Sid |-> FALSE], FALSE)

(* The Go reset and reopen: a full UPDATE; of a deleted row, of nothing. *)
GoReopenCommits(p) ==
    /\ pc[p] = "loaded"
    /\ kind[p] \in {"goReset", "goReopen"}
    /\ \E s \in on[p] :
         IF Exists(sess[s])
         THEN Stores(s, [sess[s] EXCEPT !.status = "in_progress", !.byAdmin = FALSE])
         ELSE UNCHANGED sess
    /\ Answers(p, "ok")

(* Variant with a bug: the status the schema does not know. *)
GoKicksAsKicked(p) ==
    \E s \in Sid :
        /\ Exists(sess[s])
        /\ Ready(p)
        /\ "goKick" \in Kinds
        /\ Stores(s, [sess[s] EXCEPT !.status = "kicked", !.byAdmin = TRUE])
        /\ pc' = [pc EXCEPT ![p] = "logging"]
        /\ kind' = [kind EXCEPT ![p] = "goKick"]
        /\ on' = [on EXCEPT ![p] = {s}]
        /\ UNCHANGED looked

(* The Go kick: one UPDATE, then the log in a transaction of its own. *)
GoKicks(p) ==
    \E s \in Sid :
        /\ Exists(sess[s])
        /\ Ready(p)
        /\ "goKick" \in Kinds
        /\ Stores(s, [sess[s] EXCEPT !.status = "terminated", !.byAdmin = TRUE])
        /\ pc' = [pc EXCEPT ![p] = "logging"]
        /\ kind' = [kind EXCEPT ![p] = "goKick"]
        /\ on' = [on EXCEPT ![p] = {s}]
        /\ UNCHANGED looked

GoForceCommits(p) ==
    /\ pc[p] = "loaded"
    /\ kind[p] = "goForce"
    /\ \E s \in on[p] : Stores(s, [sess[s] EXCEPT !.status = "submitted"])
    /\ pc' = [pc EXCEPT ![p] = "logging"]
    /\ UNCHANGED locals

(* Its failure is ignored: the request has succeeded either way. *)
GoLogs(p) ==
    /\ pc[p] = "logging"
    /\ \/ \E s \in on[p] : Stores(s, [sess[s] EXCEPT !.staffLog = TRUE])
       \/ UNCHANGED sess
    /\ Answers(p, "ok")

(* Go only: the exam's open sessions are locked and deleted.  Bound: an id  *)
(* is left for the student to start with.                                  *)
Cleanup(p) ==
    /\ \E s \in Sid : sess[s].status = "none"
    /\ Ready(p)
    /\ "cleanup" \in Kinds
    /\ InProgress(sess) # {}
    /\ sess' = [s \in Sid |-> IF s \in InProgress(sess)
                              THEN [NoRow EXCEPT !.status = "deleted"] ELSE sess[s]]
    /\ Answers(p, "ok")

(* The index or a missing row makes a write fail, or the database does. *)
Fail(p) ==
    /\ pc[p] \in {"looked", "judged", "reread", "loaded"}
    /\ Answers(p, "refused")
    /\ UNCHANGED sess

-----------------------------------------------------------------------------

Start(p) ==
    \/ StartAnsweredAtOnce(p) \/ StartLooks(p) \/ StartJudges(p)
    \/ StartRecovers(p) \/ StartInserts(p) \/ StartLosesRace(p) \/ StartRereads(p)

Control(p) ==
    \/ EndingLoads(p) \/ ControlLoads(p) \/ ResetLoads(p)
    \/ FinalizerCommits(p) \/ KickCommits(p) \/ ReopenCommits(p)
    \/ GoReopenCommits(p) \/ GoKicks(p) \/ GoForceCommits(p) \/ GoLogs(p)
    \/ Cleanup(p)

Next == \E p \in Request : Start(p) \/ Submit(p) \/ Control(p) \/ Fail(p)

Spec == Init /\ [][Next]_vars

-----------------------------------------------------------------------------
(* Properties. *)

(* What p decided on is no longer what is stored. *)
Stale(p) == \E s \in on[p] : looked[p][s] # sess[s]

(* The request that takes this step. *)
Acts(p) == pc'[p] # pc[p]

EndedByStaff(row) == row.status = "terminated" /\ (row.byAdmin \/ row.staffLog)

(* A session that violations interrupted is no attempt that is still open  *)
(* and none that was handed in.                                            *)
Used(view) ==
    {s \in Sid : Exists(view[s]) /\
        (view[s].status = "terminated" => Recovery(view[s]) # "cheating")}

(* A student never has two open sessions in one exam, whichever of start,  *)
(* recovery, reset and reopen race for it.                                 *)
OneActive == \A s, t \in InProgress(sess) : s = t

(* No start gives a student more sessions than max_attempts allows, those  *)
(* that violations interrupted not counted, except a start that was        *)
(* overtaken between its count and its INSERT.                             *)
AttemptsRespected ==
    [][\A s \in Sid :
         ~Exists(sess[s]) /\ Exists(sess'[s]) =>
             \/ Cardinality(Used(sess')) <= MaxAttempts
             \/ \E p \in Request : Acts(p) /\ kind[p] = "start" /\ Stale(p)]_vars

(* What staff ended stays ended until staff reopens it: the student's own  *)
(* start recovers an interrupted session only.  Excepted is a start or a   *)
(* reset that decided before the kick and writes after it.                 *)
KickHolds ==
    [][\A s \in Sid :
         EndedByStaff(sess[s]) /\ sess'[s].status = "in_progress" =>
             \E p \in Request : Acts(p) /\
                 \/ kind[p] \in {"reopen", "goReopen"}
                 \/ kind[p] \in {"start", "reset", "goReset"} /\ Stale(p)]_vars

(* A session that was handed in is opened again by a reopen only, except   *)
(* by a start or a reset that decided before it was handed in.             *)
HandedInStays ==
    [][\A s \in Sid :
         sess[s].status = "submitted" /\ sess'[s].status = "in_progress" =>
             \E p \in Request : Acts(p) /\
                 \/ kind[p] \in {"reopen", "goReopen"}
                 \/ kind[p] \in {"start", "reset", "goReset"} /\ Stale(p)]_vars

(* A kick that reports success has ended the session, also when the        *)
(* student submitted or started meanwhile; only a session that was already *)
(* ended when the kick loaded it, and was reopened since, stays open.      *)
KickTakesEffect ==
    [][\A p \in Request :
         pc[p] = "loaded" /\ pc'[p] = "ok" /\ kind[p] \in {"kick", "terminate"} =>
             \A s \in on[p] :
                 \/ EndedByStaff(sess'[s])
                 \/ looked[p][s].status = "terminated" /\ Stale(p)]_vars

=============================================================================
