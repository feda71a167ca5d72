-------------------------- MODULE ExamTimerProofs --------------------------
(***************************************************************************)
(* Theorems about ExamTimer for any sessions, pause controls, duration and *)
(* end of the exam, tolerances, and any bound on the time.                 *)
(***************************************************************************)
EXTENDS ExamTimer, TLAPS

-----------------------------------------------------------------------------
(* Types.  That a difference of times is not negative needs Timed. *)

(* Nothing was stamped in the future. *)
Timed ==
    /\ globalAt # None => globalAt <= now
    /\ \A s \in Session : /\ pausedAt[s] # None => pausedAt[s] <= now
                          /\ started[s] <= now

Typed == TypeOK /\ Timed

LEMMA OngoingType ==
    ASSUME now \in Nat, NEW at \in Nat \cup {None}, at # None => at <= now
    PROVE  Ongoing(at) \in Nat
BY NullAssumption DEF Ongoing

LEMMA OngoingOf ==
    ASSUME Typed
    PROVE  /\ Ongoing(globalAt) \in Nat
           /\ \A s \in Session : Ongoing(pausedAt[s]) \in Nat
BY OngoingType DEF Typed, TypeOK, Timed

LEMMA BendsType ==
    ASSUME TypeOK, NEW ss, NEW how \in {"mixed", "reopened"}, Bends(ss, how)
    PROVE  /\ past' \in [Session -> {"plain", "mixed", "reopened"}]
           /\ worked' \in [Session -> Nat]
BY DEF Bends, TypeOK

LEMMA ResumesType ==
    ASSUME Typed, Resumes
    PROVE  total' \in [Session -> Nat] /\ pausedAt' \in [Session -> {None}]
<1>1. Ongoing(globalAt) \in Nat
  BY OngoingOf
<1>2. total \in [Session -> Nat]
  BY DEF Typed, TypeOK
<1>3. total' = [s \in Session |->
         IF s \in Paused THEN total[s] + Ongoing(globalAt) ELSE total[s]]
  BY DEF Resumes
<1>4. total' \in [Session -> Nat]
  BY <1>1, <1>2, <1>3
<1>5. QED
  BY <1>4 DEF Resumes

LEMMA PausesType == ASSUME Typed, Pauses PROVE Typed'
<1>1. CASE PauseExam
  <2>1. past' \in [Session -> {"plain", "mixed", "reopened"}] /\ worked' \in [Session -> Nat]
    BY <1>1, BendsType DEF PauseExam, Typed
  <2>2. pausedAt' \in [Session -> Nat \cup {None}]
    BY <1>1 DEF PauseExam, Typed, TypeOK
  <2>3. TypeOK'
    BY <1>1, <2>1, <2>2 DEF PauseExam, Typed, TypeOK
  <2>4. Timed'
    BY <1>1, NullAssumption DEF PauseExam, Typed, TypeOK, Timed
  <2>5. QED
    BY <2>3, <2>4 DEF Typed
<1>2. CASE ResumeExam \/ GoResumeExam
  <2>1. Resumes
    BY <1>2 DEF ResumeExam, GoResumeExam
  <2>2. total' \in [Session -> Nat] /\ pausedAt' \in [Session -> {None}]
    BY <2>1, ResumesType
  <2>3. patches' \subseteq Session \X Nat
    <3>1. Paused \subseteq Session
      BY DEF Paused
    <3>2. \A s \in Session : total'[s] \in Nat
      BY <2>2
    <3>3. { <<s, total'[s]>> : s \in Paused } \subseteq Session \X Nat
      BY <3>1, <3>2
    <3>4. QED
      BY <1>2, <3>3 DEF ResumeExam, GoResumeExam, Typed, TypeOK
  <2>4. TypeOK'
    BY <2>1, <2>2, <2>3 DEF Resumes, history, Typed, TypeOK
  <2>5. Timed'
    BY <2>1, <2>2 DEF Resumes, Typed, TypeOK, Timed
  <2>6. QED
    BY <2>4, <2>5 DEF Typed
<1>3. CASE AdminPause
  <2>1. pausedAt' \in [Session -> Nat \cup {None}]
    BY <1>3 DEF AdminPause, Typed, TypeOK
  <2>2. TypeOK'
    BY <1>3, <2>1 DEF AdminPause, history, Typed, TypeOK
  <2>3. Timed'
    BY <1>3, NullAssumption DEF AdminPause, Typed, TypeOK, Timed
  <2>4. QED
    BY <2>2, <2>3 DEF Typed
<1>4. CASE AdminResume
  <2>1. past' \in [Session -> {"plain", "mixed", "reopened"}] /\ worked' \in [Session -> Nat]
    BY <1>4, BendsType DEF AdminResume, Typed
  <2>2. total' \in [Session -> Nat]
    <3>1. \A s \in Session : total[s] \in Nat /\ Ongoing(pausedAt[s]) \in Nat
      BY OngoingOf DEF Typed, TypeOK
    <3>2. QED
      BY <1>4, <3>1 DEF AdminResume
  <2>3. pausedAt' \in [Session -> {None}]
    BY <1>4 DEF AdminResume
  <2>4. TypeOK'
    BY <1>4, <2>1, <2>2, <2>3 DEF AdminResume, Typed, TypeOK
  <2>5. Timed'
    BY <1>4, <2>3 DEF AdminResume, Typed, TypeOK, Timed
  <2>6. QED
    BY <2>4, <2>5 DEF Typed
<1>5. CASE \E p \in patches : PatchSnapshot(p[1], p[2])
  <2>1. PICK p \in patches : PatchSnapshot(p[1], p[2])
    BY <1>5
  <2>2. p[1] \in Session /\ p[2] \in Nat
    BY DEF Typed, TypeOK
  <2>3. TypeOK' /\ Timed'
    BY <2>1, <2>2 DEF PatchSnapshot, db, history, Typed, TypeOK, Timed
  <2>4. QED
    BY <2>3 DEF Typed
<1>6. QED
  BY <1>1, <1>2, <1>3, <1>4, <1>5 DEF Pauses

SessionStep(s) == Start(s) \/ StartAgain(s) \/ HandIn(s) \/ GoReset(s) \/ Reopen(s)

LEMMA SessionStepType == ASSUME Typed, NEW s \in Session, SessionStep(s) PROVE Typed'
<1>1. CASE Start(s)
  <2>1. past' \in [Session -> {"plain", "mixed", "reopened"}] /\ worked' \in [Session -> Nat]
    BY <1>1, BendsType DEF Start, Typed
  <2>2. /\ now \in Nat /\ now' = now
        /\ status' \in [Session -> {"none", "in_progress", "submitted"}]
        /\ started' = [started EXCEPT ![s] = now]
        /\ started' \in [Session -> Nat]
    BY <1>1 DEF Start, Typed, TypeOK
  <2>3. TypeOK'
    BY <1>1, <2>1, <2>2 DEF Start, Typed, TypeOK
  <2>4. \A t \in Session : started'[t] = IF t = s THEN now ELSE started[t]
    BY <2>2 DEF Typed, TypeOK
  <2>5. Timed'
    BY <1>1, <2>2, <2>4 DEF Start, Typed, Timed
  <2>6. QED
    BY <2>3, <2>5 DEF Typed
<1>2. CASE StartAgain(s)
  BY <1>2 DEF StartAgain, Larger, db, history, Typed, TypeOK, Timed
<1>3. CASE HandIn(s)
  BY <1>3 DEF HandIn, history, Typed, TypeOK, Timed
<1>4. CASE GoReset(s)
  <2>1. past' \in [Session -> {"plain", "mixed", "reopened"}] /\ worked' \in [Session -> Nat]
    BY <1>4, BendsType DEF GoReset, Typed
  <2>2. pausedAt' \in [Session -> Nat \cup {None}]
    BY <1>4 DEF GoReset, Typed, TypeOK
  <2>3. TypeOK'
    BY <1>4, <2>1, <2>2 DEF GoReset, Typed, TypeOK
  <2>4. Timed'
    BY <1>4 DEF GoReset, Typed, TypeOK, Timed
  <2>5. QED
    BY <2>3, <2>4 DEF Typed
<1>5. CASE Reopen(s)
  <2>1. past' \in [Session -> {"plain", "mixed", "reopened"}] /\ worked' \in [Session -> Nat]
    BY <1>5, BendsType DEF Reopen, Typed
  <2>2. TypeOK' /\ Timed'
    <3>1. PICK kept \in {0, total[s]} : total' = [total EXCEPT ![s] = kept]
      BY <1>5 DEF Reopen
    <3>2. kept \in Nat
      BY <3>1 DEF Typed, TypeOK
    <3>3. total' \in [Session -> Nat]
      BY <3>1, <3>2 DEF Typed, TypeOK
    <3>4. QED
      BY <1>5, <2>1, <3>3 DEF Reopen, Typed, TypeOK, Timed
  <2>3. QED
    BY <2>2 DEF Typed
<1>6. QED
  BY <1>1, <1>2, <1>3, <1>4, <1>5 DEF SessionStep

LEMMA ClockType ==
    ASSUME Typed, Tick \/ Rest \/ Scan \/ CloseExpired \/ UNCHANGED vars
    PROVE  Typed'
<1>1. CASE Tick
  BY <1>1, NullAssumption DEF Tick, db, Typed, TypeOK, Timed
<1>2. CASE Rest \/ UNCHANGED vars
  BY <1>2 DEF Rest, vars, db, history, Typed, TypeOK, Timed
<1>3. CASE Scan
  BY <1>3 DEF Scan, ToClose, Open, db, history, Typed, TypeOK, Timed
<1>4. CASE CloseExpired
  <2>1. status' \in [Session -> {"none", "in_progress", "submitted"}]
    BY <1>4 DEF CloseExpired, Typed, TypeOK
  <2>2. TypeOK' /\ Timed'
    BY <1>4, <2>1 DEF CloseExpired, history, Typed, TypeOK, Timed
  <2>3. QED
    BY <2>2 DEF Typed
<1>5. QED
  BY <1>1, <1>2, <1>3, <1>4

LEMMA TypedStep == Typed /\ [Next]_vars => Typed'
BY PausesType, SessionStepType, ClockType DEF Next, SessionStep

LEMMA TypedInit == Init => Typed
BY DEF Init, Typed, TypeOK, Timed

(* Every field of the clock is a time or a length of time: no reading of it *)
(* subtracts a later moment from an earlier one.                           *)
THEOREM TypeCorrect == Spec => []TypeOK
<1>1. Typed => TypeOK
  BY DEF Typed
<1>2. QED
  BY <1>1, TypedInit, TypedStep, PTL DEF Spec

-----------------------------------------------------------------------------
(* The three readings of a session's pauses. *)

(* Redis is not ahead of PostgreSQL, nor will a resume's patches put it     *)
(* ahead; a reopen, which zeroes the row's total only, ends this.           *)
Behind(s) ==
    past[s] # "reopened" =>
        /\ snapshot[s] <= total[s]
        /\ \A n \in Nat : <<s, n>> \in patches => n <= total[s]

(* Nothing was recorded about a session that has not started. *)
Fresh(s) ==
    status[s] = "none" =>
        /\ pausedAt[s] = None /\ total[s] = 0 /\ snapshot[s] = 0 /\ worked[s] = 0
        /\ \A n \in Nat : <<s, n>> \notin patches

(* The time since the start is the time worked and the time paused, and an  *)
(* exam-wide pause has paused the session when it began.                   *)
Level(s) ==
    past[s] = "plain" /\ status[s] = "in_progress" =>
        /\ globalAt # None => pausedAt[s] = globalAt
        /\ now - started[s] = worked[s] + total[s] + Ongoing(pausedAt[s])

Clock == \A s \in Session : Behind(s) /\ Fresh(s) /\ Level(s)

LEMMA BentWhere ==
    ASSUME TypeOK, NEW ss, NEW how, Bends(ss, how), NEW s \in Session
    PROVE  /\ s \notin ss => past'[s] = past[s] /\ worked'[s] = worked[s]
           /\ s \in ss => worked'[s] = 0 /\ past'[s] \in {how, "reopened"}
           /\ past[s] = "reopened" => past'[s] = "reopened"
BY DEF Bends, TypeOK

LEMMA ResumesAt ==
    ASSUME Typed, Resumes, NEW s \in Session
    PROVE  /\ pausedAt'[s] = None /\ globalAt' = None
           /\ total[s] \in Nat /\ Ongoing(globalAt) \in Nat
           /\ total'[s] = IF pausedAt[s] # None THEN total[s] + Ongoing(globalAt) ELSE total[s]
           /\ total'[s] >= total[s]
           /\ now' = now /\ status' = status /\ started' = started /\ snapshot' = snapshot
           /\ worked' = worked /\ past' = past
<1>1. total[s] \in Nat /\ Ongoing(globalAt) \in Nat
  BY OngoingOf DEF Typed, TypeOK
<1>2. total'[s] = IF pausedAt[s] # None THEN total[s] + Ongoing(globalAt) ELSE total[s]
  BY DEF Resumes, Paused
<1>3. QED
  BY <1>1, <1>2 DEF Resumes, history

LEMMA ResumePatches ==
    ASSUME Typed, ResumeExam \/ GoResumeExam, NEW s \in Session, NEW n \in Nat,
           <<s, n>> \in patches'
    PROVE  <<s, n>> \in patches \/ (n = total'[s] /\ pausedAt[s] # None)
<1>1. CASE GoResumeExam
  BY <1>1 DEF GoResumeExam
<1>2. CASE ResumeExam
  <2>1. SUFFICES ASSUME <<s, n>> \in { <<t, total'[t]>> : t \in Paused }
                 PROVE  n = total'[s] /\ pausedAt[s] # None
    BY <1>2 DEF ResumeExam
  <2>2. PICK t \in Paused : <<s, n>> = <<t, total'[t]>>
    BY <2>1
  <2>3. QED
    BY <2>2 DEF Paused
<1>3. QED
  BY <1>1, <1>2

LEMMA AdminResumesAt ==
    ASSUME Typed, AdminResume, NEW s \in Session
    PROVE  /\ pausedAt'[s] = None
           /\ total[s] \in Nat /\ Ongoing(pausedAt[s]) \in Nat
           /\ total'[s] = total[s] + Ongoing(pausedAt[s])
           /\ total'[s] >= total[s]
<1>1. total[s] \in Nat /\ Ongoing(pausedAt[s]) \in Nat
  BY OngoingOf DEF Typed, TypeOK
<1>2. QED
  BY <1>1 DEF AdminResume

(* The steps that leave a session's row, snapshot and patches alone. *)
LEMMA BehindSame ==
    ASSUME NEW s \in Session, Behind(s), total'[s] = total[s], snapshot'[s] = snapshot[s],
           patches' = patches, past[s] = "reopened" => past'[s] = "reopened"
    PROVE  Behind(s)'
BY DEF Behind

LEMMA BehindPauses ==
    ASSUME Typed, NEW s \in Session, Behind(s), Pauses
    PROVE  Behind(s)'
<1>0. total[s] \in Nat /\ snapshot[s] \in Nat
  BY DEF Typed, TypeOK
<1>1. CASE PauseExam
  BY <1>1, BentWhere, BehindSame DEF PauseExam, Typed
<1>2. CASE ResumeExam \/ GoResumeExam
  <2>1. Resumes
    BY <1>2 DEF ResumeExam, GoResumeExam
  <2>2. total'[s] >= total[s] /\ total'[s] \in Nat /\ snapshot' = snapshot /\ past' = past
    BY <2>1, ResumesAt
  <2>3. ASSUME NEW n \in Nat, <<s, n>> \in patches', past[s] # "reopened"
        PROVE  n <= total'[s]
    BY <1>0, <1>2, <2>2, <2>3, ResumePatches DEF Behind
  <2>4. QED
    BY <1>0, <2>2, <2>3 DEF Behind
<1>3. CASE AdminPause
  BY <1>3, BehindSame DEF AdminPause, history
<1>4. CASE AdminResume
  <2>1. total'[s] >= total[s] /\ total'[s] \in Nat
    BY <1>4, AdminResumesAt
  <2>2. past[s] = "reopened" => past'[s] = "reopened"
    BY <1>4, BentWhere DEF AdminResume, Typed
  <2>3. snapshot' = snapshot /\ patches' = patches
    BY <1>4 DEF AdminResume
  <2>4. QED
    BY <1>0, <2>1, <2>2, <2>3 DEF Behind
<1>5. CASE \E p \in patches : PatchSnapshot(p[1], p[2])
  <2>1. PICK p \in patches : PatchSnapshot(p[1], p[2])
    BY <1>5
  <2>2. p[1] \in Session /\ p[2] \in Nat /\ p = <<p[1], p[2]>>
    BY DEF Typed, TypeOK
  <2>3. /\ patches' \subseteq patches
        /\ snapshot'[s] = IF s = p[1] THEN p[2] ELSE snapshot[s]
        /\ total' = total /\ past' = past
    BY <2>1, <2>2 DEF PatchSnapshot, db, history, Typed, TypeOK
  <2>4. QED
    BY <2>2, <2>3 DEF Behind
<1>6. QED
  BY <1>1, <1>2, <1>3, <1>4, <1>5 DEF Pauses

LEMMA BehindSession ==
    ASSUME Typed, NEW s \in Session, Behind(s), NEW t \in Session, SessionStep(t)
    PROVE  Behind(s)'
<1>0. total[s] \in Nat /\ snapshot[s] \in Nat
  BY DEF Typed, TypeOK
<1>1. CASE Start(t)
  BY <1>1, BentWhere, BehindSame DEF Start, Typed
<1>2. CASE StartAgain(t)
  <2>1. snapshot'[s] = IF s = t THEN Larger(snapshot[s], total[s]) ELSE snapshot[s]
    BY <1>2 DEF StartAgain, Typed, TypeOK
  <2>2. QED
    BY <1>0, <1>2, <2>1 DEF StartAgain, Larger, Behind, db, history
<1>3. CASE HandIn(t)
  BY <1>3, BehindSame DEF HandIn, history
<1>4. CASE GoReset(t)
  BY <1>4, BentWhere, BehindSame DEF GoReset, Typed
<1>5. CASE Reopen(t)
  <2>1. CASE s = t
    <3>1. past'[s] = "reopened"
      BY <1>5, <2>1, BentWhere DEF Reopen, Typed
    <3>2. QED
      BY <3>1 DEF Behind
  <2>2. CASE s # t
    <3>1. total'[s] = total[s] /\ snapshot' = snapshot /\ patches' = patches
      BY <1>5, <2>2 DEF Reopen, Typed, TypeOK
    <3>2. QED
      BY <1>5, <3>1, BentWhere, BehindSame DEF Reopen, Typed
  <2>3. QED
    BY <2>1, <2>2
<1>6. QED
  BY <1>1, <1>2, <1>3, <1>4, <1>5 DEF SessionStep

LEMMA BehindStep ==
    ASSUME Typed, NEW s \in Session, Behind(s), [Next]_vars
    PROVE  Behind(s)'
<1>1. CASE Tick \/ Rest \/ Scan \/ CloseExpired \/ UNCHANGED vars
  BY <1>1, BehindSame DEF Tick, Rest, Scan, CloseExpired, vars, db, history
<1>2. QED
  BY <1>1, BehindPauses, BehindSession DEF Next, SessionStep

LEMMA FreshSame ==
    ASSUME NEW s \in Session, Fresh(s), status'[s] = "none" => status[s] = "none",
           pausedAt'[s] = pausedAt[s], total'[s] = total[s], snapshot'[s] = snapshot[s],
           worked'[s] \in {worked[s], 0}, patches' \subseteq patches
    PROVE  Fresh(s)'
BY DEF Fresh

LEMMA FreshPauses ==
    ASSUME Typed, NEW s \in Session, Fresh(s), Pauses
    PROVE  Fresh(s)'
<1>0. SUFFICES ASSUME status'[s] = "none" PROVE Fresh(s)'
  BY DEF Fresh
<1>1. status' = status
  BY DEF Pauses, PauseExam, ResumeExam, GoResumeExam, Resumes, AdminPause, AdminResume,
         PatchSnapshot, db
<1>2. /\ status[s] = "none" /\ pausedAt[s] = None /\ total[s] = 0 /\ snapshot[s] = 0
      /\ worked[s] = 0 /\ \A n \in Nat : <<s, n>> \notin patches
  BY <1>0, <1>1 DEF Fresh
<1>3. s \notin Open /\ s \notin Paused
  BY <1>2 DEF Open, Paused
<1>4. CASE PauseExam
  <2>1. worked'[s] = worked[s]
    BY <1>3, <1>4, BentWhere DEF PauseExam, Typed
  <2>2. QED
    BY <1>1, <1>3, <1>4, <2>1, FreshSame DEF PauseExam
<1>5. CASE ResumeExam \/ GoResumeExam
  <2>1. Resumes
    BY <1>5 DEF ResumeExam, GoResumeExam
  <2>2. /\ pausedAt'[s] = None /\ total'[s] = 0 /\ snapshot' = snapshot /\ worked' = worked
    BY <1>2, <2>1, ResumesAt
  <2>3. \A n \in Nat : <<s, n>> \notin patches'
    BY <1>2, <1>5, ResumePatches
  <2>4. QED
    BY <1>2, <2>2, <2>3 DEF Fresh
<1>6. CASE AdminPause
  BY <1>1, <1>3, <1>6, FreshSame DEF AdminPause, history
<1>7. CASE AdminResume
  <2>1. worked'[s] = worked[s]
    BY <1>3, <1>7, BentWhere DEF AdminResume, Typed
  <2>2. pausedAt'[s] = None /\ total'[s] = 0
    BY <1>2, <1>7 DEF AdminResume, Ongoing
  <2>3. QED
    BY <1>1, <1>2, <1>7, <2>1, <2>2, FreshSame DEF AdminResume
<1>8. CASE \E p \in patches : PatchSnapshot(p[1], p[2])
  <2>1. PICK p \in patches : PatchSnapshot(p[1], p[2])
    BY <1>8
  <2>2. p[1] \in Session /\ p[2] \in Nat /\ p = <<p[1], p[2]>>
    BY DEF Typed, TypeOK
  <2>3. s # p[1]
    BY <1>2, <2>2
  <2>4. snapshot'[s] = snapshot[s]
    BY <2>1, <2>3 DEF PatchSnapshot, Typed, TypeOK
  <2>5. QED
    BY <1>1, <2>1, <2>4, FreshSame DEF PatchSnapshot, db, history
<1>9. QED
  BY <1>4, <1>5, <1>6, <1>7, <1>8 DEF Pauses

LEMMA FreshSession ==
    ASSUME Typed, NEW s \in Session, Fresh(s), NEW t \in Session, SessionStep(t)
    PROVE  Fresh(s)'
<1>1. CASE Start(t)
  <2>1. worked'[s] \in {worked[s], 0}
    BY <1>1, BentWhere DEF Start, Typed
  <2>2. status'[s] = "none" => status[s] = "none"
    BY <1>1 DEF Start, Typed, TypeOK
  <2>3. QED
    BY <1>1, <2>1, <2>2, FreshSame DEF Start
<1>2. CASE StartAgain(t)
  <2>1. s = t => status'[s] # "none"
    BY <1>2 DEF StartAgain, db
  <2>2. s # t => snapshot'[s] = snapshot[s]
    BY <1>2 DEF StartAgain, Typed, TypeOK
  <2>3. QED
    BY <1>2, <2>1, <2>2, FreshSame DEF StartAgain, db, history, Fresh
<1>3. CASE HandIn(t)
  <2>1. status'[s] = "none" => status[s] = "none"
    BY <1>3 DEF HandIn, Typed, TypeOK
  <2>2. QED
    BY <1>3, <2>1, FreshSame DEF HandIn, history
<1>4. CASE GoReset(t)
  <2>1. worked'[s] \in {worked[s], 0}
    BY <1>4, BentWhere DEF GoReset, Typed
  <2>2. s = t => status'[s] # "none"
    BY <1>4 DEF GoReset
  <2>3. s # t => pausedAt'[s] = pausedAt[s]
    BY <1>4 DEF GoReset, Typed, TypeOK
  <2>4. QED
    BY <1>4, <2>1, <2>2, <2>3, FreshSame DEF GoReset, Fresh
<1>5. CASE Reopen(t)
  <2>1. worked'[s] \in {worked[s], 0}
    BY <1>5, BentWhere DEF Reopen, Typed
  <2>2. s = t => status'[s] # "none"
    BY <1>5 DEF Reopen, Typed, TypeOK
  <2>3. s # t => status'[s] = status[s] /\ pausedAt'[s] = pausedAt[s] /\ total'[s] = total[s]
    BY <1>5 DEF Reopen, Typed, TypeOK
  <2>4. QED
    BY <1>5, <2>1, <2>2, <2>3, FreshSame DEF Reopen, Fresh
<1>6. QED
  BY <1>1, <1>2, <1>3, <1>4, <1>5 DEF SessionStep

LEMMA FreshStep ==
    ASSUME Typed, NEW s \in Session, Fresh(s), [Next]_vars
    PROVE  Fresh(s)'
<1>1. CASE Tick
  <2>1. status'[s] = "none" => worked'[s] = worked[s]
    BY <1>1 DEF Tick, db
  <2>2. QED
    BY <1>1, <2>1 DEF Tick, db, Fresh
<1>2. CASE Rest \/ Scan \/ UNCHANGED vars
  BY <1>2, FreshSame DEF Rest, Scan, vars, db, history
<1>3. CASE CloseExpired
  <2>1. status'[s] = "none" => status[s] = "none"
    BY <1>3 DEF CloseExpired
  <2>2. QED
    BY <1>3, <2>1, FreshSame DEF CloseExpired, history
<1>4. QED
  BY <1>1, <1>2, <1>3, FreshPauses, FreshSession DEF Next, SessionStep

(* Now the sum.  What it reads of a plain open session: *)
LEMMA LevelSame ==
    ASSUME NEW s \in Session, Level(s), now' = now, globalAt' = globalAt,
           status'[s] = "in_progress" => status[s] = "in_progress",
           started'[s] = started[s], pausedAt'[s] = pausedAt[s], total'[s] = total[s],
           past'[s] = "plain" => past[s] = "plain" /\ worked'[s] = worked[s]
    PROVE  Level(s)'
BY DEF Level, Ongoing

LEMMA LevelPauses ==
    ASSUME Typed, NEW s \in Session, Level(s), Pauses
    PROVE  Level(s)'
<1>0. SUFFICES ASSUME past'[s] = "plain", status'[s] = "in_progress" PROVE Level(s)'
  BY DEF Level
<1>1. status' = status /\ started' = started /\ now' = now
  BY DEF Pauses, PauseExam, ResumeExam, GoResumeExam, Resumes, AdminPause, AdminResume,
         PatchSnapshot, db
<1>2. /\ status[s] = "in_progress" /\ s \in Open
      /\ now \in Nat /\ started[s] \in Nat /\ worked[s] \in Nat /\ total[s] \in Nat
      /\ Ongoing(pausedAt[s]) \in Nat
  BY <1>0, <1>1, OngoingOf DEF Open, Typed, TypeOK
<1>3. CASE PauseExam
  <2>1. s \notin Paused /\ past[s] = "plain" /\ worked'[s] = worked[s]
    BY <1>0, <1>3, BentWhere DEF PauseExam, Typed
  <2>2. pausedAt[s] = None /\ pausedAt'[s] = now /\ globalAt' = now /\ total' = total
    BY <1>2, <1>3, <2>1 DEF PauseExam, Paused
  <2>3. Ongoing(pausedAt[s]) = 0 /\ Ongoing(pausedAt[s])' = 0
    BY <1>1, <1>2, <2>2 DEF Ongoing
  <2>4. QED
    BY <1>1, <1>2, <2>1, <2>2, <2>3 DEF Level
<1>4. CASE ResumeExam \/ GoResumeExam
  <2>1. Resumes
    BY <1>4 DEF ResumeExam, GoResumeExam
  <2>2. /\ pausedAt'[s] = None /\ globalAt' = None /\ worked' = worked /\ past' = past
        /\ total'[s] = IF pausedAt[s] # None THEN total[s] + Ongoing(globalAt) ELSE total[s]
    BY <2>1, ResumesAt
  <2>3. pausedAt[s] = globalAt /\ globalAt # None
    BY <1>0, <1>2, <2>1, <2>2 DEF Level, Resumes
  <2>4. total'[s] = total[s] + Ongoing(pausedAt[s]) /\ Ongoing(pausedAt[s])' = 0
    BY <2>2, <2>3 DEF Ongoing
  <2>5. QED
    BY <1>0, <1>1, <1>2, <2>2, <2>4 DEF Level
<1>5. CASE AdminPause
  <2>1. globalAt' = globalAt /\ total' = total /\ worked' = worked /\ past' = past
    BY <1>5 DEF AdminPause, history
  <2>2. CASE pausedAt[s] # None
    <3>1. pausedAt'[s] = pausedAt[s]
      BY <1>5, <2>2 DEF AdminPause, Paused
    <3>2. QED
      BY <1>1, <2>1, <3>1, LevelSame
  <2>3. CASE pausedAt[s] = None
    <3>1. pausedAt'[s] = now
      BY <1>2, <1>5, <2>3 DEF AdminPause, Paused
    <3>2. globalAt = None
      BY <1>0, <1>2, <2>1, <2>3 DEF Level
    <3>3. Ongoing(pausedAt[s]) = 0 /\ Ongoing(pausedAt[s])' = 0
      BY <1>1, <1>2, <2>3, <3>1 DEF Ongoing
    <3>4. QED
      BY <1>0, <1>1, <1>2, <2>1, <3>2, <3>3 DEF Level
  <2>4. QED
    BY <2>2, <2>3
<1>6. CASE AdminResume
  <2>1. /\ pausedAt'[s] = None /\ total'[s] = total[s] + Ongoing(pausedAt[s])
    BY <1>6, AdminResumesAt
  <2>2. globalAt' = globalAt /\ s \notin (IF globalAt = None THEN {} ELSE Paused)
    BY <1>0, <1>6, BentWhere DEF AdminResume, Typed
  <2>3. past[s] = "plain" /\ worked'[s] = worked[s]
    BY <1>0, <1>6, <2>2, BentWhere DEF AdminResume, Typed
  <2>4. globalAt = None
    BY <1>2, <2>2, <2>3 DEF Level, Paused
  <2>5. Ongoing(pausedAt[s])' = 0
    BY <2>1 DEF Ongoing
  <2>6. QED
    BY <1>1, <1>2, <2>1, <2>2, <2>3, <2>4, <2>5 DEF Level
<1>7. CASE \E p \in patches : PatchSnapshot(p[1], p[2])
  BY <1>7, LevelSame DEF PatchSnapshot, db, history
<1>8. QED
  BY <1>3, <1>4, <1>5, <1>6, <1>7 DEF Pauses

LEMMA LevelSession ==
    ASSUME Typed, NEW s \in Session, Level(s), Fresh(s), NEW t \in Session, SessionStep(t)
    PROVE  Level(s)'
<1>1. CASE Start(t)
  <2>1. now \in Nat /\ now' = now
    BY <1>1 DEF Start, Typed, TypeOK
  <2>2. CASE s = t
    <3>1. /\ status[s] = "none" /\ started'[s] = now /\ pausedAt' = pausedAt /\ total' = total
          /\ globalAt' = globalAt
      BY <1>1, <2>2 DEF Start, Typed, TypeOK
    <3>2. SUFFICES ASSUME past'[s] = "plain" PROVE Level(s)'
      BY DEF Level
    <3>3. s \notin (IF globalAt = None THEN {} ELSE {t})
      BY <1>1, <3>2, BentWhere DEF Start, Typed
    <3>4. globalAt = None /\ worked'[s] = worked[s]
      BY <1>1, <2>2, <3>3, BentWhere DEF Start, Typed
    <3>5. pausedAt[s] = None /\ total[s] = 0 /\ worked[s] = 0
      BY <3>1 DEF Fresh
    <3>6. Ongoing(pausedAt[s])' = 0
      BY <3>1, <3>5 DEF Ongoing
    <3>7. QED
      BY <2>1, <3>1, <3>4, <3>5, <3>6 DEF Level
  <2>3. CASE s # t
    <3>1. status'[s] = status[s] /\ started'[s] = started[s]
      BY <1>1, <2>3 DEF Start, Typed, TypeOK
    <3>2. past'[s] = past[s] /\ worked'[s] = worked[s]
      BY <1>1, <2>3, BentWhere DEF Start, Typed
    <3>3. QED
      BY <1>1, <3>1, <3>2, LevelSame DEF Start
  <2>4. QED
    BY <2>2, <2>3
<1>2. CASE StartAgain(t)
  BY <1>2, LevelSame DEF StartAgain, db, history
<1>3. CASE HandIn(t)
  <2>1. status'[s] = "in_progress" => status[s] = "in_progress"
    BY <1>3 DEF HandIn, Typed, TypeOK
  <2>2. QED
    BY <1>3, <2>1, LevelSame DEF HandIn, history
<1>4. CASE GoReset(t)
  <2>1. past'[s] = "plain" => s \notin {t} \cap Paused
    BY <1>4, BentWhere DEF GoReset, Typed
  <2>2. past'[s] = "plain" => past[s] = "plain" /\ worked'[s] = worked[s]
    BY <1>4, <2>1, BentWhere DEF GoReset, Typed
  <2>3. past'[s] = "plain" => pausedAt'[s] = pausedAt[s]
    BY <1>4, <2>1 DEF GoReset, Paused, Typed, TypeOK
  <2>4. SUFFICES ASSUME past'[s] = "plain" PROVE Level(s)'
    BY DEF Level
  <2>5. QED
    BY <1>4, <2>2, <2>3, <2>4, LevelSame DEF GoReset
<1>5. CASE Reopen(t)
  <2>1. CASE s = t
    <3>1. past'[s] = "reopened"
      BY <1>5, <2>1, BentWhere DEF Reopen, Typed
    <3>2. QED
      BY <3>1 DEF Level
  <2>2. CASE s # t
    <3>1. status'[s] = status[s] /\ pausedAt'[s] = pausedAt[s] /\ total'[s] = total[s]
      BY <1>5, <2>2 DEF Reopen, Typed, TypeOK
    <3>2. past'[s] = past[s] /\ worked'[s] = worked[s]
      BY <1>5, <2>2, BentWhere DEF Reopen, Typed
    <3>3. QED
      BY <1>5, <3>1, <3>2, LevelSame DEF Reopen
  <2>3. QED
    BY <2>1, <2>2
<1>6. QED
  BY <1>1, <1>2, <1>3, <1>4, <1>5 DEF SessionStep

LEMMA LevelTick ==
    ASSUME Typed, NEW s \in Session, Level(s), Tick
    PROVE  Level(s)'
<1>1. SUFFICES ASSUME past'[s] = "plain", status'[s] = "in_progress" PROVE Level(s)'
  BY DEF Level
<1>2. /\ past[s] = "plain" /\ status[s] = "in_progress" /\ now' = now + 1
      /\ globalAt' = globalAt /\ pausedAt' = pausedAt /\ total' = total /\ started' = started
  BY <1>1 DEF Tick, db
<1>3. /\ now \in Nat /\ started[s] \in Nat /\ worked[s] \in Nat /\ total[s] \in Nat
      /\ pausedAt[s] \in Nat \cup {None}
  BY DEF Typed, TypeOK
<1>4. CASE pausedAt[s] = None
  <2>1. ~Frozen(s)
    BY <1>2, <1>4 DEF Level, Frozen
  <2>2. worked'[s] = worked[s] + 1
    BY <1>2, <2>1 DEF Tick
  <2>3. Ongoing(pausedAt[s]) = 0 /\ Ongoing(pausedAt[s])' = 0
    BY <1>2, <1>4 DEF Ongoing
  <2>4. QED
    BY <1>2, <1>3, <2>2, <2>3 DEF Level
<1>5. CASE pausedAt[s] # None
  <2>1. worked'[s] = worked[s]
    BY <1>5 DEF Tick, Frozen
  <2>2. /\ pausedAt[s] \in Nat
        /\ Ongoing(pausedAt[s]) = now - pausedAt[s]
        /\ Ongoing(pausedAt[s])' = (now + 1) - pausedAt[s]
    BY <1>2, <1>3, <1>5 DEF Ongoing
  <2>3. QED
    BY <1>2, <1>3, <2>1, <2>2 DEF Level
<1>6. QED
  BY <1>4, <1>5

LEMMA LevelStep ==
    ASSUME Typed, NEW s \in Session, Level(s), Fresh(s), [Next]_vars
    PROVE  Level(s)'
<1>1. CASE Rest \/ Scan \/ UNCHANGED vars
  BY <1>1, LevelSame DEF Rest, Scan, vars, db, history
<1>2. CASE CloseExpired
  <2>1. status'[s] = "in_progress" => status[s] = "in_progress"
    BY <1>2 DEF CloseExpired
  <2>2. QED
    BY <1>2, <2>1, LevelSame DEF CloseExpired, history
<1>3. QED
  BY <1>1, <1>2, LevelTick, LevelPauses, LevelSession DEF Next, SessionStep

LEMMA ClockInit == Init => Clock
<1> SUFFICES ASSUME Init, NEW s \in Session PROVE Behind(s) /\ Fresh(s) /\ Level(s)
  BY DEF Clock
<1>1. /\ status[s] = "none" /\ pausedAt[s] = None /\ worked[s] = 0
      /\ total[s] = 0 /\ snapshot[s] = 0 /\ patches = {}
  BY DEF Init
<1>2. QED
  BY <1>1 DEF Behind, Fresh, Level

LEMMA ClockStep == Typed /\ Clock /\ [Next]_vars => Clock'
<1> SUFFICES ASSUME Typed, Clock, [Next]_vars, NEW s \in Session
             PROVE  Behind(s)' /\ Fresh(s)' /\ Level(s)'
  BY DEF Clock
<1>1. Behind(s) /\ Fresh(s) /\ Level(s)
  BY DEF Clock
<1>2. QED
  BY <1>1, BehindStep, FreshStep, LevelStep

-----------------------------------------------------------------------------

(* From these readings the clock a student is shown can be read off. *)
LEMMA ClockTold ==
    ASSUME Typed, Clock
    PROVE  ClockIsFair
<1> SUFFICES ASSUME NEW s \in Session, status[s] = "in_progress", past[s] = "plain"
             PROVE  Elapsed(s) = worked[s]
  BY DEF ClockIsFair
<1>1. /\ snapshot[s] <= total[s]
      /\ globalAt # None => pausedAt[s] = globalAt
      /\ now - started[s] = worked[s] + total[s] + Ongoing(pausedAt[s])
  BY DEF Clock, Behind, Level
<1>2. /\ now \in Nat /\ started[s] \in Nat /\ worked[s] \in Nat /\ total[s] \in Nat
      /\ snapshot[s] \in Nat /\ Ongoing(pausedAt[s]) \in Nat /\ Ongoing(globalAt) \in Nat
  BY OngoingOf DEF Typed, TypeOK
<1>3. globalAt = None => Ongoing(globalAt) = 0
  BY DEF Ongoing
<1>4. OngoingPause(s) = Ongoing(pausedAt[s])
  BY <1>1, <1>2, <1>3 DEF OngoingPause, Larger
<1>5. Larger(snapshot[s], total[s]) = total[s]
  BY <1>1, <1>2 DEF Larger
<1>6. QED
  BY <1>1, <1>2, <1>4, <1>5 DEF Elapsed, Minus

(* Whatever pauses, resumes, resets and hand-ins happen, the clock a student *)
(* is shown counts the time worked, paused or not.                         *)
THEOREM ClockFair == Spec => []ClockIsFair
BY ClockTold, TypedInit, TypedStep, ClockInit, ClockStep, PTL DEF Spec

(* The scheduler's clock never runs out before the student's, except after  *)
(* a reopen.                                                               *)
THEOREM ClosedAtZero == Spec => []ClosedOnlyAtZero
<1>1. Typed /\ Clock => ClosedOnlyAtZero
  <2> SUFFICES ASSUME Typed, Clock, NEW s \in Open, ShouldClose(s), ~ExamEndExpired(s),
                      past[s] # "reopened"
               PROVE  Remaining(s) = 0
    BY DEF ClosedOnlyAtZero
  <2>1. s \in Session
    BY DEF Open
  <2>2. ~StalePause(s) /\ ~Frozen(s) /\ DurationExpired(s)
    BY DEF ExamEndExpired, ShouldClose
  <2>3. OngoingPause(s) = 0
    BY <2>2 DEF Frozen, OngoingPause, Ongoing, Larger
  <2>4. /\ now \in Nat /\ started[s] \in Nat /\ total[s] \in Nat /\ snapshot[s] \in Nat
        /\ started[s] <= now /\ snapshot[s] <= total[s]
    BY <2>1 DEF Typed, TypeOK, Timed, Clock, Behind
  <2>5. Larger(snapshot[s], total[s]) = total[s]
    BY <2>4 DEF Larger
  <2>6. Minus(now - started[s], total[s]) > Duration + Tolerance
    BY <2>2, <2>3, <2>4 DEF DurationExpired, CountedPause
  <2>7. Elapsed(s) = Minus(now - started[s], total[s])
    BY <2>3, <2>4, <2>5 DEF Elapsed
  <2>8. Elapsed(s) \in Int /\ Elapsed(s) > Duration
    BY <2>4, <2>6, <2>7, TimesAssumption DEF Minus
  <2>9. QED
    BY <2>8, TimesAssumption DEF Remaining, Minus
<1>2. QED
  BY <1>1, TypedInit, TypedStep, ClockInit, ClockStep, PTL DEF Spec

-----------------------------------------------------------------------------
(* What follows for the clocks a student sees. *)

(* The clock that is polled from the Redis snapshot alone, whose pauses may *)
(* be behind those of the row, never shows more time left than the full     *)
(* clock: a pause that did not reach it costs time and never gives any.     *)
PolledShowsNoMore ==
    \A s \in Session : past[s] # "reopened" => FastElapsed(s) >= Elapsed(s)

(* Since the snapshot's total is never ahead of the row's, remaining-time   *)
(* errs in one direction only.                                             *)
THEOREM PolledIsNotAhead == Spec => []PolledShowsNoMore
<1>1. Typed /\ Clock => PolledShowsNoMore
  <2> SUFFICES ASSUME Typed, Clock, NEW s \in Session, past[s] # "reopened"
               PROVE  FastElapsed(s) >= Elapsed(s)
    BY DEF PolledShowsNoMore
  <2>1. /\ now \in Nat /\ started[s] \in Nat /\ total[s] \in Nat /\ snapshot[s] \in Nat
        /\ Ongoing(pausedAt[s]) \in Nat /\ Ongoing(globalAt) \in Nat
    BY OngoingOf DEF Typed, TypeOK
  <2>2. snapshot[s] <= total[s] + OngoingPause(s) /\ OngoingPause(s) \in Nat
    BY <2>1 DEF Clock, Behind, OngoingPause, Larger
  <2>3. Larger(snapshot[s], total[s]) = total[s]
    BY <2>1 DEF Clock, Behind, Larger
  <2>4. QED
    BY <2>1, <2>2, <2>3 DEF FastElapsed, Elapsed, Minus
<1>2. QED
  BY <1>1, TypedInit, TypedStep, ClockInit, ClockStep, PTL DEF Spec

(* No pause, resume, patch or restart of the client makes an open session's *)
(* clock jump: it moves only with time, and stands while a pause lasts.     *)
ClockNeverJumps ==
    [][\A s \in Session :
         /\ status[s] = "in_progress" /\ past[s] = "plain"
         /\ status'[s] = "in_progress" /\ past'[s] = "plain"
         => (Elapsed(s))' = IF now' = now \/ Frozen(s) THEN Elapsed(s) ELSE Elapsed(s) + 1]_vars

(* Only time adds to the time worked, and it does while nothing is paused. *)
LEMMA WorkedMoves ==
    ASSUME Typed, Next, NEW s \in Session, status[s] = "in_progress",
           past[s] = "plain", past'[s] = "plain"
    PROVE  worked'[s] = IF now' = now \/ Frozen(s) THEN worked[s] ELSE worked[s] + 1
<1>1. TypeOK /\ now \in Nat
  BY DEF Typed, TypeOK
<1>2. CASE Tick
  BY <1>1, <1>2 DEF Tick, TypeOK
<1>3. ASSUME NEW ss, NEW how \in {"mixed", "reopened"}, Bends(ss, how)
      PROVE  worked'[s] = worked[s]
  BY <1>1, <1>3, BentWhere
<1>4. ASSUME Rest \/ Scan \/ CloseExpired
      PROVE  worked'[s] = worked[s]
  BY <1>4 DEF Rest, Scan, CloseExpired, vars, history
<1>5. ASSUME Pauses
      PROVE  worked'[s] = worked[s]
  <2>1. CASE PauseExam \/ AdminResume
    BY <1>3, <2>1 DEF PauseExam, AdminResume
  <2>2. CASE ResumeExam \/ GoResumeExam \/ AdminPause
    BY <2>2 DEF ResumeExam, GoResumeExam, Resumes, AdminPause, history
  <2>3. CASE \E p \in patches : PatchSnapshot(p[1], p[2])
    BY <2>3 DEF PatchSnapshot, history
  <2>4. QED
    BY <1>5, <2>1, <2>2, <2>3 DEF Pauses
<1>6. ASSUME NEW r \in Session,
             Start(r) \/ StartAgain(r) \/ HandIn(r) \/ GoReset(r) \/ Reopen(r)
      PROVE  worked'[s] = worked[s]
  BY <1>3, <1>6 DEF Start, StartAgain, HandIn, GoReset, Reopen, history
<1>7. ~Tick => now' = now
  BY DEF Next, Rest, Scan, CloseExpired, Pauses, PauseExam, ResumeExam, GoResumeExam, Resumes,
         AdminPause, AdminResume, PatchSnapshot, Start, StartAgain, HandIn, GoReset, Reopen, vars
<1>8. ~Tick => worked'[s] = worked[s]
  BY <1>4, <1>5, <1>6 DEF Next
<1>9. QED
  BY <1>2, <1>7, <1>8

(* Two readings of an open session's clock differ by the unpaused time      *)
(* between them, whatever the controls and the scheduler did meanwhile.     *)
THEOREM NoControlJumps == Spec => ClockNeverJumps
<1>1. /\ Typed /\ ClockIsFair /\ ClockIsFair' /\ [Next]_vars
      => [\A s \in Session :
            /\ status[s] = "in_progress" /\ past[s] = "plain"
            /\ status'[s] = "in_progress" /\ past'[s] = "plain"
            => (Elapsed(s))' = IF now' = now \/ Frozen(s) THEN Elapsed(s) ELSE Elapsed(s) + 1]_vars
  <2> SUFFICES ASSUME Typed, ClockIsFair, ClockIsFair', Next, NEW s \in Session,
                      status[s] = "in_progress", past[s] = "plain",
                      status'[s] = "in_progress", past'[s] = "plain"
               PROVE  (Elapsed(s))' = IF now' = now \/ Frozen(s) THEN Elapsed(s)
                                      ELSE Elapsed(s) + 1
    OBVIOUS
  <2>1. Elapsed(s) = worked[s]
    BY DEF ClockIsFair
  <2>2. (Elapsed(s))' = worked'[s]
    BY DEF ClockIsFair
  <2>3. QED
    BY <2>1, <2>2, WorkedMoves
<1>2. Spec => []Typed
  BY TypedInit, TypedStep, PTL DEF Spec
<1>3. QED
  BY <1>1, <1>2, ClockFair, PTL DEF Spec, ClockNeverJumps

=============================================================================
