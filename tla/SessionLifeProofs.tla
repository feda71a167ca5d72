------------------------- MODULE SessionLifeProofs -------------------------
(***************************************************************************)
(* Theorems about SessionLife for any number of requests, any kinds of     *)
(* request, any max_attempts and any number of sessions.                   *)
(***************************************************************************)
EXTENDS SessionLife, FiniteSetTheorems, TLAPS

-----------------------------------------------------------------------------
(* Types. *)

Views == [Sid -> Row]

(* The assignments the handlers make to a row. *)
LEMMA RowUpdates ==
    ASSUME NEW row \in Row, NEW status \in {"in_progress", "submitted", "terminated", "deleted"},
           NEW flag \in BOOLEAN
    PROVE  /\ [row EXCEPT !.status = status] \in Row
           /\ [row EXCEPT !.status = status, !.byAdmin = flag] \in Row
           /\ [row EXCEPT !.staffLog = flag] \in Row
BY DEF Row

LEMMA NoRowIsRow == NoRow \in Row
BY DEF Row, NoRow

LEMMA TypeInit == Init => TypeOK
<1> SUFFICES ASSUME Init PROVE TypeOK
  OBVIOUS
<1>1. Interrupted \subseteq Row
  BY DEF Interrupted, NoRow, Row
<1>2. sess \in [Sid -> Row]
  BY <1>1, NoRowIsRow DEF Init
<1>3. QED
  BY <1>2, NoRowIsRow DEF Init, TypeOK

(* What the shared steps of the handlers keep. *)
LEMMA LooksType ==
    ASSUME TypeOK, NEW p \in Request, NEW k \in AllKinds, NEW ss \in SUBSET Sid,
           NEW next \in {"looked", "loaded"}, Looks(p, k, ss, next)
    PROVE  TypeOK'
<1>1. NoRow \in Row
  BY DEF NoRow, Row
<1>2. [s \in Sid |-> IF s \in ss THEN sess[s] ELSE NoRow] \in Views
  BY <1>1 DEF TypeOK, Views
<1>3. looked' \in [Request -> Views]
  BY <1>2 DEF Looks, TypeOK, Views
<1>4. QED
  BY <1>3 DEF Looks, TypeOK, Views

LEMMA AnswersType ==
    ASSUME TypeOK, NEW p \in Request, NEW answer \in {"ok", "refused"}, Answers(p, answer),
           sess' \in Views
    PROVE  TypeOK'
<1>1. [s \in Sid |-> NoRow] \in Views
  BY DEF NoRow, Row, Views
<1>2. looked' \in [Request -> Views]
  BY <1>1 DEF Answers, TypeOK, Views
<1>3. QED
  BY <1>2 DEF Answers, TypeOK, Views

LEMMA StoresType ==
    ASSUME TypeOK, NEW s \in Sid, NEW row \in Row, Stores(s, row)
    PROVE  sess' \in Views
BY DEF Stores, TypeOK, Views

LEMMA FlushesType ==
    ASSUME TypeOK, NEW p \in Request, NEW ks, NEW status \in {"in_progress", "submitted", "terminated"},
           NEW flag \in [Sid -> BOOLEAN], NEW log \in BOOLEAN,
           Flushes(p, ks, status, flag, log)
    PROVE  TypeOK'
<1>1. PICK s \in on[p] : Stores(s, OrmRow(p, s, status, flag[s], log))
  BY DEF Flushes
<1>2. s \in Sid
  BY DEF TypeOK
<1>3. looked[p][s] \in Row /\ sess[s] \in Row
  BY <1>2 DEF TypeOK
<1>4. OrmRow(p, s, status, flag[s], log) \in Row
  BY <1>2, <1>3 DEF OrmRow, Row
<1>5. sess' \in Views
  BY <1>1, <1>2, <1>4, StoresType
<1>6. QED
  BY <1>5, AnswersType DEF Flushes

(* A submit writes the row of one open session. *)
LEMMA SubmittedRow ==
    ASSUME TypeOK, NEW p \in Request, Submit(p)
    PROVE  \E s \in Sid : /\ sess[s].status = "in_progress"
                          /\ sess'[s].status = "submitted"
                          /\ sess'[s] \in Row
                          /\ \A t \in Sid \ {s} : sess'[t] = sess[t]
                          /\ sess' \in Views
<1>1. PICK s \in Sid, forced \in BOOLEAN :
        /\ sess[s].status = "in_progress"
        /\ sess' = [sess EXCEPT ![s].status = "submitted", ![s].cheatLog = @ \/ forced]
  BY DEF Submit, InProgress
<1> DEFINE row == [sess[s] EXCEPT !.status = "submitted", !.cheatLog = @ \/ forced]
<1>2. sess[s] \in Row
  BY DEF TypeOK
<1>3. row \in Row /\ row.status = "submitted"
  BY <1>2 DEF Row
<1>4. sess' = [sess EXCEPT ![s] = row]
  BY <1>1 DEF TypeOK
<1> HIDE DEF row
<1>5. QED
  BY <1>1, <1>3, <1>4 DEF TypeOK, Views

(* A request of the student's. *)
StudentStep(p) == Start(p) \/ Submit(p) \/ Fail(p)

LEMMA StudentType == ASSUME TypeOK, NEW p \in Request, StudentStep(p) PROVE TypeOK'
<1>0. sess \in Views /\ pc \in [Request -> {"idle", "looked", "judged", "reread", "loaded",
                                          "logging", "ok", "refused"}]
  BY DEF TypeOK, Views
<1>1. CASE StartAnsweredAtOnce(p) \/ StartRereads(p) \/ Fail(p)
  BY <1>0, <1>1, AnswersType DEF StartAnsweredAtOnce, StartRereads, Fail
<1>2. CASE StartLooks(p)
  BY <1>2, LooksType DEF StartLooks, AllKinds
<1>3. CASE StartJudges(p)
  <2> DEFINE logged == [s \in Sid |-> [looked[p][s] EXCEPT !.staffLog = sess[s].staffLog,
                                                         !.cheatLog = sess[s].cheatLog]]
  <2>1. \A s \in Sid : looked[p][s] \in Row /\ sess[s] \in Row
    BY DEF TypeOK
  <2>2. logged \in Views
    BY <2>1 DEF Row, Views
  <2> HIDE DEF logged
  <2>3. \/ Answers(p, "refused")
        \/ /\ looked' = [looked EXCEPT ![p] = logged]
           /\ pc' = [pc EXCEPT ![p] = "judged"]
           /\ UNCHANGED <<kind, on>>
    BY <1>3 DEF StartJudges, logged
  <2>4. sess' = sess
    BY <1>3 DEF StartJudges
  <2>5. CASE Answers(p, "refused")
    BY <1>0, <2>4, <2>5, AnswersType
  <2>6. CASE /\ looked' = [looked EXCEPT ![p] = logged]
             /\ pc' = [pc EXCEPT ![p] = "judged"]
             /\ UNCHANGED <<kind, on>>
    BY <2>2, <2>4, <2>6 DEF TypeOK, Views
  <2>7. QED
    BY <2>3, <2>5, <2>6
<1>4. CASE StartRecovers(p)
  <2>1. PICK s \in Sid : Stores(s, [sess[s] EXCEPT !.status = "in_progress", !.byAdmin = FALSE])
    BY <1>4 DEF StartRecovers, Recoverable, Candidates
  <2>2. [sess[s] EXCEPT !.status = "in_progress", !.byAdmin = FALSE] \in Row
    BY <1>0, RowUpdates DEF Views
  <2>3. QED
    BY <1>4, <2>1, <2>2, StoresType, AnswersType DEF StartRecovers
<1>5. CASE StartInserts(p)
  <2>1. PICK s \in Sid : sess' = [sess EXCEPT ![s].status = "in_progress"]
    BY <1>5 DEF StartInserts
  <2>2. [sess[s] EXCEPT !.status = "in_progress"] \in Row
    BY <1>0, RowUpdates DEF Views
  <2>3. sess' = [sess EXCEPT ![s] = [sess[s] EXCEPT !.status = "in_progress"]]
    BY <2>1
  <2>4. sess' \in Views
    BY <1>0, <2>2, <2>3 DEF Views
  <2>5. QED
    BY <1>5, <2>4, AnswersType DEF StartInserts
<1>6. CASE StartLosesRace(p)
  BY <1>6 DEF StartLosesRace, locals, TypeOK
<1>7. CASE Submit(p)
  BY <1>7, SubmittedRow, AnswersType DEF Submit
<1>8. QED
  BY <1>1, <1>2, <1>3, <1>4, <1>5, <1>6, <1>7 DEF StudentStep, Start

LEMMA ControlType == ASSUME TypeOK, NEW p \in Request, Control(p) PROVE TypeOK'
<1>0. sess \in Views
  BY DEF TypeOK, Views
<1>1. CASE EndingLoads(p) \/ ControlLoads(p) \/ ResetLoads(p)
  <2>1. PICK k \in AllKinds, s \in Sid : Looks(p, k, {s}, "loaded")
    BY <1>1 DEF EndingLoads, ControlLoads, ResetLoads, InProgress, AllKinds, StaffKinds
  <2>2. QED
    BY <2>1, LooksType
<1>2. CASE FinalizerCommits(p)
  <2> DEFINE flag == [s \in Sid |-> looked[p][s].byAdmin]
  <2>1. flag \in [Sid -> BOOLEAN]
    BY DEF TypeOK, Row
  <2> HIDE DEF flag
  <2>2. Flushes(p, {"close"}, "submitted", flag, FALSE) \/ Flushes(p, {"force"}, "submitted", flag, TRUE)
    BY <1>2 DEF FinalizerCommits, flag
  <2>3. QED
    BY <2>1, <2>2, FlushesType
<1>3. CASE KickCommits(p) \/ ReopenCommits(p)
  <2>1. [s \in Sid |-> TRUE] \in [Sid -> BOOLEAN] /\ [s \in Sid |-> FALSE] \in [Sid -> BOOLEAN]
    OBVIOUS
  <2>2. QED
    BY <1>3, <2>1, FlushesType DEF KickCommits, ReopenCommits
<1>4. CASE GoReopenCommits(p)
  <2>1. PICK s \in Sid :
          sess' = sess \/ Stores(s, [sess[s] EXCEPT !.status = "in_progress", !.byAdmin = FALSE])
    BY <1>4 DEF GoReopenCommits, TypeOK
  <2>2. [sess[s] EXCEPT !.status = "in_progress", !.byAdmin = FALSE] \in Row
    BY <1>0, RowUpdates DEF Views
  <2>3. sess' \in Views
    BY <1>0, <2>1, <2>2, StoresType
  <2>4. QED
    BY <1>4, <2>3, AnswersType DEF GoReopenCommits
<1>5. CASE GoKicks(p)
  <2>1. PICK s \in Sid : /\ Stores(s, [sess[s] EXCEPT !.status = "terminated", !.byAdmin = TRUE])
                         /\ on' = [on EXCEPT ![p] = {s}]
    BY <1>5 DEF GoKicks
  <2>2. [sess[s] EXCEPT !.status = "terminated", !.byAdmin = TRUE] \in Row
    BY <1>0, RowUpdates DEF Views
  <2>3. sess' \in Views
    BY <2>1, <2>2, StoresType
  <2>4. QED
    BY <1>5, <2>1, <2>3 DEF GoKicks, TypeOK, Views, AllKinds, StaffKinds
<1>6. CASE GoForceCommits(p)
  <2>1. PICK s \in Sid : Stores(s, [sess[s] EXCEPT !.status = "submitted"])
    BY <1>6 DEF GoForceCommits, TypeOK
  <2>2. [sess[s] EXCEPT !.status = "submitted"] \in Row
    BY <1>0, RowUpdates DEF Views
  <2>3. sess' \in Views
    BY <2>1, <2>2, StoresType
  <2>4. QED
    BY <1>6, <2>3 DEF GoForceCommits, locals, TypeOK, Views
<1>7. CASE GoLogs(p)
  <2>1. sess' = sess \/ \E s \in Sid : Stores(s, [sess[s] EXCEPT !.staffLog = TRUE])
    BY <1>7 DEF GoLogs, TypeOK
  <2>2. \A s \in Sid : [sess[s] EXCEPT !.staffLog = TRUE] \in Row
    BY <1>0, RowUpdates DEF Views
  <2>3. sess' \in Views
    BY <1>0, <2>1, <2>2, StoresType
  <2>4. QED
    BY <1>7, <2>3, AnswersType DEF GoLogs
<1>8. CASE Cleanup(p)
  <2>1. [NoRow EXCEPT !.status = "deleted"] \in Row
    BY DEF NoRow, Row
  <2>2. sess' \in Views
    BY <1>0, <1>8, <2>1 DEF Cleanup, Views
  <2>3. QED
    BY <1>8, <2>2, AnswersType DEF Cleanup
<1>9. QED
  BY <1>1, <1>2, <1>3, <1>4, <1>5, <1>6, <1>7, <1>8 DEF Control

LEMMA TypeStep == TypeOK /\ [Next]_vars => TypeOK'
<1>1. TypeOK /\ UNCHANGED vars => TypeOK'
  BY DEF TypeOK, vars, locals
<1>2. QED
  BY <1>1, StudentType, ControlType DEF Next, StudentStep

(* No handler stores a status, or answers from a place, the others do not know. *)
THEOREM TypeCorrect == Spec => []TypeOK
BY TypeInit, TypeStep, PTL DEF Spec

-----------------------------------------------------------------------------
(* At most one open session. *)

(* A row that is written under the index keeps it. *)
LEMMA IndexKeeps ==
    ASSUME TypeOK, OneActive, NEW s \in Sid, NEW row \in Row, IndexAllows(s, row),
           sess' = [sess EXCEPT ![s] = row]
    PROVE  OneActive'
<1> SUFFICES ASSUME NEW t \in Sid, NEW u \in Sid,
                    sess'[t].status = "in_progress", sess'[u].status = "in_progress"
             PROVE  t = u
  BY DEF OneActive, InProgress
<1>1. sess'[s] = row /\ \A v \in Sid \ {s} : sess'[v] = sess[v]
  BY DEF TypeOK
<1>2. CASE t # s /\ u # s
  BY <1>1, <1>2 DEF OneActive, InProgress
<1>3. CASE t = s /\ u # s
  BY <1>1, <1>3 DEF IndexAllows, InProgress
<1>4. CASE t # s /\ u = s
  BY <1>1, <1>4 DEF IndexAllows, InProgress
<1>5. QED
  BY <1>2, <1>3, <1>4

(* So do the steps that open nothing. *)
LEMMA NothingOpened ==
    ASSUME OneActive,
           \A s \in Sid : sess'[s].status = "in_progress" => sess[s].status = "in_progress"
    PROVE  OneActive'
BY DEF OneActive, InProgress

LEMMA StoresOne ==
    ASSUME TypeOK, OneActive, NEW s \in Sid, NEW row \in Row, Stores(s, row)
    PROVE  OneActive'
BY IndexKeeps DEF Stores

LEMMA FlushesOne ==
    ASSUME TypeOK, OneActive, NEW p \in Request, NEW ks,
           NEW status \in {"in_progress", "submitted", "terminated"},
           NEW flag \in [Sid -> BOOLEAN], NEW log \in BOOLEAN,
           Flushes(p, ks, status, flag, log)
    PROVE  OneActive'
<1>1. PICK s \in on[p] : Stores(s, OrmRow(p, s, status, flag[s], log))
  BY DEF Flushes
<1>2. s \in Sid
  BY DEF TypeOK
<1>3. looked[p][s] \in Row /\ sess[s] \in Row
  BY <1>2 DEF TypeOK
<1>4. OrmRow(p, s, status, flag[s], log) \in Row
  BY <1>2, <1>3 DEF OrmRow, Row
<1>5. QED
  BY <1>1, <1>2, <1>4, StoresOne

LEMMA OneActiveStep ==
    ASSUME TypeOK, OneActive, NEW p \in Request, StudentStep(p) \/ Control(p)
    PROVE  OneActive'
<1>0. sess \in Views
  BY DEF TypeOK, Views
<1>1. CASE sess' = sess
  BY <1>1, NothingOpened
<1>2. CASE StartRecovers(p) \/ GoReopenCommits(p)
  <2>1. PICK s \in Sid :
          sess' = sess \/ Stores(s, [sess[s] EXCEPT !.status = "in_progress", !.byAdmin = FALSE])
    BY <1>2 DEF StartRecovers, Recoverable, Candidates, GoReopenCommits, TypeOK
  <2>2. [sess[s] EXCEPT !.status = "in_progress", !.byAdmin = FALSE] \in Row
    BY <1>0, RowUpdates DEF Views
  <2>3. QED
    BY <1>1, <2>1, <2>2, StoresOne
<1>3. CASE StartInserts(p)
  <2>1. PICK s \in Sid : /\ IndexAllows(s, [NoRow EXCEPT !.status = "in_progress"])
                         /\ sess' = [sess EXCEPT ![s].status = "in_progress"]
    BY <1>3 DEF StartInserts
  <2>2. [sess[s] EXCEPT !.status = "in_progress"] \in Row
    BY <1>0, RowUpdates DEF Views
  <2>3. sess' = [sess EXCEPT ![s] = [sess[s] EXCEPT !.status = "in_progress"]]
    BY <2>1
  <2>4. IndexAllows(s, [sess[s] EXCEPT !.status = "in_progress"])
    <3>1. [NoRow EXCEPT !.status = "in_progress"].status = "in_progress"
      BY DEF NoRow
    <3>2. QED
      BY <2>1, <3>1 DEF IndexAllows
  <2>5. QED
    BY <2>2, <2>3, <2>4, IndexKeeps
<1>4. CASE Submit(p)
  BY <1>4, SubmittedRow, NothingOpened
<1>5. CASE FinalizerCommits(p)
  <2> DEFINE flag == [s \in Sid |-> looked[p][s].byAdmin]
  <2>1. flag \in [Sid -> BOOLEAN]
    BY DEF TypeOK, Row
  <2> HIDE DEF flag
  <2>2. Flushes(p, {"close"}, "submitted", flag, FALSE) \/ Flushes(p, {"force"}, "submitted", flag, TRUE)
    BY <1>5 DEF FinalizerCommits, flag
  <2>3. QED
    BY <2>1, <2>2, FlushesOne
<1>6. CASE KickCommits(p) \/ ReopenCommits(p)
  <2>1. [s \in Sid |-> TRUE] \in [Sid -> BOOLEAN] /\ [s \in Sid |-> FALSE] \in [Sid -> BOOLEAN]
    OBVIOUS
  <2>2. QED
    BY <1>6, <2>1, FlushesOne DEF KickCommits, ReopenCommits
<1>7. CASE GoKicks(p) \/ GoForceCommits(p) \/ GoLogs(p)
  <2>1. \A s \in Sid : /\ [sess[s] EXCEPT !.status = "terminated", !.byAdmin = TRUE] \in Row
                        /\ [sess[s] EXCEPT !.status = "submitted"] \in Row
                        /\ [sess[s] EXCEPT !.staffLog = TRUE] \in Row
    BY <1>0, RowUpdates DEF Views
  <2>2. sess' = sess \/ \E s \in Sid :
          \/ Stores(s, [sess[s] EXCEPT !.status = "terminated", !.byAdmin = TRUE])
          \/ Stores(s, [sess[s] EXCEPT !.status = "submitted"])
          \/ Stores(s, [sess[s] EXCEPT !.staffLog = TRUE])
    <3>1. on[p] \subseteq Sid
      BY DEF TypeOK
    <3>2. CASE GoKicks(p)
      BY <3>2 DEF GoKicks
    <3>3. CASE GoForceCommits(p)
      BY <3>1, <3>3 DEF GoForceCommits
    <3>4. CASE GoLogs(p)
      BY <3>1, <3>4 DEF GoLogs
    <3>5. QED
      BY <1>7, <3>2, <3>3, <3>4
  <2>3. QED
    BY <1>1, <2>1, <2>2, StoresOne
<1>8. CASE Cleanup(p)
  <2>1. [NoRow EXCEPT !.status = "deleted"].status = "deleted"
    BY DEF NoRow
  <2>2. \A s \in Sid : sess'[s].status = "in_progress" => sess[s].status = "in_progress"
    BY <1>8, <2>1 DEF Cleanup
  <2>3. QED
    BY <2>2, NothingOpened
<1>9. QED
  BY <1>1, <1>2, <1>3, <1>4, <1>5, <1>6, <1>7, <1>8
     DEF StudentStep, Start, Control, StartAnsweredAtOnce, StartRereads, Fail, StartLooks, Looks,
         StartJudges, StartLosesRace, EndingLoads, ControlLoads, ResetLoads

(* Whatever starts, recoveries, resets and reopens race, a student has one  *)
(* open session in an exam at most: the unique index backs every write that *)
(* opens one, and the others open none.                                    *)
THEOREM OneActiveHolds == Spec => []OneActive
<1>1. Init => OneActive
  <2>1. \A row \in Interrupted \cup {NoRow} : row.status # "in_progress"
    <3>1. \A row \in Interrupted : row.status = "terminated"
      BY DEF Interrupted, NoRow
    <3>2. NoRow.status = "none"
      BY DEF NoRow
    <3>3. QED
      BY <3>1, <3>2
  <2>2. ASSUME Init PROVE \A s \in Sid : sess[s].status # "in_progress"
    <3>1. PICK row \in Interrupted \cup {NoRow} :
            sess = [s \in Sid |-> IF s = 1 THEN row ELSE NoRow]
      BY <2>2 DEF Init
    <3>2. \A s \in Sid : sess[s] \in Interrupted \cup {NoRow}
      BY <3>1
    <3>3. QED
      BY <2>1, <3>2
  <2>3. QED
    BY <2>2 DEF OneActive, InProgress
<1>2. TypeOK /\ OneActive /\ [Next]_vars => OneActive'
  <2>1. UNCHANGED vars /\ OneActive => OneActive'
    BY DEF vars, OneActive, InProgress
  <2>2. QED
    BY <2>1, OneActiveStep DEF Next, StudentStep
<1>3. QED
  BY <1>1, <1>2, TypeCorrect, PTL DEF Spec

-----------------------------------------------------------------------------
(* What a request knows between its statements. *)

InStart == {"looked", "judged", "reread"}

LoadingKinds == {"kick", "terminate", "reset", "goReset", "reopen", "goReopen",
                 "force", "goForce", "close"}

StartKnows(p) ==
    /\ kind[p] = "start"
    /\ on[p] = Sid
    /\ InProgress(looked[p]) = {}
    /\ Attempts(looked[p]) < MaxAttempts

JudgedKnows(p) == \A s \in Candidates(looked[p]) : Recovery(looked[p][s]) # "admin"

LoadedKnows(p) ==
    /\ kind[p] \in LoadingKinds
    /\ \E s \in Sid : on[p] = {s}
    /\ kind[p] \in {"reset", "goReset"} => \A s \in on[p] : Recovery(looked[p][s]) = "network"

Knows(p) ==
    /\ pc[p] \in InStart => StartKnows(p)
    /\ pc[p] = "judged" => JudgedKnows(p)
    /\ pc[p] = "loaded" => LoadedKnows(p)

Known == \A p \in Request : Knows(p)

(* Only p moves, and where it has got to. *)
Alone(p) ==
    \A q \in Request \ {p} :
        pc'[q] = pc[q] /\ kind'[q] = kind[q] /\ on'[q] = on[q] /\ looked'[q] = looked[q]

LEMMA KnowsAlone ==
    ASSUME Known, NEW p \in Request, Alone(p), Knows(p)'
    PROVE  Known'
<1> SUFFICES ASSUME NEW q \in Request, q # p PROVE Knows(q)'
  BY DEF Known
<1>1. Knows(q)
  BY DEF Known
<1>2. pc'[q] = pc[q] /\ kind'[q] = kind[q] /\ on'[q] = on[q] /\ looked'[q] = looked[q]
  BY DEF Alone
<1>3. QED
  BY <1>1, <1>2 DEF Knows, StartKnows, JudgedKnows, LoadedKnows

LEMMA AnswersAlone ==
    ASSUME TypeOK, NEW p \in Request, NEW answer \in {"ok", "refused"}, Answers(p, answer)
    PROVE  Alone(p) /\ Knows(p)' /\ pc'[p] = answer
<1>1. Alone(p) /\ pc'[p] = answer
  BY DEF Answers, Alone, TypeOK
<1>2. QED
  BY <1>1 DEF Knows, InStart

LEMMA LooksAlone ==
    ASSUME TypeOK, NEW p \in Request, NEW k, NEW ss, NEW next, Looks(p, k, ss, next)
    PROVE  /\ Alone(p)
           /\ pc'[p] = next /\ kind'[p] = k /\ on'[p] = ss
           /\ looked'[p] = [s \in Sid |-> IF s \in ss THEN sess[s] ELSE NoRow]
BY DEF Looks, Alone, TypeOK

LEMMA StudentKnows ==
    ASSUME TypeOK, Known, NEW p \in Request, StudentStep(p)
    PROVE  Alone(p) /\ Knows(p)'
<1>0. Knows(p)
  BY DEF Known
<1>1. CASE StartAnsweredAtOnce(p) \/ StartRecovers(p) \/ StartInserts(p) \/ StartRereads(p)
           \/ Submit(p) \/ Fail(p)
  BY <1>1, AnswersAlone
     DEF StartAnsweredAtOnce, StartRecovers, StartInserts, StartRereads, Submit, Fail
<1>2. CASE StartLooks(p)
  <2>1. Looks(p, "start", Sid, "looked")
    BY <1>2 DEF StartLooks
  <2>2. looked'[p] = sess
    BY <2>1, LooksAlone DEF TypeOK
  <2>3. kind'[p] = "start" /\ on'[p] = Sid /\ pc'[p] = "looked" /\ Alone(p)
    BY <2>1, LooksAlone
  <2>4. InProgress(looked'[p]) = {} /\ Attempts(looked'[p]) < MaxAttempts
    BY <1>2, <2>2 DEF StartLooks
  <2>5. StartKnows(p)'
    BY <2>3, <2>4 DEF StartKnows, InProgress, Attempts, Sid
  <2>6. QED
    BY <2>3, <2>5 DEF Knows
<1>3. CASE StartJudges(p)
  <2> DEFINE logged == [s \in Sid |-> [looked[p][s] EXCEPT !.staffLog = sess[s].staffLog,
                                                         !.cheatLog = sess[s].cheatLog]]
  <2>1. \A s \in Sid : logged[s].status = looked[p][s].status
    <3>1. \A s \in Sid : looked[p][s] \in Row
      BY DEF TypeOK
    <3>2. QED
      BY <3>1 DEF Row
  <2> HIDE DEF logged
  <2>2. CASE Answers(p, "refused")
    BY <2>2, AnswersAlone
  <2>3. CASE ~Answers(p, "refused")
    <3>1. /\ \A s \in Candidates(logged) : Recovery(logged[s]) # "admin"
          /\ looked' = [looked EXCEPT ![p] = logged]
          /\ pc' = [pc EXCEPT ![p] = "judged"]
          /\ UNCHANGED <<kind, on>>
      BY <1>3, <2>3 DEF StartJudges, logged
    <3>2. looked'[p] = logged /\ pc'[p] = "judged" /\ kind'[p] = kind[p] /\ on'[p] = on[p]
      BY <3>1 DEF TypeOK
    <3>3. InProgress(logged) = InProgress(looked[p]) /\ Attempts(logged) = Attempts(looked[p])
      BY <2>1 DEF InProgress, Attempts
    <3>4. StartKnows(p)
      BY <1>0, <1>3 DEF Knows, InStart, StartJudges
    <3>5. StartKnows(p)'
      BY <3>2, <3>3, <3>4 DEF StartKnows, Sid
    <3>6. JudgedKnows(p)'
      BY <3>1, <3>2 DEF JudgedKnows
    <3>7. Alone(p)
      BY <3>1 DEF Alone, TypeOK
    <3>8. QED
      BY <3>2, <3>5, <3>6, <3>7 DEF Knows
  <2>4. QED
    BY <2>2, <2>3
<1>4. CASE StartLosesRace(p)
  <2>1. /\ pc'[p] = "reread" /\ kind'[p] = kind[p] /\ on'[p] = on[p] /\ looked'[p] = looked[p]
        /\ Alone(p)
    BY <1>4 DEF StartLosesRace, locals, Alone, TypeOK
  <2>2. StartKnows(p)
    BY <1>0, <1>4 DEF Knows, InStart, StartLosesRace
  <2>3. StartKnows(p)'
    BY <2>1, <2>2 DEF StartKnows
  <2>4. QED
    BY <2>1, <2>3 DEF Knows
<1>5. QED
  BY <1>1, <1>2, <1>3, <1>4 DEF StudentStep, Start

LEMMA ControlKnows ==
    ASSUME TypeOK, Known, NEW p \in Request, Control(p)
    PROVE  Alone(p) /\ Knows(p)'
<1>1. CASE EndingLoads(p) \/ ControlLoads(p) \/ ResetLoads(p)
  <2>1. PICK k \in LoadingKinds, s \in Sid :
          /\ Looks(p, k, {s}, "loaded")
          /\ k \in {"reset", "goReset"} => Recovery(sess[s]) = "network"
    BY <1>1 DEF EndingLoads, ControlLoads, ResetLoads, InProgress, LoadingKinds
  <2>2. /\ Alone(p) /\ pc'[p] = "loaded" /\ kind'[p] = k /\ on'[p] = {s}
        /\ looked'[p] = [t \in Sid |-> IF t \in {s} THEN sess[t] ELSE NoRow]
    BY <2>1, LooksAlone
  <2>3. looked'[p][s] = sess[s]
    BY <2>2
  <2>4. LoadedKnows(p)'
    BY <2>1, <2>2, <2>3 DEF LoadedKnows, Recovery, Sid
  <2>5. QED
    BY <2>2, <2>4 DEF Knows, InStart
<1>2. CASE FinalizerCommits(p) \/ KickCommits(p) \/ ReopenCommits(p) \/ GoReopenCommits(p)
           \/ GoLogs(p) \/ Cleanup(p)
  BY <1>2, AnswersAlone
     DEF FinalizerCommits, KickCommits, ReopenCommits, Flushes, GoReopenCommits, GoLogs, Cleanup
<1>3. CASE GoKicks(p) \/ GoForceCommits(p)
  <2>1. Alone(p) /\ pc'[p] = "logging"
    BY <1>3 DEF GoKicks, GoForceCommits, locals, Alone, TypeOK
  <2>2. QED
    BY <2>1 DEF Knows, InStart
<1>4. QED
  BY <1>1, <1>2, <1>3 DEF Control

LEMMA KnownStep == TypeOK /\ Known /\ [Next]_vars => Known'
<1>1. Known /\ UNCHANGED vars => Known'
  BY DEF Known, Knows, StartKnows, JudgedKnows, LoadedKnows, vars, locals
<1>2. QED
  BY <1>1, StudentKnows, ControlKnows, KnowsAlone DEF Next, StudentStep

LEMMA KnownInit == Init => Known
BY DEF Init, Known, Knows, InStart

-----------------------------------------------------------------------------
(* Who opens a session again. *)

(* A flush touches one loaded row; its status is the new one or the stored one. *)
Touched(p, t, status) ==
    /\ t \in Sid
    /\ \A u \in Sid \ {t} : sess'[u] = sess[u]
    /\ sess'[t].status \in {sess[t].status, status}
    /\ looked[p][t].status # status => sess'[t].status = status

LEMMA FlushedRow ==
    ASSUME TypeOK, NEW p \in Request, NEW ks,
           NEW status \in {"in_progress", "submitted", "terminated"},
           NEW flag \in [Sid -> BOOLEAN], NEW log \in BOOLEAN,
           Flushes(p, ks, status, flag, log)
    PROVE  /\ pc[p] = "loaded" /\ pc'[p] = "ok" /\ kind[p] \in ks
           /\ \E t \in on[p] : Touched(p, t, status)
<1>1. PICK t \in on[p] : Stores(t, OrmRow(p, t, status, flag[t], log))
  BY DEF Flushes
<1>2. t \in Sid
  BY DEF TypeOK
<1>3. sess'[t] = OrmRow(p, t, status, flag[t], log) /\ \A u \in Sid \ {t} : sess'[u] = sess[u]
  BY <1>1, <1>2 DEF Stores, TypeOK
<1>4. /\ sess'[t].status \in {sess[t].status, status}
      /\ looked[p][t].status # status => sess'[t].status = status
  <2>1. sess'[t].status = IF status = looked[p][t].status THEN sess[t].status ELSE status
    BY <1>3 DEF OrmRow
  <2>2. QED
    BY <2>1
<1>5. pc'[p] = "ok"
  BY DEF Flushes, Answers, TypeOK
<1>6. QED
  BY <1>2, <1>3, <1>4, <1>5 DEF Flushes, Touched

(* A full UPDATE touches one row. *)
LEMMA StoredRow ==
    ASSUME TypeOK, NEW t \in Sid, NEW row, Stores(t, row)
    PROVE  sess'[t] = row /\ \A u \in Sid \ {t} : sess'[u] = sess[u]
BY DEF Stores, TypeOK

Opened(s) == /\ Exists(sess[s])
             /\ sess[s].status # "in_progress"
             /\ sess'[s].status = "in_progress"

MayOpen(p, s) ==
    /\ Acts(p)
    /\ \/ kind[p] \in {"reopen", "goReopen"}
       \/ kind[p] \in {"start", "reset", "goReset"} /\ (Stale(p) \/ Recovery(sess[s]) = "network")

LEMMA OpenedByStudent ==
    ASSUME TypeOK, Known, NEW p \in Request, StudentStep(p), NEW s \in Sid, Opened(s)
    PROVE  MayOpen(p, s)
<1>0. sess[s] \in Row /\ Knows(p)
  BY DEF TypeOK, Known
<1>1. sess' # sess
  BY DEF Opened
<1>2. CASE StartRecovers(p)
  <2>1. PICK t \in Recoverable(looked[p]) :
          Stores(t, [sess[t] EXCEPT !.status = "in_progress", !.byAdmin = FALSE])
    BY <1>2 DEF StartRecovers
  <2>2. t \in Sid /\ Recovery(looked[p][t]) = "network"
    BY DEF Recoverable, Candidates
  <2>3. t = s
    BY <2>1, <2>2, StoredRow DEF Opened
  <2>4. kind[p] = "start" /\ on[p] = Sid
    BY <1>0, <1>2 DEF Knows, InStart, StartKnows, StartRecovers
  <2>5. Acts(p)
    BY <1>2 DEF StartRecovers, Answers, Acts, TypeOK
  <2>6. QED
    BY <2>2, <2>3, <2>4, <2>5 DEF MayOpen, Stale
<1>3. CASE StartInserts(p)
  <2>1. PICK t \in Sid : sess[t].status = "none" /\ sess' = [sess EXCEPT ![t].status = "in_progress"]
    BY <1>3 DEF StartInserts
  <2>2. s # t
    BY <2>1 DEF Opened, Exists
  <2>3. sess'[s] = sess[s]
    BY <2>1, <2>2 DEF TypeOK
  <2>4. QED
    BY <2>3 DEF Opened
<1>4. CASE Submit(p)
  BY <1>4, SubmittedRow DEF Opened
<1>5. QED
  BY <1>1, <1>2, <1>3, <1>4
     DEF StudentStep, Start, StartAnsweredAtOnce, StartRereads, Fail, StartLooks, Looks,
         StartJudges, StartLosesRace

LEMMA OpenedByControl ==
    ASSUME TypeOK, Known, NEW p \in Request, Control(p), NEW s \in Sid, Opened(s)
    PROVE  MayOpen(p, s)
<1>0. sess[s] \in Row /\ Knows(p) /\ on[p] \subseteq Sid
  BY DEF TypeOK, Known
<1>1. sess' # sess
  BY DEF Opened
<1>2. CASE FinalizerCommits(p) \/ KickCommits(p)
  <2> DEFINE own == [u \in Sid |-> looked[p][u].byAdmin]
             yes == [u \in Sid |-> TRUE]
  <2>0. own \in [Sid -> BOOLEAN] /\ yes \in [Sid -> BOOLEAN]
    BY DEF TypeOK, Row
  <2>1. \/ Flushes(p, {"close"}, "submitted", own, FALSE)
        \/ Flushes(p, {"force"}, "submitted", own, TRUE)
        \/ Flushes(p, {"kick", "terminate"}, "terminated", yes, TRUE)
    BY <1>2 DEF FinalizerCommits, KickCommits
  <2> HIDE DEF own, yes
  <2>2. PICK status \in {"submitted", "terminated"}, t \in on[p] : Touched(p, t, status)
    BY <2>0, <2>1, FlushedRow
  <2>3. QED
    BY <2>2 DEF Opened, Touched
<1>3. CASE ReopenCommits(p)
  <2> DEFINE no == [u \in Sid |-> FALSE]
  <2>0. no \in [Sid -> BOOLEAN]
    OBVIOUS
  <2>1. Flushes(p, {"reset", "reopen"}, "in_progress", no, FALSE)
    BY <1>3 DEF ReopenCommits
  <2> HIDE DEF no
  <2>2. PICK t \in on[p] : Touched(p, t, "in_progress")
    BY <2>0, <2>1, FlushedRow
  <2>3. t = s
    BY <2>2 DEF Opened, Touched
  <2>4. pc[p] = "loaded" /\ kind[p] \in {"reset", "reopen"} /\ Acts(p)
    BY <2>0, <2>1, FlushedRow DEF Acts
  <2>5. kind[p] = "reset" => Recovery(looked[p][s]) = "network"
    BY <1>0, <2>2, <2>3, <2>4 DEF Knows, LoadedKnows
  <2>6. QED
    BY <2>2, <2>3, <2>4, <2>5 DEF MayOpen, Stale
<1>4. CASE GoReopenCommits(p)
  <2>1. PICK t \in on[p] :
          Stores(t, [sess[t] EXCEPT !.status = "in_progress", !.byAdmin = FALSE])
    BY <1>1, <1>4 DEF GoReopenCommits
  <2>2. t = s
    BY <1>0, <2>1, StoredRow DEF Opened
  <2>3. pc[p] = "loaded" /\ kind[p] \in {"goReset", "goReopen"} /\ Acts(p)
    BY <1>4 DEF GoReopenCommits, Answers, Acts, TypeOK
  <2>4. kind[p] = "goReset" => Recovery(looked[p][s]) = "network"
    BY <1>0, <2>1, <2>2, <2>3 DEF Knows, LoadedKnows
  <2>5. QED
    BY <2>1, <2>2, <2>3, <2>4 DEF MayOpen, Stale
<1>5. CASE GoKicks(p) \/ GoForceCommits(p) \/ GoLogs(p)
  <2>1. PICK t \in Sid :
          \/ Stores(t, [sess[t] EXCEPT !.status = "terminated", !.byAdmin = TRUE])
          \/ Stores(t, [sess[t] EXCEPT !.status = "submitted"])
          \/ Stores(t, [sess[t] EXCEPT !.staffLog = TRUE])
    <3>1. CASE GoKicks(p)
      BY <3>1 DEF GoKicks
    <3>2. CASE GoForceCommits(p)
      BY <1>0, <3>2 DEF GoForceCommits
    <3>3. CASE GoLogs(p)
      BY <1>0, <1>1, <3>3 DEF GoLogs
    <3>4. QED
      BY <1>5, <3>1, <3>2, <3>3
  <2>2. t = s
    BY <2>1, StoredRow DEF Opened
  <2>3. /\ [sess[s] EXCEPT !.status = "terminated", !.byAdmin = TRUE].status = "terminated"
        /\ [sess[s] EXCEPT !.status = "submitted"].status = "submitted"
        /\ [sess[s] EXCEPT !.staffLog = TRUE].status = sess[s].status
    BY <1>0 DEF Row
  <2>4. QED
    BY <2>1, <2>2, <2>3, StoredRow DEF Opened
<1>6. CASE Cleanup(p)
  <2>1. [NoRow EXCEPT !.status = "deleted"].status = "deleted"
    BY DEF NoRow
  <2>2. QED
    BY <1>6, <2>1 DEF Cleanup, Opened
<1>7. QED
  BY <1>1, <1>2, <1>3, <1>4, <1>5, <1>6
     DEF Control, EndingLoads, ControlLoads, ResetLoads, Looks

LEMMA OpenedBySomeone ==
    ASSUME TypeOK, Known, Next, NEW s \in Sid, Opened(s)
    PROVE  \E p \in Request : MayOpen(p, s)
BY OpenedByStudent, OpenedByControl DEF Next, StudentStep

(* What staff ended stays ended until staff reopens it; a start or a reset  *)
(* opens it again only if it decided before the kick.                      *)
THEOREM KicksHold == Spec => KickHolds
<1> DEFINE Held == \A s \in Sid :
             EndedByStaff(sess[s]) /\ sess'[s].status = "in_progress" =>
                 \E p \in Request : Acts(p) /\
                     \/ kind[p] \in {"reopen", "goReopen"}
                     \/ kind[p] \in {"start", "reset", "goReset"} /\ Stale(p)
<1>1. TypeOK /\ Known /\ Next => Held
  <2> SUFFICES ASSUME TypeOK, Known, Next, NEW s \in Sid, EndedByStaff(sess[s]),
                      sess'[s].status = "in_progress"
               PROVE  \E p \in Request : Acts(p) /\
                        \/ kind[p] \in {"reopen", "goReopen"}
                        \/ kind[p] \in {"start", "reset", "goReset"} /\ Stale(p)
    OBVIOUS
  <2>1. PICK p \in Request : MayOpen(p, s)
    BY OpenedBySomeone DEF Opened, EndedByStaff, Exists
  <2>2. Recovery(sess[s]) # "network"
    BY DEF Recovery, EndedByStaff
  <2>3. QED
    BY <2>1, <2>2 DEF MayOpen
<1>2. TypeOK /\ Known /\ [Next]_vars => [Held]_vars
  BY <1>1
<1>3. QED
  BY <1>2, KnownInit, KnownStep, TypeCorrect, PTL DEF Spec, KickHolds

(* A session that was handed in is opened again by a reopen only, or by a   *)
(* start or reset that decided before.                                     *)
THEOREM HandedInHolds == Spec => HandedInStays
<1> DEFINE Held == \A s \in Sid :
             sess[s].status = "submitted" /\ sess'[s].status = "in_progress" =>
                 \E p \in Request : Acts(p) /\
                     \/ kind[p] \in {"reopen", "goReopen"}
                     \/ kind[p] \in {"start", "reset", "goReset"} /\ Stale(p)
<1>1. TypeOK /\ Known /\ Next => Held
  <2> SUFFICES ASSUME TypeOK, Known, Next, NEW s \in Sid, sess[s].status = "submitted",
                      sess'[s].status = "in_progress"
               PROVE  \E p \in Request : Acts(p) /\
                        \/ kind[p] \in {"reopen", "goReopen"}
                        \/ kind[p] \in {"start", "reset", "goReset"} /\ Stale(p)
    OBVIOUS
  <2>1. PICK p \in Request : MayOpen(p, s)
    BY OpenedBySomeone DEF Opened, Exists
  <2>2. Recovery(sess[s]) # "network"
    BY DEF Recovery
  <2>3. QED
    BY <2>1, <2>2 DEF MayOpen
<1>2. TypeOK /\ Known /\ [Next]_vars => [Held]_vars
  BY <1>1
<1>3. QED
  BY <1>2, KnownInit, KnownStep, TypeCorrect, PTL DEF Spec, HandedInStays

-----------------------------------------------------------------------------
(* What a kick's success means. *)

LEMMA KickLogged ==
    ASSUME TypeOK, NEW p \in Request, KickCommits(p), NEW t \in Sid, on[p] = {t}
    PROVE  sess'[t].staffLog
<1>1. PICK u \in on[p] : Stores(u, OrmRow(p, u, "terminated", [s \in Sid |-> TRUE][u], TRUE))
  BY Zenon DEF KickCommits, Flushes
<1>2. u = t
  BY <1>1
<1>3. sess'[t] = OrmRow(p, t, "terminated", [s \in Sid |-> TRUE][t], TRUE)
  BY <1>1, <1>2 DEF Stores, TypeOK
<1>4. (sess[t].staffLog \/ TRUE) = TRUE
  OBVIOUS
<1>5. PICK a, b, c : sess'[t] = [status |-> a, byAdmin |-> b, staffLog |-> TRUE, cheatLog |-> c]
  BY <1>3, <1>4, Zenon DEF OrmRow
<1>6. QED
  BY <1>5

LEMMA OnlyKicksAnswer ==
    ASSUME TypeOK, Known, NEW p \in Request, NEW q \in Request, StudentStep(q) \/ Control(q),
           pc[p] = "loaded", pc'[p] = "ok", kind[p] \in {"kick", "terminate"}
    PROVE  KickCommits(p)
<1>1. q = p
  BY StudentKnows, ControlKnows DEF Alone
<1>2. ~StudentStep(p)
  <2>1. ~Fail(p)
    BY DEF Fail, Answers, TypeOK
  <2>2. QED
    BY <2>1 DEF StudentStep, Start, StartAnsweredAtOnce, StartLooks, Looks, Ready, StartJudges,
                StartRecovers, StartInserts, StartLosesRace, StartRereads, Submit
<1>3. Control(p)
  BY <1>1, <1>2
<1>4. QED
  BY <1>3 DEF Control, EndingLoads, ControlLoads, ResetLoads, Looks, Ready, FinalizerCommits,
              ReopenCommits, Flushes, GoReopenCommits, GoKicks, GoForceCommits, GoLogs, Cleanup

(* A kick that reports success has ended the session, whatever the student  *)
(* did meanwhile, unless the session was ended already when it was loaded.  *)
THEOREM KicksTakeEffect == Spec => KickTakesEffect
<1> DEFINE Effect == \A p \in Request :
             pc[p] = "loaded" /\ pc'[p] = "ok" /\ kind[p] \in {"kick", "terminate"} =>
                 \A s \in on[p] :
                     \/ EndedByStaff(sess'[s])
                     \/ looked[p][s].status = "terminated" /\ Stale(p)
<1>1. TypeOK /\ Known /\ Next => Effect
  <2> SUFFICES ASSUME TypeOK, Known, Next, NEW p \in Request, pc[p] = "loaded", pc'[p] = "ok",
                      kind[p] \in {"kick", "terminate"}, NEW s \in on[p]
               PROVE  \/ EndedByStaff(sess'[s])
                      \/ looked[p][s].status = "terminated" /\ Stale(p)
    OBVIOUS
  <2>1. KickCommits(p)
    BY OnlyKicksAnswer DEF Next, StudentStep
  <2>2. s \in Sid /\ on[p] = {s}
    BY DEF TypeOK, Known, Knows, LoadedKnows
  <2>3. sess'[s].staffLog
    BY <2>1, <2>2, KickLogged
  <2> DEFINE yes == [u \in Sid |-> TRUE]
  <2>4. yes \in [Sid -> BOOLEAN] /\ Flushes(p, {"kick", "terminate"}, "terminated", yes, TRUE)
    BY <2>1 DEF KickCommits
  <2> HIDE DEF yes
  <2>5. PICK t \in on[p] : Touched(p, t, "terminated")
    BY <2>4, FlushedRow
  <2>6. t = s
    BY <2>2, <2>5
  <2>7. CASE sess'[s].status = "terminated"
    BY <2>3, <2>7 DEF EndedByStaff
  <2>8. CASE sess'[s].status # "terminated"
    BY <2>2, <2>5, <2>6, <2>8 DEF Touched, Stale
  <2>9. QED
    BY <2>7, <2>8
<1>2. TypeOK /\ Known /\ [Next]_vars => [Effect]_vars
  BY <1>1
<1>3. QED
  BY <1>2, KnownInit, KnownStep, TypeCorrect, PTL DEF Spec, KickTakesEffect

-----------------------------------------------------------------------------
(* The number of attempts. *)

LEMMA SidFinite == IsFiniteSet(Sid)
<1>1. 1 \in Int /\ MaxSessions \in Int
  BY AttemptsAssumption
<1>2. QED
  BY <1>1, FS_Interval DEF Sid

LEMMA OnlyInsertsCreate ==
    ASSUME TypeOK, Known, NEW p \in Request, StudentStep(p) \/ Control(p), NEW s \in Sid,
           ~Exists(sess[s]), Exists(sess'[s])
    PROVE  StartInserts(p)
<1>1. sess' # sess
  OBVIOUS
<1>2. \A t \in Sid : \A row : ~Stores(t, row)
  <2> SUFFICES ASSUME NEW t \in Sid, NEW row, Stores(t, row) PROVE FALSE
    OBVIOUS
  <2>1. t = s
    BY StoredRow
  <2>2. QED
    BY <2>1 DEF Stores
<1>3. on[p] \subseteq Sid
  BY DEF TypeOK
<1>4. ~StartRecovers(p)
  BY <1>2 DEF StartRecovers, Recoverable, Candidates
<1>5. \A ks, status, flag, log : ~Flushes(p, ks, status, flag, log)
  BY <1>2, <1>3 DEF Flushes
<1>6. ~(FinalizerCommits(p) \/ KickCommits(p) \/ ReopenCommits(p))
  BY <1>5 DEF FinalizerCommits, KickCommits, ReopenCommits
<1>7. ~(GoReopenCommits(p) \/ GoKicks(p) \/ GoForceCommits(p) \/ GoLogs(p))
  BY <1>1, <1>2, <1>3 DEF GoReopenCommits, GoKicks, GoForceCommits, GoLogs
<1>8. ~Submit(p)
  <2> SUFFICES ASSUME Submit(p) PROVE FALSE
    OBVIOUS
  <2>1. PICK t \in Sid : /\ sess[t].status = "in_progress"
                         /\ \A u \in Sid \ {t} : sess'[u] = sess[u]
    BY SubmittedRow
  <2>2. t # s
    BY <2>1 DEF Exists
  <2>3. QED
    BY <2>1, <2>2
<1>9. ~Cleanup(p)
  <2>1. [NoRow EXCEPT !.status = "deleted"].status = "deleted"
    BY DEF NoRow
  <2>2. QED
    BY <2>1 DEF Cleanup, Exists
<1>10. QED
  BY <1>1, <1>4, <1>6, <1>7, <1>8, <1>9
     DEF StudentStep, Start, StartAnsweredAtOnce, StartLooks, Looks, StartJudges, StartLosesRace,
         StartRereads, Fail, Control, EndingLoads, ControlLoads, ResetLoads

(* No start gives a student more sessions than max_attempts allows, those   *)
(* that violations interrupted not counted, unless it was overtaken between *)
(* its count and its INSERT.                                               *)
THEOREM AttemptsHold == Spec => AttemptsRespected
<1> DEFINE Within == \A s \in Sid :
             ~Exists(sess[s]) /\ Exists(sess'[s]) =>
                 \/ Cardinality(Used(sess')) <= MaxAttempts
                 \/ \E p \in Request : Acts(p) /\ kind[p] = "start" /\ Stale(p)
<1>1. TypeOK /\ Known /\ Next => Within
  <2> SUFFICES ASSUME TypeOK, Known, Next, NEW s \in Sid, ~Exists(sess[s]), Exists(sess'[s])
               PROVE  \/ Cardinality(Used(sess')) <= MaxAttempts
                      \/ \E p \in Request : Acts(p) /\ kind[p] = "start" /\ Stale(p)
    OBVIOUS
  <2>1. PICK p \in Request : StartInserts(p)
    BY OnlyInsertsCreate DEF Next, StudentStep
  <2>2. /\ kind[p] = "start" /\ on[p] = Sid /\ InProgress(looked[p]) = {}
        /\ Attempts(looked[p]) < MaxAttempts
        /\ \A c \in Candidates(looked[p]) : Recovery(looked[p][c]) # "admin"
    BY <2>1 DEF StartInserts, Known, Knows, InStart, StartKnows, JudgedKnows
  <2>3. Acts(p)
    BY <2>1 DEF StartInserts, Answers, Acts, TypeOK
  <2>4. SUFFICES ASSUME ~Stale(p) PROVE Cardinality(Used(sess')) <= MaxAttempts
    BY <2>2, <2>3
  <2>5. looked[p] = sess
    BY <2>2, <2>4 DEF Stale, TypeOK
  <2>6. \A c \in Candidates(sess) : Recovery(sess[c]) = "cheating"
    <3>1. SUFFICES ASSUME NEW c \in Candidates(sess), Recovery(sess[c]) # "cheating" PROVE FALSE
      OBVIOUS
    <3>2. Recovery(sess[c]) \in {"admin", "network"}
      BY <3>1 DEF Candidates, Recovery
    <3>3. c \in Recoverable(sess)
      BY <2>2, <2>5, <3>2 DEF Recoverable
    <3>4. QED
      BY <2>1, <2>5, <3>3 DEF StartInserts
  <2>7. Used(sess) = {t \in Sid : sess[t].status = "submitted"}
    <3>1. \A t \in Sid : sess[t] \in Row
      BY DEF TypeOK
    <3>2. \A t \in Sid : sess[t].status \in {"none", "in_progress", "submitted", "terminated", "deleted"}
      BY <3>1 DEF Row
    <3>3. \A t \in Sid : sess[t].status # "in_progress"
      BY <2>2, <2>5 DEF InProgress
    <3>4. \A t \in Sid : sess[t].status = "terminated" => Recovery(sess[t]) = "cheating"
      BY <2>6 DEF Candidates
    <3>5. ASSUME NEW t \in Used(sess) PROVE sess[t].status = "submitted"
      <4>1. t \in Sid /\ sess[t].status \notin {"none", "deleted"}
        BY DEF Used, Exists
      <4>2. sess[t].status # "terminated"
        BY <3>4, <4>1 DEF Used
      <4>3. QED
        BY <3>2, <3>3, <4>1, <4>2
    <3>6. ASSUME NEW t \in Sid, sess[t].status = "submitted" PROVE t \in Used(sess)
      BY <3>6 DEF Used, Exists
    <3>7. QED
      BY <3>5, <3>6 DEF Used
  <2>8. Used(sess') = Used(sess) \cup {s}
    <3>1. PICK t \in Sid : sess[t].status = "none" /\ sess' = [sess EXCEPT ![t].status = "in_progress"]
      BY <2>1 DEF StartInserts
    <3>2. \A u \in Sid \ {t} : sess'[u] = sess[u]
      BY <3>1 DEF TypeOK
    <3>3. t = s
      BY <3>2
    <3>4. sess'[s].status = "in_progress"
      BY <3>1, <3>3 DEF TypeOK, Row
    <3>5. s \in Used(sess')
      BY <3>4 DEF Used, Exists
    <3>6. \A u \in Sid \ {s} : u \in Used(sess') <=> u \in Used(sess)
      BY <3>2, <3>3 DEF Used
    <3>7. Used(sess) \subseteq Sid /\ Used(sess') \subseteq Sid
      BY DEF Used
    <3>8. QED
      BY <3>5, <3>6, <3>7
  <2>9. IsFiniteSet(Used(sess)) /\ s \notin Used(sess)
    <3>1. IsFiniteSet(Sid)
      BY SidFinite
    <3>2. Used(sess) \subseteq Sid
      BY DEF Used
    <3>3. QED
      BY <3>1, <3>2, FS_Subset DEF Used
  <2>10. Cardinality(Used(sess')) = Cardinality(Used(sess)) + 1
    BY <2>8, <2>9, FS_AddElement
  <2>11. Cardinality(Used(sess)) < MaxAttempts
    BY <2>2, <2>5, <2>7 DEF Attempts
  <2>12. QED
    BY <2>9, <2>10, <2>11, AttemptsAssumption, FS_CardinalityType
<1>2. TypeOK /\ Known /\ [Next]_vars => [Within]_vars
  BY <1>1
<1>3. QED
  BY <1>2, KnownInit, KnownStep, TypeCorrect, PTL DEF Spec, AttemptsRespected

=============================================================================
