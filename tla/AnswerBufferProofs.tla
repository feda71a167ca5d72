------------------------ MODULE AnswerBufferProofs -------------------------
(***************************************************************************)
(* Theorems about AnswerBuffer for any number of writers, drainers and     *)
(* submits, any questions and answers, and any number of faults.           *)
(***************************************************************************)
EXTENDS AnswerBuffer, TLAPS

-----------------------------------------------------------------------------
(* The strengthening. *)

(* Only buffered questions are dirty, and times counts what was buffered. *)
DirtyInv ==
    /\ \A q \in dirty : answers[q] # None
    /\ \A q \in Question : answers[q] = None <=> times[q] = 0

Working == {"read", "check", "commit", "clean"}

(* What a flusher holds of question q: a buffered answer, which is the      *)
(* latest if there was one only, and which is stored before SREM.           *)
Holds(f, q) ==
    /\ answers[q] # None
    /\ fpc[f] \in {"check", "commit"} =>
         /\ batch[f][q] # None
         /\ times[q] = 1 => batch[f][q] = answers[q]
    /\ fpc[f] = "clean" =>
         /\ rows[q] # None
         /\ times[q] = 1 => rows[q] = answers[q]

FlushInv ==
    \A f \in Flusher : fpc[f] \in Working => \A q \in taken[f] : Holds(f, q)

(* An answer that was never replaced is stored before it is forgotten. *)
CleanInv ==
    \A q \in Question :
        times[q] = 1 /\ answers[q] # None /\ q \notin dirty => rows[q] = answers[q]

(* What a submit found in the buffer when it arrived. *)
DueInv ==
    \A s \in Submitter, q \in Question :
        due[s][q] # None =>
            /\ answers[q] # None
            /\ times[q] = 1 => due[s][q] = answers[q]

(* A question that a submit owes and that was buffered once is stored. *)
Covered(s, q) == due[s][q] # None /\ times[q] = 1 => rows[q] = answers[q]

(* On its way from the flush to the grading, a submit's debts are paid but  *)
(* for those it is paying.                                                  *)
CoverInv ==
    \A s \in Submitter :
        status = "in_progress" =>
            /\ fpc[s] \in Working => \A q \in Question \ taken[s] : Covered(s, q)
            /\ fpc[s] \in {"count", "submit"} \cup AckSteps \cup AfterFlush =>
                 \A q \in Question : Covered(s, q)

(* The submit that graded is over. *)
GradedInv ==
    gradedBy # None =>
        /\ fpc[gradedBy] = "done"
        /\ status = "submitted"

(* A writer that passed its check has an answer to buffer. *)
ItemInv == \A w \in Writer : wpc[w] = "checked" => item[w] \in Question \X Value

(* A drainer flushes no more than it claimed. *)
ClaimInv ==
    \A d \in Drainer : fpc[d] \in FlushSteps \cup AckSteps \cup AfterFlush => claimed[d] > 0

ShapeInv == TypeOK /\ ItemInv /\ ClaimInv

BufferInv ==
    /\ DirtyInv /\ FlushInv /\ DueInv /\ CoverInv /\ GradedInv
    /\ AnsweredIsStored /\ CleanInv /\ SubmitSeesTheBuffer

-----------------------------------------------------------------------------
(* Type correctness. *)

Places == {"idle", "claim", "peek", "release", "unlock", "submit", "done"}
            \cup FlushSteps \cup AckSteps \cup AfterFlush

LEMMA GotoType ==
    ASSUME TypeOK, NEW f \in Flusher, NEW at \in Places, Goto(f, at)
    PROVE  /\ fpc' \in [Flusher -> Places]
           /\ fpc'[f] = at
           /\ \A g \in Flusher : g # f => fpc'[g] = fpc[g]
BY DEF TypeOK, Goto, Places

(* After a flush a drainer has one claim less, a submit goes on to grade.   *)
LEMMA AfterOneType ==
    ASSUME ShapeInv, NEW f \in Flusher, AfterOne(f),
           fpc[f] \in FlushSteps \cup AckSteps \cup AfterFlush
    PROVE  /\ fpc' \in [Flusher -> Places]
           /\ claimed' \in [Drainer -> Nat]
           /\ ClaimInv'
           /\ f \in Submitter => fpc'[f] = "submit"
           /\ f \in Drainer => fpc'[f] \in {"flush", "release"}
           /\ \A g \in Flusher : g # f => fpc'[g] = fpc[g]
<1>1. CASE f \in Submitter
  <2>1. f \notin Drainer /\ Goto(f, "submit") /\ claimed' = claimed
    BY <1>1, ActorsAssumption DEF AfterOne
  <2>2. QED
    BY <1>1, <2>1 DEF ShapeInv, TypeOK, ClaimInv, Goto, Flusher, Places
<1>2. CASE f \in Drainer
  <2>1. /\ f \notin Submitter /\ claimed[f] \in Nat /\ claimed[f] > 0
        /\ claimed' = [claimed EXCEPT ![f] = @ - 1]
        /\ Goto(f, IF claimed[f] > 1 THEN "flush" ELSE "release")
    BY <1>2, ActorsAssumption DEF AfterOne, ShapeInv, TypeOK, ClaimInv
  <2>2. claimed' \in [Drainer -> Nat]
    BY <1>2, <2>1 DEF ShapeInv, TypeOK
  <2>3. fpc' \in [Flusher -> Places]
    BY <2>1 DEF ShapeInv, TypeOK, Goto, Places, FlushSteps
  <2>4. ClaimInv'
    BY <1>2, <2>1 DEF ShapeInv, TypeOK, ClaimInv, Goto, Flusher, FlushSteps, AckSteps, AfterFlush
  <2>5. QED
    BY <2>1, <2>2, <2>3, <2>4 DEF ShapeInv, TypeOK, Goto
<1>3. QED
  BY <1>1, <1>2 DEF Flusher

LEMMA WritersShape ==
    ASSUME ShapeInv, NEW w \in Writer,
           SendBatch(w) \/ SendSingle(w) \/ Write(w) \/ WriterFails(w)
    PROVE  ShapeInv'
<1>1. CASE SendBatch(w) \/ SendSingle(w)
  BY <1>1 DEF ShapeInv, TypeOK, ItemInv, ClaimInv, SendBatch, SendSingle, Sends,
              db, buffer, queue, flush, ghosts
<1>2. CASE Buffer(w)
  <2>1. item[w] \in Question \X Value
    BY <1>2 DEF ShapeInv, ItemInv, Buffer
  <2>2. item[w][1] \in Question /\ item[w][2] \in Value
    BY <2>1
  <2>3. /\ answers' \in Sheet /\ dirty' \subseteq Question
        /\ times' \in [Question -> Nat]
    BY <1>2, <2>2 DEF ShapeInv, TypeOK, Buffer, Sheet
  <2>4. QED
    BY <1>2, <2>3 DEF ShapeInv, TypeOK, ItemInv, ClaimInv, Buffer, db, queue, flush
<1>3. CASE MarkQueued(w)
  BY <1>3 DEF ShapeInv, TypeOK, ItemInv, ClaimInv, MarkQueued, Answered, db, buffer, flush, ghosts
<1>4. CASE Push(w)
  BY <1>4 DEF ShapeInv, TypeOK, ItemInv, ClaimInv, Push, Answered, db, buffer, flush, ghosts
<1>5. CASE WriterFails(w)
  BY <1>5, FaultsAssumption DEF ShapeInv, TypeOK, ItemInv, ClaimInv, WriterFails, Answered,
              db, buffer, flush, ghosts
<1>6. QED
  BY <1>1, <1>2, <1>3, <1>4, <1>5 DEF Write

LEMMA FlushShape ==
    ASSUME ShapeInv, NEW f \in Flusher, Flush(f)
    PROVE  ShapeInv'
<1> USE DEF ShapeInv
<1>1. CASE ReadDirty(f)
  BY <1>1 DEF TypeOK, ItemInv, ClaimInv, ReadDirty, Goto, FlushSteps, AckSteps, AfterFlush,
              Flusher, db, buffer, queue, writers, ghosts
<1>2. CASE ReadAnswers(f)
  <2>1. batch' \in [Flusher -> Sheet]
    BY <1>2 DEF TypeOK, ReadAnswers, Sheet
  <2>2. QED
    BY <1>2, <2>1 DEF TypeOK, ItemInv, ClaimInv, ReadAnswers, Goto, FlushSteps, AckSteps,
                AfterFlush, Flusher, db, buffer, queue, writers, ghosts
<1>3. CASE CheckSession(f)
  BY <1>3 DEF TypeOK, ItemInv, ClaimInv, CheckSession, Goto, FlushSteps, AckSteps, AfterFlush,
              Flusher, db, buffer, queue, writers, flush, ghosts
<1>4. CASE CommitFlush(f)
  <2>1. rows' \in Sheet /\ batch' \in [Flusher -> Sheet]
    BY <1>4 DEF TypeOK, CommitFlush, Sheet, Blank
  <2>2. QED
    BY <1>4, <2>1 DEF TypeOK, ItemInv, ClaimInv, CommitFlush, Goto, FlushSteps, AckSteps,
                AfterFlush, Flusher, buffer, queue, writers, ghosts
<1>5. CASE Clean(f)
  BY <1>5 DEF TypeOK, ItemInv, ClaimInv, Clean, Goto, FlushSteps, AckSteps, AfterFlush,
              Flusher, db, queue, writers, ghosts
<1>6. CASE Count(f)
  BY <1>6 DEF TypeOK, ItemInv, ClaimInv, Count, Goto, FlushSteps, AckSteps, AfterFlush,
              Flusher, db, buffer, queue, writers, flush, ghosts
<1>7. CASE AckProcessing(f)
  BY <1>7 DEF TypeOK, ItemInv, ClaimInv, AckProcessing, Goto, FlushSteps, AckSteps, AfterFlush,
              Flusher, db, buffer, writers, flush, ghosts
<1>8. CASE AckPending(f)
  BY <1>8 DEF TypeOK, ItemInv, ClaimInv, AckPending, Goto, FlushSteps, AckSteps, AfterFlush,
              Flusher, db, buffer, writers, flush, ghosts
<1>9. CASE AckQueued(f)
  <2>1. AfterOne(f) /\ fpc[f] \in FlushSteps \cup AckSteps \cup AfterFlush
    BY <1>9 DEF AckQueued, AckSteps
  <2>2. fpc' \in [Flusher -> Places] /\ claimed' \in [Drainer -> Nat] /\ ClaimInv'
    BY <2>1, AfterOneType
  <2>3. QED
    BY <1>9, <2>2 DEF TypeOK, ItemInv, AckQueued, Places, db, buffer, writers, flush, ghosts
<1>10. CASE RestoreProcessing(f)
  BY <1>10 DEF TypeOK, ItemInv, ClaimInv, RestoreProcessing, Goto, FlushSteps, AckSteps,
              AfterFlush, Flusher, db, buffer, writers, flush, ghosts
<1>11. CASE RestorePending(f)
  <2>1. AfterOne(f) /\ fpc[f] \in FlushSteps \cup AckSteps \cup AfterFlush
    BY <1>11 DEF RestorePending, AfterFlush
  <2>2. fpc' \in [Flusher -> Places] /\ claimed' \in [Drainer -> Nat] /\ ClaimInv'
    BY <2>1, AfterOneType
  <2>3. pending' \in Nat
    BY <1>11 DEF TypeOK, RestorePending
  <2>4. QED
    BY <1>11, <2>2, <2>3 DEF TypeOK, ItemInv, RestorePending, Places, db, buffer, writers,
                flush, ghosts
<1>12. QED
  BY <1>1, <1>2, <1>3, <1>4, <1>5, <1>6, <1>7, <1>8, <1>9, <1>10, <1>11 DEF Flush

LEMMA DrainShape ==
    ASSUME ShapeInv, NEW d \in Drainer, Drain(d) \/ DrainFails(d) \/ TickFails(d) \/ Crash(d)
    PROVE  ShapeInv'
<1> USE DEF ShapeInv
<1>1. CASE TakeLease(d)
  BY <1>1 DEF TypeOK, ItemInv, ClaimInv, TakeLease, Goto, FlushSteps, AckSteps, AfterFlush,
              Flusher, db, buffer, queue, writers, flush, ghosts
<1>2. CASE Claim(d)
  <2>1. CASE pending > 0
    BY <1>2, <2>1 DEF TypeOK, ItemInv, ClaimInv, Claim, FlushSteps, AckSteps, AfterFlush,
                Flusher, db, buffer, writers, flush, ghosts
  <2>2. CASE ~(pending > 0)
    BY <1>2, <2>2 DEF TypeOK, ItemInv, ClaimInv, Claim, Goto, FlushSteps, AckSteps, AfterFlush,
                Flusher, db, buffer, writers, flush, ghosts
  <2>3. QED
    BY <2>1, <2>2
<1>3. CASE CheckLease(d)
  BY <1>3 DEF TypeOK, ItemInv, ClaimInv, CheckLease, Goto, FlushSteps, AckSteps, AfterFlush,
              Flusher, db, buffer, queue, writers, flush, ghosts
<1>4. CASE DropLease(d)
  BY <1>4 DEF TypeOK, ItemInv, ClaimInv, DropLease, Goto, FlushSteps, AckSteps, AfterFlush,
              Flusher, db, buffer, queue, writers, flush, ghosts
<1>5. CASE DrainFails(d)
  BY <1>5, FaultsAssumption DEF TypeOK, ItemInv, ClaimInv, DrainFails, Goto, FlushSteps,
              AckSteps, AfterFlush, Flusher, db, buffer, queue, writers, flush, ghosts
<1>6. CASE TickFails(d)
  BY <1>6, FaultsAssumption DEF TypeOK, ItemInv, ClaimInv, TickFails, Goto, FlushSteps,
              AckSteps, AfterFlush, Flusher, db, buffer, queue, writers, flush, ghosts
<1>7. CASE Crash(d)
  BY <1>7, FaultsAssumption DEF TypeOK, ItemInv, ClaimInv, Crash, Goto, FlushSteps,
              AckSteps, AfterFlush, Flusher, db, buffer, queue, writers, flush, ghosts
<1>8. QED
  BY <1>1, <1>2, <1>3, <1>4, <1>5, <1>6, <1>7 DEF Drain

LEMMA SubmitShape ==
    ASSUME ShapeInv, NEW s \in Submitter, Arrive(s) \/ Peek(s) \/ Submit(s) \/ SubmitFails(s)
    PROVE  ShapeInv'
<1> USE DEF ShapeInv
<1>1. s \in Flusher /\ s \notin Drainer
  BY ActorsAssumption DEF Flusher
<1>2. CASE Arrive(s)
  BY <1>1, <1>2 DEF TypeOK, ItemInv, ClaimInv, Arrive, Goto, FlushSteps, AckSteps, AfterFlush,
              Flusher, Sheet, db, buffer, queue, writers, flush
<1>3. CASE Peek(s)
  BY <1>1, <1>3 DEF TypeOK, ItemInv, ClaimInv, Peek, Goto, FlushSteps, AckSteps, AfterFlush,
              Flusher, db, buffer, queue, writers, flush, ghosts
<1>4. CASE Submit(s)
  BY <1>1, <1>4 DEF TypeOK, ItemInv, ClaimInv, Submit, Goto, FlushSteps, AckSteps, AfterFlush,
              Flusher, buffer, queue, writers, flush, ghosts
<1>5. CASE SubmitFails(s)
  BY <1>1, <1>5, FaultsAssumption DEF TypeOK, ItemInv, ClaimInv, SubmitFails, Goto, FlushSteps,
              AckSteps, AfterFlush, Flusher, db, buffer, queue, writers, flush, ghosts
<1>6. QED
  BY <1>2, <1>3, <1>4, <1>5

LEMMA ShapeInit == Init => ShapeInv
<1> SUFFICES ASSUME Init
             PROVE  ShapeInv
  OBVIOUS
<1>1. Blank \in Sheet /\ 0 \in 0..MaxFaults
  BY FaultsAssumption DEF Blank, Sheet
<1>2. TypeOK
  BY <1>1 DEF Init, TypeOK
<1>3. ItemInv
  BY DEF Init, ItemInv
<1>4. ClaimInv
  BY DEF Init, ClaimInv, Flusher, FlushSteps, AckSteps, AfterFlush
<1>5. QED
  BY <1>2, <1>3, <1>4 DEF ShapeInv

LEMMA ShapeStep == ShapeInv /\ [Next]_vars => ShapeInv'
<1> SUFFICES ASSUME ShapeInv, [Next]_vars
             PROVE  ShapeInv'
  OBVIOUS
<1>1. CASE LeaseExpires
  BY <1>1 DEF ShapeInv, TypeOK, ItemInv, ClaimInv, LeaseExpires, db, buffer, queue, writers,
              flush, ghosts
<1>2. CASE UNCHANGED vars
  BY <1>2 DEF ShapeInv, TypeOK, ItemInv, ClaimInv, vars, db, buffer, queue, writers, flush, ghosts
<1>3. QED
  BY <1>1, <1>2, WritersShape, FlushShape, DrainShape, SubmitShape DEF Next

(* The queue's counts stay counts: no interleaving of claims, requeues and  *)
(* acknowledgements takes out more than was put in.                         *)
THEOREM TypeCorrect == Spec => []TypeOK
<1>1. ShapeInv => TypeOK
  BY DEF ShapeInv
<1>2. QED
  BY <1>1, ShapeInit, ShapeStep, PTL DEF Spec

-----------------------------------------------------------------------------
(* The buffer invariant is inductive. *)

Paid == {"count", "submit"} \cup AckSteps \cup AfterFlush

(* A step that moves flushers only, and none of them into work, onto the    *)
(* path to grading or out of "done", keeps the invariant.                   *)
LEMMA Moves ==
    ASSUME ShapeInv, BufferInv, UNCHANGED <<db, buffer, flush, ghosts>>,
           \A f \in Flusher :
             \/ fpc'[f] = fpc[f]
             \/ /\ fpc'[f] \notin Working
                /\ f \in Submitter => /\ fpc[f] # "done"
                                      /\ fpc'[f] \in Paid => fpc[f] \in Paid
    PROVE  BufferInv'
<1> USE DEF db, buffer, flush, ghosts
<1>1. DirtyInv' /\ DueInv' /\ AnsweredIsStored' /\ CleanInv' /\ SubmitSeesTheBuffer'
  BY DEF BufferInv, DirtyInv, DueInv, AnsweredIsStored, CleanInv, SubmitSeesTheBuffer
<1>2. FlushInv'
  <2> SUFFICES ASSUME NEW f \in Flusher, fpc'[f] \in Working, NEW q \in taken[f]
               PROVE  Holds(f, q)'
    BY DEF FlushInv
  <2>1. fpc'[f] = fpc[f] /\ Holds(f, q)
    BY DEF BufferInv, FlushInv
  <2>2. QED
    BY <2>1 DEF Holds
<1>3. CoverInv'
  <2> SUFFICES ASSUME NEW s \in Submitter, status = "in_progress"
               PROVE  /\ fpc'[s] \in Working => \A q \in Question \ taken[s] : Covered(s, q)'
                      /\ fpc'[s] \in Paid => \A q \in Question : Covered(s, q)'
    BY DEF CoverInv, Paid
  <2>1. s \in Flusher
    BY DEF Flusher
  <2>2. /\ fpc[s] \in Working => \A q \in Question \ taken[s] : Covered(s, q)
        /\ fpc[s] \in Paid => \A q \in Question : Covered(s, q)
    BY DEF BufferInv, CoverInv, Paid
  <2>3. QED
    BY <2>1, <2>2 DEF Covered
<1>4. GradedInv'
  <2>1. gradedBy # None => gradedBy \in Flusher /\ gradedBy \in Submitter
    BY DEF ShapeInv, TypeOK, Flusher
  <2>2. QED
    BY <2>1 DEF BufferInv, GradedInv
<1>5. QED
  BY <1>1, <1>2, <1>3, <1>4 DEF BufferInv

(* Buffering an answer makes its question dirty; what was known of a        *)
(* question buffered before is no longer claimed.                           *)
LEMMA BufferKeeps ==
    ASSUME ShapeInv, BufferInv, NEW w \in Writer, Buffer(w)
    PROVE  BufferInv'
<1> DEFINE q0 == item[w][1]
<1>1. /\ q0 \in Question /\ item[w][2] \in Value /\ item[w][2] # None
      /\ answers' = [answers EXCEPT ![q0] = item[w][2]]
      /\ dirty' = dirty \cup {q0}
      /\ times' = [times EXCEPT ![q0] = @ + 1]
      /\ UNCHANGED <<rows, status, graded, gradedBy, fpc, taken, batch, due>>
  <2>1. item[w] \in Question \X Value
    BY DEF ShapeInv, ItemInv, Buffer
  <2>2. QED
    BY <2>1, ActorsAssumption DEF Buffer, db, flush
<1>2. /\ answers' \in Sheet /\ times' \in [Question -> Nat]
      /\ answers \in Sheet /\ times \in [Question -> Nat]
  BY ShapeStep DEF ShapeInv, TypeOK, Next, Write
<1>3. \A q \in Question : q # q0 => answers'[q] = answers[q] /\ times'[q] = times[q]
  BY <1>1, <1>2 DEF Sheet
<1>4. /\ answers'[q0] = item[w][2] /\ answers'[q0] # None
      /\ times'[q0] = times[q0] + 1
      /\ answers[q0] # None => times[q0] # 0
  BY <1>1, <1>2 DEF Sheet, BufferInv, DirtyInv
<1>5. times'[q0] = 1 => answers[q0] = None
  BY <1>1, <1>2, <1>4
<1>6. times'[q0] # 0
  BY <1>1, <1>2, <1>4
<1> HIDE DEF q0
<1>7. DirtyInv'
  BY <1>1, <1>2, <1>3, <1>4, <1>6 DEF BufferInv, DirtyInv, ShapeInv, TypeOK
<1>8. FlushInv'
  <2> SUFFICES ASSUME NEW f \in Flusher, fpc[f] \in Working, NEW q \in taken[f]
               PROVE  Holds(f, q)'
    BY <1>1 DEF FlushInv
  <2>1. Holds(f, q) /\ q \in Question
    BY DEF BufferInv, FlushInv, ShapeInv, TypeOK
  <2>2. CASE q = q0
    BY <1>1, <1>4, <1>5, <2>1, <2>2 DEF Holds
  <2>3. CASE q # q0
    BY <1>1, <1>3, <2>1, <2>3 DEF Holds
  <2>4. QED
    BY <2>2, <2>3
<1>9. DueInv'
  <2> SUFFICES ASSUME NEW s \in Submitter, NEW q \in Question, due[s][q] # None
               PROVE  /\ answers'[q] # None
                      /\ times'[q] = 1 => due[s][q] = answers'[q]
    BY <1>1 DEF DueInv
  <2>1. answers[q] # None /\ (times[q] = 1 => due[s][q] = answers[q])
    BY DEF BufferInv, DueInv
  <2>2. QED
    BY <1>3, <1>4, <1>5, <2>1
<1>10. CoverInv'
  <2>1. ASSUME NEW s \in Submitter, NEW q \in Question, Covered(s, q)
        PROVE  Covered(s, q)'
    <3>1. due[s][q] # None => answers[q] # None
      BY DEF BufferInv, DueInv
    <3>2. QED
      BY <1>1, <1>3, <1>5, <2>1, <3>1 DEF Covered
  <2>2. QED
    BY <1>1, <2>1 DEF BufferInv, CoverInv
<1>11. GradedInv'
  BY <1>1 DEF BufferInv, GradedInv
<1>12. AnsweredIsStored' /\ CleanInv'
  BY <1>1, <1>3 DEF BufferInv, AnsweredIsStored, CleanInv
<1>13. SubmitSeesTheBuffer'
  <2> SUFFICES ASSUME gradedBy # None, NEW q \in Question,
                      due[gradedBy][q] # None, times'[q] = 1
               PROVE  graded[q] = due[gradedBy][q]
    BY <1>1 DEF SubmitSeesTheBuffer
  <2>1. answers[q] # None
    BY DEF BufferInv, DueInv, ShapeInv, TypeOK
  <2>2. q # q0
    BY <1>5, <2>1
  <2>3. QED
    BY <1>3, <2>2 DEF BufferInv, SubmitSeesTheBuffer
<1>14. QED
  BY <1>7, <1>8, <1>9, <1>10, <1>11, <1>12, <1>13 DEF BufferInv

(* A submit that finds nothing dirty owes nothing. *)
LEMMA NothingDirty ==
    ASSUME BufferInv, NEW s \in Submitter, NEW q \in Question, q \notin dirty
    PROVE  Covered(s, q)
BY DEF BufferInv, DueInv, CleanInv, Covered

(* Only the rows of an answer that was replaced are ever overwritten. *)
LEMMA CommitKeeps ==
    ASSUME ShapeInv, BufferInv, NEW f \in Flusher, CommitFlush(f)
    PROVE  BufferInv'
<1>1. /\ fpc[f] = "commit" /\ fpc'[f] = "clean"
      /\ \A g \in Flusher : g # f => fpc'[g] = fpc[g] /\ batch'[g] = batch[g]
      /\ rows' = [q \in Question |-> IF q \in taken[f] THEN batch[f][q] ELSE rows[q]]
      /\ UNCHANGED <<status, graded, gradedBy, answers, dirty, taken, due, times>>
  BY DEF CommitFlush, Goto, ShapeInv, TypeOK, buffer, ghosts
<1>2. \A q \in taken[f] : Holds(f, q) /\ q \in Question
  BY <1>1 DEF BufferInv, FlushInv, Working, ShapeInv, TypeOK
<1>3. \A q \in Question :
        /\ rows[q] # None => rows'[q] # None
        /\ q \in taken[f] => rows'[q] # None
        /\ times[q] = 1 /\ rows[q] = answers[q] => rows'[q] = answers[q]
        /\ times[q] = 1 /\ q \in taken[f] => rows'[q] = answers[q]
  BY <1>1, <1>2 DEF Holds
<1>4. DirtyInv' /\ DueInv' /\ SubmitSeesTheBuffer'
  BY <1>1 DEF BufferInv, DirtyInv, DueInv, SubmitSeesTheBuffer
<1>5. AnsweredIsStored' /\ CleanInv'
  BY <1>1, <1>3 DEF BufferInv, AnsweredIsStored, CleanInv
<1>6. FlushInv'
  <2> SUFFICES ASSUME NEW g \in Flusher, fpc'[g] \in Working, NEW q \in taken[g]
               PROVE  Holds(g, q)'
    BY <1>1 DEF FlushInv
  <2>1. CASE g = f
    BY <1>1, <1>2, <1>3, <2>1 DEF Holds
  <2>2. CASE g # f
    <3>1. Holds(g, q) /\ q \in Question /\ fpc'[g] = fpc[g] /\ batch'[g] = batch[g]
      BY <1>1, <2>2 DEF BufferInv, FlushInv, ShapeInv, TypeOK
    <3>2. QED
      BY <1>1, <1>3, <3>1 DEF Holds
  <2>3. QED
    BY <2>1, <2>2
<1>7. CoverInv'
  <2>1. ASSUME NEW s \in Submitter, NEW q \in Question, Covered(s, q)
        PROVE  Covered(s, q)'
    BY <1>1, <1>3, <2>1 DEF Covered
  <2>2. ASSUME NEW s \in Submitter, status = "in_progress", fpc'[s] \in Working,
               NEW q \in Question \ taken[s]
        PROVE  Covered(s, q)'
    <3>1. fpc[s] \in Working
      BY <1>1, <2>2 DEF Working, Flusher
    <3>2. Covered(s, q)
      BY <2>2, <3>1 DEF BufferInv, CoverInv
    <3>3. QED
      BY <2>1, <3>2
  <2>3. ASSUME NEW s \in Submitter, status = "in_progress", fpc'[s] \in Paid,
               NEW q \in Question
        PROVE  Covered(s, q)'
    <3>1. fpc[s] \in Paid
      BY <1>1, <2>3 DEF Paid, AckSteps, AfterFlush, Flusher
    <3>2. Covered(s, q)
      BY <2>3, <3>1 DEF BufferInv, CoverInv, Paid
    <3>3. QED
      BY <2>1, <3>2
  <2>4. QED
    BY <1>1, <2>2, <2>3 DEF CoverInv, Paid
<1>8. GradedInv'
  <2>1. gradedBy # None => gradedBy \in Flusher
    BY DEF ShapeInv, TypeOK, Flusher
  <2>2. QED
    BY <1>1, <2>1 DEF BufferInv, GradedInv
<1>9. QED
  BY <1>4, <1>5, <1>6, <1>7, <1>8 DEF BufferInv

(* SREM forgets only what the flusher has just stored. *)
LEMMA CleanKeeps ==
    ASSUME ShapeInv, BufferInv, NEW f \in Flusher, Clean(f)
    PROVE  BufferInv'
<1>1. /\ fpc[f] = "clean" /\ fpc'[f] = "count" /\ dirty' = dirty \ taken[f]
      /\ \A g \in Flusher : g # f => fpc'[g] = fpc[g] /\ taken'[g] = taken[g]
      /\ UNCHANGED <<rows, status, graded, gradedBy, answers, batch, due, times>>
  BY DEF Clean, Goto, ShapeInv, TypeOK, db, ghosts
<1>2. \A q \in taken[f] : rows[q] # None /\ (times[q] = 1 => rows[q] = answers[q])
  BY <1>1 DEF BufferInv, FlushInv, Working, Holds
<1>3. DirtyInv' /\ DueInv' /\ SubmitSeesTheBuffer'
  BY <1>1 DEF BufferInv, DirtyInv, DueInv, SubmitSeesTheBuffer
<1>4. AnsweredIsStored' /\ CleanInv'
  BY <1>1, <1>2 DEF BufferInv, AnsweredIsStored, CleanInv
<1>5. FlushInv'
  BY <1>1 DEF BufferInv, FlushInv, Holds, Working
<1>6. CoverInv'
  <2> SUFFICES ASSUME NEW s \in Submitter, status = "in_progress"
               PROVE  /\ fpc'[s] \in Working => \A q \in Question \ taken'[s] : Covered(s, q)
                      /\ fpc'[s] \in Paid => \A q \in Question : Covered(s, q)
    BY <1>1 DEF CoverInv, Paid, Covered
  <2>1. s \in Flusher
    BY DEF Flusher
  <2>2. CASE s = f
    <3>1. \A q \in Question \ taken[s] : Covered(s, q)
      BY <1>1, <2>2 DEF BufferInv, CoverInv, Working
    <3>2. \A q \in Question : Covered(s, q)
      BY <1>2, <2>2, <3>1 DEF Covered
    <3>3. QED
      BY <1>1, <2>2, <3>2 DEF Working
  <2>3. CASE s # f
    BY <1>1, <2>1, <2>3 DEF BufferInv, CoverInv, Paid
  <2>4. QED
    BY <2>2, <2>3
<1>7. GradedInv'
  <2>1. gradedBy # None => gradedBy \in Flusher
    BY DEF ShapeInv, TypeOK, Flusher
  <2>2. QED
    BY <1>1, <2>1 DEF BufferInv, GradedInv
<1>8. QED
  BY <1>3, <1>4, <1>5, <1>6, <1>7 DEF BufferInv

(* Reading the buffer: the dirty questions, their answers, the status.      *)
LEMMA ReadsKeep ==
    ASSUME ShapeInv, BufferInv, NEW f \in Flusher,
           ReadDirty(f) \/ ReadAnswers(f) \/ CheckSession(f)
    PROVE  BufferInv'
<1>1. /\ fpc[f] \in {"flush", "read", "check"}
      /\ \A g \in Flusher : g # f => /\ fpc'[g] = fpc[g] /\ taken'[g] = taken[g]
                                    /\ batch'[g] = batch[g]
      /\ UNCHANGED <<rows, status, graded, gradedBy, answers, dirty, due, times>>
  BY DEF ReadDirty, ReadAnswers, CheckSession, Goto, ShapeInv, TypeOK, db, buffer, flush, ghosts
<1>2. /\ DirtyInv' /\ DueInv' /\ SubmitSeesTheBuffer'
      /\ AnsweredIsStored' /\ CleanInv'
  BY <1>1 DEF BufferInv, DirtyInv, DueInv, SubmitSeesTheBuffer, AnsweredIsStored, CleanInv
<1>3. GradedInv'
  <2>1. gradedBy # None => gradedBy \in Flusher
    BY DEF ShapeInv, TypeOK, Flusher
  <2>2. QED
    BY <1>1, <2>1 DEF BufferInv, GradedInv
<1>4. /\ fpc'[f] \in Working => \A q \in taken'[f] : Holds(f, q)'
      /\ f \in Submitter /\ status = "in_progress" =>
           /\ fpc'[f] \in Working => \A q \in Question \ taken'[f] : Covered(f, q)
           /\ fpc'[f] \in Paid => \A q \in Question : Covered(f, q)
  <2>1. CASE ReadDirty(f)
    <3>1. /\ taken'[f] = dirty /\ dirty \subseteq Question
          /\ fpc'[f] = IF dirty = {} THEN "ack1" ELSE "read"
      BY <2>1 DEF ReadDirty, Goto, ShapeInv, TypeOK
    <3>2. \A q \in dirty : answers'[q] # None
      BY <1>1 DEF BufferInv, DirtyInv
    <3>3. QED
      BY <3>1, <3>2, NothingDirty DEF Holds, Working, Paid, AckSteps, AfterFlush
  <2>2. CASE ReadAnswers(f)
    <3>1. /\ fpc[f] = "read" /\ fpc'[f] = "check" /\ taken'[f] = taken[f]
          /\ \A q \in taken[f] : batch'[f][q] = answers[q]
      BY <2>2 DEF ReadAnswers, Goto, ShapeInv, TypeOK
    <3>2. \A q \in taken[f] : answers[q] # None
      BY <3>1 DEF BufferInv, FlushInv, Holds, Working
    <3>3. QED
      BY <1>1, <3>1, <3>2 DEF BufferInv, CoverInv, Holds, Working, Paid, AckSteps, AfterFlush
  <2>3. CASE CheckSession(f)
    <3>1. /\ fpc[f] = "check" /\ taken'[f] = taken[f] /\ batch'[f] = batch[f]
          /\ fpc'[f] = IF status = "in_progress" THEN "commit" ELSE "ack1"
      BY <2>3 DEF CheckSession, Goto, ShapeInv, TypeOK, flush
    <3>2. \A q \in taken[f] : Holds(f, q)
      BY <3>1 DEF BufferInv, FlushInv, Working
    <3>3. QED
      BY <1>1, <3>1, <3>2 DEF BufferInv, CoverInv, Holds, Working, Paid, AckSteps, AfterFlush
  <2>4. QED
    BY <2>1, <2>2, <2>3
<1>5. FlushInv'
  BY <1>1, <1>4 DEF BufferInv, FlushInv, Holds
<1>6. CoverInv'
  <2> SUFFICES ASSUME NEW s \in Submitter, status = "in_progress"
               PROVE  /\ fpc'[s] \in Working => \A q \in Question \ taken'[s] : Covered(s, q)
                      /\ fpc'[s] \in Paid => \A q \in Question : Covered(s, q)
    BY <1>1 DEF CoverInv, Paid, Covered
  <2>1. s \in Flusher
    BY DEF Flusher
  <2>2. CASE s = f
    BY <1>4, <2>2
  <2>3. CASE s # f
    BY <1>1, <2>1, <2>3 DEF BufferInv, CoverInv, Paid
  <2>4. QED
    BY <2>2, <2>3
<1>7. QED
  BY <1>2, <1>3, <1>5, <1>6 DEF BufferInv

(* A submit arrives, and what the buffer holds by then becomes its debt.    *)
LEMMA ArriveKeeps ==
    ASSUME ShapeInv, BufferInv, NEW s \in Submitter, Arrive(s)
    PROVE  BufferInv'
<1>1. s \in Flusher
  BY DEF Flusher
<1>2. /\ fpc[s] = "idle" /\ fpc'[s] \in {"peek", "done"}
      /\ \A g \in Flusher : g # s => fpc'[g] = fpc[g]
      /\ due'[s] = answers /\ \A r \in Submitter : r # s => due'[r] = due[r]
      /\ UNCHANGED <<rows, status, graded, gradedBy, answers, dirty, taken, batch, times>>
  BY <1>1 DEF Arrive, Goto, ShapeInv, TypeOK, db, buffer, flush
<1>3. DirtyInv' /\ AnsweredIsStored' /\ CleanInv'
  BY <1>2 DEF BufferInv, DirtyInv, AnsweredIsStored, CleanInv
<1>4. FlushInv'
  BY <1>2 DEF BufferInv, FlushInv, Holds, Working
<1>5. DueInv'
  BY <1>2 DEF BufferInv, DueInv
<1>6. CoverInv'
  <2> SUFFICES ASSUME NEW r \in Submitter, status = "in_progress"
               PROVE  /\ fpc'[r] \in Working => \A q \in Question \ taken[r] : Covered(r, q)'
                      /\ fpc'[r] \in Paid => \A q \in Question : Covered(r, q)'
    BY <1>2 DEF CoverInv, Paid
  <2>1. CASE r = s
    BY <1>2, <2>1 DEF Working, Paid, AckSteps, AfterFlush
  <2>2. CASE r # s
    <3>1. fpc'[r] = fpc[r] /\ due'[r] = due[r]
      BY <1>2, <2>2 DEF Flusher
    <3>2. QED
      BY <1>2, <3>1 DEF BufferInv, CoverInv, Covered, Paid
  <2>3. QED
    BY <2>1, <2>2
<1>7. GradedInv' /\ SubmitSeesTheBuffer'
  <2>1. gradedBy # None => gradedBy \in Submitter /\ gradedBy \in Flusher /\ gradedBy # s
    BY <1>2 DEF BufferInv, GradedInv, ShapeInv, TypeOK, Flusher
  <2>2. QED
    BY <1>2, <2>1 DEF BufferInv, GradedInv, SubmitSeesTheBuffer
<1>8. QED
  BY <1>3, <1>4, <1>5, <1>6, <1>7 DEF BufferInv

LEMMA PeekKeeps ==
    ASSUME ShapeInv, BufferInv, NEW s \in Submitter, Peek(s)
    PROVE  BufferInv'
<1>1. s \in Flusher
  BY DEF Flusher
<1>2. /\ fpc[s] = "peek" /\ fpc'[s] = IF dirty = {} THEN "ack1" ELSE "flush"
      /\ \A g \in Flusher : g # s => fpc'[g] = fpc[g]
      /\ UNCHANGED <<rows, status, graded, gradedBy, answers, dirty, taken, batch, due, times>>
  BY <1>1 DEF Peek, Goto, ShapeInv, TypeOK, db, buffer, flush, ghosts
<1>3. /\ DirtyInv' /\ DueInv' /\ SubmitSeesTheBuffer'
      /\ AnsweredIsStored' /\ CleanInv'
  BY <1>2 DEF BufferInv, DirtyInv, DueInv, SubmitSeesTheBuffer, AnsweredIsStored, CleanInv
<1>4. FlushInv'
  BY <1>2 DEF BufferInv, FlushInv, Holds, Working
<1>5. CoverInv'
  <2> SUFFICES ASSUME NEW r \in Submitter, status = "in_progress"
               PROVE  /\ fpc'[r] \in Working => \A q \in Question \ taken[r] : Covered(r, q)
                      /\ fpc'[r] \in Paid => \A q \in Question : Covered(r, q)
    BY <1>2 DEF CoverInv, Paid, Covered
  <2>1. CASE r = s
    BY <1>2, <2>1, NothingDirty DEF Working, Paid, AckSteps, AfterFlush
  <2>2. CASE r # s
    <3>1. fpc'[r] = fpc[r]
      BY <1>2, <2>2 DEF Flusher
    <3>2. QED
      BY <3>1 DEF BufferInv, CoverInv, Paid
  <2>3. QED
    BY <2>1, <2>2
<1>6. GradedInv'
  <2>1. gradedBy # None => gradedBy \in Flusher /\ gradedBy # s
    BY <1>2 DEF BufferInv, GradedInv, ShapeInv, TypeOK, Flusher
  <2>2. QED
    BY <1>2, <2>1 DEF BufferInv, GradedInv
<1>7. QED
  BY <1>3, <1>4, <1>5, <1>6 DEF BufferInv

(* The submit that grades has paid what it owed. *)
LEMMA SubmitKeeps ==
    ASSUME ShapeInv, BufferInv, NEW s \in Submitter, Submit(s)
    PROVE  BufferInv'
<1>1. s \in Flusher /\ s # None
  BY ActorsAssumption DEF Flusher
<1>2. /\ fpc[s] = "submit" /\ fpc'[s] = "done"
      /\ \A g \in Flusher : g # s => fpc'[g] = fpc[g]
      /\ UNCHANGED <<rows, answers, dirty, taken, batch, due, times>>
      /\ IF status = "in_progress"
         THEN status' = "submitted" /\ graded' = rows /\ gradedBy' = s
         ELSE UNCHANGED <<status, graded, gradedBy>>
  BY <1>1 DEF Submit, Goto, ShapeInv, TypeOK, buffer, flush, ghosts
<1>3. DirtyInv' /\ DueInv' /\ AnsweredIsStored' /\ CleanInv'
  BY <1>2 DEF BufferInv, DirtyInv, DueInv, AnsweredIsStored, CleanInv
<1>4. FlushInv'
  BY <1>2 DEF BufferInv, FlushInv, Holds, Working
<1>5. CASE status = "in_progress"
  <2>1. status' = "submitted" /\ graded' = rows /\ gradedBy' = s
    BY <1>2, <1>5
  <2>2. CoverInv'
    BY <2>1 DEF CoverInv
  <2>3. GradedInv'
    BY <1>2, <2>1 DEF GradedInv
  <2>4. SubmitSeesTheBuffer'
    <3> SUFFICES ASSUME NEW q \in Question, due[s][q] # None, times[q] = 1
                 PROVE  rows[q] = due[s][q]
      BY <1>2, <2>1 DEF SubmitSeesTheBuffer
    <3>1. Covered(s, q)
      BY <1>2, <1>5 DEF BufferInv, CoverInv
    <3>2. QED
      BY <3>1 DEF Covered, BufferInv, DueInv
  <2>5. QED
    BY <1>3, <1>4, <2>2, <2>3, <2>4 DEF BufferInv
<1>6. CASE status # "in_progress"
  <2>1. UNCHANGED <<status, graded, gradedBy>>
    BY <1>2, <1>6
  <2>2. CoverInv' /\ SubmitSeesTheBuffer'
    BY <1>2, <1>6, <2>1 DEF BufferInv, CoverInv, SubmitSeesTheBuffer
  <2>3. GradedInv'
    <3>1. gradedBy # None => gradedBy \in Flusher
      BY DEF ShapeInv, TypeOK, Flusher
    <3>2. QED
      BY <1>2, <2>1, <3>1 DEF BufferInv, GradedInv
  <2>4. QED
    BY <1>3, <1>4, <2>2, <2>3 DEF BufferInv
<1>7. QED
  BY <1>5, <1>6

(* Everything else touches the queue, the locks or the lease only: what the *)
(* queue says of the session has no part in the argument.                   *)
LEMMA QueueKeeps ==
    ASSUME ShapeInv, BufferInv, NEW f \in Flusher,
           \/ Count(f) \/ AckProcessing(f) \/ AckPending(f) \/ AckQueued(f)
           \/ RestoreProcessing(f) \/ RestorePending(f)
    PROVE  BufferInv'
<1>1. UNCHANGED <<db, buffer, flush, ghosts>> /\ fpc[f] \in Paid \ {"submit"}
  BY DEF Count, AckProcessing, AckPending, AckQueued, RestoreProcessing, RestorePending,
         Paid, AckSteps, AfterFlush
<1>2. /\ fpc'[f] \notin Working
      /\ f \in Submitter => fpc'[f] \in Paid
      /\ \A g \in Flusher : g # f => fpc'[g] = fpc[g]
  <2>1. CASE Count(f) \/ AckProcessing(f) \/ AckPending(f) \/ RestoreProcessing(f)
    BY <2>1 DEF Count, AckProcessing, AckPending, RestoreProcessing, Goto, ShapeInv, TypeOK,
                Working, Paid, AckSteps, AfterFlush
  <2>2. CASE AckQueued(f) \/ RestorePending(f)
    <3>1. AfterOne(f) /\ fpc[f] \in FlushSteps \cup AckSteps \cup AfterFlush
      BY <2>2 DEF AckQueued, RestorePending, AckSteps, AfterFlush
    <3>2. /\ f \in Submitter => fpc'[f] = "submit"
          /\ f \in Drainer => fpc'[f] \in {"flush", "release"}
          /\ \A g \in Flusher : g # f => fpc'[g] = fpc[g]
      BY <3>1, AfterOneType
    <3>3. QED
      BY <3>2 DEF Flusher, Working, Paid
  <2>3. QED
    BY <2>1, <2>2
<1>3. fpc[f] # "done"
  BY <1>1 DEF Paid, AckSteps, AfterFlush
<1>4. QED
  BY <1>1, <1>2, <1>3, Moves

LEMMA DrainKeeps ==
    ASSUME ShapeInv, BufferInv, NEW d \in Drainer,
           Drain(d) \/ DrainFails(d) \/ TickFails(d) \/ Crash(d)
    PROVE  BufferInv'
<1>1. d \in Flusher /\ d \notin Submitter
  BY ActorsAssumption DEF Flusher
<1>2. /\ UNCHANGED <<db, buffer, flush, ghosts>>
      /\ fpc'[d] \notin Working \/ fpc'[d] = fpc[d]
      /\ \A g \in Flusher : g # d => fpc'[g] = fpc[g]
  BY <1>1 DEF Drain, TakeLease, Claim, CheckLease, DropLease, DrainFails, TickFails, Crash,
              Goto, ShapeInv, TypeOK, Working
<1>3. QED
  BY <1>1, <1>2, Moves

LEMMA SubmitFailsKeeps ==
    ASSUME ShapeInv, BufferInv, NEW s \in Submitter, SubmitFails(s)
    PROVE  BufferInv'
<1>1. s \in Flusher
  BY DEF Flusher
<1>2. /\ UNCHANGED <<db, buffer, flush, ghosts>>
      /\ fpc[s] # "done" /\ fpc'[s] = "idle"
      /\ \A g \in Flusher : g # s => fpc'[g] = fpc[g]
  BY <1>1 DEF SubmitFails, Goto, ShapeInv, TypeOK, FlushSteps, AckSteps, AfterFlush
<1>3. QED
  BY <1>2, Moves DEF Working, Paid, AckSteps, AfterFlush

LEMMA WritersKeep ==
    ASSUME ShapeInv, BufferInv, NEW w \in Writer,
           SendBatch(w) \/ SendSingle(w) \/ MarkQueued(w) \/ Push(w) \/ WriterFails(w)
    PROVE  BufferInv'
<1>1. UNCHANGED <<db, buffer, flush, ghosts, fpc>>
  BY DEF SendBatch, SendSingle, Sends, MarkQueued, Push, WriterFails, Answered
<1>2. QED
  BY <1>1, Moves

LEMMA BufferInit == Init => BufferInv
<1> SUFFICES ASSUME Init
             PROVE  BufferInv
  OBVIOUS
<1>1. DirtyInv /\ DueInv /\ AnsweredIsStored /\ CleanInv
  BY DEF Init, Blank, DirtyInv, DueInv, AnsweredIsStored, CleanInv
<1>2. FlushInv /\ CoverInv
  BY DEF Init, FlushInv, CoverInv, Working, AckSteps, AfterFlush, Flusher
<1>3. GradedInv /\ SubmitSeesTheBuffer
  BY DEF Init, GradedInv, SubmitSeesTheBuffer
<1>4. QED
  BY <1>1, <1>2, <1>3 DEF BufferInv

LEMMA BufferStep == ShapeInv /\ BufferInv /\ [Next]_vars => BufferInv'
<1> SUFFICES ASSUME ShapeInv, BufferInv, [Next]_vars
             PROVE  BufferInv'
  OBVIOUS
<1>1. ASSUME NEW w \in Writer, SendBatch(w) \/ SendSingle(w) \/ Write(w) \/ WriterFails(w)
      PROVE  BufferInv'
  BY <1>1, BufferKeeps, WritersKeep DEF Write
<1>2. ASSUME NEW f \in Flusher, Flush(f)
      PROVE  BufferInv'
  BY <1>2, ReadsKeep, CommitKeeps, CleanKeeps, QueueKeeps DEF Flush
<1>3. ASSUME NEW d \in Drainer, Drain(d) \/ DrainFails(d) \/ TickFails(d) \/ Crash(d)
      PROVE  BufferInv'
  BY <1>3, DrainKeeps
<1>4. ASSUME NEW s \in Submitter, Arrive(s) \/ Peek(s) \/ Submit(s) \/ SubmitFails(s)
      PROVE  BufferInv'
  BY <1>4, ArriveKeeps, PeekKeeps, SubmitKeeps, SubmitFailsKeeps
<1>5. CASE LeaseExpires \/ UNCHANGED vars
  <2>1. UNCHANGED <<db, buffer, flush, ghosts, fpc>>
    BY <1>5 DEF LeaseExpires, vars
  <2>2. QED
    BY <2>1, Moves
<1>6. QED
  BY <1>1, <1>2, <1>3, <1>4, <1>5 DEF Next

LEMMA BufferInvariant == Spec => [](ShapeInv /\ BufferInv)
BY ShapeInit, ShapeStep, BufferInit, BufferStep, PTL DEF Spec

(* No crash of a worker, failed call, expired lease or race of drainers     *)
(* makes an answered question unanswered.                                   *)
THEOREM NoAnswerVanishes == Spec => []AnsweredIsStored
<1>1. BufferInv => AnsweredIsStored
  BY DEF BufferInv
<1>2. QED
  BY <1>1, BufferInvariant, PTL

(* The flush that precedes the grading covers what was buffered before the  *)
(* submit, although it holds no lock that keeps writers and drainers away.  *)
THEOREM SubmitGradesTheBuffer == Spec => []SubmitSeesTheBuffer
<1>1. BufferInv => SubmitSeesTheBuffer
  BY DEF BufferInv
<1>2. QED
  BY <1>1, BufferInvariant, PTL

(* An answer that was never replaced is in its row, with its value, when it *)
(* is not dirty any more: a batch that was read before other answers came   *)
(* does not forget it.  (One that was replaced may be forgotten: SREM.)     *)
THEOREM CleanIsStored == Spec => []CleanInv
<1>1. BufferInv => CleanInv
  BY DEF BufferInv
<1>2. QED
  BY <1>1, BufferInvariant, PTL

-----------------------------------------------------------------------------
(* The buffer delivers at least once: refinement of AnswerDelivery. *)

Delivers == [Delivery!DeliveryNext]_(Delivery!deliveryVars)

(* A step that touches neither the buffer nor the rows. *)
LEMMA RestDelivers ==
    ASSUME UNCHANGED <<rows, answers, dirty>>
    PROVE  Delivers
BY DEF Delivers, Delivery!deliveryVars

LEMMA BufferDelivers ==
    ASSUME ShapeInv, NEW w \in Writer, Buffer(w)
    PROVE  Delivers
<1>1. item[w] \in Question \X Value
  BY DEF Buffer, ShapeInv, ItemInv
<1>2. PICK q0 \in Question, v \in Value : item[w][1] = q0 /\ item[w][2] = v
  BY <1>1
<1>3. /\ answers' = [answers EXCEPT ![q0] = v] /\ answers \in Sheet /\ v # None
      /\ dirty' = dirty \cup {q0} /\ rows' = rows
  BY <1>2, ActorsAssumption DEF Buffer, ShapeInv, TypeOK, db
<1>4. {q \in Question : answers'[q] # None} = {q \in Question : answers[q] # None} \cup {q0}
  BY <1>3 DEF Sheet
<1>5. Delivery!Accept(q0)
  BY <1>3, <1>4 DEF Delivery!Accept
<1>6. QED
  BY <1>5 DEF Delivers, Delivery!DeliveryNext

(* The upserts give a row to questions the student answered. *)
LEMMA CommitDelivers ==
    ASSUME ShapeInv, BufferInv, NEW f \in Flusher, CommitFlush(f)
    PROVE  Delivers
<1>1. /\ fpc[f] = "commit" /\ UNCHANGED <<answers, dirty>>
      /\ rows' = [q \in Question |-> IF q \in taken[f] THEN batch[f][q] ELSE rows[q]]
  BY DEF CommitFlush, buffer
<1>2. \A q \in taken[f] : q \in Question /\ answers[q] # None /\ batch[f][q] # None
  BY <1>1 DEF BufferInv, FlushInv, Holds, Working, ShapeInv, TypeOK
<1>3. /\ taken[f] \in SUBSET {q \in Question : answers[q] # None}
      /\ {q \in Question : rows'[q] # None} = {q \in Question : rows[q] # None} \cup taken[f]
  BY <1>1, <1>2
<1>4. Delivery!Store
  BY <1>1, <1>3 DEF Delivery!Store
<1>5. QED
  BY <1>4 DEF Delivers, Delivery!DeliveryNext

(* SREM takes away only questions that have a row by then. *)
LEMMA CleanDelivers ==
    ASSUME ShapeInv, BufferInv, NEW f \in Flusher, Clean(f)
    PROVE  Delivers
<1>1. fpc[f] = "clean" /\ dirty' = dirty \ taken[f] /\ UNCHANGED <<rows, answers>>
  BY DEF Clean, db
<1>2. \A q \in taken[f] : q \in Question /\ rows[q] # None
  BY <1>1 DEF BufferInv, FlushInv, Holds, Working, ShapeInv, TypeOK
<1>3. /\ dirty \cap taken[f] \in SUBSET (dirty \cap {q \in Question : rows[q] # None})
      /\ dirty' = dirty \ (dirty \cap taken[f])
  BY <1>1, <1>2
<1>4. \E S \in SUBSET (dirty \cap {q \in Question : rows[q] # None}) : dirty' = dirty \ S
  BY <1>3
<1>5. Delivery!LetGo
  BY <1>1, <1>4 DEF Delivery!LetGo
<1>6. QED
  BY <1>5 DEF Delivers, Delivery!DeliveryNext

LEMMA DeliveryStep == ShapeInv /\ BufferInv /\ [Next]_vars => Delivers
<1> SUFFICES ASSUME ShapeInv, BufferInv, [Next]_vars
             PROVE  Delivers
  OBVIOUS
<1>1. ASSUME NEW w \in Writer,
             \/ SendBatch(w) \/ SendSingle(w) \/ MarkQueued(w) \/ Push(w) \/ WriterFails(w)
      PROVE  UNCHANGED <<rows, answers, dirty>>
  BY <1>1 DEF SendBatch, SendSingle, Sends, MarkQueued, Push, WriterFails, Answered, db, buffer
<1>2. ASSUME NEW f \in Flusher, Flush(f), ~CommitFlush(f), ~Clean(f)
      PROVE  UNCHANGED <<rows, answers, dirty>>
  BY <1>2 DEF Flush, ReadDirty, ReadAnswers, CheckSession, Count, AckProcessing, AckPending,
     AckQueued, RestoreProcessing, RestorePending, db, buffer
<1>3. ASSUME NEW d \in Drainer, Drain(d) \/ DrainFails(d) \/ TickFails(d) \/ Crash(d)
      PROVE  UNCHANGED <<rows, answers, dirty>>
  BY <1>3 DEF Drain, TakeLease, Claim, CheckLease, DropLease, DrainFails, TickFails, Crash, db, buffer
<1>4. ASSUME NEW s \in Submitter, Arrive(s) \/ Peek(s) \/ Submit(s) \/ SubmitFails(s)
      PROVE  UNCHANGED <<rows, answers, dirty>>
  BY <1>4 DEF Arrive, Peek, Submit, SubmitFails, db, buffer
<1>5. CASE LeaseExpires \/ UNCHANGED vars
  BY <1>5, RestDelivers DEF LeaseExpires, vars, db, buffer
<1>6. QED
  BY <1>1, <1>2, <1>3, <1>4, <1>5, RestDelivers, BufferDelivers, CommitDelivers, CleanDelivers
     DEF Next, Write

(* Question by question the buffer delivers at least once: whichever worker *)
(* drains, and whatever fails, a question is clean only when its row has an *)
(* answer, and rows are given to answered questions only.                   *)
THEOREM RefinesDelivery == Spec => ImplementsDelivery
<1>1. Init => Delivery!DeliveryInit
  BY DEF Init, Blank, Delivery!DeliveryInit
<1>2. ShapeInv /\ BufferInv /\ [Next]_vars => [Delivery!DeliveryNext]_(Delivery!deliveryVars)
  BY DeliveryStep DEF Delivers
<1>3. QED
  BY <1>1, <1>2, BufferInvariant, PTL DEF Spec, ImplementsDelivery, Delivery!DeliverySpec

=============================================================================
