--------------------------- MODULE AnswerJournal ---------------------------
(***************************************************************************)
(* The answer journal: the client's queue of answer events                 *)
(* (static/js/exam/autosave.js, AnswerJournalWorker; the Flutter client's  *)
(* exam_resilience_service.dart follows the same algorithm) and the        *)
(* endpoint that takes them (answer_sync_service.py,                       *)
(* accept_journal_events, PostgreSQL path), over a network and a Redis     *)
(* that may fail.                                                          *)
(*                                                                         *)
(* An event is named by the position at which the student made it.  The    *)
(* pair (sequence, local_timestamp_ms) orders the events of one journal as *)
(* their names do: next_sequence is set back only over events that leave   *)
(* the journal with it.                                                    *)
(*                                                                         *)
(* The client sends one request at a time, but one it gave up on (timeout, *)
(* broken connection, reload of the page) may still run on the server.     *)
(***************************************************************************)
EXTENDS Integers, Sequences, FiniteSets

CONSTANTS
    Question,
    Request,    \* requests the server may work on at a time
    None,
    Batch,      \* batchSize
    MaxEvents,  \* bound: answers the student gives; at most the journal's capacity
    MaxFaults   \* bound: failures of network, Redis and server

ASSUME BoundAssumption ==
    Batch \in Nat \ {0} /\ MaxEvents \in Nat /\ MaxFaults \in Nat
ASSUME NoneAssumption == None \notin Request

VARIABLES
    asked,    \* the question each event answers
    journal,  \* events in the client's local storage
    read,     \* the journal as flushNow read it before its await
    flight,   \* the request flushNow waits for (syncInFlight), or None
    req,      \* requests on the server: where each is, its events, the ids it
              \* found in the Redis set, and the ids it acknowledges
    acked,    \* the session's Redis set of event ids
    stored,   \* the event whose answer the row of each question holds, or 0
    open,     \* the session is in_progress
    faults,   \* failures so far
    taken,    \* history: events of a committed transaction
    during    \* history: events made while flushNow waited

client == <<asked, journal, read, flight, during>>
server == <<req, acked, stored, taken>>
vars == <<client, server, open, faults>>

Events == 1..Len(asked)

Stages == {"free", "sent", "classified", "committed", "answered", "refused"}

Idle == [stage |-> "free", events |-> {}, fresh |-> {}]

TypeOK ==
    /\ asked \in Seq(Question)
    /\ Len(asked) <= MaxEvents
    /\ journal \subseteq Events
    /\ read \subseteq Events
    /\ flight \in Request \cup {None}
    /\ req \in [Request -> [stage : Stages, events : SUBSET Events, fresh : SUBSET Events]]
    /\ acked \subseteq Events
    /\ stored \in [Question -> Events \cup {0}]
    /\ open \in BOOLEAN
    /\ faults \in 0..MaxFaults
    /\ taken \subseteq Events
    /\ during \subseteq Events

Init ==
    /\ asked = <<>>
    /\ journal = {} /\ read = {} /\ flight = None
    /\ req = [r \in Request |-> Idle]
    /\ acked = {}
    /\ stored = [q \in Question |-> 0]
    /\ open = TRUE
    /\ faults = 0
    /\ taken = {} /\ during = {}

Fault == faults < MaxFaults /\ faults' = faults + 1

-----------------------------------------------------------------------------
(* The client. *)

\* Variant with a bug: the counter is moved on before it names the event.
EnqueueCountsFirst(q) ==
    /\ open
    /\ Len(asked) < MaxEvents
    /\ asked' = Append(asked, q)
    /\ journal' = journal \cup {Len(asked) + 2}
    /\ UNCHANGED <<read, flight, during, server, open, faults>>

\* enqueue: the student answers q.
Enqueue(q) ==
    /\ open
    /\ Len(asked) < MaxEvents
    /\ asked' = Append(asked, q)
    /\ journal' = journal \cup {Len(asked) + 1}
    /\ during' = IF flight = None THEN during ELSE during \cup {Len(asked) + 1}
    /\ UNCHANGED <<read, flight, server, open, faults>>

\* Variant with a bug: the batch is cut from the newest events.
OldestFromTheEnd(S, n) == {e \in S : Cardinality({d \in S : d > e}) < n}

\* The first events of S, at most n.
Oldest(S, n) == {e \in S : Cardinality({d \in S : d < e}) < n}

\* flushNow up to its await: the journal is read, its first events are sent.
FlushSends(r) ==
    /\ flight = None
    /\ journal # {}
    /\ req[r].stage = "free"
    /\ read' = journal
    /\ flight' = r
    /\ req' = [req EXCEPT ![r] =
                 [stage |-> "sent", events |-> Oldest(journal, Batch), fresh |-> {}]]
    /\ UNCHANGED <<asked, journal, during, acked, stored, taken, open, faults>>

\* The state flushNow writes back after a reply that acknowledges ids.
Kept(ids) == read \ ids

\* Variant with a bug: a duplicate is no acknowledgement.
WritesBackOnlyApplied ==
    /\ flight # None
    /\ req[flight].stage = "answered"
    /\ journal' = Kept(req[flight].fresh)
    /\ read' = {}
    /\ flight' = None
    /\ req' = [req EXCEPT ![flight] = Idle]
    /\ UNCHANGED <<asked, during, acked, stored, taken, open, faults>>

\* flushNow after its await: what was read before it, without what is
\* acknowledged, replaces the journal.
FlushWritesBack ==
    /\ flight # None
    /\ req[flight].stage = "answered"
    /\ journal' = Kept(req[flight].events)
    /\ read' = {}
    /\ flight' = None
    /\ req' = [req EXCEPT ![flight] = Idle]
    /\ UNCHANGED <<asked, during, acked, stored, taken, open, faults>>

\* Variant with a bug: a refused batch leaves the journal.
FlushRefusedForgets ==
    /\ flight # None
    /\ req[flight].stage = "refused"
    /\ journal' = Kept(req[flight].events)
    /\ read' = {}
    /\ flight' = None
    /\ req' = [req EXCEPT ![flight] = Idle]
    /\ UNCHANGED <<asked, during, acked, stored, taken, open, faults>>

\* A reply that is not ok: the journal stays as it is.
FlushRefused ==
    /\ flight # None
    /\ req[flight].stage = "refused"
    /\ read' = {}
    /\ flight' = None
    /\ req' = [req EXCEPT ![flight] = Idle]
    /\ UNCHANGED <<asked, journal, during, acked, stored, taken, open, faults>>

\* The client gives up; the request stays with the server.
FlushGivesUp ==
    /\ Fault
    /\ flight # None
    /\ read' = {}
    /\ flight' = None
    /\ UNCHANGED <<asked, journal, during, server, open>>

-----------------------------------------------------------------------------
(* The server. *)

\* Nobody waits for the reply of r.
Abandoned(r) == req[r].stage # "free" /\ r # flight

Moves(r, stage) == req' = [req EXCEPT ![r].stage = stage]

\* Variant with a bug: the ids enter the set before the transaction.
ClassifiesAndRemembers(r) ==
    /\ req[r].stage = "sent"
    /\ open
    /\ acked' = acked \cup req[r].events
    /\ req' = [req EXCEPT ![r].fresh = req[r].events \ acked,
                          ![r].stage = IF req[r].events \subseteq acked
                                       THEN "answered" ELSE "classified"]
    /\ UNCHANGED <<client, stored, taken, open, faults>>

\* accept_journal_events up to the lock: the session is looked up, the ids are
\* looked up in the Redis set (a failure finds none), the events classified.
Classifies(r) ==
    /\ req[r].stage = "sent"
    /\ IF ~open
       THEN Moves(r, "refused") /\ UNCHANGED faults
       ELSE \E known \in {acked, {}} :
              LET fresh == req[r].events \ known
              IN  /\ IF known = acked THEN UNCHANGED faults ELSE Fault
                  /\ req' = [req EXCEPT ![r].fresh = fresh,
                                        ![r].stage = IF fresh = {} THEN "answered"
                                                                   ELSE "classified"]
    /\ UNCHANGED <<client, acked, stored, taken, open>>

\* Variant with a bug: the first of them.
LatestTakesFirst(ids, q) ==
    LET of == {e \in ids : asked[e] = q}
    IN  IF of = {} THEN 0 ELSE CHOOSE e \in of : \A d \in of : e <= d

\* The last of the events in ids that answer q, or 0 (_latest_journal_events_by_question).
Latest(ids, q) ==
    LET of == {e \in ids : asked[e] = q}
    IN  IF of = {} THEN 0 ELSE CHOOSE e \in of : \A d \in of : d <= e

\* Under the session's write lock the last event of each question replaces its
\* row, commit.  The check of the session under the lock sees the status it was
\* looked up with (SessionWrites, StaleWriters) and so refuses nothing.
Applies(r) ==
    /\ req[r].stage = "classified"
    /\ stored' = [q \in Question |-> IF Latest(req[r].fresh, q) = 0
                                      THEN stored[q] ELSE Latest(req[r].fresh, q)]
    /\ taken' = taken \cup req[r].fresh
    /\ Moves(r, "committed")
    /\ UNCHANGED <<client, acked, open, faults>>

\* After the commit the ids enter the Redis set; a failure is only logged.
Remembers(r) ==
    /\ req[r].stage = "committed"
    /\ \/ acked' = acked \cup req[r].fresh /\ UNCHANGED faults
       \/ Fault /\ UNCHANGED acked
    /\ Moves(r, "answered")
    /\ UNCHANGED <<client, stored, taken, open>>

\* The worker dies with the request: the client sees an error.
Dies(r) ==
    /\ Fault
    /\ req[r].stage \in {"sent", "classified", "committed"}
    /\ Moves(r, "refused")
    /\ UNCHANGED <<client, acked, stored, taken, open>>

\* The reply of a request nobody waits for is lost.
ReplyLost(r) ==
    /\ Abandoned(r)
    /\ req[r].stage \in {"answered", "refused"}
    /\ req' = [req EXCEPT ![r] = Idle]
    /\ UNCHANGED <<client, acked, stored, taken, open, faults>>

\* The session ends (submit, force submit, expiry: module SessionWrites).
Closes ==
    /\ open
    /\ open' = FALSE
    /\ UNCHANGED <<client, server, faults>>

Serves(r) == Classifies(r) \/ Applies(r) \/ Remembers(r) \/ ReplyLost(r)

Next ==
    \/ \E q \in Question : Enqueue(q)
    \/ \E r \in Request : FlushSends(r) \/ Serves(r) \/ Dies(r)
    \/ FlushWritesBack \/ FlushRefused \/ FlushGivesUp
    \/ Closes

Spec == Init /\ [][Next]_vars

\* Timers call flushNow again and again, backoff ends, the server works off
\* what it has received.  Neither answers nor faults are fair.
FairSpec ==
    /\ Spec
    /\ WF_vars(\E r \in Request : FlushSends(r))
    /\ WF_vars(FlushWritesBack)
    /\ WF_vars(FlushRefused)
    /\ \A r \in Request : WF_vars(Serves(r))

-----------------------------------------------------------------------------
(* Properties. *)

\* An id is in the Redis set only after a transaction with it committed: a
\* crash between the two cannot turn an answer into a duplicate nobody stored.
AckedIsTaken == acked \subseteq taken

\* What leaves the journal was stored, or was made while flushNow waited: no
\* refusal, failure or reload loses another event.
LostOnlyDuringFlush == Events \ (journal \cup taken) \subseteq during

\* A request the client waits for never replaces an answer by an older one,
\* whatever failed before it.
AwaitedMovesForward ==
    [][\A q \in Question : stored'[q] < stored[q] => flight = None \/ req'[flight] = req[flight]]_vars

\* Applying is idempotent: no request replaces an answer by an older one.
\* (Not so for a request the client gave up on: the ids are read before the lock.)
NeverBack == [][\A q \in Question : stored'[q] >= stored[q]]_vars

\* When nothing failed, a journal that is empty and has lost nothing is stored:
\* each question's row holds the student's last answer, none an older one.
EmptyIsStored ==
    (faults = 0 /\ journal = {} /\ Events \subseteq taken) =>
        \A e \in Events : e <= stored[asked[e]]

\* While the session lasts, what is in the journal reaches a transaction and
\* leaves the journal, however the failures fall: duplicates count as
\* acknowledged, so an answer whose reply was lost is not sent for ever.
JournalDrains == []<>(journal = {} \/ ~open)

Delivery == INSTANCE AnswerDelivery WITH
    Answer <- 1..MaxEvents,
    given  <- Events \ during,
    held   <- journal \ during,
    stored <- taken \ during

\* Of the events that were not made while flushNow waited, the journal drops
\* only what a transaction has stored, in whatever order replies, refusals,
\* reloads and resent batches fall.
ImplementsDelivery == Delivery!DeliverySpec

=============================================================================
