--------------------------- MODULE AnswerDelivery ---------------------------
(***************************************************************************)
(* What every path that stores answers later promises, with no lists,      *)
(* workers, requests or failures: an answer that was taken from the        *)
(* student is held until it is stored, it may be stored more than once,    *)
(* and nothing is stored that was not given.  AnswerQueue, AnswerJournal   *)
(* and AnswerBuffer are shown to implement it.                             *)
(***************************************************************************)

CONSTANT Answer

VARIABLES
    given,   \* the answers taken from the student
    held,    \* those that are still to be stored
    stored   \* those PostgreSQL has

deliveryVars == <<given, held, stored>>

DeliveryInit == given = {} /\ held = {} /\ stored = {}

(* An answer is taken, to be stored later. *)
Accept(a) ==
    /\ given' = given \cup {a}
    /\ held' = held \cup {a}
    /\ UNCHANGED stored

(* An answer is taken and stored at once. *)
AcceptStored(a) ==
    /\ given' = given \cup {a}
    /\ stored' = stored \cup {a}
    /\ UNCHANGED held

(* A transaction stores some of the given answers, perhaps not for the first *)
(* time.                                                                     *)
Store ==
    /\ \E S \in SUBSET given : stored' = stored \cup S
    /\ UNCHANGED <<given, held>>

(* Only what is stored is let go. *)
LetGo ==
    /\ \E S \in SUBSET (held \cap stored) : held' = held \ S
    /\ UNCHANGED <<given, stored>>

DeliveryNext ==
    \/ \E a \in Answer : Accept(a) \/ AcceptStored(a)
    \/ Store \/ LetGo

DeliverySpec == DeliveryInit /\ [][DeliveryNext]_deliveryVars

=============================================================================
