------------------------- MODULE AnswerQueueProofs -------------------------
(***************************************************************************)
(* Theorems about AnswerQueue for any number of workers and submits, any   *)
(* batch sizes, any number of answers and faults.                          *)
(***************************************************************************)
EXTENDS AnswerQueue, LastIndex, TLAPS

-----------------------------------------------------------------------------
(* What the Redis list commands keep. *)

(* RPUSH adds one element. *)
LEMMA AppendSet ==
    ASSUME NEW S, NEW s \in Seq(S), NEW x \in S
    PROVE  /\ Append(s, x) \in Seq(S)
           /\ ToSet(Append(s, x)) = ToSet(s) \cup {x}
<1>1. /\ Append(s, x) \in Seq(S)
      /\ DOMAIN s = 1..Len(s)
      /\ DOMAIN Append(s, x) = 1..(Len(s) + 1)
      /\ \A i \in 1..Len(s) : Append(s, x)[i] = s[i]
      /\ Append(s, x)[Len(s) + 1] = x
      /\ Len(s) \in Nat
  OBVIOUS
<1>2. ASSUME NEW i \in 1..(Len(s) + 1)
      PROVE  Append(s, x)[i] \in ToSet(s) \cup {x}
  BY <1>1 DEF ToSet
<1>3. ASSUME NEW i \in 1..Len(s)
      PROVE  s[i] \in ToSet(Append(s, x))
  BY <1>1 DEF ToSet
<1>4. x \in ToSet(Append(s, x))
  BY <1>1 DEF ToSet
<1>5. QED
  BY <1>1, <1>2, <1>3, <1>4 DEF ToSet

(* LPUSH adds one element. *)
LEMMA ConsSet ==
    ASSUME NEW S, NEW s \in Seq(S), NEW x \in S
    PROVE  /\ <<x>> \o s \in Seq(S)
           /\ ToSet(<<x>> \o s) = ToSet(s) \cup {x}
<1> DEFINE t == <<x>> \o s
<1>1. /\ t \in Seq(S)
      /\ DOMAIN s = 1..Len(s)
      /\ DOMAIN t = 1..(Len(s) + 1)
      /\ t[1] = x
      /\ \A i \in 1..Len(s) : t[i + 1] = s[i]
      /\ Len(s) \in Nat
  OBVIOUS
<1> HIDE DEF t
<1>2. ASSUME NEW i \in 1..(Len(s) + 1)
      PROVE  t[i] \in ToSet(s) \cup {x}
  <2>1. CASE i = 1
    BY <1>1, <2>1
  <2>2. CASE i # 1
    <3>1. i - 1 \in 1..Len(s) /\ i = (i - 1) + 1
      BY <1>1, <2>2
    <3>2. t[i] = s[i - 1]
      BY <1>1, <3>1
    <3>3. QED
      BY <1>1, <3>1, <3>2 DEF ToSet
  <2>3. QED
    BY <2>1, <2>2
<1>3. ASSUME NEW i \in 1..Len(s)
      PROVE  s[i] \in ToSet(t)
  <2>1. i + 1 \in DOMAIN t
    BY <1>1
  <2>2. QED
    BY <1>1, <2>1 DEF ToSet
<1>4. x \in ToSet(t)
  BY <1>1 DEF ToSet
<1>5. ToSet(t) = ToSet(s) \cup {x}
  BY <1>1, <1>2, <1>3, <1>4 DEF ToSet
<1>6. QED
  BY <1>1, <1>5 DEF t

(* LPOP and RPOP take one element and leave the others. *)
LEMMA PopSet ==
    ASSUME NEW S, NEW s \in Seq(S), s # <<>>
    PROVE  /\ Head(s) \in S /\ Tail(s) \in Seq(S)
           /\ ToSet(s) = ToSet(Tail(s)) \cup {Head(s)}
           /\ Last(s) \in S /\ Front(s) \in Seq(S)
           /\ ToSet(s) = ToSet(Front(s)) \cup {Last(s)}
<1>1. /\ DOMAIN s = 1..Len(s) /\ Len(s) \in Nat /\ Len(s) > 0
      /\ \A i \in 1..Len(s) : s[i] \in S
  OBVIOUS
<1>2. /\ Head(s) \in S /\ Tail(s) \in Seq(S)
      /\ ToSet(s) = ToSet(Tail(s)) \cup {Head(s)}
  <2>1. /\ Head(s) = s[1] /\ Tail(s) \in Seq(S)
        /\ DOMAIN Tail(s) = 1..(Len(s) - 1)
        /\ \A i \in 1..(Len(s) - 1) : Tail(s)[i] = s[i + 1]
    BY <1>1
  <2>2. ASSUME NEW i \in 1..Len(s), i # 1
        PROVE  s[i] \in ToSet(Tail(s))
    <3>1. i - 1 \in 1..(Len(s) - 1) /\ i = (i - 1) + 1
      BY <1>1, <2>2
    <3>2. s[i] = Tail(s)[i - 1]
      BY <2>1, <3>1
    <3>3. QED
      BY <2>1, <3>1, <3>2 DEF ToSet
  <2>3. ASSUME NEW i \in 1..(Len(s) - 1)
        PROVE  Tail(s)[i] \in ToSet(s)
    <3>1. i + 1 \in DOMAIN s
      BY <1>1
    <3>2. QED
      BY <2>1, <3>1 DEF ToSet
  <2>4. s[1] \in ToSet(s)
    BY <1>1 DEF ToSet
  <2>5. QED
    BY <1>1, <2>1, <2>2, <2>3, <2>4 DEF ToSet
<1>3. /\ Last(s) \in S /\ Front(s) \in Seq(S)
      /\ ToSet(s) = ToSet(Front(s)) \cup {Last(s)}
  <2>1. /\ Last(s) = s[Len(s)] /\ Front(s) \in Seq(S)
        /\ DOMAIN Front(s) = 1..(Len(s) - 1)
        /\ \A i \in 1..(Len(s) - 1) : Front(s)[i] = s[i]
    BY <1>1 DEF Last, Front
  <2>2. QED
    BY <1>1, <2>1 DEF ToSet
<1>4. QED
  BY <1>2, <1>3

(* LREM takes away nothing but the answer that is acknowledged. *)
LEMMA RemovedSet ==
    ASSUME NEW S, NEW s \in Seq(S), NEW x
    PROVE  /\ Removed(s, x) \in Seq(S)
           /\ ToSet(s) \subseteq ToSet(Removed(s, x)) \cup {x}
           /\ ToSet(Removed(s, x)) \subseteq ToSet(s)
<1>1. CASE x \notin ToSet(s)
  BY <1>1 DEF Removed
<1>2. CASE x \in ToSet(s)
  <2> DEFINE k == CHOOSE i \in DOMAIN s : s[i] = x
             t == SubSeq(s, 1, k - 1) \o SubSeq(s, k + 1, Len(s))
  <2>1. k \in 1..Len(s) /\ s[k] = x
    BY <1>2 DEF ToSet
  <2>2. Removed(s, x) = t
    BY <1>2 DEF Removed, RemoveAt
  <2> HIDE DEF k
  <2>3. /\ t \in Seq(S)
        /\ DOMAIN t = 1..(Len(s) - 1)
        /\ \A i \in 1..(k - 1) : t[i] = s[i]
        /\ \A i \in k..(Len(s) - 1) : t[i] = s[i + 1]
    <3>1. /\ SubSeq(s, 1, k - 1) \in Seq(S) /\ Len(SubSeq(s, 1, k - 1)) = k - 1
          /\ \A i \in 1..(k - 1) : SubSeq(s, 1, k - 1)[i] = s[i]
      BY <2>1
    <3>2. /\ SubSeq(s, k + 1, Len(s)) \in Seq(S) /\ Len(SubSeq(s, k + 1, Len(s))) = Len(s) - k
          /\ \A i \in 1..(Len(s) - k) : SubSeq(s, k + 1, Len(s))[i] = s[k + i]
      BY <2>1
    <3> DEFINE a == SubSeq(s, 1, k - 1)
               b == SubSeq(s, k + 1, Len(s))
    <3> HIDE DEF a, b
    <3>3. /\ a \o b \in Seq(S) /\ Len(a \o b) = Len(s) - 1
          /\ \A i \in 1..(k - 1) : (a \o b)[i] = a[i]
          /\ \A i \in k..(Len(s) - 1) : (a \o b)[i] = b[i - (k - 1)]
      <4>1. a \in Seq(S) /\ Len(a) = k - 1 /\ k \in 1..Len(s) /\ Len(s) \in Nat
        BY <2>1, <3>1 DEF a
      <4>2. b \in Seq(S) /\ Len(b) = Len(s) - k
        BY <3>2 DEF b
      <4>3. QED
        BY <4>1, <4>2
    <3>0. t = a \o b
      BY DEF a, b
    <3> HIDE DEF t
    <3>4. ASSUME NEW i \in k..(Len(s) - 1)
          PROVE  t[i] = s[i + 1]
      <4>1. i - (k - 1) \in 1..(Len(s) - k) /\ k + (i - (k - 1)) = i + 1
        BY <2>1
      <4>2. t[i] = b[i - (k - 1)]
        BY <3>0, <3>3
      <4>3. b[i - (k - 1)] = s[k + (i - (k - 1))]
        BY <3>2, <4>1 DEF b
      <4>4. QED
        BY <4>1, <4>2, <4>3
    <3>5. \A i \in 1..(k - 1) : t[i] = s[i]
      BY <3>0, <3>1, <3>3 DEF a
    <3>6. t \in Seq(S) /\ DOMAIN t = 1..(Len(s) - 1)
      BY <3>0, <3>3
    <3>7. QED
      BY <3>4, <3>5, <3>6
  <2> HIDE DEF t
  <2>4. ASSUME NEW i \in 1..Len(s), i # k
        PROVE  s[i] \in ToSet(t)
    <3>1. CASE i < k
      <4>1. i \in 1..(k - 1) /\ i \in 1..(Len(s) - 1)
        BY <2>1, <3>1
      <4>2. QED
        BY <2>3, <4>1 DEF ToSet
    <3>2. CASE i > k
      <4>1. i - 1 \in k..(Len(s) - 1) /\ i - 1 \in 1..(Len(s) - 1) /\ (i - 1) + 1 = i
        BY <2>1, <3>2
      <4>2. t[i - 1] = s[i]
        BY <2>3, <4>1
      <4>3. QED
        BY <2>3, <4>1, <4>2 DEF ToSet
    <3>3. QED
      BY <2>1, <2>4, <3>1, <3>2
  <2>5. \A i \in DOMAIN s : s[i] \in ToSet(t) \cup {x}
    BY <2>1, <2>4
  <2>6. ASSUME NEW i \in DOMAIN t
        PROVE  t[i] \in ToSet(s)
    <3>1. CASE i \in 1..(k - 1)
      <4>1. i \in DOMAIN s
        BY <2>1, <3>1
      <4>2. QED
        BY <2>3, <3>1, <4>1 DEF ToSet
    <3>2. CASE i \in k..(Len(s) - 1)
      <4>1. i + 1 \in DOMAIN s
        BY <2>1, <3>2
      <4>2. QED
        BY <2>3, <3>2, <4>1 DEF ToSet
    <3>3. QED
      BY <2>1, <2>3, <3>1, <3>2
  <2>7. ToSet(t) \subseteq ToSet(s)
    BY <2>6 DEF ToSet
  <2>8. QED
    BY <2>2, <2>3, <2>5, <2>7 DEF ToSet
<1>3. QED
  BY <1>1, <1>2

-----------------------------------------------------------------------------
(* The strengthening. *)

Steps == Rescuing \cup Writing \cup {"idle", "round", "restore", "release", "submit", "done"}

QueueShape ==
    /\ about \in Seq(Question)
    /\ pending \in Seq(Nat) /\ processing \in Seq(Nat)
    /\ claim \in [Consumer -> Seq(Nat)]
    /\ left \in [Consumer -> Nat]
    /\ pc \in [Consumer -> Steps]

(* What a consumer acknowledges was committed. *)
AckInv ==
    \A c \in Consumer :
        pc[c] = "ack" => ToSet(claim[c]) \subseteq written /\ left[c] <= Len(claim[c])

QueueInv == QueueShape /\ AckInv /\ NothingLost

Stored == ToSet(pending) \cup ToSet(processing) \cup written

(* Nothing is lost by a step that only moves answers about. *)
LEMMA MovesLoseNothing ==
    ASSUME NothingLost, about' = about, Stored \subseteq Stored'
    PROVE  NothingLost'
BY DEF NothingLost, Stored

(* A consumer that does not acknowledge next leaves the others' claims be. *)
LEMMA OthersAck ==
    ASSUME AckInv, NEW c \in Consumer,
           \A d \in Consumer \ {c} : pc'[d] = pc[d] /\ claim'[d] = claim[d] /\ left'[d] = left[d],
           written \subseteq written',
           pc'[c] = "ack" => ToSet(claim'[c]) \subseteq written' /\ left'[c] <= Len(claim'[c])
    PROVE  AckInv'
BY DEF AckInv

-----------------------------------------------------------------------------
(* Each action keeps the invariant. *)

LEMMA AnswersKeep ==
    ASSUME QueueInv, NEW q \in Question, Enqueue(q) \/ WriteDirect(q)
    PROVE  QueueInv'
<1>1. /\ about' = Append(about, q) /\ about \in Seq(Question)
      /\ Len(about) + 1 \in Nat /\ pending \in Seq(Nat)
      /\ UNCHANGED <<processing, pc, claim, left>>
  BY DEF QueueInv, QueueShape, Enqueue, WriteDirect, lists, locals
<1>2. about' \in Seq(Question) /\ DOMAIN about' = DOMAIN about \cup {Len(about) + 1}
  BY <1>1
<1>3. CASE Enqueue(q)
  <2>1. pending' = Append(pending, Len(about) + 1) /\ written' = written
    BY <1>3 DEF Enqueue, history
  <2>2. /\ pending' \in Seq(Nat)
        /\ ToSet(pending') = ToSet(pending) \cup {Len(about) + 1}
    BY <1>1, <2>1, AppendSet
  <2>3. QED
    BY <1>1, <1>2, <2>1, <2>2 DEF QueueInv, QueueShape, AckInv, NothingLost
<1>4. CASE WriteDirect(q)
  <2>1. pending' = pending /\ written' = written \cup {Len(about) + 1}
    BY <1>4 DEF WriteDirect, lists
  <2>2. QED
    BY <1>1, <1>2, <2>1 DEF QueueInv, QueueShape, AckInv, NothingLost
<1>5. QED
  BY <1>3, <1>4

LEMMA AcquireKeeps ==
    ASSUME QueueInv, NEW c \in Consumer, Acquire(c)
    PROVE  QueueInv'
<1>1. /\ UNCHANGED <<about, pending, processing, claim, written>>
      /\ pc' = [pc EXCEPT ![c] = "rescue"]
      /\ left' = [left EXCEPT ![c] = BatchOf(c)]
  BY DEF Acquire, session, lists, history, Goto, Loop
<1>2. BatchOf(c) \in Nat
  BY BatchAssumption DEF BatchOf
<1>3. QueueShape'
  BY <1>1, <1>2 DEF QueueInv, QueueShape, Steps, Rescuing
<1>4. AckInv'
  BY <1>1, OthersAck DEF QueueInv, QueueShape
<1>5. NothingLost'
  BY <1>1 DEF QueueInv, NothingLost
<1>6. QED
  BY <1>3, <1>4, <1>5 DEF QueueInv

(* LMOVE back to the head of pending. *)
LEMMA MoveBack ==
    ASSUME QueueInv, processing # <<>>,
           processing' = Front(processing), pending' = <<Last(processing)>> \o pending,
           written' = written
    PROVE  pending' \in Seq(Nat) /\ processing' \in Seq(Nat) /\ Stored' = Stored
<1>1. /\ Last(processing) \in Nat /\ Front(processing) \in Seq(Nat)
      /\ ToSet(processing) = ToSet(Front(processing)) \cup {Last(processing)}
  BY PopSet DEF QueueInv, QueueShape
<1>2. /\ <<Last(processing)>> \o pending \in Seq(Nat)
      /\ ToSet(<<Last(processing)>> \o pending) = ToSet(pending) \cup {Last(processing)}
  BY <1>1, ConsSet DEF QueueInv, QueueShape
<1>3. QED
  BY <1>1, <1>2 DEF Stored

LEMMA MovesBackKeep ==
    ASSUME QueueInv, NEW c \in Consumer, Rescue(c) \/ Restore(c)
    PROVE  QueueInv'
<1>1. about' = about /\ written' = written /\ claim' = claim
  BY DEF Rescue, Restore, session, history
<1>2. CASE left[c] > 0 /\ processing # <<>>
  <2>1. /\ processing' = Front(processing) /\ pending' = <<Last(processing)>> \o pending
        /\ left' = [left EXCEPT ![c] = left[c] - 1]
        /\ pc' = pc /\ pc[c] # "ack"
    BY <1>2 DEF Rescue, Restore, Loop
  <2>2. pending' \in Seq(Nat) /\ processing' \in Seq(Nat) /\ Stored' = Stored
    BY <1>1, <1>2, <2>1, MoveBack
  <2>3. left[c] - 1 \in Nat
    BY <1>2 DEF QueueInv, QueueShape
  <2>4. QueueShape'
    BY <1>1, <2>1, <2>2, <2>3 DEF QueueInv, QueueShape
  <2>5. AckInv'
    BY <1>1, <2>1, OthersAck DEF QueueInv, QueueShape
  <2>6. QED
    BY <1>1, <2>2, <2>4, <2>5, MovesLoseNothing DEF QueueInv
<1>3. CASE ~(left[c] > 0 /\ processing # <<>>)
  <2>1. PICK at \in {"claim", "release"} : pc' = [pc EXCEPT ![c] = at]
    BY <1>3 DEF Rescue, Restore, Goto
  <2>2. PICK n \in Nat : left' = [left EXCEPT ![c] = n]
    <3>1. BatchOf(c) \in Nat /\ left = [left EXCEPT ![c] = left[c]] /\ left[c] \in Nat
      BY BatchAssumption DEF BatchOf, QueueInv, QueueShape
    <3>2. QED
      BY <1>3, <3>1 DEF Rescue, Restore, Loop
  <2>3. UNCHANGED lists
    BY <1>3 DEF Rescue, Restore
  <2>4. QueueShape'
    BY <1>1, <2>1, <2>2, <2>3 DEF QueueInv, QueueShape, lists, Steps, Rescuing
  <2>5. AckInv'
    BY <1>1, <2>1, <2>2, OthersAck DEF QueueInv, QueueShape
  <2>6. NothingLost'
    BY <1>1, <2>3 DEF QueueInv, NothingLost, lists
  <2>7. QED
    BY <2>4, <2>5, <2>6 DEF QueueInv
<1>4. QED
  BY <1>2, <1>3

LEMMA ClaimKeeps ==
    ASSUME QueueInv, NEW c \in Consumer, ClaimOne(c)
    PROVE  QueueInv'
<1>1. /\ UNCHANGED <<about, written, pc>>
      /\ pc[c] = "claim" /\ left[c] > 0 /\ pending # <<>>
      /\ pending' = Tail(pending) /\ processing' = Append(processing, Head(pending))
      /\ claim' = [claim EXCEPT ![c] = Append(claim[c], Head(pending))]
      /\ left' = [left EXCEPT ![c] = left[c] - 1]
  BY DEF ClaimOne, session, history, Loop
<1>2. /\ Head(pending) \in Nat /\ Tail(pending) \in Seq(Nat)
      /\ ToSet(pending) = ToSet(Tail(pending)) \cup {Head(pending)}
  BY <1>1, PopSet DEF QueueInv, QueueShape
<1>3. /\ processing' \in Seq(Nat)
      /\ ToSet(processing') = ToSet(processing) \cup {Head(pending)}
  BY <1>1, <1>2, AppendSet DEF QueueInv, QueueShape
<1>4. Append(claim[c], Head(pending)) \in Seq(Nat) /\ left[c] - 1 \in Nat
  BY <1>1, <1>2 DEF QueueInv, QueueShape
<1>5. QueueShape'
  BY <1>1, <1>2, <1>3, <1>4 DEF QueueInv, QueueShape
<1>6. AckInv'
  BY <1>1, OthersAck DEF QueueInv, QueueShape
<1>7. Stored' = Stored
  BY <1>1, <1>2, <1>3 DEF Stored
<1>8. QED
  BY <1>1, <1>5, <1>6, <1>7, MovesLoseNothing DEF QueueInv

LEMMA CommitKeeps ==
    ASSUME QueueInv, NEW c \in Consumer, Commit(c)
    PROVE  QueueInv'
<1>1. /\ UNCHANGED <<about, pending, processing, claim>>
      /\ written' = written \cup ToSet(claim[c])
      /\ pc' = [pc EXCEPT ![c] = "ack"]
      /\ left' = [left EXCEPT ![c] = Len(claim[c])]
  BY DEF Commit, lists, Goto, Loop
<1>2. Len(claim[c]) \in Nat
  BY DEF QueueInv, QueueShape
<1>3. QueueShape'
  BY <1>1, <1>2 DEF QueueInv, QueueShape, Steps, Writing
<1>4. AckInv'
  BY <1>1, <1>2, OthersAck DEF QueueInv, QueueShape
<1>5. QED
  BY <1>1, <1>3, <1>4, MovesLoseNothing DEF QueueInv, Stored

(* The answer that LREM takes away was committed before. *)
LEMMA AckKeeps ==
    ASSUME QueueInv, NEW c \in Consumer, Ack(c)
    PROVE  QueueInv'
<1>1. pc[c] = "ack" /\ UNCHANGED <<about, pending, claim, written>>
  BY DEF Ack, session, history
<1>2. CASE left[c] > 0
  <2> DEFINE x == claim[c][Len(claim[c]) - left[c] + 1]
  <2>1. /\ processing' = Removed(processing, x)
        /\ left' = [left EXCEPT ![c] = left[c] - 1] /\ pc' = pc
    BY <1>2 DEF Ack, Loop
  <2>2. x \in written
    <3>1. Len(claim[c]) - left[c] + 1 \in DOMAIN claim[c]
      BY <1>1, <1>2 DEF QueueInv, QueueShape, AckInv
    <3>2. QED
      BY <1>1, <3>1 DEF QueueInv, AckInv, ToSet
  <2> HIDE DEF x
  <2>3. /\ processing' \in Seq(Nat)
        /\ ToSet(processing) \subseteq ToSet(processing') \cup {x}
    BY <2>1, RemovedSet DEF QueueInv, QueueShape
  <2>4. left[c] - 1 \in Nat /\ left[c] - 1 <= Len(claim[c])
    BY <1>1, <1>2 DEF QueueInv, QueueShape, AckInv
  <2>5. QueueShape'
    BY <1>1, <2>1, <2>3, <2>4 DEF QueueInv, QueueShape
  <2>6. AckInv'
    BY <1>1, <2>1, <2>4, OthersAck DEF QueueInv, QueueShape, AckInv
  <2>7. Stored \subseteq Stored'
    BY <1>1, <2>2, <2>3 DEF Stored
  <2>8. QED
    BY <1>1, <2>5, <2>6, <2>7, MovesLoseNothing DEF QueueInv
<1>3. CASE ~(left[c] > 0)
  <2>1. pc' = [pc EXCEPT ![c] = "release"] /\ UNCHANGED <<processing, left>>
    BY <1>3 DEF Ack, Goto
  <2>2. QED
    BY <1>1, <2>1 DEF QueueInv, QueueShape, AckInv, NothingLost, Steps
<1>4. QED
  BY <1>2, <1>3

(* Steps that touch neither the lists nor the rows. *)
LEMMA RestKeeps ==
    ASSUME QueueInv, NEW c \in Consumer,
           UNCHANGED <<about, pending, processing, written>>,
           NEW at \in Steps \ {"ack"}, pc' = [pc EXCEPT ![c] = at],
           NEW s \in Seq(Nat), claim' = [claim EXCEPT ![c] = s],
           NEW n \in Nat, left' = [left EXCEPT ![c] = n]
    PROVE  QueueInv'
<1>1. QueueShape'
  BY DEF QueueInv, QueueShape
<1>2. AckInv'
  BY OthersAck DEF QueueInv, QueueShape
<1>3. NothingLost'
  BY DEF QueueInv, NothingLost
<1>4. QED
  BY <1>1, <1>2, <1>3 DEF QueueInv

LEMMA RunEndsKeep ==
    ASSUME QueueInv, NEW c \in Consumer,
           Release(c) \/ ReleaseFails(c) \/ Crash(c)
    PROVE  QueueInv'
<1>1. UNCHANGED <<about, pending, processing, written>>
  BY DEF Release, ReleaseFails, AfterRun, Crash, session, lists, history
<1>2. PICK at \in {"idle", "round", "submit"} : pc' = [pc EXCEPT ![c] = at]
  BY DEF Release, ReleaseFails, AfterRun, Crash, Goto
<1>3. claim' = [claim EXCEPT ![c] = <<>>] /\ left' = [left EXCEPT ![c] = 0]
  BY DEF Release, ReleaseFails, AfterRun, Crash, Forget
<1>4. <<>> \in Seq(Nat) /\ 0 \in Nat /\ at \in Steps \ {"ack"}
  BY DEF Steps
<1>5. QED
  BY <1>1, <1>2, <1>3, <1>4, RestKeeps

LEMMA ControlKeeps ==
    ASSUME QueueInv, NEW c \in Consumer,
           EndClaim(c) \/ BatchFails(c) \/ RunFails(c)
    PROVE  QueueInv'
<1>1. UNCHANGED <<about, pending, processing, written>> /\ claim' = claim
  BY DEF EndClaim, BatchFails, RunFails, session, lists, history, locals
<1>2. PICK at \in {"release", "upsert", "restore"} : pc' = [pc EXCEPT ![c] = at]
  BY DEF EndClaim, BatchFails, RunFails, Goto
<1>3. PICK n \in Nat : left' = [left EXCEPT ![c] = n]
  <2>1. Len(claim[c]) \in Nat /\ left[c] \in Nat /\ left = [left EXCEPT ![c] = left[c]]
    BY DEF QueueInv, QueueShape
  <2>2. QED
    BY <2>1 DEF EndClaim, BatchFails, RunFails, Loop, locals
<1>4. claim' = [claim EXCEPT ![c] = claim[c]] /\ claim[c] \in Seq(Nat)
  BY <1>1 DEF QueueInv, QueueShape
<1>5. at \in Steps \ {"ack"}
  BY DEF Steps, Writing
<1>6. QED
  BY <1>1, <1>2, <1>3, <1>4, <1>5, RestKeeps

LEMMA SubmitsKeep ==
    ASSUME QueueInv, NEW s \in Submitter, Arrive(s) \/ TurnedAway(s) \/ Submit(s)
    PROVE  QueueInv'
<1>1. UNCHANGED <<about, pending, processing, written, claim, left>> /\ s \in Consumer
  BY DEF Arrive, TurnedAway, Submit, session, lists, history, locals, Consumer
<1>2. PICK at \in {"round", "submit", "done"} : pc' = [pc EXCEPT ![s] = at]
  BY DEF Arrive, TurnedAway, Submit, Goto
<1>3. /\ claim' = [claim EXCEPT ![s] = claim[s]] /\ claim[s] \in Seq(Nat)
      /\ left' = [left EXCEPT ![s] = left[s]] /\ left[s] \in Nat
  BY <1>1 DEF QueueInv, QueueShape
<1>4. at \in Steps \ {"ack"}
  BY DEF Steps
<1>5. QED
  BY <1>1, <1>2, <1>3, <1>4, RestKeeps

LEMMA IdleKeeps ==
    ASSUME QueueInv, UNCHANGED vars \/ LockExpires
    PROVE  QueueInv'
BY DEF QueueInv, QueueShape, AckInv, NothingLost, vars, LockExpires, session, lists, locals, history

LEMMA QueueInit == Init => QueueInv
BY DEF Init, QueueInv, QueueShape, AckInv, NothingLost, Steps

LEMMA QueueStep == QueueInv /\ [Next]_vars => QueueInv'
<1> SUFFICES ASSUME QueueInv, [Next]_vars
             PROVE  QueueInv'
  OBVIOUS
<1>1. ASSUME NEW q \in Question, Enqueue(q) \/ WriteDirect(q)
      PROVE  QueueInv'
  BY <1>1, AnswersKeep
<1>2. ASSUME NEW c \in Consumer, Process(c)
      PROVE  QueueInv'
  BY <1>2, AcquireKeeps, MovesBackKeep, ClaimKeeps, CommitKeeps, AckKeeps, RunEndsKeep,
     ControlKeeps DEF Process
<1>3. ASSUME NEW c \in Consumer, BatchFails(c) \/ RunFails(c) \/ ReleaseFails(c) \/ Crash(c)
      PROVE  QueueInv'
  BY <1>3, RunEndsKeep, ControlKeeps
<1>4. ASSUME NEW s \in Submitter, Arrive(s) \/ TurnedAway(s) \/ Submit(s)
      PROVE  QueueInv'
  BY <1>4, SubmitsKeep
<1>5. CASE UNCHANGED vars \/ LockExpires
  BY <1>5, IdleKeeps
<1>6. QED
  BY <1>1, <1>2, <1>3, <1>4, <1>5 DEF Next

(* No accepted answer is lost, whatever crashes, fails or expires and       *)
(* however many consumers work at once: it is in a list until it is stored. *)
THEOREM NoAnswerIsLost == Spec => []NothingLost
<1>1. QueueInv => NothingLost
  BY DEF QueueInv
<1>2. QED
  BY <1>1, QueueInit, QueueStep, PTL DEF Spec

-----------------------------------------------------------------------------
(* Types. *)

LEMMA MaxOf ==
    ASSUME NEW n \in Nat, NEW S \in SUBSET (1..n), S # {}
    PROVE  Max(S) \in S /\ \A d \in S : d <= Max(S)
<1>1. PICK m \in S : \A d \in S : d <= m
  BY HasLast
<1>2. \A d \in S : m >= d
  BY <1>1
<1>3. QED
  BY <1>2 DEF Max

(* The last answer to each question among the answers a. *)
LastAbout(a) ==
    [q \in Question |->
        LET given == {i \in DOMAIN a : a[i] = q}
        IN  IF given = {} THEN 0 ELSE Max(given)]

LEMMA LastAboutIs ==
    ASSUME NEW a \in Seq(Question), NEW q \in Question
    PROVE  /\ LastAbout(a)[q] \in 0..Len(a)
           /\ LastAbout(a)[q] > 0 => a[LastAbout(a)[q]] = q
           /\ \A i \in 1..Len(a) : a[i] = q => i <= LastAbout(a)[q]
<1> DEFINE given == {i \in DOMAIN a : a[i] = q}
<1>1. Len(a) \in Nat /\ DOMAIN a = 1..Len(a) /\ given \in SUBSET (1..Len(a))
  OBVIOUS
<1>2. LastAbout(a)[q] = IF given = {} THEN 0 ELSE Max(given)
  BY DEF LastAbout
<1>3. CASE given = {}
  BY <1>1, <1>2, <1>3
<1>4. CASE given # {}
  <2>1. Max(given) \in given /\ \A d \in given : d <= Max(given)
    BY <1>1, <1>4, MaxOf
  <2>2. QED
    BY <1>1, <1>2, <1>4, <2>1
<1>5. QED
  BY <1>3, <1>4

(* An answer more is the last one to its question. *)
LEMMA LastAboutGrows ==
    ASSUME NEW a \in Seq(Question), NEW q \in Question, NEW r \in Question
    PROVE  LastAbout(Append(a, q))[r] = IF r = q THEN Len(a) + 1 ELSE LastAbout(a)[r]
<1> DEFINE b == Append(a, q)
           m == LastAbout(a)[r]
           n == LastAbout(b)[r]
<1>1. /\ b \in Seq(Question) /\ Len(b) = Len(a) + 1 /\ Len(a) \in Nat
      /\ b[Len(a) + 1] = q /\ \A i \in 1..Len(a) : b[i] = a[i]
  OBVIOUS
<1>2. /\ m \in 0..Len(a) /\ (m > 0 => a[m] = r)
      /\ \A i \in 1..Len(a) : a[i] = r => i <= m
  BY LastAboutIs
<1>3. /\ n \in 0..(Len(a) + 1) /\ (n > 0 => b[n] = r)
      /\ \A i \in 1..(Len(a) + 1) : b[i] = r => i <= n
  <2>1. /\ n \in 0..Len(b) /\ (n > 0 => b[n] = r)
        /\ \A i \in 1..Len(b) : b[i] = r => i <= n
    BY <1>1, LastAboutIs
  <2>2. QED
    BY <1>1, <2>1
<1> HIDE DEF b, m, n
<1>4. CASE r = q
  <2>1. n = Len(a) + 1
    BY <1>1, <1>3, <1>4
  <2>2. QED
    BY <1>4, <2>1 DEF n, b
<1>5. CASE r # q
  <2>1. n <= m
    BY <1>1, <1>2, <1>3, <1>5
  <2>2. m <= n
    BY <1>1, <1>2, <1>3, <1>5
  <2>3. QED
    BY <1>2, <1>3, <1>5, <2>1, <2>2 DEF m, n, b
<1>6. QED
  BY <1>4, <1>5 DEF n, m, b

LEMMA LatestIs ==
    /\ Latest = LastAbout(about)
    /\ Latest' = LastAbout(about')
BY DEF Latest, LastAbout

(* A row keeps its answer or gets the last one claimed for its question. *)
LEMMA UpsertedIs ==
    ASSUME NEW s \in Seq(Answers), NEW q \in Question
    PROVE  \/ /\ \A k \in 1..Len(s) : about[s[k]] # q
              /\ Upserted(s)[q] = rows[q]
           \/ \E k \in 1..Len(s) :
                 /\ about[s[k]] = q
                 /\ Upserted(s)[q] = s[k]
                 /\ \A j \in 1..Len(s) : about[s[j]] = q => j <= k
<1> DEFINE mine == {k \in DOMAIN s : about[s[k]] = q}
<1>1. Len(s) \in Nat /\ DOMAIN s = 1..Len(s) /\ mine \in SUBSET (1..Len(s))
  OBVIOUS
<1>2. Upserted(s)[q] = IF mine = {} THEN rows[q] ELSE s[Max(mine)]
  BY DEF Upserted
<1>3. CASE mine = {}
  BY <1>1, <1>2, <1>3
<1>4. CASE mine # {}
  <2>1. Max(mine) \in mine /\ \A d \in mine : d <= Max(mine)
    BY <1>1, <1>4, MaxOf
  <2>2. QED
    BY <1>1, <1>2, <1>4, <2>1
<1>5. QED
  BY <1>3, <1>4

LEMMA UpsertedType ==
    ASSUME rows \in Sheet, NEW s \in Seq(Answers)
    PROVE  Upserted(s) \in Sheet
<1>1. ASSUME NEW q \in Question
      PROVE  Upserted(s)[q] \in 0..MaxAnswers
  <2>1. \A k \in 1..Len(s) : s[k] \in 0..MaxAnswers
    BY BatchAssumption DEF Answers
  <2>2. rows[q] \in 0..MaxAnswers
    BY DEF Sheet
  <2>3. Upserted(s)[q] = rows[q] \/ \E k \in 1..Len(s) : Upserted(s)[q] = s[k]
    BY UpsertedIs
  <2>4. QED
    BY <2>1, <2>2, <2>3
<1>2. Upserted(s) = [q \in Question |-> Upserted(s)[q]]
  BY DEF Upserted
<1>3. QED
  BY <1>1, <1>2 DEF Sheet

(* A submit that is in a run has a round left. *)
RoundsInv ==
    \A s \in Submitter : pc[s] \notin {"idle", "submit", "done"} => rounds[s] >= 1

TypeInv == TypeOK /\ RoundsInv

(* A consumer that goes on keeps its round. *)
LEMMA RoundsKept ==
    ASSUME TypeInv, NEW c \in Consumer, NEW at \in Steps, pc' = [pc EXCEPT ![c] = at],
           \A t \in Submitter \ {c} : rounds'[t] = rounds[t],
           c \in Submitter => at \in {"idle", "submit", "done"} \/ rounds'[c] >= 1
    PROVE  RoundsInv'
<1> SUFFICES ASSUME NEW t \in Submitter, pc'[t] \notin {"idle", "submit", "done"}
             PROVE  rounds'[t] >= 1
  BY DEF RoundsInv
<1>1. t \in Consumer /\ pc \in [Consumer -> Steps]
  BY DEF TypeInv, TypeOK, Consumer, Steps
<1>2. CASE t = c
  <2>1. pc'[t] = at
    BY <1>1, <1>2
  <2>2. QED
    BY <1>2, <2>1
<1>3. CASE t # c
  <2>1. pc'[t] = pc[t]
    BY <1>1, <1>3
  <2>2. QED
    BY <1>3, <2>1 DEF TypeInv, RoundsInv
<1>4. QED
  BY <1>2, <1>3

LEMMA LocalTypes ==
    ASSUME TypeInv, NEW c \in Consumer
    PROVE  /\ pc[c] \in Steps /\ claim[c] \in Seq(Answers) /\ left[c] \in Nat
           /\ claim = [claim EXCEPT ![c] = claim[c]]
           /\ left = [left EXCEPT ![c] = left[c]]
           /\ Len(claim[c]) \in Nat /\ BatchOf(c) \in Nat \ {0}
BY BatchAssumption DEF TypeInv, TypeOK, Steps, BatchOf

LEMMA AnswersTyped ==
    ASSUME TypeInv, NEW q \in Question, Enqueue(q) \/ WriteDirect(q)
    PROVE  TypeInv'
<1>1. /\ about' = Append(about, q) /\ Len(about) < MaxAnswers
      /\ UNCHANGED <<status, graded, gradedBy, processing, lock, pc, claim, left, rounds, due,
                     drained, faults>>
  BY DEF Enqueue, WriteDirect, lists, locals, history
<1>2. Len(about) + 1 \in Answers /\ about' \in Seq(Question) /\ Len(about') <= MaxAnswers
  BY <1>1, BatchAssumption DEF TypeInv, TypeOK, Answers
<1>3. pending' \in Seq(Answers)
  <2>1. pending' = pending \/ pending' = Append(pending, Len(about) + 1)
    BY DEF Enqueue, WriteDirect, lists
  <2>2. pending \in Seq(Answers)
    BY DEF TypeInv, TypeOK
  <2>3. Append(pending, Len(about) + 1) \in Seq(Answers)
    BY <1>2, <2>2, AppendSet
  <2>4. QED
    BY <2>1, <2>2, <2>3
<1>4. rows' \in Sheet
  <2>1. rows' = rows \/ rows' = [rows EXCEPT ![q] = Len(about) + 1]
    BY DEF Enqueue, WriteDirect
  <2>2. Len(about) + 1 \in 0..MaxAnswers
    BY <1>2 DEF Answers
  <2>3. QED
    BY <2>1, <2>2 DEF TypeInv, TypeOK, Sheet
<1>5. written' \subseteq Answers
  <2>1. written' \subseteq written \cup {Len(about) + 1}
    BY DEF Enqueue, WriteDirect, history
  <2>2. QED
    BY <1>2, <2>1 DEF TypeInv, TypeOK
<1>6. orderly' \in BOOLEAN
  BY DEF Enqueue, WriteDirect, TypeInv, TypeOK
<1>7. TypeOK'
  BY <1>1, <1>2, <1>3, <1>4, <1>5, <1>6 DEF TypeInv, TypeOK
<1>8. RoundsInv'
  BY <1>1 DEF TypeInv, RoundsInv
<1>9. QED
  BY <1>7, <1>8 DEF TypeInv

(* The steps that move answers from list to list. *)
LEMMA ListsTyped ==
    ASSUME TypeInv, NEW c \in Consumer,
           UNCHANGED <<status, about, rows, graded, gradedBy, lock, pc, rounds, written, due,
                       drained, orderly, faults>>,
           pending' \in Seq(Answers), processing' \in Seq(Answers),
           NEW s \in Seq(Answers), claim' = [claim EXCEPT ![c] = s],
           NEW n \in Nat, left' = [left EXCEPT ![c] = n]
    PROVE  TypeInv'
<1>1. TypeOK'
  BY DEF TypeInv, TypeOK
<1>2. RoundsInv'
  BY DEF TypeInv, RoundsInv
<1>3. QED
  BY <1>1, <1>2 DEF TypeInv

LEMMA AcquireTyped ==
    ASSUME TypeInv, NEW c \in Consumer, Acquire(c)
    PROVE  TypeInv'
<1>1. /\ UNCHANGED <<status, about, rows, graded, gradedBy, pending, processing, claim, rounds,
                     written, due, drained, orderly, faults>>
      /\ lock' = c
      /\ pc' = [pc EXCEPT ![c] = "rescue"] /\ left' = [left EXCEPT ![c] = BatchOf(c)]
      /\ pc[c] = IF c \in Submitter THEN "round" ELSE "idle"
  BY DEF Acquire, session, lists, history, Goto, Loop
<1>2. "rescue" \in Steps /\ BatchOf(c) \in Nat
  BY LocalTypes DEF Steps, Rescuing
<1>3. TypeOK'
  BY <1>1, <1>2 DEF TypeInv, TypeOK, Steps
<1>4. c \in Submitter => rounds'[c] >= 1
  BY <1>1 DEF TypeInv, RoundsInv
<1>5. RoundsInv'
  BY <1>1, <1>2, <1>4, RoundsKept
<1>6. QED
  BY <1>3, <1>5 DEF TypeInv

LEMMA MovesBackTyped ==
    ASSUME TypeInv, NEW c \in Consumer, Rescue(c) \/ Restore(c)
    PROVE  TypeInv'
<1>1. UNCHANGED <<status, about, rows, graded, gradedBy, lock, claim, written, due, drained, faults>>
  BY DEF Rescue, Restore, session, history
<1>2. CASE left[c] > 0 /\ processing # <<>>
  <2>1. /\ processing' = Front(processing) /\ pending' = <<Last(processing)>> \o pending
        /\ left' = [left EXCEPT ![c] = left[c] - 1]
        /\ UNCHANGED <<pc, rounds, orderly>>
    BY <1>2 DEF Rescue, Restore, Loop
  <2>2. Last(processing) \in Answers /\ processing' \in Seq(Answers)
    BY <1>2, <2>1, PopSet DEF TypeInv, TypeOK
  <2>3. pending' \in Seq(Answers)
    BY <2>1, <2>2, ConsSet DEF TypeInv, TypeOK
  <2>4. left[c] - 1 \in Nat
    BY <1>2, LocalTypes
  <2>5. QED
    BY <1>1, <2>1, <2>2, <2>3, <2>4, ListsTyped, LocalTypes
<1>3. CASE ~(left[c] > 0 /\ processing # <<>>)
  <2>1. PICK at \in {"claim", "release"} : pc' = [pc EXCEPT ![c] = at]
    BY <1>3 DEF Rescue, Restore, Goto
  <2>2. PICK n \in Nat : left' = [left EXCEPT ![c] = n]
    BY <1>3, LocalTypes DEF Rescue, Restore, Loop
  <2>3. UNCHANGED <<pending, processing>>
    BY <1>3 DEF Rescue, Restore, lists
  <2>4. rounds' = rounds \/ rounds' = [rounds EXCEPT ![c] = 1]
    BY <1>3 DEF Rescue, Restore
  <2>5. /\ rounds' \in [Submitter -> 0..MaxRounds]
        /\ \A t \in Submitter \ {c} : rounds'[t] = rounds[t]
        /\ c \in Submitter => rounds'[c] = rounds[c] \/ rounds'[c] = 1
    <3>1. rounds \in [Submitter -> 0..MaxRounds] /\ 1 \in 0..MaxRounds
      BY BatchAssumption DEF TypeInv, TypeOK
    <3>2. QED
      BY <2>4, <3>1
  <2> orderly' \in BOOLEAN
    BY <1>3 DEF Rescue, Restore, TypeInv, TypeOK
  <2>6. at \in Steps
    BY DEF Steps, Rescuing
  <2>7. TypeOK'
    BY <1>1, <2>1, <2>2, <2>3, <2>5, <2>6 DEF TypeInv, TypeOK, Steps
  <2>8. c \in Submitter => rounds'[c] >= 1
    <3>1. pc[c] \in {"rescue", "restore"}
      BY DEF Rescue, Restore
    <3>2. QED
      BY <2>5, <3>1 DEF TypeInv, RoundsInv
  <2>9. RoundsInv'
    BY <2>1, <2>5, <2>6, <2>8, RoundsKept
  <2>10. QED
    BY <2>7, <2>9 DEF TypeInv
<1>4. QED
  BY <1>2, <1>3

LEMMA ClaimTyped ==
    ASSUME TypeInv, NEW c \in Consumer, ClaimOne(c)
    PROVE  TypeInv'
<1>1. /\ UNCHANGED <<status, about, rows, graded, gradedBy, lock, pc, rounds, written, due,
                     drained, orderly, faults>>
      /\ left[c] > 0 /\ pending # <<>>
      /\ pending' = Tail(pending) /\ processing' = Append(processing, Head(pending))
      /\ claim' = [claim EXCEPT ![c] = Append(claim[c], Head(pending))]
      /\ left' = [left EXCEPT ![c] = left[c] - 1]
  BY DEF ClaimOne, session, history, Loop
<1>2. Head(pending) \in Answers /\ pending' \in Seq(Answers)
  BY <1>1, PopSet DEF TypeInv, TypeOK
<1>3. processing' \in Seq(Answers) /\ Append(claim[c], Head(pending)) \in Seq(Answers)
  BY <1>1, <1>2, AppendSet, LocalTypes DEF TypeInv, TypeOK
<1>4. left[c] - 1 \in Nat
  BY <1>1, LocalTypes
<1>5. QED
  BY <1>1, <1>2, <1>3, <1>4, ListsTyped

LEMMA CommitTyped ==
    ASSUME TypeInv, NEW c \in Consumer, Commit(c)
    PROVE  TypeInv'
<1>1. /\ UNCHANGED <<status, about, graded, gradedBy, pending, processing, lock, claim, rounds, due,
                     drained, orderly, faults>>
      /\ rows' = Upserted(claim[c]) /\ written' = written \cup ToSet(claim[c])
      /\ pc[c] = "upsert" /\ pc' = [pc EXCEPT ![c] = "ack"]
      /\ left' = [left EXCEPT ![c] = Len(claim[c])]
  BY DEF Commit, lists, Goto, Loop
<1>2. rows' \in Sheet
  BY <1>1, UpsertedType, LocalTypes DEF TypeInv, TypeOK
<1>3. written' \subseteq Answers
  <2>1. ToSet(claim[c]) \subseteq Answers
    BY LocalTypes DEF ToSet
  <2>2. QED
    BY <1>1, <2>1 DEF TypeInv, TypeOK
<1>4. /\ pc' \in [Consumer -> Steps] /\ left' \in [Consumer -> Nat]
  BY <1>1, LocalTypes DEF TypeInv, TypeOK, Steps, Writing
<1>5. TypeOK'
  BY <1>1, <1>2, <1>3, <1>4 DEF TypeInv, TypeOK, Steps
<1>6. RoundsInv'
  BY <1>1 DEF TypeInv, TypeOK, RoundsInv, Consumer
<1>7. QED
  BY <1>5, <1>6 DEF TypeInv

LEMMA AckTyped ==
    ASSUME TypeInv, NEW c \in Consumer, Ack(c)
    PROVE  TypeInv'
<1>1. /\ UNCHANGED <<status, about, rows, graded, gradedBy, pending, lock, claim, rounds, written,
                     due, drained, orderly, faults>>
      /\ pc[c] = "ack"
  BY DEF Ack, session, history
<1>2. CASE left[c] > 0
  <2> DEFINE x == claim[c][Len(claim[c]) - left[c] + 1]
  <2>1. /\ processing' = Removed(processing, x)
        /\ left' = [left EXCEPT ![c] = left[c] - 1] /\ pc' = pc
    BY <1>2 DEF Ack, Loop
  <2>2. processing' \in Seq(Answers)
    BY <2>1, RemovedSet DEF TypeInv, TypeOK
  <2>3. left[c] - 1 \in Nat
    BY <1>2, LocalTypes
  <2>4. pending' \in Seq(Answers)
    BY <1>1 DEF TypeInv, TypeOK
  <2>5. claim' = [claim EXCEPT ![c] = claim[c]] /\ claim[c] \in Seq(Answers)
    BY <1>1, LocalTypes
  <2>6. left' = [left EXCEPT ![c] = left[c] - 1] /\ pc' = pc
    BY <2>1
  <2> HIDE DEF x
  <2>7. QED
    BY <1>1, <2>2, <2>3, <2>4, <2>5, <2>6, ListsTyped
<1>3. CASE ~(left[c] > 0)
  <2>1. pc' = [pc EXCEPT ![c] = "release"] /\ UNCHANGED <<processing, left>>
    BY <1>3 DEF Ack, Goto
  <2>2. "release" \in Steps
    BY DEF Steps
  <2>3. TypeOK'
    BY <1>1, <2>1, <2>2 DEF TypeInv, TypeOK, Steps
  <2>4. c \in Submitter => rounds'[c] >= 1
    BY <1>1 DEF TypeInv, RoundsInv
  <2>5. RoundsInv'
    BY <1>1, <2>1, <2>2, <2>4, RoundsKept
  <2>6. QED
    BY <2>3, <2>5 DEF TypeInv
<1>4. QED
  BY <1>2, <1>3

LEMMA RunEndsTyped ==
    ASSUME TypeInv, NEW c \in Consumer, Release(c) \/ ReleaseFails(c)
    PROVE  TypeInv'
<1>1. /\ UNCHANGED <<status, about, rows, graded, gradedBy, pending, processing, written, due,
                     drained, orderly>>
      /\ claim' = [claim EXCEPT ![c] = <<>>] /\ left' = [left EXCEPT ![c] = 0]
      /\ pc[c] = "release"
  BY DEF Release, ReleaseFails, AfterRun, Forget, session, lists, history
<1>2. lock' \in Consumer \cup {None} /\ faults' \in 0..MaxFaults
  BY BatchAssumption DEF Release, ReleaseFails, TypeInv, TypeOK
<1>3. CASE c \notin Submitter
  <2>1. pc' = [pc EXCEPT ![c] = "idle"] /\ rounds' = rounds
    BY <1>3 DEF Release, ReleaseFails, AfterRun, Goto
  <2>2. "idle" \in Steps
    BY DEF Steps
  <2>3. TypeOK'
    BY <1>1, <1>2, <2>1, <2>2 DEF TypeInv, TypeOK, Steps
  <2>4. RoundsInv'
    BY <2>1, <2>2, <1>3, RoundsKept
  <2>5. QED
    BY <2>3, <2>4 DEF TypeInv
<1>4. CASE c \in Submitter
  <2> DEFINE at == IF rounds[c] > 1 /\ ~drained[c] THEN "round" ELSE "submit"
  <2>1. pc' = [pc EXCEPT ![c] = at] /\ rounds' = [rounds EXCEPT ![c] = rounds[c] - 1]
    BY <1>4 DEF Release, ReleaseFails, AfterRun, Goto
  <2>2. at \in Steps
    BY DEF Steps
  <2>3. /\ rounds \in [Submitter -> 0..MaxRounds] /\ rounds[c] >= 1
    BY <1>1, <1>4 DEF TypeInv, TypeOK, RoundsInv
  <2>4. rounds' \in [Submitter -> 0..MaxRounds] /\ rounds'[c] = rounds[c] - 1
    BY <1>4, <2>1, <2>3, BatchAssumption
  <2>5. at = "submit" \/ rounds'[c] >= 1
    <3>1. at # "submit" => rounds[c] > 1
      OBVIOUS
    <3>2. QED
      BY <1>4, <2>3, <2>4, <3>1
  <2> HIDE DEF at
  <2>6. TypeOK'
    BY <1>1, <1>2, <2>1, <2>2, <2>4 DEF TypeInv, TypeOK, Steps
  <2>7. RoundsInv'
    <3>1. \A t \in Submitter \ {c} : rounds'[t] = rounds[t]
      BY <2>1, <2>3
    <3>2. QED
      BY <2>1, <2>2, <2>5, <3>1, RoundsKept
  <2>8. QED
    BY <2>6, <2>7 DEF TypeInv
<1>5. QED
  BY <1>3, <1>4

LEMMA CrashTyped ==
    ASSUME TypeInv, NEW c \in Consumer, Crash(c)
    PROVE  TypeInv'
<1>1. /\ UNCHANGED <<status, about, rows, graded, gradedBy, pending, processing, lock, written, due,
                     drained, orderly, rounds>>
      /\ claim' = [claim EXCEPT ![c] = <<>>] /\ left' = [left EXCEPT ![c] = 0]
      /\ pc' = [pc EXCEPT ![c] = "idle"]
      /\ faults < MaxFaults /\ faults' = faults + 1
  BY DEF Crash, Goto, Forget, session, lists, history
<1>2. "idle" \in Steps
  BY DEF Steps
<1>3. TypeOK'
  BY <1>1, <1>2, BatchAssumption DEF TypeInv, TypeOK, Steps
<1>4. RoundsInv'
  BY <1>1, <1>2, RoundsKept
<1>5. QED
  BY <1>3, <1>4 DEF TypeInv

LEMMA ControlTyped ==
    ASSUME TypeInv, NEW c \in Consumer, EndClaim(c) \/ BatchFails(c) \/ RunFails(c)
    PROVE  TypeInv'
<1>1. UNCHANGED <<status, about, rows, graded, gradedBy, pending, processing, lock, claim, written,
                  due, orderly>>
  BY DEF EndClaim, BatchFails, RunFails, session, lists, history, locals
<1>2. PICK at \in {"release", "upsert", "restore"} : pc' = [pc EXCEPT ![c] = at]
  BY DEF EndClaim, BatchFails, RunFails, Goto
<1>3. PICK n \in Nat : left' = [left EXCEPT ![c] = n]
  BY LocalTypes DEF EndClaim, BatchFails, RunFails, Loop, locals
<1>4. drained' \in [Submitter -> BOOLEAN]
  <2>1. \/ drained' = drained
        \/ c \in Submitter /\ drained' = [drained EXCEPT ![c] = (claim[c] = <<>>)]
    BY DEF EndClaim, BatchFails, RunFails, history
  <2>2. (claim[c] = <<>>) \in BOOLEAN
    OBVIOUS
  <2>3. QED
    BY <2>1, <2>2 DEF TypeInv, TypeOK
<1>5. faults' \in 0..MaxFaults
  BY BatchAssumption DEF EndClaim, BatchFails, RunFails, TypeInv, TypeOK
<1>6. \/ rounds' = rounds
      \/ c \in Submitter /\ rounds' = [rounds EXCEPT ![c] = 1]
  BY DEF EndClaim, BatchFails, RunFails
<1>7. rounds \in [Submitter -> 0..MaxRounds] /\ 1 \in 0..MaxRounds
  BY BatchAssumption DEF TypeInv, TypeOK
<1>8. /\ rounds' \in [Submitter -> 0..MaxRounds]
      /\ \A t \in Submitter \ {c} : rounds'[t] = rounds[t]
      /\ c \in Submitter => rounds'[c] = rounds[c] \/ rounds'[c] = 1
  BY <1>6, <1>7
<1>9. at \in Steps
  BY DEF Steps, Writing
<1>10. TypeOK'
  BY <1>1, <1>2, <1>3, <1>4, <1>5, <1>8, <1>9 DEF TypeInv, TypeOK, Steps
<1>11. c \in Submitter => rounds'[c] >= 1
  <2>1. pc[c] \in Rescuing \cup Writing \cup {"round", "restore"}
    BY DEF EndClaim, BatchFails, RunFails, Rescuing
  <2>2. QED
    BY <1>8, <2>1 DEF TypeInv, RoundsInv, Rescuing, Writing
<1>12. RoundsInv'
  BY <1>2, <1>8, <1>9, <1>11, RoundsKept
<1>13. QED
  BY <1>10, <1>12 DEF TypeInv

LEMMA SubmitsTyped ==
    ASSUME TypeInv, NEW s \in Submitter, Arrive(s) \/ TurnedAway(s) \/ Submit(s)
    PROVE  TypeInv'
<1>1. /\ s \in Consumer
      /\ UNCHANGED <<about, rows, pending, processing, lock, claim, left, written, orderly, faults>>
  BY DEF Arrive, TurnedAway, Submit, session, lists, history, locals, Consumer
<1>2. PICK at \in {"round", "submit", "done"} : pc' = [pc EXCEPT ![s] = at]
  BY DEF Arrive, TurnedAway, Submit, Goto
<1>3. at \in Steps
  BY DEF Steps
<1>4. /\ status' \in {"in_progress", "submitted"}
      /\ graded' \in Sheet \cup {None} /\ gradedBy' \in Submitter \cup {None}
  BY DEF Arrive, TurnedAway, Submit, session, TypeInv, TypeOK
<1>5. Latest \in Sheet
  <2>1. \A q \in Question : LastAbout(about)[q] \in 0..MaxAnswers
    <3>1. about \in Seq(Question) /\ Len(about) <= MaxAnswers /\ MaxAnswers \in Nat
      BY BatchAssumption DEF TypeInv, TypeOK
    <3>2. ASSUME NEW q \in Question
          PROVE  LastAbout(about)[q] \in 0..MaxAnswers
      <4>1. LastAbout(about)[q] \in 0..Len(about)
        BY <3>1, LastAboutIs
      <4>2. QED
        BY <3>1, <4>1
    <3>3. QED
      BY <3>2
  <2>2. LastAbout(about) = [q \in Question |-> LastAbout(about)[q]]
    BY DEF LastAbout
  <2>3. QED
    BY <2>1, <2>2, LatestIs DEF Sheet
<1>6. due' \in [Submitter -> Sheet]
  <2>1. due' = due \/ due' = [due EXCEPT ![s] = Latest]
    BY DEF Arrive, TurnedAway, Submit, history
  <2>2. QED
    BY <1>5, <2>1 DEF TypeInv, TypeOK
<1>7. drained' \in [Submitter -> BOOLEAN]
  <2>1. drained' = drained \/ drained' = [drained EXCEPT ![s] = FALSE]
    BY DEF Arrive, TurnedAway, Submit, history
  <2>2. QED
    BY <2>1 DEF TypeInv, TypeOK
<1>8. /\ rounds' \in [Submitter -> 0..MaxRounds]
      /\ \A t \in Submitter \ {s} : rounds'[t] = rounds[t]
      /\ at = "round" => rounds'[s] >= 1
  <2>1. \/ Arrive(s) /\ rounds' = [rounds EXCEPT ![s] = MaxRounds]
        \/ rounds' = rounds /\ at # "round"
    <3>1. CASE Arrive(s)
      BY <3>1 DEF Arrive
    <3>2. CASE TurnedAway(s) \/ Submit(s)
      <4>1. rounds' = rounds /\ pc'[s] \in {"submit", "done"}
        BY <1>1, <3>2 DEF TurnedAway, Submit, Goto, TypeInv, TypeOK
      <4>2. pc'[s] = at
        BY <1>1, <1>2 DEF TypeInv, TypeOK
      <4>3. QED
        BY <4>1, <4>2
    <3>3. QED
      BY <3>1, <3>2
  <2>2. rounds \in [Submitter -> 0..MaxRounds] /\ MaxRounds \in 0..MaxRounds /\ MaxRounds >= 1
    BY BatchAssumption DEF TypeInv, TypeOK
  <2>3. QED
    BY <2>1, <2>2
<1>9. TypeOK'
  BY <1>1, <1>2, <1>3, <1>4, <1>6, <1>7, <1>8 DEF TypeInv, TypeOK, Steps
<1>10. RoundsInv'
  BY <1>1, <1>2, <1>3, <1>8, RoundsKept
<1>11. QED
  BY <1>9, <1>10 DEF TypeInv

LEMMA IdleTyped ==
    ASSUME TypeInv, UNCHANGED vars \/ LockExpires
    PROVE  TypeInv'
<1>1. /\ UNCHANGED <<status, about, rows, graded, gradedBy, pending, processing, pc, claim, left,
                     rounds, written, due, drained, faults>>
      /\ lock' \in {lock, None}
  BY DEF vars, LockExpires, session, lists, locals, history
<1>2. orderly' \in BOOLEAN
  BY DEF vars, LockExpires, TypeInv, TypeOK
<1>3. TypeOK'
  BY <1>1, <1>2 DEF TypeInv, TypeOK
<1>4. RoundsInv'
  BY <1>1 DEF TypeInv, RoundsInv
<1>5. QED
  BY <1>3, <1>4 DEF TypeInv

LEMMA TypeInit == Init => TypeInv
BY BatchAssumption DEF Init, TypeInv, TypeOK, RoundsInv, Sheet, Blank, Consumer

LEMMA TypeStep == TypeInv /\ [Next]_vars => TypeInv'
<1> SUFFICES ASSUME TypeInv, [Next]_vars
             PROVE  TypeInv'
  OBVIOUS
<1>1. ASSUME NEW q \in Question, Enqueue(q) \/ WriteDirect(q)
      PROVE  TypeInv'
  BY <1>1, AnswersTyped
<1>2. ASSUME NEW c \in Consumer, Process(c)
      PROVE  TypeInv'
  BY <1>2, AcquireTyped, MovesBackTyped, ClaimTyped, CommitTyped, AckTyped, RunEndsTyped,
     ControlTyped DEF Process
<1>3. ASSUME NEW c \in Consumer, BatchFails(c) \/ RunFails(c) \/ ReleaseFails(c) \/ Crash(c)
      PROVE  TypeInv'
  BY <1>3, RunEndsTyped, CrashTyped, ControlTyped
<1>4. ASSUME NEW s \in Submitter, Arrive(s) \/ TurnedAway(s) \/ Submit(s)
      PROVE  TypeInv'
  BY <1>4, SubmitsTyped
<1>5. CASE UNCHANGED vars \/ LockExpires
  BY <1>5, IdleTyped
<1>6. QED
  BY <1>1, <1>2, <1>3, <1>4, <1>5 DEF Next

(* The lists hold answers that were given, rows and grades name them, and   *)
(* a submit never runs out of rounds below zero.                            *)
THEOREM TypeCorrect == Spec => []TypeOK
<1>1. TypeInv => TypeOK
  BY DEF TypeInv
<1>2. QED
  BY <1>1, TypeInit, TypeStep, PTL DEF Spec

-----------------------------------------------------------------------------
(* The order of the queue. *)

(* Where a run moves or writes answers. *)
InRun == Rescuing \cup Writing \cup {"restore"}

(* How many answers left the queue. *)
Gone == Len(about) - Len(processing) - Len(pending)

Locked == \A c \in Consumer : pc[c] \in InRun => lock = c

(* The lists hold the answers after those, in the order they were given. *)
Lined ==
    /\ Gone >= 0
    /\ \A i \in 1..Len(processing) : processing[i] = Gone + i
    /\ \A i \in 1..Len(pending) : pending[i] = Gone + Len(processing) + i

(* A claim is what is being processed, and then what is left to acknowledge. *)
ClaimsLined ==
    \A c \in Consumer :
        /\ pc[c] \in {"claim", "upsert"} => claim[c] = processing
        /\ pc[c] = "ack" =>
             /\ left[c] = Len(processing)
             /\ \A i \in 1..left[c] : claim[c][Len(claim[c]) - left[c] + i] = Gone + i

(* The newest answer is stored once it left the queue or was committed. *)
RowsLined ==
    /\ \A q \in Question : Latest[q] <= Gone => rows[q] = Latest[q]
    /\ \A c \in Consumer : pc[c] = "ack" =>
         \A q \in Question : Latest[q] <= Gone + Len(processing) => rows[q] = Latest[q]

(* What a drained submit owes left the queue and is stored. *)
Covered ==
    \A s \in Submitter : drained[s] =>
        \A q \in Question : due[s][q] <= Gone /\ rows[q] >= due[s][q]

OrderInv == Locked /\ Lined /\ ClaimsLined /\ RowsLined /\ Covered

(* A run's batch is empty until it claims, and full when it ends claiming   *)
(* with answers pending.                                                    *)
BatchIs(c) ==
    /\ pc[c] \in {"idle", "round", "rescue"} => claim[c] = <<>>
    /\ pc[c] = "claim" => left[c] + Len(claim[c]) = BatchOf(c)
    /\ pc[c] = "ack" => left[c] <= Len(claim[c])

BatchInv == \A c \in Consumer : BatchIs(c)

DueInv == \A s \in Submitter, q \in Question : due[s][q] <= Latest[q]

GradesInv == gradedBy # None => pc[gradedBy] = "done"

KeptInv ==
    TypeInv /\ BatchInv /\ DueInv /\ GradesInv /\ DrainedIsGraded /\ (orderly => OrderInv)

(* Only c moves in a step of c. *)
Alone(c) ==
    \A d \in Consumer \ {c} : pc'[d] = pc[d] /\ claim'[d] = claim[d] /\ left'[d] = left[d]

LEMMA OthersBatch ==
    ASSUME BatchInv, NEW c \in Consumer, Alone(c), BatchIs(c)'
    PROVE  BatchInv'
<1> SUFFICES ASSUME NEW d \in Consumer
             PROVE  BatchIs(d)'
  BY DEF BatchInv
<1>1. CASE d = c
  BY <1>1
<1>2. CASE d # c
  BY <1>2 DEF Alone, BatchInv, BatchIs
<1>3. QED
  BY <1>1, <1>2

LEMMA AloneIs ==
    ASSUME TypeInv, NEW c \in Consumer, NEW at, pc' = [pc EXCEPT ![c] = at],
           NEW s, claim' = [claim EXCEPT ![c] = s], NEW n, left' = [left EXCEPT ![c] = n]
    PROVE  Alone(c) /\ pc'[c] = at /\ claim'[c] = s /\ left'[c] = n
BY DEF Alone, TypeInv, TypeOK

LEMMA BatchStep == TypeInv /\ BatchInv /\ [Next]_vars => BatchInv'
<1> SUFFICES ASSUME TypeInv, BatchInv, [Next]_vars
             PROVE  BatchInv'
  OBVIOUS
<1>1. CASE UNCHANGED <<pc, claim, left>>
  BY <1>1 DEF BatchInv, BatchIs
<1>2. ASSUME NEW c \in Consumer,
             NEW at \in {"upsert", "restore", "release", "submit", "done"},
             pc' = [pc EXCEPT ![c] = at], UNCHANGED claim,
             NEW n, left' = [left EXCEPT ![c] = n]
      PROVE  BatchInv'
  <2>1. claim' = [claim EXCEPT ![c] = claim[c]]
    BY <1>2, LocalTypes
  <2>2. Alone(c) /\ pc'[c] = at
    BY <1>2, <2>1, AloneIs
  <2>3. BatchIs(c)'
    BY <1>2, <2>2 DEF BatchIs
  <2>4. QED
    BY <2>2, <2>3, OthersBatch
<1>3. ASSUME NEW c \in Consumer, NEW at,
             pc' = [pc EXCEPT ![c] = at], at # "claim", at # "ack",
             claim' = [claim EXCEPT ![c] = <<>>], NEW n, left' = [left EXCEPT ![c] = n]
      PROVE  BatchInv'
  <2>1. Alone(c) /\ pc'[c] = at /\ claim'[c] = <<>>
    BY <1>3, AloneIs
  <2>2. BatchIs(c)'
    BY <1>3, <2>1 DEF BatchIs
  <2>3. QED
    BY <2>1, <2>2, OthersBatch
<1>4. ASSUME NEW c \in Consumer, Acquire(c)
      PROVE  BatchInv'
  <2>1. /\ pc' = [pc EXCEPT ![c] = "rescue"] /\ claim' = claim
        /\ left' = [left EXCEPT ![c] = BatchOf(c)] /\ pc[c] \in {"idle", "round"}
    BY <1>4 DEF Acquire, Goto, Loop
  <2>2. claim[c] = <<>> /\ claim' = [claim EXCEPT ![c] = claim[c]]
    BY <2>1, LocalTypes DEF BatchInv, BatchIs
  <2>3. QED
    BY <1>3, <2>1, <2>2
<1>5. ASSUME NEW c \in Consumer, Rescue(c)
      PROVE  BatchInv'
  <2>1. pc[c] = "rescue" /\ claim' = claim /\ claim[c] = <<>> /\ pc = [pc EXCEPT ![c] = pc[c]]
    BY <1>5 DEF Rescue, BatchInv, BatchIs, TypeInv, TypeOK
  <2>2. claim' = [claim EXCEPT ![c] = claim[c]]
    BY <2>1, LocalTypes
  <2>3. CASE left[c] > 0 /\ processing # <<>>
    <3>1. pc' = [pc EXCEPT ![c] = "rescue"] /\ left' = [left EXCEPT ![c] = left[c] - 1]
      BY <1>5, <2>1, <2>3 DEF Rescue, Loop
    <3>2. QED
      BY <1>3, <2>1, <2>2, <3>1
  <2>4. CASE ~(left[c] > 0 /\ processing # <<>>)
    <3>1. pc' = [pc EXCEPT ![c] = "claim"] /\ left' = [left EXCEPT ![c] = BatchOf(c)]
      BY <1>5, <2>4 DEF Rescue, Goto, Loop
    <3>2. Alone(c) /\ pc'[c] = "claim" /\ claim'[c] = <<>> /\ left'[c] = BatchOf(c)
      BY <2>1, <2>2, <3>1, AloneIs
    <3>3. BatchOf(c)' = BatchOf(c) /\ Len(<<>>) = 0 /\ BatchOf(c) \in Nat
      BY LocalTypes DEF BatchOf
    <3>4. BatchIs(c)'
      BY <3>2, <3>3 DEF BatchIs
    <3>5. QED
      BY <3>2, <3>4, OthersBatch
  <2>5. QED
    BY <2>3, <2>4
<1>6. ASSUME NEW c \in Consumer, ClaimOne(c)
      PROVE  BatchInv'
  <2>1. /\ pc[c] = "claim" /\ pc' = pc /\ left[c] > 0 /\ pending # <<>>
        /\ claim' = [claim EXCEPT ![c] = Append(claim[c], Head(pending))]
        /\ left' = [left EXCEPT ![c] = left[c] - 1] /\ pc' = [pc EXCEPT ![c] = "claim"]
    BY <1>6 DEF ClaimOne, Loop, TypeInv, TypeOK
  <2>2. /\ Alone(c) /\ pc'[c] = "claim" /\ left'[c] = left[c] - 1
        /\ claim'[c] = Append(claim[c], Head(pending))
    BY <2>1, AloneIs
  <2>3. left[c] + Len(claim[c]) = BatchOf(c) /\ BatchOf(c)' = BatchOf(c)
    BY <2>1 DEF BatchInv, BatchIs, BatchOf
  <2>4. Len(Append(claim[c], Head(pending))) = Len(claim[c]) + 1
    BY LocalTypes
  <2>5. BatchIs(c)'
    <3>1. left[c] \in Nat /\ Len(claim[c]) \in Nat
      BY LocalTypes
    <3>2. left'[c] + Len(claim'[c]) = BatchOf(c)
      BY <2>2, <2>3, <2>4, <3>1
    <3>3. QED
      BY <2>2, <2>3, <3>2 DEF BatchIs
  <2>6. QED
    BY <2>2, <2>5, OthersBatch
<1>7. ASSUME NEW c \in Consumer, Commit(c)
      PROVE  BatchInv'
  <2>1. /\ pc' = [pc EXCEPT ![c] = "ack"] /\ claim' = [claim EXCEPT ![c] = claim[c]]
        /\ left' = [left EXCEPT ![c] = Len(claim[c])]
    BY <1>7, LocalTypes DEF Commit, Goto, Loop
  <2>2. Alone(c) /\ pc'[c] = "ack" /\ left'[c] = Len(claim'[c]) /\ claim'[c] = claim[c]
    BY <2>1, AloneIs
  <2>3. BatchIs(c)'
    BY <2>2, LocalTypes DEF BatchIs
  <2>4. QED
    BY <2>2, <2>3, OthersBatch
<1>8. ASSUME NEW c \in Consumer, Ack(c)
      PROVE  BatchInv'
  <2>1. pc[c] = "ack" /\ claim' = claim
    BY <1>8 DEF Ack
  <2>2. CASE left[c] > 0
    <3>1. /\ pc' = [pc EXCEPT ![c] = "ack"] /\ claim' = [claim EXCEPT ![c] = claim[c]]
          /\ left' = [left EXCEPT ![c] = left[c] - 1]
      BY <1>8, <2>1, <2>2, LocalTypes DEF Ack, Loop, TypeInv, TypeOK
    <3>2. Alone(c) /\ pc'[c] = "ack" /\ left'[c] = left[c] - 1 /\ claim'[c] = claim[c]
      BY <3>1, AloneIs
    <3>3. left[c] <= Len(claim[c]) /\ left[c] \in Nat /\ Len(claim[c]) \in Nat
      BY <2>1, LocalTypes DEF BatchInv, BatchIs
    <3>4. BatchIs(c)'
      BY <3>2, <3>3 DEF BatchIs
    <3>5. QED
      BY <3>2, <3>4, OthersBatch
  <2>3. CASE ~(left[c] > 0)
    <3>1. pc' = [pc EXCEPT ![c] = "release"] /\ left' = [left EXCEPT ![c] = left[c]]
      BY <1>8, <2>3, LocalTypes DEF Ack, Goto
    <3>2. QED
      BY <1>2, <2>1, <3>1
  <2>4. QED
    BY <2>2, <2>3
<1>9. ASSUME NEW c \in Consumer, Release(c) \/ ReleaseFails(c) \/ Crash(c)
      PROVE  BatchInv'
  <2>1. PICK at \in {"idle", "round", "submit"} : pc' = [pc EXCEPT ![c] = at]
    BY <1>9 DEF Release, ReleaseFails, AfterRun, Crash, Goto
  <2>2. claim' = [claim EXCEPT ![c] = <<>>] /\ left' = [left EXCEPT ![c] = 0]
    BY <1>9 DEF Release, ReleaseFails, AfterRun, Crash, Forget
  <2>3. QED
    BY <1>3, <2>1, <2>2
<1>10. ASSUME NEW c \in Consumer, EndClaim(c) \/ BatchFails(c) \/ RunFails(c)
       PROVE  BatchInv'
  <2>1. PICK at \in {"release", "upsert", "restore"} : pc' = [pc EXCEPT ![c] = at]
    BY <1>10 DEF EndClaim, BatchFails, RunFails, Goto
  <2>2. claim' = claim /\ \E n : left' = [left EXCEPT ![c] = n]
    BY <1>10, LocalTypes DEF EndClaim, BatchFails, RunFails, Loop, locals
  <2>3. QED
    BY <1>2, <2>1, <2>2
<1>11. ASSUME NEW c \in Consumer, Restore(c)
       PROVE  BatchInv'
  <2>1. claim' = claim /\ pc[c] = "restore"
    BY <1>11 DEF Restore
  <2>2. \E at \in {"release", "restore"} : pc' = [pc EXCEPT ![c] = at]
    BY <1>11, <2>1 DEF Restore, Goto, TypeInv, TypeOK
  <2>3. \E n : left' = [left EXCEPT ![c] = n]
    BY <1>11, LocalTypes DEF Restore, Loop
  <2>4. QED
    BY <1>2, <2>1, <2>2, <2>3
<1>12. ASSUME NEW s \in Submitter, Arrive(s) \/ TurnedAway(s) \/ Submit(s)
       PROVE  BatchInv'
  <2>1. /\ s \in Consumer /\ UNCHANGED <<claim, left>>
    BY <1>12 DEF Arrive, TurnedAway, Submit, locals, Consumer
  <2>2. \/ \E at \in {"submit", "done"} : pc' = [pc EXCEPT ![s] = at]
        \/ pc[s] = "idle" /\ pc' = [pc EXCEPT ![s] = "round"]
    BY <1>12 DEF Arrive, TurnedAway, Submit, Goto
  <2>3. left' = [left EXCEPT ![s] = left[s]] /\ claim' = [claim EXCEPT ![s] = claim[s]]
    BY <2>1, LocalTypes
  <2>4. pc[s] = "idle" => claim[s] = <<>>
    BY <2>1 DEF BatchInv, BatchIs
  <2>5. QED
    BY <1>2, <1>3, <2>1, <2>2, <2>3, <2>4
<1>13. QED
  BY <1>1, <1>4, <1>5, <1>6, <1>7, <1>8, <1>9, <1>10, <1>11, <1>12
     DEF Next, Process, Enqueue, WriteDirect, LockExpires, locals, vars

LEMMA DueStep == TypeInv /\ TypeInv' /\ DueInv /\ [Next]_vars => DueInv'
<1> SUFFICES ASSUME TypeInv, TypeInv', DueInv, [Next]_vars,
                    NEW s \in Submitter, NEW q \in Question
             PROVE  due'[s][q] <= Latest'[q]
  BY DEF DueInv
<1>1. /\ due[s][q] <= LastAbout(about)[q] /\ due[s][q] \in Nat
      /\ about \in Seq(Question) /\ Len(about) \in Nat /\ LastAbout(about)[q] \in 0..Len(about)
  <2>1. about \in Seq(Question) /\ Len(about) \in Nat
    BY DEF TypeInv, TypeOK
  <2>2. due[s][q] \in Nat
    <3>1. due[s] \in Sheet
      BY DEF TypeInv, TypeOK
    <3>2. due[s][q] \in 0..MaxAnswers
      BY <3>1 DEF Sheet
    <3>3. QED
      BY <3>2, BatchAssumption
  <2>3. due[s][q] <= LastAbout(about)[q]
    BY LatestIs DEF DueInv
  <2>4. LastAbout(about)[q] \in 0..Len(about)
    BY <2>1, LastAboutIs
  <2>5. QED
    BY <2>1, <2>2, <2>3, <2>4
<1>2. CASE \E r \in Question : Enqueue(r) \/ WriteDirect(r)
  <2>1. PICK r \in Question : Enqueue(r) \/ WriteDirect(r)
    BY <1>2
  <2>2. about' = Append(about, r) /\ due' = due
    BY <2>1 DEF Enqueue, WriteDirect, history
  <2>3. LastAbout(about')[q] = IF q = r THEN Len(about) + 1 ELSE LastAbout(about)[q]
    BY <1>1, <2>2, LastAboutGrows
  <2>4. QED
    BY <1>1, <2>2, <2>3, LatestIs
<1>3. CASE \E t \in Submitter : Arrive(t)
  <2>1. PICK t \in Submitter : Arrive(t)
    BY <1>3
  <2>2. about' = about /\ due' = [due EXCEPT ![t] = Latest]
    BY <2>1 DEF Arrive, session
  <2>3. due'[s] = due[s] \/ due'[s] = Latest
    BY <2>2 DEF TypeInv, TypeOK
  <2>4. QED
    BY <1>1, <2>2, <2>3, LatestIs
<1>4. CASE UNCHANGED <<about, due>>
  BY <1>1, <1>4, LatestIs
<1>5. ASSUME NEW c \in Consumer,
             Process(c) \/ BatchFails(c) \/ RunFails(c) \/ ReleaseFails(c) \/ Crash(c)
      PROVE  UNCHANGED <<about, due>>
  <2>1. CASE Process(c)
    BY <2>1 DEF Process, Acquire, Rescue, ClaimOne, EndClaim, Commit, Ack, Restore, Release,
       AfterRun, session, history
  <2>2. CASE BatchFails(c) \/ RunFails(c) \/ ReleaseFails(c) \/ Crash(c)
    BY <2>2 DEF BatchFails, RunFails, ReleaseFails, AfterRun, Crash, session, history
  <2>3. QED
    BY <1>5, <2>1, <2>2
<1>6. ASSUME NEW t \in Submitter, TurnedAway(t) \/ Submit(t)
      PROVE  UNCHANGED <<about, due>>
  BY <1>6 DEF TurnedAway, Submit, session, history
<1>7. LockExpires \/ UNCHANGED vars => UNCHANGED <<about, due>>
  BY DEF LockExpires, vars, session, history
<1>8. QED
  BY <1>2, <1>3, <1>4, <1>5, <1>6, <1>7 DEF Next

LEMMA GradesStep == TypeInv /\ GradesInv /\ [Next]_vars => GradesInv'
<1> SUFFICES ASSUME TypeInv, GradesInv, [Next]_vars, gradedBy' # None
             PROVE  pc'[gradedBy'] = "done"
  BY DEF GradesInv
<1>1. CASE \E s \in Submitter : Submit(s)
  <2>1. PICK s \in Submitter : Submit(s)
    BY <1>1
  <2>2. s \in Consumer /\ pc' = [pc EXCEPT ![s] = "done"] /\ (gradedBy' = s \/ gradedBy' = gradedBy)
    BY <2>1 DEF Submit, Goto, Consumer
  <2>3. gradedBy' = s \/ gradedBy' \in Consumer
    BY <2>2 DEF TypeInv, TypeOK, Consumer
  <2>4. QED
    BY <2>2, <2>3 DEF TypeInv, TypeOK, GradesInv
<1>2. CASE gradedBy' = gradedBy /\ \A c \in Consumer : pc[c] = "done" => pc'[c] = "done"
  BY <1>2 DEF TypeInv, TypeOK, GradesInv, Consumer
<1>3. ASSUME NEW c \in Consumer, NEW at, pc' = [pc EXCEPT ![c] = at], pc[c] # "done"
      PROVE  \A d \in Consumer : pc[d] = "done" => pc'[d] = "done"
  BY <1>3 DEF TypeInv, TypeOK
<1>4. ASSUME NEW c \in Consumer,
             Process(c) \/ BatchFails(c) \/ RunFails(c) \/ ReleaseFails(c) \/ Crash(c)
      PROVE  /\ gradedBy' = gradedBy
             /\ pc' = pc \/ (pc[c] # "done" /\ \E at : pc' = [pc EXCEPT ![c] = at])
  <2>1. CASE Acquire(c) \/ Rescue(c) \/ ClaimOne(c) \/ EndClaim(c)
    BY <2>1 DEF Acquire, Rescue, ClaimOne, EndClaim, session, Goto
  <2>2. CASE Commit(c) \/ Ack(c) \/ Restore(c) \/ Crash(c)
    BY <2>2 DEF Commit, Ack, Restore, Crash, session, Goto
  <2>3. CASE BatchFails(c) \/ RunFails(c)
    BY <2>3 DEF BatchFails, RunFails, session, Goto, Writing, Rescuing
  <2>4. CASE Release(c) \/ ReleaseFails(c)
    BY <2>4 DEF Release, ReleaseFails, AfterRun, session, Goto
  <2>5. QED
    BY <1>4, <2>1, <2>2, <2>3, <2>4 DEF Process
<1>5. ASSUME NEW s \in Submitter, Arrive(s) \/ TurnedAway(s)
      PROVE  gradedBy' = gradedBy /\ pc[s] # "done" /\ \E at : pc' = [pc EXCEPT ![s] = at]
  BY <1>5 DEF Arrive, TurnedAway, session, Goto
<1>6. (\E q \in Question : Enqueue(q) \/ WriteDirect(q)) \/ LockExpires \/ UNCHANGED vars
      => gradedBy' = gradedBy /\ pc' = pc
  BY DEF Enqueue, WriteDirect, LockExpires, vars, session
<1>7. Submitter \subseteq Consumer
  BY DEF Consumer
<1>8. QED
  BY <1>1, <1>2, <1>3, <1>4, <1>5, <1>6, <1>7 DEF Next

-----------------------------------------------------------------------------
(* The order of the lists. *)

LEMMA Numbers ==
    ASSUME TypeInv
    PROVE  /\ about \in Seq(Question) /\ Len(about) \in Nat
           /\ pending \in Seq(Answers) /\ Len(pending) \in Nat
           /\ processing \in Seq(Answers) /\ Len(processing) \in Nat
           /\ Gone \in Int
           /\ \A q \in Question : LastAbout(about)[q] \in 0..Len(about) /\ rows[q] \in Nat
           /\ \A s \in Submitter, q \in Question : due[s][q] \in Nat
<1>1. /\ about \in Seq(Question) /\ Len(about) \in Nat
      /\ pending \in Seq(Answers) /\ Len(pending) \in Nat
      /\ processing \in Seq(Answers) /\ Len(processing) \in Nat
  BY DEF TypeInv, TypeOK
<1>2. Gone \in Int
  BY <1>1 DEF Gone
<1>3. ASSUME NEW f \in Sheet, NEW q \in Question
      PROVE  f[q] \in Nat
  BY BatchAssumption DEF Sheet
<1>4. rows \in Sheet /\ \A s \in Submitter : due[s] \in Sheet
  BY DEF TypeInv, TypeOK
<1>5. QED
  BY <1>1, <1>2, <1>3, <1>4, LastAboutIs

(* Moving the last answer of processing back keeps the order. *)
LEMMA BackLined ==
    ASSUME TypeInv, Lined, processing # <<>>, about' = about,
           processing' = Front(processing), pending' = <<Last(processing)>> \o pending
    PROVE  Lined' /\ Gone' = Gone
<1> DEFINE f == Front(processing)
           p == <<Last(processing)>> \o pending
<1>1. /\ Len(about) \in Nat /\ Len(processing) \in Nat /\ Len(pending) \in Nat /\ Gone \in Int
      /\ processing \in Seq(Answers) /\ pending \in Seq(Answers)
  BY Numbers
<1>2. Len(processing) > 0
  BY <1>1
<1>3. /\ Len(f) = Len(processing) - 1 /\ \A i \in 1..(Len(processing) - 1) : f[i] = processing[i]
      /\ Last(processing) = processing[Len(processing)] /\ Last(processing) \in Answers
  BY <1>1, <1>2 DEF Front, Last
<1>4. /\ Len(p) = Len(pending) + 1 /\ p[1] = Last(processing)
      /\ \A i \in 1..Len(pending) : p[i + 1] = pending[i]
  BY <1>1, <1>3
<1> HIDE DEF f, p
<1>5. processing' = f /\ pending' = p
  BY DEF f, p
<1>6. Gone' = Gone
  <2>1. /\ Len(processing') = Len(processing) - 1
        /\ Len(pending') = Len(pending) + 1
        /\ Len(about') = Len(about)
    BY <1>3, <1>4, <1>5
  <2>2. QED
    BY <1>1, <2>1 DEF Gone
<1>7. \A i \in 1..Len(f) : f[i] = Gone + i
  BY <1>1, <1>3 DEF Lined
<1>8. ASSUME NEW i \in 1..Len(p)
      PROVE  p[i] = Gone + Len(f) + i
  <2>1. CASE i = 1
    BY <1>1, <1>2, <1>3, <1>4, <2>1 DEF Lined
  <2>2. CASE i # 1
    <3>1. i - 1 \in 1..Len(pending) /\ i = (i - 1) + 1
      BY <1>1, <1>4, <2>2
    <3>2. p[i] = pending[i - 1]
      BY <1>4, <3>1
    <3>3. QED
      BY <1>1, <1>3, <3>1, <3>2 DEF Lined
  <2>3. QED
    BY <2>1, <2>2
<1>9. QED
  BY <1>5, <1>6, <1>7, <1>8 DEF Lined

(* Claiming the first pending answer keeps the order. *)
LEMMA ForthLined ==
    ASSUME TypeInv, Lined, pending # <<>>, about' = about,
           pending' = Tail(pending), processing' = Append(processing, Head(pending))
    PROVE  Lined' /\ Gone' = Gone
<1> DEFINE t == Tail(pending)
           a == Append(processing, Head(pending))
<1>1. /\ Len(about) \in Nat /\ Len(processing) \in Nat /\ Len(pending) \in Nat /\ Gone \in Int
      /\ processing \in Seq(Answers) /\ pending \in Seq(Answers)
  BY Numbers
<1>2. Len(pending) > 0
  BY <1>1
<1>3. /\ Len(t) = Len(pending) - 1 /\ \A i \in 1..(Len(pending) - 1) : t[i] = pending[i + 1]
      /\ Head(pending) = pending[1] /\ Head(pending) \in Answers
  BY <1>1, <1>2
<1>4. /\ Len(a) = Len(processing) + 1 /\ a[Len(processing) + 1] = Head(pending)
      /\ \A i \in 1..Len(processing) : a[i] = processing[i]
  BY <1>1, <1>3
<1> HIDE DEF t, a
<1>5. pending' = t /\ processing' = a
  BY DEF t, a
<1>6. Gone' = Gone
  BY <1>1, <1>3, <1>4, <1>5 DEF Gone
<1>7. ASSUME NEW i \in 1..Len(a)
      PROVE  a[i] = Gone + i
  <2>1. CASE i = Len(processing) + 1
    <3>1. pending[1] = Gone + Len(processing) + 1
      BY <1>1, <1>2 DEF Lined
    <3>2. QED
      BY <1>1, <1>3, <1>4, <2>1, <3>1
  <2>2. CASE i # Len(processing) + 1
    <3>1. i \in 1..Len(processing)
      BY <1>1, <1>4, <2>2
    <3>2. QED
      BY <1>4, <3>1 DEF Lined
  <2>3. QED
    BY <2>1, <2>2
<1>8. ASSUME NEW i \in 1..Len(t)
      PROVE  t[i] = Gone + Len(a) + i
  <2>1. i \in 1..(Len(pending) - 1) /\ i + 1 \in 1..Len(pending)
    BY <1>1, <1>3
  <2>2. t[i] = pending[i + 1]
    BY <1>3, <2>1
  <2>3. QED
    BY <1>1, <1>4, <2>1, <2>2 DEF Lined
<1>9. QED
  BY <1>5, <1>6, <1>7, <1>8 DEF Lined

(* Of an ascending list LREM of the first element takes the first one. *)
LEMMA RemovedHead ==
    ASSUME NEW s \in Seq(Answers), NEW g \in Int, Len(s) > 0,
           \A i \in 1..Len(s) : s[i] = g + i
    PROVE  /\ Len(Removed(s, g + 1)) = Len(s) - 1
           /\ \A i \in 1..(Len(s) - 1) : Removed(s, g + 1)[i] = s[i + 1]
<1>1. Len(s) \in Nat /\ DOMAIN s = 1..Len(s) /\ 1 \in 1..Len(s) /\ s[1] = g + 1
  OBVIOUS
<1>2. g + 1 \in ToSet(s)
  BY <1>1 DEF ToSet
<1>3. (CHOOSE i \in DOMAIN s : s[i] = g + 1) = 1
  <2>1. \A i \in DOMAIN s : s[i] = g + 1 => i = 1
    BY <1>1
  <2>2. QED
    BY <1>1, <2>1
<1>4. Removed(s, g + 1) = SubSeq(s, 1, 0) \o SubSeq(s, 2, Len(s))
  <2>1. Removed(s, g + 1) = RemoveAt(s, 1)
    BY <1>2, <1>3 DEF Removed
  <2>2. RemoveAt(s, 1) = SubSeq(s, 1, 1 - 1) \o SubSeq(s, 1 + 1, Len(s))
    BY DEF RemoveAt
  <2>3. 1 - 1 = 0 /\ 1 + 1 = 2
    OBVIOUS
  <2>4. QED
    BY <2>1, <2>2, <2>3
<1>5. SubSeq(s, 1, 0) = <<>>
  BY <1>1
<1> DEFINE t == SubSeq(s, 2, Len(s))
<1>6. /\ t \in Seq(Answers) /\ Len(t) = Len(s) - 1
      /\ \A i \in 1..(Len(s) - 1) : t[i] = s[i + 1]
  BY <1>1
<1>7. <<>> \o t = t
  <2> HIDE DEF t
  <2>1. QED
    BY <1>6
<1>8. QED
  BY <1>4, <1>5, <1>6, <1>7

LEMMA AckLined ==
    ASSUME TypeInv, Lined, Len(processing) > 0, about' = about, pending' = pending,
           processing' = Removed(processing, Gone + 1)
    PROVE  /\ Lined' /\ Gone' = Gone + 1 /\ Len(processing') = Len(processing) - 1
<1> DEFINE t == Removed(processing, Gone + 1)
<1>1. /\ Len(about) \in Nat /\ Len(processing) \in Nat /\ Len(pending) \in Nat /\ Gone \in Int
      /\ processing \in Seq(Answers)
  BY Numbers
<1>2. /\ Len(t) = Len(processing) - 1
      /\ \A i \in 1..(Len(processing) - 1) : t[i] = processing[i + 1]
  BY <1>1, RemovedHead DEF Lined
<1> HIDE DEF t
<1>3. processing' = t
  BY DEF t
<1>4. Gone' = Gone + 1
  <2>1. /\ Len(processing') = Len(processing) - 1
        /\ Len(pending') = Len(pending) /\ Len(about') = Len(about)
    BY <1>2, <1>3
  <2>2. QED
    BY <1>1, <2>1 DEF Gone
<1>5. ASSUME NEW i \in 1..Len(t)
      PROVE  t[i] = Gone + 1 + i
  <2>1. i \in 1..(Len(processing) - 1) /\ i + 1 \in 1..Len(processing)
    BY <1>1, <1>2
  <2>2. QED
    BY <1>1, <1>2, <2>1 DEF Lined
<1>6. \A i \in 1..Len(pending) : pending[i] = Gone + 1 + Len(t) + i
  <2>1. Gone + 1 + Len(t) = Gone + Len(processing)
    BY <1>1, <1>2
  <2>2. \A i \in 1..Len(pending) : pending[i] = Gone + Len(processing) + i
    BY DEF Lined
  <2>3. QED
    BY <2>1, <2>2
<1>7. Gone + 1 >= 0
  BY <1>1 DEF Lined
<1>8. /\ Gone' >= 0
      /\ \A i \in 1..Len(processing') : processing'[i] = Gone' + i
      /\ \A i \in 1..Len(pending') : pending'[i] = Gone' + Len(processing') + i
  BY <1>3, <1>4, <1>5, <1>6, <1>7
<1>9. QED
  BY <1>2, <1>3, <1>4, <1>8 DEF Lined

-----------------------------------------------------------------------------
(* Each action keeps the order. *)

LEMMA OthersLocked ==
    ASSUME Locked, NEW c \in Consumer, \A d \in Consumer \ {c} : pc'[d] = pc[d],
           pc'[c] \in InRun => lock' = c,
           lock' = lock \/ lock \in {c, None}
    PROVE  Locked'
<1> SUFFICES ASSUME NEW d \in Consumer, pc'[d] \in InRun
             PROVE  lock' = d
  BY DEF Locked, InRun, Rescuing, Writing
<1>1. CASE d = c
  BY <1>1
<1>2. CASE d # c
  <2>1. lock = d /\ d # None
    BY <1>2, ConsumersAssumption DEF Locked
  <2>2. QED
    BY <1>2, <2>1
<1>3. QED
  BY <1>1, <1>2

(* The owner of the lock is alone in a run. *)
LEMMA OneRun ==
    ASSUME Locked, NEW c \in Consumer, pc[c] \in InRun
    PROVE  \A d \in Consumer \ {c} : pc[d] \notin InRun
BY DEF Locked

LEMMA CoveredKept ==
    ASSUME TypeInv, TypeInv', Covered, Gone' >= Gone,
           \A q \in Question : rows'[q] = rows[q] \/ rows'[q] > Gone,
           \A s \in Submitter : drained'[s] => drained[s] /\ due'[s] = due[s]
    PROVE  Covered'
<1> SUFFICES ASSUME NEW s \in Submitter, drained'[s], NEW q \in Question
             PROVE  due'[s][q] <= Gone' /\ rows'[q] >= due'[s][q]
  BY DEF Covered
<1>1. due'[s] = due[s] /\ due[s][q] <= Gone /\ rows[q] >= due[s][q]
  BY DEF Covered
<1>2. due[s][q] \in Nat /\ rows[q] \in Nat /\ Gone \in Int
  BY Numbers
<1>3. rows'[q] \in Nat
  <2>1. rows' \in Sheet
    BY DEF TypeInv, TypeOK
  <2>2. rows'[q] \in 0..MaxAnswers
    BY <2>1 DEF Sheet
  <2>3. QED
    BY <2>2, BatchAssumption
<1>4. Gone' \in Int
  <2>1. /\ about' \in Seq(Question)
        /\ pending' \in Seq(Answers) /\ processing' \in Seq(Answers)
    BY DEF TypeInv, TypeOK
  <2>2. Len(about') \in Nat /\ Len(pending') \in Nat /\ Len(processing') \in Nat
    BY <2>1
  <2>3. QED
    BY <2>2 DEF Gone
<1>5. QED
  BY <1>1, <1>2, <1>3, <1>4

(* A step of c that leaves rows and lists alone. *)
LEMMA StillLined ==
    ASSUME OrderInv, NEW c \in Consumer, Alone(c),
           UNCHANGED <<about, rows, pending, processing>>,
           pc'[c] # "ack", pc'[c] \in {"claim", "upsert"} => claim'[c] = processing
    PROVE  Lined' /\ ClaimsLined' /\ RowsLined' /\ Gone' = Gone
<1>1. Gone' = Gone
  BY DEF Gone
<1>2. Latest' = Latest
  BY LatestIs
<1>3. Lined'
  BY <1>1 DEF OrderInv, Lined
<1>4. ASSUME NEW d \in Consumer, d # c
      PROVE  pc'[d] = pc[d] /\ claim'[d] = claim[d] /\ left'[d] = left[d]
  BY <1>4 DEF Alone
<1>5. ClaimsLined'
  <2> SUFFICES ASSUME NEW d \in Consumer
               PROVE  /\ pc'[d] \in {"claim", "upsert"} => claim'[d] = processing'
                      /\ pc'[d] = "ack" =>
                           /\ left'[d] = Len(processing')
                           /\ \A i \in 1..left'[d] :
                                claim'[d][Len(claim'[d]) - left'[d] + i] = Gone' + i
    BY DEF ClaimsLined
  <2>1. CASE d = c
    BY <2>1
  <2>2. CASE d # c
    BY <1>1, <1>4, <2>2 DEF OrderInv, ClaimsLined
  <2>3. QED
    BY <2>1, <2>2
<1>6. RowsLined'
  <2>1. ASSUME NEW d \in Consumer, pc'[d] = "ack"
        PROVE  pc[d] = "ack"
    BY <1>4, <2>1
  <2>2. QED
    BY <1>1, <1>2, <2>1 DEF OrderInv, RowsLined
<1>7. QED
  BY <1>1, <1>3, <1>5, <1>6

LEMMA StillOrder ==
    ASSUME TypeInv, TypeInv', OrderInv, NEW c \in Consumer, Alone(c),
           UNCHANGED <<about, rows, pending, processing>>,
           pc'[c] # "ack", pc'[c] \in {"claim", "upsert"} => claim'[c] = processing,
           pc'[c] \in InRun => lock' = c, lock' = lock \/ lock \in {c, None},
           \A s \in Submitter : drained'[s] => drained[s] /\ due'[s] = due[s]
    PROVE  OrderInv'
<1>1. Lined' /\ ClaimsLined' /\ RowsLined' /\ Gone' = Gone
  BY StillLined
<1>2. Locked'
  BY OthersLocked DEF OrderInv, Alone
<1>3. Gone' >= Gone
  BY <1>1, Numbers
<1>4. Covered'
  BY <1>3, CoveredKept DEF OrderInv
<1>5. QED
  BY <1>1, <1>2, <1>4 DEF OrderInv

LEMMA EnqueueOrder ==
    ASSUME TypeInv, TypeInv', OrderInv, NEW q \in Question, Enqueue(q)
    PROVE  OrderInv'
<1>1. /\ about' = Append(about, q) /\ pending' = Append(pending, Len(about) + 1)
      /\ UNCHANGED <<rows, processing, lock, pc, claim, left, due, drained>>
  BY DEF Enqueue, locals, history
<1>2. /\ about \in Seq(Question) /\ Len(about) \in Nat
      /\ pending \in Seq(Answers) /\ Len(pending) \in Nat
      /\ Len(processing) \in Nat /\ Gone \in Int
      /\ \A r \in Question : LastAbout(about)[r] \in 0..Len(about)
  BY Numbers
<1>3. /\ Len(about') = Len(about) + 1 /\ Len(pending') = Len(pending) + 1
      /\ pending'[Len(pending) + 1] = Len(about) + 1
      /\ \A i \in 1..Len(pending) : pending'[i] = pending[i]
  BY <1>1, <1>2
<1>4. Gone' = Gone
  BY <1>1, <1>2, <1>3 DEF Gone
<1>5. Gone + Len(processing) <= Len(about) /\ Gone <= Len(about)
      /\ Gone + Len(processing) + Len(pending) = Len(about)
  BY <1>2 DEF Gone
<1>6. Locked'
  BY <1>1 DEF OrderInv, Locked
<1>7. Lined'
  <2>1. ASSUME NEW i \in 1..Len(pending')
        PROVE  pending'[i] = Gone + Len(processing) + i
    <3>1. CASE i = Len(pending) + 1
      <4>1. pending'[i] = Len(about) + 1
        BY <1>3, <3>1
      <4>2. Gone + Len(processing) + i = Len(about) + 1
        BY <1>2, <1>5, <3>1
      <4>3. QED
        BY <4>1, <4>2
    <3>2. CASE i # Len(pending) + 1
      <4>1. i \in 1..Len(pending)
        BY <1>2, <1>3, <3>2
      <4>2. QED
        BY <1>3, <4>1 DEF OrderInv, Lined
    <3>3. QED
      BY <3>1, <3>2
  <2>2. QED
    BY <1>1, <1>4, <2>1 DEF OrderInv, Lined
<1>8. ClaimsLined'
  BY <1>1, <1>4 DEF OrderInv, ClaimsLined
<1>9. RowsLined'
  <2>1. ASSUME NEW r \in Question
        PROVE  Latest'[r] = IF r = q THEN Len(about) + 1 ELSE Latest[r]
    BY <1>1, <1>2, LastAboutGrows, LatestIs
  <2>2. ASSUME NEW r \in Question, NEW n \in Int, n <= Len(about), Latest'[r] <= n
        PROVE  Latest'[r] = Latest[r]
    BY <1>2, <2>1, <2>2
  <2>3. ASSUME NEW r \in Question, Latest'[r] <= Gone
        PROVE  rows'[r] = Latest'[r]
    <3>1. Latest'[r] = Latest[r]
      BY <1>2, <1>5, <2>2, <2>3
    <3>2. QED
      BY <1>1, <2>3, <3>1 DEF OrderInv, RowsLined
  <2>4. ASSUME NEW c \in Consumer, pc'[c] = "ack", NEW r \in Question,
               Latest'[r] <= Gone + Len(processing)
        PROVE  rows'[r] = Latest'[r]
    <3>1. Gone + Len(processing) \in Int
      BY <1>2
    <3>2. Latest'[r] = Latest[r]
      BY <1>5, <2>2, <2>4, <3>1
    <3>3. QED
      BY <1>1, <2>4, <3>2 DEF OrderInv, RowsLined
  <2>5. QED
    BY <1>1, <1>4, <2>3, <2>4 DEF RowsLined
<1>10. Covered'
  <2>1. Gone' >= Gone
    BY <1>2, <1>4
  <2>2. QED
    BY <1>1, <2>1, CoveredKept DEF OrderInv
<1>11. QED
  BY <1>6, <1>7, <1>8, <1>9, <1>10 DEF OrderInv

LEMMA MovesBackOrder ==
    ASSUME TypeInv, TypeInv', BatchInv, OrderInv, NEW c \in Consumer, Rescue(c) \/ Restore(c), orderly'
    PROVE  OrderInv'
<1>1. /\ UNCHANGED <<about, rows, lock, claim, due, drained>>
      /\ pc[c] \in {"rescue", "restore"} /\ pc[c] \in InRun
  BY DEF Rescue, Restore, session, history, InRun, Rescuing
<1>2. lock = c
  BY <1>1 DEF OrderInv, Locked
<1>3. CASE left[c] > 0 /\ processing # <<>>
  <2>1. /\ processing' = Front(processing) /\ pending' = <<Last(processing)>> \o pending
        /\ pc' = pc
    BY <1>3 DEF Rescue, Restore
  <2>2. Lined' /\ Gone' = Gone
    BY <1>1, <1>3, <2>1, BackLined DEF OrderInv
  <2>3. \A d \in Consumer : pc'[d] \notin {"claim", "upsert", "ack"}
    <3>1. \A d \in Consumer \ {c} : pc[d] \notin InRun
      BY <1>1, OneRun DEF OrderInv
    <3>2. QED
      BY <1>1, <2>1, <3>1 DEF InRun, Rescuing, Writing
  <2>4. ClaimsLined'
    BY <2>3 DEF ClaimsLined
  <2>5. RowsLined'
    <3>1. Latest' = Latest
      BY <1>1, LatestIs
    <3>2. QED
      BY <1>1, <2>2, <2>3, <3>1 DEF OrderInv, RowsLined
  <2>6. Locked'
    BY <1>1, <2>1 DEF OrderInv, Locked
  <2>7. Covered'
    <3>1. Gone' >= Gone
      BY <2>2, Numbers
    <3>2. QED
      BY <1>1, <3>1, CoveredKept DEF OrderInv
  <2>8. QED
    BY <2>2, <2>4, <2>5, <2>6, <2>7 DEF OrderInv
<1>4. CASE ~(left[c] > 0 /\ processing # <<>>)
  <2>1. UNCHANGED <<pending, processing>>
    BY <1>4 DEF Rescue, Restore, lists
  <2>2. PICK n \in Nat : left' = [left EXCEPT ![c] = n]
    BY <1>4, LocalTypes DEF Rescue, Restore, Loop
  <2>3. claim' = [claim EXCEPT ![c] = claim[c]]
    BY <1>1, LocalTypes
  <2>4. CASE Rescue(c)
    <3>1. pc' = [pc EXCEPT ![c] = "claim"] /\ processing = <<>> /\ pc[c] = "rescue"
      BY <1>4, <2>4 DEF Rescue, Goto
    <3>2. claim[c] = <<>>
      BY <3>1 DEF BatchInv, BatchIs
    <3>3. Alone(c) /\ pc'[c] = "claim" /\ claim'[c] = claim[c]
      BY <2>2, <2>3, <3>1, AloneIs
    <3>4. QED
      BY <1>1, <1>2, <2>1, <3>1, <3>2, <3>3, StillOrder
  <2>5. CASE Restore(c)
    <3>1. pc' = [pc EXCEPT ![c] = "release"]
      BY <1>4, <2>5 DEF Restore, Goto
    <3>2. Alone(c) /\ pc'[c] = "release"
      BY <2>2, <2>3, <3>1, AloneIs
    <3>3. "release" \notin InRun
      BY DEF InRun, Rescuing, Writing
    <3>4. QED
      BY <1>1, <1>2, <2>1, <3>2, <3>3, StillOrder
  <2>6. QED
    BY <2>4, <2>5
<1>5. QED
  BY <1>3, <1>4

LEMMA ClaimOrder ==
    ASSUME TypeInv, TypeInv', OrderInv, NEW c \in Consumer, ClaimOne(c)
    PROVE  OrderInv'
<1>1. /\ UNCHANGED <<about, rows, lock, pc, due, drained>>
      /\ pc[c] = "claim" /\ pc[c] \in InRun /\ pending # <<>>
      /\ pending' = Tail(pending) /\ processing' = Append(processing, Head(pending))
      /\ claim' = [claim EXCEPT ![c] = Append(claim[c], Head(pending))]
  BY DEF ClaimOne, session, history, InRun, Rescuing
<1>2. Lined' /\ Gone' = Gone
  BY <1>1, ForthLined DEF OrderInv
<1>3. \A d \in Consumer \ {c} : pc'[d] \notin InRun
  BY <1>1, OneRun DEF OrderInv
<1>4. \A d \in Consumer : pc'[d] # "ack" /\ (pc'[d] \in {"claim", "upsert"} => d = c)
  BY <1>1, <1>3 DEF InRun, Rescuing, Writing
<1>5. claim'[c] = processing'
  BY <1>1 DEF TypeInv, TypeOK, OrderInv, ClaimsLined
<1>6. ClaimsLined'
  BY <1>4, <1>5 DEF ClaimsLined
<1>7. RowsLined'
  <2>1. Latest' = Latest
    BY <1>1, LatestIs
  <2>2. QED
    BY <1>1, <1>2, <1>4, <2>1 DEF OrderInv, RowsLined
<1>8. Locked'
  BY <1>1 DEF OrderInv, Locked
<1>9. Covered'
  <2>1. Gone' >= Gone
    BY <1>2, Numbers
  <2>2. QED
    BY <1>1, <2>1, CoveredKept DEF OrderInv
<1>10. QED
  BY <1>2, <1>6, <1>7, <1>8, <1>9 DEF OrderInv

(* A commit stores the newest of the answers it claimed, and those are the  *)
(* newest that left pending.                                                *)
LEMMA CommitStores ==
    ASSUME TypeInv, OrderInv, NEW c \in Consumer, pc[c] = "upsert", NEW q \in Question
    PROVE  /\ Latest[q] <= Gone + Len(processing) => Upserted(claim[c])[q] = Latest[q]
           /\ Upserted(claim[c])[q] = rows[q] \/ Upserted(claim[c])[q] > Gone
<1> DEFINE s == claim[c]
           n == LastAbout(about)[q]
           r == Upserted(s)[q]
<1>1. /\ s \in Seq(Answers) /\ s = processing
  BY LocalTypes DEF OrderInv, ClaimsLined
<1>2. /\ Len(about) \in Nat /\ Len(s) \in Nat /\ Len(pending) \in Nat /\ Gone \in Int
      /\ about \in Seq(Question)
  BY <1>1, Numbers
<1>3. Gone >= 0 /\ \A k \in 1..Len(s) : s[k] = Gone + k
  BY <1>1 DEF OrderInv, Lined
<1>4. Gone + Len(s) <= Len(about)
  BY <1>1, <1>2 DEF Gone
<1>5. /\ n \in 0..Len(about) /\ (n > 0 => about[n] = q)
      /\ \A i \in 1..Len(about) : about[i] = q => i <= n
  BY <1>2, LastAboutIs
<1>6. n <= Gone => rows[q] = n
  BY LatestIs DEF OrderInv, RowsLined
<1>7. \/ /\ \A k \in 1..Len(s) : about[s[k]] # q
         /\ r = rows[q]
      \/ \E k \in 1..Len(s) :
            /\ about[s[k]] = q /\ r = s[k]
            /\ \A j \in 1..Len(s) : about[s[j]] = q => j <= k
  BY <1>1, UpsertedIs
<1>8. Latest[q] = n
  BY LatestIs
<1> HIDE DEF s, n, r
<1>9. ASSUME n > Gone, n <= Gone + Len(s)
      PROVE  n - Gone \in 1..Len(s) /\ s[n - Gone] = n /\ about[s[n - Gone]] = q
  <2>1. n - Gone \in 1..Len(s) /\ n > 0 /\ Gone + (n - Gone) = n
    BY <1>2, <1>3, <1>5, <1>9
  <2>2. s[n - Gone] = n
    BY <1>3, <2>1
  <2>3. QED
    BY <1>5, <2>1, <2>2
<1>10. CASE (\A k \in 1..Len(s) : about[s[k]] # q) /\ r = rows[q]
  <2>1. n <= Gone + Len(s) => n <= Gone
    BY <1>2, <1>5, <1>9, <1>10
  <2>2. n <= Gone + Len(s) => r = n
    BY <1>6, <1>10, <2>1
  <2>3. QED
    BY <1>1, <1>8, <1>10, <2>2 DEF r, s
<1>11. CASE \E k \in 1..Len(s) :
              /\ about[s[k]] = q /\ r = s[k]
              /\ \A j \in 1..Len(s) : about[s[j]] = q => j <= k
  <2>1. PICK k \in 1..Len(s) :
              /\ about[s[k]] = q /\ r = s[k]
              /\ \A j \in 1..Len(s) : about[s[j]] = q => j <= k
    BY <1>11
  <2>2. s[k] = Gone + k /\ Gone + k \in 1..Len(about)
    BY <1>2, <1>3, <1>4
  <2>3. Gone + k <= n
    BY <1>5, <2>1, <2>2
  <2>4. n <= Gone + Len(s) => n <= Gone + k
    <3>1. SUFFICES ASSUME n <= Gone + Len(s)
                   PROVE  n <= Gone + k
      OBVIOUS
    <3>2. n > Gone
      BY <1>2, <1>5, <2>3
    <3>3. n - Gone <= k
      BY <1>9, <2>1, <3>1, <3>2
    <3>4. QED
      BY <1>2, <1>5, <3>3
  <2>5. n <= Gone + Len(s) => r = n
    BY <1>2, <1>5, <2>1, <2>2, <2>3, <2>4
  <2>6. r > Gone
    BY <1>2, <2>1, <2>2
  <2>7. QED
    BY <1>1, <1>8, <2>5, <2>6 DEF r, s
<1>12. QED
  BY <1>7, <1>10, <1>11

LEMMA CommitOrder ==
    ASSUME TypeInv, TypeInv', OrderInv, NEW c \in Consumer, Commit(c)
    PROVE  OrderInv'
<1>1. /\ UNCHANGED <<about, pending, processing, lock, due, drained>>
      /\ rows' = Upserted(claim[c]) /\ pc[c] = "upsert" /\ pc[c] \in InRun
      /\ pc' = [pc EXCEPT ![c] = "ack"] /\ left' = [left EXCEPT ![c] = Len(claim[c])]
      /\ claim' = [claim EXCEPT ![c] = claim[c]]
  BY LocalTypes DEF Commit, lists, Goto, Loop, InRun, Writing
<1>2. Alone(c) /\ pc'[c] = "ack" /\ left'[c] = Len(claim[c]) /\ claim'[c] = claim[c]
  BY <1>1, AloneIs
<1>3. claim[c] = processing /\ Len(processing) \in Nat
  BY <1>1, Numbers DEF OrderInv, ClaimsLined
<1>4. Gone' = Gone /\ Latest' = Latest
  BY <1>1, LatestIs DEF Gone
<1>5. \A d \in Consumer \ {c} : pc'[d] \notin InRun
  BY <1>1, <1>2, OneRun DEF OrderInv, Alone
<1>6. \A d \in Consumer : pc'[d] \notin {"claim", "upsert"} /\ (pc'[d] = "ack" => d = c)
  BY <1>2, <1>5 DEF InRun, Rescuing, Writing
<1>7. Lined'
  BY <1>1, <1>4 DEF OrderInv, Lined
<1>8. ClaimsLined'
  <2>1. ASSUME NEW i \in 1..Len(processing)
        PROVE  claim'[c][Len(claim'[c]) - left'[c] + i] = Gone + i
    <3>1. Len(claim'[c]) - left'[c] + i = i
      BY <1>2, <1>3
    <3>2. processing[i] = Gone + i
      BY DEF OrderInv, Lined
    <3>3. QED
      BY <1>2, <1>3, <3>1, <3>2
  <2>2. QED
    BY <1>1, <1>2, <1>3, <1>4, <1>6, <2>1 DEF ClaimsLined
<1>9. RowsLined'
  <2>1. ASSUME NEW q \in Question, Latest[q] <= Gone
        PROVE  Latest[q] <= Gone + Len(processing)
    <3>1. Latest[q] \in Int /\ Gone \in Int
      BY Numbers, LatestIs
    <3>2. QED
      BY <1>3, <2>1, <3>1
  <2>2. QED
    BY <1>1, <1>4, <2>1, CommitStores DEF RowsLined
<1>10. Locked'
  BY <1>1, <1>2, OthersLocked DEF OrderInv, Alone, Locked
<1>11. Covered'
  <2>1. Gone' >= Gone
    BY <1>4, Numbers
  <2>2. \A q \in Question : rows'[q] = rows[q] \/ rows'[q] > Gone
    BY <1>1, CommitStores
  <2>3. QED
    BY <1>1, <2>1, <2>2, CoveredKept DEF OrderInv
<1>12. QED
  BY <1>7, <1>8, <1>9, <1>10, <1>11 DEF OrderInv

LEMMA AckOrder ==
    ASSUME TypeInv, TypeInv', OrderInv, NEW c \in Consumer, Ack(c)
    PROVE  OrderInv'
<1>1. /\ UNCHANGED <<about, rows, pending, lock, claim, due, drained>>
      /\ pc[c] = "ack" /\ pc[c] \in InRun
  BY DEF Ack, session, history, InRun, Writing
<1> claim' = [claim EXCEPT ![c] = claim[c]]
  BY <1>1, LocalTypes
<1>2. CASE left[c] > 0
  <2>1. /\ processing' = Removed(processing, claim[c][Len(claim[c]) - left[c] + 1])
        /\ pc' = pc
    BY <1>2 DEF Ack
  <2>2. /\ left[c] = Len(processing)
        /\ \A i \in 1..left[c] : claim[c][Len(claim[c]) - left[c] + i] = Gone + i
    BY <1>1 DEF OrderInv, ClaimsLined
  <2>3. left[c] \in Nat /\ Len(claim[c]) \in Nat /\ Gone \in Int
    BY LocalTypes, Numbers
  <2>4. claim[c][Len(claim[c]) - left[c] + 1] = Gone + 1
    BY <1>2, <2>2, <2>3
  <2>5. Lined' /\ Gone' = Gone + 1 /\ Len(processing') = Len(processing) - 1
    BY <1>1, <1>2, <2>1, <2>2, <2>4, AckLined DEF OrderInv
  <2>6. Alone(c) /\ pc'[c] = "ack" /\ left'[c] = left[c] - 1 /\ claim'[c] = claim[c]
    <3>1. pc' = [pc EXCEPT ![c] = "ack"] /\ left' = [left EXCEPT ![c] = left[c] - 1]
      BY <1>1, <1>2 DEF Ack, Loop, TypeInv, TypeOK
    <3>2. QED
      BY <3>1, AloneIs
  <2>7. \A d \in Consumer \ {c} : pc'[d] \notin InRun
    BY <1>1, <2>1, OneRun DEF OrderInv
  <2>8. \A d \in Consumer : pc'[d] \notin {"claim", "upsert"} /\ (pc'[d] = "ack" => d = c)
    BY <2>6, <2>7 DEF InRun, Rescuing, Writing
  <2>9. ClaimsLined'
    <3>1. ASSUME NEW i \in 1..(left[c] - 1)
          PROVE  claim[c][Len(claim[c]) - (left[c] - 1) + i] = Gone + 1 + i
      <4>1. i + 1 \in 1..left[c] /\ i \in Int
        BY <2>3
      <4>2. Len(claim[c]) - (left[c] - 1) + i = Len(claim[c]) - left[c] + (i + 1)
        BY <2>3, <4>1
      <4>3. Gone + (i + 1) = Gone + 1 + i
        BY <2>3, <4>1
      <4>4. QED
        BY <2>2, <4>1, <4>2, <4>3
    <3>2. QED
      BY <2>2, <2>5, <2>6, <2>8, <3>1 DEF ClaimsLined
  <2>10. RowsLined'
    <3>1. Latest' = Latest
      BY <1>1, LatestIs
    <3>2. Gone' + Len(processing') = Gone + Len(processing) /\ Gone' <= Gone + Len(processing)
      BY <1>2, <2>2, <2>3, <2>5
    <3>3. ASSUME NEW q \in Question, Latest[q] <= Gone'
          PROVE  Latest[q] <= Gone + Len(processing)
      <4>1. Latest[q] \in Int
        BY Numbers, LatestIs
      <4>2. QED
        BY <2>2, <2>3, <2>5, <3>2, <3>3, <4>1
    <3>4. \A q \in Question : Latest[q] <= Gone + Len(processing) => rows[q] = Latest[q]
      BY <1>1 DEF OrderInv, RowsLined
    <3>5. QED
      BY <1>1, <3>1, <3>2, <3>3, <3>4 DEF RowsLined
  <2>11. Locked'
    BY <1>1, <2>1 DEF OrderInv, Locked
  <2>12. Covered'
    <3>1. Gone' >= Gone
      BY <2>3, <2>5
    <3>2. QED
      BY <1>1, <3>1, CoveredKept DEF OrderInv
  <2>13. QED
    BY <2>5, <2>9, <2>10, <2>11, <2>12 DEF OrderInv
<1>3. CASE ~(left[c] > 0)
  <2>1. pc' = [pc EXCEPT ![c] = "release"] /\ UNCHANGED <<processing, left>>
    BY <1>3 DEF Ack, Goto
  <2>2. left' = [left EXCEPT ![c] = left[c]]
    BY <2>1, LocalTypes
  <2>3. Alone(c) /\ pc'[c] = "release"
    <3>1. pc' = [pc EXCEPT ![c] = "release"]
      BY <2>1
    <3>2. QED
      BY <2>2, <3>1, AloneIs
  <2>4. "release" \notin InRun
    BY DEF InRun, Rescuing, Writing
  <2>5. QED
    BY <1>1, <2>1, <2>3, <2>4, StillOrder
<1>4. QED
  BY <1>2, <1>3

(* Steps between the lists: a run begins, fails, or ends. *)
LEMMA RunsOrder ==
    ASSUME TypeInv, TypeInv', OrderInv, NEW c \in Consumer,
           Acquire(c) \/ Release(c) \/ ReleaseFails(c) \/ Crash(c) \/ BatchFails(c) \/ RunFails(c)
    PROVE  OrderInv'
<1>1. UNCHANGED <<about, rows, pending, processing, due, drained>>
  BY DEF Acquire, Release, ReleaseFails, AfterRun, Crash, BatchFails, RunFails, session, lists, history
<1>2. PICK at \in {"rescue", "restore", "idle", "round", "submit", "release"} :
         pc' = [pc EXCEPT ![c] = at]
  BY DEF Acquire, Release, ReleaseFails, AfterRun, Crash, BatchFails, RunFails, Goto
<1>3. /\ \E s : claim' = [claim EXCEPT ![c] = s]
      /\ \E n : left' = [left EXCEPT ![c] = n]
  <2>1. claim' = claim \/ claim' = [claim EXCEPT ![c] = <<>>]
    BY DEF Acquire, Release, ReleaseFails, AfterRun, Crash, BatchFails, RunFails, locals, Forget
  <2>2. left' = left \/ \E n : left' = [left EXCEPT ![c] = n]
    BY DEF Acquire, Release, ReleaseFails, AfterRun, Crash, BatchFails, RunFails, locals, Forget, Loop
  <2>3. QED
    BY <2>1, <2>2, LocalTypes
<1>4. Alone(c) /\ pc'[c] = at
  BY <1>2, <1>3, AloneIs
<1>5. lock' = lock \/ lock \in {c, None}
  BY DEF Acquire, Release, ReleaseFails, AfterRun, Crash, BatchFails, RunFails
<1>6. pc'[c] \in InRun => lock' = c
  <2>1. CASE Acquire(c)
    BY <2>1 DEF Acquire
  <2>2. CASE BatchFails(c)
    BY <2>2 DEF BatchFails, OrderInv, Locked, InRun
  <2>3. CASE Release(c) \/ ReleaseFails(c) \/ Crash(c) \/ RunFails(c)
    <3>1. \E to \in {"idle", "round", "submit", "release"} : pc' = [pc EXCEPT ![c] = to]
      BY <2>3 DEF Release, ReleaseFails, AfterRun, Crash, RunFails, Goto
    <3>2. pc'[c] \in {"idle", "round", "submit", "release"}
      BY <3>1 DEF TypeInv, TypeOK
    <3>3. QED
      BY <3>2 DEF InRun, Rescuing, Writing
  <2>4. QED
    BY <2>1, <2>2, <2>3
<1>7. QED
  BY <1>1, <1>4, <1>5, <1>6, StillOrder

(* A run that claimed nothing found the queue empty: it had room. *)
LEMMA EndClaimOrder ==
    ASSUME TypeInv, TypeInv', BatchInv, DueInv, OrderInv, NEW c \in Consumer, EndClaim(c)
    PROVE  OrderInv'
<1>1. /\ UNCHANGED <<about, rows, pending, processing, lock, claim, left, due>>
      /\ pc[c] = "claim" /\ pc[c] \in InRun
      /\ left[c] = 0 \/ pending = <<>>
      /\ drained' = IF c \in Submitter THEN [drained EXCEPT ![c] = (claim[c] = <<>>)] ELSE drained
  BY DEF EndClaim, session, lists, locals, InRun, Rescuing
<1>2. PICK at \in {"release", "upsert"} : pc' = [pc EXCEPT ![c] = at]
  BY DEF EndClaim, Goto
<1>3. Alone(c) /\ pc'[c] = at
  <2>1. claim' = [claim EXCEPT ![c] = claim[c]] /\ left' = [left EXCEPT ![c] = left[c]]
    BY <1>1, LocalTypes
  <2>2. QED
    BY <1>2, <2>1, AloneIs
<1>4. claim[c] = processing /\ lock = c
  BY <1>1 DEF OrderInv, ClaimsLined, Locked
<1>5. Lined' /\ ClaimsLined' /\ RowsLined' /\ Gone' = Gone
  BY <1>1, <1>3, <1>4, StillLined
<1>6. Locked'
  BY <1>1, <1>3, <1>4, OthersLocked DEF OrderInv, Alone
<1>7. Covered'
  <2> SUFFICES ASSUME NEW s \in Submitter, drained'[s], NEW q \in Question
               PROVE  due'[s][q] <= Gone' /\ rows'[q] >= due'[s][q]
    BY DEF Covered
  <2>1. CASE drained[s]
    BY <1>1, <1>5, <2>1 DEF OrderInv, Covered
  <2>2. CASE ~drained[s]
    <3>1. s = c /\ claim[c] = <<>>
      BY <1>1, <2>2 DEF TypeInv, TypeOK
    <3>2. processing = <<>> /\ pending = <<>>
      <4>1. left[c] + Len(claim[c]) = BatchOf(c) /\ BatchOf(c) # 0 /\ Len(<<>>) = 0
        BY <1>1, LocalTypes DEF BatchInv, BatchIs
      <4>2. left[c] \in Nat /\ left[c] # 0
        BY <3>1, <4>1, LocalTypes
      <4>3. QED
        BY <1>1, <1>4, <3>1, <4>2
    <3>3. Gone = Len(about) /\ Latest[q] \in 0..Len(about)
      BY <3>2, Numbers, LatestIs DEF Gone
    <3>4. rows[q] = Latest[q] /\ due[s][q] <= Latest[q] /\ due[s][q] \in Nat
      BY <3>3, Numbers DEF OrderInv, RowsLined, DueInv
    <3>5. QED
      BY <1>1, <1>5, <3>3, <3>4, Numbers
  <2>3. QED
    BY <2>1, <2>2
<1>8. QED
  BY <1>5, <1>6, <1>7 DEF OrderInv

LEMMA SubmitsOrder ==
    ASSUME TypeInv, TypeInv', OrderInv, NEW s \in Submitter, Arrive(s) \/ TurnedAway(s) \/ Submit(s)
    PROVE  OrderInv'
<1>1. /\ s \in Consumer
      /\ UNCHANGED <<about, rows, pending, processing, lock, claim, left>>
  BY DEF Arrive, TurnedAway, Submit, session, lists, locals, Consumer
<1>2. PICK at \in {"round", "submit", "done"} : pc' = [pc EXCEPT ![s] = at]
  BY DEF Arrive, TurnedAway, Submit, Goto
<1>3. claim' = [claim EXCEPT ![s] = claim[s]] /\ left' = [left EXCEPT ![s] = left[s]]
  BY <1>1, LocalTypes
<1>4. Alone(s) /\ pc'[s] = at
  <2>1. s \in Consumer
    BY <1>1
  <2>2. QED
    BY <1>2, <1>3, <2>1, AloneIs
<1>5. at \notin InRun
  BY DEF InRun, Rescuing, Writing
<1>6. ASSUME NEW t \in Submitter, drained'[t]
      PROVE  drained[t] /\ due'[t] = due[t]
  <2>1. CASE Arrive(s)
    <3>1. due' = [due EXCEPT ![s] = Latest] /\ drained' = [drained EXCEPT ![s] = FALSE]
      BY <2>1 DEF Arrive
    <3>2. QED
      BY <1>6, <3>1 DEF TypeInv, TypeOK
  <2>2. CASE TurnedAway(s) \/ Submit(s)
    BY <1>6, <2>2 DEF TurnedAway, Submit, history
  <2>3. QED
    BY <2>1, <2>2
<1>7. QED
  BY <1>1, <1>4, <1>5, <1>6, StillOrder

LEMMA IdleOrder ==
    ASSUME TypeInv, OrderInv, LockExpires \/ UNCHANGED vars, orderly'
    PROVE  OrderInv'
<1>1. UNCHANGED <<about, rows, pending, processing, pc, claim, left, due, drained>>
  BY DEF LockExpires, vars, session, lists, locals, history
<1>2. Gone' = Gone /\ Latest' = Latest
  BY <1>1, LatestIs DEF Gone
<1>3. Locked'
  <2>1. CASE UNCHANGED vars
    BY <2>1 DEF vars, OrderInv, Locked
  <2>2. CASE LockExpires
    <3>1. pc[lock] \in {"idle", "done"}
      BY <2>2 DEF LockExpires
    <3>2. \A d \in Consumer : pc[d] \notin InRun
      BY <3>1 DEF OrderInv, Locked, InRun, Rescuing, Writing
    <3>3. QED
      BY <1>1, <3>2 DEF Locked, InRun, Rescuing, Writing
  <2>3. QED
    BY <2>1, <2>2
<1>4. Lined' /\ ClaimsLined' /\ RowsLined' /\ Covered'
  BY <1>1, <1>2 DEF OrderInv, Lined, ClaimsLined, RowsLined, Covered
<1>5. QED
  BY <1>3, <1>4 DEF OrderInv

(* What upset the order once has upset it. *)
LEMMA OrderlyStays == [Next]_vars /\ orderly' => orderly
BY DEF Next, vars, history, Enqueue, WriteDirect, Process, Acquire, Rescue, ClaimOne, EndClaim, Commit,
   Ack, Restore, Release, AfterRun, BatchFails, RunFails, ReleaseFails, Crash, Arrive, TurnedAway,
   Submit, LockExpires

LEMMA OrderStep ==
    TypeInv /\ TypeInv' /\ BatchInv /\ DueInv /\ OrderInv /\ [Next]_vars /\ orderly' => OrderInv'
<1> SUFFICES ASSUME TypeInv, TypeInv', BatchInv, DueInv, OrderInv, [Next]_vars, orderly'
             PROVE  OrderInv'
  OBVIOUS
<1>1. ASSUME NEW q \in Question, Enqueue(q) \/ WriteDirect(q)
      PROVE  OrderInv'
  <2>1. ~WriteDirect(q)
    BY DEF WriteDirect
  <2>2. QED
    BY <1>1, <2>1, EnqueueOrder
<1>2. ASSUME NEW c \in Consumer, Process(c)
      PROVE  OrderInv'
  BY <1>2, RunsOrder, MovesBackOrder, ClaimOrder, EndClaimOrder, CommitOrder, AckOrder DEF Process
<1>3. ASSUME NEW c \in Consumer, BatchFails(c) \/ RunFails(c) \/ ReleaseFails(c) \/ Crash(c)
      PROVE  OrderInv'
  BY <1>3, RunsOrder
<1>4. ASSUME NEW s \in Submitter, Arrive(s) \/ TurnedAway(s) \/ Submit(s)
      PROVE  OrderInv'
  BY <1>4, SubmitsOrder
<1>5. CASE UNCHANGED vars \/ LockExpires
  BY <1>5, IdleOrder
<1>6. QED
  BY <1>1, <1>2, <1>3, <1>4, <1>5 DEF Next

(* What a submit graded and what it owed do not change any more. *)
LEMMA GradedStays ==
    ASSUME TypeInv, GradesInv, gradedBy # None, [Next]_vars, gradedBy' = gradedBy, graded' = graded
    PROVE  due'[gradedBy] = due[gradedBy] /\ drained'[gradedBy] = drained[gradedBy]
<1> DEFINE g == gradedBy
<1>1. g \in Submitter /\ pc[g] = "done"
  BY DEF TypeInv, TypeOK, GradesInv
<1>2. ASSUME NEW c \in Consumer, EndClaim(c)
      PROVE  due' = due /\ (drained' = drained \/ \E b : drained' = [drained EXCEPT ![c] = b]) /\ c # g
  BY <1>1, <1>2 DEF EndClaim
<1>3. ASSUME NEW s \in Submitter, Arrive(s)
      PROVE  /\ due' = [due EXCEPT ![s] = Latest] /\ drained' = [drained EXCEPT ![s] = FALSE]
             /\ s # g
  BY <1>1, <1>3 DEF Arrive
<1>4. CASE \E c \in Consumer : EndClaim(c)
  BY <1>1, <1>2, <1>4 DEF TypeInv, TypeOK
<1>5. CASE \E s \in Submitter : Arrive(s)
  BY <1>1, <1>3, <1>5 DEF TypeInv, TypeOK
<1>6. CASE UNCHANGED <<due, drained>>
  BY <1>6
<1>7. ASSUME NEW c \in Consumer,
             Process(c) \/ BatchFails(c) \/ RunFails(c) \/ ReleaseFails(c) \/ Crash(c), ~EndClaim(c)
      PROVE  UNCHANGED <<due, drained>>
  <2>1. CASE Process(c)
    BY <1>7, <2>1 DEF Process, Acquire, Rescue, ClaimOne, Commit, Ack, Restore, Release, AfterRun, history
  <2>2. CASE BatchFails(c) \/ RunFails(c) \/ ReleaseFails(c) \/ Crash(c)
    BY <2>2 DEF BatchFails, RunFails, ReleaseFails, AfterRun, Crash, history
  <2>3. QED
    BY <1>7, <2>1, <2>2
<1>8. ASSUME NEW s \in Submitter, TurnedAway(s) \/ Submit(s)
      PROVE  UNCHANGED <<due, drained>>
  BY <1>8 DEF TurnedAway, Submit, history
<1>9. (\E q \in Question : Enqueue(q) \/ WriteDirect(q)) \/ LockExpires \/ UNCHANGED vars
      => UNCHANGED <<due, drained>>
  BY DEF Enqueue, WriteDirect, LockExpires, vars, history
<1>10. QED
  BY <1>4, <1>5, <1>6, <1>7, <1>8, <1>9 DEF Next

LEMMA GradedStep ==
    TypeInv /\ GradesInv /\ DrainedIsGraded /\ (orderly => OrderInv) /\ [Next]_vars => DrainedIsGraded'
<1> SUFFICES ASSUME TypeInv, GradesInv, DrainedIsGraded, orderly => OrderInv, [Next]_vars,
                    gradedBy' # None, orderly', drained'[gradedBy'], NEW q \in Question
             PROVE  graded'[q] >= due'[gradedBy'][q]
  BY DEF DrainedIsGraded
<1>1. orderly /\ OrderInv
  BY OrderlyStays
<1>2. CASE gradedBy' = gradedBy /\ graded' = graded
  <2>1. due'[gradedBy] = due[gradedBy] /\ drained'[gradedBy] = drained[gradedBy]
    BY <1>2, GradedStays
  <2>2. QED
    BY <1>1, <1>2, <2>1 DEF DrainedIsGraded
<1>3. ASSUME NEW s \in Submitter, Submit(s), ~UNCHANGED <<gradedBy, graded>>
      PROVE  graded'[q] >= due'[gradedBy'][q]
  <2>1. graded' = rows /\ gradedBy' = s /\ UNCHANGED <<due, drained>>
    BY <1>3 DEF Submit, history
  <2>2. QED
    BY <1>1, <2>1 DEF OrderInv, Covered
<1>4. ASSUME NEW c \in Consumer,
             Process(c) \/ BatchFails(c) \/ RunFails(c) \/ ReleaseFails(c) \/ Crash(c)
      PROVE  UNCHANGED <<gradedBy, graded>>
  <2>1. CASE Process(c)
    BY <2>1 DEF Process, Acquire, Rescue, ClaimOne, EndClaim, Commit, Ack, Restore, Release,
       AfterRun, session
  <2>2. CASE BatchFails(c) \/ RunFails(c) \/ ReleaseFails(c) \/ Crash(c)
    BY <2>2 DEF BatchFails, RunFails, ReleaseFails, AfterRun, Crash, session
  <2>3. QED
    BY <1>4, <2>1, <2>2
<1>5. ASSUME NEW s \in Submitter, Arrive(s) \/ TurnedAway(s)
      PROVE  UNCHANGED <<gradedBy, graded>>
  BY <1>5 DEF Arrive, TurnedAway, session
<1>6. (\E r \in Question : Enqueue(r) \/ WriteDirect(r)) \/ LockExpires \/ UNCHANGED vars
      => UNCHANGED <<gradedBy, graded>>
  BY DEF Enqueue, WriteDirect, LockExpires, vars, session
<1>7. QED
  BY <1>2, <1>3, <1>4, <1>5, <1>6 DEF Next

LEMMA KeptInit == Init => KeptInv
<1> SUFFICES ASSUME Init
             PROVE  KeptInv
  OBVIOUS
<1>1. TypeInv
  BY TypeInit
<1>2. BatchInv /\ GradesInv /\ DrainedIsGraded
  BY DEF Init, BatchInv, BatchIs, GradesInv, DrainedIsGraded
<1>3. about = <<>> /\ pending = <<>> /\ processing = <<>> /\ Len(<<>>) = 0 /\ Gone = 0
  <2>1. about = <<>> /\ pending = <<>> /\ processing = <<>>
    BY DEF Init
  <2>2. Len(<<>>) = 0
    OBVIOUS
  <2>3. Gone = 0
    <3>1. Len(about) = 0 /\ Len(pending) = 0 /\ Len(processing) = 0
      BY <2>1, <2>2, Zenon
    <3>2. QED
      BY <3>1 DEF Gone
  <2>4. QED
    BY <2>1, <2>2, <2>3
<1>4. \A q \in Question : Latest[q] = 0 /\ rows[q] = 0
  <2>1. \A q \in Question : Latest[q] \in 0..Len(about)
    BY <1>1, Numbers, LatestIs
  <2>2. QED
    BY <1>3, <2>1 DEF Init, Blank
<1>5. DueInv
  BY <1>4 DEF Init, DueInv, Blank
<1>6. Locked /\ Covered /\ ClaimsLined
  BY DEF Init, Locked, Covered, ClaimsLined, InRun, Rescuing, Writing
<1>7. Lined /\ RowsLined
  BY <1>3, <1>4 DEF Lined, RowsLined
<1>8. QED
  BY <1>1, <1>2, <1>5, <1>6, <1>7 DEF KeptInv, OrderInv

LEMMA KeptStep == KeptInv /\ [Next]_vars => KeptInv'
<1> SUFFICES ASSUME KeptInv, [Next]_vars
             PROVE  KeptInv'
  OBVIOUS
<1>1. TypeInv'
  BY TypeStep DEF KeptInv
<1>2. BatchInv' /\ GradesInv'
  BY BatchStep, GradesStep DEF KeptInv
<1>3. DueInv'
  BY <1>1, DueStep DEF KeptInv
<1>4. DrainedIsGraded'
  BY GradedStep DEF KeptInv
<1>5. orderly' => OrderInv'
  BY <1>1, OrderStep, OrderlyStays DEF KeptInv
<1>6. QED
  BY <1>1, <1>2, <1>3, <1>4, <1>5 DEF KeptInv

(* As long as nothing upsets the order of the queue, no older answer is     *)
(* left over a newer one: the newest is stored or still on its way.         *)
THEOREM NewestKept == Spec => []NewestIsKept
<1>1. KeptInv => NewestIsKept
  <2> SUFFICES ASSUME TypeInv, OrderInv, NEW q \in Question
               PROVE  Latest[q] \in ToSet(pending) \cup ToSet(processing) \cup {rows[q]}
    BY DEF KeptInv, NewestIsKept
  <2>1. /\ Latest[q] \in 0..Len(about) /\ Len(about) \in Nat
        /\ Len(pending) \in Nat /\ Len(processing) \in Nat /\ Gone \in Int
        /\ pending \in Seq(Answers) /\ processing \in Seq(Answers)
        /\ Gone + Len(processing) + Len(pending) = Len(about)
    BY Numbers, LatestIs DEF Gone
  <2>2. CASE Latest[q] <= Gone
    BY <2>2 DEF OrderInv, RowsLined
  <2>3. CASE Latest[q] > Gone /\ Latest[q] <= Gone + Len(processing)
    <3>1. Latest[q] - Gone \in 1..Len(processing) /\ Gone + (Latest[q] - Gone) = Latest[q]
      BY <2>1, <2>3
    <3>2. processing[Latest[q] - Gone] = Latest[q] /\ DOMAIN processing = 1..Len(processing)
      BY <2>1, <3>1 DEF OrderInv, Lined
    <3>3. QED
      BY <3>1, <3>2 DEF ToSet
  <2>4. CASE Latest[q] > Gone + Len(processing)
    <3> DEFINE i == Latest[q] - Gone - Len(processing)
    <3>1. i \in 1..Len(pending) /\ Gone + Len(processing) + i = Latest[q]
      BY <2>1, <2>4
    <3> HIDE DEF i
    <3>2. pending[i] = Latest[q] /\ DOMAIN pending = 1..Len(pending)
      BY <2>1, <3>1 DEF OrderInv, Lined
    <3>3. QED
      BY <3>1, <3>2 DEF ToSet
  <2>5. QED
    BY <2>1, <2>2, <2>3, <2>4
<1>2. QED
  BY <1>1, KeptInit, KeptStep, PTL DEF Spec

(* A submit whose drain found the queue empty grades what was given before  *)
(* it came, as long as nothing upsets the order of the queue.               *)
THEOREM DrainsGrade == Spec => []DrainedIsGraded
<1>1. KeptInv => DrainedIsGraded
  BY DEF KeptInv
<1>2. QED
  BY <1>1, KeptInit, KeptStep, PTL DEF Spec

-----------------------------------------------------------------------------
(* The two lists deliver at least once: refinement of AnswerDelivery. *)

Held == ToSet(pending) \cup ToSet(processing)

(* Nothing in the lists, in a claim or in the rows was not given. *)
GivenInv ==
    /\ Held \cup written \subseteq DOMAIN about
    /\ \A c \in Consumer : ToSet(claim[c]) \subseteq DOMAIN about

DeliveryInv == TypeInv /\ QueueInv /\ GivenInv

Delivers == [Delivery!DeliveryNext]_(Delivery!deliveryVars)

(* Of a step that only stores, moves or takes answers that were given, at *)
(* most one consumer's claim changes.                                     *)
LEMMA GivenKept ==
    ASSUME GivenInv, about' = about, Held' \subseteq Held,
           written' \subseteq written \cup DOMAIN about,
           NEW c \in Consumer,
           \A d \in Consumer \ {c} : claim'[d] = claim[d],
           ToSet(claim'[c]) \subseteq DOMAIN about
    PROVE  GivenInv'
BY DEF GivenInv

(* A step that leaves the lists' content and the rows alone is no step of  *)
(* the delivery.                                                           *)
LEMMA MovesAreHidden ==
    ASSUME about' = about, Held' = Held, written' = written
    PROVE  Delivers
BY DEF Delivers, Delivery!deliveryVars, Held

LEMMA AnswersDelivered ==
    ASSUME DeliveryInv, NEW q \in Question, Enqueue(q) \/ WriteDirect(q)
    PROVE  GivenInv' /\ Delivers
<1> DEFINE a == Len(about) + 1
<1>1. /\ about' = Append(about, q) /\ about \in Seq(Question) /\ Len(about) < MaxAnswers
      /\ UNCHANGED <<processing, claim>>
  BY DEF Enqueue, WriteDirect, DeliveryInv, TypeInv, TypeOK, lists, locals
<1>2. DOMAIN about' = DOMAIN about \cup {a} /\ a \in Answers
  BY <1>1, BatchAssumption DEF Answers
<1>3. pending \in Seq(Answers)
  BY DEF DeliveryInv, TypeInv, TypeOK
<1> HIDE DEF a
<1>4. CASE Enqueue(q)
  <2>1. pending' = Append(pending, a) /\ written' = written
    BY <1>4 DEF Enqueue, history, a
  <2>2. Held' = Held \cup {a}
    BY <1>1, <1>2, <1>3, <2>1, AppendSet DEF Held
  <2>3. GivenInv'
    BY <1>1, <1>2, <2>1, <2>2 DEF DeliveryInv, GivenInv
  <2>4. Delivery!Accept(a)
    BY <1>2, <2>1, <2>2 DEF Delivery!Accept, Held
  <2>5. QED
    BY <1>2, <2>3, <2>4 DEF Delivers, Delivery!DeliveryNext
<1>5. CASE WriteDirect(q)
  <2>1. pending' = pending /\ written' = written \cup {a}
    BY <1>5 DEF WriteDirect, lists, a
  <2>2. Held' = Held
    BY <1>1, <2>1 DEF Held
  <2>3. GivenInv'
    BY <1>1, <1>2, <2>1, <2>2 DEF DeliveryInv, GivenInv
  <2>4. Delivery!AcceptStored(a)
    BY <1>2, <2>1, <2>2 DEF Delivery!AcceptStored, Held
  <2>5. QED
    BY <1>2, <2>3, <2>4 DEF Delivers, Delivery!DeliveryNext
<1>6. QED
  BY <1>4, <1>5

LEMMA MovesBackDelivered ==
    ASSUME DeliveryInv, NEW c \in Consumer, Rescue(c) \/ Restore(c)
    PROVE  GivenInv' /\ Delivers
<1>1. about' = about /\ written' = written /\ claim' = claim
  BY DEF Rescue, Restore, session, history
<1>2. Held' = Held
  <2>1. CASE left[c] > 0 /\ processing # <<>>
    <3>1. processing' = Front(processing) /\ pending' = <<Last(processing)>> \o pending
      BY <2>1 DEF Rescue, Restore
    <3>2. /\ Last(processing) \in Nat /\ pending \in Seq(Nat)
          /\ ToSet(processing) = ToSet(Front(processing)) \cup {Last(processing)}
      BY <2>1, PopSet DEF DeliveryInv, QueueInv, QueueShape
    <3>3. ToSet(<<Last(processing)>> \o pending) = ToSet(pending) \cup {Last(processing)}
      BY <3>2, ConsSet
    <3>4. QED
      BY <3>1, <3>2, <3>3 DEF Held
  <2>2. CASE ~(left[c] > 0 /\ processing # <<>>)
    BY <2>2 DEF Rescue, Restore, lists, Held
  <2>3. QED
    BY <2>1, <2>2
<1>3. GivenInv'
  BY <1>1, <1>2 DEF DeliveryInv, GivenInv
<1>4. QED
  BY <1>1, <1>2, <1>3, MovesAreHidden

LEMMA ClaimDelivered ==
    ASSUME DeliveryInv, NEW c \in Consumer, ClaimOne(c)
    PROVE  GivenInv' /\ Delivers
<1>1. /\ UNCHANGED <<about, written>>
      /\ pending # <<>>
      /\ pending' = Tail(pending) /\ processing' = Append(processing, Head(pending))
      /\ claim' = [claim EXCEPT ![c] = Append(claim[c], Head(pending))]
  BY DEF ClaimOne, session, history
<1>2. /\ pending \in Seq(Nat) /\ processing \in Seq(Nat) /\ claim[c] \in Seq(Nat)
      /\ claim \in [Consumer -> Seq(Nat)]
  BY DEF DeliveryInv, QueueInv, QueueShape
<1>3. Head(pending) \in Nat /\ ToSet(pending) = ToSet(Tail(pending)) \cup {Head(pending)}
  BY <1>1, <1>2, PopSet
<1>4. /\ ToSet(processing') = ToSet(processing) \cup {Head(pending)}
      /\ ToSet(Append(claim[c], Head(pending))) = ToSet(claim[c]) \cup {Head(pending)}
  BY <1>1, <1>2, <1>3, AppendSet
<1>5. Held' = Held
  BY <1>1, <1>3, <1>4 DEF Held
<1>6. ToSet(claim'[c]) = ToSet(claim[c]) \cup {Head(pending)}
  <2>1. claim'[c] = Append(claim[c], Head(pending))
    BY <1>1, <1>2
  <2>2. QED
    BY <1>4, <2>1
<1>7. ToSet(claim'[c]) \subseteq DOMAIN about
  BY <1>3, <1>6 DEF DeliveryInv, GivenInv, Held
<1>8. \A d \in Consumer \ {c} : claim'[d] = claim[d]
  BY <1>1, <1>2
<1>9. GivenInv'
  BY <1>1, <1>5, <1>7, <1>8, GivenKept DEF DeliveryInv
<1>10. QED
  BY <1>1, <1>5, <1>9, MovesAreHidden

(* A transaction stores a batch of given answers, stored before or not. *)
LEMMA CommitDelivered ==
    ASSUME DeliveryInv, NEW c \in Consumer, Commit(c)
    PROVE  GivenInv' /\ Delivers
<1>1. /\ UNCHANGED <<about, pending, processing, claim>>
      /\ written' = written \cup ToSet(claim[c])
  BY DEF Commit, lists
<1>2. ToSet(claim[c]) \subseteq DOMAIN about
  BY DEF DeliveryInv, GivenInv
<1>3. GivenInv'
  BY <1>1, <1>2 DEF DeliveryInv, GivenInv, Held
<1>4. Delivery!Store
  BY <1>1, <1>2 DEF Delivery!Store
<1>5. QED
  BY <1>3, <1>4 DEF Delivers, Delivery!DeliveryNext

(* LREM lets go of an answer only when a transaction has stored it. *)
LEMMA AckDelivered ==
    ASSUME DeliveryInv, NEW c \in Consumer, Ack(c)
    PROVE  GivenInv' /\ Delivers
<1>1. pc[c] = "ack" /\ UNCHANGED <<about, pending, claim, written>>
  BY DEF Ack, session, history
<1>2. CASE left[c] > 0
  <2> DEFINE x == claim[c][Len(claim[c]) - left[c] + 1]
  <2>1. processing' = Removed(processing, x)
    BY <1>2 DEF Ack
  <2>2. x \in written
    <3>1. Len(claim[c]) - left[c] + 1 \in DOMAIN claim[c]
      BY <1>1, <1>2 DEF DeliveryInv, QueueInv, QueueShape, AckInv
    <3>2. QED
      BY <1>1, <3>1 DEF DeliveryInv, QueueInv, AckInv, ToSet
  <2> HIDE DEF x
  <2>3. /\ ToSet(processing) \subseteq ToSet(processing') \cup {x}
        /\ ToSet(processing') \subseteq ToSet(processing)
    BY <2>1, RemovedSet DEF DeliveryInv, QueueInv, QueueShape
  <2>4. Held' \subseteq Held /\ Held \ Held' \subseteq {x}
    BY <1>1, <2>3 DEF Held
  <2>5. GivenInv'
    BY <1>1, <2>4 DEF DeliveryInv, GivenInv
  <2>6. Delivery!LetGo
    <3>1. Held \ Held' \in SUBSET (Held \cap written) /\ Held' = Held \ (Held \ Held')
      BY <2>2, <2>4
    <3>2. \E S \in SUBSET (Held \cap written) : Held' = Held \ S
      BY <3>1
    <3>3. QED
      BY <1>1, <3>2 DEF Delivery!LetGo, Held
  <2>7. QED
    BY <2>5, <2>6 DEF Delivers, Delivery!DeliveryNext
<1>3. CASE ~(left[c] > 0)
  <2>1. processing' = processing
    BY <1>3 DEF Ack
  <2>2. Held' = Held
    BY <1>1, <2>1 DEF Held
  <2>3. GivenInv'
    BY <1>1, <2>2 DEF DeliveryInv, GivenInv
  <2>4. QED
    BY <1>1, <2>2, <2>3, MovesAreHidden
<1>4. QED
  BY <1>2, <1>3

(* Every other step hands answers to nobody. *)
LEMMA RestDelivered ==
    ASSUME DeliveryInv, UNCHANGED <<about, pending, processing, written>>,
           claim' = claim \/ \E c \in Consumer : claim' = [claim EXCEPT ![c] = <<>>]
    PROVE  GivenInv' /\ Delivers
<1>1. Held' = Held
  BY DEF Held
<1>2. claim \in [Consumer -> Seq(Nat)] /\ ToSet(<<>>) = {}
  BY DEF DeliveryInv, QueueInv, QueueShape, ToSet
<1>3. \A d \in Consumer : ToSet(claim'[d]) \subseteq DOMAIN about
  BY <1>2 DEF DeliveryInv, GivenInv
<1>4. GivenInv'
  BY <1>1, <1>3 DEF DeliveryInv, GivenInv
<1>5. QED
  BY <1>1, <1>4, MovesAreHidden

LEMMA DeliveryStep == DeliveryInv /\ [Next]_vars => GivenInv' /\ Delivers
<1> SUFFICES ASSUME DeliveryInv, [Next]_vars
             PROVE  GivenInv' /\ Delivers
  OBVIOUS
<1>1. ASSUME NEW q \in Question, Enqueue(q) \/ WriteDirect(q)
      PROVE  GivenInv' /\ Delivers
  BY <1>1, AnswersDelivered
<1>2. ASSUME NEW c \in Consumer,
             \/ Acquire(c) \/ EndClaim(c) \/ Release(c)
             \/ BatchFails(c) \/ RunFails(c) \/ ReleaseFails(c) \/ Crash(c)
      PROVE  GivenInv' /\ Delivers
  <2>1. UNCHANGED <<about, pending, processing, written>>
    BY <1>2 DEF Acquire, EndClaim, Release, ReleaseFails, AfterRun, BatchFails, RunFails, Crash,
       session, lists, history
  <2>2. claim' = claim \/ claim' = [claim EXCEPT ![c] = <<>>]
    BY <1>2 DEF Acquire, EndClaim, Release, ReleaseFails, AfterRun, BatchFails, RunFails, Crash,
       locals, Forget
  <2>3. QED
    BY <2>1, <2>2, RestDelivered
<1>3. ASSUME NEW c \in Consumer, Process(c)
      PROVE  GivenInv' /\ Delivers
  BY <1>2, <1>3, MovesBackDelivered, ClaimDelivered, CommitDelivered, AckDelivered DEF Process
<1>4. ASSUME NEW s \in Submitter, Arrive(s) \/ TurnedAway(s) \/ Submit(s)
      PROVE  GivenInv' /\ Delivers
  <2>1. UNCHANGED <<about, pending, processing, written, claim>>
    BY <1>4 DEF Arrive, TurnedAway, Submit, session, lists, history, locals
  <2>2. QED
    BY <2>1, RestDelivered
<1>5. CASE UNCHANGED vars \/ LockExpires
  <2>1. UNCHANGED <<about, pending, processing, written, claim>>
    BY <1>5 DEF vars, LockExpires, session, lists, history, locals
  <2>2. QED
    BY <2>1, RestDelivered
<1>6. QED
  BY <1>1, <1>2, <1>3, <1>4, <1>5 DEF Next

(* The lists deliver every accepted answer at least once and nothing else,  *)
(* whatever crashes, fails or expires: an answer is let go when it is       *)
(* stored, and what is stored was given.                                    *)
THEOREM RefinesDelivery == Spec => ImplementsDelivery
<1>1. Init => Delivery!DeliveryInit /\ GivenInv
  <2> SUFFICES ASSUME Init
               PROVE  Delivery!DeliveryInit /\ GivenInv
    OBVIOUS
  <2>1. ToSet(<<>>) = {} /\ DOMAIN <<>> = {}
    BY DEF ToSet
  <2>2. about = <<>> /\ pending = <<>> /\ processing = <<>> /\ written = {}
    BY DEF Init
  <2>3. \A c \in Consumer : ToSet(claim[c]) = {}
    BY <2>1 DEF Init
  <2>4. QED
    BY <2>1, <2>2, <2>3 DEF GivenInv, Held, Delivery!DeliveryInit
<1>2. TypeInv /\ QueueInv /\ GivenInv /\ [Next]_vars =>
        GivenInv' /\ [Delivery!DeliveryNext]_(Delivery!deliveryVars)
  BY DeliveryStep DEF DeliveryInv, Delivers
<1>3. QED
  BY <1>1, <1>2, TypeInit, TypeStep, QueueInit, QueueStep, PTL
     DEF Spec, ImplementsDelivery, Delivery!DeliverySpec

=============================================================================
