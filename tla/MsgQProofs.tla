----------------------------- MODULE MsgQProofs -----------------------------
(***************************************************************************)
(* Safety of the message queue for any finite set of receivers and any     *)
(* number of messages.  The properties depend on one another: the proof is *)
(* by induction on their conjunction, strengthened by the bound that every *)
(* message seen so far was created before.                                 *)
(***************************************************************************)
EXTENDS MsgQ, FiniteSetTheorems, TLAPS

CreatedBefore == got <= sent /\ freed \subseteq 1..sent

QueueInv ==
    /\ TypeOK
    /\ CreatedBefore
    /\ OldestFirst
    /\ FreedStaysGone

WakeInv ==
    /\ UnblockedNobodyWaits
    /\ EveryMessageHasAWaker

-----------------------------------------------------------------------------
(* The sets of threads *)

(* Both sets of threads are finite, and no thread is in both. *)
LEMMA ThreadSets ==
    ASSUME TypeOK
    PROVE  /\ IsFiniteSet(Waiting) /\ IsFiniteSet(Woken)
           /\ Cardinality(Woken) \in Nat
           /\ Waiting \cap Woken = {}
<1>1. Waiting \subseteq Receivers /\ Woken \subseteq Receivers
  BY DEF Waiting, Woken
<1>2. IsFiniteSet(Waiting) /\ IsFiniteSet(Woken)
  BY <1>1, ReceiversAssumption, FS_Subset
<1> QED
  BY <1>2, FS_CardinalityType DEF Waiting, Woken

(* A thread that is woken adds one to the woken threads. *)
LEMMA OneMoreWoken ==
    ASSUME TypeOK, NEW t \in Waiting, pc' = [pc EXCEPT ![t] = "woken"]
    PROVE  Cardinality(Woken') = Cardinality(Woken) + 1
<1>1. Woken' = Woken \cup {t}
  BY DEF Woken, Waiting, TypeOK
<1>2. t \notin Woken
  BY DEF Woken, Waiting
<1> QED
  BY <1>1, <1>2, ThreadSets, FS_AddElement

(* A woken thread that leaves takes one away. *)
LEMMA OneLessWoken ==
    ASSUME TypeOK, NEW t \in Woken, NEW place \in Places \ {"woken"},
           pc' = [pc EXCEPT ![t] = place]
    PROVE  Cardinality(Woken') = Cardinality(Woken) - 1
<1>1. Woken' = Woken \ {t}
  BY DEF Woken, TypeOK
<1> QED
  BY <1>1, ThreadSets, FS_RemoveElement

-----------------------------------------------------------------------------
(* The contents of the queue *)

(* The empty queue *)
LEMMA EmptyQueue ==
    <<>> \in Seq(1..MaxMsgs) /\ Len(<<>>) = 0 /\ Elements(<<>>) = {}
BY DEF Elements

(* msg_q_init starts with an empty queue. *)
LEMMA QueueInit == Init => QueueInv
<1> SUFFICES ASSUME Init PROVE QueueInv
  OBVIOUS
<1>1. TypeOK
  <2>1. msg_list \in Seq(1..MaxMsgs)
    BY EmptyQueue DEF Init
  <2>2. pc \in [Receivers -> Places]
    BY DEF Init, Places
  <2>3. sent \in 0..MaxMsgs /\ got \in 0..MaxMsgs
    BY ReceiversAssumption DEF Init
  <2> QED
    BY <2>1, <2>2, <2>3 DEF Init, TypeOK
<1>2. CreatedBefore /\ OldestFirst /\ FreedStaysGone
  BY DEF Init, CreatedBefore, OldestFirst, FreedStaysGone, Elements
<1> QED
  BY <1>1, <1>2 DEF QueueInv

(* What a signal, or any other change of pc, leaves true *)
LEMMA SignalType ==
    ASSUME TypeOK, pthread_cond_signal
    PROVE  pc' \in [Receivers -> Places]
BY DEF TypeOK, pthread_cond_signal, Waiting, Places

(* A new message is younger than all others. *)
LEMMA SndKeepsQueue == ASSUME QueueInv, msg_q_snd PROVE QueueInv'
<1> DEFINE n == Len(msg_list)
<1>1. /\ sent' = sent + 1 /\ sent' \in 1..MaxMsgs
      /\ msg_list' = Append(msg_list, sent')
      /\ got' = got /\ freed' = freed
      /\ exists' = exists /\ unblocked' = unblocked
  BY ReceiversAssumption DEF QueueInv, TypeOK, msg_q_snd
<1>2. TypeOK'
  BY <1>1, SignalType, ReceiversAssumption DEF QueueInv, TypeOK, msg_q_snd
<1>3. /\ Len(msg_list') = n + 1 /\ n \in Nat
      /\ \A i \in 1..n : msg_list'[i] = msg_list[i] /\ msg_list[i] \in 1..MaxMsgs
      /\ msg_list'[n + 1] = sent'
  BY <1>1, ReceiversAssumption DEF QueueInv, TypeOK
<1>4. CreatedBefore'
  BY <1>1 DEF QueueInv, TypeOK, CreatedBefore
<1>5. OldestFirst'
  BY <1>1, <1>3 DEF QueueInv, TypeOK, CreatedBefore, OldestFirst
<1>6. Elements(msg_list') = Elements(msg_list) \cup {sent'}
  BY <1>3 DEF Elements
<1>7. sent' \notin freed
  BY <1>1 DEF QueueInv, CreatedBefore, TypeOK
<1>8. FreedStaysGone'
  BY <1>1, <1>6, <1>7 DEF QueueInv, FreedStaysGone
<1> QED
  BY <1>2, <1>4, <1>5, <1>8 DEF QueueInv

(* The oldest message leaves, and is now the one taken last. *)
LEMMA TakeKeepsQueue == ASSUME QueueInv, NEW t \in Receivers, Take(t) PROVE QueueInv'
<1> DEFINE n == Len(msg_list)
<1>1. /\ n \in Nat \ {0} /\ Len(msg_list') = n - 1
      /\ \A i \in 1..(n - 1) : msg_list'[i] = msg_list[i + 1]
      /\ got' = msg_list[1] /\ got' \in 1..MaxMsgs
      /\ \A i \in 1..n : msg_list[i] \in 1..MaxMsgs
  BY ReceiversAssumption DEF QueueInv, TypeOK, Take
<1>2. TypeOK'
  BY <1>1, ReceiversAssumption DEF QueueInv, TypeOK, Take, Places
<1>3. CreatedBefore'
  BY <1>1 DEF QueueInv, CreatedBefore, OldestFirst, Take, TypeOK
<1>4. OldestFirst'
  BY <1>1 DEF QueueInv, OldestFirst, Take, TypeOK
<1>5. Elements(msg_list') \cup {got'} \subseteq Elements(msg_list)
  BY <1>1 DEF Elements
<1>6. FreedStaysGone'
  BY <1>5 DEF QueueInv, FreedStaysGone, Take
<1> QED
  BY <1>2, <1>3, <1>4, <1>6 DEF QueueInv

(* Everything queued is freed: it was created before, and the message      *)
(* taken last is older.                                                    *)
LEMMA EmptyingKeepsQueue ==
    ASSUME QueueInv,
           freed' = freed \cup Elements(msg_list), msg_list' = <<>>,
           exists' \in BOOLEAN, unblocked' \in BOOLEAN,
           pc' \in [Receivers -> Places], UNCHANGED <<sent, got>>
    PROVE  QueueInv'
<1>1. /\ Elements(msg_list) \subseteq 1..sent
      /\ got \notin Elements(msg_list)
      /\ sent \in 0..MaxMsgs
  BY ReceiversAssumption DEF QueueInv, TypeOK, OldestFirst, Elements
<1>2. TypeOK'
  <2>1. msg_list' \in Seq(1..MaxMsgs)
    BY EmptyQueue
  <2>2. freed' \subseteq 1..MaxMsgs
    <3>1. 1..sent \subseteq 1..MaxMsgs
      BY <1>1, ReceiversAssumption
    <3> QED
      BY <1>1, <3>1 DEF QueueInv, TypeOK
  <2> QED
    BY <2>1, <2>2 DEF QueueInv, TypeOK
<1>3. CreatedBefore'
  BY <1>1 DEF QueueInv, CreatedBefore
<1>4. OldestFirst'
  BY EmptyQueue DEF OldestFirst
<1>5. FreedStaysGone'
  BY <1>1, EmptyQueue DEF QueueInv, FreedStaysGone
<1> QED
  BY <1>2, <1>3, <1>4, <1>5 DEF QueueInv

(* Steps of the threads alone do not touch the queue. *)
LEMMA ThreadsKeepQueue ==
    ASSUME QueueInv, pc' \in [Receivers -> Places], exists' \in BOOLEAN, unblocked' \in BOOLEAN,
           UNCHANGED <<msg_list, sent, got, freed>>
    PROVE  QueueInv'
BY DEF QueueInv, TypeOK, CreatedBefore, OldestFirst, FreedStaysGone

(* Every step of a sender, a receiver or the owner keeps the queue in order. *)
LEMMA QueueStep == QueueInv /\ [Next]_vars => QueueInv'
<1> SUFFICES ASSUME QueueInv, [Next]_vars PROVE QueueInv'
  OBVIOUS
<1>t. TypeOK
  BY DEF QueueInv
<1>1. CASE msg_q_snd
  BY <1>1, SndKeepsQueue
<1>2. CASE SndOutOfMemory
  BY <1>2, <1>t, SignalType, ThreadsKeepQueue DEF SndOutOfMemory, TypeOK
<1>3. ASSUME NEW t \in Receivers, msg_q_rcv(t) \/ RcvWakes(t) \/ SpuriousWakeup(t)
      PROVE  QueueInv'
  <2>1. CASE Take(t)
    BY <2>1, TakeKeepsQueue
  <2>2. CASE Stop(t) \/ Wait(t) \/ SpuriousWakeup(t)
    BY <2>2, <1>t, ThreadsKeepQueue DEF Stop, Wait, SpuriousWakeup, TypeOK, Places
  <2> QED
    BY <1>3, <2>1, <2>2 DEF msg_q_rcv, RcvWakes
<1>4. CASE msg_q_flush
  BY <1>4, <1>t, EmptyingKeepsQueue DEF msg_q_flush, TypeOK
<1>5. CASE msg_q_unblock
  <2>1. pc' \in [Receivers -> Places]
    BY <1>5, <1>t DEF msg_q_unblock, pthread_cond_broadcast, TypeOK, Places
  <2> QED
    BY <1>5, <1>t, <2>1, ThreadsKeepQueue DEF msg_q_unblock, TypeOK
<1>6. CASE msg_q_destroy
  BY <1>6, <1>t, EmptyingKeepsQueue DEF msg_q_destroy, TypeOK
<1>7. CASE msg_q_init
  <2>1. pc' \in [Receivers -> Places]
    BY <1>7 DEF msg_q_init, Places
  <2>2. TypeOK'
    BY <1>7, <1>t, <2>1, EmptyQueue DEF msg_q_init, TypeOK
  <2> QED
    BY <1>7, <2>2, EmptyQueue DEF msg_q_init, QueueInv, CreatedBefore, OldestFirst, FreedStaysGone, Elements
<1>8. CASE UNCHANGED vars
  BY <1>8, <1>t, ThreadsKeepQueue DEF vars, TypeOK
<1> QED
  BY <1>1, <1>2, <1>3, <1>4, <1>5, <1>6, <1>7, <1>8 DEF Next

-----------------------------------------------------------------------------
(* Waking up *)

(* A signal wakes one of the threads that wait, if there are any. *)
LEMMA SignalWakes ==
    ASSUME TypeOK, WakeInv, pthread_cond_signal,
           NEW n \in Nat, Waiting # {} => n <= Cardinality(Woken)
    PROVE  /\ Waiting' \subseteq Waiting
           /\ Waiting' # {} => n + 1 <= Cardinality(Woken')
<1>1. CASE Waiting = {} /\ pc' = pc
  BY <1>1 DEF Waiting
<1>2. CASE \E t \in Waiting : pc' = [pc EXCEPT ![t] = "woken"]
  <2>1. PICK t \in Waiting : pc' = [pc EXCEPT ![t] = "woken"]
    BY <1>2
  <2>2. Waiting' \subseteq Waiting
    BY <2>1 DEF Waiting, TypeOK
  <2>3. Cardinality(Woken') = Cardinality(Woken) + 1
    BY <2>1, OneMoreWoken
  <2> QED
    BY <2>1, <2>2, <2>3, ThreadSets
<1> QED
  BY <1>1, <1>2 DEF pthread_cond_signal

(* If nothing is queued no message lacks a waker. *)
LEMMA EmptyNeedsNoWaker ==
    ASSUME TypeOK', msg_list' = <<>>, unblocked' => Waiting' = {}
    PROVE  WakeInv'
<1>1. Cardinality(Woken') \in Nat
  <2>1. Woken' \subseteq Receivers
    BY DEF Woken
  <2> QED
    BY <2>1, ReceiversAssumption, FS_Subset, FS_CardinalityType
<1>2. Len(msg_list') <= Cardinality(Woken')
  BY <1>1, EmptyQueue
<1> QED
  BY <1>2 DEF WakeInv, UnblockedNobodyWaits, EveryMessageHasAWaker

(* Every step leaves a waker for each message that somebody could wait for. *)
LEMMA WakeStep == QueueInv /\ QueueInv' /\ WakeInv /\ [Next]_vars => WakeInv'
<1> SUFFICES ASSUME QueueInv, QueueInv', WakeInv, [Next]_vars PROVE WakeInv'
  OBVIOUS
<1>t. TypeOK /\ TypeOK' /\ Len(msg_list) \in Nat
  BY DEF QueueInv, TypeOK
<1>u. (unblocked => Waiting = {}) /\ (Waiting # {} => Len(msg_list) <= Cardinality(Woken))
  BY DEF WakeInv, UnblockedNobodyWaits, EveryMessageHasAWaker
<1>1. CASE msg_q_snd
  <2>1. Len(msg_list') = Len(msg_list) + 1 /\ unblocked' = unblocked /\ ~unblocked
    BY <1>1, ReceiversAssumption DEF msg_q_snd, QueueInv, TypeOK
  <2>2. Waiting' # {} => Len(msg_list) + 1 <= Cardinality(Woken')
    BY <1>1, <1>t, <1>u, SignalWakes DEF msg_q_snd
  <2> QED
    BY <2>1, <2>2 DEF WakeInv, UnblockedNobodyWaits, EveryMessageHasAWaker
<1>2. CASE SndOutOfMemory
  <2>1. msg_list' = msg_list /\ unblocked' = unblocked /\ ~unblocked
    BY <1>2 DEF SndOutOfMemory
  <2>2. Waiting' # {} => Len(msg_list) + 1 <= Cardinality(Woken')
    BY <1>2, <1>t, <1>u, SignalWakes DEF SndOutOfMemory
  <2>3. Cardinality(Woken') \in Nat
    BY <1>t, ReceiversAssumption, FS_Subset, FS_CardinalityType DEF Woken
  <2> QED
    BY <1>t, <2>1, <2>2, <2>3 DEF WakeInv, UnblockedNobodyWaits, EveryMessageHasAWaker
<1>3. ASSUME NEW t \in Receivers, msg_q_rcv(t) \/ RcvWakes(t) \/ SpuriousWakeup(t)
      PROVE  WakeInv'
  <2>1. CASE pc[t] = "idle" /\ Take(t)
    <3>1. Woken' = Woken /\ Waiting' = Waiting /\ unblocked' = unblocked
      BY <2>1, <1>t DEF Take, Woken, Waiting, TypeOK
    <3>2. Len(msg_list') = Len(msg_list) - 1
      BY <2>1, <1>t DEF Take, TypeOK
    <3> QED
      BY <1>t, <1>u, <3>1, <3>2, ThreadSets DEF WakeInv, UnblockedNobodyWaits, EveryMessageHasAWaker
  <2>2. CASE pc[t] = "woken" /\ Take(t)
    <3>1. Waiting' = Waiting /\ unblocked' = unblocked
      BY <2>2, <1>t DEF Take, Waiting, TypeOK
    <3>2. Len(msg_list') = Len(msg_list) - 1
      BY <2>2, <1>t DEF Take, TypeOK
    <3>3. Cardinality(Woken') = Cardinality(Woken) - 1
      BY <2>2, <1>t, OneLessWoken DEF Take, Woken, Places
    <3> QED
      BY <1>t, <1>u, <3>1, <3>2, <3>3, ThreadSets DEF WakeInv, UnblockedNobodyWaits, EveryMessageHasAWaker
  <2>3. CASE Wait(t)
    BY <2>3, <1>t, EmptyNeedsNoWaker DEF Wait
  <2>4. CASE unblocked /\ Stop(t)
    <3>1. Waiting' = {}
      BY <2>4, <1>t, <1>u DEF Stop, Waiting, TypeOK
    <3> QED
      BY <3>1 DEF WakeInv, UnblockedNobodyWaits, EveryMessageHasAWaker
  <2>5. CASE SpuriousWakeup(t)
    <3>1. t \in Waiting /\ pc' = [pc EXCEPT ![t] = "woken"] /\ msg_list' = msg_list /\ unblocked' = unblocked
      BY <2>5 DEF SpuriousWakeup, Waiting
    <3>2. Waiting' \subseteq Waiting
      BY <3>1, <1>t DEF Waiting, TypeOK
    <3>3. Cardinality(Woken') = Cardinality(Woken) + 1
      BY <3>1, <1>t, OneMoreWoken
    <3> QED
      BY <1>t, <1>u, <3>1, <3>2, <3>3, ThreadSets DEF WakeInv, UnblockedNobodyWaits, EveryMessageHasAWaker
  <2> QED
    BY <1>3, <2>1, <2>2, <2>3, <2>4, <2>5 DEF msg_q_rcv, RcvWakes
<1>4. CASE msg_q_flush
  <2>1. msg_list' = <<>> /\ unblocked' = unblocked /\ pc' = pc
    BY <1>4 DEF msg_q_flush
  <2> QED
    BY <2>1, <1>t, <1>u, EmptyNeedsNoWaker DEF Waiting
<1>5. CASE msg_q_unblock
  <2>1. Waiting' = {}
    BY <1>5 DEF msg_q_unblock, pthread_cond_broadcast, Waiting
  <2> QED
    BY <2>1 DEF WakeInv, UnblockedNobodyWaits, EveryMessageHasAWaker
<1>6. CASE msg_q_destroy \/ msg_q_init
  BY <1>6, <1>t, EmptyNeedsNoWaker DEF msg_q_destroy, msg_q_init
<1>7. CASE UNCHANGED vars
  BY <1>7 DEF vars, WakeInv, UnblockedNobodyWaits, EveryMessageHasAWaker, Waiting, Woken
<1> QED
  BY <1>1, <1>2, <1>3, <1>4, <1>5, <1>6, <1>7 DEF Next

(* At first nobody waits. *)
LEMMA WakeInit == Init => WakeInv
BY DEF Init, WakeInv, UnblockedNobodyWaits, EveryMessageHasAWaker, Waiting

-----------------------------------------------------------------------------

(* The whole induction *)
LEMMA Invariants == Spec => [](QueueInv /\ WakeInv)
BY QueueInit, QueueStep, WakeInit, WakeStep, PTL DEF Spec

(* The queue holds numbered messages, and every thread is in one place. *)
THEOREM TypeCorrect == Spec => []TypeOK
BY Invariants, PTL DEF QueueInv

(* msg_q_rcv hands out the oldest message, with any number of senders and  *)
(* receivers.                                                              *)
THEOREM TakenInOrder == Spec => []OldestFirst
BY Invariants, PTL DEF QueueInv

(* A message freed by msg_q_flush or msg_q_destroy is never handed out. *)
THEOREM FreedIsGone == Spec => []FreedStaysGone
BY Invariants, PTL DEF QueueInv

(* Once msg_q_unblock ran no receiver waits on the condition. *)
THEOREM UnblockedIsAwake == Spec => []UnblockedNobodyWaits
BY Invariants, PTL DEF WakeInv

(* The signal of msg_q_snd is never lost, with any number of receivers and *)
(* spurious wakeups.                                                       *)
THEOREM NoLostWakeup == Spec => []EveryMessageHasAWaker
BY Invariants, PTL DEF WakeInv
=============================================================================
