-------------------------------- MODULE MsgQ --------------------------------
(***************************************************************************)
(* The message queue of gps/utils/msg_q.c: a linked list guarded by        *)
(* list_mutex, with list_cond to wait for data.  Every call holds the      *)
(* mutex from its first to its last access of the queue, except while      *)
(* msg_q_rcv waits on the condition: each critical section is one step,    *)
(* and a receiver is "waiting" on the condition, or "woken" and about to   *)
(* re-acquire the mutex.                                                   *)
(*                                                                         *)
(* The list is the sequence of its elements from p_tail to p_head (see     *)
(* LinkedList): linked_list_add appends, linked_list_remove takes the      *)
(* first.  Messages are numbered in the order in which they are sent.      *)
(***************************************************************************)
EXTENDS Naturals, Sequences, FiniteSets

CONSTANTS
    Receivers,      \* threads that call msg_q_rcv in a loop
    MaxMsgs         \* bound: messages sent in a behaviour

ASSUME ReceiversAssumption ==
    /\ IsFiniteSet(Receivers)
    /\ MaxMsgs \in Nat

VARIABLES
    exists,         \* the handle is not NULL: between init and destroy
    msg_list,       \* the queued messages, oldest first
    unblocked,      \* the queue's unblocked flag
    pc,             \* where each receiver is
    sent,           \* history: number of messages created so far
    got,            \* history: the last message a receiver took, 0 if none
    freed           \* history: messages deallocated by flush or destroy

vars == <<exists, msg_list, unblocked, pc, sent, got, freed>>

Places == {"idle", "waiting", "woken", "stopped"}
Waiting == {t \in Receivers : pc[t] = "waiting"}
Woken == {t \in Receivers : pc[t] = "woken"}
Elements(q) == {q[i] : i \in 1..Len(q)}

TypeOK ==
    /\ exists \in BOOLEAN
    /\ msg_list \in Seq(1..MaxMsgs)
    /\ unblocked \in BOOLEAN
    /\ pc \in [Receivers -> Places]
    /\ sent \in 0..MaxMsgs
    /\ got \in 0..MaxMsgs
    /\ freed \subseteq 1..MaxMsgs

Init ==
    /\ exists = TRUE
    /\ msg_list = <<>>
    /\ unblocked = FALSE
    /\ pc = [t \in Receivers |-> "idle"]
    /\ sent = 0
    /\ got = 0
    /\ freed = {}

-----------------------------------------------------------------------------
(* Condition variable *)

pthread_cond_signal ==
    \/ Waiting = {} /\ pc' = pc
    \/ \E t \in Waiting : pc' = [pc EXCEPT ![t] = "woken"]

pthread_cond_broadcast ==
    pc' = [t \in Receivers |-> IF pc[t] = "waiting" THEN "woken" ELSE pc[t]]

(* A waiter may wake up although nobody signalled. *)
SpuriousWakeup(t) ==
    /\ pc[t] = "waiting"
    /\ pc' = [pc EXCEPT ![t] = "woken"]
    /\ UNCHANGED <<exists, msg_list, unblocked, sent, got, freed>>

-----------------------------------------------------------------------------
(* Senders *)

SndSignalsOnlyIfEmpty ==
    /\ exists /\ ~unblocked /\ sent < MaxMsgs
    /\ sent' = sent + 1
    /\ msg_list' = Append(msg_list, sent')
    /\ IF msg_list = <<>> THEN pthread_cond_signal ELSE pc' = pc
    /\ UNCHANGED <<exists, unblocked, got, freed>>

SndAtWrongEnd ==
    /\ exists /\ ~unblocked /\ sent < MaxMsgs
    /\ sent' = sent + 1
    /\ msg_list' = <<sent'>> \o msg_list
    /\ pthread_cond_signal
    /\ UNCHANGED <<exists, unblocked, got, freed>>

(* msg_q_snd; an unblocked queue or a NULL handle refuses the message, *)
(* which stays with the caller. *)
msg_q_snd ==
    /\ exists /\ ~unblocked /\ sent < MaxMsgs
    /\ sent' = sent + 1
    /\ msg_list' = Append(msg_list, sent')
    /\ pthread_cond_signal
    /\ UNCHANGED <<exists, unblocked, got, freed>>

(* The list element could not be allocated: nothing is queued, but the *)
(* condition is signalled all the same. *)
SndOutOfMemory ==
    /\ exists /\ ~unblocked
    /\ pthread_cond_signal
    /\ UNCHANGED <<exists, msg_list, unblocked, sent, got, freed>>

-----------------------------------------------------------------------------
(* Receivers: the deferred thread calls msg_q_rcv again after each message *)
(* and ends when it fails.                                                 *)

Take(t) ==
    /\ msg_list # <<>>
    /\ got' = Head(msg_list)
    /\ msg_list' = Tail(msg_list)
    /\ pc' = [pc EXCEPT ![t] = "idle"]
    /\ UNCHANGED <<exists, unblocked, sent, freed>>

Stop(t) ==
    /\ pc' = [pc EXCEPT ![t] = "stopped"]
    /\ UNCHANGED <<exists, msg_list, unblocked, sent, got, freed>>

Wait(t) ==
    /\ msg_list = <<>> /\ ~unblocked
    /\ pc' = [pc EXCEPT ![t] = "waiting"]
    /\ UNCHANGED <<exists, msg_list, unblocked, sent, got, freed>>

(* msg_q_rcv up to its first wait *)
msg_q_rcv(t) ==
    /\ pc[t] = "idle" /\ exists
    /\ \/ unblocked /\ Stop(t)
       \/ ~unblocked /\ Take(t)
       \/ Wait(t)

WakesWithoutLoop(t) ==
    /\ pc[t] = "woken"
    /\ \/ Take(t)
       \/ msg_list = <<>> /\ Stop(t)

WakesIgnoringUnblock(t) ==
    /\ pc[t] = "woken"
    /\ \/ Take(t)
       \/ /\ msg_list = <<>>
          /\ pc' = [pc EXCEPT ![t] = "waiting"]
          /\ UNCHANGED <<exists, msg_list, unblocked, sent, got, freed>>

(* ... and from each return of pthread_cond_wait on *)
RcvWakes(t) ==
    /\ pc[t] = "woken"
    /\ \/ Take(t)
       \/ Wait(t)
       \/ msg_list = <<>> /\ unblocked /\ Stop(t)

-----------------------------------------------------------------------------
(* Flush, unblock, destroy and init *)

FlushKeepsList ==
    /\ exists
    /\ freed' = freed \cup Elements(msg_list)
    /\ UNCHANGED <<exists, msg_list, unblocked, pc, sent, got>>

msg_q_flush ==
    /\ exists
    /\ freed' = freed \cup Elements(msg_list)
    /\ msg_list' = <<>>
    /\ UNCHANGED <<exists, unblocked, pc, sent, got>>

UnblockSignalsOne ==
    /\ exists /\ ~unblocked
    /\ unblocked' = TRUE
    /\ pthread_cond_signal
    /\ UNCHANGED <<exists, msg_list, sent, got, freed>>

msg_q_unblock ==
    /\ exists /\ ~unblocked
    /\ unblocked' = TRUE
    /\ pthread_cond_broadcast
    /\ UNCHANGED <<exists, msg_list, sent, got, freed>>

(* msg_q_destroy takes no lock: the caller makes sure that no receiver is  *)
(* inside msg_q_rcv, as LocEngContext::drop does by waiting for the thread *)
(* to quit.                                                                *)
msg_q_destroy ==
    /\ exists
    /\ \A t \in Receivers : pc[t] = "stopped"
    /\ exists' = FALSE
    /\ unblocked' = FALSE
    /\ freed' = freed \cup Elements(msg_list)
    /\ msg_list' = <<>>
    /\ UNCHANGED <<pc, sent, got>>

(* A new queue, with its new receiver threads *)
msg_q_init ==
    /\ ~exists
    /\ exists' = TRUE
    /\ unblocked' = FALSE
    /\ msg_list' = <<>>
    /\ pc' = [t \in Receivers |-> "idle"]
    /\ UNCHANGED <<sent, got, freed>>

-----------------------------------------------------------------------------

Next ==
    \/ msg_q_snd \/ SndOutOfMemory
    \/ \E t \in Receivers : msg_q_rcv(t) \/ RcvWakes(t) \/ SpuriousWakeup(t)
    \/ msg_q_flush \/ msg_q_unblock \/ msg_q_destroy \/ msg_q_init

(* A receiver thread keeps running: it calls msg_q_rcv again, and gets the *)
(* mutex after it was woken.                                               *)
Fairness == \A t \in Receivers : WF_vars(msg_q_rcv(t)) /\ WF_vars(RcvWakes(t))

Spec == Init /\ [][Next]_vars
FairSpec == Spec /\ Fairness

-----------------------------------------------------------------------------
(* Properties *)

(* No wakeup is lost: while somebody waits, every queued message has a     *)
(* woken receiver of its own on the way to the mutex.                      *)
EveryMessageHasAWaker ==
    Waiting # {} => Len(msg_list) <= Cardinality(Woken)

(* After msg_q_unblock nobody waits any more, and nobody starts to. *)
UnblockedNobodyWaits == unblocked => Waiting = {}

(* msg_q.h: a receiver gets "the oldest message received".  The queue is   *)
(* in sending order and everything in it was sent after what was taken.    *)
OldestFirst ==
    /\ \A i, j \in 1..Len(msg_list) : i < j => msg_list[i] < msg_list[j]
    /\ \A i \in 1..Len(msg_list) : got < msg_list[i] /\ msg_list[i] <= sent

(* A message is handed to a receiver or deallocated, never both: nothing   *)
(* that was freed is in the queue or was the message taken last.           *)
FreedStaysGone == freed \cap (Elements(msg_list) \cup {got}) = {}

(* Every message of a queue that is not shut down is taken (or flushed). *)
EveryMessageTaken ==
    \A m \in 1..MaxMsgs : m \in Elements(msg_list) ~> (m \notin Elements(msg_list) \/ unblocked)

(* msg_q.h on msg_q_unblock: "All waiters will wake up" - and return. *)
UnblockReleasesWaiters == unblocked ~> (Waiting \cup Woken = {})
=============================================================================
