---------------------------- MODULE DmnConnProofs ----------------------------
(***************************************************************************)
(* Safety of the daemon connection from end to end, for pipes of any size, *)
(* any number of requests and modem restarts, and any pipe that fails.     *)
(*                                                                         *)
(* The end-to-end properties compare what a daemon believes with what its  *)
(* machine has it down for.  Between the two are messages on the server    *)
(* pipe and the deferred queue, and answers on the daemon's own pipe.  The *)
(* invariant describes the messages of one sender in flight as a word of   *)
(* requests and releases, and Fits lists which words, which status and     *)
(* which answers go with which state of the sender.  What the machines do  *)
(* is taken from AgpsNifProofs, through the refinement proved here.        *)
(***************************************************************************)
EXTENDS DmnConn, SequenceTheorems, TLAPS

(* What a message asks for, what an answer says *)
Ids == {"REQUEST", "RELEASE"}
Results == {"REQUEST_SUCCESS", "RELEASE_SUCCESS", "FAILURE"}

(* The messages the senders write: a Wi-Fi sender names Wi-Fi, and the     *)
(* gpsOne daemon releases only what it may have got.                       *)
Messages ==
    {m \in [id : Ids, sender : Senders, type : {"WIFI", "SUPL", "OTHER"}] :
        /\ m.sender \in WifiSenders => m.type = "WIFI"
        /\ m.id = "RELEASE" /\ m.sender = "GPSONE_DAEMON" => m.type = "SUPL"}
SenderStates == {"idle", "asking", "granted", "releasing"}

(* Everything that was sent and that the deferred thread has not taken     *)
(* yet, the oldest message first                                           *)
Flight == deferred_q \o server_pipe

(* The word w is what sender s has in flight: p takes each letter of w to  *)
(* the message of s it stands for, in order, and misses none.              *)
Sent(q, s, w) ==
    \E p \in [1..Len(w) -> 1..Len(q)] :
        /\ \A j, k \in 1..Len(w) : j < k => p[j] < p[k]
        /\ \A k \in 1..Len(w) : q[p[k]].sender = s /\ q[p[k]].id = w[k]
        /\ \A i \in 1..Len(q) : q[i].sender = s => \E k \in 1..Len(w) : p[k] = i

(* What a sender may have in flight. A release stays in front of the next  *)
(* request when the connection was lost before the release was handled.    *)
Words == {<<>>, <<"REQUEST">>, <<"RELEASE">>, <<"REQUEST", "RELEASE">>, <<"RELEASE", "REQUEST">>,
          <<"RELEASE", "REQUEST", "RELEASE">>}

(* The answers that end a request, alone or behind its grant *)
Over == {<<"FAILURE">>, <<"RELEASE_SUCCESS">>, <<"REQUEST_SUCCESS", "RELEASE_SUCCESS">>,
         <<"REQUEST_SUCCESS", "FAILURE">>}

(* The state a sender believes in, what the machine has it down for, the   *)
(* sender's word in flight and the answers it has still to read: which of  *)
(* the four go together. The last case is the end of a request whose       *)
(* answer is not read yet.                                                 *)
Fits(st, c, w, a) ==
    \/ /\ c = "none" /\ a = <<>>
       /\ \/ st = "idle" /\ w \in {<<>>, <<"RELEASE">>}
          \/ st = "asking" /\ w \in {<<"REQUEST">>, <<"RELEASE", "REQUEST">>}
          \/ /\ st = "releasing"
             /\ w \in {<<"REQUEST", "RELEASE">>, <<"RELEASE", "REQUEST", "RELEASE">>}
    \/ /\ c = "waiting" /\ a = <<>>
       /\ \/ st = "asking" /\ w = <<>>
          \/ st = "releasing" /\ w = <<"RELEASE">>
    \/ /\ c = "granted"
       /\ \/ st = "asking" /\ w = <<>> /\ a = <<"REQUEST_SUCCESS">>
          \/ st = "granted" /\ w = <<>> /\ a = <<>>
          \/ st = "releasing" /\ w = <<"RELEASE">> /\ a \in {<<>>, <<"REQUEST_SUCCESS">>}
    \/ /\ c = "closing" /\ st = "releasing" /\ w = <<>> /\ a \in {<<>>, <<"REQUEST_SUCCESS">>}
    \/ /\ c = "none"
       /\ \/ /\ st = "asking" /\ w = <<>>
             /\ a \in {<<"FAILURE">>, <<"REQUEST_SUCCESS", "RELEASE_SUCCESS">>}
          \/ st = "granted" /\ w = <<>> /\ a = <<"RELEASE_SUCCESS">>
          \/ st = "releasing" /\ w \in {<<>>, <<"RELEASE">>} /\ a \in Over

(* A sender whose word, status and answers fit its state *)
Good(s) == \E w \in Words : Sent(Flight, s, w) /\ Fits(sender[s], Status(s), w, Answers(s))

(* The types of the pipes and queues; the deferred thread has at most one  *)
(* answer to write.                                                        *)
PipesTyped ==
    /\ server \in {"none", "init", "loop", "exited"}
    /\ fds \subseteq Pipes
    /\ server_pipe \in Seq(Messages) /\ deferred_q \in Seq(Messages)
    /\ resp_pipe \in [Senders -> Seq(Results)]
    /\ writing = <<>> \/ \E s \in Senders, r \in Results : writing = << <<s, r>> >>
    /\ sender \in [Senders -> SenderStates]

(* Every sender that was not dropped is in order. A sender whose pipe is   *)
(* closed cannot be: its answers are lost.                                 *)
SenderInv == \A s \in (Senders \cap fds) \ lost : Good(s)

(* A sender that was dropped hears no more: the machine does not know it   *)
(* and at most an old grant is still on its pipe.                          *)
Unanswered(st, c, a) ==
    /\ st # "idle" /\ c \in {"none", "dropped"}
    /\ a = <<>> \/ (st # "granted" /\ a = <<"REQUEST_SUCCESS">>)

(* The requests of the gpsOne daemon in flight are of type SUPL if it is   *)
(* served, and of a type that is only logged if it is not.                 *)
Logged(q, gone) ==
    \A i \in 1..Len(q) :
        q[i].sender = "GPSONE_DAEMON" /\ q[i].id = "REQUEST" =>
            (q[i].type = "SUPL" <=> "GPSONE_DAEMON" \notin gone)

(* Only the gpsOne daemon is dropped: by a modem restart, or because its   *)
(* request is of a type that is only logged.                               *)
LostInv ==
    /\ lost \subseteq {"GPSONE_DAEMON"}
    /\ \A s \in lost \cap fds :
           Unanswered(sender[s], Status(s), Answers(s))
    /\ "GPSONE_DAEMON" \in fds => Logged(Flight, lost)

(* Before the server thread opened the pipes nothing was sent. *)
FreshInv ==
    /\ launch = "idle" => server = "none"
    /\ server \in {"none", "init"} =>
          /\ fds = {} /\ lost = {}
          /\ server_pipe = <<>> /\ deferred_q = <<>> /\ writing = <<>>
          /\ \A s \in Senders : resp_pipe[s] = <<>> /\ sender[s] = "idle" /\ Status(s) = "none"

(* The two machines, with what is proved of every machine *)
W == INSTANCE AgpsNifProofs
    WITH Subscribers <- WifiSenders, WaitForClose <- WifiSenders, EnforceSingle <- TRUE,
         DroppedOnRestart <- FALSE, MaxRequests <- 2, MaxReplies <- 2,
         mStatePtr <- wifi_state, mSubscribers <- wifi_subs, inactive <- wifi_inactive,
         servicer <- wifi_servicer, client <- wifi_client, deferred_q <- wifi_replies,
         nif <- wifi_if

B == INSTANCE AgpsNifProofs
    WITH Subscribers <- {"GPSONE_DAEMON"}, WaitForClose <- {}, EnforceSingle <- FALSE,
         DroppedOnRestart <- TRUE, MaxRequests <- 2, MaxReplies <- 2,
         mStatePtr <- agnss_state, mSubscribers <- agnss_subs, inactive <- agnss_inactive,
         servicer <- agnss_servicer, client <- agnss_client, deferred_q <- agnss_replies,
         nif <- agnss_if

(* The inductive invariant *)
DmnInv ==
    /\ PipesTyped
    /\ W!MachineInv /\ B!MachineInv
    /\ SenderInv
    /\ LostInv
    /\ FreshInv

(* The changes of a client's status a reply of the framework may bring,    *)
(* and the answer that goes with each                                      *)
Tells(c, d, r) ==
    \/ c = "waiting" /\ d = "granted" /\ r = "REQUEST_SUCCESS"
    \/ c = "waiting" /\ d = "none" /\ r = "FAILURE"
    \/ c \in {"granted", "closing"} /\ d = "none" /\ r = "RELEASE_SUCCESS"
    \/ c = "closing" /\ d = "none" /\ r = "FAILURE"
    \/ c = "denied" /\ d = "granted" /\ r = "REQUEST_SUCCESS"
    \/ c = "denied" /\ d = "none" /\ r \in {"FAILURE", "RELEASE_SUCCESS"}

-----------------------------------------------------------------------------
(* Words in flight *)

(* A message of somebody else at the end or in front leaves the word of a  *)
(* sender as it is; a message of its own extends or shortens it.           *)
LEMMA SentAppend ==
  ASSUME NEW S, NEW q \in Seq(S), NEW m \in S, NEW s, NEW w \in Seq(Ids), Sent(q, s, w),
         m.id \in Ids
  PROVE  Sent(Append(q, m), s, IF m.sender = s THEN Append(w, m.id) ELSE w)
  <1> DEFINE L == Len(q)
             r == Append(q, m)
  <1>q. L \in Nat /\ Len(r) = L + 1 /\ r[L + 1] = m /\ \A i \in 1..L : r[i] = q[i]
    OBVIOUS
  <1> HIDE DEF L, r
  <1> PICK p \in [1..Len(w) -> 1..L] :
        /\ \A j, k \in 1..Len(w) : j < k => p[j] < p[k]
        /\ \A k \in 1..Len(w) : q[p[k]].sender = s /\ q[p[k]].id = w[k]
        /\ \A i \in 1..L : q[i].sender = s => \E k \in 1..Len(w) : p[k] = i
    BY DEF Sent, L
  <1>1. CASE m.sender # s
    <2>1. p \in [1..Len(w) -> 1..Len(r)]
      BY <1>q
    <2>2. \A k \in 1..Len(w) : r[p[k]].sender = s /\ r[p[k]].id = w[k]
      BY <1>q
    <2>3. \A i \in 1..Len(r) : r[i].sender = s => \E k \in 1..Len(w) : p[k] = i
      <3> TAKE i \in 1..Len(r)
      <3> HAVE r[i].sender = s
      <3>1. i \in 1..L
        BY <1>1, <1>q
      <3> QED
        BY <3>1, <1>q
    <2>4. Sent(r, s, w)
      BY <2>1, <2>2, <2>3 DEF Sent
    <2> QED
      BY <1>1, <2>4 DEF r
  <1>2. CASE m.sender = s
    <2> DEFINE n == Len(w)
               v == Append(w, m.id)
               N == Len(v)
               u == [k \in 1..N |-> IF k = N THEN L + 1 ELSE p[k]]
    <2>w. n \in Nat /\ N = n + 1 /\ v[N] = m.id /\ \A k \in 1..n : v[k] = w[k]
      OBVIOUS
    <2>u. u[N] = L + 1 /\ \A k \in 1..n : u[k] = p[k] /\ p[k] \in 1..L
      BY <2>w
    <2>1. u \in [1..N -> 1..Len(r)]
      BY <2>w, <1>q
    <2> HIDE DEF n, v, u, N
    <2>2. \A j, k \in 1..N : j < k => u[j] < u[k]
      <3> TAKE j, k \in 1..N
      <3> HAVE j < k
      <3>1. CASE k = N
        BY <3>1, <2>u, <2>w, <1>q
      <3>2. CASE k # N
        <4>1. j \in 1..n /\ k \in 1..n
          BY <3>2, <2>w
        <4> QED
          BY <4>1, <2>u DEF n
      <3> QED
        BY <3>1, <3>2
    <2>3. \A k \in 1..N : r[u[k]].sender = s /\ r[u[k]].id = v[k]
      <3> TAKE k \in 1..N
      <3>1. CASE k = N
        BY <3>1, <2>u, <2>w, <1>q, <1>2
      <3>2. CASE k # N
        <4>1. k \in 1..n
          BY <3>2, <2>w
        <4> QED
          BY <4>1, <2>u, <2>w, <1>q DEF n
      <3> QED
        BY <3>1, <3>2
    <2>4. \A i \in 1..Len(r) : r[i].sender = s => \E k \in 1..N : u[k] = i
      <3> TAKE i \in 1..Len(r)
      <3> HAVE r[i].sender = s
      <3>1. CASE i = L + 1
        <4>1. N \in 1..N
          BY <2>w
        <4> QED
          BY <3>1, <4>1, <2>u
      <3>2. CASE i \in 1..L
        <4>1. PICK k \in 1..n : p[k] = i
          BY <3>2, <1>q DEF n
        <4>2. k \in 1..N /\ u[k] = i
          BY <4>1, <2>u, <2>w
        <4> QED
          BY <4>2
      <3> QED
        BY <3>1, <3>2, <1>q
    <2>5. Sent(r, s, v)
      BY <2>1, <2>2, <2>3, <2>4 DEF Sent, N
    <2> QED
      BY <1>2, <2>5 DEF r, v
  <1> QED
    BY <1>1, <1>2

(* The next message: its sender's word begins with it. *)
LEMMA SentTail ==
  ASSUME NEW S, NEW q \in Seq(S), q # <<>>, NEW s, NEW w \in Seq(Ids), Sent(q, s, w)
  PROVE  /\ Head(q).sender = s => /\ w # <<>> /\ Head(w) = Head(q).id
                                  /\ Sent(Tail(q), s, Tail(w))
         /\ Head(q).sender # s => Sent(Tail(q), s, w)
  <1> DEFINE L == Len(q)
             r == Tail(q)
             n == Len(w)
  <1>q. /\ L \in Nat /\ L >= 1 /\ Len(r) = L - 1 /\ q[1] = Head(q)
        /\ \A i \in 1..(L - 1) : r[i] = q[i + 1]
    OBVIOUS
  <1>n. n \in Nat
    OBVIOUS
  <1> HIDE DEF L, r, n
  <1> PICK p \in [1..n -> 1..L] :
        /\ \A j, k \in 1..n : j < k => p[j] < p[k]
        /\ \A k \in 1..n : q[p[k]].sender = s /\ q[p[k]].id = w[k]
        /\ \A i \in 1..L : q[i].sender = s => \E k \in 1..n : p[k] = i
    BY DEF Sent, L, n
  <1>1. ASSUME Head(q).sender # s PROVE Sent(r, s, w)
    <2> DEFINE u == [k \in 1..n |-> p[k] - 1]
    <2>1. \A k \in 1..n : p[k] # 1
      BY <1>1, <1>q
    <2>a. \A k \in 1..n : p[k] \in 2..L
      BY <2>1, <1>q
    <2>2. u \in [1..n -> 1..Len(r)] /\ \A k \in 1..n : u[k] = p[k] - 1
      BY <2>a, <1>q
    <2>b. \A k \in 1..n : u[k] \in 1..(L - 1) /\ u[k] + 1 = p[k]
      BY <2>a, <2>2, <1>q
    <2> HIDE DEF u
    <2>3. \A j, k \in 1..n : j < k => u[j] < u[k]
      BY <2>a, <2>2, <1>q, <1>n
    <2>4. \A k \in 1..n : r[u[k]].sender = s /\ r[u[k]].id = w[k]
      <3> TAKE k \in 1..n
      <3>1. u[k] \in 1..(L - 1) /\ u[k] + 1 = p[k]
        BY <2>b
      <3> QED
        BY <3>1, <1>q
    <2>5. \A i \in 1..Len(r) : r[i].sender = s => \E k \in 1..n : u[k] = i
      <3> TAKE i \in 1..Len(r)
      <3> HAVE r[i].sender = s
      <3>1. i + 1 \in 1..L /\ q[i + 1].sender = s
        BY <1>q
      <3>2. PICK k \in 1..n : p[k] = i + 1
        BY <3>1
      <3> QED
        BY <3>2, <2>2, <1>q
    <2> QED
      BY <2>2, <2>3, <2>4, <2>5 DEF Sent, n
  <1>2. ASSUME Head(q).sender = s PROVE w # <<>> /\ Head(w) = Head(q).id /\ Sent(r, s, Tail(w))
    <2> DEFINE v == Tail(w)
               N == Len(v)
               u == [k \in 1..N |-> p[k + 1] - 1]
    <2>1. PICK f \in 1..n : p[f] = 1
      BY <1>2, <1>q
    <2>2. f = 1
      <3>1. ASSUME 1 < f PROVE FALSE
        <4>1. 1 \in 1..n /\ p[1] < p[f]
          BY <3>1, <1>n
        <4> QED
          BY <4>1, <2>1, <1>q
      <3> QED
        BY <3>1, <1>n
    <2>3. n >= 1 /\ p[1] = 1
      BY <2>1, <2>2, <1>n
    <2>4. w # <<>> /\ Head(w) = w[1] /\ N = n - 1
          /\ \A k \in 1..N : Tail(w)[k] = w[k + 1]
      BY <2>3 DEF n
    <2>5. Head(w) = Head(q).id
      BY <2>3, <2>4, <1>q, <1>n
    <2>6. \A k \in 1..N : k + 1 \in 1..n /\ p[k + 1] \in 2..L
      <3> TAKE k \in 1..N
      <3>1. k + 1 \in 1..n /\ 1 \in 1..n /\ 1 < k + 1
        BY <1>n, <2>4
      <3>2. p[1] < p[k + 1]
        BY <3>1
      <3> QED
        BY <3>1, <3>2, <2>3, <1>q
    <2>7. u \in [1..N -> 1..Len(r)] /\ \A k \in 1..N : u[k] = p[k + 1] - 1
      BY <2>6, <1>q, <2>4
    <2> HIDE DEF u, v, N
    <2>8. \A j, k \in 1..N : j < k => u[j] < u[k]
      <3> TAKE j, k \in 1..N
      <3> HAVE j < k
      <3>1. p[j + 1] < p[k + 1]
        BY <2>6, <1>n, <2>4
      <3> QED
        BY <3>1, <2>6, <2>7, <1>q
    <2>9. \A k \in 1..N : r[u[k]].sender = s /\ r[u[k]].id = v[k]
      <3> TAKE k \in 1..N
      <3>1. u[k] \in 1..(L - 1) /\ u[k] + 1 = p[k + 1]
        BY <2>6, <2>7, <1>q
      <3>2. r[u[k]] = q[p[k + 1]] /\ v[k] = w[k + 1]
        BY <3>1, <1>q, <2>4 DEF v
      <3> QED
        BY <3>2, <2>6
    <2>10. \A i \in 1..Len(r) : r[i].sender = s => \E k \in 1..N : u[k] = i
      <3> TAKE i \in 1..Len(r)
      <3> HAVE r[i].sender = s
      <3>1. i \in 1..(L - 1) /\ i + 1 \in 1..L /\ q[i + 1].sender = s
        BY <1>q
      <3>2. PICK k \in 1..n : p[k] = i + 1
        BY <3>1
      <3>3. k # 1
        BY <3>1, <3>2, <2>3, <1>q
      <3>4. k - 1 \in 1..N /\ (k - 1) + 1 = k
        BY <3>3, <1>n, <2>4
      <3>5. u[k - 1] = i
        BY <3>1, <3>2, <3>4, <2>7, <1>q
      <3> QED
        BY <3>4, <3>5
    <2>12. Sent(r, s, v)
      BY <2>7, <2>8, <2>9, <2>10 DEF Sent, N
    <2> QED
      BY <2>4, <2>5, <2>12 DEF v
  <1> QED
    BY <1>1, <1>2 DEF r

(* A message of somebody else that is dropped between the two queues *)
LEMMA SentDrop ==
  ASSUME NEW S, NEW d \in Seq(S), NEW e \in Seq(S), e # <<>>, NEW s, Head(e).sender # s,
         NEW w \in Seq(Ids), Sent(d \o e, s, w)
  PROVE  Sent(d \o Tail(e), s, w)
  <1> DEFINE q == d \o e
             r == d \o Tail(e)
             L == Len(r)
             M == Len(d) + 1
             n == Len(w)
             K == Len(q)
  <1>q. /\ L \in Nat /\ K = L + 1 /\ M \in 1..K /\ n \in Nat
        /\ q[M].sender # s
        /\ \A i \in 1..L : r[i] = IF i < M THEN q[i] ELSE q[i + 1]
    OBVIOUS
  <1> HIDE DEF q, r, L, M, n, K
  <1> PICK p \in [1..n -> 1..K] :
        /\ \A j, k \in 1..n : j < k => p[j] < p[k]
        /\ \A k \in 1..n : q[p[k]].sender = s /\ q[p[k]].id = w[k]
        /\ \A i \in 1..K : q[i].sender = s => \E k \in 1..n : p[k] = i
    BY DEF Sent, q, n, K
  <1> DEFINE u == [k \in 1..n |-> IF p[k] < M THEN p[k] ELSE p[k] - 1]
  <1>1. \A k \in 1..n : p[k] # M /\ p[k] \in 1..K
    BY <1>q
  <1>2. u \in [1..n -> 1..L]
    BY <1>1, <1>q
  <1>3. \A k \in 1..n : u[k] = IF p[k] < M THEN p[k] ELSE p[k] - 1
    OBVIOUS
  <1> HIDE DEF u
  <1>4. \A j, k \in 1..n : j < k => u[j] < u[k]
    <2> TAKE j, k \in 1..n
    <2> HAVE j < k
    <2>1. p[j] < p[k]
      OBVIOUS
    <2>2. p[j] \in Int /\ p[k] \in Int /\ M \in Int /\ p[j] # M /\ p[k] # M
      BY <1>1, <1>q
    <2> QED
      BY <2>1, <2>2, <1>3
  <1>5. \A k \in 1..n : r[u[k]].sender = s /\ r[u[k]].id = w[k]
    <2> TAKE k \in 1..n
    <2>1. u[k] \in 1..L
      BY <1>2
    <2>2. CASE p[k] < M
      BY <2>1, <2>2, <1>3, <1>q
    <2>3. CASE ~(p[k] < M)
      <3>1. u[k] = p[k] - 1 /\ ~(u[k] < M) /\ u[k] + 1 = p[k]
        BY <2>3, <1>1, <1>3, <1>q
      <3> QED
        BY <3>1, <2>1, <1>q
    <2> QED
      BY <2>2, <2>3
  <1>6. \A i \in 1..L : r[i].sender = s => \E k \in 1..n : u[k] = i
    <2> TAKE i \in 1..L
    <2> HAVE r[i].sender = s
    <2>1. CASE i < M
      <3>1. i \in 1..K /\ q[i].sender = s
        BY <2>1, <1>q
      <3>2. PICK k \in 1..n : p[k] = i
        BY <3>1
      <3>3. u[k] = i
        BY <3>2, <2>1, <1>3
      <3> QED
        BY <3>3
    <2>2. CASE ~(i < M)
      <3>1. i + 1 \in 1..K /\ q[i + 1].sender = s
        BY <2>2, <1>q
      <3>2. PICK k \in 1..n : p[k] = i + 1
        BY <3>1
      <3>3. u[k] = i
        <4>1. i \in Int /\ M \in Int /\ ~(i + 1 < M)
          BY <2>2, <1>q
        <4> QED
          BY <3>2, <4>1, <1>3
      <3> QED
        BY <3>3
    <2> QED
      BY <2>1, <2>2
  <1>7. Sent(r, s, w)
    BY <1>2, <1>4, <1>5, <1>6 DEF Sent, n, L
  <1> QED
    BY <1>7 DEF r

(* How the two queues move messages from one to the other *)
LEMMA FlightMoves ==
  ASSUME NEW S, NEW d \in Seq(S), NEW e \in Seq(S)
  PROVE  /\ d \o e \in Seq(S)
         /\ \A m \in S : d \o Append(e, m) = Append(d \o e, m)
         /\ d # <<>> => d \o e # <<>> /\ Tail(d) \o e = Tail(d \o e) /\ Head(d \o e) = Head(d)
         /\ e # <<>> => (d \o <<Head(e)>>) \o Tail(e) = d \o e
         /\ d \o <<>> = d

  <1>1. d \o e \in Seq(S)
    OBVIOUS
  <1>2. \A m \in S : d \o Append(e, m) = Append(d \o e, m)
    OBVIOUS
  <1>3. d # <<>> => d \o e # <<>> /\ Tail(d) \o e = Tail(d \o e) /\ Head(d \o e) = Head(d)
    OBVIOUS
  <1>4. e # <<>> => (d \o <<Head(e)>>) \o Tail(e) = d \o e
    OBVIOUS
  <1>5. d \o <<>> = d
    OBVIOUS
  <1> QED BY <1>1, <1>2, <1>3, <1>4, <1>5

-----------------------------------------------------------------------------
(* Sequences of words and answers *)

(* A sequence is what its elements are. *)
LEMMA IsTwo ==
  ASSUME NEW S, NEW t \in Seq(S), NEW x \in S, NEW y \in S, Len(t) = 2, t[1] = x, t[2] = y
  PROVE  t = <<x, y>>
  OBVIOUS

(* A sequence of three is what its elements are. *)
LEMMA IsThree ==
  ASSUME NEW S, NEW t \in Seq(S), NEW x \in S, NEW y \in S, NEW z \in S,
         Len(t) = 3, t[1] = x, t[2] = y, t[3] = z
  PROVE  t = <<x, y, z>>
  OBVIOUS

(* What Append adds is the last element. *)
LEMMA AppendFacts ==
  ASSUME NEW S, NEW r \in Seq(S), NEW z \in S
  PROVE  /\ Append(r, z) \in Seq(S) /\ Len(Append(r, z)) = Len(r) + 1
         /\ Append(r, z)[Len(r) + 1] = z
         /\ \A i \in 1..Len(r) : Append(r, z)[i] = r[i]
  OBVIOUS

(* Append, on the empty sequence and on a sequence of one *)
LEMMA AppendShort ==
  ASSUME NEW S, NEW x \in S, NEW y \in S, NEW r \in Seq(S)
  PROVE  /\ r = <<>> => Append(r, x) = <<x>>
         /\ r = <<x>> => Append(r, y) = <<x, y>>
  <1>0. ASSUME r = <<>> PROVE Append(r, x) = <<x>>
    BY <1>0
  <1>1. ASSUME r = <<x>> PROVE Append(r, y) = <<x, y>>
    <2> DEFINE t == Append(r, y)
    <2>1. Len(r) = 1 /\ r[1] = x
      BY <1>1
    <2>2. t \in Seq(S) /\ Len(t) = Len(r) + 1 /\ t[Len(r) + 1] = y
      BY AppendFacts
    <2>3. \A i \in 1..Len(r) : t[i] = r[i]
      BY AppendFacts
    <2> HIDE DEF t
    <2>4. Len(t) = 2 /\ t[1] = x /\ t[2] = y
      BY <2>1, <2>2, <2>3
    <2>5. t = <<x, y>>
      BY <2>2, <2>4, IsTwo
    <2> QED
      BY <2>5 DEF t
  <1> QED
    BY <1>0, <1>1

(* Append, on a sequence of two *)
LEMMA AppendThird ==
  ASSUME NEW S, NEW x \in S, NEW y \in S, NEW z \in S, NEW r \in Seq(S), r = <<x, y>>
  PROVE  Append(r, z) = <<x, y, z>>
  <1> DEFINE t == Append(r, z)
  <1>1. Len(r) = 2 /\ r[1] = x /\ r[2] = y
    OBVIOUS
  <1>2. t \in Seq(S) /\ Len(t) = Len(r) + 1 /\ t[Len(r) + 1] = z
    BY AppendFacts
  <1>3. \A i \in 1..Len(r) : t[i] = r[i]
    BY AppendFacts
  <1> HIDE DEF t
  <1>4. Len(t) = 3 /\ t[1] = x /\ t[2] = y /\ t[3] = z
    BY <1>1, <1>2, <1>3
  <1>5. t = <<x, y, z>>
    BY <1>2, <1>4, IsThree
  <1> QED
    BY <1>5 DEF t

(* Append, on the words and answers of the invariant *)
LEMMA AppendAnswers ==
    /\ \A r \in Results : /\ Append(<<>>, r) = <<r>>
                          /\ Append(<<"REQUEST_SUCCESS">>, r) = <<"REQUEST_SUCCESS", r>>
    /\ Append(<<>>, "REQUEST") = <<"REQUEST">> /\ Append(<<>>, "RELEASE") = <<"RELEASE">>
    /\ Append(<<"RELEASE">>, "REQUEST") = <<"RELEASE", "REQUEST">>
    /\ Append(<<"REQUEST">>, "RELEASE") = <<"REQUEST", "RELEASE">>
    /\ Append(<<"RELEASE", "REQUEST">>, "RELEASE") = <<"RELEASE", "REQUEST", "RELEASE">>
  <1>1. ASSUME NEW r \in Results
        PROVE  /\ Append(<<>>, r) = <<r>>
               /\ Append(<<"REQUEST_SUCCESS">>, r) = <<"REQUEST_SUCCESS", r>>
    <2>1. /\ "REQUEST_SUCCESS" \in Results
          /\ <<"REQUEST_SUCCESS">> \in Seq(Results) /\ <<>> \in Seq(Results)
      BY DEF Results
    <2> QED
      BY <2>1, AppendShort
  <1>2. "REQUEST" \in Ids /\ "RELEASE" \in Ids /\ <<>> \in Seq(Ids) /\ <<"RELEASE">> \in Seq(Ids)
        /\ <<"REQUEST">> \in Seq(Ids) /\ <<"RELEASE", "REQUEST">> \in Seq(Ids)
    BY DEF Ids
  <1>3. /\ Append(<<>>, "REQUEST") = <<"REQUEST">> /\ Append(<<>>, "RELEASE") = <<"RELEASE">>
        /\ Append(<<"RELEASE">>, "REQUEST") = <<"RELEASE", "REQUEST">>
        /\ Append(<<"REQUEST">>, "RELEASE") = <<"REQUEST", "RELEASE">>
    BY <1>2, AppendShort
  <1>4. Append(<<"RELEASE", "REQUEST">>, "RELEASE") = <<"RELEASE", "REQUEST", "RELEASE">>
    BY <1>2, AppendThird
  <1> QED
    BY <1>1, <1>3, <1>4

(* The words of the invariant without their first message are words again. *)
LEMMA WordFacts ==
  /\ Words \subseteq Seq(Ids)
  /\ Tail(<<"REQUEST">>) = <<>> /\ Tail(<<"RELEASE">>) = <<>>
  /\ Tail(<<"REQUEST", "RELEASE">>) = <<"RELEASE">>
  /\ Tail(<<"RELEASE", "REQUEST">>) = <<"REQUEST">>
  /\ Tail(<<"RELEASE", "REQUEST", "RELEASE">>) = <<"REQUEST", "RELEASE">>
  /\ \A w \in Words : w # <<>> => Tail(w) \in Words
  BY DEF Words, Ids

(* The word of a single release differs from the others. *)
LEMMA WordsDiffer ==
  /\ <<"RELEASE">> # <<>> /\ <<"RELEASE">> # <<"REQUEST">>
  /\ <<"RELEASE">> # <<"REQUEST", "RELEASE">> /\ <<"RELEASE">> # <<"RELEASE", "REQUEST">>
  /\ <<"RELEASE">> # <<"RELEASE", "REQUEST", "RELEASE">>
  OBVIOUS

(* No answer that ends a request is empty or a mere grant. *)
LEMMA AnswersDiffer ==
  \A a \in Over : a # <<>> /\ a # <<"REQUEST_SUCCESS">>
  BY DEF Over

-----------------------------------------------------------------------------
(* What may happen to a sender that is in order *)

(* A request in front: its sender was told nothing yet, and each of the    *)
(* three things the machine may do with it, refuse, queue and grant, fits. *)
LEMMA FitsRequest ==
  ASSUME NEW st, NEW c, NEW w \in Words, NEW a, Fits(st, c, w, a), w # <<>>, Head(w) = "REQUEST"
  PROVE  /\ c = "none" /\ a = <<>> /\ Tail(w) \in Words
         /\ Fits(st, "none", Tail(w), <<"FAILURE">>)
         /\ Fits(st, "waiting", Tail(w), <<>>)
         /\ Fits(st, "granted", Tail(w), <<"REQUEST_SUCCESS">>)
  <1>1. w \in {<<"REQUEST">>, <<"REQUEST", "RELEASE">>}
    BY DEF Words
  <1>2. c = "none" /\ a = <<>> /\ st = IF w = <<"REQUEST">> THEN "asking" ELSE "releasing"
    BY <1>1 DEF Fits
  <1>3. Tail(w) = IF w = <<"REQUEST">> THEN <<>> ELSE <<"RELEASE">>
    BY <1>1, WordFacts
  <1> QED
    BY <1>1, <1>2, <1>3 DEF Fits, Over, Words

(* A release in front: it is ignored if the machine does not know its      *)
(* sender, and otherwise closes the connection or ends it at once.         *)
LEMMA FitsRelease ==
  ASSUME NEW st, NEW c, NEW w \in Words, NEW a, Fits(st, c, w, a), w # <<>>, Head(w) = "RELEASE"
  PROVE  /\ Tail(w) \in Words
         /\ c \in {"none", "waiting", "granted"}
         /\ c = "none" => Fits(st, c, Tail(w), a)
         /\ c \in {"waiting", "granted"} =>
                /\ Fits(st, "closing", Tail(w), a)
                /\ Fits(st, "none", Tail(w), Append(a, "RELEASE_SUCCESS"))
  <1>1. w \in {<<"RELEASE">>, <<"RELEASE", "REQUEST">>, <<"RELEASE", "REQUEST", "RELEASE">>}
    BY DEF Words
  <1>2. c # "closing"
    BY <1>1 DEF Fits
  <1>3. CASE c = "none"
    <2>1. CASE w = <<"RELEASE">>
      <3>1. Tail(w) = <<>>
        BY <2>1, WordFacts
      <3>2. (st = "idle" /\ a = <<>>) \/ (st = "releasing" /\ a \in Over)
        BY <1>3, <2>1, WordsDiffer DEF Fits
      <3> QED
        BY <1>3, <3>1, <3>2, WordFacts DEF Fits
    <2>2. CASE w = <<"RELEASE", "REQUEST">>
      <3>1. Tail(w) = <<"REQUEST">>
        BY <2>2, WordFacts
      <3>2. st = "asking" /\ a = <<>>
        BY <1>3, <2>2 DEF Fits
      <3> QED
        BY <1>3, <3>1, <3>2, WordFacts DEF Fits
    <2>3. CASE w = <<"RELEASE", "REQUEST", "RELEASE">>
      <3>1. Tail(w) = <<"REQUEST", "RELEASE">>
        BY <2>3, WordFacts
      <3>2. st = "releasing" /\ a = <<>>
        BY <1>3, <2>3 DEF Fits
      <3> QED
        BY <1>3, <3>1, <3>2, WordFacts DEF Fits
    <2> QED
      BY <1>1, <2>1, <2>2, <2>3
  <1>4. CASE c \in {"waiting", "granted"}
    <2>1. st = "releasing" /\ w = <<"RELEASE">> /\ a \in {<<>>, <<"REQUEST_SUCCESS">>}
      BY <1>1, <1>4 DEF Fits
    <2>2. Tail(w) = <<>> /\ Append(a, "RELEASE_SUCCESS") \in Over
      BY <2>1, WordFacts, AppendAnswers DEF Over, Results
    <2> QED
      BY <1>4, <2>1, <2>2, WordFacts DEF Fits
  <1> QED
    BY <1>2, <1>3, <1>4 DEF Fits

(* Each reply of the framework fits: the grant and the denial of who       *)
(* waits, the release of who holds, and either end of a close.             *)
LEMMA FitsReply ==
  ASSUME NEW st, NEW c, NEW w \in Words, NEW a, Fits(st, c, w, a)
  PROVE  /\ c # "denied"
         /\ c = "waiting" => /\ Fits(st, "granted", w, Append(a, "REQUEST_SUCCESS"))
                             /\ Fits(st, "none", w, Append(a, "FAILURE"))
         /\ c = "granted" => Fits(st, "none", w, Append(a, "RELEASE_SUCCESS"))
         /\ c = "closing" => /\ Fits(st, "none", w, Append(a, "RELEASE_SUCCESS"))
                             /\ Fits(st, "none", w, Append(a, "FAILURE"))
  <1>1. \A r \in {"REQUEST_SUCCESS", "FAILURE", "RELEASE_SUCCESS"} :
            /\ Append(<<>>, r) = <<r>>
            /\ Append(<<"REQUEST_SUCCESS">>, r) = <<"REQUEST_SUCCESS", r>>
    BY AppendAnswers DEF Results
  <1>2. c # "denied"
    BY DEF Fits
  <1> QED
    BY <1>1, <1>2 DEF Fits, Over

(* A sender that is idle may ask, and one that asks or holds may release. *)
LEMMA FitsSend ==
  ASSUME NEW st, NEW c, NEW w \in Words, NEW a, Fits(st, c, w, a)
  PROVE  /\ st = "idle" => /\ Append(w, "REQUEST") \in Words
                           /\ Fits("asking", c, Append(w, "REQUEST"), a)
                           /\ w \in {<<>>, <<"RELEASE">>} /\ c = "none" /\ a = <<>>
         /\ st \in {"asking", "granted"} => /\ Append(w, "RELEASE") \in Words
                                            /\ Fits("releasing", c, Append(w, "RELEASE"), a)
  <1>1. ASSUME st = "idle" PROVE w \in {<<>>, <<"RELEASE">>} /\ c = "none" /\ a = <<>>
    BY <1>1 DEF Fits
  <1>2. ASSUME st = "idle" PROVE Append(w, "REQUEST") \in {<<"REQUEST">>, <<"RELEASE", "REQUEST">>}
    BY <1>1, <1>2, AppendAnswers
  <1>3. ASSUME st \in {"asking", "granted"}
        PROVE  /\ Append(w, "RELEASE") \in Words
               /\ Fits("releasing", c, Append(w, "RELEASE"), a)
    <2>1. w \in {<<>>, <<"REQUEST">>, <<"RELEASE", "REQUEST">>}
      BY <1>3 DEF Fits
    <2> QED
      BY <1>3, <2>1, AppendAnswers DEF Fits, Over, Words
  <1> QED
    BY <1>1, <1>2, <1>3 DEF Fits, Words

(* The first answer and the rest *)
LEMMA AnswerTails ==
  /\ Head(<<"FAILURE">>) = "FAILURE" /\ Tail(<<"FAILURE">>) = <<>>
  /\ Head(<<"RELEASE_SUCCESS">>) = "RELEASE_SUCCESS" /\ Tail(<<"RELEASE_SUCCESS">>) = <<>>
  /\ Head(<<"REQUEST_SUCCESS", "FAILURE">>) = "REQUEST_SUCCESS"
  /\ Tail(<<"REQUEST_SUCCESS", "FAILURE">>) = <<"FAILURE">>
  /\ Head(<<"REQUEST_SUCCESS", "RELEASE_SUCCESS">>) = "REQUEST_SUCCESS"
  /\ Tail(<<"REQUEST_SUCCESS", "RELEASE_SUCCESS">>) = <<"RELEASE_SUCCESS">>
  OBVIOUS

(* A sender that reads its first answer is where the answer says. *)
LEMMA FitsRead ==
  ASSUME NEW st, NEW c, NEW w \in Words, NEW a, Fits(st, c, w, a), a # <<>>
  PROVE  Fits(IF Head(a) # "REQUEST_SUCCESS" THEN "idle"
              ELSE IF st = "releasing" THEN "releasing" ELSE "granted", c, w, Tail(a))
  <1> DEFINE t == IF Head(a) # "REQUEST_SUCCESS" THEN "idle"
                  ELSE IF st = "releasing" THEN "releasing" ELSE "granted"
  <1>1. CASE a = <<"REQUEST_SUCCESS">>
    <2>1. Head(a) = "REQUEST_SUCCESS" /\ Tail(a) = <<>>
      BY <1>1
    <2>2. t = IF st = "releasing" THEN "releasing" ELSE "granted"
      BY <2>1
    <2>3. c \in {"granted", "closing"} /\ st \in {"asking", "releasing"}
      BY <1>1, AnswersDiffer DEF Fits
    <2> HIDE DEF t
    <2>4. Fits(t, c, w, <<>>)
      BY <1>1, <2>2, <2>3 DEF Fits
    <2> QED
      BY <2>1, <2>4 DEF t
  <1>2. CASE a \in {<<"FAILURE">>, <<"RELEASE_SUCCESS">>}
    <2>1. Head(a) # "REQUEST_SUCCESS" /\ Tail(a) = <<>>
      BY <1>2, AnswerTails
    <2>2. c = "none" /\ w \in {<<>>, <<"RELEASE">>}
      BY <1>2 DEF Fits, Over
    <2>3. t = "idle"
      BY <2>1
    <2> HIDE DEF t
    <2>4. Fits(t, c, w, <<>>)
      BY <2>2, <2>3 DEF Fits
    <2> QED
      BY <2>1, <2>4 DEF t
  <1>3. CASE a \in {<<"REQUEST_SUCCESS", "FAILURE">>, <<"REQUEST_SUCCESS", "RELEASE_SUCCESS">>}
    <2>1. /\ Head(a) = "REQUEST_SUCCESS"
          /\ Tail(a) = IF a = <<"REQUEST_SUCCESS", "FAILURE">> THEN <<"FAILURE">>
                       ELSE <<"RELEASE_SUCCESS">>
      BY <1>3, AnswerTails
    <2>2. /\ c = "none"
          /\ \/ st = "asking" /\ w = <<>> /\ a = <<"REQUEST_SUCCESS", "RELEASE_SUCCESS">>
             \/ st = "releasing" /\ w \in {<<>>, <<"RELEASE">>}
      BY <1>3 DEF Fits, Over
    <2>3. t = IF st = "releasing" THEN "releasing" ELSE "granted"
      BY <2>1
    <2> HIDE DEF t
    <2>4. CASE st = "asking"
      <3>1. Tail(a) = <<"RELEASE_SUCCESS">> /\ t = "granted" /\ w = <<>>
        BY <2>1, <2>2, <2>3, <2>4
      <3> QED
        BY <2>2, <3>1 DEF Fits, t
    <2>5. CASE st = "releasing"
      <3>1. Tail(a) \in Over /\ t = "releasing" /\ w \in {<<>>, <<"RELEASE">>}
        BY <2>1, <2>2, <2>3, <2>5 DEF Over
      <3> QED
        BY <2>2, <3>1 DEF Fits, t
    <2> QED
      BY <2>2, <2>4, <2>5
  <1> QED
    BY <1>1, <1>2, <1>3 DEF Fits, Over

-----------------------------------------------------------------------------
(* The two machines *)

(* Every step of the daemon connection is a step of the Wi-Fi machine or   *)
(* leaves it alone.                                                        *)
LEMMA WifiStep == [Next]_vars => [wifi_nif!Next]_(wifi_nif!vars)
  <1> SUFFICES ASSUME [Next]_vars PROVE wifi_nif!Next \/ UNCHANGED wifi_nif!vars
    OBVIOUS
  <1>u. UNCHANGED wifiVars => UNCHANGED wifi_nif!vars
    BY DEF wifiVars, wifi_nif!vars, wifi_nif!machineVars
  <1>1. CASE FrameworkThread \/ ServerThread \/ loc_api_server_proc_post
    BY <1>1, <1>u DEF FrameworkThread, loc_eng_dmn_conn_launch_thelper, thelper_signal_wait,
       SpuriousWakeup, ServerThread, loc_api_server_proc_init, loc_api_server_proc,
       loc_api_server_proc_post
  <1>2. CASE RequestWifi \/ ReleaseWifi
    <2>1. \/ UNCHANGED wifiVars
          \/ \E s \in WifiSenders : wifi_nif!ClientRequest(s) \/ wifi_nif!ClientRelease(s)
      BY <1>2 DEF RequestWifi, ReleaseWifi
    <2> QED
      BY <2>1, <1>u DEF wifi_nif!Next
  <1>3. CASE RequestBit \/ ReleaseBit \/ AgnssReply \/ EngineUp \/ loc_eng_dmn_conn_glue_msgsnd
    BY <1>3, <1>u DEF RequestBit, ReleaseBit, AgnssReply, EngineUp, loc_eng_dmn_conn_glue_msgsnd
  <1>4. CASE WifiReply \/ WifiAfw \/ WifiLost
    BY <1>4 DEF WifiReply, WifiAfw, WifiLost, wifi_nif!Next
  <1>5. ASSUME NEW s \in Senders, SenderRequests(s) \/ SenderReleases(s) \/ SenderReads(s)
        PROVE  UNCHANGED wifiVars
    BY <1>5 DEF SenderRequests, SenderReleases, SenderReads, Send
  <1>6. CASE AgnssAfw \/ AgnssLost
    BY <1>6, <1>u DEF AgnssAfw, AgnssLost
  <1>7. CASE UNCHANGED vars
    BY <1>7, <1>u DEF vars
  <1> QED
    BY <1>1, <1>2, <1>3, <1>4, <1>5, <1>6, <1>7, <1>u DEF Next, DeferredThread

(* Every step of the daemon connection is a step of the AGPS machine or    *)
(* leaves it alone.                                                        *)
LEMMA AgnssStep == [Next]_vars => [agnss_nif!Next]_(agnss_nif!vars)
  <1> SUFFICES ASSUME [Next]_vars PROVE agnss_nif!Next \/ UNCHANGED agnss_nif!vars
    OBVIOUS
  <1>u. UNCHANGED agnssVars => UNCHANGED agnss_nif!vars
    BY DEF agnssVars, agnss_nif!vars, agnss_nif!machineVars
  <1>1. CASE FrameworkThread \/ ServerThread \/ loc_api_server_proc_post
    BY <1>1, <1>u DEF FrameworkThread, loc_eng_dmn_conn_launch_thelper, thelper_signal_wait,
       SpuriousWakeup, ServerThread, loc_api_server_proc_init, loc_api_server_proc,
       loc_api_server_proc_post
  <1>2. CASE RequestBit \/ ReleaseBit
    <2>1. \/ UNCHANGED agnssVars
          \/ \E s \in {"GPSONE_DAEMON"} : agnss_nif!ClientRequest(s) \/ agnss_nif!ClientRelease(s)
      BY <1>2 DEF RequestBit, ReleaseBit
    <2> QED
      BY <2>1, <1>u DEF agnss_nif!Next
  <1>3. CASE RequestWifi \/ ReleaseWifi \/ WifiReply \/ loc_eng_dmn_conn_glue_msgsnd
    BY <1>3, <1>u DEF RequestWifi, ReleaseWifi, WifiReply, loc_eng_dmn_conn_glue_msgsnd
  <1>4. CASE AgnssReply \/ EngineUp \/ AgnssAfw \/ AgnssLost
    BY <1>4 DEF AgnssReply, EngineUp, AgnssAfw, AgnssLost, agnss_nif!Next
  <1>5. ASSUME NEW s \in Senders, SenderRequests(s) \/ SenderReleases(s) \/ SenderReads(s)
        PROVE  UNCHANGED agnssVars
    BY <1>5 DEF SenderRequests, SenderReleases, SenderReads, Send
  <1>6. CASE WifiAfw \/ WifiLost
    BY <1>6, <1>u DEF WifiAfw, WifiLost
  <1>7. CASE UNCHANGED vars
    BY <1>7, <1>u DEF vars
  <1> QED
    BY <1>1, <1>2, <1>3, <1>4, <1>5, <1>6, <1>7, <1>u DEF Next, DeferredThread

(* The daemon connection implements the Wi-Fi machine: whatever the        *)
(* daemons send and however the threads interleave, requestATL and         *)
(* releaseATL are called as AgpsNif lets a client call them.               *)
THEOREM WifiRefines == Spec => wifi_nif!Spec
  <1>1. Init => wifi_nif!Init
    BY DEF Init
  <1> QED
    BY <1>1, WifiStep, PTL DEF Spec, wifi_nif!Spec

(* The daemon connection implements the AGPS machine in the same way, with *)
(* the modem restarts that drop its subscriber.                            *)
THEOREM AgnssRefines == Spec => agnss_nif!Spec
  <1>1. Init => agnss_nif!Init
    BY DEF Init
  <1> QED
    BY <1>1, AgnssStep, PTL DEF Spec, agnss_nif!Spec

(* The machines the model instantiates are those with the proofs: their    *)
(* initial states                                                          *)
LEMMA SameInit == (wifi_nif!Init => W!Init) /\ (agnss_nif!Init => B!Init)
  BY DEF W!Init, W!MachineInit, wifi_nif!Init, wifi_nif!MachineInit,
         B!Init, B!MachineInit, agnss_nif!Init, agnss_nif!MachineInit

(* The steps of the Wi-Fi machine *)
LEMMA SameWifi ==
  /\ \A s \in WifiSenders : /\ wifi_nif!ClientRequest(s) => W!ClientRequest(s)
                            /\ wifi_nif!ClientRelease(s) => W!ClientRelease(s)
  /\ wifi_nif!HandleReply => W!HandleReply
  /\ (wifi_nif!Next => W!Next) /\ (UNCHANGED wifi_nif!vars => UNCHANGED W!vars)
  /\ wifi_nif!refused = W!refused
  <1>1. ASSUME NEW s \in WifiSenders, wifi_nif!ClientRequest(s) PROVE W!ClientRequest(s)
    BY <1>1 DEF wifi_nif!ClientRequest, wifi_nif!subscribeRsrc, wifi_nif!SubscribeRefused,
       wifi_nif!ReleasedSubscribe, wifi_nif!PendingSubscribe, wifi_nif!AcquiredSubscribe,
       wifi_nif!refused, wifi_nif!sendRsrcRequest, wifi_nif!active, wifi_nif!notifyRsrcStatus,
       W!ClientRequest, W!subscribeRsrc, W!SubscribeRefused,
       W!ReleasedSubscribe, W!PendingSubscribe, W!AcquiredSubscribe,
       W!refused, W!sendRsrcRequest, W!active, W!notifyRsrcStatus
  <1>2. ASSUME NEW s \in WifiSenders, wifi_nif!ClientRelease(s) PROVE W!ClientRelease(s)
    BY <1>2 DEF wifi_nif!ClientRelease, wifi_nif!unsubscribeRsrc, wifi_nif!UnsubscribeWait,
       wifi_nif!UnsubscribeNotify, wifi_nif!AfterUnsubscribe, wifi_nif!sendRsrcRequest,
       wifi_nif!active, wifi_nif!notifyRsrcStatus,
       W!ClientRelease, W!unsubscribeRsrc, W!UnsubscribeWait,
       W!UnsubscribeNotify, W!AfterUnsubscribe, W!sendRsrcRequest, W!active, W!notifyRsrcStatus
  <1>3. ASSUME wifi_nif!HandleReply PROVE W!HandleReply
    BY <1>3 DEF wifi_nif!HandleReply, wifi_nif!onRsrcEvent, wifi_nif!PendingGranted,
       wifi_nif!PendingDenied, wifi_nif!AcquiredReleased, wifi_nif!BroadcastAllAndDelete,
       wifi_nif!ReleasingClosed, wifi_nif!EventIgnored, wifi_nif!forMe, wifi_nif!active,
       wifi_nif!notifyRsrcStatus, wifi_nif!sendRsrcRequest, wifi_nif!machineVars, wifi_nif!Events,
       W!HandleReply, W!onRsrcEvent, W!PendingGranted, W!PendingDenied, W!AcquiredReleased,
       W!BroadcastAllAndDelete, W!ReleasingClosed, W!EventIgnored, W!forMe, W!active,
       W!notifyRsrcStatus, W!sendRsrcRequest, W!machineVars, W!Events
  <1>4. ASSUME wifi_nif!EngineUp PROVE W!EngineUp
    BY <1>4 DEF wifi_nif!EngineUp, W!EngineUp, wifi_nif!dropAllSubscribers, W!dropAllSubscribers
  <1>5. ASSUME \/ wifi_nif!AfwRequest \/ wifi_nif!AfwOpened \/ wifi_nif!AfwOpenFailed
               \/ wifi_nif!AfwRelease \/ wifi_nif!AfwConnectionLost
        PROVE  W!AfwRequest \/ W!AfwOpened \/ W!AfwOpenFailed \/ W!AfwRelease \/ W!AfwConnectionLost
    BY <1>5 DEF wifi_nif!AfwRequest, wifi_nif!AfwOpened, wifi_nif!AfwOpenFailed,
       wifi_nif!AfwRelease, wifi_nif!AfwConnectionLost, wifi_nif!Reply, wifi_nif!machineVars,
       W!AfwRequest, W!AfwOpened, W!AfwOpenFailed, W!AfwRelease, W!AfwConnectionLost,
       W!Reply, W!machineVars
  <1>6. wifi_nif!Next => W!Next
    BY <1>1, <1>2, <1>3, <1>4, <1>5 DEF wifi_nif!Next, W!Next
  <1>7. UNCHANGED wifi_nif!vars => UNCHANGED W!vars
    BY DEF wifi_nif!vars, W!vars, wifi_nif!machineVars, W!machineVars
  <1>8. wifi_nif!refused = W!refused
    BY DEF wifi_nif!refused, W!refused
  <1> QED
    BY <1>1, <1>2, <1>3, <1>6, <1>7, <1>8

-----------------------------------------------------------------------------
(* What the senders are told *)

(* The answer of a notification with one result *)
LEMMA NotifyOne ==
  ASSUME NEW s, NEW r \in Results
  PROVE  [i \in DOMAIN <<r>> |-> <<s, <<r>>[i]>>] = << <<s, r>> >>
  <1>1. DOMAIN <<r>> = 1..1 /\ <<r>>[1] = r
    OBVIOUS
  <1>2. DOMAIN << <<s, r>> >> = 1..1 /\ << <<s, r>> >>[1] = <<s, r>>
    OBVIOUS
  <1>3. \A i \in 1..1 : i = 1
    OBVIOUS
  <1> QED BY <1>1, <1>2, <1>3

(* The answer of a notification without a result *)
LEMMA NotifyNone ==
  ASSUME NEW s
  PROVE  [i \in DOMAIN <<>> |-> <<s, <<>>[i]>>] = <<>>
  OBVIOUS

(* What WIFISubscriber and BITSubscriber answer to each notification *)
LEMMA NotifyIs ==
  ASSUME NEW s \in Senders
  PROVE  /\ notify(s, "RSRC_GRANTED") = << <<s, "REQUEST_SUCCESS">> >>
         /\ notify(s, "RSRC_DENIED") = << <<s, "FAILURE">> >>
         /\ notify(s, "RSRC_RELEASED") = << <<s, "RELEASE_SUCCESS">> >>
         /\ notify(s, "RSRC_UNSUBSCRIBE") =
                IF s \in WifiSenders THEN <<>> ELSE << <<s, "RELEASE_SUCCESS">> >>
  <1>1. ASSUME NEW r \in Results
        PROVE  [i \in DOMAIN <<r>> |-> data_conn(s, <<r>>[i])] = << <<s, r>> >>
    BY NotifyOne DEF data_conn
  <1>2. "REQUEST_SUCCESS" \in Results /\ "FAILURE" \in Results /\ "RELEASE_SUCCESS" \in Results
    BY DEF Results
  <1>3. [i \in DOMAIN <<>> |-> data_conn(s, <<>>[i])] = <<>>
    BY NotifyNone DEF data_conn
  <1>4. WIFISubscriber_notifyRsrcStatus("RSRC_GRANTED") = <<"REQUEST_SUCCESS">>
        /\ WIFISubscriber_notifyRsrcStatus("RSRC_DENIED") = <<"FAILURE">>
        /\ WIFISubscriber_notifyRsrcStatus("RSRC_RELEASED") = <<"RELEASE_SUCCESS">>
        /\ WIFISubscriber_notifyRsrcStatus("RSRC_UNSUBSCRIBE") = <<>>
    BY DEF WIFISubscriber_notifyRsrcStatus
  <1>5. BITSubscriber_notifyRsrcStatus("RSRC_GRANTED") = <<"REQUEST_SUCCESS">>
        /\ BITSubscriber_notifyRsrcStatus("RSRC_DENIED") = <<"FAILURE">>
        /\ BITSubscriber_notifyRsrcStatus("RSRC_RELEASED") = <<"RELEASE_SUCCESS">>
        /\ BITSubscriber_notifyRsrcStatus("RSRC_UNSUBSCRIBE") = <<"RELEASE_SUCCESS">>
    BY DEF BITSubscriber_notifyRsrcStatus
  <1>6. /\ notify(s, "RSRC_GRANTED") =
               [i \in DOMAIN <<"REQUEST_SUCCESS">> |-> data_conn(s, <<"REQUEST_SUCCESS">>[i])]
        /\ notify(s, "RSRC_DENIED") =
               [i \in DOMAIN <<"FAILURE">> |-> data_conn(s, <<"FAILURE">>[i])]
        /\ notify(s, "RSRC_RELEASED") =
               [i \in DOMAIN <<"RELEASE_SUCCESS">> |-> data_conn(s, <<"RELEASE_SUCCESS">>[i])]
    BY <1>4, <1>5 DEF notify
  <1>7. notify(s, "RSRC_UNSUBSCRIBE") =
           IF s \in WifiSenders THEN [i \in DOMAIN <<>> |-> data_conn(s, <<>>[i])]
           ELSE [i \in DOMAIN <<"RELEASE_SUCCESS">> |-> data_conn(s, <<"RELEASE_SUCCESS">>[i])]
    BY <1>4, <1>5 DEF notify
  <1> QED
    BY <1>1, <1>2, <1>3, <1>6, <1>7

(* Answers change only with the pipe and with what is to be written. *)
LEMMA AnswersSame ==
  ASSUME NEW t \in Senders, UNCHANGED <<resp_pipe, writing>>
  PROVE  Answers(t)' = Answers(t)
  BY DEF Answers

(* A step of the deferred thread that answers nothing *)
LEMMA AnswersKept ==
  ASSUME NEW t \in Senders, writing = <<>>, UNCHANGED resp_pipe, writing' = <<>>
  PROVE  Answers(t)' = Answers(t)
  BY DEF Answers

(* With nothing to write, the answers are those on the pipe. *)
LEMMA AnswersQuiet ==
  ASSUME NEW t \in Senders, PipesTyped, writing = <<>>
  PROVE  Answers(t) = resp_pipe[t] /\ Answers(t) \in Seq(Results)
  BY DEF Answers, PipesTyped

(* The answer to be written is behind those on the pipe. *)
LEMMA AnswersOne ==
  ASSUME NEW t \in Senders, PipesTyped, NEW s \in Senders, NEW r \in Results,
         writing = << <<s, r>> >>
  PROVE  Answers(t) = IF t = s THEN Append(resp_pipe[t], r) ELSE resp_pipe[t]
  BY DEF Answers, PipesTyped

(* A step of the deferred thread that answers s: the answer is the last. *)
LEMMA AnswersWrite ==
  ASSUME NEW t \in Senders, PipesTyped, writing = <<>>, UNCHANGED resp_pipe, NEW s \in Senders,
         NEW r \in Results, writing' = << <<s, r>> >>
  PROVE  Answers(t)' = IF t = s THEN Append(Answers(t), r) ELSE Answers(t)
  <1>1. Answers(t) = resp_pipe[t] /\ resp_pipe[t] \in Seq(Results)
    BY AnswersQuiet DEF PipesTyped
  <1>2. Head(writing')[1] = s /\ Head(writing')[2] = r /\ writing' # <<>>
    OBVIOUS
  <1>3. CASE t = s
    <2>1. Answers(t)' = resp_pipe[t] \o <<r>>
      BY <1>2, <1>3 DEF Answers
    <2> QED
      BY <1>1, <1>3, <2>1
  <1>4. CASE t # s
    <2>1. Answers(t)' = resp_pipe[t] \o <<>>
      BY <1>2, <1>4 DEF Answers
    <2> QED
      BY <1>1, <1>4, <2>1
  <1> QED
    BY <1>3, <1>4

(* The steps of the AGPS machine *)
LEMMA SameAgnss ==
  /\ agnss_nif!ClientRequest("GPSONE_DAEMON") => B!ClientRequest("GPSONE_DAEMON")
  /\ agnss_nif!ClientRelease("GPSONE_DAEMON") => B!ClientRelease("GPSONE_DAEMON")
  /\ agnss_nif!HandleReply => B!HandleReply
  /\ (agnss_nif!Next => B!Next) /\ (UNCHANGED agnss_nif!vars => UNCHANGED B!vars)
  <1>1. ASSUME NEW s \in {"GPSONE_DAEMON"}, agnss_nif!ClientRequest(s) PROVE B!ClientRequest(s)
    BY <1>1 DEF agnss_nif!ClientRequest, agnss_nif!subscribeRsrc, agnss_nif!SubscribeRefused,
       agnss_nif!ReleasedSubscribe, agnss_nif!PendingSubscribe, agnss_nif!AcquiredSubscribe,
       agnss_nif!refused, agnss_nif!sendRsrcRequest, agnss_nif!active, agnss_nif!notifyRsrcStatus,
       B!ClientRequest, B!subscribeRsrc, B!SubscribeRefused, B!ReleasedSubscribe,
       B!PendingSubscribe, B!AcquiredSubscribe, B!refused, B!sendRsrcRequest, B!active,
       B!notifyRsrcStatus
  <1>2. ASSUME NEW s \in {"GPSONE_DAEMON"}, agnss_nif!ClientRelease(s) PROVE B!ClientRelease(s)
    BY <1>2 DEF agnss_nif!ClientRelease, agnss_nif!unsubscribeRsrc, agnss_nif!UnsubscribeWait,
       agnss_nif!UnsubscribeNotify, agnss_nif!AfterUnsubscribe, agnss_nif!sendRsrcRequest,
       agnss_nif!active, agnss_nif!notifyRsrcStatus, B!ClientRelease, B!unsubscribeRsrc,
       B!UnsubscribeWait, B!UnsubscribeNotify, B!AfterUnsubscribe, B!sendRsrcRequest, B!active,
       B!notifyRsrcStatus
  <1>3. ASSUME agnss_nif!HandleReply PROVE B!HandleReply
    BY <1>3 DEF agnss_nif!HandleReply, agnss_nif!onRsrcEvent, agnss_nif!PendingGranted,
       agnss_nif!PendingDenied, agnss_nif!AcquiredReleased, agnss_nif!BroadcastAllAndDelete,
       agnss_nif!ReleasingClosed, agnss_nif!EventIgnored, agnss_nif!forMe, agnss_nif!active,
       agnss_nif!notifyRsrcStatus, agnss_nif!sendRsrcRequest, agnss_nif!machineVars,
       agnss_nif!Events, B!HandleReply, B!onRsrcEvent, B!PendingGranted, B!PendingDenied,
       B!AcquiredReleased, B!BroadcastAllAndDelete, B!ReleasingClosed, B!EventIgnored, B!forMe,
       B!active, B!notifyRsrcStatus, B!sendRsrcRequest, B!machineVars, B!Events
  <1>4. ASSUME agnss_nif!EngineUp PROVE B!EngineUp
    BY <1>4 DEF agnss_nif!EngineUp, B!EngineUp, agnss_nif!dropAllSubscribers, B!dropAllSubscribers
  <1>5. ASSUME \/ agnss_nif!AfwRequest \/ agnss_nif!AfwOpened \/ agnss_nif!AfwOpenFailed
               \/ agnss_nif!AfwRelease \/ agnss_nif!AfwConnectionLost
        PROVE  B!AfwRequest \/ B!AfwOpened \/ B!AfwOpenFailed \/ B!AfwRelease \/ B!AfwConnectionLost
    BY <1>5 DEF agnss_nif!AfwRequest, agnss_nif!AfwOpened, agnss_nif!AfwOpenFailed,
       agnss_nif!AfwRelease, agnss_nif!AfwConnectionLost, agnss_nif!Reply, agnss_nif!machineVars,
       B!AfwRequest, B!AfwOpened, B!AfwOpenFailed, B!AfwRelease, B!AfwConnectionLost,
       B!Reply, B!machineVars
  <1>6. agnss_nif!Next => B!Next
    BY <1>1, <1>2, <1>3, <1>4, <1>5 DEF agnss_nif!Next, B!Next
  <1>7. UNCHANGED agnss_nif!vars => UNCHANGED B!vars
    BY DEF agnss_nif!vars, B!vars, agnss_nif!machineVars, B!machineVars
  <1> QED
    BY <1>1, <1>2, <1>3, <1>6, <1>7

(* The two machines are configured as AgpsNif assumes. *)
LEMMA Configured ==
  /\ W!ConfigAssumption /\ W!BoundsAssumption
  /\ B!ConfigAssumption /\ B!BoundsAssumption
  BY DEF W!ConfigAssumption, W!BoundsAssumption, B!ConfigAssumption, B!BoundsAssumption, WifiSenders

(* The machines keep their own invariant, whatever the connection does. *)
LEMMA WifiInvariant ==
  /\ Init => W!MachineInv /\ W!TypeOK /\ W!GrantsInQueue /\ W!GrantIsReal
  /\ W!MachineInv /\ [Next]_vars => W!MachineInv'
  /\ W!TypeOK /\ W!GrantsInQueue /\ W!GrantIsReal /\ [Next]_vars =>
        (W!GrantsInQueue /\ W!GrantIsReal)'
  <1>1. [Next]_vars => [W!Next]_(W!vars)
    BY WifiStep, SameWifi
  <1>2. W!MachineInv /\ [W!Next]_(W!vars) => W!MachineInv'
    BY Configured, W!MachineStep
  <1>3. W!Init => W!MachineInv
    BY Configured, W!InitMachine
  <1>4. W!Init => W!GrantsInQueue /\ W!GrantIsReal
    BY Configured, W!InitGrant
  <1>5. W!TypeOK /\ W!GrantsInQueue /\ W!GrantIsReal /\ [W!Next]_(W!vars) =>
           (W!GrantsInQueue /\ W!GrantIsReal)'
    BY Configured, W!GrantStep
  <1>6. Init => W!Init
    BY SameInit DEF Init
  <1>7. W!MachineInv => W!TypeOK
    BY DEF W!MachineInv
  <1> QED
    BY <1>1, <1>2, <1>3, <1>4, <1>5, <1>6, <1>7

(* The same for the AGPS machine. *)
LEMMA AgnssInvariant ==
  /\ Init => B!MachineInv /\ B!TypeOK /\ B!GrantsInQueue /\ B!GrantIsReal
  /\ B!MachineInv /\ [Next]_vars => B!MachineInv'
  /\ B!TypeOK /\ B!GrantsInQueue /\ B!GrantIsReal /\ [Next]_vars =>
        (B!GrantsInQueue /\ B!GrantIsReal)'
  <1>1. [Next]_vars => [B!Next]_(B!vars)
    BY AgnssStep, SameAgnss
  <1>2. B!MachineInv /\ [B!Next]_(B!vars) => B!MachineInv'
    BY Configured, B!MachineStep
  <1>3. B!Init => B!MachineInv
    BY Configured, B!InitMachine
  <1>4. B!Init => B!GrantsInQueue /\ B!GrantIsReal
    BY Configured, B!InitGrant
  <1>5. B!TypeOK /\ B!GrantsInQueue /\ B!GrantIsReal /\ [B!Next]_(B!vars) =>
           (B!GrantsInQueue /\ B!GrantIsReal)'
    BY Configured, B!GrantStep
  <1>6. Init => B!Init
    BY SameInit DEF Init
  <1>7. B!MachineInv => B!TypeOK
    BY DEF B!MachineInv
  <1> QED
    BY <1>1, <1>2, <1>3, <1>4, <1>5, <1>6, <1>7

(* The gpsOne daemon is the one sender that does not ask for Wi-Fi. *)
LEMMA SenderFacts ==
  /\ "GPSONE_DAEMON" \in Senders /\ "GPSONE_DAEMON" \notin WifiSenders
  /\ WifiSenders \subseteq Senders /\ Senders \ WifiSenders = {"GPSONE_DAEMON"}
  BY DEF Senders, WifiSenders

(* Each sender's status belongs to its own machine. *)
LEMMA StatusKept ==
  /\ UNCHANGED wifiVars => \A t \in WifiSenders : Status(t)' = Status(t)
  /\ UNCHANGED agnssVars => Status("GPSONE_DAEMON")' = Status("GPSONE_DAEMON")
  BY SenderFacts DEF Status, wifiVars, agnssVars

(* A request the deferred thread takes: the machine refuses it, grants it  *)
(* at once or lets it wait, and the sender is told what happened.          *)
LEMMA RequestEffect ==
  ASSUME PipesTyped, W!MachineInv, B!MachineInv,
         RequestWifi \/ (RequestBit /\ Head(deferred_q).type = "SUPL"),
         NEW s, s = Head(deferred_q).sender
  PROVE  /\ s \in Senders
         /\ \A t \in Senders \ {s} : Status(t)' = Status(t)
         /\ writing' = <<>> \/ \E r \in Results : writing' = << <<s, r>> >>
         /\ Status(s) = "none" =>
                \/ Status(s)' = "none" /\ writing' = << <<s, "FAILURE">> >>
                \/ Status(s)' = "granted" /\ writing' = << <<s, "REQUEST_SUCCESS">> >>
                \/ Status(s)' = "waiting" /\ writing' = <<>>
  <1>r. "REQUEST_SUCCESS" \in Results /\ "FAILURE" \in Results
    BY DEF Results
  <1>1. CASE RequestWifi
    <2>1. /\ s \in WifiSenders /\ wifi_nif!ClientRequest(s) /\ UNCHANGED agnssVars
          /\ writing' = IF wifi_nif!refused THEN notify(s, "RSRC_DENIED")
                        ELSE IF wifi_state = "Acquired" THEN notify(s, "RSRC_GRANTED")
                        ELSE <<>>
      BY <1>1 DEF RequestWifi
    <2>2. W!ClientRequest(s) /\ wifi_nif!refused = W!refused
      BY <2>1, SameWifi
    <2>3. /\ \A t \in WifiSenders \ {s} : wifi_client'[t] = wifi_client[t]
          /\ wifi_client[s] = "none" =>
                wifi_client'[s] = IF W!refused THEN "none"
                                  ELSE IF wifi_state = "Acquired" THEN "granted" ELSE "waiting"
      BY <2>1, <2>2, Configured, W!RequestTells
    <2>4. s \in Senders /\ Status(s) = wifi_client[s] /\ Status(s)' = wifi_client'[s]
      BY <2>1, SenderFacts DEF Status
    <2>5. \A t \in Senders \ {s} : Status(t)' = Status(t)
      BY <2>1, <2>3, SenderFacts, StatusKept DEF Status
    <2>6. writing' = IF W!refused THEN << <<s, "FAILURE">> >>
                     ELSE IF wifi_state = "Acquired" THEN << <<s, "REQUEST_SUCCESS">> >>
                     ELSE <<>>
      BY <2>1, <2>2, <2>4, NotifyIs
    <2> QED
      BY <2>3, <2>4, <2>5, <2>6, <1>r
  <1>2. CASE RequestBit /\ Head(deferred_q).type = "SUPL"
    <2>1. /\ s = "GPSONE_DAEMON" /\ agnss_nif!ClientRequest(s) /\ UNCHANGED wifiVars
          /\ writing' = IF agnss_state = "Acquired" THEN notify(s, "RSRC_GRANTED") ELSE <<>>
      BY <1>2 DEF RequestBit
    <2>2. B!ClientRequest(s) /\ s \in {"GPSONE_DAEMON"}
      BY <2>1, SameAgnss
    <2>3. agnss_client[s] = "none" =>
                agnss_client'[s] = IF B!refused THEN "none"
                                  ELSE IF agnss_state = "Acquired" THEN "granted" ELSE "waiting"
      BY <2>1, <2>2, Configured, B!RequestTells
    <2>a. ~B!refused
      BY DEF B!refused
    <2>4. s \in Senders /\ Status(s) = agnss_client[s] /\ Status(s)' = agnss_client'[s]
      BY <2>1, SenderFacts DEF Status
    <2>5. \A t \in Senders \ {s} : Status(t)' = Status(t)
      BY <2>1, SenderFacts, StatusKept
    <2>6. writing' = IF agnss_state = "Acquired" THEN << <<s, "REQUEST_SUCCESS">> >> ELSE <<>>
      BY <2>1, <2>4, NotifyIs
    <2> QED
      BY <2>3, <2>a, <2>4, <2>5, <2>6, <1>r
  <1> QED
    BY <1>1, <1>2

(* A release the deferred thread takes: nothing without a subscription;    *)
(* otherwise the sender is told now, or when the interface is closed.      *)
LEMMA ReleaseEffect ==
  ASSUME PipesTyped, W!MachineInv, B!MachineInv, ReleaseWifi \/ ReleaseBit,
         NEW s, s = Head(deferred_q).sender
  PROVE  /\ s \in Senders
         /\ \A t \in Senders \ {s} : Status(t)' = Status(t)
         /\ \/ /\ Status(s) \in {"none", "dropped"}
               /\ Status(s)' = Status(s) /\ writing' = <<>>
            \/ /\ Status(s) \in {"waiting", "granted", "closing", "denied"}
               /\ \/ Status(s)' = "closing" /\ writing' = <<>>
                  \/ Status(s)' = "none" /\ writing' = << <<s, "RELEASE_SUCCESS">> >>
  <1>1. CASE ReleaseWifi
    <2>1. /\ s \in WifiSenders /\ UNCHANGED agnssVars /\ writing = <<>>
          /\ \/ /\ s \in wifi_subs /\ wifi_nif!ClientRelease(s)
                /\ writing' = notify(s, "RSRC_UNSUBSCRIBE")
             \/ s \notin wifi_subs /\ UNCHANGED <<wifiVars, writing>>
      BY <1>1 DEF ReleaseWifi, TakesMessage
    <2>4. s \in Senders /\ Status(s) = wifi_client[s] /\ Status(s)' = wifi_client'[s]
      BY <2>1, SenderFacts DEF Status
    <2>5. /\ s \notin wifi_subs => wifi_client[s] \in {"none", "dropped"}
          /\ s \in wifi_subs => wifi_client[s] \in {"waiting", "granted", "closing", "denied"}
      BY <2>1 DEF W!MachineInv, W!ClientsAgree
    <2>2. CASE s \notin wifi_subs
      BY <2>1, <2>2, <2>4, <2>5, SenderFacts, StatusKept
    <2>3. CASE s \in wifi_subs
      <3>1. W!ClientRelease(s)
        BY <2>1, <2>3, SameWifi
      <3>2. /\ \A t \in WifiSenders \ {s} : wifi_client'[t] = wifi_client[t]
            /\ wifi_client'[s] = "closing"
        BY <2>1, <3>1, Configured, W!ReleaseTells
      <3>3. writing' = <<>>
        BY <2>1, <2>3, <2>4, NotifyIs
      <3>4. \A t \in Senders \ {s} : Status(t)' = Status(t)
        BY <2>1, <3>2, SenderFacts, StatusKept DEF Status
      <3> QED
        BY <3>2, <3>3, <3>4, <2>3, <2>4, <2>5
    <2> QED
      BY <2>2, <2>3
  <1>2. CASE ReleaseBit
    <2>0. Head(deferred_q).type = "SUPL"
      <3>1. Head(deferred_q) \in Messages /\ Head(deferred_q).id = "RELEASE"
            /\ Head(deferred_q).sender = "GPSONE_DAEMON"
        BY <1>2 DEF ReleaseBit, TakesMessage, PipesTyped
      <3> QED
        BY <3>1 DEF Messages
    <2>1. /\ s = "GPSONE_DAEMON" /\ UNCHANGED wifiVars /\ writing = <<>>
          /\ \/ /\ s \in agnss_subs /\ agnss_nif!ClientRelease(s)
                /\ writing' = notify(s, "RSRC_UNSUBSCRIBE")
             \/ s \notin agnss_subs /\ UNCHANGED <<agnssVars, writing>>
      BY <1>2, <2>0 DEF ReleaseBit, TakesMessage
    <2>4. s \in Senders /\ Status(s) = agnss_client[s] /\ Status(s)' = agnss_client'[s]
      BY <2>1, SenderFacts DEF Status
    <2>5. /\ s \notin agnss_subs => agnss_client[s] \in {"none", "dropped"}
          /\ s \in agnss_subs => agnss_client[s] \in {"waiting", "granted", "closing"}
      BY <2>1 DEF B!MachineInv, B!ClientsAgree
    <2>6. \A t \in Senders \ {s} : Status(t)' = Status(t)
      BY <2>1, SenderFacts, StatusKept
    <2>2. CASE s \notin agnss_subs
      BY <2>1, <2>2, <2>4, <2>5, <2>6, StatusKept
    <2>3. CASE s \in agnss_subs
      <3>1. B!ClientRelease(s) /\ s \in {"GPSONE_DAEMON"}
        BY <2>1, <2>3, SameAgnss
      <3>2. agnss_client'[s] = IF s \in {} THEN "closing" ELSE "none"
        BY <3>1, Configured, B!ReleaseTells
      <3>3. writing' = << <<s, "RELEASE_SUCCESS">> >>
        BY <2>1, <2>3, <2>4, NotifyIs, SenderFacts
      <3> QED
        BY <3>2, <3>3, <2>3, <2>4, <2>5, <2>6
    <2> QED
      BY <2>2, <2>3
  <1> QED
    BY <1>1, <1>2

(* The one sender whose status changed is told. *)
LEMMA NotifiedIs ==
  ASSUME NEW before, NEW after, NEW status, NEW s,
         {t \in DOMAIN before : after[t] # before[t]} = {s}
  PROVE  Notified(before, after, status) = notify(s, status)
  <1>1. (CHOOSE t \in {s} : TRUE) = s
    OBVIOUS
  <1> QED
    BY <1>1 DEF Notified

(* Nobody is told when no status changed. *)
LEMMA NotifiedNone ==
  ASSUME NEW before, NEW status
  PROVE  Notified(before, before, status) = <<>>
  BY DEF Notified

(* A reply of the framework tells at most one sender, and what it is told  *)
(* is what became of its status.                                           *)
LEMMA ReplyEffect ==
  ASSUME PipesTyped, W!MachineInv, B!MachineInv, WifiReply \/ AgnssReply
  PROVE  \/ writing' = <<>> /\ \A t \in Senders : Status(t)' = Status(t)
         \/ \E s \in Senders, r \in Results :
               /\ writing' = << <<s, r>> >>
               /\ \A t \in Senders \ {s} : Status(t)' = Status(t)
               /\ Tells(Status(s), Status(s)', r)
  <1>1. CASE WifiReply
    <2> DEFINE e == Head(wifi_replies)
    <2>1. /\ wifi_nif!HandleReply /\ writing' = Notified(wifi_client, wifi_client', e)
          /\ UNCHANGED agnssVars
      BY <1>1 DEF WifiReply
    <2>2. \A s, t \in wifi_subs : s = t
      BY DEF W!MachineInv, W!ListShape
    <2>3. \/ wifi_client' = wifi_client
          \/ \E s \in wifi_subs :
               /\ \A t \in WifiSenders \ {s} : wifi_client'[t] = wifi_client[t]
               /\ \/ wifi_client[s] = "waiting" /\ wifi_client'[s] = "granted" /\ e = "RSRC_GRANTED"
                  \/ wifi_client[s] = "waiting" /\ wifi_client'[s] = "none" /\ e = "RSRC_DENIED"
                  \/ wifi_client[s] = "granted" /\ wifi_client'[s] = "none" /\ e = "RSRC_RELEASED"
                  \/ /\ wifi_client[s] = "closing" /\ wifi_client'[s] = "none"
                     /\ e \in {"RSRC_RELEASED", "RSRC_DENIED"}
                  \/ wifi_client[s] = "denied" /\ wifi_client'[s] = "granted" /\ e = "RSRC_GRANTED"
                  \/ /\ wifi_client[s] = "denied" /\ wifi_client'[s] = "none"
                     /\ e \in {"RSRC_RELEASED", "RSRC_DENIED"}
      BY <2>1, <2>2, SameWifi, Configured, W!ReplyTells
    <2> HIDE DEF e
    <2>4. CASE wifi_client' = wifi_client
      BY <2>1, <2>4, NotifiedNone, SenderFacts, StatusKept DEF Status
    <2>5. ASSUME NEW s \in wifi_subs,
               /\ \A t \in WifiSenders \ {s} : wifi_client'[t] = wifi_client[t]
               /\ \/ wifi_client[s] = "waiting" /\ wifi_client'[s] = "granted" /\ e = "RSRC_GRANTED"
                  \/ wifi_client[s] = "waiting" /\ wifi_client'[s] = "none" /\ e = "RSRC_DENIED"
                  \/ wifi_client[s] = "granted" /\ wifi_client'[s] = "none" /\ e = "RSRC_RELEASED"
                  \/ /\ wifi_client[s] = "closing" /\ wifi_client'[s] = "none"
                     /\ e \in {"RSRC_RELEASED", "RSRC_DENIED"}
                  \/ wifi_client[s] = "denied" /\ wifi_client'[s] = "granted" /\ e = "RSRC_GRANTED"
                  \/ /\ wifi_client[s] = "denied" /\ wifi_client'[s] = "none"
                     /\ e \in {"RSRC_RELEASED", "RSRC_DENIED"}
          PROVE \E r \in Results :
               /\ writing' = << <<s, r>> >> /\ s \in Senders
               /\ \A t \in Senders \ {s} : Status(t)' = Status(t)
               /\ Tells(Status(s), Status(s)', r)
      <3>1. s \in WifiSenders /\ DOMAIN wifi_client = WifiSenders
        BY DEF W!MachineInv, W!TypeOK, W!MachineTypeOK
      <3>2. /\ s \in Senders /\ Status(s) = wifi_client[s] /\ Status(s)' = wifi_client'[s]
        BY <3>1, SenderFacts DEF Status
      <3>3. \A t \in Senders \ {s} : Status(t)' = Status(t)
        BY <2>1, <2>5, SenderFacts, StatusKept DEF Status
      <3>4. writing' = notify(s, e)
        <4>1. wifi_client'[s] # wifi_client[s]
          BY <2>5
        <4>2. {t \in DOMAIN wifi_client : wifi_client'[t] # wifi_client[t]} = {s}
          BY <2>5, <3>1, <4>1
        <4> QED
          BY <2>1, <4>2, NotifiedIs
      <3>5. \E r \in Results : writing' = << <<s, r>> >> /\ Tells(Status(s), Status(s)', r)
        BY <2>5, <3>2, <3>4, NotifyIs DEF Tells, Results
      <3> QED
        BY <3>2, <3>3, <3>5
    <2> QED
      BY <2>3, <2>4, <2>5
  <1>2. CASE AgnssReply
    <2> DEFINE e == Head(agnss_replies)
               s == "GPSONE_DAEMON"
    <2>1. /\ agnss_nif!HandleReply /\ writing' = Notified(agnss_client, agnss_client', e)
          /\ UNCHANGED wifiVars
      BY <1>2 DEF AgnssReply
    <2>2. agnss_subs \subseteq {s} /\ DOMAIN agnss_client = {s}
      BY DEF B!MachineInv, B!TypeOK, B!MachineTypeOK
    <2>3. \/ agnss_client' = agnss_client
          \/ \E t \in agnss_subs :
               \/ agnss_client[t] = "waiting" /\ agnss_client'[t] = "granted" /\ e = "RSRC_GRANTED"
               \/ agnss_client[t] = "waiting" /\ agnss_client'[t] = "none" /\ e = "RSRC_DENIED"
               \/ agnss_client[t] = "granted" /\ agnss_client'[t] = "none" /\ e = "RSRC_RELEASED"
               \/ /\ agnss_client[t] = "closing" /\ agnss_client'[t] = "none"
                  /\ e \in {"RSRC_RELEASED", "RSRC_DENIED"}
               \/ agnss_client[t] = "denied" /\ agnss_client'[t] = "granted" /\ e = "RSRC_GRANTED"
               \/ /\ agnss_client[t] = "denied" /\ agnss_client'[t] = "none"
                  /\ e \in {"RSRC_RELEASED", "RSRC_DENIED"}
      <3>1. \A t, u \in agnss_subs : t = u
        BY <2>2
      <3> QED
        BY <2>1, <3>1, SameAgnss, Configured, B!ReplyTells
    <2> HIDE DEF e
    <2>4. s \in Senders /\ Status(s) = agnss_client[s] /\ Status(s)' = agnss_client'[s]
      BY SenderFacts DEF Status
    <2>5. \A t \in Senders \ {s} : Status(t)' = Status(t)
      BY <2>1, SenderFacts, StatusKept
    <2>6. CASE agnss_client' = agnss_client
      <3>1. writing' = <<>>
        BY <2>1, <2>6, NotifiedNone
      <3> QED
        BY <2>4, <2>5, <2>6, <3>1
    <2>7. CASE agnss_client' # agnss_client
      <3>1. \/ agnss_client[s] = "waiting" /\ agnss_client'[s] = "granted" /\ e = "RSRC_GRANTED"
            \/ agnss_client[s] = "waiting" /\ agnss_client'[s] = "none" /\ e = "RSRC_DENIED"
            \/ agnss_client[s] = "granted" /\ agnss_client'[s] = "none" /\ e = "RSRC_RELEASED"
            \/ /\ agnss_client[s] = "closing" /\ agnss_client'[s] = "none"
               /\ e \in {"RSRC_RELEASED", "RSRC_DENIED"}
            \/ agnss_client[s] = "denied" /\ agnss_client'[s] = "granted" /\ e = "RSRC_GRANTED"
            \/ /\ agnss_client[s] = "denied" /\ agnss_client'[s] = "none"
               /\ e \in {"RSRC_RELEASED", "RSRC_DENIED"}
        BY <2>2, <2>3, <2>7
      <3>2. writing' = notify(s, e)
        <4>1. {t \in DOMAIN agnss_client : agnss_client'[t] # agnss_client[t]} = {s}
          BY <2>2, <3>1
        <4> QED
          BY <2>1, <4>1, NotifiedIs
      <3>3. \E r \in Results : writing' = << <<s, r>> >> /\ Tells(Status(s), Status(s)', r)
        BY <2>4, <3>1, <3>2, NotifyIs DEF Tells, Results
      <3> QED
        BY <2>4, <2>5, <3>3
    <2> QED
      BY <2>6, <2>7
  <1> QED
    BY <1>1, <1>2

(* The framework's own steps tell nobody anything. *)
LEMMA AfwEffect ==
  ASSUME WifiAfw \/ AgnssAfw \/ WifiLost \/ AgnssLost
  PROVE  /\ UNCHANGED <<threadVars, pipeVars, senderVars>>
         /\ \A t \in Senders : Status(t)' = Status(t)
  <1>1. UNCHANGED <<wifi_client, agnss_client>>
    BY DEF WifiAfw, AgnssAfw, WifiLost, AgnssLost, wifiVars, agnssVars,
       wifi_nif!AfwRequest, wifi_nif!AfwOpened, wifi_nif!AfwOpenFailed, wifi_nif!AfwRelease,
       wifi_nif!AfwConnectionLost, wifi_nif!machineVars, agnss_nif!AfwRequest,
       agnss_nif!AfwOpened, agnss_nif!AfwOpenFailed, agnss_nif!AfwRelease,
       agnss_nif!AfwConnectionLost, agnss_nif!machineVars
  <1> QED
    BY <1>1 DEF WifiAfw, AgnssAfw, WifiLost, AgnssLost, Status

(* The parts of the one answer to be written *)
LEMMA OneAnswer ==
  ASSUME NEW x, NEW s, NEW r, x = << <<s, r>> >>
  PROVE  Head(x)[1] = s /\ Head(x)[2] = r /\ Tail(x) = <<>> /\ x # <<>> /\ Len(x) = 1
  <1>1. Head(x) = <<s, r>> /\ x # <<>> /\ Len(x) = 1
    OBVIOUS
  <1>2. Tail(x) = <<>>
    OBVIOUS
  <1> QED
    BY <1>1, <1>2

-----------------------------------------------------------------------------
(* Types *)

(* The types are kept by every step. *)
LEMMA TypeStep == PipesTyped /\ W!MachineInv /\ B!MachineInv /\ [Next]_vars => PipesTyped'
  <1> SUFFICES ASSUME PipesTyped, W!MachineInv, B!MachineInv, [Next]_vars PROVE PipesTyped'
    OBVIOUS
  <1> DEFINE One(x) == x = <<>> \/ \E s \in Senders, r \in Results : x = << <<s, r>> >>
  <1>t. /\ server \in {"none", "init", "loop", "exited"} /\ fds \subseteq Pipes
        /\ server_pipe \in Seq(Messages) /\ deferred_q \in Seq(Messages)
        /\ resp_pipe \in [Senders -> Seq(Results)] /\ One(writing)
        /\ sender \in [Senders -> SenderStates]
    BY DEF PipesTyped
  <1> HIDE DEF One
  <1>g. ASSUME server' \in {"none", "init", "loop", "exited"}, fds' \subseteq Pipes,
               server_pipe' \in Seq(Messages), deferred_q' \in Seq(Messages),
               resp_pipe' \in [Senders -> Seq(Results)], One(writing'),
               sender' \in [Senders -> SenderStates]
        PROVE  PipesTyped'
    BY <1>g DEF PipesTyped, One
  <1>1. CASE FrameworkThread \/ loc_api_server_proc_init \/ loc_api_server_proc_post
    <2>1. UNCHANGED <<server_pipe, deferred_q, resp_pipe, writing, sender>>
      BY <1>1 DEF FrameworkThread, loc_eng_dmn_conn_launch_thelper, thelper_signal_wait,
       SpuriousWakeup, loc_api_server_proc_init, loc_api_server_proc_post, pipeVars, senderVars
    <2>2. server' \in {"none", "init", "loop", "exited"} /\ fds' \subseteq Pipes
      BY <1>1, <1>t DEF FrameworkThread, loc_eng_dmn_conn_launch_thelper, thelper_signal_wait,
       SpuriousWakeup, loc_api_server_proc_init, loc_api_server_proc_post
    <2> QED
      BY <1>t, <1>g, <2>1, <2>2
  <1>2. CASE loc_api_server_proc
    <2>1. UNCHANGED <<server, fds, resp_pipe, writing, sender>>
      BY <1>2 DEF loc_api_server_proc, threadVars, senderVars
    <2>2. /\ server_pipe # <<>> /\ server_pipe' = Tail(server_pipe)
          /\ deferred_q' = deferred_q \o if_handler(Head(server_pipe))
      BY <1>2 DEF loc_api_server_proc
    <2>3. if_handler(Head(server_pipe)) \in Seq(Messages) /\ server_pipe' \in Seq(Messages)
      BY <1>t, <2>2 DEF if_handler
    <2>4. deferred_q' \in Seq(Messages)
      BY <1>t, <2>2, <2>3
    <2> QED
      BY <1>t, <1>g, <2>1, <2>3, <2>4
  <1>3. CASE RequestWifi \/ RequestBit \/ ReleaseWifi \/ ReleaseBit
    <2>1. /\ UNCHANGED <<server, fds, server_pipe, resp_pipe, sender>>
          /\ deferred_q # <<>> /\ deferred_q' = Tail(deferred_q) /\ writing = <<>>
      BY <1>3 DEF RequestWifi, RequestBit, ReleaseWifi, ReleaseBit, TakesMessage, threadVars
    <2>2. One(writing')
      <3>1. CASE RequestWifi \/ (RequestBit /\ Head(deferred_q).type = "SUPL")
        BY <3>1, RequestEffect DEF One
      <3>2. CASE RequestBit /\ Head(deferred_q).type # "SUPL"
        BY <3>2, <2>1 DEF RequestBit, One
      <3>3. CASE ReleaseWifi \/ ReleaseBit
        <4>1. "RELEASE_SUCCESS" \in Results
          BY DEF Results
        <4> QED
          BY <3>3, <4>1, ReleaseEffect DEF One
      <3> QED
        BY <1>3, <3>1, <3>2, <3>3
    <2>3. deferred_q' \in Seq(Messages)
      BY <1>t, <2>1
    <2> QED
      BY <1>t, <1>g, <2>1, <2>2, <2>3
  <1>4. CASE WifiReply \/ AgnssReply
    <2>1. UNCHANGED <<server, fds, server_pipe, deferred_q, resp_pipe, sender>>
      BY <1>4 DEF WifiReply, AgnssReply, threadVars, senderVars
    <2>2. One(writing')
      BY <1>4, ReplyEffect DEF One
    <2> QED
      BY <1>t, <1>g, <2>1, <2>2
  <1>5. CASE EngineUp
    BY <1>5, <1>t, <1>g DEF EngineUp, threadVars, pipeVars
  <1>6. CASE loc_eng_dmn_conn_glue_msgsnd
    <2>1. /\ UNCHANGED <<server, fds, server_pipe, deferred_q, sender>>
          /\ writing # <<>> /\ writing' = Tail(writing)
          /\ \/ resp_pipe' = [resp_pipe EXCEPT ![Head(writing)[1]] = Append(@, Head(writing)[2])]
             \/ UNCHANGED resp_pipe
      BY <1>6 DEF loc_eng_dmn_conn_glue_msgsnd, threadVars, senderVars
    <2>2. PICK s \in Senders, r \in Results : writing = << <<s, r>> >>
      BY <1>t, <2>1 DEF One
    <2>3. Head(writing)[1] = s /\ Head(writing)[2] = r /\ Tail(writing) = <<>>
      BY <2>2, OneAnswer
    <2>4. One(writing')
      BY <2>1, <2>3 DEF One
    <2>5. resp_pipe' = [resp_pipe EXCEPT ![s] = Append(@, r)] \/ UNCHANGED resp_pipe
      BY <2>1, <2>3
    <2>6. Append(resp_pipe[s], r) \in Seq(Results)
      BY <1>t
    <2>7. resp_pipe' \in [Senders -> Seq(Results)]
      BY <1>t, <2>5, <2>6
    <2> QED
      BY <1>t, <1>g, <2>1, <2>4, <2>7
  <1>7. ASSUME NEW s \in Senders, SenderRequests(s) \/ SenderReleases(s) PROVE PipesTyped'
    <2>1. /\ UNCHANGED <<server, fds, deferred_q, resp_pipe, writing>>
          /\ \E st \in {"asking", "releasing"} : sender' = [sender EXCEPT ![s] = st]
          /\ \E id \in Ids, type \in {"WIFI", "SUPL", "OTHER"} :
                /\ s \in WifiSenders => type = "WIFI"
                /\ id = "RELEASE" /\ s = "GPSONE_DAEMON" => type = "SUPL"
                /\ server_pipe' = Append(server_pipe, [id |-> id, sender |-> s, type |-> type])
      <3>1. CASE SenderRequests(s)
        BY <3>1, SenderFacts DEF SenderRequests, Send, Types, threadVars, Ids
      <3>2. CASE SenderReleases(s)
        BY <3>2, SenderFacts DEF SenderReleases, Send, threadVars, Ids
      <3> QED
        BY <1>7, <3>1, <3>2
    <2>2. sender' \in [Senders -> SenderStates]
      BY <1>t, <2>1 DEF SenderStates
    <2>3. server_pipe' \in Seq(Messages)
      <3>1. PICK id \in Ids, type \in {"WIFI", "SUPL", "OTHER"} :
                /\ s \in WifiSenders => type = "WIFI"
                /\ id = "RELEASE" /\ s = "GPSONE_DAEMON" => type = "SUPL"
                /\ server_pipe' = Append(server_pipe, [id |-> id, sender |-> s, type |-> type])
        BY <2>1
      <3>2. [id |-> id, sender |-> s, type |-> type] \in Messages
        BY <3>1 DEF Messages
      <3> QED
        BY <1>t, <3>1, <3>2
    <2> QED
      BY <1>t, <1>g, <2>1, <2>2, <2>3
  <1>8. ASSUME NEW s \in Senders, SenderReads(s) PROVE PipesTyped'
    <2>1. /\ UNCHANGED <<server, fds, server_pipe, deferred_q, writing>>
          /\ resp_pipe[s] # <<>> /\ resp_pipe' = [resp_pipe EXCEPT ![s] = Tail(@)]
          /\ \E st \in {"idle", "releasing", "granted"} : sender' = [sender EXCEPT ![s] = st]
      BY <1>8 DEF SenderReads, threadVars
    <2>2. sender' \in [Senders -> SenderStates] /\ resp_pipe' \in [Senders -> Seq(Results)]
      BY <1>t, <2>1 DEF SenderStates
    <2> QED
      BY <1>t, <1>g, <2>1, <2>2
  <1>9. CASE WifiAfw \/ AgnssAfw \/ WifiLost \/ AgnssLost
    BY <1>9, <1>t, <1>g, AfwEffect DEF threadVars, pipeVars, senderVars
  <1>10. CASE UNCHANGED vars
    BY <1>10, <1>t, <1>g DEF vars, threadVars, pipeVars, senderVars
  <1> QED
    BY <1>1, <1>2, <1>3, <1>4, <1>5, <1>6, <1>7, <1>8, <1>9, <1>10
       DEF Next, ServerThread, DeferredThread

-----------------------------------------------------------------------------
(* The senders stay in order *)

(* A sender none of whose parts change stays in order. *)
LEMMA GoodKept ==
  ASSUME NEW t \in Senders, Good(t), sender'[t] = sender[t], Status(t)' = Status(t),
         Answers(t)' = Answers(t), \A w \in Words : Sent(Flight, t, w) => Sent(Flight', t, w)
  PROVE  Good(t)'
  BY DEF Good

(* A sender is in order if some word shows it. *)
LEMMA GoodNow ==
  ASSUME NEW t \in Senders, NEW w \in Words, Sent(Flight', t, w),
         Fits(sender'[t], Status(t)', w, Answers(t)')
  PROVE  Good(t)'
  BY DEF Good

(* A message the deferred thread takes: the word of its sender is one      *)
(* shorter, the others keep theirs.                                        *)
LEMMA TakesWord ==
  ASSUME PipesTyped, NEW id, TakesMessage(id), NEW t \in Senders, NEW w \in Words,
         Sent(Flight, t, w)
  PROVE  /\ Head(deferred_q).sender # t => Sent(Flight', t, w)
         /\ Head(deferred_q).sender = t => /\ w # <<>> /\ Head(w) = id
                                           /\ Sent(Flight', t, Tail(w))
  <1>1. /\ deferred_q \in Seq(Messages) /\ server_pipe \in Seq(Messages)
        /\ deferred_q # <<>> /\ Head(deferred_q).id = id
        /\ deferred_q' = Tail(deferred_q) /\ server_pipe' = server_pipe
    BY DEF TakesMessage, PipesTyped
  <1>2. /\ Flight \in Seq(Messages) /\ Flight # <<>> /\ Flight' = Tail(Flight)
        /\ Head(Flight) = Head(deferred_q)
    BY <1>1, FlightMoves DEF Flight
  <1>3. w \in Seq(Ids)
    BY WordFacts
  <1> QED
    BY <1>1, <1>2, <1>3, SentTail

(* A request leaves every sender in order, its own included. *)
LEMMA RequestKeeps ==
  ASSUME DmnInv, RequestWifi \/ RequestBit, NEW t \in (Senders \cap fds) \ lost, Good(t)
  PROVE  Good(t)'
  <1>s. PICK s : s = Head(deferred_q).sender
    OBVIOUS
  <1>i. PipesTyped /\ W!MachineInv /\ B!MachineInv /\ LostInv
    BY DEF DmnInv
  <1>a. /\ TakesMessage("REQUEST") /\ writing = <<>> /\ UNCHANGED <<resp_pipe, sender>>
    BY DEF RequestWifi, RequestBit, TakesMessage
  <1>b. Head(deferred_q) \in Messages /\ Head(deferred_q).id = "REQUEST" /\ deferred_q # <<>>
    BY <1>a, <1>i DEF TakesMessage, PipesTyped
  <1>w. PICK w \in Words : Sent(Flight, t, w) /\ Fits(sender[t], Status(t), w, Answers(t))
    BY DEF Good
  <1>1. CASE RequestBit /\ Head(deferred_q).type # "SUPL"
    <2>1. s = "GPSONE_DAEMON" /\ UNCHANGED <<wifiVars, agnssVars, writing>>
      BY <1>1, <1>s DEF RequestBit
    <2>2. t # s
      <3>1. /\ deferred_q \in Seq(Messages) /\ server_pipe \in Seq(Messages)
        BY <1>i DEF PipesTyped
      <3>2. 1 \in 1..Len(Flight) /\ Flight[1] = Head(deferred_q)
        BY <1>b, <3>1 DEF Flight
      <3> QED
        BY <1>1, <1>b, <1>i, <1>s, <2>1, <3>2 DEF LostInv, Logged
    <2>3. Status(t)' = Status(t) /\ Answers(t)' = Answers(t)
      BY <2>1, <1>a, SenderFacts, StatusKept, AnswersSame
    <2>4. Sent(Flight', t, w)
      BY <1>i, <1>a, <1>w, <1>s, <2>2, TakesWord
    <2> QED
      BY <1>a, <1>w, <2>3, <2>4, GoodNow
  <1>2. CASE RequestWifi \/ (RequestBit /\ Head(deferred_q).type = "SUPL")
    <2>1. /\ s \in Senders
          /\ \A u \in Senders \ {s} : Status(u)' = Status(u)
          /\ writing' = <<>> \/ \E r \in Results : writing' = << <<s, r>> >>
          /\ Status(s) = "none" =>
                \/ Status(s)' = "none" /\ writing' = << <<s, "FAILURE">> >>
                \/ Status(s)' = "granted" /\ writing' = << <<s, "REQUEST_SUCCESS">> >>
                \/ Status(s)' = "waiting" /\ writing' = <<>>
      BY <1>2, <1>i, <1>s, RequestEffect
    <2>2. CASE t # s
      <3>1. Answers(t)' = Answers(t)
        BY <1>i, <1>a, <2>1, <2>2, AnswersKept, AnswersWrite
      <3>2. Sent(Flight', t, w)
        BY <1>i, <1>a, <1>w, <2>2, TakesWord, <1>s
      <3> QED
        BY <1>a, <1>w, <2>1, <2>2, <3>1, <3>2, GoodNow
    <2>3. CASE t = s
      <3>1. w # <<>> /\ Head(w) = "REQUEST" /\ Sent(Flight', t, Tail(w))
        BY <1>i, <1>a, <1>w, <2>3, TakesWord, <1>s
      <3>2. /\ Status(t) = "none" /\ Answers(t) = <<>> /\ Tail(w) \in Words
            /\ Fits(sender[t], "none", Tail(w), <<"FAILURE">>)
            /\ Fits(sender[t], "waiting", Tail(w), <<>>)
            /\ Fits(sender[t], "granted", Tail(w), <<"REQUEST_SUCCESS">>)
        BY <1>w, <3>1, FitsRequest
      <3>3. Fits(sender[t], Status(t)', Tail(w), Answers(t)')
        <4>r. "FAILURE" \in Results /\ "REQUEST_SUCCESS" \in Results
          BY DEF Results
        <4>1. CASE Status(t)' = "waiting" /\ writing' = <<>>
          <5>1. Answers(t)' = <<>>
            BY <1>a, <3>2, <4>1, AnswersKept
          <5> QED
            BY <3>2, <4>1, <5>1
        <4>2. CASE Status(t)' = "none" /\ writing' = << <<s, "FAILURE">> >>
          <5>1. Answers(t)' = <<"FAILURE">>
            BY <1>i, <1>a, <2>3, <3>2, <4>r, <4>2, AnswersWrite, AppendAnswers
          <5> QED
            BY <3>2, <4>2, <5>1
        <4>3. CASE Status(t)' = "granted" /\ writing' = << <<s, "REQUEST_SUCCESS">> >>
          <5>1. Answers(t)' = <<"REQUEST_SUCCESS">>
            BY <1>i, <1>a, <2>3, <3>2, <4>r, <4>3, AnswersWrite, AppendAnswers
          <5> QED
            BY <3>2, <4>3, <5>1
        <4> QED
          BY <2>1, <2>3, <3>2, <4>1, <4>2, <4>3
      <3> QED
        BY <1>a, <3>1, <3>2, <3>3, GoodNow
    <2> QED
      BY <2>2, <2>3
  <1> QED
    BY <1>1, <1>2

(* A release leaves every sender in order. *)
LEMMA ReleaseKeeps ==
  ASSUME DmnInv, ReleaseWifi \/ ReleaseBit, NEW t \in (Senders \cap fds) \ lost, Good(t)
  PROVE  Good(t)'
  <1>s. PICK s : s = Head(deferred_q).sender
    OBVIOUS
  <1>i. PipesTyped /\ W!MachineInv /\ B!MachineInv /\ LostInv
    BY DEF DmnInv
  <1>a. /\ TakesMessage("RELEASE") /\ writing = <<>> /\ UNCHANGED <<resp_pipe, sender>>
    BY DEF ReleaseWifi, ReleaseBit, TakesMessage
  <1>w. PICK w \in Words : Sent(Flight, t, w) /\ Fits(sender[t], Status(t), w, Answers(t))
    BY DEF Good
  <1>1. /\ s \in Senders
        /\ \A u \in Senders \ {s} : Status(u)' = Status(u)
        /\ \/ /\ Status(s) \in {"none", "dropped"}
              /\ Status(s)' = Status(s) /\ writing' = <<>>
           \/ /\ Status(s) \in {"waiting", "granted", "closing", "denied"}
              /\ \/ Status(s)' = "closing" /\ writing' = <<>>
                 \/ Status(s)' = "none" /\ writing' = << <<s, "RELEASE_SUCCESS">> >>
    BY <1>i, <1>s, ReleaseEffect
  <1>r. "RELEASE_SUCCESS" \in Results
    BY DEF Results
  <1>2. CASE t # s
    <2>1. Answers(t)' = Answers(t)
      BY <1>i, <1>a, <1>r, <1>1, <1>2, AnswersKept, AnswersWrite
    <2>2. Sent(Flight', t, w)
      BY <1>i, <1>a, <1>w, <1>2, TakesWord, <1>s
    <2> QED
      BY <1>a, <1>w, <1>1, <1>2, <2>1, <2>2, GoodNow
  <1>3. CASE t = s
    <2>1. w # <<>> /\ Head(w) = "RELEASE" /\ Sent(Flight', t, Tail(w))
      BY <1>i, <1>a, <1>w, <1>3, TakesWord, <1>s
    <2>2. /\ Tail(w) \in Words
          /\ Status(t) \in {"none", "waiting", "granted"}
          /\ Status(t) = "none" => Fits(sender[t], Status(t), Tail(w), Answers(t))
          /\ Status(t) \in {"waiting", "granted"} =>
                /\ Fits(sender[t], "closing", Tail(w), Answers(t))
                /\ Fits(sender[t], "none", Tail(w), Append(Answers(t), "RELEASE_SUCCESS"))
      BY <1>w, <2>1, FitsRelease
    <2>3. Fits(sender[t], Status(t)', Tail(w), Answers(t)')
      <3>1. CASE writing' = <<>>
        <4>1. Answers(t)' = Answers(t)
          BY <1>a, <3>1, AnswersKept
        <4> QED
          BY <1>1, <1>3, <2>2, <3>1, <4>1
      <3>2. CASE writing' = << <<s, "RELEASE_SUCCESS">> >>
        <4>1. Answers(t)' = Append(Answers(t), "RELEASE_SUCCESS") /\ writing' # <<>>
          BY <1>i, <1>a, <1>r, <1>3, <3>2, AnswersWrite
        <4> QED
          BY <1>1, <1>3, <2>2, <3>2, <4>1
      <3> QED
        BY <1>1, <3>1, <3>2
    <2> QED
      BY <1>a, <2>1, <2>2, <2>3, GoodNow
  <1> QED
    BY <1>2, <1>3

(* A reply of the framework leaves every sender in order. *)
LEMMA ReplyKeeps ==
  ASSUME DmnInv, WifiReply \/ AgnssReply, NEW t \in (Senders \cap fds) \ lost, Good(t)
  PROVE  Good(t)'
  <1>i. PipesTyped /\ W!MachineInv /\ B!MachineInv
    BY DEF DmnInv
  <1>a. writing = <<>> /\ UNCHANGED <<resp_pipe, sender, deferred_q, server_pipe>>
    BY DEF WifiReply, AgnssReply, senderVars
  <1>w. PICK w \in Words : Sent(Flight, t, w) /\ Fits(sender[t], Status(t), w, Answers(t))
    BY DEF Good
  <1>f. Sent(Flight', t, w)
    BY <1>a, <1>w DEF Flight
  <1>1. CASE writing' = <<>> /\ \A u \in Senders : Status(u)' = Status(u)
    <2>1. Answers(t)' = Answers(t)
      BY <1>a, <1>1, AnswersKept
    <2> QED
      BY <1>a, <1>w, <1>f, <1>1, <2>1, GoodNow
  <1>2. ASSUME NEW s \in Senders, NEW r \in Results, writing' = << <<s, r>> >>,
               \A u \in Senders \ {s} : Status(u)' = Status(u), Tells(Status(s), Status(s)', r)
        PROVE  Good(t)'
    <2>1. Answers(t)' = IF t = s THEN Append(Answers(t), r) ELSE Answers(t)
      BY <1>i, <1>a, <1>2, AnswersWrite
    <2>2. CASE t # s
      BY <1>a, <1>w, <1>f, <1>2, <2>1, <2>2, GoodNow
    <2>3. CASE t = s
      <3>0. Status(t) # "denied"
        BY <1>w, FitsReply
      <3>1. Fits(sender[t], Status(t)', w, Append(Answers(t), r))
        BY <1>w, <1>2, <2>3, <3>0, FitsReply DEF Tells
      <3> QED
        BY <1>a, <1>f, <2>1, <2>3, <3>1, GoodNow
    <2> QED
      BY <2>2, <2>3
  <1> QED
    BY <1>i, <1>1, <1>2, ReplyEffect

(* The pipes of the daemons are opened once, before anything is sent, and  *)
(* closed for ever; a lost sender stays lost.                              *)
LEMMA ScopeKept ==
  ASSUME PipesTyped, [Next]_vars
  PROVE  /\ loc_api_server_proc_init \/ fds' = fds \/ fds' = {}
         /\ lost \subseteq lost'
  <1>1. CASE FrameworkThread \/ ServerThread \/ loc_api_server_proc_post
    BY <1>1 DEF FrameworkThread, loc_eng_dmn_conn_launch_thelper, thelper_signal_wait,
       SpuriousWakeup, ServerThread, loc_api_server_proc_init, loc_api_server_proc,
       loc_api_server_proc_post, threadVars, senderVars
  <1>2. CASE DeferredThread \/ EngineUp
    BY <1>2 DEF DeferredThread, RequestWifi, RequestBit, ReleaseWifi, ReleaseBit, TakesMessage,
       WifiReply, AgnssReply, loc_eng_dmn_conn_glue_msgsnd, EngineUp, threadVars, senderVars
  <1>3. ASSUME NEW s \in Senders, SenderRequests(s) \/ SenderReleases(s) \/ SenderReads(s)
        PROVE  fds' = fds /\ lost \subseteq lost'
    <2>1. CASE SenderRequests(s)
      <3>1. PICK type \in Types(s) : Send(s, "REQUEST", type) /\
               lost' = IF s = "GPSONE_DAEMON" /\ type # "SUPL" THEN lost \cup {s} ELSE lost
        BY <2>1 DEF SenderRequests
      <3> QED
        BY <3>1 DEF Send, threadVars
    <2>2. CASE SenderReleases(s) \/ SenderReads(s)
      BY <2>2 DEF SenderReleases, SenderReads, Send, threadVars
    <2> QED
      BY <1>3, <2>1, <2>2
  <1>4. CASE WifiAfw \/ AgnssAfw \/ WifiLost \/ AgnssLost
    BY <1>4, AfwEffect DEF threadVars, senderVars
  <1>5. CASE UNCHANGED vars
    BY <1>5 DEF vars, threadVars, senderVars
  <1> QED
    BY <1>1, <1>2, <1>3, <1>4, <1>5 DEF Next

(* The server thread moves a message on, or drops one that the gpsOne      *)
(* daemon sent with an unknown type; the senders stay in order.            *)
LEMMA ProcKeeps ==
  ASSUME DmnInv, loc_api_server_proc, NEW t \in (Senders \cap fds) \ lost, Good(t)
  PROVE  Good(t)'
  <1>i. /\ deferred_q \in Seq(Messages) /\ server_pipe \in Seq(Messages) /\ LostInv
    BY DEF DmnInv, PipesTyped
  <1>a. /\ server_pipe # <<>> /\ server_pipe' = Tail(server_pipe)
        /\ deferred_q' = deferred_q \o if_handler(Head(server_pipe))
        /\ UNCHANGED <<resp_pipe, writing, sender, wifiVars, agnssVars>>
    BY DEF loc_api_server_proc, senderVars
  <1>w. PICK w \in Words : Sent(Flight, t, w) /\ Fits(sender[t], Status(t), w, Answers(t))
    BY DEF Good
  <1>b. Status(t)' = Status(t) /\ Answers(t)' = Answers(t)
    BY <1>a, SenderFacts, StatusKept, AnswersSame
  <1>m. PICK m \in Messages : m = Head(server_pipe)
    BY <1>i, <1>a
  <1>1. CASE m.type # "OTHER"
    <2>1. if_handler(Head(server_pipe)) = <<Head(server_pipe)>>
      BY <1>1, <1>m DEF if_handler
    <2>2. Flight' = Flight
      <3>1. Flight' = (deferred_q \o <<Head(server_pipe)>>) \o Tail(server_pipe)
        BY <1>a, <2>1 DEF Flight
      <3>2. (deferred_q \o <<Head(server_pipe)>>) \o Tail(server_pipe) = deferred_q \o server_pipe
        BY <1>i, <1>a, FlightMoves
      <3> QED
        BY <3>1, <3>2 DEF Flight
    <2> QED
      BY <1>a, <1>b, <1>w, <2>2, GoodNow
  <1>2. CASE m.type = "OTHER"
    <2>1. m.sender = "GPSONE_DAEMON" /\ m.id = "REQUEST" /\ m.type # "SUPL"
      BY <1>2, <1>m, SenderFacts DEF Messages, Ids
    <2>2. t # m.sender
      <3>1. Len(deferred_q) + 1 \in 1..Len(Flight) /\ Flight[Len(deferred_q) + 1] = m
        BY <1>i, <1>a, <1>m DEF Flight
      <3> QED
        BY <1>i, <2>1, <3>1 DEF LostInv, Logged
    <2>3. if_handler(Head(server_pipe)) = <<>>
      BY <1>2, <1>m DEF if_handler
    <2>4. Flight' = deferred_q \o Tail(server_pipe)
      BY <1>i, <1>a, <2>3, FlightMoves DEF Flight
    <2>5. Sent(Flight', t, w)
      <3>1. w \in Seq(Ids) /\ Sent(deferred_q \o server_pipe, t, w) /\ Head(server_pipe).sender # t
        BY <1>w, <1>m, <2>2, WordFacts DEF Flight
      <3>2. Sent(deferred_q \o Tail(server_pipe), t, w)
        BY <1>i, <1>a, <3>1, SentDrop
      <3> QED
        BY <2>4, <3>2
    <2> QED
      BY <1>a, <1>b, <1>w, <2>5, GoodNow
  <1> QED
    BY <1>1, <1>2

(* An answer that is written moves from the deferred thread to the pipe. *)
LEMMA WrittenAnswer ==
  ASSUME PipesTyped, loc_eng_dmn_conn_glue_msgsnd, NEW t \in Senders \cap fds
  PROVE  Answers(t)' = Answers(t)
  <1>1. /\ writing # <<>> /\ writing' = Tail(writing)
        /\ \/ resp_pipe' = [resp_pipe EXCEPT ![Head(writing)[1]] = Append(@, Head(writing)[2])]
           \/ Head(writing)[1] \notin fds /\ UNCHANGED resp_pipe
    BY DEF loc_eng_dmn_conn_glue_msgsnd
  <1>2. PICK s \in Senders, r \in Results : writing = << <<s, r>> >>
    BY <1>1 DEF PipesTyped
  <1>3. Head(writing)[1] = s /\ Head(writing)[2] = r /\ Tail(writing) = <<>>
    BY <1>2, OneAnswer
  <1>4. resp_pipe \in [Senders -> Seq(Results)]
    BY DEF PipesTyped
  <1>5. Answers(t) = IF t = s THEN Append(resp_pipe[t], r) ELSE resp_pipe[t]
    BY <1>2, AnswersOne
  <1>6. resp_pipe'[t] = IF t = s THEN Append(resp_pipe[t], r) ELSE resp_pipe[t]
    BY <1>1, <1>3, <1>4
  <1>7. resp_pipe'[t] \in Seq(Results)
    BY <1>4, <1>6
  <1>8. Answers(t)' = resp_pipe'[t] \o <<>>
    BY <1>1, <1>3 DEF Answers
  <1> QED
    BY <1>5, <1>6, <1>7, <1>8

(* A daemon that sends is in order with its longer word. *)
LEMMA SendKeeps ==
  ASSUME DmnInv, NEW s \in Senders, SenderRequests(s) \/ SenderReleases(s),
         NEW t \in (Senders \cap fds) \ lost, Good(t)
  PROVE  Good(t)'
  <1>i. /\ deferred_q \in Seq(Messages) /\ server_pipe \in Seq(Messages) /\ PipesTyped
        /\ sender \in [Senders -> SenderStates]
    BY DEF DmnInv, PipesTyped
  <1>w. PICK w \in Words : Sent(Flight, t, w) /\ Fits(sender[t], Status(t), w, Answers(t))
    BY DEF Good
  <1>1. PICK id \in Ids, type \in {"WIFI", "SUPL", "OTHER"} :
          /\ Send(s, id, type)
          /\ [id |-> id, sender |-> s, type |-> type] \in Messages
          /\ \/ id = "REQUEST" /\ sender[s] = "idle" /\ sender' = [sender EXCEPT ![s] = "asking"]
             \/ /\ id = "RELEASE" /\ sender[s] \in {"asking", "granted"}
                /\ sender' = [sender EXCEPT ![s] = "releasing"]
    <2>1. CASE SenderRequests(s)
      <3>1. PICK type \in Types(s) : Send(s, "REQUEST", type)
        BY <2>1 DEF SenderRequests
      <3>2. type \in {"WIFI", "SUPL", "OTHER"} /\ (s \in WifiSenders => type = "WIFI")
        BY <3>1 DEF Types
      <3>3. [id |-> "REQUEST", sender |-> s, type |-> type] \in Messages
        BY <3>2 DEF Messages, Ids
      <3> QED
        BY <2>1, <3>1, <3>2, <3>3 DEF SenderRequests, Ids
    <2>2. CASE SenderReleases(s)
      <3>1. PICK type \in {"WIFI", "SUPL"} :
              Send(s, "RELEASE", type) /\ type = IF s \in WifiSenders THEN "WIFI" ELSE "SUPL"
        BY <2>2 DEF SenderReleases
      <3>2. [id |-> "RELEASE", sender |-> s, type |-> type] \in Messages
        BY <3>1, SenderFacts DEF Messages, Ids
      <3> QED
        BY <2>2, <3>1, <3>2 DEF SenderReleases, Ids
    <2> QED
      BY <2>1, <2>2
  <1>2. PICK m \in Messages : m = [id |-> id, sender |-> s, type |-> type]
    BY <1>1
  <1>3. /\ UNCHANGED <<resp_pipe, writing, deferred_q, wifiVars, agnssVars>>
        /\ server_pipe' = Append(server_pipe, m) /\ m.id = id /\ m.sender = s
    BY <1>1, <1>2 DEF Send
  <1>4. Status(t)' = Status(t) /\ Answers(t)' = Answers(t)
    BY <1>3, SenderFacts, StatusKept, AnswersSame
  <1>5. Flight \in Seq(Messages) /\ Flight' = Append(Flight, m)
    BY <1>i, <1>3, FlightMoves DEF Flight
  <1>6. w \in Seq(Ids)
    BY WordFacts
  <1>7. Sent(Append(Flight, m), t, IF m.sender = t THEN Append(w, m.id) ELSE w)
    BY <1>1, <1>3, <1>5, <1>6, <1>w, SentAppend
  <1>8. CASE t # s
    <2>1. sender'[t] = sender[t]
      BY <1>1, <1>8, <1>i
    <2>2. Sent(Flight', t, w)
      BY <1>3, <1>5, <1>7, <1>8
    <2> QED
      BY <1>4, <1>w, <2>1, <2>2, GoodNow
  <1>9. CASE t = s
    <2>1. Sent(Flight', t, Append(w, id))
      BY <1>3, <1>5, <1>7, <1>9
    <2>2. Append(w, id) \in Words /\ Fits(sender'[t], Status(t), Append(w, id), Answers(t))
      <3>1. CASE id = "REQUEST" /\ sender[s] = "idle" /\ sender' = [sender EXCEPT ![s] = "asking"]
        <4>1. sender'[t] = "asking" /\ sender[t] = "idle"
          BY <3>1, <1>9, <1>i
        <4> QED
          BY <3>1, <4>1, <1>w, FitsSend
      <3>2. CASE /\ id = "RELEASE" /\ sender[s] \in {"asking", "granted"}
                 /\ sender' = [sender EXCEPT ![s] = "releasing"]
        <4>1. sender'[t] = "releasing" /\ sender[t] \in {"asking", "granted"}
          BY <3>2, <1>9, <1>i
        <4> QED
          BY <3>2, <4>1, <1>w, FitsSend
      <3> QED
        BY <1>1, <3>1, <3>2
    <2> QED
      BY <1>4, <2>1, <2>2, GoodNow
  <1> QED
    BY <1>8, <1>9

(* What is read from the pipe is the first answer. *)
LEMMA ReadAnswer ==
  ASSUME PipesTyped, NEW s \in Senders, SenderReads(s)
  PROVE  /\ \A t \in Senders \ {s} : Answers(t)' = Answers(t)
         /\ Answers(s) # <<>> /\ Head(Answers(s)) = Head(resp_pipe[s])
         /\ Answers(s)' = Tail(Answers(s))
  <1>1. /\ resp_pipe \in [Senders -> Seq(Results)] /\ resp_pipe[s] # <<>>
        /\ resp_pipe' = [resp_pipe EXCEPT ![s] = Tail(@)] /\ UNCHANGED writing
    BY DEF PipesTyped, SenderReads
  <1>2. ASSUME NEW t \in Senders \ {s} PROVE Answers(t)' = Answers(t)
    <2>1. resp_pipe'[t] = resp_pipe[t]
      BY <1>1
    <2> QED
      BY <1>1, <2>1 DEF Answers
  <1>3. resp_pipe'[s] = Tail(resp_pipe[s]) /\ resp_pipe[s] \in Seq(Results)
    BY <1>1
  <1>4. PICK x \in Seq(Results) : /\ Answers(s) = resp_pipe[s] \o x
                                  /\ Answers(s)' = resp_pipe'[s] \o x
    <2>e. <<>> \in Seq(Results)
      OBVIOUS
    <2>1. CASE writing = <<>>
      <3>1. Answers(s) = resp_pipe[s] \o <<>> /\ Answers(s)' = resp_pipe'[s] \o <<>>
        BY <2>1, <1>1 DEF Answers
      <3> QED
        BY <2>e, <3>1
    <2>2. ASSUME NEW u \in Senders, NEW r \in Results, writing = << <<u, r>> >>
          PROVE  \E x \in Seq(Results) : /\ Answers(s) = resp_pipe[s] \o x
                                         /\ Answers(s)' = resp_pipe'[s] \o x
      <3>1. writing # <<>> /\ Head(writing)[1] = u /\ Head(writing)[2] = r
        BY <2>2, OneAnswer
      <3>2. CASE u = s
        <4>1. Answers(s) = resp_pipe[s] \o <<r>> /\ Answers(s)' = resp_pipe'[s] \o <<r>>
          BY <3>1, <3>2, <1>1 DEF Answers
        <4>2. <<r>> \in Seq(Results)
          OBVIOUS
        <4> QED
          BY <4>1, <4>2
      <3>3. CASE u # s
        <4>1. Answers(s) = resp_pipe[s] \o <<>> /\ Answers(s)' = resp_pipe'[s] \o <<>>
          BY <3>1, <3>3, <1>1 DEF Answers
        <4> QED
          BY <2>e, <4>1
      <3> QED
        BY <3>2, <3>3
    <2> QED
      BY <2>1, <2>2 DEF PipesTyped
  <1> QED
    BY <1>1, <1>2, <1>3, <1>4, FlightMoves

(* A daemon that reads an answer is in order with the rest. *)
LEMMA ReadKeeps ==
  ASSUME DmnInv, NEW s \in Senders, SenderReads(s), NEW t \in (Senders \cap fds) \ lost, Good(t)
  PROVE  Good(t)'
  <1>i. PipesTyped /\ sender \in [Senders -> SenderStates]
    BY DEF DmnInv, PipesTyped
  <1>a. /\ UNCHANGED <<server_pipe, deferred_q, wifiVars, agnssVars>>
        /\ sender' = [sender EXCEPT ![s] =
              IF Head(resp_pipe[s]) # "REQUEST_SUCCESS" THEN "idle"
              ELSE IF @ = "releasing" THEN "releasing" ELSE "granted"]
    BY DEF SenderReads
  <1>w. PICK w \in Words : Sent(Flight, t, w) /\ Fits(sender[t], Status(t), w, Answers(t))
    BY DEF Good
  <1>1. Sent(Flight', t, w) /\ Status(t)' = Status(t)
    BY <1>a, <1>w, SenderFacts, StatusKept DEF Flight
  <1>2. CASE t # s
    <2>1. Answers(t)' = Answers(t) /\ sender'[t] = sender[t]
      BY <1>2, <1>a, <1>i, ReadAnswer
    <2> QED
      BY <1>w, <1>1, <2>1, GoodNow
  <1>3. CASE t = s
    <2>1. /\ Answers(t) # <<>> /\ Head(Answers(t)) = Head(resp_pipe[t])
          /\ Answers(t)' = Tail(Answers(t))
      BY <1>3, <1>i, ReadAnswer
    <2>2. sender'[t] = IF Head(Answers(t)) # "REQUEST_SUCCESS" THEN "idle"
                       ELSE IF sender[t] = "releasing" THEN "releasing" ELSE "granted"
      BY <1>3, <1>a, <1>i, <2>1
    <2>3. Fits(sender'[t], Status(t), w, Tail(Answers(t)))
      BY <1>w, <2>1, <2>2, FitsRead
    <2> QED
      BY <1>1, <2>1, <2>3, GoodNow
  <1> QED
    BY <1>2, <1>3

(* A sender that never asked is in order. *)
LEMMA NothingSent ==
  ASSUME NEW s
  PROVE  Sent(<<>>, s, <<>>) /\ Fits("idle", "none", <<>>, <<>>) /\ <<>> \in Words
  <1>1. Sent(<<>>, s, <<>>)
    <2>1. [k \in 1..0 |-> 0] \in [1..0 -> 1..0]
      OBVIOUS
    <2>2. Len(<<>>) = 0 /\ 1..0 = {}
      OBVIOUS
    <2> QED
      BY <2>1, <2>2 DEF Sent
  <1> QED
    BY <1>1 DEF Fits, Words

(* When loc_api_server_proc_init opens the pipes nothing was sent, so      *)
(* every sender is in order.                                               *)
LEMMA FirstSenders ==
  ASSUME FreshInv, loc_api_server_proc_init
  PROVE  \A t \in Senders : Good(t)'
  <1> TAKE t \in Senders
  <1>1. /\ server_pipe = <<>> /\ deferred_q = <<>> /\ writing = <<>> /\ resp_pipe[t] = <<>>
        /\ sender[t] = "idle" /\ Status(t) = "none"
    BY DEF FreshInv, loc_api_server_proc_init
  <1>2. UNCHANGED <<server_pipe, deferred_q, writing, resp_pipe, sender, wifiVars, agnssVars>>
    BY DEF loc_api_server_proc_init, pipeVars, senderVars
  <1>3. Status(t)' = "none"
    BY <1>1, <1>2, SenderFacts, StatusKept
  <1>4. Answers(t)' = <<>> \o <<>> /\ Flight' = <<>> \o <<>>
    BY <1>1, <1>2 DEF Answers, Flight
  <1>5. <<>> \o <<>> = <<>>
    OBVIOUS
  <1> QED
    BY <1>1, <1>2, <1>3, <1>4, <1>5, NothingSent, GoodNow

(* Every step of the connection leaves the senders in order. *)
LEMMA SenderStep == DmnInv /\ [Next]_vars => SenderInv'
  <1> SUFFICES ASSUME DmnInv, [Next]_vars, NEW t \in (Senders \cap fds') \ lost' PROVE Good(t)'
    BY DEF SenderInv
  <1>i. PipesTyped /\ SenderInv /\ FreshInv
    BY DEF DmnInv
  <1>0. CASE loc_api_server_proc_init
    BY <1>0, <1>i, FirstSenders
  <1>s. ASSUME ~loc_api_server_proc_init PROVE t \in (Senders \cap fds) \ lost /\ Good(t)
    BY <1>s, <1>i, ScopeKept DEF SenderInv
  <1>q. ASSUME UNCHANGED <<pipeVars, sender>>, \A u \in Senders : Status(u)' = Status(u), Good(t)
        PROVE  Good(t)'
    <2>1. Answers(t)' = Answers(t) /\ Flight' = Flight /\ sender'[t] = sender[t]
      BY <1>q, AnswersSame DEF pipeVars, Flight
    <2> QED
      BY <1>q, <2>1, GoodKept
  <1>1. CASE ~loc_api_server_proc_init
            /\ (FrameworkThread \/ loc_api_server_proc_post \/ UNCHANGED vars)
    <2>1. UNCHANGED <<pipeVars, sender, wifiVars, agnssVars>>
      BY <1>1 DEF FrameworkThread, loc_eng_dmn_conn_launch_thelper, thelper_signal_wait,
         SpuriousWakeup, loc_api_server_proc_post, senderVars, vars
    <2>2. \A u \in Senders : Status(u)' = Status(u)
      BY <2>1, SenderFacts, StatusKept
    <2> QED
      BY <1>1, <1>s, <1>q, <2>1, <2>2
  <1>2. CASE ~loc_api_server_proc_init /\ (WifiAfw \/ AgnssAfw \/ WifiLost \/ AgnssLost)
    BY <1>2, <1>s, <1>q, AfwEffect DEF senderVars
  <1>3. CASE ~loc_api_server_proc_init /\ EngineUp
    <2>1. UNCHANGED <<pipeVars, sender, wifiVars>> /\ lost' = lost \cup agnss_subs
          /\ agnss_subs # {}
      BY <1>3 DEF EngineUp
    <2>2. t \in WifiSenders
      <3>1. agnss_subs = {"GPSONE_DAEMON"}
        BY <2>1 DEF DmnInv, B!MachineInv, B!TypeOK, B!MachineTypeOK
      <3> QED
        BY <2>1, <3>1, SenderFacts
    <2>3. Status(t)' = Status(t)
      BY <2>1, <2>2, StatusKept
    <2>4. Answers(t)' = Answers(t) /\ Flight' = Flight /\ sender'[t] = sender[t]
      BY <2>1, AnswersSame DEF pipeVars, Flight
    <2> QED
      BY <1>3, <1>s, <2>3, <2>4, GoodKept
  <1>4. CASE ~loc_api_server_proc_init /\ loc_eng_dmn_conn_glue_msgsnd
    <2>1. UNCHANGED <<server_pipe, deferred_q, sender, wifiVars, agnssVars>>
      BY <1>4 DEF loc_eng_dmn_conn_glue_msgsnd, senderVars
    <2>2. Status(t)' = Status(t) /\ Flight' = Flight /\ sender'[t] = sender[t]
      BY <2>1, SenderFacts, StatusKept DEF Flight
    <2>3. Answers(t)' = Answers(t) /\ Good(t)
      BY <1>4, <1>i, <1>s, WrittenAnswer
    <2> QED
      BY <2>2, <2>3, GoodKept
  <1>5. CASE /\ ~loc_api_server_proc_init
             /\ \/ loc_api_server_proc
                \/ RequestWifi \/ RequestBit \/ ReleaseWifi \/ ReleaseBit
                \/ WifiReply \/ AgnssReply
    BY <1>5, <1>s, ProcKeeps, RequestKeeps, ReleaseKeeps, ReplyKeeps
  <1>6. ASSUME ~loc_api_server_proc_init, NEW s \in Senders,
               SenderRequests(s) \/ SenderReleases(s) \/ SenderReads(s)
        PROVE  Good(t)'
    BY <1>6, <1>s, SendKeeps, ReadKeeps
  <1> QED
    BY <1>0, <1>1, <1>2, <1>3, <1>4, <1>5, <1>6 DEF Next, ServerThread, DeferredThread

-----------------------------------------------------------------------------
(* The sender that was dropped *)

(* A sender with no more than a release in flight has no request there. *)
LEMMA NoRequest ==
  ASSUME NEW q, NEW s, NEW w \in {<<>>, <<"RELEASE">>}, Sent(q, s, w)
  PROVE  \A i \in 1..Len(q) : q[i].sender = s => q[i].id # "REQUEST"
  <1>1. \A k \in 1..Len(w) : w[k] = "RELEASE"
    OBVIOUS
  <1> QED
    BY <1>1 DEF Sent

(* A sender the machine drops has no request in flight, and what is left   *)
(* on its pipe is at most a grant.                                         *)
LEMMA FitsDropped ==
  ASSUME NEW st, NEW c \in {"waiting", "granted"}, NEW w \in Words, NEW a, Fits(st, c, w, a)
  PROVE  w \in {<<>>, <<"RELEASE">>} /\ Unanswered(st, "dropped", a)
  BY DEF Fits, Unanswered

(* A modem restart drops the gpsOne daemon while it waits for or holds the *)
(* interface.                                                              *)
LEMMA RestartDrops ==
  ASSUME DmnInv, EngineUp
  PROVE  /\ agnss_subs = {"GPSONE_DAEMON"} /\ lost' = lost \cup {"GPSONE_DAEMON"}
         /\ Status("GPSONE_DAEMON") \in {"waiting", "granted"}
         /\ Status("GPSONE_DAEMON")' = "dropped"
  <1> DEFINE G == "GPSONE_DAEMON"
  <1>1. agnss_subs # {} /\ agnss_nif!EngineUp /\ lost' = lost \cup agnss_subs
    BY DEF EngineUp
  <1>2. /\ agnss_subs \subseteq {G} /\ agnss_inactive = {}
        /\ G \in agnss_subs \ agnss_inactive => agnss_client[G] \in {"waiting", "granted"}
    BY DEF DmnInv, B!MachineInv, B!TypeOK, B!MachineTypeOK, B!ListShape, B!ClientsAgree
  <1>3. agnss_subs = {G} /\ agnss_client[G] \in {"waiting", "granted"}
    BY <1>1, <1>2
  <1>4. agnss_client'[G] = "dropped"
    BY <1>1, <1>3 DEF agnss_nif!EngineUp, agnss_nif!dropAllSubscribers
  <1> QED
    BY <1>1, <1>3, <1>4, SenderFacts DEF Status

(* A sender that was dropped stays unanswered: nothing it reads, and       *)
(* nothing the machine does later, ends its wait.                          *)
LEMMA LostStatusStep ==
  ASSUME DmnInv, [Next]_vars, "GPSONE_DAEMON" \in lost' \cap fds'
  PROVE  Unanswered(sender'["GPSONE_DAEMON"], Status("GPSONE_DAEMON")', Answers("GPSONE_DAEMON")')
  <1>g. PICK G \in Senders : G = "GPSONE_DAEMON"
    BY SenderFacts
  <1> DEFINE Goal == Unanswered(sender'[G], Status(G)', Answers(G)')
  <1> SUFFICES Goal
    BY <1>g
  <1>i. PipesTyped /\ W!MachineInv /\ B!MachineInv /\ SenderInv /\ LostInv /\ FreshInv
    BY DEF DmnInv
  <1>t. sender \in [Senders -> SenderStates] /\ resp_pipe \in [Senders -> Seq(Results)]
    BY <1>i DEF PipesTyped
  <1>0. CASE loc_api_server_proc_init
    <2>1. lost' = {}
      BY <1>0, <1>i DEF loc_api_server_proc_init, FreshInv, senderVars
    <2> QED
      BY <2>1
  <1>f. ASSUME ~loc_api_server_proc_init PROVE G \in fds
    BY <1>f, <1>g, <1>i, ScopeKept
  <1>l. ASSUME G \in lost, G \in fds
        PROVE  /\ Unanswered(sender[G], Status(G), Answers(G))
               /\ sender[G] # "idle" /\ Status(G) \in {"none", "dropped"}
    BY <1>l, <1>i DEF LostInv, Unanswered
  <1>n. ASSUME G \notin lost, G \in fds PROVE Good(G)
    BY <1>n, <1>i DEF SenderInv
  <1>1. CASE EngineUp /\ ~loc_api_server_proc_init
    <2>1. UNCHANGED <<pipeVars, sender>>
      BY <1>1 DEF EngineUp
    <2>2. Answers(G)' = Answers(G)
      BY <2>1, AnswersSame DEF pipeVars
    <2>3. Status(G) \in {"waiting", "granted"} /\ Status(G)' = "dropped"
      BY <1>1, <1>g, RestartDrops
    <2>4. Good(G)
      BY <1>1, <1>f, <1>l, <1>n, <2>3
    <2>5. Unanswered(sender[G], "dropped", Answers(G))
      BY <2>3, <2>4, FitsDropped DEF Good
    <2> QED
      BY <2>1, <2>2, <2>3, <2>5
  <1>2. ASSUME NEW s \in Senders, SenderRequests(s), ~loc_api_server_proc_init PROVE Goal
    <2>1. /\ sender[s] = "idle" /\ sender' = [sender EXCEPT ![s] = "asking"]
          /\ UNCHANGED <<resp_pipe, writing, wifiVars, agnssVars>>
          /\ s # G => lost' = lost
      BY <1>2, <1>g DEF SenderRequests, Send
    <2>2. Answers(G)' = Answers(G) /\ Status(G)' = Status(G)
      BY <2>1, SenderFacts, StatusKept, AnswersSame
    <2>3. CASE s # G
      <3>1. sender'[G] = sender[G] /\ G \in lost
        BY <1>t, <1>g, <2>1, <2>3
      <3> QED
        BY <1>2, <1>f, <1>l, <2>2, <3>1
    <2>4. CASE s = G
      <3>1. sender'[G] = "asking" /\ sender[G] = "idle"
        BY <1>t, <2>1, <2>4
      <3>2. Good(G)
        BY <1>2, <1>f, <1>l, <1>n, <3>1
      <3>3. Status(G) = "none" /\ Answers(G) = <<>>
        BY <3>1, <3>2, FitsSend DEF Good
      <3> QED
        BY <2>2, <3>1, <3>3 DEF Unanswered
    <2> QED
      BY <2>3, <2>4
  <1>q. ASSUME lost' = lost, ~loc_api_server_proc_init, sender'[G] = sender[G],
               Status(G)' = Status(G), Answers(G)' = Answers(G)
        PROVE  Goal
    BY <1>q, <1>f, <1>l, <1>g
  <1>3. ASSUME ~loc_api_server_proc_init, NEW s \in Senders, SenderReleases(s) PROVE Goal
    <2>1. /\ sender' = [sender EXCEPT ![s] = "releasing"] /\ s \notin lost
          /\ UNCHANGED <<lost, resp_pipe, writing, wifiVars, agnssVars>>
      BY <1>3 DEF SenderReleases, Send
    <2>2. Answers(G)' = Answers(G) /\ Status(G)' = Status(G) /\ sender'[G] = sender[G]
      BY <2>1, <1>t, <1>g, SenderFacts, StatusKept, AnswersSame
    <2> QED
      BY <1>3, <1>q, <2>1, <2>2
  <1>4. ASSUME ~loc_api_server_proc_init, NEW s \in Senders, SenderReads(s) PROVE Goal
    <2>1. /\ sender' = [sender EXCEPT ![s] =
                IF Head(resp_pipe[s]) # "REQUEST_SUCCESS" THEN "idle"
                ELSE IF @ = "releasing" THEN "releasing" ELSE "granted"]
          /\ UNCHANGED <<lost, wifiVars, agnssVars>>
      BY <1>4 DEF SenderReads
    <2>2. Status(G)' = Status(G)
      BY <2>1, SenderFacts, StatusKept
    <2>3. CASE s # G
      <3>1. Answers(G)' = Answers(G) /\ sender'[G] = sender[G]
        BY <1>4, <1>i, <1>t, <2>1, <2>3, ReadAnswer
      <3> QED
        BY <1>4, <1>q, <2>1, <2>2, <3>1
    <2>4. CASE s = G
      <3>1. /\ Answers(G) # <<>> /\ Head(Answers(G)) = Head(resp_pipe[G])
            /\ Answers(G)' = Tail(Answers(G))
        BY <1>4, <1>i, <2>4, ReadAnswer
      <3>2. Answers(G) = <<"REQUEST_SUCCESS">> /\ Status(G) \in {"none", "dropped"}
        BY <1>4, <1>f, <1>g, <1>l, <2>1, <3>1 DEF Unanswered
      <3>3. Head(<<"REQUEST_SUCCESS">>) = "REQUEST_SUCCESS" /\ Tail(<<"REQUEST_SUCCESS">>) = <<>>
        OBVIOUS
      <3>4. Answers(G)' = <<>> /\ sender'[G] # "idle"
        BY <1>t, <2>1, <2>4, <3>1, <3>2, <3>3
      <3> QED
        BY <2>2, <3>2, <3>4 DEF Unanswered
    <2> QED
      BY <2>3, <2>4
  <1>5. CASE ~loc_api_server_proc_init /\ loc_eng_dmn_conn_glue_msgsnd
    <2>1. UNCHANGED <<lost, sender, wifiVars, agnssVars>>
      BY <1>5 DEF loc_eng_dmn_conn_glue_msgsnd, senderVars
    <2>2. Status(G)' = Status(G) /\ Answers(G)' = Answers(G)
      BY <1>5, <1>f, <1>i, <2>1, SenderFacts, StatusKept, WrittenAnswer
    <2> QED
      BY <1>5, <1>q, <2>1, <2>2
  <1>6. CASE ~loc_api_server_proc_init /\ (WifiReply \/ AgnssReply)
    <2>1. writing = <<>> /\ UNCHANGED <<lost, sender, resp_pipe>>
      BY <1>6 DEF WifiReply, AgnssReply, senderVars
    <2>2. Status(G) \in {"none", "dropped"}
      BY <1>6, <1>f, <1>g, <1>l, <2>1
    <2>3. Status(G)' = Status(G) /\ Answers(G)' = Answers(G)
      <3>1. CASE writing' = <<>> /\ \A t \in Senders : Status(t)' = Status(t)
        BY <3>1, <2>1, AnswersKept
      <3>2. ASSUME NEW s \in Senders, NEW r \in Results, writing' = << <<s, r>> >>,
                   \A t \in Senders \ {s} : Status(t)' = Status(t), Tells(Status(s), Status(s)', r)
            PROVE  Status(G)' = Status(G) /\ Answers(G)' = Answers(G)
        <4>1. s # G
          BY <3>2, <2>2 DEF Tells
        <4> QED
          BY <1>i, <2>1, <3>2, <4>1, AnswersWrite
      <3> QED
        BY <1>6, <1>i, <3>1, <3>2, ReplyEffect
    <2> QED
      BY <1>6, <1>q, <2>1, <2>3
  <1>7. CASE ~loc_api_server_proc_init
             /\ (RequestWifi \/ RequestBit \/ ReleaseWifi \/ ReleaseBit)
    <2>s. PICK s : s = Head(deferred_q).sender
      OBVIOUS
    <2>1. writing = <<>> /\ UNCHANGED <<lost, sender, resp_pipe>> /\ deferred_q # <<>>
      BY <1>7 DEF RequestWifi, RequestBit, ReleaseWifi, ReleaseBit, TakesMessage
    <2>2. Status(G) \in {"none", "dropped"} /\ G \in lost /\ G \in fds
      BY <1>7, <1>f, <1>g, <1>l, <2>1
    <2>3. CASE RequestBit /\ Head(deferred_q).type # "SUPL"
      <3>1. UNCHANGED <<writing, wifiVars, agnssVars>>
        BY <2>3 DEF RequestBit
      <3>2. Status(G)' = Status(G) /\ Answers(G)' = Answers(G)
        BY <2>1, <3>1, SenderFacts, StatusKept, AnswersSame
      <3> QED
        BY <1>7, <1>q, <2>1, <3>2
    <2>4. CASE RequestWifi \/ (RequestBit /\ Head(deferred_q).type = "SUPL")
      <3>1. /\ s \in Senders
            /\ \A t \in Senders \ {s} : Status(t)' = Status(t)
            /\ writing' = <<>> \/ \E r \in Results : writing' = << <<s, r>> >>
        BY <2>4, <2>s, <1>i, RequestEffect
      <3>2. s # G
        <4>1. CASE RequestWifi
          BY <4>1, <2>s, <1>g, SenderFacts DEF RequestWifi
        <4>2. CASE RequestBit /\ Head(deferred_q).type = "SUPL"
          <5>1. /\ deferred_q \in Seq(Messages) /\ server_pipe \in Seq(Messages)
                /\ Head(deferred_q).id = "REQUEST"
            BY <4>2, <1>i DEF PipesTyped, RequestBit, TakesMessage
          <5>2. 1 \in 1..Len(Flight) /\ Flight[1] = Head(deferred_q)
            BY <2>1, <5>1 DEF Flight
          <5> QED
            BY <4>2, <5>1, <5>2, <2>2, <2>s, <1>g, <1>i DEF LostInv, Logged
        <4> QED
          BY <2>4, <4>1, <4>2
      <3>3. Answers(G)' = Answers(G)
        BY <1>i, <2>1, <3>1, <3>2, AnswersKept, AnswersWrite
      <3> QED
        BY <1>7, <1>q, <2>1, <3>1, <3>2, <3>3
    <2>5. CASE ReleaseWifi \/ ReleaseBit
      <3>1. /\ s \in Senders
            /\ \A t \in Senders \ {s} : Status(t)' = Status(t)
            /\ \/ /\ Status(s) \in {"none", "dropped"}
                  /\ Status(s)' = Status(s) /\ writing' = <<>>
               \/ /\ Status(s) \in {"waiting", "granted", "closing", "denied"}
                  /\ \/ Status(s)' = "closing" /\ writing' = <<>>
                     \/ Status(s)' = "none" /\ writing' = << <<s, "RELEASE_SUCCESS">> >>
        BY <2>5, <2>s, <1>i, ReleaseEffect
      <3>r. "RELEASE_SUCCESS" \in Results
        BY DEF Results
      <3>2. Status(G)' = Status(G)
        BY <2>2, <3>1
      <3>3. writing' = <<>> \/ (s # G /\ writing' = << <<s, "RELEASE_SUCCESS">> >>)
        BY <2>2, <3>1
      <3>4. Answers(G)' = Answers(G)
        BY <1>i, <2>1, <3>r, <3>1, <3>3, AnswersKept, AnswersWrite
      <3> QED
        BY <1>7, <1>q, <2>1, <3>2, <3>4
    <2> QED
      BY <1>7, <2>3, <2>4, <2>5
  <1>8. CASE /\ ~loc_api_server_proc_init
             /\ FrameworkThread \/ loc_api_server_proc \/ loc_api_server_proc_post \/ UNCHANGED vars
    <2>1. UNCHANGED <<lost, sender, resp_pipe, writing, wifiVars, agnssVars>>
      BY <1>8 DEF FrameworkThread, loc_eng_dmn_conn_launch_thelper, thelper_signal_wait,
         SpuriousWakeup, loc_api_server_proc, loc_api_server_proc_post, pipeVars, senderVars, vars
    <2>2. Status(G)' = Status(G) /\ Answers(G)' = Answers(G)
      BY <2>1, SenderFacts, StatusKept, AnswersSame
    <2> QED
      BY <1>8, <1>q, <2>1, <2>2
  <1>9. CASE ~loc_api_server_proc_init /\ (WifiAfw \/ AgnssAfw \/ WifiLost \/ AgnssLost)
    <2>1. UNCHANGED <<lost, sender, resp_pipe, writing>> /\ Status(G)' = Status(G)
      BY <1>9, AfwEffect DEF pipeVars, senderVars
    <2> QED
      BY <1>9, <1>q, <2>1, AnswersSame
  <1> HIDE DEF Goal
  <1> QED
    BY <1>0, <1>1, <1>2, <1>3, <1>4, <1>5, <1>6, <1>7, <1>8, <1>9
       DEF Next, ServerThread, DeferredThread

(* The requests in flight without the first *)
LEMMA LoggedTail ==
  ASSUME NEW q \in Seq(Messages), q # <<>>, NEW gone, Logged(q, gone)
  PROVE  Logged(Tail(q), gone)
  <1>1. \A i \in 1..Len(Tail(q)) : i + 1 \in 1..Len(q) /\ Tail(q)[i] = q[i + 1]
    OBVIOUS
  <1> QED
    BY <1>1 DEF Logged

(* The requests in flight with one more *)
LEMMA LoggedAppend ==
  ASSUME NEW q \in Seq(Messages), NEW gone, Logged(q, gone), NEW m \in Messages,
         m.sender = "GPSONE_DAEMON" /\ m.id = "REQUEST" =>
             (m.type = "SUPL" <=> "GPSONE_DAEMON" \notin gone)
  PROVE  Logged(Append(q, m), gone)
  <1>1. \A i \in 1..Len(Append(q, m)) :
            (i \in 1..Len(q) /\ Append(q, m)[i] = q[i]) \/ Append(q, m)[i] = m
    OBVIOUS
  <1> QED
    BY <1>1 DEF Logged

(* The requests in flight without one the server thread drops *)
LEMMA LoggedDrop ==
  ASSUME NEW d \in Seq(Messages), NEW e \in Seq(Messages), e # <<>>, NEW gone, Logged(d \o e, gone)
  PROVE  Logged(d \o Tail(e), gone)
  <1> DEFINE r == d \o Tail(e)
             q == d \o e
  <1>0. Len(r) + 1 = Len(q) /\ Len(r) \in Nat
    OBVIOUS
  <1>1. \A i \in 1..Len(r) : r[i] = IF i <= Len(d) THEN q[i] ELSE q[i + 1]
    OBVIOUS
  <1> HIDE DEF r, q
  <1>2. \A i \in 1..Len(r) : \E j \in 1..Len(q) : r[i] = q[j]
    <2> TAKE i \in 1..Len(r)
    <2>1. i \in 1..Len(q) /\ i + 1 \in 1..Len(q)
      BY <1>0
    <2> QED
      BY <1>1, <2>1
  <1>3. Logged(q, gone)
    BY DEF q
  <1>4. Logged(r, gone)
    BY <1>2, <1>3 DEF Logged
  <1> QED
    BY <1>4 DEF r

(* Every step keeps what is known of the gpsOne daemon's requests. *)
LEMMA LostFlightStep ==
  ASSUME DmnInv, [Next]_vars, "GPSONE_DAEMON" \in fds'
  PROVE  Logged(Flight', lost')
  <1>g. PICK G \in Senders : G = "GPSONE_DAEMON"
    BY SenderFacts
  <1>i. PipesTyped /\ SenderInv /\ LostInv /\ FreshInv
    BY DEF DmnInv
  <1>t. deferred_q \in Seq(Messages) /\ server_pipe \in Seq(Messages) /\ Flight \in Seq(Messages)
    BY <1>i, FlightMoves DEF PipesTyped, Flight
  <1>0. CASE loc_api_server_proc_init
    <2>1. deferred_q' = <<>> /\ server_pipe' = <<>>
      BY <1>0, <1>i DEF loc_api_server_proc_init, FreshInv, pipeVars
    <2>2. Len(Flight') = 0
      BY <2>1 DEF Flight
    <2> QED
      BY <2>2 DEF Logged
  <1>f. ASSUME ~loc_api_server_proc_init PROVE G \in fds /\ Logged(Flight, lost)
    <2>1. G \in fds
      BY <1>f, <1>g, <1>i, ScopeKept
    <2> QED
      BY <2>1, <1>g, <1>i DEF LostInv, Logged
  <1>q. ASSUME ~loc_api_server_proc_init, Flight' = Flight, lost' = lost
        PROVE  Logged(Flight', lost')
    BY <1>q, <1>f, <1>g
  <1>1. CASE ~loc_api_server_proc_init /\ EngineUp
    <2>1. Flight' = Flight
      BY <1>1 DEF EngineUp, pipeVars, Flight
    <2>2. Status(G) \in {"waiting", "granted"}
      BY <1>1, <1>g, RestartDrops
    <2>3. Good(G)
      BY <1>1, <1>f, <1>i, <2>2 DEF LostInv, SenderInv, Unanswered
    <2>4. PICK w \in {<<>>, <<"RELEASE">>} : Sent(Flight, G, w)
      BY <2>2, <2>3, FitsDropped DEF Good
    <2> QED
      BY <1>g, <2>1, <2>4, NoRequest DEF Logged
  <1>2. CASE ~loc_api_server_proc_init /\ loc_api_server_proc
    <2>1. /\ server_pipe # <<>> /\ server_pipe' = Tail(server_pipe) /\ lost' = lost
          /\ deferred_q' = deferred_q \o if_handler(Head(server_pipe))
      BY <1>2 DEF loc_api_server_proc, senderVars
    <2>2. CASE Head(server_pipe).type = "OTHER"
      <3>1. Flight' = deferred_q \o Tail(server_pipe)
        BY <1>t, <2>1, <2>2, FlightMoves DEF Flight, if_handler
      <3>2. Logged(deferred_q \o server_pipe, lost)
        BY <1>2, <1>f DEF Flight
      <3>3. Logged(deferred_q \o Tail(server_pipe), lost)
        BY <1>t, <2>1, <3>2, LoggedDrop
      <3> QED
        BY <1>g, <2>1, <3>1, <3>3
    <2>3. CASE Head(server_pipe).type # "OTHER"
      <3>1. Flight' = (deferred_q \o <<Head(server_pipe)>>) \o Tail(server_pipe)
        BY <2>1, <2>3 DEF Flight, if_handler
      <3>2. (deferred_q \o <<Head(server_pipe)>>) \o Tail(server_pipe) = deferred_q \o server_pipe
        BY <1>t, <2>1, FlightMoves
      <3>3. Flight' = Flight
        BY <3>1, <3>2 DEF Flight
      <3> QED
        BY <1>2, <1>q, <2>1, <3>3
    <2> QED
      BY <2>2, <2>3
  <1>3. CASE ~loc_api_server_proc_init /\ (RequestWifi \/ RequestBit \/ ReleaseWifi \/ ReleaseBit)
    <2>1. /\ lost' = lost /\ server_pipe' = server_pipe
          /\ deferred_q # <<>> /\ deferred_q' = Tail(deferred_q)
      BY <1>3 DEF RequestWifi, RequestBit, ReleaseWifi, ReleaseBit, TakesMessage
    <2>2. Flight # <<>> /\ Flight' = Tail(Flight)
      BY <1>t, <2>1, FlightMoves DEF Flight
    <2>3. Logged(Tail(Flight), lost)
      BY <1>3, <1>f, <1>t, <2>2, LoggedTail
    <2> QED
      BY <1>g, <2>1, <2>2, <2>3
  <1>4. ASSUME ~loc_api_server_proc_init, NEW s \in Senders, SenderRequests(s)
        PROVE  Logged(Flight', lost')
    <2>1. PICK type \in Types(s) :
            /\ Send(s, "REQUEST", type)
            /\ lost' = IF s = "GPSONE_DAEMON" /\ type # "SUPL" THEN lost \cup {s} ELSE lost
      BY <1>4 DEF SenderRequests
    <2>2. [id |-> "REQUEST", sender |-> s, type |-> type] \in Messages
      BY <2>1 DEF Messages, Ids, Types
    <2>3. PICK m \in Messages : m = [id |-> "REQUEST", sender |-> s, type |-> type]
      BY <2>2
    <2>4. /\ deferred_q' = deferred_q /\ server_pipe' = Append(server_pipe, m)
          /\ m.id = "REQUEST" /\ m.sender = s /\ m.type = type
      BY <2>1, <2>3 DEF Send
    <2>5. Flight' = Append(Flight, m)
      BY <1>t, <2>4, FlightMoves DEF Flight
    <2>6. CASE s # G
      <3>1. lost' = lost
        BY <1>g, <2>1, <2>6
      <3>2. Logged(Append(Flight, m), lost)
        BY <1>4, <1>f, <1>g, <1>t, <2>4, <2>6, LoggedAppend
      <3> QED
        BY <1>g, <2>5, <3>1, <3>2
    <2>7. CASE s = G
      <3>1. sender[G] = "idle" /\ G \in fds
        BY <1>4, <1>f, <2>7 DEF SenderRequests
      <3>2. G \notin lost
        BY <3>1, <1>i DEF LostInv, Unanswered
      <3>3. PICK w \in {<<>>, <<"RELEASE">>} : Sent(Flight, G, w)
        BY <3>1, <3>2, <1>i, FitsSend DEF SenderInv, Good
      <3>4. Logged(Flight, lost')
        BY <1>g, <3>3, NoRequest DEF Logged
      <3>5. m.type = "SUPL" <=> G \notin lost'
        BY <1>g, <2>1, <2>4, <2>7, <3>2
      <3>6. Logged(Append(Flight, m), lost')
        BY <1>g, <1>t, <3>4, <3>5, LoggedAppend
      <3> QED
        BY <1>g, <2>5, <3>6
    <2> QED
      BY <2>6, <2>7
  <1>5. ASSUME ~loc_api_server_proc_init, NEW s \in Senders, SenderReleases(s)
        PROVE  Logged(Flight', lost')
    <2>1. PICK type \in {"WIFI", "SUPL"} :
            Send(s, "RELEASE", type) /\ type = IF s \in WifiSenders THEN "WIFI" ELSE "SUPL"
      BY <1>5 DEF SenderReleases
    <2>2. PICK m \in Messages : m = [id |-> "RELEASE", sender |-> s, type |-> type]
      BY <2>1, SenderFacts DEF Messages, Ids
    <2>3. /\ lost' = lost /\ deferred_q' = deferred_q /\ server_pipe' = Append(server_pipe, m)
          /\ m.id = "RELEASE"
      BY <1>5, <2>1, <2>2 DEF Send, SenderReleases
    <2>4. Flight' = Append(Flight, m)
      BY <1>t, <2>3, FlightMoves DEF Flight
    <2>5. Logged(Append(Flight, m), lost)
      BY <1>5, <1>f, <1>t, <2>3, LoggedAppend
    <2> QED
      BY <1>g, <2>3, <2>4, <2>5
  <1>6. CASE /\ ~loc_api_server_proc_init
             /\ \/ FrameworkThread \/ loc_api_server_proc_post \/ UNCHANGED vars
                \/ WifiReply \/ AgnssReply \/ loc_eng_dmn_conn_glue_msgsnd
                \/ \E s \in Senders : SenderReads(s)
    <2>1. UNCHANGED <<lost, server_pipe, deferred_q>>
      BY <1>6 DEF FrameworkThread, loc_eng_dmn_conn_launch_thelper, thelper_signal_wait,
         SpuriousWakeup, loc_api_server_proc_post, WifiReply, AgnssReply,
         loc_eng_dmn_conn_glue_msgsnd, SenderReads, pipeVars, senderVars, vars
    <2> QED
      BY <1>6, <1>q, <2>1 DEF Flight
  <1>7. CASE ~loc_api_server_proc_init /\ (WifiAfw \/ AgnssAfw \/ WifiLost \/ AgnssLost)
    BY <1>7, <1>q, AfwEffect DEF pipeVars, senderVars, Flight
  <1> QED
    BY <1>0, <1>1, <1>2, <1>3, <1>4, <1>5, <1>6, <1>7 DEF Next, ServerThread, DeferredThread

(* Every step keeps the invariant of who was dropped. *)
LEMMA LostStep == DmnInv /\ [Next]_vars => LostInv'
  <1> SUFFICES ASSUME DmnInv, [Next]_vars PROVE LostInv'
    OBVIOUS
  <1>1. lost' \subseteq {"GPSONE_DAEMON"}
    <2>i. PipesTyped /\ lost \subseteq {"GPSONE_DAEMON"}
      BY DEF DmnInv, LostInv
    <2>1. CASE EngineUp
      BY <2>1, <2>i, RestartDrops
    <2>2. ASSUME NEW s \in Senders, SenderRequests(s) PROVE lost' \subseteq {"GPSONE_DAEMON"}
      <3>1. lost' = lost \/ (s = "GPSONE_DAEMON" /\ lost' = lost \cup {s})
        BY <2>2 DEF SenderRequests
      <3> QED
        BY <3>1, <2>i
    <2>3. CASE WifiAfw \/ AgnssAfw \/ WifiLost \/ AgnssLost
      BY <2>3, <2>i, AfwEffect DEF senderVars
    <2>4. CASE \/ FrameworkThread \/ ServerThread \/ loc_api_server_proc_post \/ DeferredThread
               \/ UNCHANGED vars \/ \E s \in Senders : SenderReleases(s) \/ SenderReads(s)
      <3>1. lost' = lost
        BY <2>4 DEF FrameworkThread, loc_eng_dmn_conn_launch_thelper, thelper_signal_wait,
           SpuriousWakeup, ServerThread, loc_api_server_proc_init, loc_api_server_proc,
           loc_api_server_proc_post, DeferredThread, RequestWifi, RequestBit, ReleaseWifi,
           ReleaseBit, WifiReply, AgnssReply, loc_eng_dmn_conn_glue_msgsnd,
           SenderReleases, SenderReads, senderVars, vars
      <3> QED
        BY <3>1, <2>i
    <2> QED
      BY <2>1, <2>2, <2>3, <2>4 DEF Next
  <1>2. "GPSONE_DAEMON" \in fds' => Logged(Flight', lost')
    BY LostFlightStep
  <1>3. "GPSONE_DAEMON" \in lost' \cap fds' =>
           Unanswered(sender'["GPSONE_DAEMON"], Status("GPSONE_DAEMON")',
                      Answers("GPSONE_DAEMON")')
    BY LostStatusStep
  <1> QED
    BY <1>1, <1>2, <1>3 DEF LostInv, Logged

-----------------------------------------------------------------------------
(* The invariant *)

(* Every step keeps the invariant of the time before the pipes are open. *)
LEMMA FreshStep == DmnInv /\ [Next]_vars => FreshInv'
  <1> SUFFICES ASSUME DmnInv, [Next]_vars, launch' = "idle" \/ server' \in {"none", "init"}
               PROVE  FreshInv'
    BY DEF FreshInv
  <1>i. FreshInv /\ PipesTyped /\ W!MachineInv /\ B!MachineInv
    BY DEF DmnInv
  <1>1. ASSUME server \in {"none", "init"}
        PROVE  /\ fds = {} /\ lost = {}
               /\ server_pipe = <<>> /\ deferred_q = <<>> /\ writing = <<>>
               /\ \A s \in Senders : resp_pipe[s] = <<>> /\ sender[s] = "idle" /\ Status(s) = "none"
    BY <1>1, <1>i DEF FreshInv
  <1>q. ASSUME UNCHANGED <<fds, pipeVars, senderVars>>, \A s \in Senders : Status(s)' = Status(s),
               launch' = "idle" => server' = "none",
               server' \in {"none", "init"} => server \in {"none", "init"}
        PROVE  FreshInv'
    BY <1>q, <1>1 DEF FreshInv, pipeVars, senderVars
  <1>2. CASE loc_eng_dmn_conn_launch_thelper \/ thelper_signal_wait \/ SpuriousWakeup
             \/ UNCHANGED vars
    <2>1. UNCHANGED <<fds, pipeVars, senderVars, wifiVars, agnssVars>>
      BY <1>2 DEF loc_eng_dmn_conn_launch_thelper, thelper_signal_wait, SpuriousWakeup, vars,
         threadVars
    <2>2. \A s \in Senders : Status(s)' = Status(s)
      BY <2>1, SenderFacts, StatusKept
    <2>3. /\ launch' = "idle" => server' = "none"
          /\ server' \in {"none", "init"} => server \in {"none", "init"}
      BY <1>2, <1>i DEF loc_eng_dmn_conn_launch_thelper, thelper_signal_wait, SpuriousWakeup, vars,
         threadVars, FreshInv
    <2> QED
      BY <1>q, <2>1, <2>2, <2>3
  <1>3. CASE WifiAfw \/ AgnssAfw \/ WifiLost \/ AgnssLost
    BY <1>3, <1>q, <1>i, AfwEffect DEF threadVars, FreshInv
  <1>4. CASE loc_api_server_proc_init \/ loc_api_server_proc_post
    <2>1. server' \notin {"none", "init"} /\ (launch' = "idle" => launch = "idle")
          /\ server # "none"
      BY <1>4 DEF loc_api_server_proc_init, loc_api_server_proc_post
    <2> QED
      BY <2>1, <1>i DEF FreshInv
  <1>5. CASE loc_api_server_proc
    <2>1. server' = "loop" /\ server = "loop" /\ launch' = launch
      BY <1>5 DEF loc_api_server_proc, threadVars
    <2> QED
      BY <2>1, <1>i DEF FreshInv
  <1>6. CASE DeferredThread \/ EngineUp \/ \E s \in Senders : SenderRequests(s) \/ SenderReleases(s)
                                                              \/ SenderReads(s)
    <2>1. server' = server /\ launch' = launch
      BY <1>6 DEF DeferredThread, RequestWifi, RequestBit, ReleaseWifi, ReleaseBit, TakesMessage,
         WifiReply, AgnssReply, loc_eng_dmn_conn_glue_msgsnd, EngineUp, SenderRequests,
         SenderReleases, SenderReads, Send, threadVars
    <2>2. server \in {"none", "init"}
      BY <2>1, <1>i DEF FreshInv
    <2>3. /\ fds = {} /\ deferred_q = <<>> /\ writing = <<>>
          /\ \A s \in Senders : resp_pipe[s] = <<>> /\ Status(s) = "none"
      BY <2>2, <1>1
    <2>4. WifiReply \/ AgnssReply
      <3>1. ~(\/ RequestWifi \/ RequestBit \/ ReleaseWifi \/ ReleaseBit
              \/ loc_eng_dmn_conn_glue_msgsnd)
        BY <2>3 DEF RequestWifi, RequestBit, ReleaseWifi, ReleaseBit, TakesMessage,
           loc_eng_dmn_conn_glue_msgsnd
      <3>2. ~ \E s \in Senders : SenderRequests(s) \/ SenderReleases(s) \/ SenderReads(s)
        BY <2>3 DEF SenderRequests, SenderReleases, SenderReads, Send
      <3>3. ~EngineUp
        BY <2>3, SenderFacts, RestartDrops
      <3> QED
        BY <1>6, <3>1, <3>2, <3>3 DEF DeferredThread
    <2>5. UNCHANGED <<fds, server_pipe, deferred_q, resp_pipe, senderVars>>
      BY <2>4 DEF WifiReply, AgnssReply, threadVars
    <2>6. writing' = <<>> /\ \A s \in Senders : Status(s)' = Status(s)
      BY <1>i, <2>3, <2>4, ReplyEffect DEF Tells
    <2> QED
      BY <1>q, <1>i, <2>1, <2>2, <2>3, <2>5, <2>6 DEF pipeVars, FreshInv
  <1> QED
    BY <1>2, <1>3, <1>4, <1>5, <1>6 DEF Next, FrameworkThread, ServerThread

(* The initial state satisfies the invariant. *)
LEMMA InitDmn == Init => DmnInv
  <1> SUFFICES ASSUME Init PROVE DmnInv
    OBVIOUS
  <1>1. W!MachineInv /\ B!MachineInv
    BY WifiInvariant, AgnssInvariant
  <1>2. \A s \in Senders : Status(s) = "none"
    BY SenderFacts DEF Init, Status, wifi_nif!Init, wifi_nif!MachineInit, agnss_nif!Init,
       agnss_nif!MachineInit
  <1>3. PipesTyped
    BY DEF Init, PipesTyped, SenderStates
  <1>4. SenderInv /\ LostInv
    BY DEF Init, SenderInv, LostInv
  <1>5. FreshInv
    BY <1>2 DEF Init, FreshInv
  <1> QED
    BY <1>1, <1>3, <1>4, <1>5 DEF DmnInv

(* DmnInv is an invariant of the daemon connection. *)
LEMMA DmnInvariant == Spec => []DmnInv
  <1>1. DmnInv /\ [Next]_vars => DmnInv'
    <2> SUFFICES ASSUME DmnInv, [Next]_vars PROVE DmnInv'
      OBVIOUS
    <2>1. PipesTyped /\ W!MachineInv /\ B!MachineInv
      BY DEF DmnInv
    <2>2. PipesTyped' /\ W!MachineInv' /\ B!MachineInv'
      BY <2>1, TypeStep, WifiInvariant, AgnssInvariant
    <2> QED
      BY <2>2, SenderStep, LostStep, FreshStep DEF DmnInv
  <1> QED
    BY <1>1, InitDmn, PTL DEF Spec

-----------------------------------------------------------------------------
(* The properties *)

(* What ends a request is its last answer. *)
LEMMA AnswerEnds ==
  ASSUME NEW x \in {<<>>, <<"REQUEST_SUCCESS">>} \cup Over
  PROVE  \A i \in 1..Len(x) : x[i] \in {"FAILURE", "RELEASE_SUCCESS"} => i = Len(x)
  <1>0. CASE x = <<>>
    BY <1>0
  <1>1. CASE x = <<"REQUEST_SUCCESS">>
    BY <1>1
  <1>2. CASE x = <<"FAILURE">>
    BY <1>2
  <1>3. CASE x = <<"RELEASE_SUCCESS">>
    BY <1>3
  <1>4. CASE x = <<"REQUEST_SUCCESS", "FAILURE">>
    BY <1>4
  <1>5. CASE x = <<"REQUEST_SUCCESS", "RELEASE_SUCCESS">>
    BY <1>5
  <1> QED
    BY <1>0, <1>1, <1>2, <1>3, <1>4, <1>5 DEF Over

(* What stands on a daemon's pipe fits what the daemon last sent, for      *)
(* pipes of any size and any number of requests: data_conn's answers,      *)
(* which name no request, are never taken for the answer to another one.   *)
THEOREM AnswersFit == Spec => []AnswerFits
  <1>1. DmnInv => AnswerFits
    <2> SUFFICES ASSUME DmnInv PROVE AnswerFits
      OBVIOUS
    <2>1. Len(writing) <= 1
      <3>1. CASE writing = <<>>
        BY <3>1
      <3>2. CASE \E s \in Senders, r \in Results : writing = << <<s, r>> >>
        BY <3>2, OneAnswer
      <3> QED
        BY <3>1, <3>2 DEF DmnInv, PipesTyped
    <2>2. ASSUME NEW s \in fds \cap Senders
          PROVE /\ sender[s] = "idle" => Answers(s) = <<>>
                /\ sender[s] = "granted" => Answers(s) \in {<<>>, <<"RELEASE_SUCCESS">>}
                /\ sender[s] = "asking" => Answers(s) = <<>> \/ Head(Answers(s)) # "RELEASE_SUCCESS"
                /\ \A i \in 1..Len(Answers(s)) :
                      Answers(s)[i] \in {"FAILURE", "RELEASE_SUCCESS"} => i = Len(Answers(s))
      <3>a. PICK a : a = Answers(s)
        OBVIOUS
      <3>1. CASE s \in lost
        <4>1. /\ sender[s] # "idle" /\ a \in {<<>>, <<"REQUEST_SUCCESS">>}
              /\ sender[s] = "granted" => a = <<>>
          BY <3>1, <3>a DEF DmnInv, LostInv, Unanswered
        <4>2. a = <<>> \/ Head(a) # "RELEASE_SUCCESS"
          BY <4>1
        <4> QED
          BY <4>1, <4>2, <3>a, AnswerEnds
      <3>2. CASE s \notin lost
        <4>1. PICK w \in Words : Fits(sender[s], Status(s), w, a)
          BY <3>2, <3>a DEF DmnInv, SenderInv, Good
        <4>2. a \in {<<>>, <<"REQUEST_SUCCESS">>} \cup Over
          BY <4>1 DEF Fits, Over
        <4>3. /\ sender[s] = "idle" => a = <<>>
              /\ sender[s] = "granted" => a \in {<<>>, <<"RELEASE_SUCCESS">>}
              /\ sender[s] = "asking" =>
                    a \in {<<>>, <<"REQUEST_SUCCESS">>, <<"FAILURE">>,
                           <<"REQUEST_SUCCESS", "RELEASE_SUCCESS">>}
          BY <4>1 DEF Fits
        <4>4. sender[s] = "asking" => a = <<>> \/ Head(a) # "RELEASE_SUCCESS"
          BY <4>3
        <4> QED
          BY <4>2, <4>3, <4>4, <3>a, AnswerEnds
      <3> QED
        BY <3>1, <3>2
    <2> QED
      BY <2>1, <2>2 DEF AnswerFits
  <1> QED
    BY <1>1, DmnInvariant, PTL

(* A daemon that was told REQUEST_SUCCESS has an open interface, or the    *)
(* news that it is gone is under way, whatever it, the framework and the   *)
(* other daemons do in between.                                            *)
THEOREM GrantsBacked == Spec => []GrantIsBacked
  <1>1. DmnInv /\ W!GrantIsReal /\ B!GrantIsReal => GrantIsBacked
    <2> SUFFICES ASSUME DmnInv, W!GrantIsReal, B!GrantIsReal, NEW s \in Senders,
                        sender[s] = "granted", s \notin lost, s \in fds
                 PROVE  \/ Status(s) = "granted" /\ (Interface(s) = "open"
                                                    \/ Contains(Replies(s), "RSRC_RELEASED"))
                        \/ Contains(Answers(s), "RELEASE_SUCCESS")
      BY DEF GrantIsBacked
    <2>1. \/ Status(s) = "granted"
          \/ Answers(s) = <<"RELEASE_SUCCESS">>
      <3>1. PICK w \in Words : Fits("granted", Status(s), w, Answers(s))
        BY DEF DmnInv, SenderInv, Good
      <3> QED
        BY <3>1 DEF Fits
    <2>2. CASE Answers(s) = <<"RELEASE_SUCCESS">>
      BY <2>2 DEF Contains
    <2>3. CASE Status(s) = "granted" /\ s \in WifiSenders
      <3>1. wifi_client[s] = "granted"
        BY <2>3 DEF Status
      <3>2. wifi_state = "Acquired"
        BY <2>3, <3>1 DEF DmnInv, W!MachineInv, W!TypeOK, W!MachineTypeOK, W!States, W!ClientsAgree,
           W!ReleasedIsEmpty, W!ReleasingOnlyInactive, W!ListShape
      <3> QED
        BY <2>3, <3>2 DEF W!GrantIsReal, Interface, Replies, Contains
    <2>4. CASE Status(s) = "granted" /\ s \notin WifiSenders
      <3>1. agnss_client[s] = "granted" /\ s = "GPSONE_DAEMON"
        BY <2>4, SenderFacts DEF Status
      <3>2. agnss_state = "Acquired"
        BY <3>1 DEF DmnInv, B!MachineInv, B!TypeOK, B!MachineTypeOK, B!States, B!ClientsAgree,
           B!ReleasedIsEmpty, B!ReleasingOnlyInactive, B!ListShape
      <3> QED
        BY <2>4, <3>2 DEF B!GrantIsReal, Interface, Replies, Contains
    <2> QED
      BY <2>1, <2>2, <2>3, <2>4
  <1>2. DmnInv => W!TypeOK /\ B!TypeOK
    BY DEF DmnInv, W!MachineInv, B!MachineInv
  <1> DEFINE Real == W!GrantsInQueue /\ W!GrantIsReal /\ B!GrantsInQueue /\ B!GrantIsReal
  <1>3. Init => Real
    BY WifiInvariant, AgnssInvariant
  <1>4. DmnInv /\ Real /\ [Next]_vars => Real'
    BY <1>2, WifiInvariant, AgnssInvariant
  <1>5. DmnInv /\ Real => GrantIsBacked
    BY <1>1
  <1> HIDE DEF Real
  <1> QED
    BY <1>3, <1>4, <1>5, DmnInvariant, PTL DEF Spec

(* The machines keep what they owe their subscribers on its way. *)
LEMMA MachinesServe ==
  /\ Init => W!PendingIsServed /\ W!ClosingInv /\ B!PendingIsServed
  /\ W!MachineInv /\ W!PendingIsServed /\ [Next]_vars => W!PendingIsServed'
  /\ B!MachineInv /\ B!PendingIsServed /\ [Next]_vars => B!PendingIsServed'
  /\ W!MachineInv /\ W!PendingIsServed /\ W!GrantIsReal /\ W!ClosingInv /\ [Next]_vars =>
        W!ClosingInv'
  <1>1. [Next]_vars => [W!Next]_(W!vars) /\ [B!Next]_(B!vars)
    BY WifiStep, SameWifi, AgnssStep, SameAgnss
  <1>2. Init => W!Init /\ B!Init
    BY SameInit DEF Init
  <1>3. W!Init => W!PendingIsServed /\ W!ClosingInv
    BY Configured, W!InitPending, W!InitClosing
  <1>4. B!Init => B!PendingIsServed
    BY Configured, B!InitPending
  <1>5. W!MachineInv /\ W!PendingIsServed /\ [W!Next]_(W!vars) => W!PendingIsServed'
    BY Configured, W!PendingStep
  <1>6. B!MachineInv /\ B!PendingIsServed /\ [B!Next]_(B!vars) => B!PendingIsServed'
    BY Configured, B!PendingStep
  <1>7. W!MachineInv /\ W!PendingIsServed /\ W!GrantIsReal /\ W!ClosingInv
           /\ [W!Next]_(W!vars) => W!ClosingInv'
    BY Configured, W!ClosingStep
  <1> QED
    BY <1>1, <1>2, <1>3, <1>4, <1>5, <1>6, <1>7

(* A sender with a word in flight has a message on one of the two queues. *)
LEMMA WordIsUnderWay ==
  ASSUME PipesTyped, NEW s \in Senders, NEW w \in Words, w # <<>>, Sent(Flight, s, w)
  PROVE  \/ \E i \in 1..Len(deferred_q) : deferred_q[i].sender = s
         \/ \E i \in 1..Len(server_pipe) : server_pipe[i].sender = s
  <1>t. deferred_q \in Seq(Messages) /\ server_pipe \in Seq(Messages)
    BY DEF PipesTyped
  <1>w. 1 \in 1..Len(w)
    <2>1. w \in Seq(Ids)
      BY WordFacts
    <2> QED
      BY <2>1
  <1>1. PICK i \in 1..Len(Flight) : Flight[i].sender = s
    <2>1. PICK p \in [1..Len(w) -> 1..Len(Flight)] :
            \A k \in 1..Len(w) : Flight[p[k]].sender = s /\ Flight[p[k]].id = w[k]
      BY DEF Sent
    <2> QED
      BY <1>w, <2>1
  <1>2. /\ Len(deferred_q) \in Nat /\ Len(server_pipe) \in Nat
        /\ Len(Flight) = Len(deferred_q) + Len(server_pipe)
    BY <1>t DEF Flight
  <1>3. CASE i <= Len(deferred_q)
    <2>1. i \in 1..Len(deferred_q) /\ Flight[i] = deferred_q[i]
      BY <1>t, <1>1, <1>2, <1>3 DEF Flight
    <2> QED
      BY <1>1, <2>1
  <1>4. CASE i > Len(deferred_q)
    <2>1. /\ i - Len(deferred_q) \in 1..Len(server_pipe)
          /\ Flight[i] = server_pipe[i - Len(deferred_q)]
      BY <1>t, <1>1, <1>2, <1>4 DEF Flight
    <2> QED
      BY <1>1, <2>1
  <1> QED
    BY <1>1, <1>2, <1>3, <1>4

(* A daemon that waits has somebody working for it, at every moment and    *)
(* for pipes of any size: the safety half of EverySenderAnswered.          *)
THEOREM SendersServed == Spec => []SenderIsServed
  <1> DEFINE Owed == /\ W!GrantsInQueue /\ W!GrantIsReal
                     /\ W!PendingIsServed /\ W!ClosingInv /\ B!PendingIsServed
  <1>1. DmnInv /\ Owed => SenderIsServed
    <2> SUFFICES ASSUME DmnInv, W!PendingIsServed, W!ClosingIsServed, B!PendingIsServed,
                        NEW s \in fds \cap Senders,
                        sender[s] \in {"asking", "releasing"}, s \notin lost
                 PROVE  \/ \E i \in 1..Len(deferred_q) : deferred_q[i].sender = s
                        \/ \E i \in 1..Len(server_pipe) : server_pipe[i].sender = s
                        \/ Answers(s) # <<>>
                        \/ /\ Status(s) \in {"waiting", "closing"}
                           /\ \/ Servicer(s) # <<>> \/ Interface(s) = "opening"
                              \/ Replies(s) # <<>>
      BY DEF SenderIsServed, W!ClosingInv
    <2>1. PICK w \in Words :
            Sent(Flight, s, w) /\ Fits(sender[s], Status(s), w, Answers(s))
      BY DEF DmnInv, SenderInv, Good
    <2>2. CASE w # <<>>
      BY <2>1, <2>2, WordIsUnderWay DEF DmnInv
    <2>3. CASE w = <<>> /\ Answers(s) = <<>>
      <3>1. Status(s) \in {"waiting", "closing"}
        BY <2>1, <2>3 DEF Fits, Over
      <3>2. CASE s \in WifiSenders
        <4>1. wifi_client[s] \in {"waiting", "closing"}
          BY <3>1, <3>2 DEF Status
        <4>2. wifi_state \in {"Pending", "Releasing"}
          BY <3>2, <4>1 DEF DmnInv, W!MachineInv, W!TypeOK, W!MachineTypeOK, W!States,
             W!ClientsAgree, W!ReleasedIsEmpty, W!ReleasingOnlyInactive, W!ListShape
        <4>3. wifi_servicer # <<>> \/ wifi_if = "opening" \/ wifi_replies # <<>>
          <5>1. \A i : i \notin 1..Len(<<>>)
            OBVIOUS
          <5> QED
            BY <4>2, <5>1 DEF W!PendingIsServed, W!ClosingIsServed
        <4> QED
          BY <3>1, <3>2, <4>3 DEF Servicer, Interface, Replies
      <3>3. CASE s \notin WifiSenders
        <4>1. agnss_client[s] \in {"waiting", "closing"} /\ s = "GPSONE_DAEMON"
          BY <3>1, <3>3, SenderFacts DEF Status
        <4>2. agnss_state = "Pending"
          BY <4>1 DEF DmnInv, B!MachineInv, B!TypeOK, B!MachineTypeOK, B!States,
             B!ClientsAgree, B!ReleasedIsEmpty, B!ReleasingOnlyInactive, B!ListShape
        <4>3. agnss_servicer # <<>> \/ agnss_if = "opening" \/ agnss_replies # <<>>
          <5>1. \A i : i \notin 1..Len(<<>>)
            OBVIOUS
          <5> QED
            BY <4>2, <5>1 DEF B!PendingIsServed
        <4> QED
          BY <3>1, <3>3, <4>3 DEF Servicer, Interface, Replies
      <3> QED
        BY <3>2, <3>3
    <2> QED
      BY <2>2, <2>3
  <1>2. DmnInv => W!MachineInv /\ B!MachineInv /\ W!TypeOK
    BY DEF DmnInv, W!MachineInv
  <1>3. Init => Owed
    BY MachinesServe, WifiInvariant
  <1>4. DmnInv /\ Owed /\ [Next]_vars => Owed'
    BY <1>2, MachinesServe, WifiInvariant
  <1> HIDE DEF Owed
  <1> QED
    BY <1>1, <1>3, <1>4, DmnInvariant, PTL DEF Spec

(* The framework's call of loc_eng_agps_init never waits for a signal that *)
(* was given before, however the two threads interleave: the safety half   *)
(* of LaunchReturns.                                                       *)
THEOREM WaitersSignalled == Spec => []WaiterIsSignalled
  <1> DEFINE Handshake == /\ WaiterIsSignalled
                          /\ launch = "idle" => server = "none"
                          /\ server \in {"loop", "exited"} => thread_ready
  <1>1. Init => Handshake
    BY DEF Init, WaiterIsSignalled
  <1>2. DmnInv /\ Handshake /\ [Next]_vars => Handshake'
    <2> SUFFICES ASSUME DmnInv, Handshake, [Next]_vars PROVE Handshake'
      OBVIOUS
    <2>t. server \in {"none", "init", "loop", "exited"}
      BY DEF DmnInv, PipesTyped
    <2>1. CASE FrameworkThread
      BY <2>1, <2>t DEF FrameworkThread, loc_eng_dmn_conn_launch_thelper, thelper_signal_wait,
         SpuriousWakeup, WaiterIsSignalled
    <2>2. CASE loc_api_server_proc_init \/ loc_api_server_proc_post
      BY <2>2 DEF loc_api_server_proc_init, loc_api_server_proc_post, WaiterIsSignalled
    <2>3. CASE UNCHANGED <<launch, server, thread_ready>>
      BY <2>3 DEF WaiterIsSignalled
    <2>4. CASE loc_api_server_proc \/ DeferredThread \/ EngineUp \/ UNCHANGED vars
               \/ \E s \in Senders : SenderRequests(s) \/ SenderReleases(s) \/ SenderReads(s)
      BY <2>3, <2>4 DEF loc_api_server_proc, DeferredThread, RequestWifi, RequestBit,
         ReleaseWifi, ReleaseBit, TakesMessage, WifiReply, AgnssReply,
         loc_eng_dmn_conn_glue_msgsnd, EngineUp, SenderRequests, SenderReleases, SenderReads,
         Send, threadVars, vars
    <2>5. CASE WifiAfw \/ AgnssAfw \/ WifiLost \/ AgnssLost
      BY <2>3, <2>5, AfwEffect DEF threadVars
    <2> QED
      BY <2>1, <2>2, <2>4, <2>5 DEF Next, ServerThread
  <1>3. Handshake => WaiterIsSignalled
    OBVIOUS
  <1> HIDE DEF Handshake
  <1> QED
    BY <1>1, <1>2, <1>3, DmnInvariant, PTL DEF Spec
=============================================================================
