-------------------------- MODULE LinkedListProofs --------------------------
(***************************************************************************)
(* The pointers of linked_list.c implement the sequence of DataList, for   *)
(* any number of elements.  The invariant is the well-formedness of the    *)
(* chain, the position of a search's cursor, and that every element on the *)
(* chain holds a data object of its own.                                   *)
(***************************************************************************)
EXTENDS LinkedList, SequenceTheorems, TLAPS

(* Elements hold distinct data objects, and a call that is still at work   *)
(* has no result yet.                                                      *)
DataInv ==
    /\ call = "flush" => copied = NULL
    /\ call = "search" /\ tmp # NULL => freed = {}
    /\ \A i \in 1..Len(chain) : data_ptr[chain[i]] \in Items
    /\ \A i, j \in 1..Len(chain) : i # j => data_ptr[chain[i]] # data_ptr[chain[j]]

ListInv ==
    /\ TypeOK
    /\ WellFormed
    /\ CursorIsLive
    /\ DataInv

-----------------------------------------------------------------------------

(* An empty list has no elements and no pointers. *)
LEMMA ListInit == Init => ListInv
<1> SUFFICES ASSUME Init PROVE ListInv
  OBVIOUS
<1>1. chain \in Seq(Cells) /\ Len(chain) = 0
  BY DEF Init
<1>2. TypeOK
  BY <1>1 DEF Init, TypeOK, Pointers, Args, NoArgs
<1> QED
  BY <1>1, <1>2 DEF Init, ListInv, WellFormed, CursorIsLive, DataInv

(* Removing the i-th element moves the later ones down by one. *)
LEMMA WithoutIndexProperties ==
    ASSUME NEW S, NEW s \in Seq(S), NEW i \in 1..Len(s)
    PROVE  /\ WithoutIndex(s, i) \in Seq(S)
           /\ Len(WithoutIndex(s, i)) = Len(s) - 1
           /\ \A k \in 1..(Len(s) - 1) : WithoutIndex(s, i)[k] = IF k < i THEN s[k] ELSE s[k + 1]
<1>1. Len(s) - 1 \in Nat /\ Len(s) \in Nat
  OBVIOUS
<1>2. \A k \in 1..(Len(s) - 1) : (IF k < i THEN s[k] ELSE s[k + 1]) \in S
  OBVIOUS
<1>3. WithoutIndex(s, i) \in [1..(Len(s) - 1) -> S]
  BY <1>2 DEF WithoutIndex
<1>4. WithoutIndex(s, i) \in Seq(S)
  BY <1>1, <1>3, SeqDef
<1>5. Len(WithoutIndex(s, i)) = Len(s) - 1
  BY <1>1, <1>3, <1>4, LenProperties
<1> QED
  BY <1>4, <1>5 DEF WithoutIndex

(* All but the last element of a sequence *)
LEMMA FrontProperties ==
    ASSUME NEW S, NEW s \in Seq(S), Len(s) > 0
    PROVE  /\ SubSeq(s, 1, Len(s) - 1) \in Seq(S)
           /\ Len(SubSeq(s, 1, Len(s) - 1)) = Len(s) - 1
           /\ \A i \in 1..(Len(s) - 1) : SubSeq(s, 1, Len(s) - 1)[i] = s[i]
<1> DEFINE m == Len(s) - 1
<1>1. m \in Nat /\ m \in Int /\ 1 \in Int /\ \A i \in 1..m : s[i] \in S
  OBVIOUS
<1>2. /\ SubSeq(s, 1, m) \in Seq(S)
      /\ Len(SubSeq(s, 1, m)) = IF 1 <= m THEN m - 1 + 1 ELSE 0
      /\ \A i \in 1..(m - 1 + 1) : SubSeq(s, 1, m)[i] = s[1 + i - 1]
  BY <1>1, SubSeqProperties
<1> HIDE DEF m
<1>3. m - 1 + 1 = m /\ (~(1 <= m) => m = 0) /\ \A i \in 1..m : 1 + i - 1 = i
  BY <1>1
<1>4. /\ SubSeq(s, 1, m) \in Seq(S) /\ Len(SubSeq(s, 1, m)) = m
      /\ \A i \in 1..m : SubSeq(s, 1, m)[i] = s[i]
  BY <1>2, <1>3
<1> QED
  BY <1>4 DEF m

(* The chain of a well-formed list, and where a cursor stands on it *)
LEMMA ChainFacts ==
    ASSUME ListInv
    PROVE  /\ Len(chain) \in Nat
           /\ \A i \in 1..Len(chain) : chain[i] \in Cells /\ chain[i] # NULL
           /\ p_head # NULL => Len(chain) > 0
           /\ p_head = NULL => Len(chain) = 0
           /\ call # "flush" /\ p_tail # NULL => Len(chain) > 0 /\ chain # <<>>
<1>1. chain \in Seq(Cells) /\ NULL \notin Cells
  BY HeapAssumption DEF ListInv, TypeOK
<1>2. Len(chain) \in Nat /\ \A i \in 1..Len(chain) : chain[i] \in Cells /\ chain[i] # NULL
  BY <1>1
<1> QED
  BY <1>2 DEF ListInv, WellFormed

(* The links of a well-formed list outside of flush, one fact per field *)
LEMMA Links ==
    ASSUME ListInv, call # "flush"
    PROVE  /\ \A j, k \in 1..Len(chain) : j # k => chain[j] # chain[k]
           /\ \A k \in 1..Len(chain) : next[chain[k]] = IF k = 1 THEN NULL ELSE chain[k - 1]
           /\ \A k \in 1..Len(chain) : prev[chain[k]] = IF k < Len(chain) THEN chain[k + 1] ELSE NULL
           /\ p_head = IF Len(chain) = 0 THEN NULL ELSE chain[Len(chain)]
           /\ p_tail = IF Len(chain) = 0 THEN NULL ELSE chain[1]
           /\ \A d \in Cells : d \in allocated <=> \E k \in 1..Len(chain) : chain[k] = d
BY DEF ListInv, WellFormed

(* A search that found its element unlinks the i-th of the chain. *)
LEMMA CursorIndex ==
    ASSUME ListInv, call = "search", tmp # NULL
    PROVE  \E i \in 1..Len(chain) :
               /\ chain[i] = tmp
               /\ i = CHOOSE k \in 1..Len(chain) : chain[k] = tmp
               /\ \A j \in (i + 1)..Len(chain) : data_ptr[chain[j]] \notin args.equal
<1>1. PICK i \in 1..Len(chain) :
          chain[i] = tmp /\ \A j \in (i + 1)..Len(chain) : data_ptr[chain[j]] \notin args.equal
  BY DEF ListInv, CursorIsLive
<1>2. \A k \in 1..Len(chain) : chain[k] = tmp => k = i
  BY <1>1 DEF ListInv, WellFormed
<1> QED
  BY <1>1, <1>2

(* Every action keeps every variable in its type. *)
LEMMA TypeStep == ListInv /\ [Next]_vars => TypeOK'
<1> SUFFICES ASSUME ListInv, [Next]_vars PROVE TypeOK'
  OBVIOUS
<1> USE DEF ListInv, TypeOK, Pointers, heap
<1>1. ASSUME NEW x \in Items, linked_list_add(x) PROVE TypeOK'
  BY <1>1 DEF linked_list_add
<1>2. CASE Fails
  BY <1>2 DEF Fails
<1>3. CASE linked_list_remove
  <2>1. chain # <<>>
    BY <1>3 DEF linked_list_remove, WellFormed
  <2>2. chain' \in Seq(Cells)
    BY <1>3, <2>1 DEF linked_list_remove
  <2>3. p_tail \in Cells
    BY <1>3 DEF linked_list_remove
  <2>4. data_ptr[p_tail] \in Items \cup {NULL}
    BY <2>3
  <2> QED
    BY <1>3, <2>2, <2>3, <2>4 DEF linked_list_remove
<1>4. CASE linked_list_flush
  BY <1>4 DEF linked_list_flush
<1>5. CASE FlushStep
  <2>1. chain' \in Seq(Cells)
    BY <1>5, ChainFacts, SubSeqProperties DEF FlushStep
  <2>2. p_head \in Cells /\ freed' \subseteq Items
    BY <1>5, HeapAssumption DEF FlushStep
  <2> QED
    BY <1>5, <2>1, <2>2 DEF FlushStep
<1>6. CASE FlushEnds
  BY <1>6 DEF FlushEnds
<1>7. ASSUME NEW a \in Args, linked_list_search(a) PROVE TypeOK'
  BY <1>7 DEF linked_list_search
<1>8. CASE SearchNext
  BY <1>8 DEF SearchNext
<1>9. CASE SearchFound
  <2>1. tmp \in Cells /\ data_ptr[tmp] \in Items \cup {NULL}
    BY <1>9 DEF SearchFound
  <2>2. copied' \in Items \cup {NULL}
    BY <1>9, <2>1 DEF SearchFound
  <2>3. CASE ~args.rm_if_found
    BY <1>9, <2>2, <2>3 DEF SearchFound
  <2>4. CASE args.rm_if_found
    <3>1. freed' \subseteq Items /\ Unlink(tmp)
      BY <1>9, <2>4, HeapAssumption DEF SearchFound
    <3>2. chain' \in Seq(Cells)
      BY <1>9, <3>1, CursorIndex, WithoutIndexProperties DEF SearchFound, Unlink
    <3>3. next[tmp] \in Cells \cup {NULL} /\ prev[tmp] \in Cells \cup {NULL}
      BY <2>1
    <3>4. /\ next' \in [Cells -> Cells \cup {NULL}] /\ prev' \in [Cells -> Cells \cup {NULL}]
          /\ p_head' \in Cells \cup {NULL} /\ p_tail' \in Cells \cup {NULL}
          /\ allocated' \subseteq Cells /\ data_ptr' = data_ptr
      BY <3>1, <3>3 DEF Unlink
    <3> QED
      BY <1>9, <2>2, <3>1, <3>2, <3>4 DEF SearchFound
  <2> QED
    BY <2>3, <2>4
<1>10. CASE SearchEnds
  BY <1>10 DEF SearchEnds, Args, NoArgs
<1>11. CASE UNCHANGED vars
  BY <1>11 DEF vars
<1> QED
  BY <1>1, <1>2, <1>3, <1>4, <1>5, <1>6, <1>7, <1>8, <1>9, <1>10, <1>11 DEF Next

-----------------------------------------------------------------------------
(* One lemma per action that changes the chain *)

(* The new element stands at the head, its data object is new as well. *)
LEMMA AddKeeps == ASSUME ListInv, TypeOK', NEW x \in Items, linked_list_add(x) PROVE ListInv'
<1> DEFINE n == Len(chain)
<1>1. PICK e \in Cells \ allocated :
          /\ allocated' = allocated \cup {e}
          /\ data_ptr' = [data_ptr EXCEPT ![e] = x]
          /\ p_head' = e
          /\ next' = [next EXCEPT ![e] = p_head]
          /\ prev' = [c \in Cells |-> IF c = e THEN NULL ELSE IF c = p_head THEN e ELSE prev[c]]
          /\ p_tail' = IF p_head = NULL THEN e ELSE p_tail
          /\ chain' = Append(chain, e)
  BY DEF linked_list_add
<1>2. /\ call = "none" /\ ~OnList(x) /\ copied' = NULL /\ freed' = {}
      /\ call' = call /\ args' = args /\ tmp' = tmp
  BY DEF linked_list_add
<1>3. /\ n \in Nat /\ Len(chain') = n + 1
      /\ \A i \in 1..n : chain'[i] = chain[i] /\ chain[i] \in Cells /\ chain[i] # e /\ chain[i] # NULL
      /\ chain'[n + 1] = e
  BY <1>1, ChainFacts DEF ListInv, TypeOK, WellFormed
<1>4. WellFormed'
  <2>1. \A c \in Cells : c \in allocated' <=> \E i \in 1..(n + 1) : chain'[i] = c
    BY <1>1, <1>3 DEF ListInv, WellFormed
  <2>2. \A i, j \in 1..(n + 1) : i # j => chain'[i] # chain'[j]
    <3>1. \A i \in 1..(n + 1) : i = n + 1 \/ i \in 1..n
      BY <1>3
    <3>2. \A i, j \in 1..n : i # j => chain[i] # chain[j]
      BY DEF ListInv, WellFormed
    <3> QED
      BY <1>3, <3>1, <3>2
  <2>3. \A i \in 1..(n + 1) : next'[chain'[i]] = IF i = 1 THEN NULL ELSE chain'[i - 1]
    BY <1>1, <1>3 DEF ListInv, WellFormed, TypeOK
  <2>4. \A i \in 1..(n + 1) : prev'[chain'[i]] = IF i < n + 1 THEN chain'[i + 1] ELSE NULL
    BY <1>1, <1>2, <1>3 DEF ListInv, WellFormed, TypeOK
  <2>5. p_tail' = chain'[1]
    BY <1>1, <1>2, <1>3, ChainFacts DEF ListInv, WellFormed
  <2>6. n + 1 # 0
    BY <1>3
  <2> QED
    BY <1>1, <1>2, <1>3, <2>1, <2>2, <2>3, <2>4, <2>5, <2>6 DEF WellFormed
<1>5. DataInv'
  <2>1. data_ptr'[e] = x /\ \A i \in 1..n : data_ptr'[chain'[i]] = data_ptr[chain[i]]
    BY <1>1, <1>3 DEF ListInv, TypeOK
  <2>2. /\ \A i \in 1..n : data_ptr[chain[i]] \in Items /\ data_ptr[chain[i]] # x
        /\ \A i, j \in 1..n : i # j => data_ptr[chain[i]] # data_ptr[chain[j]]
    BY <1>2 DEF ListInv, DataInv, OnList
  <2>3. \A i \in 1..(n + 1) : i = n + 1 \/ i \in 1..n
    BY <1>3
  <2> HIDE DEF n
  <2>4. \A i \in 1..(n + 1) : data_ptr'[chain'[i]] \in Items
    BY <1>3, <2>1, <2>2, <2>3
  <2>5. \A i, j \in 1..(n + 1) : i # j => data_ptr'[chain'[i]] # data_ptr'[chain'[j]]
    BY <1>3, <2>1, <2>2, <2>3
  <2> QED
    BY <1>2, <1>3, <2>4, <2>5 DEF DataInv
<1> QED
  BY <1>2, <1>4, <1>5 DEF ListInv, CursorIsLive

(* The element at the tail leaves. *)
LEMMA RemoveKeeps == ASSUME ListInv, TypeOK', linked_list_remove PROVE ListInv'
<1> DEFINE n == Len(chain)
<1>1. /\ n \in Nat \ {0} /\ Len(chain') = n - 1
      /\ \A i \in 1..(n - 1) : chain'[i] = chain[i + 1]
      /\ \A i \in 1..n : chain[i] \in Cells /\ chain[i] # NULL
      /\ call = "none" /\ p_tail = chain[1]
  BY ChainFacts DEF linked_list_remove, ListInv, TypeOK, WellFormed
<1>2. p_tail' = IF n = 1 THEN NULL ELSE chain[2]
  BY <1>1 DEF linked_list_remove, ListInv, WellFormed
<1>3. /\ next' = [c \in Cells |-> IF c = p_tail' THEN NULL ELSE next[c]]
      /\ p_head' = IF p_tail' = NULL THEN NULL ELSE p_head
      /\ allocated' = allocated \ {p_tail}
      /\ freed' = {} /\ UNCHANGED <<prev, data_ptr, call, args, tmp>>
  BY DEF linked_list_remove
<1>4. WellFormed'
  <2>1. \A c \in Cells : c \in allocated' <=> \E i \in 1..(n - 1) : chain'[i] = c
    <3>1. \A i \in 2..n : chain[i] # chain[1]
      BY <1>1 DEF ListInv, WellFormed
    <3>2. \A c \in Cells : c \in allocated' <=> \E i \in 2..n : chain[i] = c
      BY <1>1, <1>3, <3>1 DEF ListInv, WellFormed
    <3>3. \A i \in 2..n : i - 1 \in 1..(n - 1) /\ chain[i] = chain'[i - 1]
      BY <1>1
    <3>4. \A i \in 1..(n - 1) : i + 1 \in 2..n /\ chain'[i] = chain[i + 1]
      BY <1>1
    <3> QED
      BY <3>2, <3>3, <3>4
  <2>2. \A i, j \in 1..(n - 1) : i # j => chain'[i] # chain'[j]
    BY <1>1 DEF ListInv, WellFormed
  <2>3. ASSUME NEW i \in 1..(n - 1)
        PROVE  /\ next'[chain'[i]] = IF i = 1 THEN NULL ELSE chain'[i - 1]
               /\ prev'[chain'[i]] = IF i < n - 1 THEN chain'[i + 1] ELSE NULL
    <3>1. i + 1 \in 1..n /\ n > 1 /\ chain'[i] = chain[i + 1] /\ p_tail' = chain[2]
      BY <1>1, <1>2
    <3>2. CASE i = 1
      BY <1>1, <1>3, <3>1, <3>2, Links
    <3>3. CASE i # 1
      <4>1. /\ i - 1 \in 1..(n - 1) /\ chain'[i - 1] = chain[i]
            /\ i + 1 # 2 /\ 2 \in 1..n
        BY <1>1, <3>1, <3>3
      <4>2. chain[i + 1] # chain[2]
        BY <1>1, <3>1, <4>1, Links
      <4>3. next'[chain'[i]] = chain[i]
        BY <1>1, <1>3, <3>1, <4>1, <4>2, Links
      <4> QED
        BY <1>1, <1>3, <3>1, <3>3, <4>1, <4>3, Links
    <3> QED
      BY <3>2, <3>3
  <2>4. /\ p_tail' = IF n - 1 = 0 THEN NULL ELSE chain'[1]
        /\ p_head' = IF n - 1 = 0 THEN NULL ELSE chain'[n - 1]
    BY <1>1, <1>2, <1>3, Links
  <2>5. Len(chain') = n - 1 /\ call' # "flush"
    BY <1>1, <1>3
  <2> QED
    BY <2>1, <2>2, <2>3, <2>4, <2>5 DEF WellFormed
<1>5. DataInv'
  <2>1. /\ \A i \in 1..n : data_ptr[chain[i]] \in Items
        /\ \A i, j \in 1..n : i # j => data_ptr[chain[i]] # data_ptr[chain[j]]
    BY DEF ListInv, DataInv
  <2>2. \A i \in 1..(n - 1) : i + 1 \in 1..n /\ data_ptr'[chain'[i]] = data_ptr[chain[i + 1]]
    BY <1>1, <1>3
  <2>3. \A i, j \in 1..(n - 1) : i # j => i + 1 # j + 1
    BY <1>1
  <2> HIDE DEF n
  <2>4. /\ \A i \in 1..(n - 1) : data_ptr'[chain'[i]] \in Items
        /\ \A i, j \in 1..(n - 1) : i # j => data_ptr'[chain'[i]] # data_ptr'[chain'[j]]
    BY <2>1, <2>2, <2>3
  <2> QED
    BY <1>1, <1>3, <2>4 DEF DataInv
<1> QED
  BY <1>1, <1>3, <1>4, <1>5 DEF ListInv, CursorIsLive

(* Flush frees the element at the head; p_tail waits for the end. *)
LEMMA FlushKeeps == ASSUME ListInv, TypeOK', FlushStep PROVE ListInv'
<1> DEFINE n == Len(chain)
<1>1. /\ n \in Nat \ {0} /\ p_head = chain[n] /\ call = "flush"
      /\ \A i \in 1..n : chain[i] \in Cells /\ chain[i] # NULL
  BY ChainFacts DEF FlushStep, ListInv, WellFormed
<1>2. /\ Len(chain') = n - 1
      /\ \A i \in 1..(n - 1) : chain'[i] = chain[i]
  BY <1>1, FrontProperties DEF FlushStep, ListInv, TypeOK
<1>3. /\ allocated' = allocated \ {p_head} /\ p_head' = next[p_head]
      /\ UNCHANGED <<p_tail, next, prev, data_ptr, call, args, tmp, copied>>
  BY DEF FlushStep
<1>4. WellFormed'
  <2>1. \A c \in Cells : c \in allocated' <=> \E i \in 1..(n - 1) : chain'[i] = c
    <3>1. \A c \in Cells : c \in allocated <=> \E i \in 1..n : chain[i] = c
      BY DEF ListInv, WellFormed
    <3>2. \A i \in 1..n : i = n \/ i \in 1..(n - 1)
      BY <1>1
    <3>3. \A i \in 1..(n - 1) : i \in 1..n /\ chain[i] # chain[n]
      BY <1>1 DEF ListInv, WellFormed
    <3> HIDE DEF n
    <3> QED
      BY <1>1, <1>2, <1>3, <3>1, <3>2, <3>3
  <2>2. p_head' = IF n - 1 = 0 THEN NULL ELSE chain'[n - 1]
    BY <1>1, <1>2, <1>3 DEF ListInv, WellFormed
  <2>3. \A i, j \in 1..(n - 1) : i # j => chain'[i] # chain'[j]
    BY <1>1, <1>2 DEF ListInv, WellFormed
  <2>4. \A i \in 1..(n - 1) : next'[chain'[i]] = IF i = 1 THEN NULL ELSE chain'[i - 1]
    BY <1>1, <1>2, <1>3 DEF ListInv, WellFormed
  <2>5. ASSUME NEW i \in 1..(n - 1), i < n - 1 PROVE prev'[chain'[i]] = chain'[i + 1]
    <3>1. i \in 1..n /\ i < n /\ i + 1 \in 1..(n - 1)
      BY <1>1, <2>5
    <3>2. prev[chain[i]] = chain[i + 1]
      BY <3>1 DEF ListInv, WellFormed
    <3> QED
      BY <1>2, <1>3, <3>1, <3>2
  <2> QED
    BY <1>1, <1>2, <1>3, <2>1, <2>2, <2>3, <2>4, <2>5 DEF WellFormed
<1>5. DataInv'
  BY <1>1, <1>2, <1>3 DEF DataInv, ListInv
<1> QED
  BY <1>1, <1>3, <1>4, <1>5 DEF ListInv, CursorIsLive

(* The i-th element leaves, its neighbours are linked with each other. *)
UnlinkedAt(i) ==
    /\ i \in 1..Len(chain)
    /\ i = CHOOSE k \in 1..Len(chain) : chain[k] = chain[i]
    /\ Unlink(chain[i])

(* Unlinking an element of linked_list_search leaves a well-formed chain. *)
LEMMA UnlinkKeeps ==
    ASSUME ListInv, call = "search", call' = call, NEW i \in Nat, UnlinkedAt(i)
    PROVE  WellFormed'
<1> DEFINE n == Len(chain)
<1>1. n \in Nat /\ n >= 1 /\ i \in 1..n /\ \A k \in 1..n : chain[k] \in Cells /\ chain[k] # NULL
  BY ChainFacts DEF UnlinkedAt
<1>2. Len(chain') = n - 1 /\ \A k \in 1..(n - 1) : chain'[k] = IF k < i THEN chain[k] ELSE chain[k + 1]
  <2>1. chain' = WithoutIndex(chain, i) /\ chain \in Seq(Cells) /\ i \in 1..Len(chain)
    BY DEF UnlinkedAt, Unlink, ListInv, TypeOK
  <2> QED
    BY <2>1, WithoutIndexProperties
<1>3. /\ \A j, k \in 1..n : j # k => chain[j] # chain[k]
      /\ \A k \in 1..n : next[chain[k]] = IF k = 1 THEN NULL ELSE chain[k - 1]
      /\ \A k \in 1..n : prev[chain[k]] = IF k < n THEN chain[k + 1] ELSE NULL
      /\ p_head = chain[n] /\ p_tail = chain[1]
      /\ \A d \in Cells : d \in allocated <=> \E k \in 1..n : chain[k] = d
  BY <1>1, Links
<1> HIDE DEF n
<1>4. ASSUME NEW k \in 1..(n - 1)
      PROVE  /\ k < i => chain'[k] = chain[k] /\ k \in 1..n /\ k # i
             /\ ~(k < i) => chain'[k] = chain[k + 1] /\ k + 1 \in 1..n /\ k + 1 # i
  BY <1>1, <1>2
<1>5. /\ prev[chain[i]] = IF i < n THEN chain[i + 1] ELSE NULL
      /\ next[chain[i]] = IF i = 1 THEN NULL ELSE chain[i - 1]
  BY <1>1, <1>3
<1>6. /\ p_head' = IF i = n THEN next[chain[i]] ELSE chain[n]
      /\ p_tail' = IF i = 1 THEN prev[chain[i]] ELSE chain[1]
  <2>1. /\ p_head' = IF prev[chain[i]] = NULL THEN next[chain[i]] ELSE p_head
        /\ p_tail' = IF next[chain[i]] = NULL THEN prev[chain[i]] ELSE p_tail
    BY DEF UnlinkedAt, Unlink
  <2>2. i = n \/ i < n
    BY <1>1
  <2>3. (i < n => chain[i + 1] # NULL) /\ (i # 1 => chain[i - 1] # NULL)
    BY <1>1
  <2> QED
    BY <1>3, <1>5, <2>1, <2>2, <2>3
<1>7. \A d \in Cells : d \in allocated' <=> \E k \in 1..(n - 1) : chain'[k] = d
  <2>1. \A d \in Cells : d \in allocated' <=> d # chain[i] /\ \E k \in 1..n : chain[k] = d
    BY <1>1, <1>3 DEF UnlinkedAt, Unlink
  <2>2. ASSUME NEW k \in 1..n, k # i PROVE \E j \in 1..(n - 1) : chain'[j] = chain[k]
    <3>1. CASE k < i
      <4>1. k \in 1..(n - 1)
        BY <1>1, <3>1
      <4> QED
        BY <1>4, <3>1, <4>1
    <3>2. CASE ~(k < i)
      <4>1. k - 1 \in 1..(n - 1) /\ ~(k - 1 < i) /\ k - 1 + 1 = k
        BY <1>1, <2>2, <3>2
      <4> QED
        BY <1>4, <4>1
    <3> QED
      BY <3>1, <3>2
  <2>3. ASSUME NEW k \in 1..(n - 1) PROVE chain'[k] # chain[i] /\ \E j \in 1..n : chain[j] = chain'[k]
    BY <1>1, <1>3, <1>4
  <2> QED
    BY <1>1, <2>1, <2>2, <2>3
<1>8. \A j, k \in 1..(n - 1) : j # k => chain'[j] # chain'[k]
  <2>1. ASSUME NEW j \in 1..(n - 1), NEW k \in 1..(n - 1), j < k PROVE chain'[j] # chain'[k]
    <3>1. PICK j1 \in 1..n : chain'[j] = chain[j1] /\ j1 = IF j < i THEN j ELSE j + 1
      BY <1>4
    <3>2. PICK k1 \in 1..n : chain'[k] = chain[k1] /\ k1 = IF k < i THEN k ELSE k + 1
      BY <1>4
    <3>3. j1 # k1
      BY <1>1, <2>1, <3>1, <3>2
    <3> QED
      BY <1>3, <3>1, <3>2, <3>3
  <2> QED
    BY <1>1, <2>1
<1>9. p_head' = IF n - 1 = 0 THEN NULL ELSE chain'[n - 1]
  BY <1>1, <1>4, <1>5, <1>6
<1>10. p_tail' = IF n - 1 = 0 THEN NULL ELSE chain'[1]
  BY <1>1, <1>4, <1>5, <1>6
<1>11. ASSUME NEW k \in 1..(n - 1)
       PROVE  /\ next'[chain'[k]] = IF k = 1 THEN NULL ELSE chain'[k - 1]
              /\ prev'[chain'[k]] = IF k < n - 1 THEN chain'[k + 1] ELSE NULL
  <2>1. /\ \A d \in Cells \ {chain[i]} : next'[d] = IF d = prev[chain[i]] THEN next[chain[i]] ELSE next[d]
        /\ \A d \in Cells \ {chain[i]} : prev'[d] = IF d = next[chain[i]] THEN prev[chain[i]] ELSE prev[d]
    BY DEF UnlinkedAt, Unlink
  <2>2. CASE k < i
    BY <1>1, <1>3, <1>4, <1>5, <2>1, <2>2
  <2>3. CASE ~(k < i)
    BY <1>1, <1>3, <1>4, <1>5, <2>1, <2>3
  <2> QED
    BY <2>2, <2>3
<1>12. call' # "flush"
  OBVIOUS
<1> QED
  BY <1>2, <1>7, <1>8, <1>9, <1>10, <1>11, <1>12 DEF WellFormed

(* What is left of the list keeps its data objects. *)
LEMMA FoundKeeps == ASSUME ListInv, TypeOK', SearchFound PROVE ListInv'
<1>1. /\ call = "search" /\ call' = call /\ tmp # NULL /\ tmp' = NULL
  BY DEF SearchFound
<1>2. CASE ~args.rm_if_found
  <2>1. UNCHANGED <<heap, freed>>
    BY <1>2 DEF SearchFound
  <2>2. UNCHANGED <<p_head, p_tail, next, prev, data_ptr, allocated, chain, freed>>
    BY <2>1 DEF heap
  <2> QED
    BY <1>1, <2>2 DEF ListInv, WellFormed, CursorIsLive, DataInv
<1>3. CASE args.rm_if_found
  <2>1. PICK i \in 1..Len(chain) : chain[i] = tmp /\ i = CHOOSE k \in 1..Len(chain) : chain[k] = tmp
    BY <1>1, CursorIndex
  <2>2. Unlink(tmp)
    BY <1>3 DEF SearchFound
  <2>3. i \in Nat /\ UnlinkedAt(i)
    BY <2>1, <2>2 DEF UnlinkedAt
  <2>4. WellFormed'
    BY <1>1, <2>3, UnlinkKeeps
  <2>5. /\ Len(chain') = Len(chain) - 1 /\ Len(chain) \in Nat /\ data_ptr' = data_ptr
        /\ \A k \in 1..(Len(chain) - 1) : chain'[k] = IF k < i THEN chain[k] ELSE chain[k + 1]
    BY <2>1, <2>2, WithoutIndexProperties DEF Unlink, ListInv, TypeOK
  <2>6. ASSUME NEW k \in 1..Len(chain')
        PROVE  \E j \in 1..Len(chain) : j = (IF k < i THEN k ELSE k + 1) /\ chain'[k] = chain[j]
    BY <2>3, <2>5
  <2>7. DataInv'
    <3>1. ASSUME NEW j \in 1..Len(chain'), NEW k \in 1..Len(chain'), j # k
          PROVE  data_ptr'[chain'[j]] # data_ptr'[chain'[k]]
      <4>1. PICK j1 \in 1..Len(chain) : j1 = (IF j < i THEN j ELSE j + 1) /\ chain'[j] = chain[j1]
        BY <2>6
      <4>2. PICK k1 \in 1..Len(chain) : k1 = (IF k < i THEN k ELSE k + 1) /\ chain'[k] = chain[k1]
        BY <2>6
      <4>3. j1 # k1
        BY <2>3, <2>5, <3>1, <4>1, <4>2
      <4> QED
        BY <2>5, <4>1, <4>2, <4>3 DEF ListInv, DataInv
    <3>2. \A k \in 1..Len(chain') : data_ptr'[chain'[k]] \in Items
      BY <2>5, <2>6 DEF ListInv, DataInv
    <3> QED
      BY <1>1, <3>1, <3>2 DEF DataInv
  <2> QED
    BY <1>1, <2>4, <2>7 DEF ListInv, CursorIsLive
<1> QED
  BY <1>2, <1>3

(* The cursor moves one element towards the tail. *)
LEMMA NextKeeps == ASSUME ListInv, TypeOK', SearchNext PROVE ListInv'
<1>1. /\ call = "search" /\ tmp # NULL /\ tmp' = next[tmp] /\ data_ptr[tmp] \notin args.equal
      /\ UNCHANGED <<p_head, p_tail, next, prev, data_ptr, allocated, chain, call, args, copied, freed>>
  BY DEF SearchNext, heap
<1>2. PICK i \in 1..Len(chain) :
          chain[i] = tmp /\ \A j \in (i + 1)..Len(chain) : data_ptr[chain[j]] \notin args.equal
  BY <1>1, CursorIndex
<1>3. tmp' = IF i = 1 THEN NULL ELSE chain[i - 1]
  BY <1>1, <1>2, Links
<1>4. CursorIsLive'
  <2>1. CASE i = 1
    BY <1>3, <2>1 DEF CursorIsLive
  <2>2. CASE i # 1
    <3>1. i - 1 \in 1..Len(chain) /\ Len(chain) \in Nat
      BY <2>2, ChainFacts
    <3>2. \A j \in ((i - 1) + 1)..Len(chain) : data_ptr[chain[j]] \notin args.equal
      <4>1. \A j \in ((i - 1) + 1)..Len(chain) : j = i \/ j \in (i + 1)..Len(chain)
        BY <3>1
      <4> QED
        BY <1>1, <1>2, <4>1
    <3> QED
      BY <1>1, <1>3, <2>2, <3>1, <3>2 DEF CursorIsLive
  <2> QED
    BY <2>1, <2>2
<1> QED
  BY <1>1, <1>4 DEF ListInv, WellFormed, DataInv

(* A search starts at the head, where nothing was rejected yet. *)
LEMMA SearchKeeps == ASSUME ListInv, TypeOK', NEW a \in Args, linked_list_search(a) PROVE ListInv'
<1>1. /\ call = "none" /\ call' = "search" /\ args' = a /\ tmp' = p_head /\ freed' = {} /\ copied' = NULL
      /\ UNCHANGED <<p_head, p_tail, next, prev, data_ptr, allocated, chain>>
  BY DEF linked_list_search, heap
<1>2. CursorIsLive'
  <2>1. CASE p_head = NULL
    BY <1>1, <2>1 DEF CursorIsLive
  <2>2. CASE p_head # NULL
    <3>1. Len(chain) \in Nat /\ Len(chain) \in 1..Len(chain) /\ chain[Len(chain)] = p_head
      BY <1>1, <2>2, ChainFacts, Links
    <3>2. (Len(chain) + 1)..Len(chain) = {}
      BY <3>1
    <3> QED
      BY <1>1, <3>1, <3>2 DEF CursorIsLive
  <2> QED
    BY <2>1, <2>2
<1> QED
  BY <1>1, <1>2 DEF ListInv, WellFormed, DataInv

(* Every step keeps the invariant. *)
LEMMA ListStep == ListInv /\ [Next]_vars => ListInv'
<1> SUFFICES ASSUME ListInv, [Next]_vars PROVE ListInv'
  OBVIOUS
<1>t. TypeOK'
  BY TypeStep
<1>1. ASSUME NEW x \in Items, linked_list_add(x) PROVE ListInv'
  BY <1>1, <1>t, AddKeeps
<1>2. CASE Fails
  BY <1>2, <1>t DEF Fails, heap, ListInv, WellFormed, CursorIsLive, DataInv
<1>3. CASE linked_list_remove
  BY <1>3, <1>t, RemoveKeeps
<1>4. CASE linked_list_flush
  BY <1>4, <1>t DEF linked_list_flush, heap, ListInv, WellFormed, CursorIsLive, DataInv
<1>5. CASE FlushStep
  BY <1>5, <1>t, FlushKeeps
<1>6. CASE FlushEnds
  <2>1. Len(chain) = 0 /\ chain' = chain /\ data_ptr' = data_ptr
    BY <1>6, ChainFacts DEF FlushEnds
  <2> QED
    BY <1>6, <1>t, <2>1 DEF FlushEnds, ListInv, WellFormed, CursorIsLive, DataInv
<1>7. ASSUME NEW a \in Args, linked_list_search(a) PROVE ListInv'
  BY <1>7, <1>t, SearchKeeps
<1>8. CASE SearchNext
  BY <1>8, <1>t, NextKeeps
<1>9. CASE SearchFound
  BY <1>9, <1>t, FoundKeeps
<1>10. CASE SearchEnds
  BY <1>10, <1>t DEF SearchEnds, heap, ListInv, WellFormed, CursorIsLive, DataInv
<1>11. CASE UNCHANGED vars
  BY <1>11, <1>t DEF vars, heap, ListInv, WellFormed, CursorIsLive, DataInv
<1> QED
  BY <1>1, <1>2, <1>3, <1>4, <1>5, <1>6, <1>7, <1>8, <1>9, <1>10, <1>11 DEF Next

(* The whole induction *)
LEMMA ListInvariant == Spec => []ListInv
BY ListInit, ListStep, PTL DEF Spec

-----------------------------------------------------------------------------
(* Refinement: the data objects along the chain are the abstract list *)

DataOf(ch, dp) == [i \in 1..Len(ch) |-> dp[ch[i]]]
data == DataOf(chain, data_ptr)

(* The objects along a chain of cells are a sequence as long as the chain. *)
LEMMA DataOfFacts ==
    ASSUME NEW ch \in Seq(Cells), NEW dp, \A i \in 1..Len(ch) : dp[ch[i]] \in Items
    PROVE  /\ DataOf(ch, dp) \in Seq(Items)
           /\ Len(DataOf(ch, dp)) = Len(ch)
           /\ Len(ch) \in Nat
           /\ \A i \in 1..Len(ch) : DataOf(ch, dp)[i] = dp[ch[i]]
<1>1. Len(ch) \in Nat
  OBVIOUS
<1>2. DataOf(ch, dp) \in [1..Len(ch) -> Items]
  BY DEF DataOf
<1>3. DataOf(ch, dp) \in Seq(Items)
  BY <1>1, <1>2, SeqDef
<1>4. Len(DataOf(ch, dp)) = Len(ch)
  BY <1>1, <1>2, <1>3, LenProperties
<1> QED
  BY <1>1, <1>3, <1>4 DEF DataOf

(* The abstract list before a step *)
LEMMA DataIsSeq ==
    ASSUME ListInv
    PROVE  /\ data \in Seq(Items) /\ Len(data) = Len(chain) /\ Len(chain) \in Nat
           /\ \A i \in 1..Len(chain) : data[i] = data_ptr[chain[i]]
BY DataOfFacts DEF data, ListInv, TypeOK, DataInv

(* The abstract list after a step *)
LEMMA DataIsSeqNext ==
    ASSUME ListInv'
    PROVE  /\ data' \in Seq(Items) /\ Len(data') = Len(chain') /\ Len(chain') \in Nat
           /\ \A i \in 1..Len(chain') : data'[i] = data_ptr'[chain'[i]]
BY DataOfFacts DEF data, ListInv, TypeOK, DataInv

(* Steps that leave the elements alone leave the abstract list alone. *)
LEMMA DataSame == ASSUME UNCHANGED <<chain, data_ptr>> PROVE data' = data
BY DEF data

(* linked_list_add appends to the abstract list. *)
LEMMA AddRefines ==
    ASSUME ListInv, ListInv', NEW x \in Items, linked_list_add(x)
    PROVE  data' = Append(data, x) /\ \A i \in 1..Len(data) : data[i] # x
<1>1. PICK e \in Cells \ allocated : data_ptr' = [data_ptr EXCEPT ![e] = x] /\ chain' = Append(chain, e)
  BY DEF linked_list_add
<1>2. /\ Len(chain') = Len(chain) + 1 /\ Len(chain) \in Nat
      /\ \A i \in 1..Len(chain) : chain'[i] = chain[i] /\ chain[i] \in Cells /\ chain[i] # e
      /\ chain'[Len(chain) + 1] = e
  BY <1>1, ChainFacts DEF ListInv, TypeOK, WellFormed
<1>3. /\ data' \in Seq(Items) /\ Len(data') = Len(chain) + 1
      /\ \A i \in 1..(Len(chain) + 1) : data'[i] = data_ptr'[chain'[i]]
  BY <1>2, DataIsSeqNext
<1>4. /\ Append(data, x) \in Seq(Items) /\ Len(Append(data, x)) = Len(chain) + 1
      /\ \A i \in 1..Len(chain) : Append(data, x)[i] = data_ptr[chain[i]]
      /\ Append(data, x)[Len(chain) + 1] = x
  BY DataIsSeq
<1>t. data_ptr \in [Cells -> Items \cup {NULL}]
  BY DEF ListInv, TypeOK
<1>5. ASSUME NEW i \in 1..(Len(chain) + 1) PROVE data'[i] = Append(data, x)[i]
  <2>1. CASE i \in 1..Len(chain)
    <3>1. data_ptr'[chain[i]] = data_ptr[chain[i]]
      BY <1>1, <1>2, <1>t, <2>1
    <3> QED
      BY <3>1, <2>1, <1>2, <1>3, <1>4
  <2>2. CASE i = Len(chain) + 1
    <3>1. data_ptr'[e] = x
      BY <1>1, <1>t
    <3> QED
      BY <3>1, <2>2, <1>2, <1>3, <1>4
  <2>3. i \in 1..Len(chain) \/ i = Len(chain) + 1
    <3>1. Len(chain) \in Nat
      BY <1>2
    <3> QED
      BY <3>1
  <2> QED
    BY <2>1, <2>2, <2>3
<1>6. data' = Append(data, x)
  BY <1>3, <1>4, <1>5, SeqEqual
<1> QED
  BY <1>6, DataIsSeq DEF linked_list_add, OnList

(* linked_list_remove takes the head of the abstract list. *)
LEMMA RemoveRefines ==
    ASSUME ListInv, ListInv', linked_list_remove
    PROVE  data # <<>> /\ data' = Tail(data) /\ copied' = Head(data)
<1>1. /\ chain # <<>> /\ Len(chain) > 0 /\ p_tail = chain[1]
      /\ chain' = Tail(chain) /\ data_ptr' = data_ptr /\ copied' = data_ptr[p_tail]
  BY ChainFacts DEF linked_list_remove, ListInv, WellFormed
<1>2. /\ Len(chain') = Len(chain) - 1 /\ Len(chain) \in Nat
      /\ \A i \in 1..(Len(chain) - 1) : chain'[i] = chain[i + 1]
  BY <1>1 DEF ListInv, TypeOK
<1>3. data \in Seq(Items) /\ data # <<>> /\ Len(data) = Len(chain)
  BY <1>1, DataIsSeq
<1>4. /\ Tail(data) \in Seq(Items) /\ Len(Tail(data)) = Len(chain) - 1
      /\ \A i \in 1..(Len(chain) - 1) : Tail(data)[i] = data[i + 1]
  BY <1>3
<1>5. ASSUME NEW i \in 1..(Len(chain) - 1) PROVE data'[i] = Tail(data)[i]
  <2>1. data'[i] = data_ptr[chain[i + 1]]
    BY <1>1, <1>2, DataIsSeqNext
  <2>2. data[i + 1] = data_ptr[chain[i + 1]]
    BY <1>2, DataIsSeq
  <2> QED
    BY <2>1, <2>2, <1>4
<1>6. data' \in Seq(Items) /\ Len(data') = Len(chain) - 1
  BY <1>2, DataIsSeqNext
<1>7. data' = Tail(data)
  BY <1>4, <1>5, <1>6, SeqEqual
<1>8. Head(data) = data_ptr[chain[1]]
  BY <1>1, <1>3, DataIsSeq
<1> QED
  BY <1>1, <1>3, <1>7, <1>8

(* One iteration of linked_list_flush drops the newest object. *)
LEMMA FlushRefines ==
    ASSUME ListInv, ListInv', FlushStep
    PROVE  /\ data # <<>> /\ data' = SubSeq(data, 1, Len(data) - 1)
           /\ freed' = {data[Len(data)]} \cap Deallocated
           /\ copied' = NULL
<1>1. /\ Len(chain) \in Nat /\ Len(chain) > 0 /\ p_head = chain[Len(chain)]
      /\ chain' = SubSeq(chain, 1, Len(chain) - 1) /\ data_ptr' = data_ptr
      /\ freed' = {data_ptr[p_head]} \cap Deallocated
  BY ChainFacts DEF FlushStep, ListInv, WellFormed
<1>2. /\ Len(chain') = Len(chain) - 1
      /\ \A i \in 1..(Len(chain) - 1) : chain'[i] = chain[i]
  BY <1>1, FrontProperties DEF ListInv, TypeOK
<1>3. data \in Seq(Items) /\ data # <<>> /\ Len(data) = Len(chain)
  BY <1>1, DataIsSeq
<1>4. /\ SubSeq(data, 1, Len(data) - 1) \in Seq(Items)
      /\ Len(SubSeq(data, 1, Len(data) - 1)) = Len(chain) - 1
      /\ \A i \in 1..(Len(chain) - 1) : SubSeq(data, 1, Len(data) - 1)[i] = data[i]
  BY <1>1, <1>3, FrontProperties
<1>5. ASSUME NEW i \in 1..(Len(chain) - 1) PROVE data'[i] = data[i]
  <2>1. data'[i] = data_ptr[chain[i]]
    BY <1>1, <1>2, DataIsSeqNext
  <2>2. data[i] = data_ptr[chain[i]]
    BY <1>1, DataIsSeq
  <2> QED
    BY <2>1, <2>2
<1>6. data' \in Seq(Items) /\ Len(data') = Len(chain) - 1
  BY <1>2, DataIsSeqNext
<1>7. data' = SubSeq(data, 1, Len(data) - 1)
  BY <1>4, <1>5, <1>6, SeqEqual
<1>8. data[Len(data)] = data_ptr[p_head]
  BY <1>1, <1>3, DataIsSeq
<1>9. copied' = NULL
  BY DEF FlushStep, ListInv, DataInv
<1> QED
  BY <1>1, <1>3, <1>7, <1>8, <1>9

(* A search that finds removes the newest match, if it removes anything. *)
LEMMA FoundRefines ==
    ASSUME ListInv, ListInv', SearchFound
    PROVE  Abstract!Search(args.equal, args.data_p, args.rm_if_found)
<1>1. call = "search" /\ tmp # NULL /\ freed = {} /\ data_ptr[tmp] \in args.equal
  BY DEF SearchFound, ListInv, DataInv
<1>2. PICK i \in 1..Len(chain) :
          /\ chain[i] = tmp
          /\ i = CHOOSE k \in 1..Len(chain) : chain[k] = tmp
          /\ \A j \in (i + 1)..Len(chain) : data_ptr[chain[j]] \notin args.equal
  BY <1>1, CursorIndex
<1>3. /\ data \in Seq(Items) /\ Len(data) = Len(chain) /\ Len(chain) \in Nat
      /\ \A j \in 1..Len(chain) : data[j] = data_ptr[chain[j]]
  BY DataIsSeq
<1>4. data[i] = data_ptr[tmp]
  BY <1>2, <1>3
<1>5. \A j \in (i + 1)..Len(data) : data[j] \notin args.equal
  BY <1>2, <1>3
<1>6. data' = IF args.rm_if_found THEN WithoutIndex(data, i) ELSE data
  <2>1. CASE ~args.rm_if_found
    BY <2>1, DataSame DEF SearchFound, heap
  <2>2. CASE args.rm_if_found
    <3>1. chain' = WithoutIndex(chain, i) /\ data_ptr' = data_ptr
      BY <1>2, <2>2 DEF SearchFound, Unlink
    <3>2. /\ Len(chain') = Len(chain) - 1
          /\ \A k \in 1..(Len(chain) - 1) : chain'[k] = IF k < i THEN chain[k] ELSE chain[k + 1]
      <4>1. chain \in Seq(Cells)
        BY DEF ListInv, TypeOK
      <4> QED
        BY <1>2, <3>1, <4>1, WithoutIndexProperties
    <3>3. /\ WithoutIndex(data, i) \in Seq(Items)
          /\ Len(WithoutIndex(data, i)) = Len(chain) - 1
          /\ \A k \in 1..(Len(chain) - 1) :
                 WithoutIndex(data, i)[k] = IF k < i THEN data[k] ELSE data[k + 1]
      <4>1. i \in 1..Len(data)
        BY <1>2, <1>3
      <4>2. Len(data) - 1 = Len(chain) - 1
        BY <1>3
      <4> QED
        BY <4>1, <4>2, <1>3, WithoutIndexProperties
    <3>4. data' \in Seq(Items) /\ Len(data') = Len(chain) - 1
      BY <3>2, DataIsSeqNext
    <3>5. ASSUME NEW k \in 1..(Len(chain) - 1) PROVE data'[k] = WithoutIndex(data, i)[k]
      <4>1. data'[k] = data_ptr[chain'[k]]
        BY <3>1, <3>2, DataIsSeqNext
      <4>2. data[k] = data_ptr[chain[k]] /\ data[k + 1] = data_ptr[chain[k + 1]]
        BY <1>3
      <4>3. chain'[k] = IF k < i THEN chain[k] ELSE chain[k + 1]
        BY <3>2
      <4>4. WithoutIndex(data, i)[k] = IF k < i THEN data[k] ELSE data[k + 1]
        BY <3>3
      <4> QED
        BY <4>1, <4>2, <4>3, <4>4
    <3>6. data' = WithoutIndex(data, i)
      BY <3>3, <3>4, <3>5, SeqEqual
    <3> QED
      BY <2>2, <3>6
  <2> QED
    BY <2>1, <2>2
<1>7. copied' = IF args.data_p THEN data[i] ELSE NULL
  BY <1>4 DEF SearchFound
<1>8. freed' = IF args.rm_if_found /\ ~args.data_p THEN {data[i]} \cap Deallocated ELSE {}
  BY <1>1, <1>4 DEF SearchFound
<1>9. i \in 1..Len(data) /\ data[i] \in args.equal
  BY <1>1, <1>2, <1>3, <1>4
<1> QED
  BY <1>5, <1>6, <1>7, <1>8, <1>9 DEF Abstract!Search, Abstract!WithoutIndex, WithoutIndex, data, DataOf

(* Every step of the pointer structure is a step of DataList or invisible. *)
LEMMA StepRefines ==
    ASSUME ListInv, ListInv', [Next]_vars
    PROVE  [Abstract!Next]_Abstract!listVars
<1> USE DEF data, DataOf
<1>n. UNCHANGED <<chain, data_ptr>> /\ copied' = NULL /\ freed' = {} => Abstract!Next
  BY DataSame DEF Abstract!Next, Abstract!Nothing
<1>s. UNCHANGED <<chain, data_ptr, copied, freed>> => UNCHANGED Abstract!listVars
  BY DataSame DEF Abstract!listVars
<1>1. ASSUME NEW x \in Items, linked_list_add(x) PROVE Abstract!Next
  <2>1. copied' = NULL /\ freed' = {}
    BY <1>1 DEF linked_list_add
  <2> QED
    BY <1>1, <2>1, AddRefines DEF Abstract!Next, Abstract!Add
<1>2. CASE Fails
  BY <1>2, <1>n DEF Fails, heap
<1>3. CASE linked_list_remove
  <2>1. freed' = {}
    BY <1>3 DEF linked_list_remove
  <2> QED
    BY <1>3, <2>1, RemoveRefines DEF Abstract!Next, Abstract!Remove
<1>4. CASE linked_list_flush
  BY <1>4, <1>n DEF linked_list_flush, heap
<1>5. CASE FlushStep
  BY <1>5, FlushRefines DEF Abstract!Next, Abstract!FlushOne, Abstract!Newest
<1>6. CASE FlushEnds
  BY <1>6, <1>n DEF FlushEnds, ListInv, DataInv
<1>7. ASSUME NEW a \in Args, linked_list_search(a) PROVE Abstract!Next
  BY <1>7, <1>n DEF linked_list_search, heap
<1>8. CASE SearchNext
  BY <1>8, <1>s DEF SearchNext, heap
<1>9. CASE SearchFound
  <2>1. args.equal \in SUBSET Items /\ args.data_p \in BOOLEAN /\ args.rm_if_found \in BOOLEAN
    BY DEF ListInv, TypeOK, Args
  <2>2. Abstract!Search(args.equal, args.data_p, args.rm_if_found)
    BY <1>9, FoundRefines
  <2>3. \E equal \in SUBSET Items, data_p, rm \in BOOLEAN : Abstract!Search(equal, data_p, rm)
    BY <2>1, <2>2 DEF Abstract!Search
  <2> QED
    BY <2>3 DEF Abstract!Next
<1>10. CASE SearchEnds
  BY <1>10, <1>s DEF SearchEnds, heap
<1>11. CASE UNCHANGED vars
  BY <1>11, <1>s DEF vars, heap
<1> QED
  BY <1>1, <1>2, <1>3, <1>4, <1>5, <1>6, <1>7, <1>8, <1>9, <1>10, <1>11 DEF Next

-----------------------------------------------------------------------------

(* Every variable of linked_list.c keeps its type: pointers are NULL or    *)
(* cells, elements hold NULL or data objects.                              *)
THEOREM TypeCorrect == Spec => []TypeOK
BY ListInvariant, PTL DEF ListInv

(* Whatever is added, removed, flushed or searched, the next and prev      *)
(* pointers of linked_list.c go through exactly the allocated elements, in *)
(* opposite orders: no call leaks an element or leaves a dangling pointer. *)
THEOREM ListWellFormed == Spec => []WellFormed
BY ListInvariant, PTL DEF ListInv

(* The cursor of linked_list_search never reads a freed element, and has   *)
(* passed only objects that its callback rejected.                         *)
THEOREM CursorLive == Spec => []CursorIsLive
BY ListInvariant, PTL DEF ListInv

(* linked_list.c implements the sequence of DataList: first in first out   *)
(* for add and remove, newest match first for search, and each object is   *)
(* either handed out or deallocated, never both.                           *)
THEOREM Refinement == Spec => ImplementsDataList
<1>1. Init => Abstract!Init
  <2>1. ASSUME Init PROVE DataOf(chain, data_ptr) = <<>>
    BY <2>1, ListInit, DataIsSeq DEF Init, data
  <2> QED
    BY <2>1 DEF Init, Abstract!Init, DataOf
<1>2. ListInv /\ ListInv' /\ [Next]_vars => [Abstract!Next]_Abstract!listVars
  BY StepRefines
<1> QED
  BY <1>1, <1>2, ListInvariant, PTL DEF Spec, ImplementsDataList, Abstract!Spec
=============================================================================
