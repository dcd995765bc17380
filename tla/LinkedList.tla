----------------------------- MODULE LinkedList -----------------------------
(***************************************************************************)
(* The doubly linked list of gps/utils/linked_list.c, pointer by pointer.  *)
(* Its callers hold the message queue's mutex or run in the deferred       *)
(* thread only, so calls do not interleave; the loops of flush and search  *)
(* take one step per iteration, to see every pointer they follow.          *)
(*                                                                         *)
(* An element is a heap cell with fields next (towards the tail), prev     *)
(* (towards the head) and data_ptr.  The ghost variable chain lists the    *)
(* cells from the tail to the head; no action reads it but to update it.   *)
(***************************************************************************)
EXTENDS Naturals, Sequences, FiniteSets

CONSTANTS
    Cells,          \* addresses that malloc may return for an element
    Items,          \* data objects of the callers
    Deallocated,    \* those added with a dealloc function
    NULL

ASSUME HeapAssumption ==
    /\ NULL \notin Cells \cup Items
    /\ Deallocated \subseteq Items

VARIABLES
    p_head, p_tail,
    next, prev, data_ptr,   \* the fields of the elements
    allocated,              \* the cells in use
    call,                   \* the call in progress: "none", "flush", "search"
    args,                   \* the arguments of linked_list_search
    tmp,                    \* its cursor
    copied, freed,          \* results of the last call, as in DataList
    chain                   \* ghost

heap == <<p_head, p_tail, next, prev, data_ptr, allocated, chain>>
vars == <<heap, call, args, tmp, copied, freed>>

Args == [equal : SUBSET Items, data_p : BOOLEAN, rm_if_found : BOOLEAN]
NoArgs == [equal |-> {}, data_p |-> FALSE, rm_if_found |-> FALSE]

WithoutIndex(s, i) == [k \in 1..(Len(s) - 1) |-> IF k < i THEN s[k] ELSE s[k + 1]]
OnList(x) == \E i \in 1..Len(chain) : data_ptr[chain[i]] = x

Init ==
    /\ p_head = NULL /\ p_tail = NULL
    /\ next = [c \in Cells |-> NULL]
    /\ prev = [c \in Cells |-> NULL]
    /\ data_ptr = [c \in Cells |-> NULL]
    /\ allocated = {}
    /\ call = "none" /\ args = NoArgs /\ tmp = NULL
    /\ copied = NULL /\ freed = {}
    /\ chain = <<>>

-----------------------------------------------------------------------------
(* linked_list_add: a new element in front of the head.  A data object is  *)
(* added by its owner, which gives it away: it is not on the list already. *)

linked_list_add(x) ==
    /\ call = "none" /\ ~OnList(x)
    /\ \E e \in Cells \ allocated :
        /\ allocated' = allocated \cup {e}
        /\ data_ptr' = [data_ptr EXCEPT ![e] = x]
        /\ p_head' = e
        /\ next' = [next EXCEPT ![e] = p_head]
        /\ prev' = [c \in Cells |-> IF c = e THEN NULL ELSE IF c = p_head THEN e ELSE prev[c]]
        /\ p_tail' = IF p_head = NULL THEN e ELSE p_tail
        /\ chain' = Append(chain, e)
    /\ copied' = NULL /\ freed' = {}
    /\ UNCHANGED <<call, args, tmp>>

(* malloc failed; also an empty list in linked_list_remove and _search *)
Fails ==
    /\ call = "none"
    /\ copied' = NULL /\ freed' = {}
    /\ UNCHANGED <<heap, call, args, tmp>>

linked_list_remove ==
    /\ call = "none" /\ p_tail # NULL
    /\ p_tail' = prev[p_tail]
    /\ next' = [c \in Cells |-> IF c = p_tail' THEN NULL ELSE next[c]]
    /\ p_head' = IF p_tail' = NULL THEN NULL ELSE p_head
    /\ copied' = data_ptr[p_tail]
    /\ allocated' = allocated \ {p_tail}
    /\ chain' = Tail(chain)
    /\ freed' = {}
    /\ UNCHANGED <<prev, data_ptr, call, args, tmp>>

-----------------------------------------------------------------------------
(* linked_list_flush, also called by linked_list_destroy *)

linked_list_flush ==
    /\ call = "none"
    /\ call' = "flush"
    /\ copied' = NULL /\ freed' = {}
    /\ UNCHANGED <<heap, args, tmp>>

FlushStep ==
    /\ call = "flush" /\ p_head # NULL
    /\ freed' = {data_ptr[p_head]} \cap Deallocated
    /\ allocated' = allocated \ {p_head}
    /\ p_head' = next[p_head]
    /\ chain' = SubSeq(chain, 1, Len(chain) - 1)
    /\ UNCHANGED <<p_tail, next, prev, data_ptr, call, args, tmp, copied>>

FlushKeepsTail ==
    /\ call = "flush" /\ p_head = NULL
    /\ call' = "none"
    /\ freed' = {}
    /\ UNCHANGED <<heap, args, tmp, copied>>

FlushEnds ==
    /\ call = "flush" /\ p_head = NULL
    /\ p_tail' = NULL
    /\ call' = "none"
    /\ freed' = {}
    /\ UNCHANGED <<p_head, next, prev, data_ptr, allocated, chain, args, tmp, copied>>

-----------------------------------------------------------------------------
(* linked_list_search: equal is the set of objects its callback accepts *)

linked_list_search(a) ==
    /\ call = "none" /\ p_tail # NULL
    /\ call' = "search" /\ args' = a /\ tmp' = p_head
    /\ copied' = NULL /\ freed' = {}
    /\ UNCHANGED heap

SearchNext ==
    /\ call = "search" /\ tmp # NULL
    /\ data_ptr[tmp] \notin args.equal
    /\ tmp' = next[tmp]
    /\ UNCHANGED <<heap, call, args, copied, freed>>

Unlink(c) ==
    /\ p_head' = IF prev[c] = NULL THEN next[c] ELSE p_head
    /\ p_tail' = IF next[c] = NULL THEN prev[c] ELSE p_tail
    /\ next' = [d \in Cells |-> IF d = c THEN NULL ELSE IF d = prev[c] THEN next[c] ELSE next[d]]
    /\ prev' = [d \in Cells |-> IF d = c THEN NULL ELSE IF d = next[c] THEN prev[c] ELSE prev[d]]
    /\ allocated' = allocated \ {c}
    /\ chain' = WithoutIndex(chain, CHOOSE i \in 1..Len(chain) : chain[i] = c)
    /\ UNCHANGED data_ptr

FoundFreesCopied ==
    /\ call = "search" /\ tmp # NULL
    /\ data_ptr[tmp] \in args.equal
    /\ copied' = IF args.data_p THEN data_ptr[tmp] ELSE NULL
    /\ IF args.rm_if_found
       THEN Unlink(tmp) /\ freed' = {data_ptr[tmp]} \cap Deallocated
       ELSE UNCHANGED <<heap, freed>>
    /\ tmp' = NULL
    /\ UNCHANGED <<call, args>>

FoundKeepsCursor ==
    /\ call = "search" /\ tmp # NULL
    /\ data_ptr[tmp] \in args.equal
    /\ copied' = IF args.data_p THEN data_ptr[tmp] ELSE NULL
    /\ IF args.rm_if_found
       THEN /\ Unlink(tmp)
            /\ freed' = IF args.data_p THEN {} ELSE {data_ptr[tmp]} \cap Deallocated
       ELSE UNCHANGED <<heap, freed>>
    /\ UNCHANGED <<call, args, tmp>>

SearchFound ==
    /\ call = "search" /\ tmp # NULL
    /\ data_ptr[tmp] \in args.equal
    /\ copied' = IF args.data_p THEN data_ptr[tmp] ELSE NULL
    /\ IF args.rm_if_found
       THEN /\ Unlink(tmp)
            /\ freed' = IF args.data_p THEN {} ELSE {data_ptr[tmp]} \cap Deallocated
       ELSE UNCHANGED <<heap, freed>>
    /\ tmp' = NULL
    /\ UNCHANGED <<call, args>>

SearchEnds ==
    /\ call = "search" /\ tmp = NULL
    /\ call' = "none" /\ args' = NoArgs
    /\ UNCHANGED <<heap, tmp, copied, freed>>

-----------------------------------------------------------------------------

Next ==
    \/ \E x \in Items : linked_list_add(x)
    \/ Fails
    \/ linked_list_remove
    \/ linked_list_flush \/ FlushStep \/ FlushEnds
    \/ \E a \in Args : linked_list_search(a)
    \/ SearchNext \/ SearchFound \/ SearchEnds

Spec == Init /\ [][Next]_vars

-----------------------------------------------------------------------------
(* Properties *)

Pointers == Cells \cup {NULL}

TypeOK ==
    /\ p_head \in Pointers /\ p_tail \in Pointers /\ tmp \in Pointers
    /\ next \in [Cells -> Pointers] /\ prev \in [Cells -> Pointers]
    /\ data_ptr \in [Cells -> Items \cup {NULL}]
    /\ allocated \subseteq Cells
    /\ call \in {"none", "flush", "search"}
    /\ args \in Args
    /\ copied \in Items \cup {NULL} /\ freed \subseteq Items
    /\ chain \in Seq(Cells)

(* Following next from p_head reaches every element once and ends at NULL, *)
(* following prev from p_tail goes the same way back, and the elements on  *)
(* the way are the ones allocated: nothing dangles and nothing is leaked.  *)
(* While flush runs p_tail is stale, and so is the prev pointer to the     *)
(* element that was freed last.                                            *)
WellFormed ==
    LET n == Len(chain)
    IN  /\ \A c \in Cells : c \in allocated <=> \E i \in 1..n : chain[i] = c
        /\ \A i, j \in 1..n : i # j => chain[i] # chain[j]
        /\ p_head = IF n = 0 THEN NULL ELSE chain[n]
        /\ call # "flush" => p_tail = IF n = 0 THEN NULL ELSE chain[1]
        /\ \A i \in 1..n : next[chain[i]] = IF i = 1 THEN NULL ELSE chain[i - 1]
        /\ \A i \in 1..n :
               i < n \/ call # "flush" =>
                   prev[chain[i]] = IF i < n THEN chain[i + 1] ELSE NULL

(* The cursor of a search never points to an element that was freed, and   *)
(* everything younger than it was rejected.                                *)
CursorIsLive ==
    call = "search" /\ tmp # NULL =>
        \E i \in 1..Len(chain) :
            /\ chain[i] = tmp
            /\ \A j \in (i + 1)..Len(chain) : data_ptr[chain[j]] \notin args.equal

(* The pointer structure implements the list of DataList. *)
Abstract == INSTANCE DataList
    WITH list <- [i \in 1..Len(chain) |-> data_ptr[chain[i]]]

ImplementsDataList == Abstract!Spec
=============================================================================
