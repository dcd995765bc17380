------------------------------ MODULE DataList ------------------------------
(***************************************************************************)
(* What gps/utils/linked_list.h promises its users, the message queue and  *)
(* the AGPS subscriber lists: a sequence of data objects, oldest first.    *)
(* Objects are added at the young end, removed at the old end, and         *)
(* searched from the young end.                                            *)
(***************************************************************************)
EXTENDS Naturals, Sequences

CONSTANTS
    Items,          \* data objects
    Deallocated,    \* those added with a dealloc function
    NULL

VARIABLES
    list,           \* the objects, oldest first
    copied,         \* the object the last call copied out, or NULL
    freed           \* the objects the last call deallocated

listVars == <<list, copied, freed>>

Newest == list[Len(list)]
WithoutIndex(s, i) == [k \in 1..(Len(s) - 1) |-> IF k < i THEN s[k] ELSE s[k + 1]]

Init == list = <<>> /\ copied = NULL /\ freed = {}

(* A call that finds nothing, or could not allocate an element *)
Nothing == list' = list /\ copied' = NULL /\ freed' = {}

Add(x) ==
    /\ \A i \in 1..Len(list) : list[i] # x
    /\ list' = Append(list, x)
    /\ copied' = NULL /\ freed' = {}

Remove ==
    /\ list # <<>>
    /\ copied' = Head(list)
    /\ list' = Tail(list)
    /\ freed' = {}

(* Flushing deallocates one object after the other, the newest first. *)
FlushOne ==
    /\ list # <<>>
    /\ list' = SubSeq(list, 1, Len(list) - 1)
    /\ freed' = {Newest} \cap Deallocated
    /\ copied' = NULL

(* The newest match is copied out or, when nobody takes it, deallocated. *)
Search(equal, data_p, rm_if_found) ==
    \E i \in 1..Len(list) :
        /\ list[i] \in equal
        /\ \A j \in (i + 1)..Len(list) : list[j] \notin equal
        /\ copied' = IF data_p THEN list[i] ELSE NULL
        /\ list' = IF rm_if_found THEN WithoutIndex(list, i) ELSE list
        /\ freed' = IF rm_if_found /\ ~data_p THEN {list[i]} \cap Deallocated ELSE {}

Next ==
    \/ Nothing
    \/ \E x \in Items : Add(x)
    \/ Remove
    \/ FlushOne
    \/ \E equal \in SUBSET Items, data_p, rm \in BOOLEAN : Search(equal, data_p, rm)

Spec == Init /\ [][Next]_listVars
=============================================================================
