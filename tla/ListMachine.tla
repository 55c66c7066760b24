---------------------------- MODULE ListMachine ----------------------------
(***************************************************************************)
(* Any program over the circular lists of Lists: every operation, applied  *)
(* as its comment in list.h allows, in any order.  Next to the memory m    *)
(* the sequences are kept that the operations are meant to work on.        *)
(***************************************************************************)
EXTENDS Lists

CONSTANTS LIST_HEAD, Entry

ASSUME NodeAssumption == IsFiniteSet(LIST_HEAD \cup Entry) /\ LIST_HEAD \cap Entry = {} /\ NULL \notin LIST_HEAD \cup Entry

VARIABLES m,      \* the links
          lists,  \* the sequence each head stands for
          nulled  \* the entries that list_del has left with null links

vars == <<m, lists, nulled>>

In(l) == ToSet(lists[l])
Linked == UNION {In(l) : l \in LIST_HEAD}
Off == Entry \ Linked
Node == LIST_HEAD \cup Entry

(* The place of pos in the list l; the head has place 0 as a predecessor   *)
(* and comes after the last entry as a successor.                          *)
Place(l, pos) == IF pos = l THEN 0 ELSE CHOOSE i \in DOMAIN lists[l] : lists[l][i] = pos
PlaceBefore(l, pos) == IF pos = l THEN Len(lists[l]) ELSE Place(l, pos) - 1
Upto(l, k) == SubSeq(lists[l], 1, Min({k, Len(lists[l])}))
From(l, k) == SubSeq(lists[l], k + 1, Len(lists[l]))

Without(x) == [l \in LIST_HEAD |-> RemoveFirst(lists[l], x)]
Renamed(f) == [l \in LIST_HEAD |-> [i \in DOMAIN lists[l] |-> f[lists[l][i]]]]
Exchanged(x, y) == [z \in Entry |-> IF z = x THEN y ELSE IF z = y THEN x ELSE z]

Do(memory, sequences) ==
  m' = memory /\ lists' = sequences /\ nulled' = nulled \ Linked'

Init ==
  /\ m = [next |-> [x \in Node |-> x], prev |-> [x \in Node |-> x]]
  /\ lists = [l \in LIST_HEAD |-> <<>>]
  /\ nulled = {}

(* list_add and list_add_tail also insert behind or before an entry.       *)
Insert ==
  \E x \in Off, l \in LIST_HEAD : \E pos \in {l} \cup In(l) :
    \/ Do(list_add(m, x, pos),
          [lists EXCEPT ![l] = InsertAt(@, Place(l, pos) + 1, x)])
    \/ Do(list_add_tail(m, x, pos),
          [lists EXCEPT ![l] = InsertAt(@, PlaceBefore(l, pos) + 1, x)])

Delete ==
  \E x \in Linked :
    \/ m' = list_del(m, x) /\ lists' = Without(x) /\ nulled' = nulled \cup {x}
    \/ Do(list_del_init(m, x), Without(x))

(* The variants of utils.h may be applied to an entry in no list, unless   *)
(* it has been taken off the last one by list_del.                         *)
Safe ==
  \E x \in Entry \ nulled :
    \/ Do(list_delete_safe(m, x), Without(x))
    \/ \E l \in LIST_HEAD :
         \/ Do(list_add_safe(m, x, l), [Without(x) EXCEPT ![l] = <<x>> \o @])
         \/ Do(list_add_tail_safe(m, x, l), [Without(x) EXCEPT ![l] = Append(@, x)])

Move ==
  \E x \in Linked, l \in LIST_HEAD :
    \/ Do(list_move(m, x, l), [Without(x) EXCEPT ![l] = <<x>> \o @])
    \/ Do(list_move_tail(m, x, l), [Without(x) EXCEPT ![l] = Append(@, x)])

Replace ==
  \/ \E old \in Linked, new \in Off :
       Do(list_replace_init(m, old, new), Renamed(Exchanged(old, new)))
  \/ \E old, new \in LIST_HEAD :
       /\ old # new /\ lists[new] = <<>>
       /\ Do(list_replace_init(m, old, new), [lists EXCEPT ![new] = lists[old], ![old] = <<>>])

Swap ==
  \E x, y \in Linked : x # y /\ Do(list_swap(m, x, y), Renamed(Exchanged(x, y)))

BulkMove ==
  \E l \in LIST_HEAD : \E i \in DOMAIN lists[l] : \E j \in i .. Len(lists[l]) :
    Do(list_bulk_move_tail(m, l, lists[l][i], lists[l][j]),
       [lists EXCEPT ![l] = Upto(l, i - 1) \o From(l, j) \o SubSeq(@, i, j)])

Rotate ==
  \E l \in LIST_HEAD :
    \/ Do(list_rotate_left(m, l), [lists EXCEPT ![l] = From(l, 1) \o Upto(l, 1)])
    \/ \E x \in In(l) :
         LET k == PlaceBefore(l, x)
         IN  Do(list_rotate_to_front(m, x, l), [lists EXCEPT ![l] = From(l, k) \o Upto(l, k)])

Cut ==
  \E to, l \in LIST_HEAD : \E pos \in {l} \cup In(l) :
    /\ to # l /\ lists[to] = <<>>
    /\ \/ LET k == Place(l, pos)
          IN  Do(list_cut_position(m, to, l, pos), [lists EXCEPT ![to] = Upto(l, k), ![l] = From(l, k)])
       \/ LET k == PlaceBefore(l, pos)
          IN  Do(list_cut_before(m, to, l, pos), [lists EXCEPT ![to] = Upto(l, k), ![l] = From(l, k)])

Splice ==
  \E list, l \in LIST_HEAD :
    /\ list # l
    /\ \/ Do(list_splice_init(m, list, l),
             [lists EXCEPT ![l] = lists[list] \o @, ![list] = <<>>])
       \/ Do(list_splice_tail_init(m, list, l),
             [lists EXCEPT ![l] = @ \o lists[list], ![list] = <<>>])

Next ==
  Insert \/ Delete \/ Safe \/ Move \/ Replace \/ Swap \/ BulkMove \/ Rotate \/ Cut \/ Splice

Spec == Init /\ [][Next]_vars

-----------------------------------------------------------------------------
(* Following next from a head visits the entries the operations should     *)
(* have left there, in their order, and following prev visits them in      *)
(* reverse: no operation leaves the two directions apart or makes a walk   *)
(* endless, whatever was done before.                                      *)
WalksAgree ==
  \A l \in LIST_HEAD : /\ list_for_each(m, l) = lists[l]
                  /\ list_for_each_prev(m, l) = Reverse(lists[l])

(* utils.h: the safe deletion may be repeated and may precede any          *)
(* insertion.  Whatever took an entry off its list, other than list_del,   *)
(* left it linked to itself, so that a second deletion writes to no list   *)
(* the entry has been in.                                                  *)
OffListEntriesHarmless ==
  \A x \in Off : {m.next[x], m.prev[x]} = {IF x \in nulled THEN NULL ELSE x}

(* The tests read one or two links and stand for a statement on the whole  *)
(* list: empty, one entry, first, last, and the neighbours in the circle.  *)
TestsAgree ==
  \A l \in LIST_HEAD :
    LET n == Len(lists[l]) IN
    /\ list_empty(m, l) <=> n = 0
    /\ list_is_singular(m, l) <=> n = 1
    /\ \A i \in 1 .. n :
         /\ list_is_first(m, lists[l][i], l) <=> i = 1
         /\ list_is_last(m, lists[l][i], l) <=> i = n
         /\ list_next_entry_circular(m, lists[l][i], l) = lists[l][(i % n) + 1]
         /\ list_prev_entry_circular(m, lists[l][i], l) = lists[l][((i + n - 2) % n) + 1]
=============================================================================
