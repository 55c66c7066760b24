---------------------------- MODULE HListMachine ---------------------------
(***************************************************************************)
(* Any program over the hash lists of Lists, next to the sequences its     *)
(* operations are meant to work on, as in ListMachine.                     *)
(***************************************************************************)
EXTENDS Lists

CONSTANTS Bucket, Entry

VARIABLES m,      \* first, next and pprev
          lists,  \* the sequence each bucket stands for
          fakes   \* the nodes made a list of their own by hlist_add_fake

vars == <<m, lists, fakes>>

In(h) == ToSet(lists[h])
Hashed == UNION {In(h) : h \in Bucket}
Off == Entry \ (Hashed \cup fakes)
Place(h, n) == CHOOSE i \in DOMAIN lists[h] : lists[h][i] = n
Without(n) == [h \in Bucket |-> RemoveFirst(lists[h], n)]

Do(memory, sequences) == m' = memory /\ lists' = sequences

(* Static nodes are zero, which is what INIT_HLIST_NODE makes of them.     *)
Init ==
  /\ m = [next |-> [x \in Bucket \cup Entry |-> NULL], pprev |-> [x \in Entry |-> NULL]]
  /\ lists = [h \in Bucket |-> <<>>]
  /\ fakes = {}

Add ==
  /\ \E n \in Off, h \in Bucket :
       \/ Do(hlist_add_head(m, n, h), [lists EXCEPT ![h] = <<n>> \o @])
       \/ \E x \in In(h) :
            \/ Do(hlist_add_before(m, n, x), [lists EXCEPT ![h] = InsertAt(@, Place(h, x), n)])
            \/ Do(hlist_add_behind(m, n, x), [lists EXCEPT ![h] = InsertAt(@, Place(h, x) + 1, n)])
  /\ UNCHANGED fakes

AddFake ==
  \E n \in Off : Do(hlist_add_fake(m, n), lists) /\ fakes' = fakes \cup {n}

(* hlist_del needs a node with a pprev, hlist_del_init does not.           *)
Delete ==
  \E n \in Entry :
    /\ \/ n \notin Off /\ Do(hlist_del(m, n), Without(n))
       \/ Do(hlist_del_init(m, n), Without(n))
    /\ fakes' = fakes \ {n}

MoveList ==
  /\ \E old, new \in Bucket :
       /\ old # new /\ lists[new] = <<>>
       /\ Do(hlist_move_list(m, old, new), [lists EXCEPT ![new] = lists[old], ![old] = <<>>])
  /\ UNCHANGED fakes

Next == Add \/ AddFake \/ Delete \/ MoveList

Spec == Init /\ [][Next]_vars

-----------------------------------------------------------------------------
(* A walk of a bucket meets the nodes the operations should have left      *)
(* there, and every pprev is the place that points to the node, through    *)
(* which hlist_del will unlink it without knowing the bucket.              *)
BucketsAgree ==
  /\ \A h \in Bucket :
       /\ hlist_for_each(m, h) = lists[h]
       /\ hlist_empty(m, h) <=> lists[h] = <<>>
  /\ \A n \in Hashed : m.next[m.pprev[n]] = n

(* hlist_unhashed, on which a repeated hlist_del_init relies, tells the    *)
(* nodes in a list from the others, and hlist_is_singular_node and         *)
(* hlist_fake tell from one node what kind of list it is in.               *)
NodeTestsAgree ==
  \A n \in Entry :
    /\ hlist_unhashed(m, n) <=> n \in Off
    /\ hlist_fake(m, n) <=> n \in fakes
    /\ \A h \in Bucket : hlist_is_singular_node(m, n, h) <=> lists[h] = <<n>>

(* "Note that this function leaves the node in hashed state": a node that  *)
(* hlist_del has taken off its list still tells that it is in one.         *)
DeletedStaysHashed ==
  [][\A n \in Entry \ Off : m' = hlist_del(m, n) => ~ hlist_unhashed(m', n)]_vars
=============================================================================
