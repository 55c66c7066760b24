------------------------------- MODULE Lists -------------------------------
(***************************************************************************)
(* The intrusive lists of src/lib/list.h and src/include/utils/utils.h.    *)
(*                                                                         *)
(* Memory is a value m with one function per field.  For the circular      *)
(* lists: m.next and m.prev, from struct list_head to struct list_head,    *)
(* heads and entries alike.  For the hash lists: m.next and m.pprev.  A    *)
(* pprev points to a pointer, either the first of a head or the next of a  *)
(* node; the head or node stands for the address, so m.next[head] is       *)
(* head->first.  A function that writes returns the new memory; EXCEPT     *)
(* makes its assignments in the order in which they are written.           *)
(***************************************************************************)
EXTENDS Integers, FiniteSets, SequencesExt

CONSTANT NULL

-----------------------------------------------------------------------------
(* Circular doubly linked lists *)

INIT_LIST_HEAD(m, list) == [m EXCEPT !.next[list] = list, !.prev[list] = list]

__list_add(m, new, prev, next) ==
  [m EXCEPT !.prev[next] = new, !.next[new] = next,
            !.prev[new] = prev, !.next[prev] = new]

list_add(m, new, head) == __list_add(m, new, head, m.next[head])
list_add_tail(m, new, head) == __list_add(m, new, m.prev[head], head)

__list_del(m, prev, next) == [m EXCEPT !.prev[next] = prev, !.next[prev] = next]

__list_del_entry(m, entry) == __list_del(m, m.prev[entry], m.next[entry])

list_del(m, entry) ==
  [__list_del_entry(m, entry) EXCEPT !.next[entry] = NULL, !.prev[entry] = NULL]

list_replace(m, old, new) ==
  LET m1 == [m EXCEPT !.next[new] = m.next[old], !.prev[m.next[old]] = new]
  IN  [m1 EXCEPT !.prev[new] = m1.prev[old], !.next[m1.prev[old]] = new]

list_replace_init(m, old, new) == INIT_LIST_HEAD(list_replace(m, old, new), old)

(* Mutant: neighbours are not treated specially.                           *)
list_swapNoNeighbours(m, entry1, entry2) ==
  list_add(list_replace(list_del(m, entry2), entry1, entry2), entry1, m.prev[entry2])

list_swap(m, entry1, entry2) ==
  LET pos == m.prev[entry2]
  IN  list_add(list_replace(list_del(m, entry2), entry1, entry2),
               entry1, IF pos = entry1 THEN entry2 ELSE pos)

list_del_init(m, entry) == INIT_LIST_HEAD(__list_del_entry(m, entry), entry)

list_move(m, list, head) == list_add(__list_del_entry(m, list), list, head)
list_move_tail(m, list, head) == list_add_tail(__list_del_entry(m, list), list, head)

list_bulk_move_tail(m, head, first, last) ==
  LET m1 == [m EXCEPT !.next[m.prev[first]] = m.next[last],
                      !.prev[m.next[last]] = m.prev[first]]
  IN  [m1 EXCEPT !.next[m1.prev[head]] = first, !.prev[first] = m1.prev[head],
                 !.next[last] = head, !.prev[head] = last]

list_is_first(m, list, head) == m.prev[list] = head
list_is_last(m, list, head) == m.next[list] = head
list_is_head(list, head) == list = head
list_empty(m, head) == m.next[head] = head

list_rotate_left(m, head) ==
  IF list_empty(m, head) THEN m ELSE list_move_tail(m, m.next[head], head)

list_rotate_to_front(m, list, head) == list_move_tail(m, head, list)

list_is_singular(m, head) == ~ list_empty(m, head) /\ m.next[head] = m.prev[head]

__list_cut_position(m, list, head, entry) ==
  [m EXCEPT !.next[list] = m.next[head], !.prev[m.next[head]] = list,
            !.prev[list] = entry, !.next[entry] = list,
            !.next[head] = m.next[entry], !.prev[m.next[entry]] = head]

list_cut_position(m, list, head, entry) ==
  CASE list_empty(m, head) -> m
    [] list_is_singular(m, head) /\ ~ list_is_head(entry, head)
         /\ entry # m.next[head] -> m
    [] list_is_head(entry, head) -> INIT_LIST_HEAD(m, list)
    [] OTHER -> __list_cut_position(m, list, head, entry)

list_cut_before(m, list, head, entry) ==
  IF m.next[head] = entry
  THEN INIT_LIST_HEAD(m, list)
  ELSE LET m1 == [m EXCEPT !.next[list] = m.next[head], !.prev[m.next[head]] = list]
       IN  [m1 EXCEPT !.prev[list] = m1.prev[entry], !.next[m1.prev[entry]] = list,
                      !.next[head] = entry, !.prev[entry] = head]

__list_splice(m, list, prev, next) ==
  [m EXCEPT !.prev[m.next[list]] = prev, !.next[prev] = m.next[list],
            !.next[m.prev[list]] = next, !.prev[next] = m.prev[list]]

list_splice(m, list, head) ==
  IF list_empty(m, list) THEN m ELSE __list_splice(m, list, head, m.next[head])

list_splice_tail(m, list, head) ==
  IF list_empty(m, list) THEN m ELSE __list_splice(m, list, m.prev[head], head)

(* Mutant: the head that was emptied still points to the entries.          *)
list_splice_initDangling(m, list, head) == list_splice(m, list, head)

list_splice_init(m, list, head) ==
  IF list_empty(m, list) THEN m ELSE INIT_LIST_HEAD(list_splice(m, list, head), list)

list_splice_tail_init(m, list, head) ==
  IF list_empty(m, list) THEN m ELSE INIT_LIST_HEAD(list_splice_tail(m, list, head), list)

list_next_entry_circular(m, pos, head) ==
  IF list_is_last(m, pos, head) THEN m.next[head] ELSE m.next[pos]

list_prev_entry_circular(m, pos, head) ==
  IF list_is_first(m, pos, head) THEN m.prev[head] ELSE m.prev[pos]

(* The places a loop visits that starts at from, follows link and ends at  *)
(* stop.  A loop that does not end shows more places than there are.       *)
Visit(link, from, stop) ==
  LET Places == DOMAIN link \cup Range(link) \cup {from}
      walk[bound \in 0 .. Cardinality(DOMAIN link) + 1] ==
        [p \in Places |->
           IF p = stop \/ bound = 0 THEN <<>>
           ELSE <<p>> \o walk[bound - 1][IF p \in DOMAIN link THEN link[p] ELSE p]]
  IN  walk[Cardinality(DOMAIN link) + 1][from]

list_for_each(m, head) == Visit(m.next, m.next[head], head)
list_for_each_prev(m, head) == Visit(m.prev, m.prev[head], head)

-----------------------------------------------------------------------------
(* utils.h: deletion that may be repeated, insertion that moves *)

(* Mutant: the entry keeps the null pointers of list_del.                  *)
list_delete_safeOnce(m, list) == list_del(m, list)

list_delete_safe(m, list) == INIT_LIST_HEAD(list_del(m, list), list)
list_add_tail_safe(m, new, list) == list_add_tail(list_delete_safe(m, new), new, list)
list_add_safe(m, new, list) == list_add(list_delete_safe(m, new), new, list)

-----------------------------------------------------------------------------
(* Hash lists: a head with one pointer *)

INIT_HLIST_HEAD(m, h) == [m EXCEPT !.next[h] = NULL]
INIT_HLIST_NODE(m, n) == [m EXCEPT !.next[n] = NULL, !.pprev[n] = NULL]
hlist_unhashed(m, n) == m.pprev[n] = NULL
hlist_empty(m, h) == m.next[h] = NULL

(* The pprev of n points to place, unless n is NULL.                       *)
SetPprev(m, n, place) == IF n = NULL THEN m ELSE [m EXCEPT !.pprev[n] = place]

(* Mutant: the successor keeps its pprev.                                  *)
__hlist_delOneWay(m, n) == [m EXCEPT !.next[m.pprev[n]] = m.next[n]]

__hlist_del(m, n) ==
  SetPprev([m EXCEPT !.next[m.pprev[n]] = m.next[n]], m.next[n], m.pprev[n])

hlist_del(m, n) == INIT_HLIST_NODE(__hlist_del(m, n), n)
hlist_del_init(m, n) ==
  IF hlist_unhashed(m, n) THEN m ELSE INIT_HLIST_NODE(__hlist_del(m, n), n)

hlist_add_head(m, n, h) ==
  [SetPprev([m EXCEPT !.next[n] = m.next[h]], m.next[h], n)
     EXCEPT !.next[h] = n, !.pprev[n] = h]

hlist_add_before(m, n, next) ==
  [m EXCEPT !.pprev[n] = m.pprev[next], !.next[n] = next,
            !.pprev[next] = n, !.next[m.pprev[next]] = n]

(* Mutant: the successor keeps its pprev.                                  *)
hlist_add_behindOneWay(m, n, prev) ==
  [m EXCEPT !.next[n] = m.next[prev], !.next[prev] = n, !.pprev[n] = prev]

hlist_add_behind(m, n, prev) ==
  SetPprev([m EXCEPT !.next[n] = m.next[prev], !.next[prev] = n, !.pprev[n] = prev],
           m.next[prev], n)

hlist_add_fake(m, n) == [m EXCEPT !.pprev[n] = n]
hlist_fake(m, n) == m.pprev[n] = n
hlist_is_singular_node(m, n, h) == m.next[n] = NULL /\ m.pprev[n] = h

hlist_move_list(m, old, new) ==
  [SetPprev([m EXCEPT !.next[new] = m.next[old]], m.next[old], new)
     EXCEPT !.next[old] = NULL]

hlist_for_each(m, h) == Visit(m.next, m.next[h], NULL)
=============================================================================
