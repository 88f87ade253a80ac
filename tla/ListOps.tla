------------------------------- MODULE ListOps --------------------------------
(***************************************************************************)
(* The doubly linked lists of mpi-serial (lib/mct/mpi-serial/list.c), in   *)
(* which a communicator keeps its pending sends and receives.              *)
(*                                                                         *)
(* A list carries its own heap: item maps the address of each item that    *)
(* was allocated and not yet freed to the item.  An address is a positive  *)
(* number, the C null pointer is 0.                                        *)
(***************************************************************************)
EXTENDS Naturals, SequencesExt

NoItem == 0

AP_list_new == [head |-> NoItem, tail |-> NoItem, count |-> 0, item |-> <<>>]

\* What malloc returns: an address that is not in use.
Malloc(l) == CHOOSE a \in 1 .. Cardinality(DOMAIN l.item) + 1 : a \notin DOMAIN l.item

\* The new item is the head, and the tail too when the list was empty.
AP_list_prepend(l, a, data) ==
  [head  |-> a,
   tail  |-> IF l.tail # NoItem THEN l.tail ELSE a,
   count |-> l.count + 1,
   item  |-> [x \in DOMAIN l.item \cup {a} |->
                IF x = a THEN [data |-> data, prev |-> NoItem, next |-> l.head]
                ELSE IF x = l.head THEN [l.item[x] EXCEPT !.prev = a]
                ELSE l.item[x]]]

AP_list_append(l, a, data) ==
  [head  |-> IF l.tail # NoItem THEN l.head ELSE a,
   tail  |-> a,
   count |-> l.count + 1,
   item  |-> [x \in DOMAIN l.item \cup {a} |->
                [data |-> IF x = a THEN data ELSE l.item[x].data,
                 prev |-> IF x = a THEN l.tail ELSE l.item[x].prev,
                 next |-> IF x = a THEN NoItem
                          ELSE IF x = l.tail THEN a ELSE l.item[x].next]]]

DeleteForwardOnly(l, a) ==        \* mutant: the back link of the next item is kept
  LET i == l.item[a]
  IN  [head  |-> IF a = l.head THEN i.next ELSE l.head,
       tail  |-> IF a = l.tail THEN i.prev ELSE l.tail,
       count |-> l.count - 1,
       item  |-> [x \in DOMAIN l.item \ {a} |->
                    IF a # l.head /\ x = i.prev THEN [l.item[x] EXCEPT !.next = i.next]
                                                ELSE l.item[x]]]

\* The item's neighbours, or the ends of the list, are made to skip it, and
\* the item is freed.
AP_list_delete_item(l, a) ==
  LET i == l.item[a]
      SetNext(x) == a # l.head /\ x = i.prev
      SetPrev(x) == a # l.tail /\ x = i.next
  IN  [head  |-> IF a = l.head THEN i.next ELSE l.head,
       tail  |-> IF a = l.tail THEN i.prev ELSE l.tail,
       count |-> l.count - 1,
       item  |-> [x \in DOMAIN l.item \ {a} |->
                    [data |-> l.item[x].data,
                     next |-> IF SetNext(x) THEN i.next ELSE l.item[x].next,
                     prev |-> IF SetPrev(x) THEN i.prev ELSE l.item[x].prev]]]

\* What following next from first comes to, in order, up to NoItem.
Reached(first, next) ==
  LET n == Cardinality(DOMAIN next)
      at[i \in 1 .. n] == IF i = 1 THEN first
                          ELSE IF at[i - 1] \in DOMAIN next \ {NoItem} THEN next[at[i - 1]]
                          ELSE NoItem
  IN  [i \in 1 .. Cardinality({i \in 1 .. n : at[i] # NoItem}) |-> at[i]]

\* The addresses that the loops of list.c visit, from the head on.
Visited(l) == Reached(l.head, [a \in DOMAIN l.item |-> l.item[a].next])

\* The first item whose data is in matching, NoItem when there is none.
AP_list_search_func(l, matching) ==
  LET i == SelectInSeq(Visited(l), LAMBDA a : l.item[a].data \in matching)
  IN  IF i = 0 THEN NoItem ELSE Visited(l)[i]

AP_list_search(l, data) == AP_list_search_func(l, {data})

\* Deletes the first item with this data, if there is one.
AP_list_delete(l, data) ==
  LET a == AP_list_search(l, data)
  IN  IF a = NoItem THEN l ELSE AP_list_delete_item(l, a)

NextStaysAtHead(l, temp) == l.head   \* mutant: temp is not looked at

\* The item after temp, the head when temp is null: NoItem at the end.
AP_list_next(l, temp) == IF temp # NoItem THEN l.item[temp].next ELSE l.head

\* AP_list_free aborts unless the loop frees as many items as were counted.
Freeable(l) == Len(Visited(l)) = l.count

-----------------------------------------------------------------------------
\* The items of l, in order, are those at the addresses s: s is what the
\* pointers say in both directions, nothing is lost and nothing occurs twice.
IsList(l, s) ==
  /\ \A x \in DOMAIN l.item : \E i \in 1 .. Len(s) : s[i] = x
  /\ \A i \in 1 .. Len(s) : s[i] \in DOMAIN l.item /\ s[i] # NoItem
  /\ \A i, j \in 1 .. Len(s) : s[i] = s[j] => i = j
  /\ l.count = Len(s)
  /\ l.head = IF Len(s) = 0 THEN NoItem ELSE s[1]
  /\ l.tail = IF Len(s) = 0 THEN NoItem ELSE s[Len(s)]
  /\ \A i \in 1 .. Len(s) :
       /\ l.item[s[i]].next = IF i = Len(s) THEN NoItem ELSE s[i + 1]
       /\ l.item[s[i]].prev = IF i = 1 THEN NoItem ELSE s[i - 1]

Data(l) == LET s == Visited(l)
           IN  [i \in DOMAIN s |-> l.item[s[i]].data]

=============================================================================
