------------------------------- MODULE ListUse -------------------------------
(***************************************************************************)
(* A program that uses the lists of mpi-serial (list.c), as the main() at  *)
(* its end does, in any order: several lists on one heap, whose freed      *)
(* items are given out again, and a traversal that goes on while the lists *)
(* change.  The program keeps to the rules of list.c: it passes an item    *)
(* with the list it is on, does not use a list or an item that was freed,  *)
(* and during a traversal deletes the item it stands at only as main()     *)
(* does, after it has read the next one.                                   *)
(***************************************************************************)
EXTENDS ListOps

CONSTANTS ListData,           \* the data, numbers as in main()
          MaxItems, MaxLists, \* bounds: items and lists at a time, and the items
          MaxAdd              \* from which on none is added, only copied

ASSUME ListUseAssumption == MaxItems \in Nat /\ MaxLists \in Nat /\ MaxAdd \in Nat

VARIABLES
  ls,      \* heap: every item that is allocated, by address; lists: head, tail
           \* and count of each list; itemcount, headcount: static in list.c
  cursor,  \* the traversal of the program: the list, 0 for none, and temp
  ret      \* history: what the last call returned, <<-1>> when it aborted

listVars == <<ls, cursor, ret>>

NoCursor == [list |-> 0, temp |-> NoItem]

ListInit == /\ ls = [heap |-> <<>>, lists |-> <<>>, itemcount |-> 0, headcount |-> 0]
            /\ cursor = NoCursor
            /\ ret = <<>>

-----------------------------------------------------------------------------
\* List p as the operations of ListOps see it: its items are on the heap, with
\* those of the other lists.
View(x, p) == [x.lists[p] EXCEPT !.item = x.heap]

\* The state after list p has become l; a list keeps no items of its own.
Store(x, p, l) ==
  [x EXCEPT !.heap = l.item,
            !.lists = [q \in DOMAIN @ \cup {p} |->
                         IF q = p THEN [l EXCEPT !.item = <<>>] ELSE @[q]]]

AP_listitem_malloc(x) == [x EXCEPT !.itemcount = @ + 1]

NewHandle(x) == CHOOSE p \in 1 .. MaxLists : p \notin DOMAIN x.lists

CopyOneWay(c, a, data) ==         \* mutant: the new item does not point back
  [prev |-> a,
   head |-> IF c.prev # NoItem THEN c.head ELSE a,
   item |-> [x \in DOMAIN c.item \cup {a} |->
               [data |-> IF x = a THEN data ELSE c.item[x].data,
                prev |-> IF x = a THEN NoItem ELSE c.item[x].prev,
                next |-> IF x \in {a, c.prev} THEN a ELSE c.item[x].next]]]

\* A round of the copying loop: the new item points back to prev, and prev, or
\* the head for the first one, points to it.  Its own next is not set yet and
\* holds whatever malloc left there, here its own address.
CopyRound(c, a, data) ==
  [prev |-> a,
   head |-> IF c.prev # NoItem THEN c.head ELSE a,
   item |-> [x \in DOMAIN c.item \cup {a} |->
               [data |-> IF x = a THEN data ELSE c.item[x].data,
                prev |-> IF x = a THEN c.prev ELSE c.item[x].prev,
                next |-> IF x \in {a, c.prev} THEN a ELSE c.item[x].next]]]

\* After the loop the last item gets its next, and the list its tail and count.
CopyEnd(c, count) ==
  [head |-> c.head, tail |-> c.prev, count |-> count,
   item |-> [x \in DOMAIN c.item |->
               [data |-> c.item[x].data, prev |-> c.item[x].prev,
                next |-> IF x = c.prev THEN NoItem ELSE c.item[x].next]]]

\* The copies are linked by hand, without AP_list_append.
AP_list_duplicate(l) ==
  LET s == Visited(l)
      copy[i \in 0 .. Len(s)] ==
        IF i = 0 THEN [prev |-> NoItem, head |-> NoItem, item |-> l.item]
        ELSE CopyRound(copy[i - 1], Malloc(copy[i - 1]), l.item[s[i]].data)
  IN  CopyEnd(copy[Len(s)], l.count)

FreeKeepsLast(x, p) ==            \* mutant: the last item is not freed
  [x EXCEPT !.heap = [a \in DOMAIN @ \ (Range(Visited(View(x, p))) \ {x.lists[p].tail}) |-> @[a]],
            !.itemcount = @ - Cardinality(Range(Visited(View(x, p))) \ {x.lists[p].tail}),
            !.lists = [q \in DOMAIN @ \ {p} |-> @[q]],
            !.headcount = @ - 1]

AP_list_free(x, p) ==
  LET gone == Visited(View(x, p))
  IN  [x EXCEPT !.heap = [a \in DOMAIN @ \ Range(gone) |-> @[a]],
                !.itemcount = @ - Len(gone),
                !.lists = [q \in DOMAIN @ \ {p} |-> @[q]],
                !.headcount = @ - 1]

AP_listitem_verify(x) == x.itemcount # 0 \/ x.headcount # 0

\* The data from the head on, as AP_list_print prints them; from the tail on,
\* following prev (AP_list_revprint), the other one.
DataBack(l) ==
  LET s == Reached(l.tail, [a \in DOMAIN l.item |-> l.item[a].prev])
  IN  [i \in DOMAIN s |-> l.item[s[i]].data]

\* The sum of what func, of data, returns for the items of the list.
AP_list_apply(l, func) ==
  LET s == Visited(l)
      total[i \in 0 .. Len(s)] ==
        IF i = 0 THEN 0 ELSE total[i - 1] + func[l.item[s[i]].data]
  IN  total[Len(s)]

\* The datum of an end of the list, none when it is empty.
AP_list_end(l, a) == IF a = NoItem THEN <<>> ELSE <<l.item[a].data>>

-----------------------------------------------------------------------------
(* The calls of the program.                                               *)

NewList == /\ Cardinality(DOMAIN ls.lists) < MaxLists
           /\ ls' = [Store(ls, NewHandle(ls), [AP_list_new EXCEPT !.item = ls.heap])
                       EXCEPT !.headcount = @ + 1]
           /\ ret' = <<>>
           /\ UNCHANGED cursor

Adds(p, l) == /\ Cardinality(DOMAIN ls.heap) < MaxAdd
              /\ ls' = AP_listitem_malloc(Store(ls, p, l))
              /\ ret' = <<>>
              /\ UNCHANGED cursor

PrependItem(p, d) == Adds(p, AP_list_prepend(View(ls, p), Malloc(View(ls, p)), d))

AppendItem(p, d) == Adds(p, AP_list_append(View(ls, p), Malloc(View(ls, p)), d))

DeleteData(p, d) ==
  LET l == View(ls, p)
      a == AP_list_search(l, d)
  IN  /\ a # NoItem => a # cursor.temp
      /\ ls' = IF a = NoItem THEN ls
               ELSE [Store(ls, p, AP_list_delete(l, d)) EXCEPT !.itemcount = @ - 1]
      /\ ret' = <<IF a = NoItem THEN 0 ELSE 1>>
      /\ UNCHANGED cursor

DuplicateList(p) ==
  LET l == View(ls, p)
  IN  /\ Cardinality(DOMAIN ls.lists) < MaxLists
      /\ Cardinality(DOMAIN ls.heap) + Len(Visited(l)) <= MaxItems
      /\ ls' = [Store(ls, NewHandle(ls), AP_list_duplicate(l))
                  EXCEPT !.headcount = @ + 1, !.itemcount = @ + Len(Visited(l))]
      /\ ret' = <<>>
      /\ UNCHANGED cursor

FreeList(p) == /\ p # cursor.list
               /\ IF Freeable(View(ls, p)) THEN ls' = AP_list_free(ls, p) /\ ret' = <<>>
                                           ELSE ls' = ls /\ ret' = <<-1>>
               /\ UNCHANGED cursor

BeginTraversal(p) == /\ cursor.list = 0
                     /\ cursor' = [list |-> p, temp |-> NoItem]
                     /\ ret' = <<>>
                     /\ UNCHANGED ls

\* The traversal of list l goes on to item a, or is over.
Reaches(l, a) ==
  IF a = NoItem THEN cursor' = NoCursor /\ ret' = <<0>>
                ELSE /\ cursor' = [cursor EXCEPT !.temp = a]
                     /\ ret' = <<1, l.item[a].data>>

ListNextItem == /\ cursor.list # 0
                /\ LET l == View(ls, cursor.list)
                   IN  Reaches(l, AP_list_next(l, cursor.temp))
                /\ UNCHANGED ls

\* The traversal of main() that deletes the item it stands at.
DeleteWhereItStands ==
  /\ cursor.temp # NoItem
  /\ LET l == View(ls, cursor.list)
     IN  /\ ls' = [Store(ls, cursor.list, AP_list_delete_item(l, cursor.temp))
                     EXCEPT !.itemcount = @ - 1]
         /\ Reaches(l, l.item[cursor.temp].next)

ListNext == \/ NewList \/ ListNextItem \/ DeleteWhereItStands
            \/ \E p \in DOMAIN ls.lists :
                 \/ DuplicateList(p) \/ FreeList(p) \/ BeginTraversal(p)
                 \/ \E d \in ListData : PrependItem(p, d) \/ AppendItem(p, d) \/ DeleteData(p, d)

ListSpec == ListInit /\ [][ListNext]_listVars

-----------------------------------------------------------------------------
(* Properties *)

\* The items of list p, in order.
ItemsOf(p) == Visited(View(ls, p))

\* Every item of the heap is on one list, and the counts of list.c:28 are right.
Accounted ==
  /\ ls.itemcount = Cardinality(DOMAIN ls.heap)
  /\ ls.headcount = Cardinality(DOMAIN ls.lists)
  /\ \A p \in DOMAIN ls.lists :
       IsList([View(ls, p) EXCEPT !.item = [a \in Range(ItemsOf(p)) |-> ls.heap[a]]], ItemsOf(p))
  /\ \A p, q \in DOMAIN ls.lists : p # q => Range(ItemsOf(p)) \cap Range(ItemsOf(q)) = {}
  /\ DOMAIN ls.heap = UNION {Range(ItemsOf(p)) : p \in DOMAIN ls.lists}
  /\ cursor.temp # NoItem => cursor.temp \in Range(ItemsOf(cursor.list))

\* The calls that change nothing say what is there: the number of data
\* (AP_list_size), both ends, the same data forwards and backwards, what a search
\* finds, as many data as apply counts, and whether anything is outstanding,
\* which is so until the program has freed its last list.
AnswersTrue ==
  /\ AP_listitem_verify(ls) <=> DOMAIN ls.lists # {}
  /\ \A p \in DOMAIN ls.lists :
       LET l == View(ls, p)
           s == Data(l)
           n == Len(s)
       IN  /\ l.count = n
           /\ DataBack(l) = Reverse(s)
           /\ AP_list_end(l, l.head) = SubSeq(s, 1, IF n = 0 THEN 0 ELSE 1)
           /\ AP_list_end(l, l.tail) = SubSeq(s, IF n = 0 THEN 1 ELSE n, n)
           /\ \A d \in ListData :
                /\ AP_list_search(l, d) # NoItem <=> d \in Range(s)
                /\ AP_list_apply(l, [x \in ListData |-> IF x = d THEN 1 ELSE 0])
                     = Cardinality({i \in DOMAIN s : s[i] = d})

\* Whatever is prepended, deleted, duplicated and freed, and however the copies
\* of a list are built, no item is lost, none is on two lists, the cursor is on
\* its list, and the calls that only look at the lists (list.c:78, 328, 398,
\* 425, 568) say what is there.
NothingLost == Accounted /\ AnswersTrue

\* What the program knows of the lists: their data, and how far its traversal is.
Seqs == [p \in DOMAIN ls.lists |-> Data(View(ls, p))]
Place(s, x) == IF x = NoItem THEN 0 ELSE SelectInSeq(s, LAMBDA a : a = x)
At == [list |-> cursor.list, pos |-> Place(ItemsOf(cursor.list), cursor.temp)]

\* The lists answer every call as sequences of data would: they are apart from
\* each other although they share a heap, read the same in both directions,
\* and a traversal comes to every datum that is there when it gets to it, once.
DataSequences == INSTANCE DataLists
  WITH Values <- ListData, Lists <- 1 .. MaxLists,
       seqs <- Seqs, at <- At, answer <- ret
SequencesSpec == DataSequences!Spec

=============================================================================
