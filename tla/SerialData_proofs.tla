--------------------------- MODULE SerialData_proofs ---------------------------
(***************************************************************************)
(* The two data structures of mpi-serial, for any size of theirs.  The     *)
(* pointer operations of list.c keep a list a list: they do to the         *)
(* sequence of its items what their names say.  The functions of handles.c *)
(* keep a pool sound: each lemma says what one of them does to a pool that *)
(* is Sound for a free list and a set of handles in use.                   *)
(***************************************************************************)
EXTENDS ListOps, HandlePool, DataInduction, FiniteSetTheorems, SequenceTheorems

-----------------------------------------------------------------------------
(* Lists *)

Dropped(s, k) == [i \in 1 .. Len(s) - 1 |-> IF i < k THEN s[i] ELSE s[i + 1]]

\* A new list (AP_list_new) is the empty sequence.
THEOREM NewIsEmpty == IsList(AP_list_new, <<>>)
BY DEF IsList, AP_list_new, NoItem

\* AP_list_append adds an item that is new on the heap at the end, and only
\* there.
THEOREM AppendIsAppend ==
  ASSUME NEW l, NEW s \in Seq(Nat), IsList(l, s),
         NEW a \in Nat, a # NoItem, a \notin DOMAIN l.item, NEW d
  PROVE  IsList(AP_list_append(l, a, d), Append(s, a))
<1> DEFINE m == AP_list_append(l, a, d)
           t == Append(s, a)
           n == Len(s)
<1>1. /\ Len(t) = n + 1 /\ n \in Nat
      /\ \A i \in 1 .. n : t[i] = s[i]
      /\ t[n + 1] = a
  OBVIOUS
<1>2. /\ DOMAIN m.item = DOMAIN l.item \cup {a}
      /\ m.count = l.count + 1
      /\ m.tail = a
      /\ m.head = IF l.tail # NoItem THEN l.head ELSE a
      /\ m.item[a].prev = l.tail /\ m.item[a].next = NoItem
      /\ \A x \in DOMAIN l.item :
           /\ m.item[x].prev = l.item[x].prev
           /\ m.item[x].next = IF x = l.tail THEN a ELSE l.item[x].next
  BY DEF AP_list_append
<1>3. \A i \in 1 .. n : s[i] \in DOMAIN l.item /\ s[i] # a /\ s[i] # NoItem
  BY DEF IsList
<1>4. /\ l.head = IF n = 0 THEN NoItem ELSE s[1]
      /\ l.tail = IF n = 0 THEN NoItem ELSE s[n]
      /\ l.count = n
      /\ \A i, j \in 1 .. n : s[i] = s[j] => i = j
  BY DEF IsList
<1>5. \A i \in 1 .. n : /\ l.item[s[i]].next = IF i = n THEN NoItem ELSE s[i + 1]
                        /\ l.item[s[i]].prev = IF i = 1 THEN NoItem ELSE s[i - 1]
  BY DEF IsList
<1>6. \A x \in DOMAIN l.item : \E i \in 1 .. n : s[i] = x
  BY DEF IsList
<1> HIDE DEF m, t, n
<1>7. \A x \in DOMAIN m.item : \E i \in 1 .. Len(t) : t[i] = x
  <2> TAKE x \in DOMAIN m.item
  <2>1. CASE x = a
    BY <2>1, <1>1
  <2>2. CASE x \in DOMAIN l.item
    <3>1. PICK i \in 1 .. n : s[i] = x
      BY <2>2, <1>6
    <3>2. i \in 1 .. Len(t) /\ t[i] = x
      BY <3>1, <1>1
    <3> QED BY <3>2
  <2> QED BY <2>1, <2>2, <1>2
<1>8. \A i \in 1 .. Len(t) : i \in 1 .. n \/ i = n + 1
  BY <1>1
<1>9. \A i \in 1 .. Len(t) : t[i] \in DOMAIN m.item /\ t[i] # NoItem
  BY <1>1, <1>2, <1>3, <1>8
<1>10. \A i, j \in 1 .. Len(t) : t[i] = t[j] => i = j
  BY <1>1, <1>3, <1>4, <1>8
<1>11. l.tail = NoItem <=> n = 0
  BY <1>1, <1>3, <1>4
<1>12. /\ m.count = Len(t)
       /\ m.head = IF Len(t) = 0 THEN NoItem ELSE t[1]
       /\ m.tail = IF Len(t) = 0 THEN NoItem ELSE t[Len(t)]
  BY <1>1, <1>2, <1>4, <1>11
<1>13. ASSUME NEW i \in 1 .. Len(t)
       PROVE  /\ m.item[t[i]].next = IF i = Len(t) THEN NoItem ELSE t[i + 1]
              /\ m.item[t[i]].prev = IF i = 1 THEN NoItem ELSE t[i - 1]
  <2>1. CASE i = n + 1
    <3>1. t[i] = a /\ i = Len(t)
      BY <2>1, <1>1
    <3>2. l.tail = IF i = 1 THEN NoItem ELSE t[i - 1]
      BY <2>1, <1>1, <1>4
    <3> QED BY <3>1, <3>2, <1>2
  <2>2. CASE i \in 1 .. n
    <3>1. t[i] = s[i] /\ s[i] \in DOMAIN l.item /\ i # Len(t)
      BY <2>2, <1>1, <1>3
    <3>2. s[i] = l.tail <=> i = n
      BY <2>2, <1>1, <1>4
    <3>3. m.item[t[i]].next = t[i + 1]
      <4>1. CASE i = n
        BY <4>1, <3>1, <3>2, <1>1, <1>2
      <4>2. CASE i # n
        <5>1. i + 1 \in 1 .. n
          BY <2>2, <4>2, <1>1
        <5>2. t[i + 1] = s[i + 1]
          BY <5>1, <1>1
        <5>3. m.item[s[i]].next = l.item[s[i]].next
          BY <4>2, <3>1, <3>2, <1>2
        <5>4. l.item[s[i]].next = s[i + 1]
          BY <4>2, <2>2, <1>5
        <5> QED BY <5>2, <5>3, <5>4, <3>1
      <4> QED BY <4>1, <4>2
    <3>4. m.item[t[i]].prev = IF i = 1 THEN NoItem ELSE t[i - 1]
      <4>1. i # 1 => i - 1 \in 1 .. n
        BY <2>2, <1>1
      <4>2. i # 1 => t[i - 1] = s[i - 1]
        BY <4>1, <1>1
      <4>3. m.item[s[i]].prev = l.item[s[i]].prev
        BY <3>1, <1>2
      <4>4. l.item[s[i]].prev = IF i = 1 THEN NoItem ELSE s[i - 1]
        BY <2>2, <1>5
      <4> QED BY <4>2, <4>3, <4>4, <3>1
    <3> QED BY <3>1, <3>3, <3>4
  <2> QED BY <2>1, <2>2, <1>8
<1>14. IsList(m, t)
  BY <1>7, <1>9, <1>10, <1>12, <1>13 DEF IsList
<1> QED BY <1>14 DEF m, t

\* AP_list_delete_item takes out one item, wherever it stands: the others keep
\* their order and are linked to each other in both directions.
THEOREM DeleteIsRemove ==
  ASSUME NEW l, NEW s \in Seq(Nat), IsList(l, s), NEW k \in 1 .. Len(s)
  PROVE  IsList(AP_list_delete_item(l, s[k]), Dropped(s, k))
<1> DEFINE m == AP_list_delete_item(l, s[k])
           t == Dropped(s, k)
           n == Len(s)
<1>1. n \in Nat /\ k \in 1 .. n
  OBVIOUS
<1>2. /\ Len(t) = n - 1
      /\ \A i \in 1 .. n - 1 : t[i] = IF i < k THEN s[i] ELSE s[i + 1]
  BY <1>1 DEF Dropped
<1>3. /\ l.head = IF n = 0 THEN NoItem ELSE s[1]
      /\ l.tail = IF n = 0 THEN NoItem ELSE s[n]
      /\ l.count = n
      /\ \A i, j \in 1 .. n : s[i] = s[j] => i = j
  BY DEF IsList
<1>4. \A i \in 1 .. n : /\ l.item[s[i]].next = IF i = n THEN NoItem ELSE s[i + 1]
                        /\ l.item[s[i]].prev = IF i = 1 THEN NoItem ELSE s[i - 1]
  BY DEF IsList
<1>5. \A x \in DOMAIN l.item : \E i \in 1 .. n : s[i] = x
  BY DEF IsList
<1>6. \A i \in 1 .. n : s[i] \in DOMAIN l.item /\ s[i] # NoItem
  BY DEF IsList
<1>7. /\ DOMAIN m.item = DOMAIN l.item \ {s[k]}
      /\ m.count = l.count - 1
      /\ m.head = IF s[k] = l.head THEN l.item[s[k]].next ELSE l.head
      /\ m.tail = IF s[k] = l.tail THEN l.item[s[k]].prev ELSE l.tail
      /\ \A x \in DOMAIN l.item \ {s[k]} :
           /\ m.item[x].next = IF s[k] # l.head /\ x = l.item[s[k]].prev
                               THEN l.item[s[k]].next ELSE l.item[x].next
           /\ m.item[x].prev = IF s[k] # l.tail /\ x = l.item[s[k]].next
                               THEN l.item[s[k]].prev ELSE l.item[x].prev
  BY DEF AP_list_delete_item
<1> HIDE DEF m, t, n
<1>8. (s[k] = l.head <=> k = 1) /\ (s[k] = l.tail <=> k = n)
  BY <1>1, <1>3
\* Position i of the new sequence is position j of the old one.
<1>9. ASSUME NEW i \in 1 .. Len(t)
      PROVE  \E j \in 1 .. n : /\ j # k /\ t[i] = s[j]
                               /\ j = IF i < k THEN i ELSE i + 1
                               /\ s[j] \in DOMAIN l.item \ {s[k]}
  <2> DEFINE j == IF i < k THEN i ELSE i + 1
  <2>1. j \in 1 .. n /\ j # k /\ t[i] = s[j]
    BY <1>1, <1>2, SMTT(30)
  <2>2. s[j] \in DOMAIN l.item \ {s[k]}
    BY <2>1, <1>1, <1>3, <1>6
  <2> QED BY <2>1, <2>2
<1>10. \A x \in DOMAIN m.item : \E i \in 1 .. Len(t) : t[i] = x
  <2> TAKE x \in DOMAIN m.item
  <2>1. PICK j \in 1 .. n : x = s[j] /\ j # k
    BY <1>5, <1>7
  <2>2. CASE j < k
    <3>1. j \in 1 .. n - 1 /\ t[j] = x
      BY <2>1, <2>2, <1>1, <1>2
    <3> QED BY <3>1, <1>2
  <2>3. CASE j > k
    <3>1. j - 1 \in 1 .. n - 1 /\ ~(j - 1 < k) /\ (j - 1) + 1 = j
      BY <2>3, <1>1
    <3>2. t[j - 1] = x
      BY <3>1, <2>1, <1>2
    <3> QED BY <3>1, <3>2, <1>2
  <2> QED BY <2>1, <2>2, <2>3, <1>1
<1>11. \A i \in 1 .. Len(t) : t[i] \in DOMAIN m.item /\ t[i] # NoItem
  BY <1>6, <1>7, <1>9, SMTT(30)
<1>12. ASSUME NEW i \in 1 .. Len(t), NEW j \in 1 .. Len(t), t[i] = t[j]
       PROVE  i = j
  <2> DEFINE From(x) == IF x < k THEN x ELSE x + 1
  <2>1. /\ From(i) \in 1 .. n /\ From(j) \in 1 .. n
        /\ t[i] = s[From(i)] /\ t[j] = s[From(j)]
    BY <1>1, <1>2
  <2>2. From(i) = From(j)
    <3> HIDE DEF From
    <3> QED BY <2>1, <1>3, <1>12
  <2> QED BY <2>2, <1>1, <1>2
<1>13. m.count = Len(t)
  BY <1>1, <1>2, <1>3, <1>7
<1>14. m.head = IF Len(t) = 0 THEN NoItem ELSE t[1]
  <2>1. CASE k = 1
    <3>1. m.head = IF n = 1 THEN NoItem ELSE s[2]
      BY <2>1, <1>1, <1>4, <1>7, <1>8
    <3>2. n # 1 => t[1] = s[2]
      BY <2>1, <1>1, <1>2
    <3> QED BY <3>1, <3>2, <1>1, <1>2
  <2>2. CASE k # 1
    BY <2>2, <1>1, <1>2, <1>3, <1>7, <1>8
  <2> QED BY <2>1, <2>2
<1>15. m.tail = IF Len(t) = 0 THEN NoItem ELSE t[Len(t)]
  <2>1. CASE k = n
    <3>1. m.tail = IF n = 1 THEN NoItem ELSE s[n - 1]
      BY <2>1, <1>1, <1>4, <1>7, <1>8
    <3>2. n # 1 => t[n - 1] = s[n - 1]
      BY <2>1, <1>1, <1>2
    <3> QED BY <3>1, <3>2, <1>1, <1>2
  <2>2. CASE k # n
    <3>1. n - 1 \in 1 .. n - 1 /\ ~(n - 1 < k) /\ (n - 1) + 1 = n
      BY <2>2, <1>1
    <3>2. t[n - 1] = s[n]
      BY <3>1, <1>2
    <3> QED BY <2>2, <3>1, <3>2, <1>1, <1>2, <1>3, <1>7, <1>8
  <2> QED BY <2>1, <2>2
<1>16. ASSUME NEW i \in 1 .. Len(t)
       PROVE  m.item[t[i]].next = IF i = Len(t) THEN NoItem ELSE t[i + 1]
  <2>1. PICK j \in 1 .. n : /\ j # k /\ t[i] = s[j]
                            /\ j = IF i < k THEN i ELSE i + 1
                            /\ s[j] \in DOMAIN l.item \ {s[k]}
    BY <1>9
  <2>2. CASE j = k - 1
    <3>1. m.item[t[i]].next = l.item[s[k]].next
      BY <2>1, <2>2, <1>1, <1>4, <1>7, <1>8, SMTT(30)
    <3>2. i = k - 1 /\ (k = n <=> i = Len(t))
      BY <2>1, <2>2, <1>1, <1>2
    <3>3. i # Len(t) => t[i + 1] = s[k + 1]
      BY <3>2, <1>1, <1>2
    <3> QED BY <3>1, <3>2, <3>3, <1>1, <1>4
  <2>3. CASE j # k - 1
    <3>1. k # 1 => s[j] # s[k - 1]
      BY <2>1, <2>3, <1>1, <1>3
    <3>2. m.item[t[i]].next = l.item[s[j]].next
      <4>1. s[k] # l.head => s[j] # l.item[s[k]].prev
        BY <3>1, <1>1, <1>4, <1>8
      <4>2. t[i] = s[j] /\ s[j] \in DOMAIN l.item \ {s[k]}
        BY <2>1
      <4> QED BY <4>1, <4>2, <1>7
    <3>3. j = n <=> i = Len(t)
      BY <2>1, <2>3, <1>1, <1>2
    <3>4. i # Len(t) => t[i + 1] = s[j + 1]
      BY <2>1, <2>3, <1>1, <1>2
    <3>5. l.item[s[j]].next = IF j = n THEN NoItem ELSE s[j + 1]
      BY <1>4
    <3> QED BY <3>2, <3>3, <3>4, <3>5
  <2> QED BY <2>2, <2>3
<1>17. ASSUME NEW i \in 1 .. Len(t)
       PROVE  m.item[t[i]].prev = IF i = 1 THEN NoItem ELSE t[i - 1]
  <2>1. PICK j \in 1 .. n : /\ j # k /\ t[i] = s[j]
                            /\ j = IF i < k THEN i ELSE i + 1
                            /\ s[j] \in DOMAIN l.item \ {s[k]}
    BY <1>9
  <2>2. CASE j = k + 1
    <3>1. m.item[t[i]].prev = l.item[s[k]].prev
      BY <2>1, <2>2, <1>1, <1>4, <1>7, <1>8, SMTT(30)
    <3>2. i = k
      BY <2>1, <2>2, <1>1, <1>2
    <3>3. i # 1 => t[i - 1] = s[k - 1]
      BY <3>2, <1>1, <1>2
    <3> QED BY <3>1, <3>2, <3>3, <1>1, <1>4
  <2>3. CASE j # k + 1
    <3>1. k # n => s[j] # s[k + 1]
      BY <2>1, <2>3, <1>1, <1>3
    <3>2. m.item[t[i]].prev = l.item[s[j]].prev
      <4>1. s[k] # l.tail => s[j] # l.item[s[k]].next
        BY <3>1, <1>1, <1>4, <1>8
      <4>2. t[i] = s[j] /\ s[j] \in DOMAIN l.item \ {s[k]}
        BY <2>1
      <4> QED BY <4>1, <4>2, <1>7
    <3>3. j = 1 <=> i = 1
      BY <2>1, <2>3, <1>1, <1>2
    <3>4. i # 1 => t[i - 1] = s[j - 1]
      BY <2>1, <2>3, <1>1, <1>2
    <3> QED BY <3>2, <3>3, <3>4, <1>4
  <2> QED BY <2>2, <2>3
<1>18. IsList(m, t)
  BY <1>10, <1>11, <1>12, <1>13, <1>14, <1>15, <1>16, <1>17 DEF IsList
<1> QED BY <1>18 DEF m, t

-----------------------------------------------------------------------------
(* What the loops of list.c see of a list: its items and their data.       *)

\* Following next from first comes to the items of s, in order, and then to
\* NoItem.
Follows(first, next, s) ==
  /\ Cardinality(DOMAIN next) \in Nat /\ Len(s) <= Cardinality(DOMAIN next)
  /\ first = IF Len(s) = 0 THEN NoItem ELSE s[1]
  /\ \A i \in 1 .. Len(s) : s[i] # NoItem /\ s[i] \in DOMAIN next
  /\ \A i \in 1 .. Len(s) : next[s[i]] = IF i = Len(s) THEN NoItem ELSE s[i + 1]

LEMMA FollowsReached ==
  ASSUME NEW first, NEW next, NEW s \in Seq(Nat), Follows(first, next, s)
  PROVE  Reached(first, next) = s
<1> DEFINE n == Cardinality(DOMAIN next)
           Step(f, i) == IF i = 1 THEN first
                         ELSE IF f[i - 1] \in DOMAIN next \ {NoItem} THEN next[f[i - 1]]
                         ELSE NoItem
           Solves(f) == f = [i \in 1 .. n |-> Step(f, i)]
           k == Len(s)
           At(i) == IF i <= k THEN s[i] ELSE NoItem
           g == [i \in 1 .. n |-> At(i)]
<1>1. n \in Nat /\ k \in Nat /\ k <= n
  BY DEF Follows
<1>2. /\ first = IF k = 0 THEN NoItem ELSE s[1]
      /\ \A i \in 1 .. k : s[i] # NoItem /\ s[i] \in DOMAIN next
      /\ \A i \in 1 .. k : next[s[i]] = IF i = k THEN NoItem ELSE s[i + 1]
  BY DEF Follows
<1> HIDE DEF n, k
<1>3. ASSUME NEW f, NEW i \in 1 .. n, i # 1 => f[i - 1] = At(i - 1)
      PROVE  Step(f, i) = At(i)
  <2>1. CASE i = 1
    BY <2>1, <1>1, <1>2
  <2>2. CASE i # 1 /\ i - 1 <= k
    <3>1. i - 1 \in 1 .. k /\ (i - 1) + 1 = i
      BY <2>2, <1>1
    <3>2. f[i - 1] = s[i - 1] /\ s[i - 1] \in DOMAIN next \ {NoItem}
      BY <3>1, <2>2, <1>3, <1>2
    <3>3. next[s[i - 1]] = IF i - 1 = k THEN NoItem ELSE s[(i - 1) + 1]
      BY <3>1, <1>2
    <3>4. Step(f, i) = IF i - 1 = k THEN NoItem ELSE s[i]
      BY <3>1, <3>2, <3>3, <2>2
    <3> QED BY <3>4, <3>1, <2>2, <1>1
  <2>3. CASE i # 1 /\ ~(i - 1 <= k)
    <3>1. f[i - 1] = NoItem
      BY <2>3, <1>3
    <3>2. At(i) = NoItem
      BY <2>3, <1>1
    <3> QED BY <3>1, <3>2, <2>3, <1>2
  <2> QED BY <2>1, <2>2, <2>3
<1>4. Solves(g)
  <2>1. ASSUME NEW i \in 1 .. n PROVE At(i) = Step(g, i)
    <3>1. i # 1 => g[i - 1] = At(i - 1)
      BY <1>1
    <3> HIDE DEF g, At, Step
    <3> QED BY <3>1, <1>3
  <2> DEFINE h == g
  <2>2. g = [i \in 1 .. n |-> At(i)]
    OBVIOUS
  <2>3. \A i \in 1 .. n : At(i) = Step(h, i)
    BY <2>1
  <2> HIDE DEF At, Step, h
  <2>4. g = [i \in 1 .. n |-> Step(h, i)]
    BY <2>2, <2>3, Zenon
  <2> QED BY <2>4 DEF h
<1>5. ASSUME NEW f, Solves(f)
      PROVE  \A i \in 1 .. n : f[i] = At(i)
  <2> DEFINE T == {i \in 0 .. n : i # 0 => f[i] = At(i)}
  <2>1. 0 \in T
    BY <1>1
  <2>2. \A i \in 0 .. n - 1 : i \in T => i + 1 \in T
    <3> TAKE i \in 0 .. n - 1
    <3> HAVE i \in T
    <3>1. i + 1 \in 1 .. n /\ (i + 1) - 1 = i /\ (i + 1 # 1 => i # 0)
      BY <1>1
    <3>2. f[i + 1] = Step(f, i + 1)
      <4> HIDE DEF Step
      <4> QED BY <3>1, <1>5
    <3>3. i + 1 # 1 => f[(i + 1) - 1] = At((i + 1) - 1)
      BY <3>1
    <3> HIDE DEF Step, At
    <3>4. f[i + 1] = At(i + 1)
      BY <3>1, <3>2, <3>3, <1>3
    <3> QED BY <3>1, <3>4
  <2> HIDE DEF T
  <2>3. 0 .. n \subseteq T
    BY <2>1, <2>2, <1>1, BoundedInduction
  <2> QED BY <2>3, <1>1 DEF T
<1> DEFINE at == CHOOSE f : Solves(f)
<1>6. Solves(at)
  <2> HIDE DEF Solves, g
  <2> QED BY <1>4, Zenon
<1>7. \A i \in 1 .. n : at[i] = At(i)
  <2> HIDE DEF Solves, at, At
  <2> QED BY <1>5, <1>6
<1>8. Reached(first, next) = [i \in 1 .. Cardinality({i \in 1 .. n : at[i] # NoItem}) |-> at[i]]
  BY DEF Reached, n
<1> HIDE DEF at
<1>9. {i \in 1 .. n : at[i] # NoItem} = 1 .. k
  BY <1>1, <1>2, <1>7
<1>10. Cardinality(1 .. k) = k
  BY <1>1, FS_Interval
<1>11. Reached(first, next) = [i \in 1 .. k |-> at[i]]
  BY <1>8, <1>9, <1>10
<1>12. \A i \in 1 .. k : at[i] = s[i]
  BY <1>1, <1>7
<1>13. s = [i \in 1 .. k |-> s[i]]
  BY <1>1 DEF k
<1> QED BY <1>11, <1>12, <1>13, Zenon

\* The heap of a list holds as many items as the list.
LEMMA ListHeap ==
  ASSUME NEW l, NEW s \in Seq(Nat), IsList(l, s)
  PROVE  IsFiniteSet(DOMAIN l.item) /\ Cardinality(DOMAIN l.item) = Len(s)
<1> DEFINE k == Len(s)
           D == DOMAIN l.item
           f == [i \in 1 .. k |-> s[i]]
<1>1. k \in Nat
  OBVIOUS
<1>2. /\ \A x \in D : \E i \in 1 .. k : s[i] = x
      /\ \A i \in 1 .. k : s[i] \in D
      /\ \A i, j \in 1 .. k : s[i] = s[j] => i = j
  BY DEF IsList
<1> HIDE DEF k, D
<1>3. f \in [1 .. k -> D]
  BY <1>2
<1>4. \A i \in 1 .. k : f[i] = s[i]
  OBVIOUS
<1>5. DOMAIN f = 1 .. k
  OBVIOUS
<1> HIDE DEF f
<1>6. f \in Injection(1 .. k, D)
  BY <1>2, <1>3, <1>4, <1>5 DEF Injection, IsInjective
<1>7. f \in Surjection(1 .. k, D)
  BY <1>2, <1>3, <1>4 DEF Surjection
<1>8. ExistsBijection(1 .. k, D)
  BY <1>6, <1>7 DEF ExistsBijection, Bijection
<1>9. IsFiniteSet(1 .. k) /\ Cardinality(1 .. k) = k
  BY <1>1, FS_Interval
<1> QED BY <1>8, <1>9, FS_Bijection DEF k, D

\* The loops visit exactly the items of the list, in order.
LEMMA VisitedIsList ==
  ASSUME NEW l, NEW s \in Seq(Nat), IsList(l, s)
  PROVE  Visited(l) = s
<1> DEFINE next == [a \in DOMAIN l.item |-> l.item[a].next]
<1>1. Cardinality(DOMAIN next) = Len(s)
  BY ListHeap
<1>2. Len(s) \in Nat
  OBVIOUS
<1>3. /\ l.head = IF Len(s) = 0 THEN NoItem ELSE s[1]
      /\ \A i \in 1 .. Len(s) : s[i] # NoItem /\ s[i] \in DOMAIN next
      /\ \A i \in 1 .. Len(s) : next[s[i]] = IF i = Len(s) THEN NoItem ELSE s[i + 1]
  BY DEF IsList
<1> HIDE DEF next
<1>4. Follows(l.head, next, s)
  BY <1>1, <1>2, <1>3 DEF Follows
<1> QED BY <1>4, FollowsReached DEF Visited, next

\* What every list of a communicator is at all times.
ListOK(l) == Visited(l) \in Seq(Nat) /\ IsList(l, Visited(l))

LEMMA OnlyList ==
  ASSUME NEW l, NEW s \in Seq(Nat), IsList(l, s)
  PROVE  ListOK(l) /\ Visited(l) = s
BY VisitedIsList DEF ListOK

LEMMA DataOfList ==
  ASSUME NEW l, ListOK(l)
  PROVE  /\ Len(Visited(l)) \in Nat /\ Len(Data(l)) = Len(Visited(l))
         /\ DOMAIN Data(l) = 1 .. Len(Data(l))
         /\ Data(l) = [i \in 1 .. Len(Data(l)) |-> l.item[Visited(l)[i]].data]
         /\ \A i \in 1 .. Len(Data(l)) : Data(l)[i] = l.item[Visited(l)[i]].data
<1> DEFINE s == Visited(l)
<1>1. s \in Seq(Nat)
  BY DEF ListOK
<1> HIDE DEF s
<1>2. Len(s) \in Nat /\ DOMAIN s = 1 .. Len(s)
  BY <1>1
<1>3. Data(l) = [i \in 1 .. Len(s) |-> l.item[s[i]].data]
  BY <1>2 DEF Data, s
<1>4. Len(Data(l)) = Len(s)
  BY <1>2, <1>3
<1>5. \A i \in 1 .. Len(s) : Data(l)[i] = l.item[s[i]].data
  BY <1>3
<1> QED BY <1>2, <1>3, <1>4, <1>5 DEF s

LEMMA NewListOK == ListOK(AP_list_new) /\ Len(Data(AP_list_new)) = 0
<1>1. <<>> \in Seq(Nat) /\ Len(<<>>) = 0
  OBVIOUS
<1>2. ListOK(AP_list_new) /\ Visited(AP_list_new) = <<>>
  BY <1>1, NewIsEmpty, OnlyList
<1> QED BY <1>1, <1>2, DataOfList

\* malloc finds an address.
LEMMA MallocFresh ==
  ASSUME NEW l, ListOK(l)
  PROVE  Malloc(l) \in Nat /\ Malloc(l) # NoItem /\ Malloc(l) \notin DOMAIN l.item
<1> DEFINE D == DOMAIN l.item
           n == Cardinality(D)
<1>1. IsFiniteSet(D) /\ n \in Nat
  BY ListHeap, FS_CardinalityType DEF ListOK
<1>2. \E a \in 1 .. n + 1 : a \notin D
  <2> SUFFICES ASSUME 1 .. n + 1 \subseteq D PROVE FALSE
    OBVIOUS
  <2>1. Cardinality(1 .. n + 1) = n + 1
    BY <1>1, FS_Interval
  <2>2. Cardinality(1 .. n + 1) <= n
    BY <1>1, FS_Subset
  <2> QED BY <1>1, <2>1, <2>2
<1>3. Malloc(l) \in 1 .. n + 1 /\ Malloc(l) \notin D
  <2> HIDE DEF n
  <2>1. Malloc(l) = CHOOSE a \in 1 .. n + 1 : a \notin D
    BY DEF Malloc, n
  <2> QED BY <1>2, <2>1, Zenon
<1> QED BY <1>1, <1>3 DEF NoItem

\* AP_list_append puts the datum behind the others.
LEMMA AppendData ==
  ASSUME NEW l, ListOK(l), NEW d
  PROVE  LET m == AP_list_append(l, Malloc(l), d)
         IN  /\ ListOK(m)
             /\ Len(Data(m)) = Len(Data(l)) + 1
             /\ \A i \in 1 .. Len(Data(l)) : Data(m)[i] = Data(l)[i]
             /\ Data(m)[Len(Data(l)) + 1] = d
<1> DEFINE a == Malloc(l)
           m == AP_list_append(l, a, d)
           s == Visited(l)
           n == Len(Data(l))
<1>1. a \in Nat /\ a # NoItem /\ a \notin DOMAIN l.item
  BY MallocFresh
<1>2. s \in Seq(Nat) /\ IsList(l, s)
  BY DEF ListOK
<1>3. n \in Nat /\ n = Len(s) /\ \A i \in 1 .. n : Data(l)[i] = l.item[s[i]].data
  BY DataOfList
<1> HIDE DEF a, s, n
<1>4. Append(s, a) \in Seq(Nat)
  BY <1>1, <1>2
<1>5. ListOK(m) /\ Visited(m) = Append(s, a)
  <2> HIDE DEF m
  <2>1. IsList(m, Append(s, a))
    BY <1>1, <1>2, AppendIsAppend DEF m
  <2> QED BY <1>4, <2>1, OnlyList
<1>6. /\ Len(Append(s, a)) = n + 1 /\ Append(s, a)[n + 1] = a
      /\ \A i \in 1 .. n : Append(s, a)[i] = s[i] /\ i \in 1 .. n + 1
  BY <1>2, <1>3
<1>7. Len(Data(m)) = n + 1 /\ \A i \in 1 .. n + 1 : Data(m)[i] = m.item[Append(s, a)[i]].data
  <2> HIDE DEF m
  <2>1. /\ Len(Data(m)) = Len(Visited(m))
        /\ \A i \in 1 .. Len(Data(m)) : Data(m)[i] = m.item[Visited(m)[i]].data
    BY <1>5, DataOfList
  <2> QED BY <2>1, <1>5, <1>6
<1>8. m.item[a].data = d /\ \A x \in DOMAIN l.item : x # a => m.item[x].data = l.item[x].data
  BY DEF AP_list_append
<1>9. \A i \in 1 .. n : s[i] \in DOMAIN l.item /\ s[i] # a
  BY <1>1, <1>2, <1>3 DEF IsList
<1> HIDE DEF m
<1>10. \A i \in 1 .. n : Data(m)[i] = Data(l)[i]
  BY <1>3, <1>6, <1>7, <1>8, <1>9
<1>11. Data(m)[n + 1] = d
  BY <1>3, <1>6, <1>7, <1>8
<1> QED BY <1>5, <1>7, <1>10, <1>11 DEF m, a, n

\* AP_list_delete_item takes the datum of the item out.
LEMMA DeletedData ==
  ASSUME NEW l, ListOK(l), NEW k \in 1 .. Len(Data(l))
  PROVE  LET m == AP_list_delete_item(l, Visited(l)[k])
         IN  /\ ListOK(m)
             /\ Len(Data(m)) = Len(Data(l)) - 1
             /\ \A i \in 1 .. Len(Data(m)) :
                  Data(m)[i] = IF i < k THEN Data(l)[i] ELSE Data(l)[i + 1]
<1> DEFINE s == Visited(l)
           n == Len(Data(l))
           m == AP_list_delete_item(l, s[k])
           t == Dropped(s, k)
<1>1. s \in Seq(Nat) /\ IsList(l, s)
  BY DEF ListOK
<1>2. n \in Nat /\ n = Len(s) /\ \A i \in 1 .. n : Data(l)[i] = l.item[s[i]].data
  BY DataOfList
<1> HIDE DEF s, n
<1>3. k \in 1 .. n
  BY DEF n
<1>4. /\ t \in Seq(Nat) /\ Len(t) = n - 1
      /\ \A i \in 1 .. n - 1 : t[i] = IF i < k THEN s[i] ELSE s[i + 1]
  <2>1. t = [i \in 1 .. n - 1 |-> IF i < k THEN s[i] ELSE s[i + 1]]
    BY <1>2 DEF Dropped
  <2>2. \A i \in 1 .. n : s[i] \in Nat
    BY <1>1, <1>2
  <2>3. \A i \in 1 .. n - 1 : i \in 1 .. n /\ i + 1 \in 1 .. n
    BY <1>2
  <2>4. t \in [1 .. n - 1 -> Nat] /\ n - 1 \in Nat
    BY <2>1, <2>2, <2>3, <1>2, <1>3
  <2> HIDE DEF t
  <2>5. t \in Seq(Nat)
    BY <2>4, SeqDef
  <2>6. DOMAIN t = 1 .. n - 1 /\ DOMAIN t = 1 .. Len(t) /\ Len(t) \in Nat
    BY <2>4, <2>5
  <2>7. Len(t) = n - 1
    BY <2>4, <2>6, Len(t) \in Nat
  <2> QED BY <2>1, <2>5, <2>7
<1>5. ListOK(m) /\ Visited(m) = t
  <2>1. IsList(m, t)
    BY <1>1, <1>2, <1>3, DeleteIsRemove
  <2> HIDE DEF m, t
  <2> QED BY <1>4, <2>1, OnlyList
<1>6. \A x \in DOMAIN l.item \ {s[k]} : m.item[x].data = l.item[x].data
  BY DEF AP_list_delete_item
<1> HIDE DEF m, t
<1>7. Len(Data(m)) = n - 1 /\ \A i \in 1 .. n - 1 : Data(m)[i] = m.item[t[i]].data
  BY <1>4, <1>5, DataOfList
<1>8. ASSUME NEW i \in 1 .. n - 1
      PROVE  Data(m)[i] = IF i < k THEN Data(l)[i] ELSE Data(l)[i + 1]
  <2> DEFINE j == IF i < k THEN i ELSE i + 1
  <2>1. j \in 1 .. n /\ j # k
    BY <1>2, <1>3
  <2>2. t[i] = s[j]
    BY <1>4
  <2> HIDE DEF j
  <2>3. s[j] \in DOMAIN l.item /\ s[j] # s[k]
    BY <1>1, <1>2, <1>3, <2>1 DEF IsList
  <2>4. Data(m)[i] = l.item[s[j]].data
    BY <1>6, <1>7, <2>2, <2>3
  <2>5. Data(m)[i] = Data(l)[j]
    BY <2>1, <2>4, <1>2
  <2> QED BY <2>5 DEF j
<1> QED BY <1>5, <1>7, <1>8 DEF m, n, s

\* AP_list_search_func finds the first datum of a set.
LEMMA SearchData ==
  ASSUME NEW l, ListOK(l), NEW M
  PROVE  LET a == AP_list_search_func(l, M)
         IN  \/ a = NoItem /\ \A i \in 1 .. Len(Data(l)) : Data(l)[i] \notin M
             \/ /\ a # NoItem
                /\ \E k \in 1 .. Len(Data(l)) :
                     /\ a = Visited(l)[k] /\ l.item[a].data = Data(l)[k]
                     /\ Data(l)[k] \in M
                     /\ \A i \in 1 .. k - 1 : Data(l)[i] \notin M
<1> DEFINE s == Visited(l)
           n == Len(Data(l))
           a == AP_list_search_func(l, M)
           I == {i \in 1 .. Len(s) : l.item[s[i]].data \in M}
<1>1. s \in Seq(Nat) /\ IsList(l, s)
  BY DEF ListOK
<1>2. n \in Nat /\ n = Len(s) /\ \A i \in 1 .. n : Data(l)[i] = l.item[s[i]].data
  BY DataOfList
<1>3. \A i \in 1 .. n : s[i] # NoItem
  BY <1>1, <1>2 DEF IsList
<1>4. a = LET j == IF I # {} THEN Min(I) ELSE 0 IN IF j = 0 THEN NoItem ELSE s[j]
  BY DEF AP_list_search_func, SelectInSeq
<1> HIDE DEF s, n, a
<1>5. CASE I = {}
  <2>1. a = NoItem
    BY <1>4, <1>5
  <2>2. \A i \in 1 .. n : Data(l)[i] \notin M
    BY <1>2, <1>5
  <2> QED BY <2>1, <2>2 DEF a, n
<1>6. CASE I # {}
  <2> DEFINE k == Min(I)
  <2>1. \E x \in I : \A y \in I : x <= y
    <3>1. I \subseteq Nat
      OBVIOUS
    <3> HIDE DEF I
    <3> QED BY <3>1, <1>6, LeastNumber
  <2>2. k \in I /\ \A y \in I : k <= y
    <3> HIDE DEF I
    <3> QED BY <2>1, Zenon DEF Min
  <2> HIDE DEF k
  <2>3. k \in 1 .. n /\ l.item[s[k]].data \in M /\ k # 0
    BY <2>2, <1>2
  <2>4. a = s[k] /\ a # NoItem
    BY <1>4, <1>6, <2>3, <1>3 DEF k
  <2>5. \A i \in 1 .. k - 1 : Data(l)[i] \notin M
    <3> SUFFICES ASSUME NEW i \in 1 .. k - 1, Data(l)[i] \in M PROVE FALSE
      OBVIOUS
    <3>1. i \in 1 .. n /\ ~(k <= i)
      BY <2>3, <1>2
    <3>2. i \in I
      BY <3>1, <1>2
    <3> QED BY <3>1, <3>2, <2>2
  <2>6. Data(l)[k] \in M /\ l.item[a].data = Data(l)[k]
    BY <2>3, <2>4, <1>2
  <2> QED BY <2>3, <2>4, <2>5, <2>6 DEF a, n, s
<1> QED BY <1>5, <1>6

-----------------------------------------------------------------------------
(* The pool of handles *)

Sound(p, fr, hd) == /\ p \in Pools
                    /\ p.ready
                    /\ ShapeOK(p, fr, hd)
                    /\ Chained(p, fr)
                    /\ Partitioned(p, fr, hd)
                    /\ Unlinked(p, hd)

\* How handles are numbered: the block is the high part, the index the low
\* part, and the blocks follow each other without gaps.
LEMMA HandleFacts ==
  /\ Handle(0, 0) = 0
  /\ \A n \in Nat : Handle(n, 0) \in Nat
  /\ \A n \in Nat, i \in Nat : Handle(n, i) = Handle(n, 0) + i
  /\ \A n \in Nat : Handle(n + 1, 0) = Handle(n, 0) + BLOCK_ITEMS
  BY PoolAssumption DEF Handle

LEMMA HandleMonotonic ==
  ASSUME NEW m \in Nat, NEW n \in Nat, m <= n
  PROVE  /\ Handle(m, 0) \in Nat /\ Handle(n, 0) \in Nat
         /\ Handle(m, 0) <= Handle(n, 0)
         /\ Items(m) \subseteq Items(n)
<1>1. PICK k \in Nat : n = m + k
  BY n - m \in Nat, n = m + (n - m)
<1>2. n * BLOCK_ITEMS = m * BLOCK_ITEMS + k * BLOCK_ITEMS
  BY <1>1, PoolAssumption
<1>3. k * BLOCK_ITEMS \in Nat /\ m * BLOCK_ITEMS \in Nat
  BY PoolAssumption
<1> QED BY <1>2, <1>3 DEF Handle, Items

\* init_handles leaves a sound pool in which nothing is in use.
LEMMA InitSound == Sound(InitPool, RestOfBlock(0), {})
<1> DEFINE B == BLOCK_ITEMS
           fr == RestOfBlock(0)
<1>a. /\ B \in Nat /\ B >= 2 /\ MAX_BLOCKS \in Nat /\ MAX_BLOCKS >= 1
  BY PoolAssumption
<1>b. /\ Handle(0, 0) = 0 /\ Handle(0, 1) = 1
      /\ Handle(0 + 1, 0) = B /\ Handle(1, 0) = B
  BY <1>a DEF Handle
<1>c. Handle(1, 0) <= Handle(MAX_BLOCKS, 0) /\ Handle(MAX_BLOCKS, 0) \in Nat
  BY <1>a, HandleMonotonic
<1>1. /\ Items(1) = 0 .. B - 1 /\ BlockItems(0) = 0 .. B - 1
      /\ Items(1) \subseteq Items(MAX_BLOCKS)
  BY <1>a, <1>b, <1>c DEF Items, BlockItems
<1>2a. \A i \in 1 .. B - 1 : Handle(0, i) = i
  BY <1>a DEF Handle
<1>2b. fr = [i \in 1 .. B - 1 |-> i]
  BY <1>2a DEF RestOfBlock
<1>2. /\ fr = [i \in 1 .. B - 1 |-> i]
      /\ Len(fr) = B - 1 /\ fr \in Seq(1 .. B - 1) /\ fr # <<>>
  <2> HIDE DEF fr
  <2>1. fr \in [1 .. B - 1 -> 1 .. B - 1]
    BY <1>2b
  <2>2. fr \in Seq(1 .. B - 1)
    BY <2>1, <1>a, SeqDef
  <2>3. Len(fr) = B - 1
    BY <1>a, <2>1, <2>2, LenProperties
  <2> QED BY <1>2b, <1>a, <2>2, <2>3
<1>3. BlockLinks(0) = [h \in 0 .. B - 1 |-> IF h = 0 \/ h = B - 1 THEN NULL ELSE h + 1]
  BY <1>1, <1>b DEF BlockLinks
<1>4. BlockLinks(0) \in [Items(1) -> Items(1)]
  BY <1>1, <1>a, <1>3 DEF NULL
<1>5. InitPool \in Pools /\ InitPool.ready
  BY <1>1, <1>a, <1>b, <1>4 DEF InitPool, Pools
<1>6. Usable(InitPool) = 1 .. B - 1
  BY <1>1, <1>a DEF Usable, InitPool, NULL
<1>7. ShapeOK(InitPool, fr, {})
  BY <1>1, <1>2, <1>4, <1>6 DEF ShapeOK, InitPool
<1>8. Chained(InitPool, fr)
  BY <1>a, <1>b, <1>1, <1>2, <1>3 DEF Chained, InitPool, NULL
<1>9. Partitioned(InitPool, fr, {})
  BY <1>1, <1>2, <1>6 DEF Partitioned
<1> QED BY <1>5, <1>7, <1>8, <1>9 DEF Sound, Unlinked

\* mpi_alloc_handle with a free list: the head of the list moves to the
\* handles in use.
LEMMA PopSound ==
  ASSUME NEW p, NEW fr, NEW hd, Sound(p, fr, hd), fr # <<>>
  PROVE  /\ AllocatedHandle(p) = fr[1]
         /\ fr[1] \in Usable(p) /\ fr[1] \notin hd
         /\ AllocHandle(p).nblocks = p.nblocks
         /\ Sound(AllocHandle(p), Tail(fr), hd \cup {fr[1]})
<1> DEFINE q == AllocHandle(p)
           U == Usable(p)
<1>1. fr \in Seq(U) /\ Len(fr) \in Nat /\ Len(fr) >= 1
  BY EmptySeq DEF Sound, ShapeOK
<1>2. /\ fr[1] \in U /\ fr[1] # NULL /\ p.nextfree = fr[1]
      /\ \A i \in 1 .. Len(fr) : fr[i] \in U
  BY <1>1 DEF Sound, Chained, Usable
<1>3. p.ready /\ Ready(p) = p
  BY DEF Sound, Ready
<1>4. q = [p EXCEPT !.nextfree = p.next[fr[1]], !.next = [@ EXCEPT ![fr[1]] = NULL]]
  BY <1>2, <1>3 DEF AllocHandle
<1>5. /\ p \in Pools /\ p.nblocks \in Nat /\ p.nblocks >= 1
      /\ p.next \in [Items(p.nblocks) -> Items(p.nblocks)]
      /\ U \subseteq Items(p.nblocks) /\ p.nblocks \in 0 .. MAX_BLOCKS
  BY PoolAssumption DEF Sound, ShapeOK, Usable, Pools
<1>6. NULL \in Items(p.nblocks) /\ Items(p.nblocks) \subseteq Items(MAX_BLOCKS)
  <2>1. Handle(1, 0) <= Handle(p.nblocks, 0) /\ Handle(p.nblocks, 0) \in Nat
    BY <1>5, HandleMonotonic
  <2>2. Items(p.nblocks) \subseteq Items(MAX_BLOCKS)
    BY <1>5, PoolAssumption, HandleMonotonic
  <2>3. Handle(1, 0) \in Nat /\ Handle(1, 0) >= 2
    BY PoolAssumption DEF Handle
  <2> QED BY <2>1, <2>2, <2>3 DEF Items, NULL
<1>7. /\ q.ready = p.ready /\ q.nblocks = p.nblocks
      /\ q.next = [p.next EXCEPT ![fr[1]] = NULL]
      /\ q.nextfree = p.next[fr[1]]
  BY <1>4, <1>5 DEF Pools
<1>8. /\ q.next \in [Items(q.nblocks) -> Items(q.nblocks)]
      /\ q.nextfree \in Items(q.nblocks)
  BY <1>2, <1>5, <1>6, <1>7
<1>9. q \in Pools
  <2>1. q.nblocks \in 0 .. MAX_BLOCKS
    BY <1>5, <1>7
  <2>2. q.next \in UNION {[Items(n) -> Items(n)] : n \in 0 .. MAX_BLOCKS}
    BY <1>8, <2>1
  <2>3. q.nextfree \in Items(MAX_BLOCKS)
    BY <1>6, <1>7, <1>8
  <2> QED BY <1>4, <1>5, <2>2, <2>3, <1>7 DEF Pools
<1>10. /\ Tail(fr) \in Seq(U) /\ Len(Tail(fr)) = Len(fr) - 1
       /\ \A i \in 1 .. Len(Tail(fr)) : Tail(fr)[i] = fr[i + 1]
       /\ Tail(fr) = <<>> <=> Len(fr) = 1
  <2> HIDE DEF U
  <2>1. Tail(fr) \in Seq(U) /\ Len(Tail(fr)) = Len(fr) - 1
    BY <1>1, HeadTailProperties
  <2>2. ASSUME NEW i \in 1 .. Len(Tail(fr))
        PROVE  Tail(fr)[i] = fr[i + 1]
    BY <1>1, <2>1
  <2>3. Tail(fr) = <<>> <=> Len(Tail(fr)) = 0
    BY <2>1, EmptySeq
  <2> QED BY <2>1, <2>2, <2>3, <1>1
<1>11. Usable(q) = U
  BY <1>7 DEF Usable
<1>12. ShapeOK(q, Tail(fr), hd \cup {fr[1]})
  <2>1. hd \cup {fr[1]} \subseteq U
    BY <1>2 DEF Sound, ShapeOK
  <2> QED BY <2>1, <1>5, <1>7, <1>8, <1>10, <1>11 DEF ShapeOK
<1>13. fr[1] \notin hd /\ \A i, j \in 1 .. Len(fr) : fr[i] = fr[j] => i = j
  BY <1>1 DEF Sound, Partitioned, Chained
<1>14. Chained(q, Tail(fr))
  <2>1. q.nextfree = IF Tail(fr) = <<>> THEN NULL ELSE Tail(fr)[1]
    <3>0. 1 \in 1 .. Len(fr)
      BY <1>1
    <3>1. p.next[fr[1]] = IF 1 = Len(fr) THEN NULL ELSE fr[1 + 1]
      BY <3>0 DEF Sound, Chained
    <3>2. CASE Len(fr) = 1
      BY <3>1, <3>2, <1>7, <1>10
    <3>3. CASE Len(fr) # 1
      <4>1. 1 \in 1 .. Len(Tail(fr))
        BY <3>3, <1>1, <1>10
      <4> QED BY <4>1, <3>1, <3>3, <1>7, <1>10
    <3> QED BY <3>2, <3>3
  <2>2. ASSUME NEW i \in 1 .. Len(Tail(fr))
        PROVE  q.next[Tail(fr)[i]] =
                 IF i = Len(Tail(fr)) THEN NULL ELSE Tail(fr)[i + 1]
    <3>1. /\ i + 1 \in 1 .. Len(fr) /\ Tail(fr)[i] = fr[i + 1]
          /\ fr[i + 1] # fr[1] /\ fr[i + 1] \in Items(p.nblocks)
      BY <1>1, <1>2, <1>5, <1>10, <1>13
    <3>2. q.next[fr[i + 1]] = p.next[fr[i + 1]]
      BY <3>1, <1>5, <1>7
    <3>3. p.next[fr[i + 1]] = IF i + 1 = Len(fr) THEN NULL ELSE fr[i + 2]
      BY <3>1 DEF Sound, Chained
    <3>4. ASSUME i # Len(Tail(fr)) PROVE Tail(fr)[i + 1] = fr[i + 2]
      <4>0. Len(Tail(fr)) \in Nat
        BY <1>1, <1>10
      <4>1. i + 1 \in 1 .. Len(Tail(fr)) /\ (i + 1) + 1 = i + 2
        BY <3>4, <4>0
      <4>2. Tail(fr)[i + 1] = fr[(i + 1) + 1]
        BY <4>1, <1>10
      <4> QED BY <4>1, <4>2
    <3> QED BY <3>1, <3>2, <3>3, <3>4, <1>1, <1>10
  <2>3. \A i, j \in 1 .. Len(Tail(fr)) : Tail(fr)[i] = Tail(fr)[j] => i = j
    BY <1>1, <1>10, <1>13
  <2> QED BY <2>1, <2>2, <2>3 DEF Chained
<1>15. Partitioned(q, Tail(fr), hd \cup {fr[1]})
  <2>1. \A i \in 1 .. Len(Tail(fr)) : Tail(fr)[i] \notin hd \cup {fr[1]}
    <3>1. \A i \in 1 .. Len(fr) : fr[i] \notin hd
      BY DEF Sound, Partitioned
    <3> QED BY <3>1, <1>1, <1>10, <1>13
  <2>2. ASSUME NEW h \in U, h \notin hd \cup {fr[1]}
        PROVE  \E i \in 1 .. Len(Tail(fr)) : Tail(fr)[i] = h
    <3>1. PICK i \in 1 .. Len(fr) : fr[i] = h
      BY <2>2 DEF Sound, Partitioned
    <3>2. i - 1 \in 1 .. Len(Tail(fr)) /\ Tail(fr)[i - 1] = h
      <4>1. i # 1
        BY <2>2, <3>1
      <4> QED BY <4>1, <3>1, <1>1, <1>10
    <3> QED BY <3>2
  <2> QED BY <2>1, <2>2, <1>11 DEF Partitioned
<1>16. Unlinked(q, hd \cup {fr[1]})
  BY <1>2, <1>5, <1>7 DEF Sound, ShapeOK, Unlinked
<1>17. AllocatedHandle(p) = fr[1]
  BY <1>2, <1>3 DEF AllocatedHandle
<1> QED
  BY <1>2, <1>3, <1>7, <1>9, <1>12, <1>13, <1>14, <1>15, <1>16, <1>17 DEF Sound


\* mpi_alloc_handle without a free list: the items of a new block are added,
\* its first one is in use.
LEMMA GrowSound ==
  ASSUME NEW p, NEW hd, Sound(p, <<>>, hd), ~Full(p)
  PROVE  /\ AllocatedHandle(p) = Handle(p.nblocks, 0)
         /\ AllocatedHandle(p) \in Items(MAX_BLOCKS) \ {NULL}
         /\ AllocatedHandle(p) \notin hd
         /\ AllocHandle(p).nblocks = p.nblocks + 1
         /\ hd = Usable(p)
         /\ Sound(AllocHandle(p), RestOfBlock(p.nblocks), hd \cup {AllocatedHandle(p)})
<1> DEFINE q == AllocHandle(p)
           n == p.nblocks
           B == BLOCK_ITEMS
           base == Handle(n, 0)
           fr == RestOfBlock(n)
<1>1. /\ p.ready /\ p \in Pools /\ Ready(p) = p /\ p.nextfree = NULL
      /\ B \in Nat /\ B >= 2
      /\ n \in Nat /\ n >= 1 /\ n < MAX_BLOCKS /\ MAX_BLOCKS \in Nat
      /\ p.next \in [Items(n) -> Items(n)] /\ hd \subseteq Usable(p)
  <2>1. p.ready /\ p \in Pools /\ Ready(p) = p /\ p.nextfree = NULL
    BY DEF Sound, Chained, Ready
  <2> QED
    BY <2>1, PoolAssumption DEF Sound, ShapeOK, Full, Pools
<1>2. /\ base \in Nat /\ base >= 2 /\ Handle(n + 1, 0) = base + B
      /\ Handle(n, 1) = base + 1
      /\ base + B <= Handle(MAX_BLOCKS, 0) /\ Handle(MAX_BLOCKS, 0) \in Nat
  <2>1. Handle(n + 1, 0) = base + B /\ base \in Nat /\ Handle(n, 1) = base + 1
    BY <1>1, HandleFacts
  <2>2. Handle(1, 0) <= base /\ Handle(1, 0) >= 2 /\ Handle(1, 0) \in Nat
    BY <1>1, HandleMonotonic DEF Handle
  <2>3. n + 1 \in Nat /\ n + 1 <= MAX_BLOCKS
    BY <1>1
  <2>4. Handle(n + 1, 0) <= Handle(MAX_BLOCKS, 0) /\ Handle(MAX_BLOCKS, 0) \in Nat
    BY <1>1, <2>3, HandleMonotonic
  <2> QED BY <2>1, <2>2, <2>4
<1>i. \A i \in 1 .. B - 1 : Handle(n, i) = base + i
  <2>1. ASSUME NEW i \in Nat PROVE Handle(n, i) = base + i
    BY <1>1, HandleFacts
  <2> QED BY <2>1, <1>1
<1>3. /\ Items(n) = 0 .. base - 1 /\ BlockItems(n) = base .. (base + B) - 1
      /\ Items(n + 1) = 0 .. (base + B) - 1
      /\ Items(n + 1) \subseteq Items(MAX_BLOCKS)
  <2>1. Handle(n + 1, 0) = base + B /\ Items(n + 1) = 0 .. Handle(n + 1, 0) - 1
    BY <1>2 DEF Items
  <2>2. Items(n) = 0 .. base - 1 /\ BlockItems(n) = base .. (base + B) - 1
    BY <2>1, <1>1, <1>2 DEF Items, BlockItems
  <2>3. Items(n + 1) \subseteq Items(MAX_BLOCKS)
    <3>1. n + 1 \in Nat /\ n + 1 <= MAX_BLOCKS /\ MAX_BLOCKS \in Nat
      BY <1>1
    <3> QED BY <3>1, HandleMonotonic
  <2> QED BY <2>1, <2>2, <2>3
<1>4. q = [p EXCEPT !.nblocks = @ + 1,
                    !.next = [h \in Items(n + 1) |->
                                IF h \in BlockItems(n) THEN BlockLinks(n)[h] ELSE @[h]],
                    !.nextfree = base + 1]
  BY <1>1, <1>2 DEF AllocHandle, AddBlock
<1>5. /\ q.ready /\ q.nblocks = n + 1 /\ q.nextfree = base + 1
      /\ q.next = [h \in Items(n + 1) |->
                     IF h \in BlockItems(n) THEN BlockLinks(n)[h] ELSE p.next[h]]
      /\ q \in [ready : {TRUE}, nblocks : {n + 1}, next : {q.next}, nextfree : {base + 1}]
  BY <1>1, <1>4 DEF Pools
<1>6. /\ \A h \in base .. (base + B) - 1 :
           q.next[h] = IF h = base \/ h = (base + B) - 1 THEN NULL ELSE h + 1
      /\ \A h \in 0 .. base - 1 : q.next[h] = p.next[h] /\ p.next[h] \in 0 .. base - 1
  BY <1>1, <1>2, <1>3, <1>5 DEF BlockLinks
<1> HIDE DEF base, B
<1>7. q.next \in [Items(n + 1) -> Items(n + 1)]
  <2>1. ASSUME NEW h \in Items(n + 1) PROVE q.next[h] \in Items(n + 1)
    <3>1. h \in 0 .. base - 1 \/ h \in base .. (base + B) - 1
      BY <1>1, <1>2, <1>3
    <3>2. CASE h \in 0 .. base - 1
      <4>1. q.next[h] \in 0 .. base - 1
        BY <3>2, <1>6
      <4> QED BY <4>1, <1>1, <1>2, <1>3
    <3>3. CASE h \in base .. (base + B) - 1
      <4>1. q.next[h] = IF h = base \/ h = (base + B) - 1 THEN NULL ELSE h + 1
        BY <3>3, <1>6
      <4>2. NULL \in 0 .. (base + B) - 1
        BY <1>1, <1>2 DEF NULL
      <4>3. ASSUME h # base, h # (base + B) - 1
            PROVE  h + 1 \in 0 .. (base + B) - 1
        BY <4>3, <3>3, <1>1, <1>2
      <4> QED BY <4>1, <4>2, <4>3, <1>3
    <3> QED BY <3>1, <3>2, <3>3
  <2> QED BY <2>1, <1>5
<1>8. q \in Pools
  <2>0. base + 1 \in Items(n + 1) /\ n + 1 \in 0 .. MAX_BLOCKS
    <3>1. base + 1 \in 0 .. (base + B) - 1
      BY <1>1, <1>2
    <3>2. n + 1 \in 0 .. MAX_BLOCKS
      BY <1>1
    <3> QED BY <3>1, <3>2, <1>3
  <2>1. n + 1 \in 0 .. MAX_BLOCKS /\ base + 1 \in Items(MAX_BLOCKS)
    BY <2>0, <1>3
  <2>2. q.next \in UNION {[Items(m) -> Items(m)] : m \in 0 .. MAX_BLOCKS}
    BY <2>1, <1>7
  <2> QED BY <1>5, <2>1, <2>2 DEF Pools
<1>9. Usable(p) = 1 .. base - 1 /\ Usable(q) = 1 .. (base + B) - 1
  <2>1. Usable(p) = (0 .. base - 1) \ {0} /\ Usable(q) = (0 .. (base + B) - 1) \ {0}
    BY <1>3, <1>5 DEF Usable, NULL
  <2>2. base \in Nat /\ B \in Nat
    BY <1>1, <1>2
  <2> QED BY <2>1, <2>2
<1>10. /\ fr \in Seq(base + 1 .. (base + B) - 1) /\ Len(fr) = B - 1
       /\ \A i \in 1 .. B - 1 : fr[i] = base + i
  <2>2. fr = [i \in 1 .. B - 1 |-> base + i]
    BY <1>i DEF RestOfBlock, B
  <2> HIDE DEF fr
  <2>3. fr \in [1 .. B - 1 -> base + 1 .. (base + B) - 1]
    BY <2>2, <1>1, <1>2
  <2>a. B - 1 \in Nat
    BY <1>1
  <2>4. fr \in Seq(base + 1 .. (base + B) - 1)
    BY <2>3, <2>a, SeqDef
  <2>5. Len(fr) = B - 1
    BY <1>1, <2>3, <2>4, LenProperties
  <2> QED BY <2>2, <2>4, <2>5
<1>11. hd = Usable(p) /\ AllocatedHandle(p) = base
  <2>1. AllocatedHandle(p) = base
    BY <1>1 DEF AllocatedHandle, base
  <2>2. \A h \in Usable(p) : h \in hd
    BY EmptySeq DEF Sound, Partitioned
  <2> QED BY <1>1, <2>1, <2>2
<1>12. hd \cup {base} = 1 .. base
  BY <1>2, <1>9, <1>11
<1> HIDE DEF fr
<1>13. ShapeOK(q, fr, hd \cup {base})
  <2>1. fr \in Seq(Usable(q))
    <3>1. base + 1 .. (base + B) - 1 \subseteq Usable(q)
      BY <1>2, <1>9
    <3> QED BY <3>1, <1>10, SeqMonotonic
  <2>2. hd \cup {base} \subseteq Usable(q)
    BY <1>1, <1>2, <1>9, <1>12
  <2> QED BY <1>1, <1>5, <1>7, <2>1, <2>2 DEF ShapeOK
<1>14. Chained(q, fr)
  <2>1. q.nextfree = IF fr = <<>> THEN NULL ELSE fr[1]
    <3>1. fr # <<>> /\ fr[1] = base + 1
      BY <1>1, <1>10, EmptySeq
    <3> QED BY <3>1, <1>5
  <2>2. \A i \in 1 .. Len(fr) : q.next[fr[i]] = IF i = Len(fr) THEN NULL ELSE fr[i + 1]
    <3> SUFFICES ASSUME NEW i \in 1 .. B - 1
                 PROVE  q.next[fr[i]] = IF i = B - 1 THEN NULL ELSE fr[i + 1]
      BY <1>10
    <3>1. fr[i] = base + i /\ base + i \in base .. (base + B) - 1 /\ base + i # base
      BY <1>1, <1>2, <1>10, SMTT(30)
    <3>2. q.next[base + i] = IF base + i = (base + B) - 1 THEN NULL ELSE (base + i) + 1
      BY <3>1, <1>6
    <3>3. ASSUME i # B - 1 PROVE fr[i + 1] = (base + i) + 1
      <4>1. i + 1 \in 1 .. B - 1 /\ base + (i + 1) = (base + i) + 1
        BY <3>3, <1>1, <1>2
      <4> QED BY <4>1, <1>10
    <3> QED BY <3>1, <3>2, <3>3, <1>1, <1>2
  <2>3. \A i, j \in 1 .. Len(fr) : fr[i] = fr[j] => i = j
    BY <1>1, <1>2, <1>10
  <2> QED BY <2>1, <2>2, <2>3 DEF Chained
<1>15. Partitioned(q, fr, hd \cup {base})
  <2>1. \A i \in 1 .. Len(fr) : fr[i] \notin hd \cup {base}
    BY <1>1, <1>2, <1>10, <1>12, SMTT(30)
  <2>2. ASSUME NEW h \in Usable(q), h \notin hd \cup {base}
        PROVE  \E i \in 1 .. Len(fr) : fr[i] = h
    <3>1. h \in base + 1 .. (base + B) - 1
      BY <2>2, <1>1, <1>2, <1>9, <1>12
    <3>2. h - base \in 1 .. B - 1 /\ base + (h - base) = h
      BY <3>1, <1>1, <1>2
    <3>3. fr[h - base] = h
      BY <3>2, <1>10
    <3> QED BY <3>2, <3>3, <1>10
  <2> QED BY <2>1, <2>2 DEF Partitioned
<1>16. Unlinked(q, hd \cup {base})
  <2>1. \A h \in hd : q.next[h] = p.next[h]
    BY <1>1, <1>2, <1>6, <1>9, <1>11, SMTT(30)
  <2>2. q.next[base] = NULL
    BY <1>1, <1>2, <1>6
  <2> QED BY <2>1, <2>2 DEF Sound, Unlinked
<1>17. base \in Items(MAX_BLOCKS) \ {NULL} /\ base \notin hd
  BY <1>1, <1>2, <1>3, <1>9, <1>11 DEF NULL
<1> QED
  BY <1>5, <1>8, <1>11, <1>13, <1>14, <1>15, <1>16, <1>17 DEF Sound, base, fr


\* mpi_free_handle puts a handle that is in use at the head of the free list.
LEMMA FreeSound ==
  ASSUME NEW p, NEW fr, NEW hd, Sound(p, fr, hd), NEW h \in hd
  PROVE  /\ FreeHandle(p, h).nblocks = p.nblocks
         /\ Sound(FreeHandle(p, h), <<h>> \o fr, hd \ {h})
<1> DEFINE q == FreeHandle(p, h)
           U == Usable(p)
           gr == <<h>> \o fr
<1>1. /\ p.ready /\ p \in Pools /\ p.nblocks >= 1
      /\ p.next \in [Items(p.nblocks) -> Items(p.nblocks)]
      /\ fr \in Seq(U) /\ hd \subseteq U
  BY DEF Sound, ShapeOK
<1>2. h \in U /\ h # NULL /\ h \in Items(p.nblocks)
  BY <1>1 DEF Usable
<1>3. p.nextfree = IF fr = <<>> THEN NULL ELSE fr[1]
  BY DEF Sound, Chained
<1>4. /\ q.ready /\ q.nblocks = p.nblocks /\ q.nextfree = h
      /\ q.next = [p.next EXCEPT ![h] = p.nextfree]
      /\ q = [p EXCEPT !.next = q.next, !.nextfree = h]
  BY <1>1, <1>2 DEF FreeHandle, Pools
<1>5. Items(p.nblocks) \subseteq Items(MAX_BLOCKS) /\ NULL \in Items(p.nblocks)
  <2>1. p.nblocks \in Nat /\ p.nblocks <= MAX_BLOCKS /\ MAX_BLOCKS \in Nat
    BY <1>1, PoolAssumption DEF Pools
  <2>2. Items(p.nblocks) \subseteq Items(MAX_BLOCKS)
    BY <2>1, HandleMonotonic
  <2>3. Handle(1, 0) <= Handle(p.nblocks, 0) /\ Handle(p.nblocks, 0) \in Nat
    BY <1>1, <2>1, HandleMonotonic
  <2>4. Handle(1, 0) >= 2 /\ Handle(1, 0) \in Nat
    BY PoolAssumption DEF Handle
  <2> QED BY <2>2, <2>3, <2>4 DEF Items, NULL
<1>6. Len(fr) \in Nat /\ \A i \in 1 .. Len(fr) : fr[i] \in U
  BY <1>1
<1>7. p.nextfree \in Items(p.nblocks)
  <2>1. CASE fr = <<>>
    BY <2>1, <1>3, <1>5
  <2>2. CASE fr # <<>>
    <3>1. 1 \in 1 .. Len(fr)
      BY <2>2, <1>1, <1>6, EmptySeq
    <3>2. fr[1] \in U
      BY <3>1, <1>6
    <3> QED BY <2>2, <3>2, <1>3 DEF Usable
  <2> QED BY <2>1, <2>2
<1>8. q.next \in [Items(q.nblocks) -> Items(q.nblocks)]
  BY <1>1, <1>4, <1>7
<1>9. q \in Pools
  <2>1. q.next \in UNION {[Items(m) -> Items(m)] : m \in 0 .. MAX_BLOCKS}
    BY <1>1, <1>4, <1>8 DEF Pools
  <2>2. h \in Items(MAX_BLOCKS)
    BY <1>2, <1>5
  <2> QED BY <1>1, <1>4, <2>1, <2>2 DEF Pools
<1>10. Usable(q) = U
  BY <1>4 DEF Usable
<1>11. /\ gr \in Seq(U) /\ Len(gr) = Len(fr) + 1 /\ gr[1] = h
       /\ \A i \in 1 .. Len(fr) : gr[i + 1] = fr[i]
  <2> HIDE DEF U
  <2>1. <<h>> \in Seq(U) /\ Len(<<h>>) = 1 /\ <<h>>[1] = h
    BY <1>2
  <2>2. gr \in Seq(U) /\ Len(gr) = Len(fr) + 1
    BY <1>1, <2>1, ConcatProperties
  <2>3. gr[1] = h
    BY <1>1, <1>6, <2>1
  <2>4. ASSUME NEW i \in 1 .. Len(fr) PROVE gr[i + 1] = fr[i]
    BY <1>1, <1>6, <2>1
  <2> QED BY <2>2, <2>3, <2>4
<1> HIDE DEF gr
<1>12. \A i \in 1 .. Len(gr) : i # 1 => /\ i - 1 \in 1 .. Len(fr)
                                        /\ gr[i] = fr[i - 1]
  <2> SUFFICES ASSUME NEW i \in 1 .. Len(gr), i # 1
               PROVE  i - 1 \in 1 .. Len(fr) /\ gr[i] = fr[i - 1]
    OBVIOUS
  <2>1. i - 1 \in 1 .. Len(fr) /\ (i - 1) + 1 = i
    BY <1>6, <1>11
  <2> QED BY <2>1, <1>11
<1>13. \A i \in 1 .. Len(fr) : fr[i] \notin hd /\ fr[i] # h
  BY DEF Sound, Partitioned
<1>14. ShapeOK(q, gr, hd \ {h})
  BY <1>1, <1>4, <1>8, <1>10, <1>11 DEF ShapeOK
<1>15. Chained(q, gr)
  <2>1. q.nextfree = IF gr = <<>> THEN NULL ELSE gr[1]
    BY <1>4, <1>6, <1>11, EmptySeq
  <2>2. ASSUME NEW i \in 1 .. Len(gr)
        PROVE  q.next[gr[i]] = IF i = Len(gr) THEN NULL ELSE gr[i + 1]
    <3>1. CASE i = 1
      <4>1. q.next[gr[i]] = p.nextfree
        BY <3>1, <1>1, <1>2, <1>4, <1>11
      <4>2. CASE fr = <<>>
        BY <3>1, <4>1, <4>2, <1>3, <1>11
      <4>3. CASE fr # <<>>
        <5>1. Len(fr) # 0 /\ 1 \in 1 .. Len(fr)
          BY <4>3, <1>1, <1>6, EmptySeq
        <5>2. gr[1 + 1] = fr[1] /\ 1 # Len(gr)
          BY <5>1, <1>6, <1>11
        <5> QED BY <3>1, <4>1, <4>3, <5>2, <1>3
      <4> QED BY <4>2, <4>3
    <3>2. CASE i # 1
      <4>1. i - 1 \in 1 .. Len(fr) /\ gr[i] = fr[i - 1] /\ fr[i - 1] # h
        BY <3>2, <1>12, <1>13
      <4>2. q.next[gr[i]] = p.next[fr[i - 1]]
        BY <4>1, <1>1, <1>4, <1>6 DEF Usable
      <4>3. p.next[fr[i - 1]] = IF i - 1 = Len(fr) THEN NULL ELSE fr[(i - 1) + 1]
        BY <4>1 DEF Sound, Chained
      <4>4. (i - 1 = Len(fr) <=> i = Len(gr)) /\ (i - 1) + 1 = i
        BY <1>6, <1>11
      <4>5. ASSUME i # Len(gr) PROVE gr[i + 1] = fr[i]
        BY <4>5, <3>2, <1>6, <1>11
      <4> QED BY <4>2, <4>3, <4>4, <4>5
    <3> QED BY <3>1, <3>2
  <2>3. ASSUME NEW i \in 1 .. Len(gr), NEW j \in 1 .. Len(gr), gr[i] = gr[j]
        PROVE  i = j
    <3>1. CASE i = 1 \/ j = 1
      BY <3>1, <2>3, <1>11, <1>12, <1>13
    <3>2. CASE i # 1 /\ j # 1
      <4>1. i - 1 = j - 1
        BY <3>2, <2>3, <1>12 DEF Sound, Chained
      <4> QED BY <4>1, <1>6, <1>11
    <3> QED BY <3>1, <3>2
  <2> QED BY <2>1, <2>2, <2>3 DEF Chained
<1>16. Partitioned(q, gr, hd \ {h})
  <2>1. \A i \in 1 .. Len(gr) : gr[i] \notin hd \ {h}
    BY <1>11, <1>12, <1>13
  <2>2. ASSUME NEW g \in U, g \notin hd \ {h}
        PROVE  \E i \in 1 .. Len(gr) : gr[i] = g
    <3>1. CASE g = h
      BY <3>1, <1>6, <1>11, 1 \in 1 .. Len(gr)
    <3>2. CASE g # h
      <4>1. PICK i \in 1 .. Len(fr) : fr[i] = g
        BY <2>2, <3>2 DEF Sound, Partitioned
      <4>2. i + 1 \in 1 .. Len(gr)
        BY <1>6, <1>11
      <4> QED BY <4>1, <4>2, <1>11
    <3> QED BY <3>1, <3>2
  <2> QED BY <2>1, <2>2, <1>10 DEF Partitioned
<1>17. Unlinked(q, hd \ {h})
  BY <1>1, <1>4 DEF Sound, Unlinked, Usable
<1> QED
  BY <1>4, <1>9, <1>14, <1>15, <1>16, <1>17 DEF Sound, gr

-----------------------------------------------------------------------------
(* The same for a caller that does not look at the free list.              *)

\* The items hd of pool p are in use and all others free.
InUse(p, hd) == \E fr : Sound(p, fr, hd)

LEMMA InUseItems ==
  ASSUME NEW p, NEW hd, InUse(p, hd)
  PROVE  /\ p \in Pools /\ p.ready
         /\ hd \subseteq Items(MAX_BLOCKS) \ {NULL}
<1>1. PICK fr : Sound(p, fr, hd)
  BY DEF InUse
<1>2. /\ p \in Pools /\ p.ready /\ p.nblocks >= 1 /\ hd \subseteq Items(p.nblocks) \ {NULL}
  BY <1>1 DEF Sound, ShapeOK, Usable
<1>3. p.nblocks \in Nat /\ p.nblocks <= MAX_BLOCKS /\ MAX_BLOCKS \in Nat
  BY <1>2, PoolAssumption DEF Pools
<1>4. Items(p.nblocks) \subseteq Items(MAX_BLOCKS)
  BY <1>3, HandleMonotonic
<1> QED BY <1>2, <1>4

\* mpi_alloc_handle gives out an item that was free.
LEMMA AllocInUse ==
  ASSUME NEW p, NEW hd, InUse(p, hd), ~Full(p)
  PROVE  /\ AllocatedHandle(p) \in Items(MAX_BLOCKS) \ {NULL}
         /\ AllocatedHandle(p) \notin hd
         /\ InUse(AllocHandle(p), hd \cup {AllocatedHandle(p)})
<1>1. PICK fr : Sound(p, fr, hd)
  BY DEF InUse
<1>2. AllocatedHandle(p) \notin hd /\ InUse(AllocHandle(p), hd \cup {AllocatedHandle(p)})
  <2>1. CASE fr = <<>>
    <3>1. Sound(p, <<>>, hd)
      BY <1>1, <2>1
    <3>2. /\ AllocatedHandle(p) \notin hd
          /\ Sound(AllocHandle(p), RestOfBlock(p.nblocks), hd \cup {AllocatedHandle(p)})
      BY <3>1, GrowSound
    <3> QED BY <3>2 DEF InUse
  <2>2. CASE fr # <<>>
    <3>1. /\ AllocatedHandle(p) = fr[1] /\ fr[1] \notin hd
          /\ Sound(AllocHandle(p), Tail(fr), hd \cup {fr[1]})
      BY <1>1, <2>2, PopSound
    <3> QED BY <3>1 DEF InUse
  <2> QED BY <2>1, <2>2
<1>3. hd \cup {AllocatedHandle(p)} \subseteq Items(MAX_BLOCKS) \ {NULL}
  BY <1>2, InUseItems
<1> QED BY <1>2, <1>3

\* The first one initialises the pool and gets item 1.
LEMMA FirstInUse ==
  ASSUME NEW p, ~p.ready
  PROVE  /\ ~Full(p)
         /\ AllocatedHandle(p) = 1
         /\ InUse(AllocHandle(p), {1})
<1> DEFINE fr == RestOfBlock(0)
<1>1. Ready(p) = InitPool /\ Ready(InitPool) = InitPool
  BY DEF Ready, InitPool
<1>2. Handle(0, 1) = 1
  BY PoolAssumption DEF Handle
<1>3. ~Full(p) /\ AllocatedHandle(p) = 1
  BY <1>1, <1>2 DEF Full, AllocatedHandle, InitPool, NULL
<1>4. AllocHandle(p) = AllocHandle(InitPool) /\ AllocatedHandle(p) = AllocatedHandle(InitPool)
  BY <1>1 DEF AllocHandle, AllocatedHandle
<1>5. ~Full(InitPool)
  BY <1>1, <1>2 DEF Full, InitPool, NULL
<1>6. InUse(InitPool, {})
  BY InitSound DEF InUse
<1>7. InUse(AllocHandle(InitPool), {} \cup {AllocatedHandle(InitPool)})
  BY <1>5, <1>6, AllocInUse
<1> QED BY <1>3, <1>4, <1>7

\* mpi_free_handle makes an item that was in use free.
LEMMA FreeInUse ==
  ASSUME NEW p, NEW hd, InUse(p, hd), NEW h \in hd
  PROVE  InUse(FreeHandle(p, h), hd \ {h})
<1>1. PICK fr : Sound(p, fr, hd)
  BY DEF InUse
<1>2. Sound(FreeHandle(p, h), <<h>> \o fr, hd \ {h})
  BY <1>1, FreeSound
<1> QED BY <1>2 DEF InUse

\* Destroyed, a pool keeps its type.
LEMMA DestroyType ==
  ASSUME NEW p \in Pools
  PROVE  DestroyHandles(p) \in Pools /\ ~DestroyHandles(p).ready
BY DEF DestroyHandles, Pools

=============================================================================
