------------------------ MODULE CouplerSetup_proofs ------------------------
(***************************************************************************)
(* Proofs about CouplerSetup, for every namcouple of up to 1000 entries,   *)
(* up to 100 models and every program of theirs.                           *)
(***************************************************************************)
EXTENDS CouplerSetup, DataInduction, FiniteSetTheorems, SequenceTheorems, TLAPS

-----------------------------------------------------------------------------
(* Tags *)

TagModels == 1..100
TagEntries == 1..1000

\* Within the limits of the comment in mod_oasis_coupler.F90 ("tags assume up to
\* 1000 namcouple inputs and 100 models") no two exchanges have the same tag.
LEMMA TagInjective ==
  ASSUME NEW d1 \in TagModels, NEW s1 \in TagModels, NEW n1 \in TagEntries,
         NEW d2 \in TagModels, NEW s2 \in TagModels, NEW n2 \in TagEntries,
         Tag(d1, s1, n1) = Tag(d2, s2, n2)
  PROVE  d1 = d2 /\ s1 = s2 /\ n1 = n2
<1>1. d1 * 100000 + s1 * 1000 + n1 = d2 * 100000 + s2 * 1000 + n2
  BY DEF Tag, TagModels, TagEntries
<1>2. /\ d1 \in Int /\ s1 \in Int /\ n1 \in Int /\ d2 \in Int /\ s2 \in Int /\ n2 \in Int
      /\ 1 <= s1 /\ s1 <= 100 /\ 1 <= n1 /\ n1 <= 1000
      /\ 1 <= s2 /\ s2 <= 100 /\ 1 <= n2 /\ n2 <= 1000
  BY DEF TagModels, TagEntries
<1>3. d1 = d2
  BY <1>1, <1>2
<1>4. s1 = s2
  BY <1>1, <1>2, <1>3
<1> QED
  BY <1>1, <1>2, <1>3, <1>4

-----------------------------------------------------------------------------
(* Finite sets *)

\* A union of finitely many finite sets is finite.
LEMMA FiniteUnion ==
  ASSUME NEW I, IsFiniteSet(I), NEW F, \A i \in I : IsFiniteSet(F[i])
  PROVE  IsFiniteSet(UNION {F[i] : i \in I})
<1> DEFINE T == {F[i] : i \in I}
           f == [i \in I |-> F[i]]
<1>1. f \in Surjection(I, T)
  BY DEF Surjection
<1>2. IsFiniteSet(T)
  BY <1>1, FS_Surjection
<1>3. \A t \in T : IsFiniteSet(t)
  OBVIOUS
<1> QED
  BY <1>2, <1>3, FS_UNION

LEMMA FiniteTriples ==
  ASSUME NEW A, NEW B, NEW C, IsFiniteSet(A), IsFiniteSet(B), IsFiniteSet(C)
  PROVE  IsFiniteSet(A \X B \X C)
<1> DEFINE S == A \X (B \X C)
           T == A \X B \X C
           f == [s \in S |-> <<s[1], s[2][1], s[2][2]>>]
<1>1. IsFiniteSet(S)
  <2>1. IsFiniteSet(B \X C)
    BY FS_Product
  <2> QED
    BY <2>1, FS_Product
<1>2. f \in Surjection(S, T)
  <2>1. f \in [S -> T]
    OBVIOUS
  <2>2. ASSUME NEW t \in T PROVE \E s \in S : f[s] = t
    <3>1. PICK a \in A, b \in B, c \in C : t = <<a, b, c>>
      OBVIOUS
    <3>2. <<a, <<b, c>>>> \in S /\ f[<<a, <<b, c>>>>] = <<a, b, c>>
      OBVIOUS
    <3> QED
      BY <3>1, <3>2
  <2> QED
    BY <2>1, <2>2 DEF Surjection
<1> QED
  BY <1>1, <1>2, FS_Surjection

\* The sizes of the namcouple
LEMMA SizeFacts ==
  /\ NModels \in Nat /\ Len(NamFile) \in Nat /\ mvar \in Nat
  /\ IsFiniteSet(Model)
  /\ \A n \in Entries : NamFile[n].src \in Seq(STRING) /\ NamFile[n].dst \in Seq(STRING)
<1>1. /\ NModels \in Nat /\ Len(NamFile) \in Nat
      /\ \A n \in Entries : NamFile[n].src \in Seq(STRING) /\ NamFile[n].dst \in Seq(STRING)
  <2> DEFINE R == [src : Seq(STRING), dst : Seq(STRING), seq : Int, kind : STRING]
  <2>1. NModels \in Nat /\ NamFile \in Seq(R)
    BY SetupAssumption
  <2>2. \A r \in R : r.src \in Seq(STRING) /\ r.dst \in Seq(STRING)
    OBVIOUS
  <2> HIDE DEF R
  <2>3. Len(NamFile) \in Nat /\ \A n \in Entries : NamFile[n] \in R
    BY <2>1 DEF Entries
  <2> QED
    BY <2>1, <2>2, <2>3
<1>2. IsFiniteSet(Model) /\ IsFiniteSet(Entries)
  BY <1>1, FS_Interval DEF Model, Entries
<1>3. mvar \in Nat
  <2> DEFINE F == [n \in Entries |-> {n} \X DOMAIN NamFile[n].src]
  <2>1. ASSUME NEW n \in Entries PROVE IsFiniteSet(F[n])
    <3>1. DOMAIN NamFile[n].src = 1..Len(NamFile[n].src) /\ Len(NamFile[n].src) \in Nat
      BY <1>1
    <3>2. IsFiniteSet(DOMAIN NamFile[n].src)
      BY <3>1, FS_Interval
    <3>3. IsFiniteSet({n})
      BY FS_Singleton
    <3> QED
      BY <3>2, <3>3, FS_Product
  <2>2. IsFiniteSet(UNION {F[n] : n \in Entries})
    <3> HIDE DEF F
    <3> QED BY <1>2, <2>1, FiniteUnion
  <2>3. UNION {F[n] : n \in Entries}
          = UNION {{n} \X DOMAIN NamFile[n].src : n \in Entries}
    OBVIOUS
  <2> QED
    BY <2>2, <2>3, FS_CardinalityType DEF mvar
<1> QED
  BY <1>1, <1>2, <1>3

-----------------------------------------------------------------------------
(* The sort of the namcouple *)

\* The numbers of the first k entries, in the order of their SEQ
SortedFirst(seq, k) ==
  {s \in [1..k -> 1..k] :
     \A i, j \in 1..k : i < j =>
       \/ seq[s[i]] < seq[s[j]]
       \/ seq[s[i]] = seq[s[j]] /\ s[i] < s[j]}

\* The insertion keeps the order of SEQ, and of the file where SEQ is the same.
LEMMA InsertedSorts ==
  ASSUME NEW seq \in Seq(Int), NEW nv \in 1..Len(seq), NEW s \in SortedFirst(seq, nv - 1)
  PROVE  Inserted(seq, s, nv) \in SortedFirst(seq, nv)
<1> DEFINE later == {n1 \in DOMAIN s : seq[nv] < seq[s[n1]]}
           loc == IF later = {} THEN nv ELSE CHOOSE n \in later : \A m \in later : n <= m
           r == [i \in 1..nv |-> IF i < loc THEN s[i] ELSE IF i = loc THEN nv ELSE s[i - 1]]
<1>2. /\ Len(seq) \in Nat /\ nv \in Nat \ {0} /\ nv <= Len(seq)
      /\ \A i \in 1..nv : seq[i] \in Int
  OBVIOUS
<1>1. /\ DOMAIN s = 1..(nv - 1)
      /\ \A i \in 1..(nv - 1) : s[i] \in Int /\ 1 <= s[i] /\ s[i] < nv /\ seq[s[i]] \in Int
  <2>1. s \in [1..(nv - 1) -> 1..(nv - 1)]
    BY DEF SortedFirst
  <2>2. \A i \in 1..(nv - 1) : s[i] \in 1..(nv - 1)
    BY <2>1
  <2>3. \A i \in 1..(nv - 1) : i \in 1..nv
    BY <1>2
  <2>4. \A i \in 1..(nv - 1) : seq[s[i]] \in Int
    BY <2>2, <2>3, <1>2
  <2> QED BY <2>1, <2>2, <2>4, <1>2, SMTT(30)
<1>ord. \A i, j \in 1..(nv - 1) : i < j =>
           seq[s[i]] < seq[s[j]] \/ (seq[s[i]] = seq[s[j]] /\ s[i] < s[j])
  BY DEF SortedFirst
<1> DEFINE After(i) == seq[nv] < seq[s[i]]
<1>l. later = {n1 \in 1..(nv - 1) : After(n1)}
  BY <1>1
<1> HIDE DEF After, later
<1>3. /\ loc \in 1..nv
      /\ \A i \in 1..(nv - 1) : i < loc => ~ After(i)
      /\ loc # nv => After(loc)
  <2>1. CASE later = {}
    BY <2>1, <1>l, <1>2, SMTT(30)
  <2>2. CASE later # {}
    <3>1. later \subseteq Nat
      BY <1>l, <1>2
    <3>2. \E n \in later : \A m \in later : n <= m
      BY <2>2, <3>1, LeastNumber
    <3>3. loc \in later /\ \A m \in later : loc <= m
      BY <2>2, <3>2
    <3> HIDE DEF loc
    <3>4. loc \in 1..(nv - 1) /\ After(loc)
      BY <3>3, <1>l
    <3>5. \A i \in 1..(nv - 1) : After(i) => loc <= i
      BY <3>3, <1>l
    <3> QED BY <3>4, <3>5, <1>2
  <2> QED BY <2>1, <2>2
<1>4. Inserted(seq, s, nv) = r
  BY DEF Inserted, later, After
<1> HIDE DEF loc
<1>5. \A i \in 1..nv : \/ i < loc /\ i \in 1..(nv - 1) /\ r[i] = s[i]
                       \/ i = loc /\ r[i] = nv
                       \/ i > loc /\ i - 1 \in 1..(nv - 1) /\ r[i] = s[i - 1]
  BY <1>2, <1>3
<1>6. r \in [1..nv -> 1..nv]
  <2>1. \A i \in 1..nv : r[i] \in 1..nv
    BY <1>1, <1>2, <1>5
  <2> QED BY <2>1
<1> HIDE DEF r
<1>7. ASSUME NEW i \in 1..nv, NEW j \in 1..nv, i < j
      PROVE  seq[r[i]] < seq[r[j]] \/ (seq[r[i]] = seq[r[j]] /\ r[i] < r[j])
  <2> DEFINE Less(a, b) == seq[a] < seq[b] \/ (seq[a] = seq[b] /\ a < b)
  <2>1. \A a, b \in 1..(nv - 1) : a < b => Less(s[a], s[b])
    BY <1>ord
  <2>2. \A a \in 1..(nv - 1) : After(a) => Less(nv, s[a])
    BY DEF After
  <2>3. \A a \in 1..(nv - 1) : ~ After(a) => Less(s[a], nv)
    BY <1>1, <1>2, SMTT(30) DEF After
  <2>4. ASSUME NEW a \in 1..(nv - 1), NEW b \in 1..(nv - 1), After(a), Less(s[a], s[b])
        PROVE  Less(nv, s[b])
    <3>1. seq[s[a]] \in Int /\ seq[s[b]] \in Int /\ seq[nv] \in Int
      BY <1>1, <1>2
    <3>2. seq[nv] < seq[s[a]] /\ (seq[s[a]] < seq[s[b]] \/ seq[s[a]] = seq[s[b]])
      BY <2>4 DEF After
    <3> QED BY <3>1, <3>2
  <2> HIDE DEF Less
  <2>i. i \in Int /\ j \in Int /\ loc \in Int
    BY <1>2, <1>3
  <2>5. CASE i = loc
    <3>1. j > loc /\ j - 1 \in 1..(nv - 1) /\ r[j] = s[j - 1] /\ r[i] = nv
      BY <1>5, <1>7, <2>i, <2>5
    <3>2. loc # nv /\ loc \in 1..(nv - 1) /\ (loc = j - 1 \/ loc < j - 1)
      BY <3>1, <1>3, <1>2, <2>i
    <3>3. After(loc)
      BY <3>2, <1>3
    <3>4. Less(nv, s[j - 1])
      BY <3>1, <3>2, <3>3, <2>1, <2>2, <2>4
    <3> QED BY <3>1, <3>4 DEF Less
  <2>6. CASE j = loc
    <3>1. i < loc /\ i \in 1..(nv - 1) /\ r[i] = s[i] /\ r[j] = nv
      BY <1>5, <1>7, <2>i, <2>6
    <3>2. Less(s[i], nv)
      BY <3>1, <1>3, <2>3
    <3> QED BY <3>1, <3>2 DEF Less
  <2>7. CASE i # loc /\ j # loc
    <3> DEFINE a == IF i < loc THEN i ELSE i - 1
               b == IF j < loc THEN j ELSE j - 1
    <3>1. a \in 1..(nv - 1) /\ r[i] = s[a]
      BY <1>5, <2>7, <2>i
    <3>2. b \in 1..(nv - 1) /\ r[j] = s[b]
      BY <1>5, <2>7, <2>i
    <3>3. a < b
      BY <2>7, <2>i, <1>7
    <3> HIDE DEF a, b
    <3>4. Less(s[a], s[b])
      BY <3>1, <3>2, <3>3, <2>1
    <3> QED BY <3>1, <3>2, <3>4 DEF Less
  <2> QED BY <2>5, <2>6, <2>7
<1> QED BY <1>4, <1>6, <1>7 DEF SortedFirst

\* The insertion sort of oasis_namcouple_init (mod_oasis_namcouple.F90:649)
\* sorts every namcouple.
THEOREM SortIsStable ==
  ASSUME NEW seq \in Seq(Int)
  PROVE  SeqSorted(seq) \in StableSorts(seq)
<1> DEFINE n == Len(seq)
           G == [k \in 0..n |-> SortedFirst(seq, k)]
           step == [z \in (1..n) \X UNION {G[k] : k \in 0..n} |-> Inserted(seq, z[2], z[1])]
           sorted[nv \in 0..Len(seq)] == IF nv = 0 THEN <<>> ELSE Inserted(seq, sorted[nv - 1], nv)
<1>1. n \in Nat /\ DOMAIN seq = 1..n
  OBVIOUS
<1>2. \A k \in 0..n : G[k] = SortedFirst(seq, k)
  OBVIOUS
<1>3. <<>> \in G[0]
  <2>1. <<>> \in [1..0 -> 1..0] /\ 1..0 = {}
    OBVIOUS
  <2> QED BY <2>1, <1>1, <1>2 DEF SortedFirst
<1>4. \A i \in 1..n : \A x \in G[i - 1] : step[<<i, x>>] = Inserted(seq, x, i) /\ Inserted(seq, x, i) \in G[i]
  <2> TAKE i \in 1..n
  <2>0. i - 1 \in 0..n /\ i \in 0..n
    BY <1>1
  <2> TAKE x \in G[i - 1]
  <2>1. <<i, x>> \in (1..n) \X UNION {G[k] : k \in 0..n}
    BY <2>0
  <2>2. step[<<i, x>>] = Inserted(seq, x, i)
    BY <2>1
  <2> QED BY <2>0, <2>2, <1>2, InsertedSorts
<1> HIDE DEF n, G, step
<1>in. Leads(n, <<>>, step, G)
  BY <1>1, <1>3, <1>4 DEF Leads
<1>f. PICK f : Recursion(n, <<>>, step, f) /\ \A i \in 0..n : f[i] \in G[i]
  BY <1>in, RecursionExists
<1>5. f = [i \in 0..n |-> IF i = 0 THEN <<>> ELSE step[<<i, f[i - 1]>>]]
  BY <1>f DEF Recursion
<1>6. f = [i \in 0..n |-> IF i = 0 THEN <<>> ELSE Inserted(seq, f[i - 1], i)]
  <2>1. \A i \in 0..n : i # 0 => i \in 1..n /\ i - 1 \in 0..n
    BY <1>1
  <2>2. \A i \in 0..n : i # 0 => step[<<i, f[i - 1]>>] = Inserted(seq, f[i - 1], i)
    BY <1>4, <1>f, <2>1
  <2>3. \A i \in 0..n : f[i] = IF i = 0 THEN <<>> ELSE Inserted(seq, f[i - 1], i)
    BY <1>5, <2>2, Zenon
  <2>4. f = [i \in 0..n |-> f[i]]
    BY <1>5, Zenon
  <2> QED BY <2>3, <2>4, Zenon
<1>7. sorted = [i \in 0..n |-> IF i = 0 THEN <<>> ELSE Inserted(seq, sorted[i - 1], i)]
  BY <1>6, Zenon DEF n
<1> HIDE DEF sorted
<1>8. 0..n \subseteq {k \in 0..n : sorted[k] \in G[k]}
  <2> DEFINE T == {k \in 0..n : sorted[k] \in G[k]}
  <2>1. 0 \in T
    BY <1>1, <1>3, <1>7
  <2>2. ASSUME NEW k \in 0..(n - 1), k \in T PROVE k + 1 \in T
    <3>1. sorted[k] \in G[k] /\ k + 1 \in 1..n /\ (k + 1) - 1 = k /\ k + 1 \in 0..n
      BY <2>2, <1>1
    <3>2. sorted[k + 1] = Inserted(seq, sorted[k], k + 1)
      BY <3>1, <1>1, <1>7, k + 1 # 0
    <3> QED BY <3>1, <3>2, <1>4
  <2> HIDE DEF T
  <2>3. 0..n \subseteq T
    BY <1>1, <2>1, <2>2, BoundedInduction
  <2> QED BY <2>3 DEF T
<1>9. sorted[n] \in SortedFirst(seq, n)
  BY <1>1, <1>2, <1>8
<1>10. SeqSorted(seq) = sorted[n]
  BY DEF SeqSorted, sorted, n
<1> QED BY <1>1, <1>9, <1>10 DEF SortedFirst, StableSorts

-----------------------------------------------------------------------------
(* Couplers *)

VarTypes == prism_var \in [Model -> Seq(Definitions)]

LEMMA VarFacts ==
  ASSUME VarTypes, NEW p \in Model, NEW i \in DOMAIN prism_var[p]
  PROVE  /\ i \in Nat /\ prism_var[p][i].name \in STRING
         /\ prism_var[p][i].ops \in {"Out", "In"}
<1>1. prism_var[p] \in Seq(Definitions)
  BY DEF VarTypes
<1>2. i \in Nat /\ prism_var[p][i] \in Definitions
  BY <1>1
<1> QED BY <1>2 DEF Definitions

\* The variable i of p, at its position in the entry, and the variable j of q there
IsMatch(p, n, i, q, j) ==
  /\ i \in DOMAIN prism_var[p] /\ q \in Model /\ j \in DOMAIN prism_var[q]
  /\ InEntry(prism_var[p][i], n)
  /\ prism_var[q][j].name = otfldmatch(prism_var[p][i], n)

LEMMA MatchesAre ==
  ASSUME NEW p \in Model, NEW n
  PROVE  /\ \A m \in Matches(p, n) :
              m = <<m[1], m[2], m[3]>> /\ IsMatch(p, n, m[1], m[2], m[3])
         /\ \A i, q, j : IsMatch(p, n, i, q, j) => <<i, q, j>> \in Matches(p, n)
<1>1. ASSUME NEW m \in Matches(p, n)
      PROVE  m = <<m[1], m[2], m[3]>> /\ IsMatch(p, n, m[1], m[2], m[3])
  BY <1>1 DEF Matches, IsMatch
<1>2. ASSUME NEW i, NEW q, NEW j, IsMatch(p, n, i, q, j)
      PROVE  <<i, q, j>> \in Matches(p, n)
  <2>1. j \in UNION {DOMAIN prism_var[r] : r \in Model}
    BY <1>2 DEF IsMatch
  <2>2. <<i, q, j>> \in (DOMAIN prism_var[p]) \X Model
                        \X (UNION {DOMAIN prism_var[r] : r \in Model})
    BY <1>2, <2>1 DEF IsMatch
  <2>3. <<i, q, j>>[1] = i /\ <<i, q, j>>[2] = q /\ <<i, q, j>>[3] = j
    OBVIOUS
  <2> DEFINE m == <<i, q, j>>
  <2> HIDE DEF m
  <2>4. m[1] = i /\ m[2] = q /\ m[3] = j
    BY <2>3 DEF m
  <2>5. /\ InEntry(prism_var[p][m[1]], n)
        /\ m[3] \in DOMAIN prism_var[m[2]]
        /\ prism_var[m[2]][m[3]].name = otfldmatch(prism_var[p][m[1]], n)
    BY <1>2, <2>4 DEF IsMatch
  <2> QED BY <2>2, <2>5 DEF Matches, m
<1> QED BY <1>1, <1>2

\* The matches of an entry are numbers of variables and models, finitely many.
LEMMA MatchesFinite ==
  ASSUME VarTypes, NEW p \in Model, NEW n
  PROVE  /\ IsFiniteSet(Matches(p, n)) /\ Cardinality(Matches(p, n)) \in Nat
         /\ \A m \in Matches(p, n) : m[1] \in Nat /\ m[2] \in Nat /\ m[3] \in Nat
<1> DEFINE S == Matches(p, n)
           F == [q \in Model |-> DOMAIN prism_var[q]]
           C == UNION {DOMAIN prism_var[q] : q \in Model}
<1>1. \A q \in Model : IsFiniteSet(DOMAIN prism_var[q])
  <2> TAKE q \in Model
  <2>1. prism_var[q] \in Seq(Definitions)
    BY DEF VarTypes
  <2>2. DOMAIN prism_var[q] = 1..Len(prism_var[q]) /\ Len(prism_var[q]) \in Nat
    BY <2>1
  <2> QED
    BY <2>2, FS_Interval
<1>2. IsFiniteSet(C)
  <2>1. \A q \in Model : IsFiniteSet(F[q])
    BY <1>1
  <2>2. IsFiniteSet(UNION {F[q] : q \in Model})
    <3> HIDE DEF F
    <3> QED BY <2>1, SizeFacts, FiniteUnion
  <2> QED
    BY <2>2
<1>3. IsFiniteSet((DOMAIN prism_var[p]) \X Model \X C)
  <2> HIDE DEF C
  <2> QED BY <1>1, <1>2, SizeFacts, FiniteTriples
<1>4. S \in SUBSET ((DOMAIN prism_var[p]) \X Model \X C)
  BY DEF Matches
<1>5. IsFiniteSet(S) /\ Cardinality(S) \in Nat
  <2> HIDE DEF S, C
  <2> QED BY <1>3, <1>4, FS_Subset, FS_CardinalityType
<1>6. ASSUME NEW m \in S
      PROVE  m[1] \in Nat /\ m[2] \in Nat /\ m[3] \in Nat
  <2>1. IsMatch(p, n, m[1], m[2], m[3])
    BY <1>6, MatchesAre
  <2>2. m[2] \in Model /\ m[1] \in DOMAIN prism_var[p] /\ m[3] \in DOMAIN prism_var[m[2]]
    BY <2>1 DEF IsMatch
  <2>3. m[1] \in Nat /\ m[3] \in Nat
    BY <2>2, VarFacts
  <2> QED BY <2>2, <2>3, SizeFacts DEF Model
<1> QED BY <1>5, <1>6

\* The loops come to each match once.
LEMMA Enumerates ==
  ASSUME VarTypes, NEW p \in Model, NEW n, NEW ms \in InLoopOrder(Matches(p, n))
  PROVE  /\ Len(ms) = Cardinality(Matches(p, n)) /\ Len(ms) \in Nat
         /\ DOMAIN ms = 1..Len(ms)
         /\ \A k \in DOMAIN ms : ms[k] \in Matches(p, n)
         /\ \A m \in Matches(p, n) : \E k \in DOMAIN ms : ms[k] = m
         /\ \A k, l \in DOMAIN ms : k < l => Before(ms[k], ms[l])
<1>1. PICK S : S = Matches(p, n)
  OBVIOUS
<1>2. /\ IsFiniteSet(S) /\ Cardinality(S) \in Nat
      /\ \A m \in S : m[1] \in Nat /\ m[2] \in Nat /\ m[3] \in Nat
  BY <1>1, MatchesFinite
<1>3. PICK c \in Nat : c = Cardinality(S)
  BY <1>2
<1>4. /\ ms \in [1..c -> S]
      /\ \A k, l \in DOMAIN ms : k < l => Before(ms[k], ms[l])
  BY <1>1, <1>3 DEF InLoopOrder
<1>5. Len(ms) = c /\ DOMAIN ms = 1..c
  BY <1>4
<1>6. ASSUME NEW k \in 1..c, NEW l \in 1..c, k < l
      PROVE  ms[k] # ms[l]
  <2>1. Before(ms[k], ms[l]) /\ ms[k] \in S
    BY <1>4, <1>6
  <2> QED BY <2>1, <1>2 DEF Before
<1>7. ms \in Injection(1..c, S)
  <2>1. \A k, l \in 1..c : k < l \/ l < k \/ k = l
    OBVIOUS
  <2>2. \A k, l \in 1..c : ms[k] = ms[l] => k = l
    BY <1>6, <2>1
  <2> QED BY <1>4, <2>2 DEF Injection, IsInjective
<1>8. IsFiniteSet(1..c) /\ Cardinality(1..c) = c
  BY FS_Interval
<1>9. ms \in Surjection(1..c, S)
  BY <1>2, <1>3, <1>7, <1>8, FS_Injection
<1>10. \A m \in S : \E k \in 1..c : ms[k] = m
  BY <1>9 DEF Surjection
<1> QED BY <1>1, <1>3, <1>4, <1>5, <1>10

\* So there is a last match, and it names a model.
LEMMA LastMatch ==
  ASSUME prism_var \in [Model -> Seq(Definitions)], NEW p \in Model, NEW n \in Entries,
         NEW ms \in InLoopOrder(Matches(p, n)), ms # <<>>
  PROVE  /\ ms \in Seq(Matches(p, n)) /\ Len(ms) \in DOMAIN ms
         /\ ms[Len(ms)] \in Matches(p, n)
<1>1. PICK S, c : S = Matches(p, n) /\ c = Cardinality(S)
  OBVIOUS
<1>2. c \in Nat /\ ms \in [1..c -> S]
  BY <1>1, MatchesFinite DEF VarTypes, InLoopOrder
<1>3. ms \in Seq(S) /\ Len(ms) = c
  BY <1>2
<1>4. c # 0
  BY <1>2, <1>3
<1> QED BY <1>1, <1>2, <1>3, <1>4

\* A coupler has its tag from its end, its entry and the model it names.
CouplerOK(p, c) ==
  /\ c \in CouplerType
  /\ c.sndrcv => c.tag = IF c.getput = "put" THEN Tag(c.comp, p, c.namID)
                                            ELSE Tag(p, c.comp, c.namID)

LEMMA CouplerFacts ==
  ASSUME prism_var \in [Model -> Seq(Definitions)], NEW p \in Model, NEW n \in Entries,
         NEW ms \in InLoopOrder(Matches(p, n)), ms # <<>>
  PROVE  CouplerOK(p, Coupler(p, n, ms)) /\ Coupler(p, n, ms).namID = n
<1> DEFINE last == ms[Len(ms)]
<1>1. /\ ms \in Seq(Matches(p, n)) /\ last \in Matches(p, n)
  BY LastMatch
<1>2. \A m \in Matches(p, n) :
        m[1] \in DOMAIN prism_var[p] /\ m[2] \in Model
  BY DEF Matches
<1>3. prism_var[p] \in Seq(Definitions)
  OBVIOUS
<1>4. DOMAIN prism_var[p] \in SUBSET Nat
  BY <1>3
<1>5. \A i \in DOMAIN prism_var[p] :
        prism_var[p][i].name \in STRING /\ prism_var[p][i].ops \in {"Out", "In"}
  <2>1. \A i \in DOMAIN prism_var[p] : prism_var[p][i] \in Definitions
    BY <1>3
  <2>2. \A d \in Definitions : d.name \in STRING /\ d.ops \in {"Out", "In"}
    BY DEF Definitions
  <2> QED
    BY <2>1, <2>2
<1>6. [i \in DOMAIN ms |-> ms[i][1]] \in Seq(Nat)
  BY <1>1, <1>2, <1>4
<1>7. [i \in DOMAIN ms |-> prism_var[p][ms[i][1]].name] \in Seq(STRING)
  <2>1. \A i \in DOMAIN ms : prism_var[p][ms[i][1]].name \in STRING
    <3>1. \A i \in DOMAIN ms : ms[i] \in Matches(p, n)
      BY <1>1
    <3> QED
      BY <3>1, <1>2, <1>5
  <2>2. DOMAIN ms = 1..Len(ms) /\ Len(ms) \in Nat
    BY <1>1
  <2> QED
    BY <2>1, <2>2
<1>8. last[2] \in Model /\ prism_var[p][last[1]].ops \in {"Out", "In"}
  BY <1>1, <1>2, <1>5
<1>9. \A d \in Model, s \in Model : Tag(d, s, n) \in Nat
  BY SizeFacts DEF Tag, Model, Entries
<1> DEFINE c == Coupler(p, n, ms)
           ops == prism_var[p][last[1]].ops
<1>10. /\ c.namID = n /\ c.comp = last[2] /\ c.sndrcv = Communicates(n)
       /\ c.varid = [i \in DOMAIN ms |-> ms[i][1]]
       /\ c.fldlist = [i \in DOMAIN ms |-> prism_var[p][ms[i][1]].name]
       /\ c.getput \in {"put", "get"}
       /\ Communicates(n) => c.getput = IF ops = "Out" THEN "put" ELSE "get"
       /\ c.tag = IF Communicates(n) THEN EndTag(p, last[2], n, ops) ELSE Tag(p, p, n)
  BY DEF Coupler, GetPut
<1>11. c = [namID |-> c.namID, comp |-> c.comp, varid |-> c.varid, fldlist |-> c.fldlist,
            sndrcv |-> c.sndrcv, getput |-> c.getput, tag |-> c.tag]
  BY DEF Coupler
<1>12. Communicates(n) \in BOOLEAN
  BY DEF Communicates
<1>13. c.tag \in Nat
  BY <1>8, <1>9, <1>10 DEF EndTag
<1> HIDE DEF c, ops, last
<1>14. c \in CouplerType
  BY <1>6, <1>7, <1>8, <1>10, <1>11, <1>12, <1>13 DEF CouplerType
<1>15. c.sndrcv => c.tag = IF c.getput = "put" THEN Tag(c.comp, p, c.namID)
                                               ELSE Tag(p, c.comp, c.namID)
  BY <1>8, <1>10 DEF EndTag, ops
<1> QED
  BY <1>10, <1>14, <1>15 DEF CouplerOK, c

-----------------------------------------------------------------------------
(* The invariant *)

\* A coupler was made at one of the entries that the model has looked at.
Located == \A p \in Model : \A i \in DOMAIN prism_coupler[p] :
             \E a \in 1..nns[p] : prism_coupler[p][i].namID = namfldsort[a]
CouplersOK == \A p \in Model : \A i \in DOMAIN prism_coupler[p] :
                CouplerOK(p, prism_coupler[p][i])
Within == \A p \in Model : pc[p] \in {"pars", "segs"} => nc[p] <= Len(prism_coupler[p])

IInv == TypeOK /\ Within /\ CouplersOK /\ Located /\ CouplersSorted

LEMMA InitInv == Init => IInv
<1> SUFFICES ASSUME Init PROVE IInv
  OBVIOUS
<1>1. /\ prism_coupler = [p \in Model |-> <<>>] /\ prism_var = [p \in Model |-> <<>>]
      /\ nns = [p \in Model |-> 0] /\ nc = [p \in Model |-> 1]
      /\ pc = [p \in Model |-> "define"] /\ aborted = "no"
      /\ namfldsort = SeqSorted(namfldseq) /\ todo \in Programs
  BY DEF Init
<1>s. namfldsort \in StableSorts(namfldseq)
  <2>1. \A n \in Entries : NamFile[n].seq \in Int
    <3> DEFINE R == [src : Seq(STRING), dst : Seq(STRING), seq : Int, kind : STRING]
    <3>1. NamFile \in Seq(R) /\ \A r \in R : r.seq \in Int
      BY SetupAssumption
    <3> HIDE DEF R
    <3> QED BY <3>1 DEF Entries
  <2>2. namfldseq \in Seq(Int)
    BY <2>1, SizeFacts DEF namfldseq, Entries
  <2> QED BY <1>1, <2>2, SortIsStable
<1>2. todo \in [Model -> Seq(Definitions)]
  BY <1>1, SetupAssumption
<1>3. TypeOK
  BY <1>1, <1>2, <1>s, SizeFacts DEF TypeOK
<1> QED
  BY <1>1, <1>3 DEF IInv, Within, CouplersOK, Located, CouplersSorted

\* A step that leaves the couplers alone
LEMMA CouplersKept ==
  ASSUME CouplersOK, Located, CouplersSorted,
         UNCHANGED <<namfldsort, nns, prism_coupler>>
  PROVE  CouplersOK' /\ Located' /\ CouplersSorted'
BY DEF CouplersOK, CouplerOK, CouplerType, Located, CouplersSorted

LEMMA DefVarInv == ASSUME IInv, NEW p \in Model, DefVar(p) PROVE IInv'
<1> DEFINE v == Head(todo[p])
<1>1. /\ todo[p] # <<>> /\ todo' = [todo EXCEPT ![p] = Tail(@)]
      /\ UNCHANGED <<namfldsort, pc, nns, prism_coupler, nc>>
      /\ \/ UNCHANGED prism_var /\ aborted' \in {aborted, "def_var"}
         \/ /\ v.name \in NamNames /\ Len(prism_var[p]) # mvar
            /\ prism_var' = [prism_var EXCEPT ![p] = Append(@, v)]
            /\ UNCHANGED aborted
  BY DEF DefVar
<1>2. TypeOK
  BY DEF IInv
<1>3. v \in Definitions /\ todo' \in [Model -> Seq(Definitions)]
  <2>1. todo[p] \in Seq(Definitions) /\ todo \in [Model -> Seq(Definitions)]
    BY <1>2 DEF TypeOK
  <2>2. v \in Definitions /\ Tail(todo[p]) \in Seq(Definitions)
    BY <1>1, <2>1
  <2> QED
    BY <1>1, <2>1, <2>2
<1> HIDE DEF v
<1>4. /\ prism_var' \in [Model -> Seq(Definitions)]
      /\ \A q \in Model : Len(prism_var'[q]) <= mvar
      /\ \A q \in Model : \A i \in DOMAIN prism_var'[q] : prism_var'[q][i].name \in NamNames
  <2>1. /\ prism_var \in [Model -> Seq(Definitions)]
        /\ \A q \in Model : Len(prism_var[q]) <= mvar
        /\ \A q \in Model : \A i \in DOMAIN prism_var[q] : prism_var[q][i].name \in NamNames
    BY <1>2 DEF TypeOK
  <2>2. CASE UNCHANGED prism_var
    BY <2>1, <2>2
  <2>3. CASE /\ v.name \in NamNames /\ Len(prism_var[p]) # mvar
             /\ prism_var' = [prism_var EXCEPT ![p] = Append(@, v)]
    <3> DEFINE s == prism_var[p]
    <3>1. s \in Seq(Definitions)
      BY <2>1
    <3>2. /\ Append(s, v) \in Seq(Definitions) /\ Len(Append(s, v)) = Len(s) + 1
          /\ \A i \in 1..(Len(s) + 1) : Append(s, v)[i] = IF i <= Len(s) THEN s[i] ELSE v
          /\ DOMAIN s = 1..Len(s) /\ DOMAIN Append(s, v) = 1..(Len(s) + 1)
          /\ Len(s) \in Nat
      BY <1>3, <3>1
    <3>3. Len(s) + 1 <= mvar
      <4>1. mvar \in Nat
        BY SizeFacts
      <4>2. Len(s) <= mvar /\ Len(s) # mvar
        BY <2>1, <2>3
      <4>3. Len(s) \in Nat
        BY <3>2
      <4> HIDE DEF s
      <4> QED
        BY <4>1, <4>2, <4>3
    <3>4. \A i \in DOMAIN Append(s, v) : Append(s, v)[i].name \in NamNames
      BY <2>1, <2>3, <3>2
    <3>5. prism_var'[p] = Append(s, v) /\ \A q \in Model \ {p} : prism_var'[q] = prism_var[q]
      BY <2>1, <2>3
    <3>6. prism_var' \in [Model -> Seq(Definitions)]
      BY <2>1, <2>3, <3>2
    <3> HIDE DEF s
    <3>7. \A q \in Model : Len(prism_var'[q]) <= mvar
      BY <2>1, <3>2, <3>3, <3>5
    <3>8. \A q \in Model : \A i \in DOMAIN prism_var'[q] : prism_var'[q][i].name \in NamNames
      BY <2>1, <3>4, <3>5
    <3> QED
      BY <3>6, <3>7, <3>8
  <2> QED
    BY <1>1, <2>2, <2>3
<1>5. TypeOK'
  <2>1. aborted' \in {"no", "def_var", "coupler_setup"}
    BY <1>1, <1>2 DEF TypeOK
  <2>2. namfldsort' \in StableSorts(namfldseq) /\ pc' \in [Model -> {"define", "share", "match", "router", "pars", "segs"}]
    BY <1>1, <1>2 DEF TypeOK
  <2>3. /\ nns' \in [Model -> 0..Len(NamFile)] /\ prism_coupler' \in [Model -> Seq(CouplerType)]
        /\ nc' \in [Model -> Nat] /\ \A q \in Model : nc'[q] \in 1..(Len(prism_coupler'[q]) + 1)
    BY <1>1, <1>2 DEF TypeOK
  <2> QED
    BY <1>3, <1>4, <2>1, <2>2, <2>3 DEF TypeOK
<1>6. Within'
  BY <1>1 DEF IInv, Within
<1> QED
  BY <1>1, <1>5, <1>6, CouplersKept DEF IInv

\* A list of entries that is in the order of the sort stays so when it gets the
\* next entry, or does not get it.
InOrder(s, f, k) ==
  /\ Len(s) <= k
  /\ \A i \in DOMAIN s : \E a \in 1..k : s[i].namID = f[a]
  /\ \A i, j \in DOMAIN s : i < j =>
       \E a, b \in 1..k : a < b /\ s[i].namID = f[a] /\ s[j].namID = f[b]

\* The couplers of a model are.
LEMMA CouplersInOrder ==
  ASSUME Located, CouplersSorted, NEW p \in Model
  PROVE  InOrder(prism_coupler[p], namfldsort, nns[p])
<1>1. Len(prism_coupler[p]) <= nns[p]
  BY Zenon DEF CouplersSorted
<1>2. \A i \in DOMAIN prism_coupler[p] : \E a \in 1..nns[p] : prism_coupler[p][i].namID = namfldsort[a]
  BY Zenon DEF Located
<1>3. \A i, j \in DOMAIN prism_coupler[p] : i < j =>
        \E a, b \in 1..nns[p] : /\ a < b
                               /\ prism_coupler[p][i].namID = namfldsort[a]
                               /\ prism_coupler[p][j].namID = namfldsort[b]
  BY DEF CouplersSorted
<1> QED
  BY <1>1, <1>2, <1>3, Zenon DEF InOrder

LEMMA InOrderAppend ==
  ASSUME NEW T, NEW s \in Seq(T), NEW f, NEW k \in Nat, InOrder(s, f, k),
         NEW c \in T, c.namID = f[k + 1]
  PROVE  InOrder(Append(s, c), f, k + 1)
<1> DEFINE t == Append(s, c)
<1>1. /\ Len(s) \in Nat /\ Len(t) = Len(s) + 1 /\ t[Len(s) + 1] = c
      /\ DOMAIN s = 1..Len(s) /\ DOMAIN t = 1..(Len(s) + 1)
      /\ \A i \in 1..Len(s) : t[i] = s[i]
  OBVIOUS
<1> HIDE DEF t
<1>2. Len(t) <= k + 1
  BY <1>1 DEF InOrder
<1>3. ASSUME NEW i \in DOMAIN t PROVE \E a \in 1..(k + 1) : t[i].namID = f[a]
  <2>1. CASE i \in DOMAIN s
    <3>1. PICK a \in 1..k : s[i].namID = f[a]
      BY <2>1 DEF InOrder
    <3> QED
      BY <1>1, <2>1, <3>1
  <2>2. CASE i = Len(s) + 1
    BY <1>1, <2>2
  <2> QED
    BY <1>1, <2>1, <2>2
<1>4. ASSUME NEW i \in DOMAIN t, NEW j \in DOMAIN t, i < j
      PROVE  \E a, b \in 1..(k + 1) : a < b /\ t[i].namID = f[a] /\ t[j].namID = f[b]
  <2>1. CASE j \in DOMAIN s
    <3>1. i \in DOMAIN s
      BY <1>1, <1>4, <2>1
    <3>2. PICK a \in 1..k, b \in 1..k : a < b /\ s[i].namID = f[a] /\ s[j].namID = f[b]
      BY <1>4, <2>1, <3>1 DEF InOrder
    <3>3. a \in 1..(k + 1) /\ b \in 1..(k + 1)
      OBVIOUS
    <3> QED
      BY <1>1, <2>1, <3>1, <3>2, <3>3
  <2>2. CASE j = Len(s) + 1
    <3>1. i \in DOMAIN s
      BY <1>1, <1>4, <2>2
    <3>2. PICK a \in 1..k : s[i].namID = f[a]
      BY <3>1 DEF InOrder
    <3>3. a \in 1..(k + 1) /\ k + 1 \in 1..(k + 1) /\ a < k + 1
      OBVIOUS
    <3> QED
      BY <1>1, <2>2, <3>1, <3>2, <3>3
  <2> QED
    BY <1>1, <2>1, <2>2
<1> QED
  BY <1>2, <1>3, <1>4 DEF InOrder, t

LEMMA InOrderLater ==
  ASSUME NEW T, NEW s \in Seq(T), NEW f, NEW k \in Nat, InOrder(s, f, k)
  PROVE  InOrder(s, f, k + 1)
<1>1. \A a \in 1..k : a \in 1..(k + 1)
  OBVIOUS
<1>2. Len(s) <= k + 1
  <2>1. Len(s) \in Nat /\ Len(s) <= k
    BY DEF InOrder
  <2> QED
    BY <2>1
<1>3. ASSUME NEW i \in DOMAIN s PROVE \E a \in 1..(k + 1) : s[i].namID = f[a]
  <2>1. PICK a \in 1..k : s[i].namID = f[a]
    BY DEF InOrder
  <2> QED
    BY <1>1, <2>1
<1>4. ASSUME NEW i \in DOMAIN s, NEW j \in DOMAIN s, i < j
      PROVE  \E a, b \in 1..(k + 1) : a < b /\ s[i].namID = f[a] /\ s[j].namID = f[b]
  <2>1. PICK a \in 1..k, b \in 1..k : a < b /\ s[i].namID = f[a] /\ s[j].namID = f[b]
    BY <1>4 DEF InOrder
  <2>2. a \in 1..(k + 1) /\ b \in 1..(k + 1)
    BY <1>1
  <2> QED
    BY <2>1, <2>2
<1> QED
  BY <1>2, <1>3, <1>4 DEF InOrder

LEMMA MatchEntryInv == ASSUME IInv, NEW p \in Model, MatchEntry(p) PROVE IInv'
<1> DEFINE n == namfldsort[nns[p] + 1]
<1>1. TypeOK /\ Within /\ CouplersOK /\ Located /\ CouplersSorted
  BY DEF IInv
<1>2. /\ prism_var \in [Model -> Seq(Definitions)]
      /\ nns \in [Model -> 0..Len(NamFile)] /\ nns[p] \in Nat
      /\ prism_coupler \in [Model -> Seq(CouplerType)]
      /\ namfldsort \in StableSorts(namfldseq) /\ namfldsort \in [Entries -> Entries]
      /\ Len(NamFile) \in Nat
  <2>1. Len(NamFile) \in Nat
    BY SizeFacts
  <2>2. /\ prism_var \in [Model -> Seq(Definitions)] /\ nns \in [Model -> 0..Len(NamFile)]
        /\ prism_coupler \in [Model -> Seq(CouplerType)]
        /\ namfldsort \in StableSorts(namfldseq)
    BY <1>1 DEF TypeOK
  <2>3. namfldsort \in [DOMAIN namfldseq -> DOMAIN namfldseq]
    BY <2>2 DEF StableSorts
  <2>4. DOMAIN namfldseq = Entries
    BY DEF namfldseq
  <2>5. nns[p] \in Nat
    BY <2>1, <2>2
  <2> QED
    BY <2>1, <2>2, <2>3, <2>4, <2>5
<1>3. /\ pc[p] = "match" /\ nns[p] < Len(NamFile)
      /\ UNCHANGED <<namfldsort, todo, pc, prism_var, nc>>
  BY DEF MatchEntry, At
<1>4. n \in Entries
  BY <1>2, <1>3 DEF Entries
<1>5. PICK ms \in InLoopOrder(Matches(p, n)) :
        \/ aborted' = "coupler_setup" /\ UNCHANGED <<nns, prism_coupler>>
        \/ /\ nns' = [nns EXCEPT ![p] = @ + 1]
           /\ prism_coupler' = [prism_coupler EXCEPT ![p] = Added(p, n, ms)]
           /\ UNCHANGED aborted
  BY DEF MatchEntry
<1>6. /\ pc' = pc /\ aborted' \in {"no", "def_var", "coupler_setup"}
      /\ namfldsort' \in StableSorts(namfldseq) /\ prism_var' = prism_var /\ todo' = todo /\ nc' = nc
  BY <1>1, <1>2, <1>3, <1>5 DEF TypeOK
<1>7. CASE UNCHANGED <<nns, prism_coupler>>
  <2>1. TypeOK'
    BY <1>1, <1>6, <1>7 DEF TypeOK
  <2>2. Within'
    BY <1>1, <1>6, <1>7 DEF Within
  <2> QED
    BY <1>1, <1>3, <1>7, <2>1, <2>2, CouplersKept DEF IInv
<1>8. CASE /\ nns' = [nns EXCEPT ![p] = @ + 1]
           /\ prism_coupler' = [prism_coupler EXCEPT ![p] = Added(p, n, ms)]
  <2>1. /\ nns' \in [Model -> 0..Len(NamFile)] /\ nns'[p] = nns[p] + 1
        /\ \A q \in Model \ {p} : nns'[q] = nns[q]
    BY <1>2, <1>3, <1>8
  <2>2. PICK cs \in Seq(CouplerType) : cs = prism_coupler[p]
    BY <1>2
  <2>3. PICK added : added = Added(p, n, ms)
    OBVIOUS
  <2>4. \/ added = cs
        \/ \E c \in CouplerType :
             added = Append(cs, c) /\ CouplerOK(p, c) /\ c.namID = namfldsort[nns[p] + 1]
    <3>1. CASE ms = <<>>
      BY <2>2, <2>3, <3>1 DEF Added
    <3>2. CASE ms # <<>>
      <4>1. CouplerOK(p, Coupler(p, n, ms)) /\ Coupler(p, n, ms).namID = n
        <5> HIDE DEF n
        <5> QED BY <1>2, <1>4, <3>2, CouplerFacts
      <4> QED
        BY <2>2, <2>3, <3>2, <4>1 DEF Added, CouplerOK
    <3> QED
      BY <3>1, <3>2
  <2>5. /\ added \in Seq(CouplerType) /\ Len(cs) \in Nat /\ Len(cs) <= Len(added)
        /\ Len(added) \in Nat
    BY <2>4
  <2>6. /\ prism_coupler' \in [Model -> Seq(CouplerType)] /\ prism_coupler'[p] = added
        /\ \A q \in Model \ {p} : prism_coupler'[q] = prism_coupler[q]
    BY <1>2, <1>8, <2>3, <2>5
  <2>7. TypeOK'
    <3>1. nc \in [Model -> Nat] /\ \A q \in Model : nc[q] \in 1..(Len(prism_coupler[q]) + 1)
      BY <1>1 DEF TypeOK
    <3>2. nc[p] \in 1..(Len(added) + 1)
      BY <2>2, <2>5, <3>1
    <3>3. \A q \in Model : nc'[q] \in 1..(Len(prism_coupler'[q]) + 1)
      BY <1>6, <2>6, <3>1, <3>2
    <3> QED
      BY <1>1, <1>6, <2>1, <2>6, <3>1, <3>3 DEF TypeOK
  <2>8. Within'
    BY <1>1, <1>3, <1>6, <2>6 DEF Within
  <2>9. CouplersOK'
    <3>1. \A i \in DOMAIN cs : CouplerOK(p, cs[i])
      BY <1>1, <2>2 DEF CouplersOK
    <3>2. \A i \in DOMAIN added : CouplerOK(p, added[i])
      BY <2>4, <3>1
    <3>3. \A q \in Model \ {p} : \A i \in DOMAIN prism_coupler'[q] :
            CouplerOK(q, prism_coupler'[q][i])
      BY <1>1, <2>6 DEF CouplersOK
    <3> QED
      BY <2>6, <3>2, <3>3, ZenonT(30) DEF CouplersOK, CouplerOK, CouplerType
  <2>10. InOrder(added, namfldsort, nns[p] + 1)
    <3>1. InOrder(cs, namfldsort, nns[p])
      <4>1. InOrder(prism_coupler[p], namfldsort, nns[p])
        BY <1>1, CouplersInOrder
      <4> QED
        BY <2>2, <4>1
    <3>2. CASE added = cs
      BY <1>2, <3>1, <3>2, InOrderLater
    <3>3. CASE \E c \in CouplerType : added = Append(cs, c) /\ c.namID = namfldsort[nns[p] + 1]
      <4>1. PICK c \in CouplerType : added = Append(cs, c) /\ c.namID = namfldsort[nns[p] + 1]
        BY <3>3
      <4>2. InOrder(Append(cs, c), namfldsort, nns[p] + 1)
        BY <1>2, <3>1, <4>1, InOrderAppend
      <4> QED
        BY <4>1, <4>2
    <3> QED
      BY <2>4, <3>2, <3>3
  <2>11. \A q \in Model : InOrder(prism_coupler'[q], namfldsort', nns'[q])
    <3>1. \A q \in Model : InOrder(prism_coupler[q], namfldsort, nns[q])
      BY <1>1, CouplersInOrder
    <3> QED
      BY <1>3, <2>1, <2>6, <2>10, <3>1
  <2>12. Located' /\ CouplersSorted'
    BY <2>11 DEF InOrder, Located, CouplersSorted
  <2> QED
    BY <2>7, <2>8, <2>9, <2>12 DEF IInv
<1> QED
  BY <1>5, <1>7, <1>8

\* The other steps of a model leave its variables and couplers alone and move on,
\* in the routine or in the router loop.
LEMMA MovesOn ==
  ASSUME IInv, NEW p \in Model, NEW label, NEW k,
         UNCHANGED <<namfldsort, todo, prism_var, nns, prism_coupler, aborted>>,
         label \in {"define", "share", "match", "router", "pars", "segs"},
         k \in 1..(Len(prism_coupler[p]) + 1),
         label \in {"pars", "segs"} => k <= Len(prism_coupler[p]),
         pc' = [pc EXCEPT ![p] = label], nc' = [nc EXCEPT ![p] = k]
  PROVE  IInv'
<1>1. TypeOK /\ Within /\ CouplersOK /\ Located /\ CouplersSorted
  BY DEF IInv
<1>2. /\ pc \in [Model -> {"define", "share", "match", "router", "pars", "segs"}]
      /\ nc \in [Model -> Nat] /\ \A q \in Model : nc[q] \in 1..(Len(prism_coupler[q]) + 1)
      /\ prism_coupler[p] \in Seq(CouplerType)
  BY <1>1 DEF TypeOK
<1>3. k \in Nat
  BY <1>2
<1>4. /\ pc' \in [Model -> {"define", "share", "match", "router", "pars", "segs"}]
      /\ pc'[p] = label /\ \A q \in Model \ {p} : pc'[q] = pc[q]
      /\ nc' \in [Model -> Nat]
      /\ nc'[p] = k /\ \A q \in Model \ {p} : nc'[q] = nc[q]
  BY <1>2, <1>3
<1>5. \A q \in Model : nc'[q] \in 1..(Len(prism_coupler'[q]) + 1)
  BY <1>2, <1>4
<1>6. TypeOK'
  BY <1>1, <1>4, <1>5 DEF TypeOK
<1>7. Within'
  BY <1>1, <1>4 DEF Within
<1> QED
  BY <1>1, <1>6, <1>7, CouplersKept DEF IInv

LEMMA StepInv == ASSUME IInv, NEW p \in Model, Step(p) PROVE IInv'
<1> USE DEF At
<1>1. /\ pc \in [Model -> {"define", "share", "match", "router", "pars", "segs"}]
      /\ nc \in [Model -> Nat] /\ nc[p] \in 1..(Len(prism_coupler[p]) + 1)
      /\ Len(prism_coupler[p]) \in Nat
      /\ pc[p] \in {"pars", "segs"} => nc[p] <= Len(prism_coupler[p])
  <2>1. prism_coupler[p] \in Seq(CouplerType)
    BY DEF IInv, TypeOK
  <2> QED
    BY <2>1 DEF IInv, TypeOK, Within
<1>2. nc = [nc EXCEPT ![p] = nc[p]] /\ pc = [pc EXCEPT ![p] = pc[p]]
  BY <1>1
<1>3. CASE DefVar(p)
  BY <1>3, DefVarInv
<1>4. CASE EndDef(p)
  <2>1. /\ UNCHANGED <<namfldsort, todo, prism_var, nns, prism_coupler, aborted>>
        /\ pc' = [pc EXCEPT ![p] = "share"] /\ nc' = [nc EXCEPT ![p] = nc[p]]
    BY <1>2, <1>4 DEF EndDef
  <2> QED
    BY <1>1, <2>1, MovesOn
<1>5. CASE Share(p)
  <2>1. /\ UNCHANGED <<namfldsort, todo, prism_var, nns, prism_coupler, aborted>>
        /\ pc' = [pc EXCEPT ![p] = "match"] /\ nc' = [nc EXCEPT ![p] = nc[p]]
    BY <1>2, <1>5 DEF Share
  <2> QED
    BY <1>1, <2>1, MovesOn
<1>6. CASE MatchEntry(p)
  BY <1>6, MatchEntryInv
<1>7. CASE EndMatch(p)
  <2>1. /\ UNCHANGED <<namfldsort, todo, prism_var, nns, prism_coupler, aborted>>
        /\ pc' = [pc EXCEPT ![p] = "router"] /\ nc' = [nc EXCEPT ![p] = nc[p]]
    BY <1>2, <1>7 DEF EndMatch
  <2> QED
    BY <1>1, <2>1, MovesOn
<1>8. CASE SkipRouter(p)
  <2>1. /\ UNCHANGED <<namfldsort, todo, prism_var, nns, prism_coupler, aborted>>
        /\ pc' = [pc EXCEPT ![p] = "router"] /\ nc' = [nc EXCEPT ![p] = nc[p] + 1]
        /\ nc[p] <= Len(prism_coupler[p])
    BY <1>2, <1>8 DEF SkipRouter
  <2>2. nc[p] + 1 \in 1..(Len(prism_coupler[p]) + 1)
    BY <1>1, <2>1
  <2> QED
    BY <2>1, <2>2, MovesOn
<1>9. CASE SendPars(p)
  <2>1. /\ UNCHANGED <<namfldsort, todo, prism_var, nns, prism_coupler, aborted>>
        /\ pc' = [pc EXCEPT ![p] = "pars"] /\ nc' = [nc EXCEPT ![p] = nc[p]]
        /\ nc[p] <= Len(prism_coupler[p])
    BY <1>2, <1>9 DEF SendPars
  <2> QED
    BY <1>1, <2>1, MovesOn
<1>10. CASE RecvPars(p)
  <2>1. /\ UNCHANGED <<namfldsort, todo, prism_var, nns, prism_coupler, aborted>>
        /\ pc' = [pc EXCEPT ![p] = "segs"] /\ nc' = [nc EXCEPT ![p] = nc[p]]
        /\ nc[p] <= Len(prism_coupler[p])
    BY <1>1, <1>2, <1>10 DEF RecvPars
  <2> QED
    BY <1>1, <2>1, MovesOn
<1>11. CASE RecvSegs(p)
  <2>1. /\ UNCHANGED <<namfldsort, todo, prism_var, nns, prism_coupler, aborted>>
        /\ pc' = [pc EXCEPT ![p] = "router"] /\ nc' = [nc EXCEPT ![p] = nc[p] + 1]
        /\ nc[p] <= Len(prism_coupler[p])
    BY <1>1, <1>11 DEF RecvSegs
  <2>2. nc[p] + 1 \in 1..(Len(prism_coupler[p]) + 1)
    BY <1>1, <2>1
  <2> QED
    BY <2>1, <2>2, MovesOn
<1> QED
  BY <1>3, <1>4, <1>5, <1>6, <1>7, <1>8, <1>9, <1>10, <1>11 DEF Step

LEMMA NextInv == IInv /\ [Next]_vars => IInv'
<1> SUFFICES ASSUME IInv, [Next]_vars PROVE IInv'
  OBVIOUS
<1>1. CASE Next
  BY <1>1, StepInv DEF Next
<1>2. CASE UNCHANGED vars
  <2>1. TypeOK'
    BY <1>2 DEF IInv, TypeOK, vars
  <2>2. Within'
    BY <1>2 DEF IInv, Within, vars
  <2> QED
    BY <1>2, <2>1, <2>2, CouplersKept DEF IInv, vars
<1> QED
  BY <1>1, <1>2

LEMMA Invariant == Spec => []IInv
BY InitInv, NextInv, PTL DEF Spec

-----------------------------------------------------------------------------
(* The theorems *)

\* The state of every model keeps its type: among it, that prism_var has room for
\* the variables that oasis_def_var adds, and that the router loop stays in
\* prism_coupler.
THEOREM TypeCorrect == Spec => []TypeOK
<1>1. IInv => TypeOK
  BY DEF IInv
<1> QED
  BY <1>1, Invariant, PTL

\* The couplers of each model are those of different entries in the order of the
\* sort, whatever the programs define: not more than the entries looked at, and
\* any two models come to those they share in the same order.
THEOREM Sorted == Spec => []CouplersSorted
<1>1. IInv => CouplersSorted
  BY DEF IInv
<1> QED
  BY <1>1, Invariant, PTL

\* Two ends that found their coupler by themselves have the same tag if and only
\* if they are the two ends of one coupler.
THEOREM TagsMeet == Spec => []TagsIdentify
<1>1. ASSUME IInv PROVE TagsIdentify
  <2>1. SUFFICES ASSUME NEW p \in Model, NEW q \in Model,
                        NEW i \in Exchanging(p), NEW j \in Exchanging(q),
                        prism_coupler[p][i].getput = "put", prism_coupler[q][j].getput = "get"
                 PROVE  prism_coupler[p][i].tag = prism_coupler[q][j].tag <=>
                          /\ prism_coupler[p][i].namID = prism_coupler[q][j].namID
                          /\ prism_coupler[p][i].comp = q /\ prism_coupler[q][j].comp = p
    BY DEF TagsIdentify
  <2>2. PICK a : a = prism_coupler[p][i]
    OBVIOUS
  <2>3. PICK b : b = prism_coupler[q][j]
    OBVIOUS
  <2>4. CouplerOK(p, a) /\ a.sndrcv /\ a.getput = "put"
    BY <1>1, <2>1, <2>2 DEF IInv, CouplersOK, Exchanging
  <2>5. CouplerOK(q, b) /\ b.sndrcv /\ b.getput = "get"
    BY <1>1, <2>1, <2>3 DEF IInv, CouplersOK, Exchanging
  <2>6. a.tag = Tag(a.comp, p, a.namID) /\ b.tag = Tag(q, b.comp, b.namID)
    <3>1. a.tag = Tag(a.comp, p, a.namID)
      BY <2>4 DEF CouplerOK
    <3>2. b.tag = IF b.getput = "put" THEN Tag(b.comp, q, b.namID) ELSE Tag(q, b.comp, b.namID)
      BY <2>5 DEF CouplerOK
    <3>3. b.getput # "put"
      BY <2>5
    <3> QED
      BY <3>1, <3>2, <3>3
  <2>7. /\ \A m \in Model : m \in TagModels
        /\ \A n \in Entries : n \in TagEntries
    <3>1. NModels \in 1..100 /\ Len(NamFile) <= 1000
      BY SetupAssumption
    <3>2. PICK k \in Nat : k = Len(NamFile)
      BY SizeFacts
    <3>3. \A n \in 1..k : n \in 1..1000
      BY <3>1, <3>2
    <3> QED
      BY <3>1, <3>2, <3>3 DEF Model, Entries, TagModels, TagEntries
  <2>8. a.comp \in Model /\ a.namID \in Entries /\ b.comp \in Model /\ b.namID \in Entries
    BY <2>4, <2>5 DEF CouplerOK, CouplerType
  <2>9. /\ a.comp \in TagModels /\ a.namID \in TagEntries
        /\ b.comp \in TagModels /\ b.namID \in TagEntries
        /\ p \in TagModels /\ q \in TagModels
    BY <2>7, <2>8
  <2>10. a.tag = b.tag <=> a.namID = b.namID /\ a.comp = q /\ b.comp = p
    <3>1. ASSUME a.tag = b.tag PROVE a.namID = b.namID /\ a.comp = q /\ b.comp = p
      <4>1. Tag(a.comp, p, a.namID) = Tag(q, b.comp, b.namID)
        BY <2>6, <3>1
      <4> QED
        BY <2>9, <4>1, TagInjective
    <3>2. ASSUME a.namID = b.namID, a.comp = q, b.comp = p PROVE a.tag = b.tag
      BY <2>6, <3>2
    <3> QED
      BY <3>1, <3>2
  <2> QED
    BY <2>2, <2>3, <2>10
<1> QED
  BY <1>1, Invariant, PTL

-----------------------------------------------------------------------------
(* What the two ends of an entry see of each other                         *)

LEMMA IndexIs ==
  ASSUME NEW T, NEW list \in Seq(T), Distinct(list), NEW k \in DOMAIN list
  PROVE  Index(list, list[k]) = k
<1>1. DOMAIN list \subseteq Nat /\ DOMAIN list = 1 .. Len(list) /\ Len(list) \in Nat
  OBVIOUS
<1>2. \A i \in 1 .. (k - 1) : list[i] # list[k]
  BY <1>1 DEF Distinct
<1>3. \A j \in DOMAIN list : list[j] = list[k] => j = k
  BY DEF Distinct
<1> QED BY <1>2, <1>3 DEF Index

\* The names of an entry that communicates.
LEMMA SideFacts ==
  ASSUME NamesPaired, NEW n \in Entries, Communicates(n), NEW o \in {"Out", "In"}
  PROVE  /\ Side(o, n) \in Seq(STRING) /\ OtherSide(o, n) \in Seq(STRING)
         /\ DOMAIN Side(o, n) = DOMAIN OtherSide(o, n)
         /\ Distinct(Side(o, n)) /\ Distinct(OtherSide(o, n))
         /\ \A r \in {"Out", "In"} : r # o => Side(r, n) = OtherSide(o, n)
<1>1. NamFile[n].src \in Seq(STRING) /\ NamFile[n].dst \in Seq(STRING)
  BY SizeFacts
<1>2. /\ Len(NamFile[n].src) = Len(NamFile[n].dst)
      /\ Distinct(NamFile[n].src) /\ Distinct(NamFile[n].dst)
  BY DEF NamesPaired
<1>3. DOMAIN NamFile[n].src = DOMAIN NamFile[n].dst
  BY <1>1, <1>2
<1> QED BY <1>1, <1>2, <1>3 DEF Side, OtherSide

\* A variable that an entry lists has its position in it.
LEMMA PositionIs ==
  ASSUME NamesPaired, NEW n \in Entries, Communicates(n), NEW v, v.ops \in {"Out", "In"},
         InEntry(v, n)
  PROVE  /\ Position(v, n) \in DOMAIN Side(v.ops, n)
         /\ Position(v, n) \in DOMAIN OtherSide(v.ops, n)
         /\ Side(v.ops, n)[Position(v, n)] = v.name
         /\ otfldmatch(v, n) = OtherSide(v.ops, n)[Position(v, n)]
<1>1. PICK k \in DOMAIN Side(v.ops, n) : v.name = Side(v.ops, n)[k]
  BY DEF InEntry, Listed
<1>2. Index(Side(v.ops, n), Side(v.ops, n)[k]) = k
  BY SideFacts, IndexIs
<1>3. Position(v, n) = k
  BY <1>1, <1>2 DEF Position
<1> QED BY <1>1, <1>3, SideFacts DEF otfldmatch, Position

\* Two variables of different directions match from both sides.
LEMMA MatchTurns ==
  ASSUME NamesPaired, VarTypes, NEW n \in Entries, Communicates(n), NEW p \in Model,
         NEW i, NEW q, NEW j, IsMatch(p, n, i, q, j),
         prism_var[p][i].ops # prism_var[q][j].ops
  PROVE  /\ IsMatch(q, n, j, p, i)
         /\ Position(prism_var[p][i], n) = Position(prism_var[q][j], n)
<1> DEFINE v == prism_var[p][i]
           w == prism_var[q][j]
           k == Position(v, n)
<1>1. /\ i \in DOMAIN prism_var[p] /\ q \in Model /\ j \in DOMAIN prism_var[q]
      /\ InEntry(v, n) /\ w.name = otfldmatch(v, n)
  BY DEF IsMatch
<1>2. v.ops \in {"Out", "In"} /\ w.ops \in {"Out", "In"} /\ v.ops # w.ops
  BY <1>1, VarFacts
<1>3. /\ k \in DOMAIN Side(v.ops, n) /\ k \in DOMAIN OtherSide(v.ops, n)
      /\ Side(v.ops, n)[k] = v.name
      /\ otfldmatch(v, n) = OtherSide(v.ops, n)[k]
  <2> HIDE DEF v
  <2> QED BY <1>1, <1>2, PositionIs
<1> HIDE DEF v, w, k
<1>4. /\ Side(w.ops, n) = OtherSide(v.ops, n) /\ Side(v.ops, n) = OtherSide(w.ops, n)
      /\ Side(w.ops, n) \in Seq(STRING) /\ Distinct(Side(w.ops, n))
  BY <1>2, SideFacts
<1>5. Side(w.ops, n)[k] = w.name /\ k \in DOMAIN Side(w.ops, n)
  BY <1>1, <1>3, <1>4
<1>6. InEntry(w, n) 
  BY <1>5 DEF InEntry, Listed
<1>7. Position(w, n) = k
  BY <1>4, <1>5, IndexIs DEF Position
<1>8. otfldmatch(w, n) = OtherSide(w.ops, n)[k]
  BY <1>7 DEF otfldmatch, Position
<1>9. v.name = otfldmatch(w, n)
  BY <1>3, <1>4, <1>8
<1> QED BY <1>1, <1>6, <1>7, <1>9 DEF IsMatch, v, w, k

-----------------------------------------------------------------------------
(* What a model has made of the entries that it has looked at              *)

\* The couplers of model p for entry n are the one for its matches ms.
MadeOf(p, n, ms) ==
  /\ ms \in InLoopOrder(Matches(p, n))
  /\ \A k \in DOMAIN ms : ~ Refused(p, n, ms, k)
  /\ \A i \in DOMAIN prism_coupler[p] : prism_coupler[p][i].namID = n =>
       ms # <<>> /\ prism_coupler[p][i] = Coupler(p, n, ms)
  /\ ms # <<>> => \E i \in DOMAIN prism_coupler[p] : prism_coupler[p][i] = Coupler(p, n, ms)

Made == \A p \in Model : \A a \in 1..nns[p] : \E ms : MadeOf(p, namfldsort[a], ms)

\* No model looks at an entry before all have defined their variables.
Phases ==
  \A p \in Model :
    /\ pc[p] \in {"define", "share"} => nns[p] = 0
    /\ pc[p] \notin {"define", "share"} => \A q \in Model : pc[q] # "define"
    /\ pc[p] \in {"router", "pars", "segs"} => nns[p] = Len(NamFile)

OneVariable == \A p \in Model : \A i, j \in DOMAIN prism_var[p] :
                 prism_var[p][i].name = prism_var[p][j].name => i = j

SetupInv == IInv /\ Phases /\ OneVariable /\ Made

LEMMA MatchesKept ==
  ASSUME prism_var' = prism_var, NEW p, NEW n, NEW ms
  PROVE  /\ Matches(p, n)' = Matches(p, n)
         /\ Coupler(p, n, ms)' = Coupler(p, n, ms)
         /\ \A k : Refused(p, n, ms, k)' <=> Refused(p, n, ms, k)
<1>1. Matches(p, n)' = Matches(p, n)
  BY DEF Matches
<1>2. Coupler(p, n, ms)' = Coupler(p, n, ms)
  BY DEF Coupler
<1>3. \A k : Refused(p, n, ms, k)' <=> Refused(p, n, ms, k)
  BY DEF Refused
<1> QED BY <1>1, <1>2, <1>3

LEMMA MadeKept ==
  ASSUME prism_var' = prism_var, NEW p, prism_coupler'[p] = prism_coupler[p],
         NEW n, NEW ms, MadeOf(p, n, ms)
  PROVE  MadeOf(p, n, ms)'
<1>1. /\ Matches(p, n)' = Matches(p, n)
      /\ Coupler(p, n, ms)' = Coupler(p, n, ms)
      /\ \A k : Refused(p, n, ms, k)' <=> Refused(p, n, ms, k)
  BY MatchesKept
<1>2. InLoopOrder(Matches(p, n))' = InLoopOrder(Matches(p, n))
  BY <1>1 DEF InLoopOrder
<1> QED BY <1>1, <1>2 DEF MadeOf

LEMMA SetupInitInv == Init => SetupInv
<1> SUFFICES ASSUME Init PROVE SetupInv
  OBVIOUS
<1>1. IInv
  BY InitInv
<1>2. /\ prism_var = [p \in Model |-> <<>>] /\ nns = [p \in Model |-> 0]
      /\ pc = [p \in Model |-> "define"]
  BY DEF Init
<1>3. Phases /\ OneVariable
  BY <1>2 DEF Phases, OneVariable
<1>4. Made
  BY <1>2 DEF Made
<1> QED BY <1>1, <1>3, <1>4 DEF SetupInv

LEMMA SetupTypes ==
  ASSUME IInv
  PROVE  /\ VarTypes
         /\ nns \in [Model -> 0..Len(NamFile)] /\ Len(NamFile) \in Nat
         /\ \A p \in Model : nns[p] \in Nat /\ nns[p] <= Len(NamFile)
         /\ prism_coupler \in [Model -> Seq(CouplerType)]
         /\ pc \in [Model -> {"define", "share", "match", "router", "pars", "segs"}]
         /\ namfldsort \in [Entries -> Entries]
         /\ \A a, b \in Entries : namfldsort[a] = namfldsort[b] => a = b
         /\ \A n \in Entries : namfldseq[n] \in Int
<1>1. TypeOK /\ Len(NamFile) \in Nat
  BY SizeFacts DEF IInv
<1>2. /\ VarTypes /\ nns \in [Model -> 0..Len(NamFile)]
      /\ prism_coupler \in [Model -> Seq(CouplerType)]
      /\ pc \in [Model -> {"define", "share", "match", "router", "pars", "segs"}]
      /\ namfldsort \in StableSorts(namfldseq)
  BY <1>1 DEF TypeOK, VarTypes
<1>3. DOMAIN namfldseq = Entries
  BY DEF namfldseq
<1>4. namfldsort \in [Entries -> Entries]
  BY <1>2, <1>3 DEF StableSorts
<1>5. \A n \in Entries : namfldseq[n] \in Int
  <2> DEFINE R == [src : Seq(STRING), dst : Seq(STRING), seq : Int, kind : STRING]
  <2>1. NamFile \in Seq(R) /\ \A r \in R : r.seq \in Int
    BY SetupAssumption
  <2> HIDE DEF R
  <2> QED BY <2>1 DEF Entries, namfldseq
<1>6. ASSUME NEW a \in Entries, NEW b \in Entries, a < b
      PROVE  namfldsort[a] # namfldsort[b]
  <2>1. \/ namfldseq[namfldsort[a]] < namfldseq[namfldsort[b]]
        \/ namfldsort[a] < namfldsort[b]
    BY <1>2, <1>3, <1>6 DEF StableSorts
  <2>2. namfldseq[namfldsort[a]] \in Int /\ namfldsort[a] \in Int
    BY <1>4, <1>5 DEF Entries
  <2> QED BY <2>1, <2>2
<1>7. \A a, b \in Entries : a < b \/ b < a \/ a = b
  BY <1>1 DEF Entries
<1>8. \A a, b \in Entries : namfldsort[a] = namfldsort[b] => a = b
  BY <1>6, <1>7
<1>9. \A p \in Model : nns[p] \in Nat /\ nns[p] <= Len(NamFile)
  BY <1>1, <1>2
<1> QED BY <1>1, <1>2, <1>4, <1>5, <1>8, <1>9

\* A definition is refused when the name is there, and comes before any entry is
\* looked at.
LEMMA DefVarSetup == ASSUME SetupInv, NEW p \in Model, DefVar(p) PROVE SetupInv'
<1> DEFINE v == Head(todo[p])
<1>1. IInv' /\ IInv /\ Phases /\ OneVariable
  BY DefVarInv DEF SetupInv
<1>2. /\ UNCHANGED <<namfldsort, pc, nns, prism_coupler>> /\ pc[p] = "define"
      /\ \/ UNCHANGED prism_var
         \/ /\ ~ \E i \in DOMAIN prism_var[p] : prism_var[p][i].name = v.name
            /\ prism_var' = [prism_var EXCEPT ![p] = Append(@, v)]
  BY DEF DefVar, At
<1>3. Phases'
  BY <1>1, <1>2 DEF Phases
<1>4. \A q \in Model : nns'[q] = 0
  BY <1>1, <1>2 DEF Phases
<1>5. Made'
  BY <1>4 DEF Made
<1>6. OneVariable'
  <2>1. CASE UNCHANGED prism_var
    BY <2>1, <1>1 DEF OneVariable
  <2>2. CASE /\ ~ \E i \in DOMAIN prism_var[p] : prism_var[p][i].name = v.name
             /\ prism_var' = [prism_var EXCEPT ![p] = Append(@, v)]
    <3> HIDE DEF v
    <3>1. prism_var \in [Model -> Seq(Definitions)]
      BY <1>1, SetupTypes DEF VarTypes
    <3>2. PICK s \in Seq(Definitions) : s = prism_var[p]
      BY <3>1
    <3>3. /\ prism_var'[p] = Append(s, v)
          /\ \A q \in Model : q # p => prism_var'[q] = prism_var[q]
      BY <2>2, <3>1, <3>2
    <3>4. /\ Len(s) \in Nat /\ DOMAIN s = 1 .. Len(s)
          /\ DOMAIN Append(s, v) = 1 .. (Len(s) + 1)
          /\ Append(s, v)[Len(s) + 1] = v
          /\ \A i \in DOMAIN s : Append(s, v)[i] = s[i]
      OBVIOUS
    <3>5. \A i \in DOMAIN s : s[i].name # v.name
      BY <2>2, <3>2
    <3>6. \A i, j \in DOMAIN s : s[i].name = s[j].name => i = j
      BY <1>1, <3>2 DEF OneVariable
    <3>7. \A i \in DOMAIN Append(s, v) : i \in DOMAIN s \/ i = Len(s) + 1
      BY <3>4
    <3>8. \A i, j \in DOMAIN Append(s, v) :
            Append(s, v)[i].name = Append(s, v)[j].name => i = j
      BY <3>4, <3>5, <3>6, <3>7
    <3>9. ASSUME NEW q \in Model, NEW i \in DOMAIN prism_var'[q],
                 NEW j \in DOMAIN prism_var'[q],
                 prism_var'[q][i].name = prism_var'[q][j].name
          PROVE  i = j
      <4>1. CASE q = p
        BY <4>1, <3>3, <3>8, <3>9
      <4>2. CASE q # p
        BY <4>2, <3>3, <3>9, <1>1 DEF OneVariable
      <4> QED BY <4>1, <4>2
    <3> QED BY <3>9 DEF OneVariable
  <2> QED BY <1>2, <2>1, <2>2
<1> QED BY <1>1, <1>3, <1>5, <1>6 DEF SetupInv

\* The entry that is looked at is a new one, and gets its coupler.
LEMMA MatchEntrySetup == ASSUME SetupInv, NEW p \in Model, MatchEntry(p) PROVE SetupInv'
<1> DEFINE n == namfldsort[nns[p] + 1]
           S == InLoopOrder(Matches(p, n))
<1>1. IInv' /\ IInv /\ Phases /\ OneVariable /\ Made
  BY MatchEntryInv DEF SetupInv
<1>2. /\ pc[p] = "match" /\ nns[p] < Len(NamFile)
      /\ pc' = pc /\ prism_var' = prism_var /\ namfldsort' = namfldsort
      /\ \E ms \in S :
           IF \E i \in DOMAIN ms : Refused(p, n, ms, i)
           THEN UNCHANGED <<nns, prism_coupler>>
           ELSE /\ nns' = [nns EXCEPT ![p] = @ + 1]
                /\ prism_coupler' = [prism_coupler EXCEPT ![p] = Added(p, n, ms)]
  BY DEF MatchEntry, At
<1>3. OneVariable'
  BY <1>1, <1>2 DEF OneVariable
<1>4. CASE UNCHANGED <<nns, prism_coupler>>
  <2>1. Phases'
    BY <1>1, <1>2, <1>4 DEF Phases
  <2>2. Made'
    <3>1. ASSUME NEW q \in Model, NEW a \in 1..nns'[q]
          PROVE  \E ms : MadeOf(q, namfldsort[a], ms)'
      <4>1. PICK ms : MadeOf(q, namfldsort[a], ms)
        BY <1>1, <1>4, <3>1 DEF Made
      <4>2. PICK e : e = namfldsort[a]
        OBVIOUS
      <4>3. MadeOf(q, e, ms)'
        BY <1>2, <1>4, <4>1, <4>2, MadeKept
      <4> QED BY <1>2, <4>2, <4>3
    <3> QED BY <3>1, <1>2 DEF Made
  <2> QED BY <1>1, <1>3, <2>1, <2>2 DEF SetupInv
<1>5. ASSUME NEW ms \in S, ~ \E i \in DOMAIN ms : Refused(p, n, ms, i),
             nns' = [nns EXCEPT ![p] = @ + 1],
             prism_coupler' = [prism_coupler EXCEPT ![p] = Added(p, n, ms)]
      PROVE  SetupInv'
  <2>1. /\ nns'[p] = nns[p] + 1 /\ \A q \in Model : q # p => nns'[q] = nns[q]
        /\ prism_coupler'[p] = Added(p, n, ms)
        /\ \A q \in Model : q # p => prism_coupler'[q] = prism_coupler[q]
    BY <1>1, <1>5, SetupTypes
  <2>2. Phases'
    BY <1>1, <1>2, <2>1 DEF Phases
  <2>3. PICK cs \in Seq(CouplerType) : cs = prism_coupler[p]
    BY <1>1, SetupTypes
  <2>4. PICK e \in Entries : e = n
    <3>1. nns[p] + 1 \in Entries
      BY <1>1, <1>2, SetupTypes DEF Entries
    <3> QED BY <1>1, <3>1, SetupTypes
  <2>n. e = namfldsort[nns[p] + 1]
    BY <2>4
  <2>5. PICK c : c = Coupler(p, e, ms)
    OBVIOUS
  <2>6. ms # <<>> => c \in CouplerType /\ c.namID = e
    <3> SUFFICES ASSUME ms # <<>> PROVE c \in CouplerType /\ c.namID = e
      OBVIOUS
    <3>1. ms \in InLoopOrder(Matches(p, e)) /\ prism_var \in [Model -> Seq(Definitions)]
      BY <2>4, <1>1, SetupTypes DEF VarTypes
    <3>2. CouplerOK(p, Coupler(p, e, ms)) /\ Coupler(p, e, ms).namID = e
      BY <3>1, CouplerFacts
    <3> QED BY <3>2, <2>5 DEF CouplerOK
  <2>7. /\ ms = <<>> => prism_coupler'[p] = cs
        /\ ms # <<>> => prism_coupler'[p] = Append(cs, c)
    BY <2>1, <2>3, <2>4, <2>5 DEF Added
  <2>8. ASSUME NEW i \in DOMAIN cs
        PROVE  \E b \in 1..nns[p] : cs[i].namID = namfldsort[b]
    BY <1>1, <2>3, <2>8 DEF IInv, Located
  <2>9. ASSUME NEW a \in 1..nns[p] PROVE namfldsort[a] # e
    <3>1. a \in Entries /\ nns[p] + 1 \in Entries /\ a # nns[p] + 1
      BY <1>1, <1>2, SetupTypes DEF Entries
    <3> QED BY <1>1, <2>n, <3>1, SetupTypes
  <2>10. \A i \in DOMAIN cs : cs[i].namID # e
    BY <2>8, <2>9
  <2>11. /\ Len(cs) \in Nat /\ DOMAIN cs = 1 .. Len(cs)
         /\ DOMAIN Append(cs, c) = 1 .. (Len(cs) + 1)
         /\ Append(cs, c)[Len(cs) + 1] = c
         /\ \A i \in DOMAIN cs : Append(cs, c)[i] = cs[i]
    OBVIOUS
  <2>12. MadeOf(p, e, ms)'
    <3>1. /\ Matches(p, e)' = Matches(p, e) /\ Coupler(p, e, ms)' = c
          /\ \A k : Refused(p, e, ms, k)' <=> Refused(p, e, ms, k)
      BY <1>2, <2>5, MatchesKept
    <3>2. InLoopOrder(Matches(p, e))' = InLoopOrder(Matches(p, e))
      BY <3>1 DEF InLoopOrder
    <3>3. ms \in InLoopOrder(Matches(p, e))' /\ \A k \in DOMAIN ms : ~ Refused(p, e, ms, k)'
      BY <1>5, <2>4, <3>1, <3>2
    <3>4. CASE ms = <<>>
      BY <3>3, <3>4, <2>7, <2>10 DEF MadeOf
    <3>5. CASE ms # <<>>
      <4>1. \A i \in DOMAIN prism_coupler'[p] : prism_coupler'[p][i].namID = e =>
              prism_coupler'[p][i] = c
        BY <3>5, <2>7, <2>10, <2>11
      <4>2. \E i \in DOMAIN prism_coupler'[p] : prism_coupler'[p][i] = c
        BY <3>5, <2>7, <2>11
      <4> QED BY <3>1, <3>3, <3>5, <4>1, <4>2 DEF MadeOf
    <3> QED BY <3>4, <3>5
  <2>13. ASSUME NEW d, d # e, NEW ns, MadeOf(p, d, ns) PROVE MadeOf(p, d, ns)'
    <3>1. /\ Matches(p, d)' = Matches(p, d) /\ Coupler(p, d, ns)' = Coupler(p, d, ns)
          /\ \A k : Refused(p, d, ns, k)' <=> Refused(p, d, ns, k)
      BY <1>2, MatchesKept
    <3>2. InLoopOrder(Matches(p, d))' = InLoopOrder(Matches(p, d))
      BY <3>1 DEF InLoopOrder
    <3>3. /\ ns \in InLoopOrder(Matches(p, d))' /\ \A k \in DOMAIN ns : ~ Refused(p, d, ns, k)'
          /\ \A i \in DOMAIN cs : cs[i].namID = d => ns # <<>> /\ cs[i] = Coupler(p, d, ns)
          /\ ns # <<>> => \E i \in DOMAIN cs : cs[i] = Coupler(p, d, ns)
      BY <2>13, <2>3, <3>1, <3>2 DEF MadeOf
    <3>4. CASE ms = <<>>
      BY <3>1, <3>3, <3>4, <2>7 DEF MadeOf
    <3>5. CASE ms # <<>>
      <4>1. \A i \in DOMAIN prism_coupler'[p] : prism_coupler'[p][i].namID = d =>
              i \in DOMAIN cs /\ prism_coupler'[p][i] = cs[i]
        BY <3>5, <2>6, <2>7, <2>11, <2>13
      <4>2. \A i \in DOMAIN cs : i \in DOMAIN prism_coupler'[p] /\ prism_coupler'[p][i] = cs[i]
        BY <3>5, <2>7, <2>11
      <4> QED BY <3>1, <3>3, <4>1, <4>2 DEF MadeOf
    <3> QED BY <3>4, <3>5
  <2>14. ASSUME NEW q \in Model, NEW a \in 1..nns'[q]
         PROVE  \E ns : MadeOf(q, namfldsort[a], ns)'
    <3>1. PICK d : d = namfldsort[a]
      OBVIOUS
    <3>2. CASE q # p
      <4>1. PICK ns : MadeOf(q, d, ns)
        BY <1>1, <2>1, <2>14, <3>1, <3>2 DEF Made
      <4>2. MadeOf(q, d, ns)'
        BY <1>2, <2>1, <3>2, <4>1, MadeKept
      <4> QED BY <1>2, <3>1, <4>2
    <3>3. CASE q = p /\ a \in 1..nns[p]
      <4>1. PICK ns : MadeOf(p, d, ns)
        BY <1>1, <3>1, <3>3 DEF Made
      <4>2. d # e
        BY <2>9, <3>1, <3>3
      <4>3. MadeOf(p, d, ns)'
        BY <2>13, <4>1, <4>2
      <4> QED BY <1>2, <3>1, <3>3, <4>3
    <3>4. CASE q = p /\ a = nns[p] + 1
      <4>1. d = e
        BY <2>n, <3>1, <3>4
      <4> QED BY <1>2, <2>12, <3>1, <3>4, <4>1
    <3>5. nns[p] \in Nat
      BY <1>1, SetupTypes
    <3>6. q # p \/ (q = p /\ a \in 1..nns[p]) \/ (q = p /\ a = nns[p] + 1)
      BY <2>1, <2>14, <3>5
    <3> QED BY <3>2, <3>3, <3>4, <3>6
  <2>15. Made'
    BY <1>2, <2>14 DEF Made
  <2> QED BY <1>1, <1>3, <2>2, <2>15 DEF SetupInv
<1>6. \/ UNCHANGED <<nns, prism_coupler>>
      \/ \E ms \in S : /\ ~ \E i \in DOMAIN ms : Refused(p, n, ms, i)
                       /\ nns' = [nns EXCEPT ![p] = @ + 1]
                       /\ prism_coupler' = [prism_coupler EXCEPT ![p] = Added(p, n, ms)]
  <2> HIDE DEF S, n
  <2> QED BY <1>2
<1> QED BY <1>4, <1>5, <1>6

\* The other steps leave the variables and the couplers alone.
LEMMA MoveSetup ==
  ASSUME SetupInv, IInv', Phases',
         UNCHANGED <<namfldsort, prism_var, nns, prism_coupler>>
  PROVE  SetupInv'
<1>1. OneVariable'
  BY DEF SetupInv, OneVariable
<1>2. ASSUME NEW q \in Model, NEW a \in 1..nns'[q]
      PROVE  \E ms : MadeOf(q, namfldsort[a], ms)'
  <2>1. PICK d : d = namfldsort[a]
    OBVIOUS
  <2>2. PICK ms : MadeOf(q, d, ms)
    BY <1>2, <2>1 DEF SetupInv, Made
  <2>3. MadeOf(q, d, ms)'
    BY <2>2, MadeKept
  <2> QED BY <2>1, <2>3
<1>3. Made'
  BY <1>2 DEF Made
<1> QED BY <1>1, <1>3 DEF SetupInv

LEMMA StepSetup == ASSUME SetupInv, NEW p \in Model, Step(p) PROVE SetupInv'
<1>1. IInv /\ IInv' /\ Phases
  BY StepInv DEF SetupInv
<1>2. pc \in [Model -> {"define", "share", "match", "router", "pars", "segs"}]
  BY <1>1, SetupTypes
<1>3. CASE DefVar(p)
  BY <1>3, DefVarSetup
<1>4. CASE MatchEntry(p)
  BY <1>4, MatchEntrySetup
<1>5. CASE \/ EndDef(p) \/ Share(p) \/ EndMatch(p) \/ SkipRouter(p)
           \/ SendPars(p) \/ RecvPars(p) \/ RecvSegs(p)
  <2>1. UNCHANGED <<namfldsort, prism_var, nns, prism_coupler>>
    BY <1>5 DEF EndDef, Share, EndMatch, SkipRouter, SendPars, RecvPars, RecvSegs
  <2>2. ASSUME EndDef(p) PROVE Phases'
    <3>1. pc[p] = "define" /\ pc' = [pc EXCEPT ![p] = "share"]
      BY <2>2 DEF EndDef, At
    <3> QED BY <3>1, <2>1, <1>1, <1>2 DEF Phases
  <2>3. ASSUME Share(p) PROVE Phases'
    <3>1. /\ pc[p] = "share" /\ \A q \in Model : pc[q] # "define"
          /\ pc' = [pc EXCEPT ![p] = "match"]
      BY <2>3 DEF Share, At
    <3> QED BY <3>1, <2>1, <1>1, <1>2 DEF Phases
  <2>4. ASSUME EndMatch(p) PROVE Phases'
    <3>1. /\ pc[p] = "match" /\ nns[p] = Len(NamFile)
          /\ pc' = [pc EXCEPT ![p] = "router"]
      BY <2>4 DEF EndMatch, At
    <3> QED BY <3>1, <2>1, <1>1, <1>2 DEF Phases
  <2>5. ASSUME SkipRouter(p) \/ SendPars(p) \/ RecvPars(p) \/ RecvSegs(p)
      PROVE  Phases'
    <3>1. /\ pc[p] \in {"router", "pars", "segs"}
          /\ pc' = pc \/ \E l \in {"router", "pars", "segs"} : pc' = [pc EXCEPT ![p] = l]
      BY <2>5 DEF SkipRouter, SendPars, RecvPars, RecvSegs, At
    <3> QED BY <3>1, <2>1, <1>1, <1>2 DEF Phases
  <2>6. Phases'
    BY <1>5, <2>2, <2>3, <2>4, <2>5
  <2> QED BY <1>1, <2>1, <2>6, MoveSetup
<1> QED BY <1>3, <1>4, <1>5 DEF Step

LEMMA NextSetup == SetupInv /\ [Next]_vars => SetupInv'
<1> SUFFICES ASSUME SetupInv, [Next]_vars PROVE SetupInv'
  OBVIOUS
<1>1. CASE Next
  BY <1>1, StepSetup DEF Next
<1>2. CASE UNCHANGED vars
  <2>1. IInv'
    BY NextInv DEF SetupInv
  <2>2. Phases'
    BY <1>2 DEF vars, SetupInv, Phases
  <2> QED BY <1>2, <2>1, <2>2, MoveSetup DEF vars
<1> QED BY <1>1, <1>2

LEMMA SetupInvariant == Spec => []SetupInv
BY NextSetup, SetupInitInv, PTL DEF Spec

-----------------------------------------------------------------------------
(* The two ends                                                            *)

\* An entry that communicates was not refused: each match is of another model and
\* of a variable of the other direction.
LEMMA FairMatch ==
  ASSUME VarTypes, NEW p \in Model, NEW n, Communicates(n), NEW ms, MadeOf(p, n, ms),
         NEW i, NEW q, NEW j, IsMatch(p, n, i, q, j)
  PROVE  q # p /\ prism_var[p][i].ops # prism_var[q][j].ops
<1>1. PICK m \in Matches(p, n) : m = <<i, q, j>>
  BY MatchesAre
<1>2. m[1] = i /\ m[2] = q /\ m[3] = j
  BY <1>1
<1>3. ms \in InLoopOrder(Matches(p, n)) /\ \A k \in DOMAIN ms : ~ Refused(p, n, ms, k)
  BY DEF MadeOf
<1>4. PICK k \in DOMAIN ms : ms[k] = m
  BY <1>3, Enumerates
<1>5. ~ Refused(p, n, ms, k)
  BY <1>3
<1> QED BY <1>2, <1>4, <1>5 DEF Refused

\* All the matches of an entry are with one model, and of one direction.
LEMMA OnePartner ==
  ASSUME NamesPaired, VarTypes, OneHome(prism_var),
         NEW p \in Model, NEW n \in Entries, Communicates(n), NEW ms, MadeOf(p, n, ms),
         NEW i, NEW q, NEW j, IsMatch(p, n, i, q, j),
         NEW i2, NEW q2, NEW j2, IsMatch(p, n, i2, q2, j2)
  PROVE  q2 = q /\ prism_var[p][i2].ops = prism_var[p][i].ops
<1>1. /\ q # p /\ prism_var[p][i].ops # prism_var[q][j].ops
      /\ q2 # p /\ prism_var[p][i2].ops # prism_var[q2][j2].ops
  BY FairMatch
<1>2. /\ i \in DOMAIN prism_var[p] /\ i2 \in DOMAIN prism_var[p]
      /\ q \in Model /\ q2 \in Model
      /\ j \in DOMAIN prism_var[q] /\ j2 \in DOMAIN prism_var[q2]
      /\ InEntry(prism_var[p][i], n) /\ InEntry(prism_var[p][i2], n)
  BY DEF IsMatch
<1>3. IsMatch(q, n, j, p, i) /\ IsMatch(q2, n, j2, p, i2)
  BY <1>1, MatchTurns
<1>4. InEntry(prism_var[q][j], n) /\ InEntry(prism_var[q2][j2], n)
  BY <1>3 DEF IsMatch
<1>5. \A v \in {prism_var[p][i].ops, prism_var[q][j].ops,
                prism_var[p][i2].ops, prism_var[q2][j2].ops} : v \in {"Out", "In"}
  BY <1>2, VarFacts
<1>6. CASE prism_var[p][i2].ops = prism_var[p][i].ops
  <2>1. prism_var[q][j].ops = prism_var[q2][j2].ops
    BY <1>1, <1>5, <1>6
  <2>2. q = q2
    BY <1>2, <1>4, <2>1 DEF OneHome
  <2> QED BY <1>6, <2>2
<1>7. CASE prism_var[p][i2].ops # prism_var[p][i].ops
  <2>1. prism_var[p][i2].ops = prism_var[q][j].ops
    BY <1>1, <1>5, <1>7
  <2>2. p = q
    BY <1>2, <1>4, <2>1 DEF OneHome
  <2> QED BY <1>1, <2>2
<1> QED BY <1>6, <1>7

\* As many from both sides.
LEMMA SameNumber ==
  ASSUME NamesPaired, VarTypes, OneHome(prism_var),
         NEW p \in Model, NEW n \in Entries, Communicates(n), NEW ms, MadeOf(p, n, ms),
         NEW i, NEW q, NEW j, IsMatch(p, n, i, q, j), NEW ns, MadeOf(q, n, ns)
  PROVE  Len(ms) = Len(ns)
<1>1. q \in Model /\ IsMatch(q, n, j, p, i)
  BY FairMatch, MatchTurns DEF IsMatch
<1>2. PICK S, T : S = Matches(p, n) /\ T = Matches(q, n)
  OBVIOUS
<1>3. IsFiniteSet(S) /\ IsFiniteSet(T)
  BY <1>1, <1>2, MatchesFinite
<1> DEFINE f == [m \in S |-> <<m[3], p, m[1]>>]
<1>4. ASSUME NEW m \in S
      PROVE  m = <<m[1], q, m[3]>> /\ <<m[3], p, m[1]>> \in T
  <2>1. m = <<m[1], m[2], m[3]>> /\ IsMatch(p, n, m[1], m[2], m[3])
    BY <1>2, MatchesAre
  <2>2. m[2] = q
    BY <2>1, OnePartner
  <2>3. IsMatch(q, n, m[3], p, m[1])
    BY <2>1, <2>2, FairMatch, MatchTurns
  <2> QED BY <1>1, <1>2, <2>1, <2>2, <2>3, MatchesAre
<1>5. ASSUME NEW m \in T
      PROVE  m = <<m[1], p, m[3]>> /\ <<m[3], q, m[1]>> \in S
  <2>1. m = <<m[1], m[2], m[3]>> /\ IsMatch(q, n, m[1], m[2], m[3])
    BY <1>1, <1>2, MatchesAre
  <2>2. m[2] = p
    BY <1>1, <2>1, OnePartner
  <2>3. IsMatch(p, n, m[3], q, m[1])
    BY <1>1, <2>1, <2>2, FairMatch, MatchTurns
  <2> QED BY <1>2, <2>1, <2>2, <2>3, MatchesAre
<1>6. f \in Bijection(S, T)
  <2>1. f \in [S -> T]
    BY <1>4
  <2>2. ASSUME NEW a \in S, NEW b \in S, f[a] = f[b] PROVE a = b
    <3>1. f[a] = <<a[3], p, a[1]>> /\ f[b] = <<b[3], p, b[1]>>
      OBVIOUS
    <3>2. a[3] = b[3] /\ a[1] = b[1]
      BY <2>2, <3>1
    <3> QED BY <3>2, <1>4
  <2>3. ASSUME NEW t \in T PROVE \E s \in S : f[s] = t
    <3>1. PICK s \in S : s = <<t[3], q, t[1]>>
      BY <1>5
    <3>2. s[3] = t[1] /\ s[1] = t[3]
      BY <3>1
    <3>3. f[s] = <<t[1], p, t[3]>>
      BY <3>2
    <3>4. f[s] = t
      BY <3>3, <1>5
    <3> QED BY <3>4
  <2> HIDE DEF f
  <2> QED BY <2>1, <2>2, <2>3 DEF Bijection, Injection, IsInjective, Surjection
<1>7. Cardinality(S) = Cardinality(T)
  <2>1. ExistsBijection(S, T)
    BY <1>6 DEF ExistsBijection
  <2> QED BY <2>1, <1>3, FS_Bijection
<1>8. ms \in InLoopOrder(Matches(p, n)) /\ ns \in InLoopOrder(Matches(q, n))
  BY DEF MadeOf
<1>9. Len(ms) = Cardinality(S) /\ Len(ns) = Cardinality(T)
  BY <1>1, <1>2, <1>8, Enumerates
<1> QED BY <1>7, <1>9

\* Every entry is in the sort.
LEMMA SortHasAll ==
  ASSUME IInv, NEW n \in Entries
  PROVE  \E a \in Entries : namfldsort[a] = n
<1>1. /\ namfldsort \in [Entries -> Entries] /\ Len(NamFile) \in Nat
      /\ \A a, b \in Entries : namfldsort[a] = namfldsort[b] => a = b
  BY SetupTypes
<1>2. IsFiniteSet(Entries)
  BY <1>1, FS_Interval DEF Entries
<1>3. namfldsort \in Injection(Entries, Entries)
  BY <1>1 DEF Injection, IsInjective
<1>4. namfldsort \in Surjection(Entries, Entries)
  BY <1>2, <1>3, FS_Injection
<1> QED BY <1>4 DEF Surjection

\* A coupler with another model is that of the matches of its entry, among them
\* the variable i of the model and j of the other one.
MadeFrom(p, c, n, ms, i, j) ==
  /\ n \in Entries /\ Communicates(n) /\ c.namID = n /\ MadeOf(p, n, ms)
  /\ IsMatch(p, n, i, c.comp, j) /\ c.comp \in Model /\ c.comp # p
  /\ c.getput = IF prism_var[p][i].ops = "Out" THEN "put" ELSE "get"
  /\ c.tag = EndTag(p, c.comp, n, prism_var[p][i].ops)
  /\ c.fldlist = [k \in DOMAIN ms |-> prism_var[p][ms[k][1]].name]
  /\ Len(c.fldlist) = Len(ms)

LEMMA CouplerOfMatches ==
  ASSUME VarTypes, NEW p \in Model, NEW n \in Entries, Communicates(n),
         NEW ms, ms # <<>>, MadeOf(p, n, ms)
  PROVE  \E i, j : MadeFrom(p, Coupler(p, n, ms), n, ms, i, j)
<1>1. ms \in InLoopOrder(Matches(p, n))
  BY DEF MadeOf
<1>2. ms[Len(ms)] \in Matches(p, n) /\ Len(ms) \in DOMAIN ms
  BY <1>1, LastMatch DEF VarTypes
<1>3. PICK m \in Matches(p, n) : m = ms[Len(ms)]
  BY <1>2
<1>4. IsMatch(p, n, m[1], m[2], m[3])
  BY MatchesAre
<1>5. m[2] # p /\ m[2] \in Model
  BY <1>4, FairMatch DEF IsMatch
<1>6. PICK c : c = Coupler(p, n, ms)
  OBVIOUS
<1>7. /\ c.namID = n /\ c.comp = m[2]
      /\ c.getput = IF prism_var[p][m[1]].ops = "Out" THEN "put" ELSE "get"
      /\ c.tag = EndTag(p, m[2], n, prism_var[p][m[1]].ops)
      /\ c.fldlist = [k \in DOMAIN ms |-> prism_var[p][ms[k][1]].name]
  BY <1>3, <1>6 DEF Coupler, GetPut
<1>8. DOMAIN ms = 1..Len(ms) /\ Len(ms) \in Nat
  BY <1>1, Enumerates
<1>9. Len(c.fldlist) = Len(ms)
  BY <1>7, <1>8
<1> QED BY <1>4, <1>5, <1>6, <1>7, <1>9 DEF MadeFrom

LEMMA ExchangeFacts ==
  ASSUME SetupInv, NEW p \in Model, NEW x \in Exchanging(p)
  PROVE  \E a \in 1..nns[p] : \E ms, i, j :
           MadeFrom(p, prism_coupler[p][x], namfldsort[a], ms, i, j)
<1>1. PICK c : c = prism_coupler[p][x]
  OBVIOUS
<1>2. IInv /\ VarTypes /\ Made
  BY SetupTypes DEF SetupInv
<1>3. x \in DOMAIN prism_coupler[p] /\ c.sndrcv
  BY <1>1 DEF Exchanging
<1>4. PICK a \in 1..nns[p] : c.namID = namfldsort[a]
  BY <1>1, <1>2, <1>3 DEF IInv, Located
<1>5. PICK n : n = namfldsort[a]
  OBVIOUS
<1>6. PICK ms : MadeOf(p, n, ms)
  BY <1>2, <1>5 DEF Made
<1>7. n \in Entries
  <2>1. a \in Entries
    BY <1>2, SetupTypes DEF Entries
  <2> QED BY <2>1, <1>2, <1>5, SetupTypes
<1>8. ms # <<>> /\ c = Coupler(p, n, ms)
  BY <1>1, <1>3, <1>4, <1>5, <1>6 DEF MadeOf
<1>9. Communicates(n)
  BY <1>3, <1>8 DEF Coupler
<1>10. \E i, j : MadeFrom(p, c, n, ms, i, j)
  BY <1>2, <1>6, <1>7, <1>8, <1>9, CouplerOfMatches
<1> QED BY <1>1, <1>5, <1>10

\* The coupler b of the model q is the other end of the coupler a of p.
OtherEnd(p, a, q, b) ==
  /\ q = a.comp
  /\ b.namID = a.namID /\ b.comp = p /\ b.tag = a.tag
  /\ b.getput = Opposite(a.getput)
  /\ Len(b.fldlist) = Len(a.fldlist)

LEMMA EndMeets ==
  ASSUME SetupInv, NamesPaired, OneHome(prism_var), NEW p \in Model, NEW x \in Exchanging(p),
         NEW q \in Model, q = prism_coupler[p][x].comp, nns[q] = Len(NamFile)
  PROVE  \E y \in Exchanging(q) : OtherEnd(p, prism_coupler[p][x], q, prism_coupler[q][y])
<1>1. PICK c : c = prism_coupler[p][x]
  OBVIOUS
<1>2. IInv /\ VarTypes /\ Made
  BY SetupTypes DEF SetupInv
<1>3. PICK a \in 1..nns[p] : \E ms, i, j : MadeFrom(p, c, namfldsort[a], ms, i, j)
  BY <1>1, ExchangeFacts
<1>4. PICK n : n = namfldsort[a]
  OBVIOUS
<1>5. PICK ms, i, j : MadeFrom(p, c, n, ms, i, j)
  BY <1>3, <1>4
<1>6. PICK ns : MadeOf(q, n, ns)
  <2>1. a \in 1..nns[q]
    BY <1>2, SetupTypes
  <2> QED BY <1>2, <1>4, <2>1 DEF Made
<1>7. /\ n \in Entries /\ Communicates(n) /\ MadeOf(p, n, ms) /\ IsMatch(p, n, i, q, j)
      /\ q # p
  BY <1>1, <1>5 DEF MadeFrom
<1>8. prism_var[p][i].ops # prism_var[q][j].ops
  BY <1>2, <1>7, FairMatch
<1>9. IsMatch(q, n, j, p, i)
  BY <1>2, <1>7, <1>8, MatchTurns
<1>10. ns # <<>>
  <2>1. ns \in InLoopOrder(Matches(q, n)) /\ <<j, p, i>> \in Matches(q, n)
    BY <1>6, <1>9, MatchesAre DEF MadeOf
  <2>2. \E k \in DOMAIN ns : ns[k] = <<j, p, i>>
    BY <1>2, <2>1, Enumerates
  <2> QED BY <2>2
<1>11. PICK y \in DOMAIN prism_coupler[q] : prism_coupler[q][y] = Coupler(q, n, ns)
  BY <1>6, <1>10 DEF MadeOf
<1>12. PICK b : b = prism_coupler[q][y]
  OBVIOUS
<1>13. PICK i2, j2 : MadeFrom(q, b, n, ns, i2, j2)
  BY <1>2, <1>6, <1>7, <1>10, <1>11, <1>12, CouplerOfMatches
<1>14. b.sndrcv
  <2>1. Coupler(q, n, ns).sndrcv = Communicates(n)
    BY DEF Coupler
  <2> QED BY <1>7, <1>11, <1>12, <2>1
<1>15. IsMatch(q, n, i2, b.comp, j2)
  BY <1>13 DEF MadeFrom
<1>16. b.comp = p /\ prism_var[q][i2].ops = prism_var[q][j].ops
  BY <1>2, <1>6, <1>7, <1>9, <1>15, OnePartner
<1>17. Len(ms) = Len(ns)
  BY <1>2, <1>6, <1>7, SameNumber
<1>18. prism_var[p][i].ops \in {"Out", "In"} /\ prism_var[q][j].ops \in {"Out", "In"}
  BY <1>2, <1>7, <1>9, VarFacts DEF IsMatch
<1>19. /\ c.namID = n /\ b.namID = n /\ Len(c.fldlist) = Len(b.fldlist)
       /\ c.getput = IF prism_var[p][i].ops = "Out" THEN "put" ELSE "get"
       /\ b.getput = IF prism_var[q][j].ops = "Out" THEN "put" ELSE "get"
       /\ c.tag = EndTag(p, q, n, prism_var[p][i].ops)
       /\ b.tag = EndTag(q, p, n, prism_var[q][j].ops)
  BY <1>1, <1>5, <1>13, <1>16, <1>17 DEF MadeFrom
<1>20. c.tag = b.tag
  BY <1>8, <1>18, <1>19 DEF EndTag
<1>21. b.getput = Opposite(c.getput)
  BY <1>8, <1>18, <1>19 DEF Opposite
<1>22. y \in Exchanging(q)
  BY <1>12, <1>14 DEF Exchanging
<1> QED BY <1>1, <1>12, <1>16, <1>19, <1>20, <1>21, <1>22 DEF OtherEnd

\* Whatever the models define, and in whatever order, an end of a coupler finds the
\* other end where it looks for it, as long as names are not used twice and the
\* variables of each side of an entry are those of one model.
THEOREM EndsMeet == NamesPaired => (Spec => [](OneHome(prism_var) => EndsAgree))
<1> SUFFICES ASSUME NamesPaired PROVE Spec => [](OneHome(prism_var) => EndsAgree)
  OBVIOUS
<1>1. ASSUME SetupInv, OneHome(prism_var) PROVE EndsAgree
  <2>1. SUFFICES ASSUME SetUp \/ (\A p \in Model : pc[p] \in {"router", "pars", "segs"}),
                        NEW p \in Model, NEW i \in Exchanging(p)
                 PROVE  \E j \in Exchanging(prism_coupler[p][i].comp) :
                          OtherEnd(p, prism_coupler[p][i], prism_coupler[p][i].comp,
                                   prism_coupler[prism_coupler[p][i].comp][j])
    BY DEF EndsAgree, OtherEnd
  <2>2. \A q \in Model : pc[q] \in {"router", "pars", "segs"}
    BY <2>1 DEF SetUp, Ready
  <2>3. \A q \in Model : nns[q] = Len(NamFile)
    BY <1>1, <2>2 DEF SetupInv, Phases
  <2>4. prism_coupler[p][i].comp \in Model
    BY <1>1, <2>1, ExchangeFacts DEF MadeFrom
  <2> QED BY <1>1, <2>1, <2>3, <2>4, EndMeets
<1>2. SetupInv => (OneHome(prism_var) => EndsAgree)
  BY <1>1
<1> QED BY <1>2, SetupInvariant, PTL

\* A setup that goes through has found no variable that is to be sent to its own
\* model, or to one that is sent as well.
THEOREM FaultsAreCaught == NamesPaired => (Spec => []FaultsCaught)
<1> SUFFICES ASSUME NamesPaired PROVE Spec => []FaultsCaught
  OBVIOUS
<1>1. ASSUME SetupInv PROVE FaultsCaught
  <2>1. SUFFICES ASSUME SetUp, NEW n \in Entries, Communicates(n),
                        NEW k \in DOMAIN NamFile[n].src, NEW p \in Model, NEW q \in Model,
                        NEW i \in DOMAIN prism_var[p], NEW j \in DOMAIN prism_var[q],
                        prism_var[p][i].name = NamFile[n].src[k],
                        prism_var[q][j].name = NamFile[n].dst[k],
                        prism_var[p][i].ops = "Out"
                 PROVE  prism_var[q][j].ops = "In" /\ p # q
    BY DEF FaultsCaught
  <2>2. IInv /\ VarTypes /\ Made /\ Phases
    BY <1>1, SetupTypes DEF SetupInv
  <2>3. PICK v : v = prism_var[p][i]
    OBVIOUS
  <2>4. InEntry(v, n)
    BY <2>1, <2>3 DEF InEntry, Listed, Side
  <2>5. Index(NamFile[n].src, NamFile[n].src[k]) = k
    <3>1. NamFile[n].src \in Seq(STRING) /\ Distinct(NamFile[n].src)
      BY <1>1, <2>1, SizeFacts DEF NamesPaired
    <3> QED BY <2>1, <3>1, IndexIs
  <2>6. otfldmatch(v, n) = NamFile[n].dst[k]
    BY <2>1, <2>3, <2>5 DEF otfldmatch, Side, OtherSide
  <2>7. IsMatch(p, n, i, q, j)
    BY <2>1, <2>3, <2>4, <2>6 DEF IsMatch
  <2>8. nns[p] = Len(NamFile)
    BY <2>1, <2>2 DEF SetUp, Ready, Phases
  <2>9. PICK a \in Entries : namfldsort[a] = n
    BY <2>1, <2>2, SortHasAll
  <2>10. PICK ms : MadeOf(p, n, ms)
    BY <2>2, <2>8, <2>9 DEF Made, Entries
  <2>11. p # q /\ prism_var[p][i].ops # prism_var[q][j].ops
    BY <2>1, <2>2, <2>7, <2>10, FairMatch
  <2> QED BY <2>1, <2>2, <2>11, VarFacts
<1>2. SetupInv => FaultsCaught
  BY <1>1
<1> QED BY <1>2, SetupInvariant, PTL

\* Only the two ends of one coupler have the same tag.
LEMMA EndsInjective ==
  ASSUME NEW p \in Model, NEW q \in Model, NEW r \in Model, q # p, r # q,
         NEW n \in Entries, NEW n2 \in Entries, NEW o, NEW o2,
         EndTag(p, q, n, o) = EndTag(q, r, n2, o2)
  PROVE  n = n2 /\ p = r
<1>1. NModels \in 1..100 /\ Len(NamFile) <= 1000 /\ Len(NamFile) \in Nat
  BY SetupAssumption, SizeFacts
<1>2. n \in TagEntries /\ n2 \in TagEntries
  BY <1>1 DEF Entries, TagEntries
<1>3. p \in TagModels /\ q \in TagModels /\ r \in TagModels
  BY <1>1 DEF Model, TagModels
<1>4. EndTag(p, q, n, o) \in {Tag(q, p, n), Tag(p, q, n)}
  BY DEF EndTag
<1>5. EndTag(q, r, n2, o2) \in {Tag(r, q, n2), Tag(q, r, n2)}
  BY DEF EndTag
<1>6. CASE Tag(q, p, n) = Tag(r, q, n2)
  BY <1>2, <1>3, <1>6, TagInjective
<1>7. CASE Tag(q, p, n) = Tag(q, r, n2)
  BY <1>2, <1>3, <1>7, TagInjective
<1>8. CASE Tag(p, q, n) = Tag(r, q, n2)
  BY <1>2, <1>3, <1>8, TagInjective
<1>9. CASE Tag(p, q, n) = Tag(q, r, n2)
  BY <1>2, <1>3, <1>9, TagInjective
<1> QED BY <1>4, <1>5, <1>6, <1>7, <1>8, <1>9

\* There is one order of the loops.
LEMMA OneOrder ==
  ASSUME VarTypes, NEW p \in Model, NEW n,
         NEW f \in InLoopOrder(Matches(p, n)), NEW g \in InLoopOrder(Matches(p, n))
  PROVE  f = g
<1>1. PICK S : S = Matches(p, n)
  OBVIOUS
<1>2. \A m \in S : m[1] \in Nat /\ m[2] \in Nat /\ m[3] \in Nat
  BY <1>1, MatchesFinite
<1>3. PICK c \in Nat : c = Cardinality(S)
  BY <1>1, MatchesFinite
<1>4. f \in [1..c -> S] /\ g \in [1..c -> S]
  BY <1>1, <1>3 DEF InLoopOrder
<1>5. /\ \A m \in S : (\E k \in 1..c : f[k] = m) /\ (\E k \in 1..c : g[k] = m)
      /\ \A k, l \in 1..c : k < l => Before(f[k], f[l]) /\ Before(g[k], g[l])
  <2>1. DOMAIN f = 1..c /\ DOMAIN g = 1..c
    BY <1>4
  <2>2. /\ \A m \in S : \E k \in DOMAIN f : f[k] = m
        /\ \A k, l \in DOMAIN f : k < l => Before(f[k], f[l])
    BY <1>1, Enumerates
  <2>3. /\ \A m \in S : \E k \in DOMAIN g : g[k] = m
        /\ \A k, l \in DOMAIN g : k < l => Before(g[k], g[l])
    BY <1>1, Enumerates
  <2> QED BY <2>1, <2>2, <2>3
<1>6. \A a, b \in S : ~ (Before(a, b) /\ Before(b, a)) /\ ~ Before(a, a)
  BY <1>2 DEF Before
<1> DEFINE T == {k \in 1..c : f[k] # g[k]}
<1>7. ASSUME T # {} PROVE FALSE
  <2>1. PICK x \in T : \A y \in T : x <= y
    <3> T \subseteq Nat
      OBVIOUS
    <3> HIDE DEF T
    <3> QED BY <1>7, LeastNumber
  <2>2. x \in 1..c /\ f[x] # g[x] /\ f[x] \in S /\ g[x] \in S
    BY <1>4
  <2>3. \A y \in 1..c : y < x => f[y] = g[y]
    BY <2>1, <2>2
  <2>4. PICK y \in 1..c : g[y] = f[x]
    BY <1>5, <2>2
  <2>5. PICK z \in 1..c : f[z] = g[x]
    BY <1>5, <2>2
  <2>6. ~ (y < x) /\ ~ (z < x)
    BY <1>5, <1>6, <2>2, <2>3, <2>4, <2>5
  <2>7. x < y /\ x < z
    BY <2>2, <2>4, <2>5, <2>6
  <2>8. Before(g[x], f[x]) /\ Before(f[x], g[x])
    BY <1>5, <2>2, <2>4, <2>5, <2>7
  <2> QED BY <1>6, <2>2, <2>8
<1>8. \A k \in 1..c : f[k] = g[k]
  BY <1>7
<1> QED BY <1>4, <1>8

\* Two models that define their variables in the same order have the fields of an
\* entry in the same order: turned round, the matches of one are those of the other.
LEMMA FieldsMeet ==
  ASSUME NamesPaired, VarTypes, OneHome(prism_var), SameOrder(prism_var), OneVariable,
         NEW p \in Model, NEW n \in Entries, Communicates(n), NEW ms, MadeOf(p, n, ms),
         NEW i, NEW q, NEW j, IsMatch(p, n, i, q, j), NEW ns, MadeOf(q, n, ns)
  PROVE  /\ DOMAIN ms = DOMAIN ns
         /\ \A k \in DOMAIN ms : /\ prism_var[p][ms[k][1]].ops = prism_var[p][i].ops
                                 /\ Position(prism_var[p][ms[k][1]], n)
                                      = Position(prism_var[q][ns[k][1]], n)
<1> DEFINE t == [k \in DOMAIN ms |-> <<ms[k][3], p, ms[k][1]>>]
<1>1. ms \in InLoopOrder(Matches(p, n)) /\ ns \in InLoopOrder(Matches(q, n))
  BY DEF MadeOf
<1>2. q \in Model /\ q # p /\ IsMatch(q, n, j, p, i)
  BY FairMatch, MatchTurns DEF IsMatch
<1>3. /\ Len(ms) = Len(ns) /\ Len(ms) \in Nat
      /\ DOMAIN ms = 1..Len(ms) /\ DOMAIN ns = 1..Len(ns)
      /\ Len(ns) = Cardinality(Matches(q, n))
      /\ \A k \in DOMAIN ms : ms[k] \in Matches(p, n)
      /\ \A k, l \in DOMAIN ms : k < l => Before(ms[k], ms[l])
  BY <1>1, <1>2, SameNumber, Enumerates
<1>4. ASSUME NEW k \in DOMAIN ms
      PROVE  /\ IsMatch(p, n, ms[k][1], q, ms[k][3]) /\ ms[k][2] = q
             /\ IsMatch(q, n, ms[k][3], p, ms[k][1])
             /\ prism_var[p][ms[k][1]].ops = prism_var[p][i].ops
             /\ Position(prism_var[p][ms[k][1]], n) = Position(prism_var[q][ms[k][3]], n)
  <2>1. PICK m \in Matches(p, n) : m = ms[k]
    BY <1>3
  <2>2. IsMatch(p, n, m[1], m[2], m[3])
    BY MatchesAre
  <2>3. m[2] = q /\ prism_var[p][m[1]].ops = prism_var[p][i].ops
    BY <2>2, OnePartner
  <2>4. IsMatch(p, n, m[1], q, m[3])
    BY <2>2, <2>3
  <2>5. prism_var[p][m[1]].ops # prism_var[q][m[3]].ops
    BY <2>4, FairMatch
  <2>6. /\ IsMatch(q, n, m[3], p, m[1])
        /\ Position(prism_var[p][m[1]], n) = Position(prism_var[q][m[3]], n)
    BY <2>4, <2>5, MatchTurns
  <2> QED BY <2>1, <2>3, <2>4, <2>6
<1>5. ASSUME NEW k \in DOMAIN ms, NEW l \in DOMAIN ms, k < l
      PROVE  Before(t[k], t[l])
  <2>1. /\ IsMatch(p, n, ms[k][1], q, ms[k][3]) /\ ms[k][2] = q
        /\ IsMatch(q, n, ms[k][3], p, ms[k][1])
        /\ Position(prism_var[p][ms[k][1]], n) = Position(prism_var[q][ms[k][3]], n)
    BY <1>4
  <2>2. /\ IsMatch(p, n, ms[l][1], q, ms[l][3]) /\ ms[l][2] = q
        /\ IsMatch(q, n, ms[l][3], p, ms[l][1])
        /\ Position(prism_var[p][ms[l][1]], n) = Position(prism_var[q][ms[l][3]], n)
    BY <1>4
  <2>3. PICK a, b, c, d : a = ms[k][1] /\ b = ms[l][1] /\ c = ms[k][3] /\ d = ms[l][3]
    OBVIOUS
  <2>4. /\ a \in DOMAIN prism_var[p] /\ b \in DOMAIN prism_var[p]
        /\ c \in DOMAIN prism_var[q] /\ d \in DOMAIN prism_var[q]
        /\ InEntry(prism_var[p][a], n) /\ InEntry(prism_var[p][b], n)
        /\ InEntry(prism_var[q][c], n) /\ InEntry(prism_var[q][d], n)
        /\ prism_var[q][c].name = otfldmatch(prism_var[p][a], n)
        /\ prism_var[q][d].name = otfldmatch(prism_var[p][b], n)
        /\ Position(prism_var[p][a], n) = Position(prism_var[q][c], n)
        /\ Position(prism_var[p][b], n) = Position(prism_var[q][d], n)
    BY <2>1, <2>2, <2>3 DEF IsMatch
  <2>5. a \in Nat /\ b \in Nat /\ c \in Nat /\ d \in Nat
    BY <1>2, <2>4, VarFacts
  <2>6. a < b \/ (a = b /\ c < d)
    <3>1. Before(ms[k], ms[l]) /\ q \in Nat
      BY <1>2, <1>3, <1>5, SizeFacts DEF Model
    <3> QED BY <2>1, <2>2, <2>3, <3>1 DEF Before
  <2>7. a # b
    <3>1. ASSUME a = b PROVE FALSE
      <4>1. c = d
        BY <1>2, <2>4, <3>1 DEF OneVariable
      <4> QED BY <2>5, <2>6, <3>1, <4>1
    <3> QED BY <3>1
  <2>8. a < b
    BY <2>6, <2>7
  <2>9. \A v \in {prism_var[p][a], prism_var[p][b], prism_var[q][c], prism_var[q][d]} :
          InEntry(v, n)
    BY <2>4
  <2>10. c < d
    BY <1>2, <2>4, <2>8, <2>9 DEF SameOrder
  <2>11. t[k] = <<c, p, a>> /\ t[l] = <<d, p, b>>
    BY <2>3
  <2> QED BY <2>10, <2>11 DEF Before
<1>6. t \in InLoopOrder(Matches(q, n))
  <2>1. ASSUME NEW k \in DOMAIN ms PROVE <<ms[k][3], p, ms[k][1]>> \in Matches(q, n)
    BY <1>2, <1>4, MatchesAre
  <2>2. t \in [1..Cardinality(Matches(q, n)) -> Matches(q, n)]
    BY <1>3, <2>1
  <2>3. \A k, l \in DOMAIN t : k < l => Before(t[k], t[l])
    BY <1>5
  <2> HIDE DEF t
  <2> QED BY <2>2, <2>3 DEF InLoopOrder
<1>7. t = ns
  <2> HIDE DEF t
  <2> QED BY <1>1, <1>2, <1>6, OneOrder
<1>8. \A k \in DOMAIN ms : ns[k][1] = ms[k][3]
  BY <1>7
<1> QED BY <1>3, <1>4, <1>8

\* The value of a field arrives in the field that the namcouple names, when the
\* two models define the fields of an entry in the same order.
THEOREM FieldsMeetTheirs ==
  NamesPaired => (Spec => [](OneHome(prism_var) /\ SameOrder(prism_var) => FieldsPaired))
<1> SUFFICES ASSUME NamesPaired
             PROVE  Spec => [](OneHome(prism_var) /\ SameOrder(prism_var) => FieldsPaired)
  OBVIOUS
<1>1. ASSUME SetupInv, OneHome(prism_var), SameOrder(prism_var) PROVE FieldsPaired
  <2>1. SUFFICES ASSUME NEW p \in Model, NEW x \in Exchanging(p),
                        NEW y \in Exchanging(prism_coupler[p][x].comp),
                        prism_coupler[p][x].tag = prism_coupler[prism_coupler[p][x].comp][y].tag
                 PROVE  Positions(prism_coupler[p][x])
                          = Positions(prism_coupler[prism_coupler[p][x].comp][y])
    BY DEF FieldsPaired
  <2>2. IInv /\ VarTypes /\ OneVariable
    BY <1>1, SetupTypes DEF SetupInv
  <2>3. PICK a : a = prism_coupler[p][x]
    OBVIOUS
  <2>4. PICK q : q = a.comp
    OBVIOUS
  <2>5. PICK b : b = prism_coupler[q][y]
    OBVIOUS
  <2>6. \E n, ms, i, j : MadeFrom(p, a, n, ms, i, j)
    BY <1>1, <2>3, ExchangeFacts
  <2>7. PICK n, ms, i, j : MadeFrom(p, a, n, ms, i, j)
    BY <2>6
  <2>8. /\ n \in Entries /\ Communicates(n) /\ MadeOf(p, n, ms) /\ IsMatch(p, n, i, q, j)
        /\ q \in Model /\ q # p /\ a.namID = n
        /\ a.getput = IF prism_var[p][i].ops = "Out" THEN "put" ELSE "get"
        /\ a.tag = EndTag(p, q, n, prism_var[p][i].ops)
        /\ a.fldlist = [k \in DOMAIN ms |-> prism_var[p][ms[k][1]].name]
    BY <2>4, <2>7 DEF MadeFrom
  <2>9. \E n2, ns, i2, j2 : MadeFrom(q, b, n2, ns, i2, j2)
    BY <1>1, <2>1, <2>3, <2>4, <2>5, <2>8, ExchangeFacts
  <2>10. PICK n2, ns, i2, j2 : MadeFrom(q, b, n2, ns, i2, j2)
    BY <2>9
  <2>11. PICK r : r = b.comp
    OBVIOUS
  <2>12. /\ n2 \in Entries /\ MadeOf(q, n2, ns) /\ IsMatch(q, n2, i2, r, j2)
         /\ r \in Model /\ r # q /\ b.namID = n2
         /\ b.getput = IF prism_var[q][i2].ops = "Out" THEN "put" ELSE "get"
         /\ b.tag = EndTag(q, r, n2, prism_var[q][i2].ops)
         /\ b.fldlist = [k \in DOMAIN ns |-> prism_var[q][ns[k][1]].name]
    BY <2>10, <2>11 DEF MadeFrom
  <2>13. EndTag(p, q, n, prism_var[p][i].ops) = EndTag(q, r, n2, prism_var[q][i2].ops)
    BY <2>1, <2>3, <2>4, <2>5, <2>8, <2>12
  <2>14. n = n2 /\ p = r
    BY <2>8, <2>12, <2>13, EndsInjective
  <2>15. IsMatch(q, n, i2, p, j2) /\ MadeOf(q, n, ns)
    BY <2>12, <2>14
  <2>16. /\ DOMAIN ms = DOMAIN ns
         /\ \A k \in DOMAIN ms : /\ prism_var[p][ms[k][1]].ops = prism_var[p][i].ops
                                 /\ Position(prism_var[p][ms[k][1]], n)
                                      = Position(prism_var[q][ns[k][1]], n)
    BY <1>1, <2>2, <2>8, <2>15, FieldsMeet
  <2>17. \A k \in DOMAIN ns : prism_var[q][ns[k][1]].ops = prism_var[q][i2].ops
    BY <1>1, <2>2, <2>8, <2>15, FieldsMeet
  <2>18. Positions(a) = [k \in DOMAIN ms |-> Position(prism_var[p][ms[k][1]], n)]
    <3>1. prism_var[p][i].ops \in {"Out", "In"}
      BY <2>2, <2>8, VarFacts DEF IsMatch
    <3>2. prism_var[p][i].ops = IF a.getput = "put" THEN "Out" ELSE "In"
      BY <2>8, <3>1
    <3> QED BY <2>8, <2>16, <3>2 DEF Positions, Position
  <2>19. Positions(b) = [k \in DOMAIN ns |-> Position(prism_var[q][ns[k][1]], n)]
    <3>1. prism_var[q][i2].ops \in {"Out", "In"}
      BY <2>2, <2>8, <2>15, VarFacts DEF IsMatch
    <3>2. prism_var[q][i2].ops = IF b.getput = "put" THEN "Out" ELSE "In"
      BY <2>12, <3>1
    <3> QED BY <2>12, <2>14, <2>17, <3>2 DEF Positions, Position
  <2>20. Positions(a) = Positions(b)
    BY <2>16, <2>18, <2>19
  <2> QED BY <2>3, <2>4, <2>5, <2>20
<1>2. SetupInv => (OneHome(prism_var) /\ SameOrder(prism_var) => FieldsPaired)
  BY <1>1
<1> QED BY <1>2, SetupInvariant, PTL

-----------------------------------------------------------------------------
(* The handshakes                                                          *)

Pars(n) == <<"pars", n>>
Segs(n) == <<"segs", n>>

\* What one model has sent and the other not received, of the coupler of entry n,
\* when they are at these stages of it.
Sent(n, mine, other) ==
  IF mine = "no" THEN <<>>
  ELSE IF mine = "pars" THEN IF other = "segs" THEN <<>> ELSE <<Pars(n)>>
  ELSE IF other = "segs" THEN <<Segs(n)>> ELSE <<Pars(n), Segs(n)>>

\* Two models have done the couplers of the entries d and e, are at stages s and t
\* of n and m, and x and y are the messages under way from the first and to it:
\* they have done the same, or the first has done one more, of which the second
\* has the segments still to come.
Level(d, e, n, m, s, t, x, y) ==
  /\ d = e /\ (s = "segs" => t # "no") /\ (t = "segs" => s # "no")
  /\ x = Sent(n, s, t) /\ y = Sent(m, t, s)
Ahead(d, e, n, m, s, t, x, y) ==
  /\ d = e \cup {m} /\ t = "segs" /\ s # "segs" /\ y = <<>>
  /\ x = IF s = "pars" THEN <<Segs(m), Pars(n)>> ELSE <<Segs(m)>>
PairOf(d, e, n, m, s, t, x, y) ==
  Level(d, e, n, m, s, t, x, y) \/ Ahead(d, e, n, m, s, t, x, y) \/ Ahead(e, d, m, n, t, s, y, x)

Stages == {"no", "pars", "segs"}

LEMMA PairTurns ==
  ASSUME NEW d, NEW e, NEW n, NEW m, NEW s, NEW t, NEW x, NEW y
  PROVE  PairOf(d, e, n, m, s, t, x, y) <=> PairOf(e, d, m, n, t, s, y, x)
BY DEF PairOf, Level

LEMMA AppendToOne == ASSUME NEW a, NEW b PROVE Append(<<a>>, b) = <<a, b>>
<1> DEFINE T == {a, b}
           r == <<a>>
           u == <<a, b>>
<1>1. r \in Seq(T) /\ u \in Seq(T) /\ b \in T
  OBVIOUS
<1>2. Len(r) = 1 /\ r[1] = a /\ Len(u) = 2 /\ u[1] = a /\ u[2] = b
  OBVIOUS
<1> HIDE DEF r, u, T
<1>3. /\ Append(r, b) \in Seq(T) /\ Len(Append(r, b)) = Len(r) + 1
      /\ \A i \in 1..Len(r) : Append(r, b)[i] = r[i]
      /\ Append(r, b)[Len(r) + 1] = b
  BY <1>1, AppendProperties
<1>4. Len(Append(r, b)) = 2 /\ Append(r, b)[1] = a /\ Append(r, b)[2] = b
  BY <1>2, <1>3
<1>7. \A i \in 1 .. 2 : Append(r, b)[i] = u[i]
  BY <1>2, <1>4
<1>8. Append(r, b) = u
  BY <1>1, <1>2, <1>3, <1>4, <1>7, SeqEqual
<1> QED BY <1>8 DEF r, u

LEMMA HeadOfOne == ASSUME NEW a PROVE Head(<<a>>) = a /\ Tail(<<a>>) = <<>>
OBVIOUS

\* A model that is at no coupler of the other.
LEMMA PairIdle ==
  ASSUME NEW d, NEW e, NEW n, NEW m, NEW t \in Stages, NEW x, NEW y, NEW n2,
         PairOf(d, e, n, m, "no", t, x, y)
  PROVE  PairOf(d, e, n2, m, "no", t, x, y)
BY DEF PairOf, Level, Ahead, Sent, Stages

\* SendPars, RecvPars and RecvSegs.
LEMMA PairSends ==
  ASSUME NEW d, NEW e, NEW n, NEW m, NEW t \in Stages, NEW x, NEW y, NEW n2,
         PairOf(d, e, n, m, "no", t, x, y)
  PROVE  PairOf(d, e, n2, m, "pars", t, Append(x, Pars(n2)), y)
<1>1. CASE Level(d, e, n, m, "no", t, x, y)
  <2>1. x = <<>> /\ t # "segs" /\ d = e /\ y = Sent(m, t, "no")
    BY <1>1 DEF Level, Sent, Stages
  <2>2. Append(x, Pars(n2)) = <<Pars(n2)>>
    BY <2>1
  <2>3. Append(x, Pars(n2)) = Sent(n2, "pars", t)
    BY <2>1, <2>2 DEF Sent
  <2>4. y = Sent(m, t, "pars")
    BY <2>1 DEF Sent
  <2> HIDE DEF Sent
  <2>5. Level(d, e, n2, m, "pars", t, Append(x, Pars(n2)), y)
    BY <2>1, <2>3, <2>4 DEF Level
  <2> QED BY <2>5 DEF PairOf
<1>2. CASE Ahead(d, e, n, m, "no", t, x, y)
  <2>1. x = <<Segs(m)>>
    BY <1>2 DEF Ahead
  <2>2. Append(x, Pars(n2)) = <<Segs(m), Pars(n2)>>
    BY <2>1, AppendToOne
  <2>3. Ahead(d, e, n2, m, "pars", t, Append(x, Pars(n2)), y)
    BY <1>2, <2>2 DEF Ahead
  <2> QED BY <2>3 DEF PairOf
<1>3. ~ Ahead(e, d, m, n, t, "no", y, x)
  BY DEF Ahead
<1> QED BY <1>1, <1>2, <1>3 DEF PairOf

LEMMA PairTakesPars ==
  ASSUME NEW d, NEW e, NEW n, NEW m, NEW t \in Stages, NEW x, NEW y,
         PairOf(d, e, n, m, "pars", t, x, y), y # <<>>
  PROVE  /\ t # "no" /\ d = e /\ Head(y) = Pars(m)
         /\ PairOf(d, e, n, m, "segs", t, Append(x, Segs(n)), Tail(y))
<1>1. Level(d, e, n, m, "pars", t, x, y)
  BY DEF PairOf, Ahead
<1>2. d = e /\ x = Sent(n, "pars", t) /\ y = Sent(m, t, "pars")
  BY <1>1 DEF Level
<1>3. t # "no"
  BY <1>2 DEF Sent
<1>4. /\ Head(y) = Pars(m) /\ Tail(y) = Sent(m, t, "segs")
  <2>1. CASE t = "pars"
    <3>1. y = <<Pars(m)>>
      BY <1>2, <2>1 DEF Sent
    <3>2. Head(y) = Pars(m) /\ Tail(y) = <<>>
      BY <3>1
    <3> QED BY <2>1, <3>2 DEF Sent
  <2>2. CASE t = "segs"
    <3>1. y = <<Pars(m), Segs(m)>>
      BY <1>2, <2>2 DEF Sent
    <3>2. Head(y) = Pars(m) /\ Tail(y) = <<Segs(m)>>
      BY <3>1
    <3> QED BY <2>2, <3>2 DEF Sent
  <2> QED BY <1>3, <2>1, <2>2 DEF Stages
<1>5. Append(x, Segs(n)) = Sent(n, "segs", t)
  <2>1. CASE t = "pars"
    <3>1. x = <<Pars(n)>>
      BY <1>2, <2>1 DEF Sent
    <3>2. Append(x, Segs(n)) = <<Pars(n), Segs(n)>>
      BY <3>1, AppendToOne
    <3> QED BY <2>1, <3>2 DEF Sent
  <2>2. CASE t = "segs"
    <3>1. x = <<>>
      BY <1>2, <2>2 DEF Sent
    <3>2. Append(x, Segs(n)) = <<Segs(n)>>
      BY <3>1
    <3> QED BY <2>2, <3>2 DEF Sent
  <2> QED BY <1>3, <2>1, <2>2 DEF Stages
<1>6. Level(d, e, n, m, "segs", t, Append(x, Segs(n)), Tail(y))
  BY <1>2, <1>3, <1>4, <1>5 DEF Level
<1> QED BY <1>2, <1>3, <1>4, <1>6 DEF PairOf

LEMMA PairTakesSegs ==
  ASSUME NEW d, NEW e, NEW n, NEW m, NEW t \in Stages, NEW x, NEW y, NEW n2,
         PairOf(d, e, n, m, "segs", t, x, y), y # <<>>,
         d = e /\ t # "no" => n = m
  PROVE  /\ Head(y) = Segs(n)
         /\ PairOf(d \cup {n}, e, n2, m, "no", t, x, Tail(y))
<1>1. CASE Level(d, e, n, m, "segs", t, x, y)
  <2>1. d = e /\ t # "no" /\ n = m /\ x = Sent(n, "segs", t) /\ y = Sent(m, t, "segs")
    BY <1>1 DEF Level
  <2>2. t = "segs"
    BY <2>1 DEF Sent, Stages
  <2>3. x = <<Segs(m)>> /\ y = <<Segs(m)>>
    BY <2>1, <2>2 DEF Sent
  <2>4. Head(y) = Segs(n) /\ Tail(y) = <<>>
    BY <2>1, <2>3, HeadOfOne
  <2>5. Ahead(d \cup {n}, e, n2, m, "no", t, x, Tail(y))
    BY <2>1, <2>2, <2>3, <2>4 DEF Ahead
  <2> QED BY <2>4, <2>5 DEF PairOf
<1>2. CASE Ahead(e, d, m, n, t, "segs", y, x)
  <2>1. /\ e = d \cup {n} /\ t # "segs" /\ x = <<>>
        /\ y = IF t = "pars" THEN <<Segs(n), Pars(m)>> ELSE <<Segs(n)>>
    BY <1>2 DEF Ahead
  <2>2. /\ Head(y) = Segs(n)
        /\ Tail(y) = IF t = "pars" THEN <<Pars(m)>> ELSE <<>>
    <3>1. CASE t = "pars"
      BY <2>1, <3>1
    <3>2. CASE t # "pars"
      BY <2>1, <3>2
    <3> QED BY <3>1, <3>2
  <2>3. Tail(y) = Sent(m, t, "no") /\ x = Sent(n2, "no", t)
    BY <2>1, <2>2 DEF Sent, Stages
  <2>4. Level(d \cup {n}, e, n2, m, "no", t, x, Tail(y))
    BY <2>1, <2>3 DEF Level
  <2> QED BY <2>2, <2>4 DEF PairOf
<1>3. ~ Ahead(d, e, n, m, "segs", t, x, y)
  BY DEF Ahead
<1> QED BY <1>1, <1>2, <1>3 DEF PairOf

-----------------------------------------------------------------------------
(* The couplers of two models                                              *)

\* Of the couplers cs of a model: those that exchange with another one, those that
\* do with q, the entries of those before c, and what the model is at with q when it
\* is at c and in phase l.
Exchanges(cs) == {i \in DOMAIN cs : cs[i].sndrcv}
Shared(cs, q) == {i \in Exchanges(cs) : cs[i].comp = q}
EntriesBelow(cs, q, c) == {cs[i].namID : i \in {j \in Shared(cs, q) : j < c}}
Talk(cs, c, l, q) == IF l \in {"pars", "segs"} /\ cs[c].comp = q THEN l ELSE "no"

PairAt(p, q) ==
  PairOf(EntriesBelow(prism_coupler[p], q, nc[p]), EntriesBelow(prism_coupler[q], p, nc[q]),
         prism_coupler[p][nc[p]].namID, prism_coupler[q][nc[q]].namID,
         Talk(prism_coupler[p], nc[p], pc[p], q), Talk(prism_coupler[q], nc[q], pc[q], p),
         net[p][q], net[q][p])
Paired == \A p, q \in Model : p # q => PairAt(p, q)

\* The place of the entry of a coupler in the sort.
LEMMA Ranks ==
  ASSUME SetupInv, NEW p \in Model
  PROVE  /\ \A i \in DOMAIN prism_coupler[p] :
              \E a \in Entries : prism_coupler[p][i].namID = namfldsort[a]
         /\ \A i, j \in DOMAIN prism_coupler[p] : i < j =>
              \E a, b \in Entries : /\ a < b /\ prism_coupler[p][i].namID = namfldsort[a]
                                    /\ prism_coupler[p][j].namID = namfldsort[b]
<1>1. IInv /\ nns[p] \in Nat /\ nns[p] <= Len(NamFile) /\ Len(NamFile) \in Nat
  BY SetupTypes DEF SetupInv
<1>2. 1..nns[p] \subseteq Entries
  BY <1>1 DEF Entries
<1>3. Located /\ CouplersSorted
  BY <1>1 DEF IInv
<1>4. \A i \in DOMAIN prism_coupler[p] :
        \E a \in 1..nns[p] : prism_coupler[p][i].namID = namfldsort[a]
  BY <1>3 DEF Located
<1>5. \A i, j \in DOMAIN prism_coupler[p] : i < j =>
        \E a, b \in 1..nns[p] : /\ a < b /\ prism_coupler[p][i].namID = namfldsort[a]
                                /\ prism_coupler[p][j].namID = namfldsort[b]
  BY <1>3 DEF CouplersSorted
<1> QED BY <1>2, <1>4, <1>5

\* Two models that have done the same couplers with each other have the same one
\* before them.
LEMMA NextSame ==
  ASSUME SetupInv, NamesPaired, OneHome(prism_var),
         NEW p \in Model, NEW q \in Model,
         nns[p] = Len(NamFile), nns[q] = Len(NamFile),
         NEW x \in Shared(prism_coupler[p], q), NEW y \in Shared(prism_coupler[q], p),
         EntriesBelow(prism_coupler[p], q, x) = EntriesBelow(prism_coupler[q], p, y)
  PROVE  prism_coupler[p][x].namID = prism_coupler[q][y].namID
<1>1. \A a, b \in Entries : namfldsort[a] = namfldsort[b] => a = b
  BY SetupTypes DEF SetupInv
<1>2. PICK n, m : n = prism_coupler[p][x].namID /\ m = prism_coupler[q][y].namID
  OBVIOUS
<1>3. PICK y2 \in Shared(prism_coupler[q], p) : prism_coupler[q][y2].namID = n
  <2>1. x \in Exchanging(p) /\ prism_coupler[p][x].comp = q
    BY DEF Shared, Exchanges, Exchanging
  <2>2. PICK y2 \in Exchanging(q) : OtherEnd(p, prism_coupler[p][x], q, prism_coupler[q][y2])
    BY <2>1, EndMeets
  <2> QED BY <1>2, <2>1, <2>2 DEF OtherEnd, Shared, Exchanges, Exchanging
<1>4. PICK x2 \in Shared(prism_coupler[p], q) : prism_coupler[p][x2].namID = m
  <2>1. y \in Exchanging(q) /\ prism_coupler[q][y].comp = p
    BY DEF Shared, Exchanges, Exchanging
  <2>2. PICK x2 \in Exchanging(p) : OtherEnd(q, prism_coupler[q][y], p, prism_coupler[p][x2])
    BY <2>1, EndMeets
  <2> QED BY <1>2, <2>1, <2>2 DEF OtherEnd, Shared, Exchanges, Exchanging
<1>5. /\ x \in Nat /\ x2 \in Nat /\ y \in Nat /\ y2 \in Nat
      /\ {x, x2} \subseteq DOMAIN prism_coupler[p] /\ {y, y2} \subseteq DOMAIN prism_coupler[q]
  <2>1. {x, x2} \subseteq DOMAIN prism_coupler[p] /\ {y, y2} \subseteq DOMAIN prism_coupler[q]
    BY DEF Shared, Exchanges
  <2>2. prism_coupler[p] \in Seq(CouplerType) /\ prism_coupler[q] \in Seq(CouplerType)
    BY SetupTypes DEF SetupInv
  <2> QED BY <2>1, <2>2
<1>6. ~ (y2 < y)
  <2> SUFFICES ASSUME y2 < y PROVE FALSE
    OBVIOUS
  <2>1. n \in EntriesBelow(prism_coupler[q], p, y)
    BY <1>3 DEF EntriesBelow
  <2>2. PICK i \in Shared(prism_coupler[p], q) : i < x /\ prism_coupler[p][i].namID = n
    BY <2>1 DEF EntriesBelow
  <2>3. i \in DOMAIN prism_coupler[p]
    BY <2>2 DEF Shared, Exchanges
  <2>4. PICK a, b \in Entries : a < b /\ n = namfldsort[a] /\ n = namfldsort[b]
    BY <1>2, <1>5, <2>2, <2>3, Ranks
  <2>5. a = b
    BY <1>1, <2>4
  <2>6. a \in Int
    BY DEF Entries
  <2> QED BY <2>4, <2>5, <2>6
<1>7. ~ (x2 < x)
  <2> SUFFICES ASSUME x2 < x PROVE FALSE
    OBVIOUS
  <2>1. m \in EntriesBelow(prism_coupler[p], q, x)
    BY <1>4 DEF EntriesBelow
  <2>2. PICK i \in Shared(prism_coupler[q], p) : i < y /\ prism_coupler[q][i].namID = m
    BY <2>1 DEF EntriesBelow
  <2>3. i \in DOMAIN prism_coupler[q]
    BY <2>2 DEF Shared, Exchanges
  <2>4. PICK a, b \in Entries : a < b /\ m = namfldsort[a] /\ m = namfldsort[b]
    BY <1>2, <1>5, <2>2, <2>3, Ranks
  <2>5. a = b
    BY <1>1, <2>4
  <2>6. a \in Int
    BY DEF Entries
  <2> QED BY <2>4, <2>5, <2>6
<1>8. CASE y2 = y \/ x2 = x
  BY <1>2, <1>3, <1>4, <1>8
<1>9. CASE y < y2 /\ x < x2
  <2>1. PICK a, b \in Entries : a < b /\ m = namfldsort[a] /\ n = namfldsort[b]
    BY <1>2, <1>3, <1>5, <1>9, Ranks
  <2>2. PICK c, d \in Entries : c < d /\ n = namfldsort[c] /\ m = namfldsort[d]
    BY <1>2, <1>4, <1>5, <1>9, Ranks
  <2>3. a = d /\ b = c
    BY <1>1, <2>1, <2>2
  <2> QED BY <2>1, <2>2, <2>3 DEF Entries
<1> QED BY <1>2, <1>5, <1>6, <1>7, <1>8, <1>9

-----------------------------------------------------------------------------
(* The routers of a model                                                  *)

Upto(cs, i) == {j \in Exchanges(cs) : j <= i}
Below(cs, c) == {j \in Exchanges(cs) : j < c}

\* A model at coupler c of cs, in phase l, has these routers.
RoutersAre(cs, c, l, rs) ==
  /\ Len(rs) = IF l = "segs" THEN Cardinality(Below(cs, c)) + 1 ELSE Cardinality(Below(cs, c))
  /\ \A i \in Exchanges(cs) :
       Cardinality(Upto(cs, i)) <= Len(rs) =>
         rs[Cardinality(Upto(cs, i))] =
           [pars |-> Pars(cs[i].namID),
            segs |-> IF i < c THEN Segs(cs[i].namID) ELSE <<>>]

LEMMA RoutersPairedAre ==
  (\A p \in Model : RoutersAre(prism_coupler[p], nc[p], pc[p], router[p])) => RoutersPaired
<1> SUFFICES ASSUME \A p \in Model : RoutersAre(prism_coupler[p], nc[p], pc[p], router[p]),
                    NEW p \in Model
             PROVE  /\ Len(router[p]) = IF pc[p] = "segs" THEN Routers(p) + 1 ELSE Routers(p)
                    /\ \A i \in Exchanging(p) :
                         LET k == Cardinality({j \in Exchanging(p) : j <= i})
                             n == prism_coupler[p][i].namID
                         IN k <= Len(router[p]) =>
                              router[p][k] = [pars |-> <<"pars", n>>,
                                              segs |-> IF i < nc[p] THEN <<"segs", n>> ELSE <<>>]
  BY DEF RoutersPaired
<1>1. Exchanging(p) = Exchanges(prism_coupler[p])
  BY DEF Exchanging, Exchanges
<1>2. Routers(p) = Cardinality(Below(prism_coupler[p], nc[p]))
  BY <1>1 DEF Routers, Below
<1>3. \A i \in Exchanging(p) :
        {j \in Exchanging(p) : j <= i} = Upto(prism_coupler[p], i)
  BY <1>1 DEF Upto
<1>4. RoutersAre(prism_coupler[p], nc[p], pc[p], router[p])
  OBVIOUS
<1> QED BY <1>1, <1>2, <1>3, <1>4 DEF RoutersAre, Pars, Segs

\* The number of couplers that exchange up to one of them.
LEMMA Counts ==
  ASSUME NEW cs \in Seq(CouplerType), NEW c \in Nat
  PROVE  /\ Cardinality(Below(cs, c)) \in Nat
         /\ \A i \in Exchanges(cs) : /\ i \in Nat /\ i >= 1
                                     /\ Cardinality(Upto(cs, i)) \in Nat
         /\ \A i \in Exchanges(cs) : i < c => Cardinality(Upto(cs, i)) <= Cardinality(Below(cs, c))
         /\ \A i \in Exchanges(cs) : i >= c => Cardinality(Upto(cs, i)) > Cardinality(Below(cs, c))
         /\ c \in Exchanges(cs) =>
              /\ Cardinality(Upto(cs, c)) = Cardinality(Below(cs, c)) + 1
              /\ Cardinality(Below(cs, c + 1)) = Cardinality(Below(cs, c)) + 1
              /\ \A i \in Exchanges(cs) : i > c =>
                   Cardinality(Upto(cs, i)) > Cardinality(Below(cs, c)) + 1
         /\ c \notin Exchanges(cs) => Below(cs, c + 1) = Below(cs, c)
<1> DEFINE E == Exchanges(cs)
<1>1. E \subseteq Nat /\ IsFiniteSet(E) /\ \A i \in E : i >= 1
  <2>1. DOMAIN cs = 1..Len(cs) /\ Len(cs) \in Nat
    OBVIOUS
  <2>2. E \in SUBSET (1..Len(cs)) /\ IsFiniteSet(1..Len(cs))
    BY <2>1, FS_Interval DEF Exchanges
  <2> QED BY <2>1, <2>2, FS_Subset
<1>2. \A k : /\ IsFiniteSet(Below(cs, k)) /\ Cardinality(Below(cs, k)) \in Nat
              /\ IsFiniteSet(Upto(cs, k)) /\ Cardinality(Upto(cs, k)) \in Nat
  <2> TAKE k
  <2>1. Below(cs, k) \in SUBSET E /\ Upto(cs, k) \in SUBSET E
    BY DEF Below, Upto
  <2> QED BY <1>1, <2>1, FS_Subset, FS_CardinalityType
<1> HIDE DEF E
<1>3. ASSUME NEW i \in E, i < c
      PROVE  Cardinality(Upto(cs, i)) <= Cardinality(Below(cs, c))
  <2>1. Upto(cs, i) \in SUBSET Below(cs, c)
    BY <1>1, <1>3 DEF Upto, Below, E
  <2> QED BY <1>2, <2>1, FS_Subset
<1>4. ASSUME NEW i \in E, i >= c
      PROVE  Cardinality(Upto(cs, i)) > Cardinality(Below(cs, c))
  <2>1. Below(cs, c) \cup {i} \in SUBSET Upto(cs, i) /\ i \notin Below(cs, c)
    BY <1>1, <1>4 DEF Upto, Below, E
  <2>2. Cardinality(Below(cs, c) \cup {i}) = Cardinality(Below(cs, c)) + 1
    BY <1>2, <2>1, FS_AddElement
  <2>3. Cardinality(Below(cs, c) \cup {i}) <= Cardinality(Upto(cs, i))
    BY <1>2, <2>1, FS_Subset
  <2> QED BY <1>2, <2>2, <2>3
<1>5. ASSUME c \in E
      PROVE  /\ Cardinality(Upto(cs, c)) = Cardinality(Below(cs, c)) + 1
             /\ Cardinality(Below(cs, c + 1)) = Cardinality(Below(cs, c)) + 1
             /\ \A i \in E : i > c =>
                  Cardinality(Upto(cs, i)) > Cardinality(Below(cs, c)) + 1
  <2>1. /\ Upto(cs, c) = Below(cs, c) \cup {c} /\ Below(cs, c + 1) = Below(cs, c) \cup {c}
        /\ c \notin Below(cs, c)
    BY <1>1, <1>5 DEF Upto, Below, E
  <2>2. Cardinality(Below(cs, c) \cup {c}) = Cardinality(Below(cs, c)) + 1
    BY <1>2, <2>1, FS_AddElement
  <2>3. ASSUME NEW i \in E, i > c
        PROVE  Cardinality(Upto(cs, i)) > Cardinality(Below(cs, c)) + 1
    <3>1. Upto(cs, c) \cup {i} \in SUBSET Upto(cs, i) /\ i \notin Upto(cs, c)
      BY <1>1, <1>5, <2>3 DEF Upto, E
    <3>2. Cardinality(Upto(cs, c) \cup {i}) = Cardinality(Upto(cs, c)) + 1
      BY <1>2, <3>1, FS_AddElement
    <3>3. Cardinality(Upto(cs, c) \cup {i}) <= Cardinality(Upto(cs, i))
      BY <1>2, <3>1, FS_Subset
    <3>4. Cardinality(Upto(cs, c)) = Cardinality(Below(cs, c)) + 1
      BY <2>1, <2>2
    <3> QED BY <1>2, <3>2, <3>3, <3>4
  <2> QED BY <2>1, <2>2, <2>3
<1>6. c \notin E => Below(cs, c + 1) = Below(cs, c)
  BY <1>1 DEF Below, E
<1> QED BY <1>1, <1>2, <1>3, <1>4, <1>5, <1>6 DEF E

LEMMA CountsItself ==
  ASSUME NEW cs \in Seq(CouplerType), NEW i \in Exchanges(cs)
  PROVE  Cardinality(Upto(cs, i)) >= 1
<1>1. i \in Nat /\ i >= 0 /\ Cardinality(Upto(cs, i)) \in Nat /\ 0 \in Nat
  BY Counts
<1>2. /\ Cardinality(Below(cs, 0)) \in Nat
      /\ Cardinality(Upto(cs, i)) > Cardinality(Below(cs, 0))
  BY <1>1, Counts
<1> QED BY <1>1, <1>2

LEMMA RoutersNone ==
  ASSUME NEW cs \in Seq(CouplerType), NEW l, l # "segs"
  PROVE  RoutersAre(cs, 1, l, <<>>)
<1>1. \A i \in Exchanges(cs) : i \in Nat /\ i >= 1
  BY Counts
<1>2. Below(cs, 1) = {}
  BY <1>1 DEF Below
<1>3. Cardinality(Below(cs, 1)) = 0
  BY <1>2, FS_EmptySet
<1>4. \A i \in Exchanges(cs) :
        Cardinality(Upto(cs, i)) \in Nat /\ Cardinality(Upto(cs, i)) > Cardinality(Below(cs, 1))
  BY <1>1, Counts
<1>5. Len(<<>>) = 0
  OBVIOUS
<1> QED BY <1>3, <1>4, <1>5 DEF RoutersAre

LEMMA RoutersSkip ==
  ASSUME NEW cs \in Seq(CouplerType), NEW c \in Nat, c \notin Exchanges(cs), NEW l, l # "segs",
         NEW rs, RoutersAre(cs, c, l, rs)
  PROVE  RoutersAre(cs, c + 1, l, rs)
<1>1. Below(cs, c + 1) = Below(cs, c) /\ \A i \in Exchanges(cs) : i \in Nat /\ i # c
  BY Counts
<1>2. \A i \in Exchanges(cs) : i < c <=> i < c + 1
  BY <1>1
<1> QED BY <1>1, <1>2 DEF RoutersAre

\* RecvPars and RecvSegs.
Messages == {"pars", "segs"} \X Entries
Received == [pars : Messages, segs : Messages \cup {<<>>}]

LEMMA RoutersAdd ==
  ASSUME NEW cs \in Seq(CouplerType), NEW c \in Exchanges(cs), NEW rs \in Seq(Received),
         RoutersAre(cs, c, "pars", rs), NEW r \in Received,
         r = [pars |-> Pars(cs[c].namID), segs |-> <<>>]
  PROVE  RoutersAre(cs, c, "segs", Append(rs, r))
<1>1. DOMAIN cs \subseteq Nat /\ c \in Nat
  BY DEF Exchanges
<1>2. PICK k : k = Cardinality(Below(cs, c))
  OBVIOUS
<1>3. /\ k \in Nat
      /\ \A i \in Exchanges(cs) : i \in Nat /\ i >= 1 /\ Cardinality(Upto(cs, i)) \in Nat
      /\ \A i \in Exchanges(cs) : i < c => Cardinality(Upto(cs, i)) <= k
      /\ Cardinality(Upto(cs, c)) = k + 1
      /\ \A i \in Exchanges(cs) : i > c => Cardinality(Upto(cs, i)) > k + 1
  BY <1>1, <1>2, Counts
<1>4. /\ Len(rs) = k
      /\ \A i \in Exchanges(cs) : Cardinality(Upto(cs, i)) <= k =>
           rs[Cardinality(Upto(cs, i))] =
             [pars |-> Pars(cs[i].namID),
              segs |-> IF i < c THEN Segs(cs[i].namID) ELSE <<>>]
  BY <1>2 DEF RoutersAre
<1>5. PICK rs2 : rs2 = Append(rs, r)
  OBVIOUS
<1>6. Len(rs2) = k + 1 /\ rs2[k + 1] = r /\ \A j \in 1..k : rs2[j] = rs[j]
  BY <1>4, <1>5, AppendProperties
<1>7. ASSUME NEW i \in Exchanges(cs), Cardinality(Upto(cs, i)) <= k + 1
      PROVE  rs2[Cardinality(Upto(cs, i))] =
               [pars |-> Pars(cs[i].namID),
                segs |-> IF i < c THEN Segs(cs[i].namID) ELSE <<>>]
  <2>1. CASE i < c
    <3>1. Cardinality(Upto(cs, i)) <= k
      BY <1>3, <2>1
    <3>2. Cardinality(Upto(cs, i)) >= 1
      BY <1>3, CountsItself
    <3> QED BY <1>3, <1>4, <1>6, <3>1, <3>2
  <2>2. CASE i = c
    BY <1>3, <1>6, <2>2
  <2> QED BY <1>1, <1>3, <1>7, <2>1, <2>2
<1> QED BY <1>2, <1>5, <1>6, <1>7 DEF RoutersAre

LEMMA RoutersDone ==
  ASSUME NEW cs \in Seq(CouplerType), NEW c \in Exchanges(cs), NEW rs \in Seq(Received),
         RoutersAre(cs, c, "segs", rs)
  PROVE  RoutersAre(cs, c + 1, "router",
                    [rs EXCEPT ![Len(rs)] = [rs[Len(rs)] EXCEPT !.segs = Segs(cs[c].namID)]])
<1>1. DOMAIN cs \subseteq Nat /\ c \in Nat
  BY DEF Exchanges
<1>2. PICK k : k = Cardinality(Below(cs, c))
  OBVIOUS
<1>3. /\ k \in Nat
      /\ \A i \in Exchanges(cs) : i \in Nat /\ i >= 1 /\ Cardinality(Upto(cs, i)) \in Nat
      /\ \A i \in Exchanges(cs) : i < c => Cardinality(Upto(cs, i)) <= k
      /\ Cardinality(Upto(cs, c)) = k + 1
      /\ \A i \in Exchanges(cs) : i > c => Cardinality(Upto(cs, i)) > k + 1
      /\ Cardinality(Below(cs, c + 1)) = k + 1
  BY <1>1, <1>2, Counts
<1>4. /\ Len(rs) = k + 1
      /\ \A i \in Exchanges(cs) : Cardinality(Upto(cs, i)) <= k + 1 =>
           rs[Cardinality(Upto(cs, i))] =
             [pars |-> Pars(cs[i].namID),
              segs |-> IF i < c THEN Segs(cs[i].namID) ELSE <<>>]
  BY <1>2 DEF RoutersAre
<1>5. PICK rs2 : rs2 = [rs EXCEPT ![Len(rs)] = [rs[Len(rs)] EXCEPT !.segs = Segs(cs[c].namID)]]
  OBVIOUS
<1>6. rs[k + 1] = [pars |-> Pars(cs[c].namID), segs |-> <<>>]
  <2>1. ~ (c < c)
    BY <1>1
  <2> QED BY <1>3, <1>4, <2>1
<1>7. /\ Len(rs2) = k + 1
      /\ rs2[k + 1] = [pars |-> Pars(cs[c].namID), segs |-> Segs(cs[c].namID)]
      /\ \A j \in 1..k : rs2[j] = rs[j]
  <2> DEFINE r == [pars |-> Pars(cs[c].namID), segs |-> Segs(cs[c].namID)]
  <2>1. [rs[k + 1] EXCEPT !.segs = Segs(cs[c].namID)] = r
    BY <1>6
  <2>2. r \in Received
    <3>1. c \in DOMAIN cs
      BY DEF Exchanges
    <3>2. cs[c] \in CouplerType
      BY <3>1
    <3>3. cs[c].namID \in Entries
      BY <3>2 DEF CouplerType
    <3> QED BY <3>3 DEF Received, Messages, Pars, Segs
  <2> HIDE DEF r
  <2>3. rs2 = [rs EXCEPT ![k + 1] = r]
    BY <1>4, <1>5, <2>1
  <2>4. k + 1 \in 1..Len(rs)
    BY <1>3, <1>4
  <2>5. /\ Len([rs EXCEPT ![k + 1] = r]) = Len(rs)
        /\ \A j \in 1..Len(rs) : [rs EXCEPT ![k + 1] = r][j] = IF j = k + 1 THEN r ELSE rs[j]
    BY <2>2, <2>4, ExceptSeq
  <2>6. /\ Len(rs2) = k + 1 /\ rs2[k + 1] = r
        /\ \A j \in 1..k : rs2[j] = rs[j]
    BY <1>3, <1>4, <2>3, <2>5
  <2> QED BY <2>6 DEF r
<1>8. ASSUME NEW i \in Exchanges(cs), Cardinality(Upto(cs, i)) <= k + 1
      PROVE  rs2[Cardinality(Upto(cs, i))] =
               [pars |-> Pars(cs[i].namID),
                segs |-> IF i < c + 1 THEN Segs(cs[i].namID) ELSE <<>>]
  <2>1. CASE i < c
    <3>1. Cardinality(Upto(cs, i)) >= 1
      BY <1>3, CountsItself
    <3>2. rs2[Cardinality(Upto(cs, i))] = rs[Cardinality(Upto(cs, i))]
      BY <1>3, <1>7, <2>1, <3>1
    <3>3. i < c + 1
      BY <1>1, <1>3, <2>1
    <3> QED BY <1>4, <1>8, <2>1, <3>2, <3>3
  <2>2. CASE i = c
    <3>1. c < c + 1
      BY <1>1
    <3> QED BY <1>3, <1>7, <2>2, <3>1
  <2> QED BY <1>1, <1>3, <1>8, <2>1, <2>2
<1>9. RoutersAre(cs, c + 1, "router", rs2)
  BY <1>3, <1>7, <1>8 DEF RoutersAre
<1> QED BY <1>5, <1>9

-----------------------------------------------------------------------------
(* The router loops of all the models                                      *)

HandTypes ==
  /\ net \in [Model -> [Model -> Seq(Messages)]]
  /\ router \in [Model -> Seq(Received)]

\* A model has no router before its loop, in which it waits for the other end of a
\* coupler with another model; and no message is under way before the first loop.
Quiet ==
  /\ \A p \in Model : pc[p] \in {"define", "share", "match"} => nc[p] = 1 /\ router[p] = <<>>
  /\ \A p \in Model : pc[p] \in {"pars", "segs"} => nc[p] \in Exchanging(p)
  /\ (\A p \in Model : pc[p] \in {"define", "share"}) => \A p, q \in Model : net[p][q] = <<>>

RoutersMade == \A p \in Model : RoutersAre(prism_coupler[p], nc[p], pc[p], router[p])

HandInv == SetupInv /\ HandTypes /\ Quiet /\ (OneHome(prism_var) => Paired /\ RoutersMade)

LEMMA LoopTypes ==
  ASSUME IInv
  PROVE  /\ pc \in [Model -> {"define", "share", "match", "router", "pars", "segs"}]
         /\ nc \in [Model -> Nat]
         /\ \A p \in Model : prism_coupler[p] \in Seq(CouplerType)
BY DEF IInv, TypeOK

LEMMA AtCoupler ==
  ASSUME SetupInv, NEW p \in Model, nc[p] \in Exchanging(p)
  PROVE  /\ ThisCoupler(p).comp \in Model /\ ThisCoupler(p).comp # p
         /\ nc[p] \in Shared(prism_coupler[p], ThisCoupler(p).comp)
         /\ nc[p] \in Exchanges(prism_coupler[p])
         /\ ThisCoupler(p).namID \in Entries
<1>1. ThisCoupler(p).comp \in Model /\ ThisCoupler(p).comp # p
  BY ExchangeFacts DEF MadeFrom, ThisCoupler
<1>2. nc[p] \in DOMAIN prism_coupler[p] /\ prism_coupler[p] \in Seq(CouplerType)
  BY LoopTypes DEF Exchanging, SetupInv
<1>3. prism_coupler[p][nc[p]] \in CouplerType
  BY <1>2
<1>4. ThisCoupler(p).namID \in Entries
  BY <1>3 DEF CouplerType, ThisCoupler
<1> QED BY <1>1, <1>4 DEF Shared, Exchanges, Exchanging, ThisCoupler

LEMMA EntriesNext ==
  ASSUME NEW cs \in Seq(CouplerType), NEW q
  PROVE  /\ EntriesBelow(cs, q, 1) = {}
         /\ \A c \in Nat : EntriesBelow(cs, q, c + 1) =
              IF c \in Shared(cs, q) THEN EntriesBelow(cs, q, c) \cup {cs[c].namID}
              ELSE EntriesBelow(cs, q, c)
<1>1. \A j \in Shared(cs, q) : j \in Nat /\ j >= 1
  BY DEF Shared, Exchanges
<1>2. {j \in Shared(cs, q) : j < 1} = {}
  BY <1>1
<1>3. EntriesBelow(cs, q, 1) = {}
  BY <1>2 DEF EntriesBelow
<1>4. ASSUME NEW c \in Nat
      PROVE  EntriesBelow(cs, q, c + 1) =
               IF c \in Shared(cs, q) THEN EntriesBelow(cs, q, c) \cup {cs[c].namID}
               ELSE EntriesBelow(cs, q, c)
  <2>1. {j \in Shared(cs, q) : j < c + 1} =
          IF c \in Shared(cs, q) THEN {j \in Shared(cs, q) : j < c} \cup {c}
          ELSE {j \in Shared(cs, q) : j < c}
    BY <1>1
  <2> QED BY <2>1 DEF EntriesBelow
<1> QED BY <1>3, <1>4

\* What a model does changes the pairs that it is in.
LEMMA PairsOf ==
  ASSUME Paired, NEW p \in Model,
         \A r \in Model \ {p} : /\ prism_coupler'[r] = prism_coupler[r]
                                /\ nc'[r] = nc[r] /\ pc'[r] = pc[r]
                                /\ \A q \in Model \ {p} : net'[r][q] = net[r][q],
         \A r \in Model \ {p} : PairAt(p, r)'
  PROVE  Paired'
<1>1. ASSUME NEW r \in Model \ {p}, NEW q \in Model \ {p}, r # q
      PROVE  PairAt(r, q)'
  BY <1>1 DEF Paired, PairAt
<1>2. ASSUME NEW r \in Model \ {p}
      PROVE  PairAt(r, p)'
  <2>1. PairAt(p, r)'
    BY <1>2
  <2> QED BY <2>1, PairTurns DEF PairAt
<1> QED BY <1>1, <1>2 DEF Paired

LEMMA TalkIs ==
  ASSUME NEW cs, NEW c, NEW l, NEW q
  PROVE  /\ Talk(cs, c, l, q) \in Stages
         /\ l \notin {"pars", "segs"} => Talk(cs, c, l, q) = "no"
         /\ cs[c].comp # q => Talk(cs, c, l, q) = "no"
         /\ l \in {"pars", "segs"} /\ cs[c].comp = q => Talk(cs, c, l, q) = l
         /\ Talk(cs, c, l, q) # "no" => l \in {"pars", "segs"} /\ cs[c].comp = q
BY DEF Talk, Stages

\* A step of p that is not one of an exchange with r.
LEMMA PairKept ==
  ASSUME Paired, NEW p \in Model, NEW r \in Model, r # p,
         prism_coupler'[r] = prism_coupler[r], nc'[r] = nc[r], pc'[r] = pc[r],
         net'[p][r] = net[p][r], net'[r][p] = net[r][p],
         Talk(prism_coupler[p], nc[p], pc[p], r) = "no",
         Talk(prism_coupler'[p], nc'[p], pc'[p], r) = "no",
         EntriesBelow(prism_coupler'[p], r, nc'[p]) = EntriesBelow(prism_coupler[p], r, nc[p])
  PROVE  PairAt(p, r)'
<1>1. PairAt(p, r)
  BY DEF Paired
<1>2. Talk(prism_coupler[r], nc[r], pc[r], p) \in Stages
  BY TalkIs
<1>3. PairOf(EntriesBelow(prism_coupler[p], r, nc[p]), EntriesBelow(prism_coupler[r], p, nc[r]),
             prism_coupler'[p][nc'[p]].namID, prism_coupler[r][nc[r]].namID,
             "no", Talk(prism_coupler[r], nc[r], pc[r], p), net[p][r], net[r][p])
  <2>1. PairOf(EntriesBelow(prism_coupler[p], r, nc[p]), EntriesBelow(prism_coupler[r], p, nc[r]),
               prism_coupler[p][nc[p]].namID, prism_coupler[r][nc[r]].namID,
               "no", Talk(prism_coupler[r], nc[r], pc[r], p), net[p][r], net[r][p])
    BY <1>1 DEF PairAt
  <2> QED BY <1>2, <2>1, PairIdle
<1> QED BY <1>3 DEF PairAt

\* A step of the loop keeps the rest when it keeps the pairs and the routers of p.
LEMMA LoopStep ==
  ASSUME HandInv, SetupInv', NEW p \in Model, NEW l \in {"router", "pars", "segs"}, NEW k \in Nat,
         pc[p] \in {"router", "pars", "segs"},
         prism_var' = prism_var, prism_coupler' = prism_coupler,
         pc' = [pc EXCEPT ![p] = l], nc' = [nc EXCEPT ![p] = k],
         l # "router" => k \in Exchanging(p),
         HandTypes',
         \A r \in Model \ {p} : /\ router'[r] = router[r]
                                /\ \A q \in Model \ {p} : net'[r][q] = net[r][q],
         OneHome(prism_var) => /\ \A r \in Model \ {p} : PairAt(p, r)'
                               /\ RoutersAre(prism_coupler[p], k, l, router'[p])
  PROVE  HandInv'
<1>1. /\ pc \in [Model -> {"define", "share", "match", "router", "pars", "segs"}]
      /\ nc \in [Model -> Nat]
  BY LoopTypes DEF HandInv, SetupInv
<1>2. /\ pc'[p] = l /\ nc'[p] = k
      /\ \A r \in Model \ {p} : pc'[r] = pc[r] /\ nc'[r] = nc[r]
  BY <1>1
<1>3. \A r \in Model : Exchanging(r)' = Exchanging(r)
  BY DEF Exchanging
<1>4. Quiet'
  <2>1. ASSUME NEW r \in Model, pc'[r] \in {"define", "share", "match"}
        PROVE  nc'[r] = 1 /\ router'[r] = <<>>
    BY <1>2, <2>1 DEF HandInv, Quiet
  <2>2. ASSUME NEW r \in Model, pc'[r] \in {"pars", "segs"} PROVE nc'[r] \in Exchanging(r)'
    BY <1>2, <1>3, <2>2 DEF HandInv, Quiet
  <2>3. pc'[p] \notin {"define", "share"}
    BY <1>2
  <2> QED BY <2>1, <2>2, <2>3 DEF Quiet
<1>5. ASSUME OneHome(prism_var)' PROVE Paired' /\ RoutersMade'
  <2>1. OneHome(prism_var)
    BY <1>5 DEF OneHome
  <2>2. Paired /\ RoutersMade
    BY <2>1 DEF HandInv
  <2>3. Paired'
    BY <1>2, <2>1, <2>2, PairsOf
  <2>4. \A r \in Model \ {p} : RoutersAre(prism_coupler'[r], nc'[r], pc'[r], router'[r])
    BY <1>2, <2>2 DEF RoutersMade
  <2>5. RoutersAre(prism_coupler'[p], nc'[p], pc'[p], router'[p])
    BY <1>2, <2>1
  <2> QED BY <2>3, <2>4, <2>5 DEF RoutersMade
<1> QED BY <1>4, <1>5 DEF HandInv

\* Two models that wait for each other are at the couplers of one entry.
LEMMA SameEntry ==
  ASSUME HandInv, NamesPaired, OneHome(prism_var), NEW p \in Model, NEW q \in Model,
         pc[p] \in {"pars", "segs"}, q = ThisCoupler(p).comp,
         EntriesBelow(prism_coupler[p], q, nc[p]) = EntriesBelow(prism_coupler[q], p, nc[q]),
         Talk(prism_coupler[q], nc[q], pc[q], p) # "no"
  PROVE  prism_coupler[p][nc[p]].namID = prism_coupler[q][nc[q]].namID
<1>1. pc[q] \in {"pars", "segs"} /\ ThisCoupler(q).comp = p
  BY TalkIs DEF ThisCoupler
<1>2. nc[p] \in Exchanging(p) /\ nc[q] \in Exchanging(q)
  BY <1>1 DEF HandInv, Quiet
<1>3. nc[p] \in Shared(prism_coupler[p], q) /\ nc[q] \in Shared(prism_coupler[q], p)
  BY <1>1, <1>2, AtCoupler DEF HandInv
<1>4. nns[p] = Len(NamFile) /\ nns[q] = Len(NamFile)
  BY <1>1 DEF HandInv, SetupInv, Phases
<1> QED BY <1>3, <1>4, NextSame DEF HandInv

LEMMA SendParsHand ==
  ASSUME HandInv, NamesPaired, NEW p \in Model, SendPars(p) PROVE HandInv'
<1>0. PICK q, n : q = ThisCoupler(p).comp /\ n = ThisCoupler(p).namID
  OBVIOUS
<1>1. /\ SetupInv /\ HandTypes /\ Quiet /\ SetupInv'
      /\ pc \in [Model -> {"define", "share", "match", "router", "pars", "segs"}]
      /\ nc \in [Model -> Nat] /\ prism_coupler[p] \in Seq(CouplerType)
  BY LoopTypes, StepSetup DEF HandInv, SetupInv, Step
<1>2. /\ pc[p] = "router" /\ nc[p] <= Len(prism_coupler[p]) /\ ThisCoupler(p).sndrcv
      /\ net' = [net EXCEPT ![p][q] = Append(@, <<"pars", n>>)]
      /\ pc' = [pc EXCEPT ![p] = "pars"]
      /\ UNCHANGED <<prism_var, prism_coupler, nc, router>>
  BY <1>0 DEF SendPars, At
<1>3. nc[p] \in Exchanging(p)
  <2>1. nc[p] \in 1..(Len(prism_coupler[p]) + 1)
    BY <1>1 DEF SetupInv, IInv, TypeOK
  <2> QED BY <1>1, <1>2, <2>1 DEF Exchanging, ThisCoupler
<1>4. q \in Model /\ q # p /\ n \in Entries
  BY <1>0, <1>1, <1>3, AtCoupler
<1>5. n = prism_coupler[p][nc[p]].namID /\ q = prism_coupler[p][nc[p]].comp
  BY <1>0 DEF ThisCoupler
<1>6. Pars(n) \in Messages /\ Pars(n) = <<"pars", n>>
  BY <1>4 DEF Pars, Messages
<1>7. /\ net' \in [Model -> [Model -> Seq(Messages)]]
      /\ net'[p][q] = Append(net[p][q], Pars(n))
      /\ \A r \in Model \ {p} : net'[r] = net[r]
      /\ \A r \in Model \ {q} : net'[p][r] = net[p][r]
  <2>1. net \in [Model -> [Model -> Seq(Messages)]]
    BY <1>1 DEF HandTypes
  <2>2. Append(net[p][q], Pars(n)) \in Seq(Messages)
    BY <1>4, <1>6, <2>1, AppendProperties
  <2> QED BY <1>2, <1>4, <1>6, <2>1, <2>2
<1>8. HandTypes'
  BY <1>1, <1>2, <1>7 DEF HandTypes
<1>9. pc'[p] = "pars" /\ nc' = [nc EXCEPT ![p] = nc[p]]
  BY <1>1, <1>2
<1>10. ASSUME OneHome(prism_var)
       PROVE  /\ \A r \in Model \ {p} : PairAt(p, r)'
              /\ RoutersAre(prism_coupler[p], nc[p], "pars", router'[p])
  <2>1. Paired /\ RoutersMade
    BY <1>10 DEF HandInv
  <2>2. ASSUME NEW r \in Model \ {p}, r # q PROVE PairAt(p, r)'
    <3>1. /\ Talk(prism_coupler[p], nc[p], pc[p], r) = "no"
          /\ Talk(prism_coupler'[p], nc'[p], pc'[p], r) = "no"
      <4>1. prism_coupler[p][nc[p]].comp # r
        BY <1>5, <2>2
      <4>2. \A l : Talk(prism_coupler[p], nc[p], l, r) = "no"
        BY <4>1, TalkIs
      <4> QED BY <4>2, <1>2
    <3>2. pc'[r] = pc[r] /\ nc'[r] = nc[r] /\ prism_coupler'[r] = prism_coupler[r]
      BY <1>1, <1>2
    <3> QED BY <1>2, <1>7, <2>1, <2>2, <3>1, <3>2, PairKept, ZenonT(30)
  <2>3. PairAt(p, q)'
    <3>1. /\ Talk(prism_coupler[p], nc[p], pc[p], q) = "no"
          /\ Talk(prism_coupler[p], nc[p], "pars", q) = "pars"
          /\ Talk(prism_coupler[q], nc[q], pc[q], p) \in Stages
      <4>1. \A cs, c : Talk(cs, c, "router", q) = "no"
        BY TalkIs
      <4>2. Talk(prism_coupler[p], nc[p], "pars", q) = "pars"
        BY <1>5, TalkIs
      <4>3. Talk(prism_coupler[q], nc[q], pc[q], p) \in Stages
        BY TalkIs
      <4> QED BY <4>1, <4>2, <4>3, <1>2
    <3>2. pc'[q] = pc[q] /\ net'[q][p] = net[q][p]
      BY <1>1, <1>2, <1>4, <1>7
    <3>3. PairOf(EntriesBelow(prism_coupler[p], q, nc[p]), EntriesBelow(prism_coupler[q], p, nc[q]),
                 n, prism_coupler[q][nc[q]].namID,
                 "no", Talk(prism_coupler[q], nc[q], pc[q], p), net[p][q], net[q][p])
      BY <1>4, <1>5, <2>1, <3>1 DEF Paired, PairAt
    <3>4. PairOf(EntriesBelow(prism_coupler[p], q, nc[p]), EntriesBelow(prism_coupler[q], p, nc[q]),
                 n, prism_coupler[q][nc[q]].namID,
                 "pars", Talk(prism_coupler[q], nc[q], pc[q], p),
                 Append(net[p][q], Pars(n)), net[q][p])
      BY <3>1, <3>3, PairSends
    <3> QED BY <1>2, <1>5, <1>7, <1>9, <3>1, <3>2, <3>4, ZenonT(30) DEF PairAt
  <2>4. RoutersAre(prism_coupler[p], nc[p], "pars", router[p])
    BY <1>2, <2>1 DEF RoutersMade, RoutersAre
  <2> QED BY <1>2, <2>2, <2>3, <2>4
<1> QED
  <2>1. \A r \in Model \ {p} : /\ router'[r] = router[r]
                               /\ \A r2 \in Model \ {p} : net'[r][r2] = net[r][r2]
    BY <1>2, <1>7
  <2>2. nc[p] \in Nat /\ prism_var' = prism_var /\ prism_coupler' = prism_coupler
    BY <1>1, <1>2
  <2> QED BY <1>1, <1>2, <1>3, <1>8, <1>9, <1>10, <2>1, <2>2, LoopStep

LEMMA RecvParsHand ==
  ASSUME HandInv, NamesPaired, NEW p \in Model, RecvPars(p) PROVE HandInv'
<1>0. PICK q, n : q = ThisCoupler(p).comp /\ n = ThisCoupler(p).namID
  OBVIOUS
<1>1. /\ SetupInv /\ HandTypes /\ Quiet /\ SetupInv'
      /\ pc \in [Model -> {"define", "share", "match", "router", "pars", "segs"}]
      /\ nc \in [Model -> Nat] /\ prism_coupler[p] \in Seq(CouplerType)
  BY LoopTypes, StepSetup DEF HandInv, SetupInv, Step
<1>2. /\ pc[p] = "pars" /\ net[q][p] # <<>>
      /\ router' = [router EXCEPT ![p] = Append(@, [pars |-> Head(net[q][p]), segs |-> <<>>])]
      /\ net' = [net EXCEPT ![q][p] = Tail(@), ![p][q] = Append(@, <<"segs", n>>)]
      /\ pc' = [pc EXCEPT ![p] = "segs"]
      /\ UNCHANGED <<prism_var, prism_coupler, nc>>
  BY <1>0 DEF RecvPars, At
<1>3. nc[p] \in Exchanging(p)
  BY <1>1, <1>2 DEF Quiet
<1>4. q \in Model /\ q # p /\ n \in Entries /\ nc[p] \in Exchanges(prism_coupler[p])
  BY <1>0, <1>1, <1>3, AtCoupler
<1>5. n = prism_coupler[p][nc[p]].namID /\ q = prism_coupler[p][nc[p]].comp
  BY <1>0 DEF ThisCoupler
<1>6. Segs(n) \in Messages /\ Segs(n) = <<"segs", n>>
  BY <1>4 DEF Segs, Messages
<1>7. /\ net' \in [Model -> [Model -> Seq(Messages)]]
      /\ net'[p][q] = Append(net[p][q], Segs(n)) /\ net'[q][p] = Tail(net[q][p])
      /\ \A r, r2 \in Model : <<r, r2>> # <<p, q>> /\ <<r, r2>> # <<q, p>> =>
           net'[r][r2] = net[r][r2]
  <2>1. net \in [Model -> [Model -> Seq(Messages)]]
    BY <1>1 DEF HandTypes
  <2>2. Append(net[p][q], Segs(n)) \in Seq(Messages) /\ Tail(net[q][p]) \in Seq(Messages)
    BY <1>2, <1>4, <1>6, <2>1, AppendProperties, HeadTailProperties
  <2> QED BY <1>2, <1>4, <1>6, <2>1, <2>2
<1>8. PICK rec : rec = [pars |-> Head(net[q][p]), segs |-> <<>>]
  OBVIOUS
<1>9. rec \in Received /\ router[p] \in Seq(Received)
      /\ router' \in [Model -> Seq(Received)]
      /\ router'[p] = Append(router[p], rec)
      /\ \A r \in Model \ {p} : router'[r] = router[r]
  <2>1. router \in [Model -> Seq(Received)] /\ net[q][p] \in Seq(Messages)
    BY <1>1, <1>4 DEF HandTypes
  <2>2. Head(net[q][p]) \in Messages
    BY <1>2, <2>1, HeadTailProperties
  <2>3. rec \in Received
    BY <1>8, <2>2 DEF Received
  <2>4. Append(router[p], rec) \in Seq(Received)
    BY <2>1, <2>3, AppendProperties
  <2> QED BY <1>2, <1>8, <2>1, <2>3, <2>4
<1>10. HandTypes'
  BY <1>7, <1>9 DEF HandTypes
<1>11. pc'[p] = "segs" /\ nc' = [nc EXCEPT ![p] = nc[p]]
  BY <1>1, <1>2
<1>12. ASSUME OneHome(prism_var)
       PROVE  /\ \A r \in Model \ {p} : PairAt(p, r)'
              /\ RoutersAre(prism_coupler[p], nc[p], "segs", router'[p])
  <2>1. Paired /\ RoutersMade
    BY <1>12 DEF HandInv
  <2>2. ASSUME NEW r \in Model \ {p}, r # q PROVE PairAt(p, r)'
    <3>1. /\ Talk(prism_coupler[p], nc[p], pc[p], r) = "no"
          /\ Talk(prism_coupler'[p], nc'[p], pc'[p], r) = "no"
      <4>1. prism_coupler[p][nc[p]].comp # r /\ prism_coupler'[p][nc'[p]].comp # r
        BY <1>2, <1>5, <2>2
      <4> QED BY <4>1, TalkIs
    <3>2. pc'[r] = pc[r] /\ nc'[r] = nc[r] /\ prism_coupler'[r] = prism_coupler[r]
      BY <1>1, <1>2
    <3>3. net'[p][r] = net[p][r] /\ net'[r][p] = net[r][p]
      BY <1>7, <2>2
    <3> QED BY <1>2, <2>1, <2>2, <3>1, <3>2, <3>3, PairKept
  <2>3. PICK m, t, d, e : /\ m = prism_coupler[q][nc[q]].namID
                          /\ t = Talk(prism_coupler[q], nc[q], pc[q], p)
                          /\ d = EntriesBelow(prism_coupler[p], q, nc[p])
                          /\ e = EntriesBelow(prism_coupler[q], p, nc[q])
    OBVIOUS
  <2>4. /\ t \in Stages
        /\ Talk(prism_coupler[p], nc[p], pc[p], q) = "pars"
        /\ Talk(prism_coupler[p], nc[p], "segs", q) = "segs"
    <3>1. t \in Stages
      BY <2>3, TalkIs
    <3>2. Talk(prism_coupler[p], nc[p], pc[p], q) = "pars"
      BY <1>2, <1>5, TalkIs, ZenonT(30)
    <3>3. Talk(prism_coupler[p], nc[p], "segs", q) = "segs"
      BY <1>5, TalkIs
    <3> QED BY <3>1, <3>2, <3>3
  <2>5. PairOf(d, e, n, m, "pars", t, net[p][q], net[q][p])
    BY <1>4, <1>5, <2>1, <2>3, <2>4 DEF Paired, PairAt
  <2>6. /\ t # "no" /\ d = e /\ Head(net[q][p]) = Pars(m)
        /\ PairOf(d, e, n, m, "segs", t, Append(net[p][q], Segs(n)), Tail(net[q][p]))
    BY <1>2, <2>4, <2>5, PairTakesPars
  <2>7. m = n
    BY <1>0, <1>2, <1>4, <1>5, <1>12, <2>3, <2>6, SameEntry
  <2>8. PairAt(p, q)'
    <3>1. pc'[q] = pc[q] /\ nc' = nc /\ prism_coupler' = prism_coupler
      BY <1>1, <1>2, <1>4
    <3>2. PairOf(d, e, n, m, "segs", t, net'[p][q], net'[q][p])
      BY <1>7, <2>6
    <3>3. Talk(prism_coupler[p], nc[p], pc'[p], q) = "segs"
      BY <1>11, <2>4
    <3> QED BY <1>5, <2>3, <3>1, <3>2, <3>3 DEF PairAt
  <2>9. RoutersAre(prism_coupler[p], nc[p], "segs", router'[p])
    <3>1. RoutersAre(prism_coupler[p], nc[p], "pars", router[p])
      BY <1>2, <2>1 DEF RoutersMade
    <3>2. rec = [pars |-> Pars(prism_coupler[p][nc[p]].namID), segs |-> <<>>]
      BY <1>5, <1>8, <2>6, <2>7
    <3> QED BY <1>1, <1>4, <1>9, <3>1, <3>2, RoutersAdd
  <2> QED BY <2>2, <2>8, <2>9
<1> QED
  <2>1. \A r \in Model \ {p} : /\ router'[r] = router[r]
                               /\ \A r2 \in Model \ {p} : net'[r][r2] = net[r][r2]
    BY <1>7, <1>9
  <2>2. nc[p] \in Nat /\ prism_var' = prism_var /\ prism_coupler' = prism_coupler
    BY <1>1, <1>2
  <2> QED BY <1>1, <1>2, <1>3, <1>10, <1>11, <1>12, <2>1, <2>2, LoopStep

LEMMA RecvSegsHand ==
  ASSUME HandInv, NamesPaired, NEW p \in Model, RecvSegs(p) PROVE HandInv'
<1>0. PICK q, n : q = ThisCoupler(p).comp /\ n = ThisCoupler(p).namID
  OBVIOUS
<1>1. /\ SetupInv /\ HandTypes /\ Quiet /\ SetupInv'
      /\ pc \in [Model -> {"define", "share", "match", "router", "pars", "segs"}]
      /\ nc \in [Model -> Nat] /\ prism_coupler[p] \in Seq(CouplerType)
  BY LoopTypes, StepSetup DEF HandInv, SetupInv, Step
<1>2. /\ pc[p] = "segs" /\ net[q][p] # <<>>
      /\ router' = [router EXCEPT ![p][Len(router[p])].segs = Head(net[q][p])]
      /\ net' = [net EXCEPT ![q][p] = Tail(@)]
      /\ nc' = [nc EXCEPT ![p] = @ + 1]
      /\ pc' = [pc EXCEPT ![p] = "router"]
      /\ UNCHANGED <<prism_var, prism_coupler>>
  BY <1>0 DEF RecvSegs, At
<1>3. nc[p] \in Exchanging(p)
  BY <1>1, <1>2 DEF Quiet
<1>4. /\ q \in Model /\ q # p /\ n \in Entries /\ nc[p] \in Exchanges(prism_coupler[p])
      /\ nc[p] \in Shared(prism_coupler[p], q)
  BY <1>0, <1>1, <1>3, AtCoupler
<1>5. n = prism_coupler[p][nc[p]].namID /\ q = prism_coupler[p][nc[p]].comp
  BY <1>0 DEF ThisCoupler
<1>6. Head(net[q][p]) \in Messages /\ Tail(net[q][p]) \in Seq(Messages)
  <2>1. net[q][p] \in Seq(Messages)
    BY <1>1, <1>4 DEF HandTypes
  <2> QED BY <1>2, <2>1, HeadTailProperties
<1>7. /\ net' \in [Model -> [Model -> Seq(Messages)]]
      /\ net'[q][p] = Tail(net[q][p])
      /\ \A r, r2 \in Model : <<r, r2>> # <<q, p>> => net'[r][r2] = net[r][r2]
  <2>1. net \in [Model -> [Model -> Seq(Messages)]]
    BY <1>1 DEF HandTypes
  <2> QED BY <1>2, <1>4, <1>6, <2>1
<1>8. PICK rs : rs = [router[p] EXCEPT ![Len(router[p])] =
                        [router[p][Len(router[p])] EXCEPT !.segs = Head(net[q][p])]]
  OBVIOUS
<1>9. router[p] \in Seq(Received) /\ router' = [router EXCEPT ![p] = rs]
  BY <1>1, <1>2, <1>8 DEF HandTypes
<1>10. rs \in Seq(Received)
  <2>1. CASE Len(router[p]) \in DOMAIN router[p]
    <3> DEFINE rec == [router[p][Len(router[p])] EXCEPT !.segs = Head(net[q][p])]
    <3>1. router[p][Len(router[p])] \in Received
      BY <1>9, <2>1
    <3>2. rec \in Received
      BY <1>6, <3>1 DEF Received
    <3> HIDE DEF rec
    <3>3. Len(router[p]) \in 1..Len(router[p])
      BY <1>9, <2>1
    <3>4. [router[p] EXCEPT ![Len(router[p])] = rec] \in Seq(Received)
      BY <1>9, <3>2, <3>3, ExceptSeq
    <3> QED BY <1>8, <3>4 DEF rec
  <2>2. CASE Len(router[p]) \notin DOMAIN router[p]
    <3>1. rs = router[p]
      BY <1>8, <1>9, <2>2
    <3> QED BY <1>9, <3>1
  <2> QED BY <2>1, <2>2
<1>11. /\ router' \in [Model -> Seq(Received)] /\ router'[p] = rs
       /\ \A r \in Model \ {p} : router'[r] = router[r]
  <2>1. router \in [Model -> Seq(Received)]
    BY <1>1 DEF HandTypes
  <2> QED BY <1>9, <1>10, <2>1
<1>12. HandTypes'
  BY <1>7, <1>11 DEF HandTypes
<1>13. pc'[p] = "router" /\ nc' = [nc EXCEPT ![p] = nc[p] + 1] /\ nc'[p] = nc[p] + 1
  BY <1>1, <1>2
<1>14. ASSUME OneHome(prism_var)
       PROVE  /\ \A r \in Model \ {p} : PairAt(p, r)'
              /\ RoutersAre(prism_coupler[p], nc[p] + 1, "router", router'[p])
  <2>1. Paired /\ RoutersMade
    BY <1>14 DEF HandInv
  <2>2. ASSUME NEW r \in Model \ {p}, r # q PROVE PairAt(p, r)'
    <3>1. /\ Talk(prism_coupler[p], nc[p], pc[p], r) = "no"
          /\ Talk(prism_coupler'[p], nc'[p], pc'[p], r) = "no"
      <4>1. prism_coupler[p][nc[p]].comp # r
        BY <1>5, <2>2
      <4>2. Talk(prism_coupler[p], nc[p], pc[p], r) = "no"
        BY <4>1, TalkIs
      <4>3. \A cs, c : Talk(cs, c, "router", r) = "no"
        BY TalkIs
      <4> QED BY <4>2, <4>3, <1>13
    <3>2. pc'[r] = pc[r] /\ nc'[r] = nc[r] /\ prism_coupler'[r] = prism_coupler[r]
      BY <1>1, <1>2
    <3>3. net'[p][r] = net[p][r] /\ net'[r][p] = net[r][p]
      BY <1>4, <1>7, <2>2
    <3>4. EntriesBelow(prism_coupler[p], r, nc[p] + 1) = EntriesBelow(prism_coupler[p], r, nc[p])
      <4>1. nc[p] \notin Shared(prism_coupler[p], r)
        BY <1>5, <2>2 DEF Shared
      <4> QED BY <1>1, <4>1, EntriesNext
    <3> QED BY <1>2, <1>13, <2>1, <2>2, <3>1, <3>2, <3>3, <3>4, PairKept
  <2>3. PICK m, t, d, e, n2 : /\ m = prism_coupler[q][nc[q]].namID
                              /\ t = Talk(prism_coupler[q], nc[q], pc[q], p)
                              /\ d = EntriesBelow(prism_coupler[p], q, nc[p])
                              /\ e = EntriesBelow(prism_coupler[q], p, nc[q])
                              /\ n2 = prism_coupler[p][nc[p] + 1].namID
    OBVIOUS
  <2>4. /\ t \in Stages
        /\ Talk(prism_coupler[p], nc[p], pc[p], q) = "segs"
        /\ Talk(prism_coupler[p], nc[p] + 1, "router", q) = "no"
    <3>1. t \in Stages
      BY <2>3, TalkIs
    <3>2. Talk(prism_coupler[p], nc[p], pc[p], q) = "segs"
      BY <1>2, <1>5, TalkIs, ZenonT(30)
    <3>3. Talk(prism_coupler[p], nc[p] + 1, "router", q) = "no"
      BY TalkIs
    <3> QED BY <3>1, <3>2, <3>3
  <2>5. PairOf(d, e, n, m, "segs", t, net[p][q], net[q][p])
    BY <1>4, <1>5, <2>1, <2>3, <2>4 DEF Paired, PairAt
  <2>6. d = e /\ t # "no" => n = m
    BY <1>0, <1>2, <1>4, <1>5, <1>14, <2>3, SameEntry
  <2>7. /\ Head(net[q][p]) = Segs(n)
        /\ PairOf(d \cup {n}, e, n2, m, "no", t, net[p][q], Tail(net[q][p]))
    BY <1>2, <2>4, <2>5, <2>6, PairTakesSegs
  <2>8. EntriesBelow(prism_coupler[p], q, nc[p] + 1) = d \cup {n}
    BY <1>1, <1>4, <1>5, <2>3, EntriesNext
  <2>9. PairAt(p, q)'
    <3>1. pc'[q] = pc[q] /\ nc'[q] = nc[q] /\ net'[p][q] = net[p][q]
      BY <1>1, <1>2, <1>4, <1>7
    <3> QED BY <1>2, <1>7, <1>13, <2>3, <2>4, <2>7, <2>8, <3>1 DEF PairAt
  <2>10. RoutersAre(prism_coupler[p], nc[p] + 1, "router", router'[p])
    <3>1. RoutersAre(prism_coupler[p], nc[p], "segs", router[p])
      BY <1>2, <2>1 DEF RoutersMade
    <3>2. rs = [router[p] EXCEPT ![Len(router[p])] =
                  [router[p][Len(router[p])] EXCEPT !.segs = Segs(prism_coupler[p][nc[p]].namID)]]
      BY <1>5, <1>8, <2>7
    <3>3. RoutersAre(prism_coupler[p], nc[p] + 1, "router", rs)
      BY <1>1, <1>4, <1>9, <3>1, <3>2, RoutersDone
    <3> QED BY <1>11, <3>3
  <2> QED BY <2>2, <2>9, <2>10
<1> QED
  <2>1. \A r \in Model \ {p} : /\ router'[r] = router[r]
                               /\ \A r2 \in Model \ {p} : net'[r][r2] = net[r][r2]
    BY <1>7, <1>11
  <2>2. PICK k : k = nc[p] + 1
    OBVIOUS
  <2>3. /\ k \in Nat /\ prism_var' = prism_var /\ prism_coupler' = prism_coupler
        /\ nc' = [nc EXCEPT ![p] = k] /\ pc' = [pc EXCEPT ![p] = "router"]
        /\ pc[p] \in {"router", "pars", "segs"}
    BY <1>1, <1>2, <1>13, <2>2
  <2>4. OneHome(prism_var) => /\ \A r \in Model \ {p} : PairAt(p, r)'
                              /\ RoutersAre(prism_coupler[p], k, "router", router'[p])
    BY <1>14, <2>2
  <2> QED BY <1>1, <1>12, <2>1, <2>3, <2>4, LoopStep

LEMMA SkipRouterHand ==
  ASSUME HandInv, NEW p \in Model, SkipRouter(p) PROVE HandInv'
<1>1. /\ SetupInv /\ HandTypes /\ Quiet /\ SetupInv'
      /\ pc \in [Model -> {"define", "share", "match", "router", "pars", "segs"}]
      /\ nc \in [Model -> Nat] /\ prism_coupler[p] \in Seq(CouplerType)
  BY LoopTypes, StepSetup DEF HandInv, SetupInv, Step
<1>2. /\ pc[p] = "router" /\ ~ prism_coupler[p][nc[p]].sndrcv
      /\ nc' = [nc EXCEPT ![p] = @ + 1]
      /\ UNCHANGED <<prism_var, prism_coupler, pc, router, net>>
  BY DEF SkipRouter, At, ThisCoupler
<1>3. PICK k : k = nc[p] + 1
  OBVIOUS
<1>4. /\ k \in Nat /\ nc' = [nc EXCEPT ![p] = k] /\ nc'[p] = k
      /\ pc' = [pc EXCEPT ![p] = "router"]
      /\ \A r \in Model \ {p} : nc'[r] = nc[r]
  BY <1>1, <1>2, <1>3
<1>5. HandTypes'
  BY <1>1, <1>2 DEF HandTypes
<1>6. ASSUME OneHome(prism_var)
      PROVE  /\ \A r \in Model \ {p} : PairAt(p, r)'
             /\ RoutersAre(prism_coupler[p], k, "router", router'[p])
  <2>1. Paired /\ RoutersMade
    BY <1>6 DEF HandInv
  <2>2. nc[p] \notin Exchanges(prism_coupler[p])
    BY <1>2 DEF Exchanges
  <2>3. ASSUME NEW r \in Model \ {p} PROVE PairAt(p, r)'
    <3>1. /\ Talk(prism_coupler[p], nc[p], pc[p], r) = "no"
          /\ Talk(prism_coupler'[p], nc'[p], pc'[p], r) = "no"
      BY <1>2, TalkIs
    <3>2. EntriesBelow(prism_coupler[p], r, k) = EntriesBelow(prism_coupler[p], r, nc[p])
      <4>1. nc[p] \notin Shared(prism_coupler[p], r)
        BY <2>2 DEF Shared
      <4> QED BY <1>1, <1>3, <4>1, EntriesNext
    <3> QED BY <1>2, <1>4, <2>1, <2>3, <3>1, <3>2, PairKept
  <2>4. RoutersAre(prism_coupler[p], nc[p], "router", router[p])
    BY <1>2, <2>1 DEF RoutersMade
  <2>5. RoutersAre(prism_coupler[p], k, "router", router[p])
    BY <1>1, <1>3, <2>2, <2>4, RoutersSkip
  <2> QED BY <1>2, <2>3, <2>5
<1>7. \A r \in Model \ {p} : /\ router'[r] = router[r]
                             /\ \A q \in Model \ {p} : net'[r][q] = net[r][q]
  BY <1>2
<1>8. /\ prism_var' = prism_var /\ prism_coupler' = prism_coupler
      /\ pc[p] \in {"router", "pars", "segs"}
  BY <1>2
<1> QED BY <1>1, <1>4, <1>5, <1>6, <1>7, <1>8, LoopStep

\* The steps of a model before its loop.
LEMMA BeforeLoop ==
  ASSUME HandInv, SetupInv', NEW p \in Model,
         NEW l \in {"define", "share", "match", "router"},
         pc[p] \in {"define", "share", "match"}, pc' = [pc EXCEPT ![p] = l],
         l \in {"define", "share"} => pc[p] \in {"define", "share"},
         UNCHANGED <<prism_var, nc, router, net>>,
         \A r \in Model \ {p} : prism_coupler'[r] = prism_coupler[r]
  PROVE  HandInv'
<1>1. /\ SetupInv /\ HandTypes /\ Quiet
      /\ pc \in [Model -> {"define", "share", "match", "router", "pars", "segs"}]
      /\ nc \in [Model -> Nat] /\ prism_coupler[p] \in Seq(CouplerType)
  BY LoopTypes DEF HandInv, SetupInv
<1>2. prism_coupler'[p] \in Seq(CouplerType)
  BY DEF SetupInv, IInv, TypeOK
<1>3. nc[p] = 1 /\ router[p] = <<>> /\ nc'[p] = 1 /\ router'[p] = <<>>
  BY <1>1 DEF Quiet
<1>4. pc'[p] = l /\ \A r \in Model \ {p} : pc'[r] = pc[r] /\ nc'[r] = nc[r]
  BY <1>1
<1>5. HandTypes'
  BY <1>1 DEF HandTypes
<1>6. Quiet'
  <2>1. ASSUME NEW r \in Model, pc'[r] \in {"define", "share", "match"}
        PROVE  nc'[r] = 1 /\ router'[r] = <<>>
    BY <1>1, <1>3, <1>4, <2>1 DEF Quiet
  <2>2. ASSUME NEW r \in Model, pc'[r] \in {"pars", "segs"} PROVE nc'[r] \in Exchanging(r)'
    <3>1. r # p
      BY <1>4, <2>2
    <3>2. pc[r] \in {"pars", "segs"} /\ prism_coupler'[r] = prism_coupler[r] /\ nc'[r] = nc[r]
      BY <1>4, <2>2, <3>1
    <3>3. Exchanging(r)' = Exchanging(r)
      BY <3>2 DEF Exchanging
    <3> QED BY <1>1, <3>2, <3>3 DEF Quiet
  <2>3. ASSUME \A r \in Model : pc'[r] \in {"define", "share"}
        PROVE  \A r, q \in Model : net'[r][q] = <<>>
    <3>1. \A r \in Model : pc[r] \in {"define", "share"}
      BY <1>4, <2>3
    <3> QED BY <1>1, <3>1 DEF Quiet
  <2> QED BY <2>1, <2>2, <2>3 DEF Quiet
<1>7. ASSUME OneHome(prism_var)' PROVE Paired' /\ RoutersMade'
  <2>1. Paired /\ RoutersMade
    BY <1>7 DEF HandInv, OneHome
  <2>2. ASSUME NEW r \in Model \ {p} PROVE PairAt(p, r)'
    <3>1. /\ Talk(prism_coupler[p], nc[p], pc[p], r) = "no"
          /\ Talk(prism_coupler'[p], nc'[p], pc'[p], r) = "no"
      BY <1>4, TalkIs
    <3>2. EntriesBelow(prism_coupler'[p], r, nc'[p]) = EntriesBelow(prism_coupler[p], r, nc[p])
      BY <1>1, <1>2, <1>3, EntriesNext
    <3> QED BY <1>4, <2>1, <2>2, <3>1, <3>2, PairKept
  <2>3. Paired'
    BY <1>4, <2>1, <2>2, PairsOf
  <2>4. RoutersAre(prism_coupler'[p], 1, l, <<>>)
    BY <1>2, RoutersNone
  <2>5. ASSUME NEW r \in Model \ {p}
        PROVE  RoutersAre(prism_coupler'[r], nc'[r], pc'[r], router'[r])
    BY <1>4, <2>1, <2>5 DEF RoutersMade
  <2> QED BY <1>3, <1>4, <2>3, <2>4, <2>5 DEF RoutersMade
<1> QED BY <1>5, <1>6, <1>7 DEF HandInv

\* While models define their variables nothing is exchanged.
LEMMA NothingYet ==
  ASSUME Quiet, IInv, \A p \in Model : pc[p] \in {"define", "share"}
  PROVE  Paired /\ RoutersMade
<1>1. \A p \in Model : /\ nc[p] = 1 /\ router[p] = <<>> /\ \A q \in Model : net[p][q] = <<>>
  BY DEF Quiet
<1>2. \A p \in Model : prism_coupler[p] \in Seq(CouplerType)
  BY LoopTypes
<1>3. ASSUME NEW p \in Model, NEW q \in Model PROVE PairAt(p, q)
  <2>1. /\ EntriesBelow(prism_coupler[p], q, 1) = {} /\ EntriesBelow(prism_coupler[q], p, 1) = {}
    BY <1>2, EntriesNext
  <2>2. /\ Talk(prism_coupler[p], nc[p], pc[p], q) = "no"
        /\ Talk(prism_coupler[q], nc[q], pc[q], p) = "no"
    BY TalkIs
  <2>3. \A n, m : PairOf({}, {}, n, m, "no", "no", <<>>, <<>>)
    BY DEF PairOf, Level, Sent
  <2> QED BY <1>1, <2>1, <2>2, <2>3 DEF PairAt
<1>4. ASSUME NEW p \in Model PROVE RoutersAre(prism_coupler[p], nc[p], pc[p], router[p])
  <2>1. pc[p] # "segs"
    OBVIOUS
  <2>2. RoutersAre(prism_coupler[p], 1, pc[p], <<>>)
    BY <1>2, <2>1, RoutersNone
  <2> QED BY <1>1, <2>2
<1> QED BY <1>3, <1>4 DEF Paired, RoutersMade

LEMMA DefVarHand ==
  ASSUME HandInv, NEW p \in Model, DefVar(p) PROVE HandInv'
<1>1. /\ SetupInv /\ HandTypes /\ Quiet /\ SetupInv' /\ IInv /\ Phases
      /\ pc \in [Model -> {"define", "share", "match", "router", "pars", "segs"}]
  BY LoopTypes, StepSetup DEF HandInv, SetupInv, Step
<1>2. pc[p] = "define" /\ UNCHANGED <<pc, prism_coupler, nc, router, net>>
  BY DEF DefVar, At
<1>3. \A r \in Model : pc[r] \in {"define", "share"}
  BY <1>1, <1>2 DEF Phases
<1>4. Paired /\ RoutersMade
  BY <1>1, <1>3, NothingYet
<1>5. Paired' /\ RoutersMade'
  BY <1>2, <1>4 DEF Paired, PairAt, RoutersMade
<1>6. HandTypes' /\ Quiet'
  BY <1>1, <1>2 DEF HandTypes, Quiet, Exchanging
<1> QED BY <1>1, <1>5, <1>6 DEF HandInv

LEMMA StepHand ==
  ASSUME HandInv, NamesPaired, NEW p \in Model, Step(p) PROVE HandInv'
<1>1. /\ SetupInv'
      /\ pc \in [Model -> {"define", "share", "match", "router", "pars", "segs"}]
      /\ prism_coupler \in [Model -> Seq(CouplerType)]
  BY LoopTypes, SetupTypes, StepSetup DEF HandInv, SetupInv
<1>2. ASSUME EndDef(p) PROVE HandInv'
  <2>1. /\ pc[p] = "define" /\ pc' = [pc EXCEPT ![p] = "share"]
        /\ UNCHANGED <<prism_var, prism_coupler, nc, router, net>>
    BY <1>2 DEF EndDef, At
  <2> QED BY <1>1, <2>1, BeforeLoop
<1>3. ASSUME Share(p) PROVE HandInv'
  <2>1. /\ pc[p] = "share" /\ pc' = [pc EXCEPT ![p] = "match"]
        /\ UNCHANGED <<prism_var, prism_coupler, nc, router, net>>
    BY <1>3 DEF Share, At
  <2> QED BY <1>1, <2>1, BeforeLoop
<1>4. ASSUME EndMatch(p) PROVE HandInv'
  <2>1. /\ pc[p] = "match" /\ pc' = [pc EXCEPT ![p] = "router"]
        /\ UNCHANGED <<prism_var, prism_coupler, nc, router, net>>
    BY <1>4 DEF EndMatch, At
  <2> QED BY <1>1, <2>1, BeforeLoop
<1>5. ASSUME MatchEntry(p) PROVE HandInv'
  <2>1. /\ pc[p] = "match" /\ UNCHANGED <<pc, prism_var, nc, router, net>>
    BY <1>5 DEF MatchEntry, At
  <2>2. \A r \in Model \ {p} : prism_coupler'[r] = prism_coupler[r]
    <3>1. prism_coupler' = prism_coupler \/ \E cs : prism_coupler' = [prism_coupler EXCEPT ![p] = cs]
      BY <1>5, Zenon DEF MatchEntry
    <3> QED BY <1>1, <3>1
  <2>3. pc' = [pc EXCEPT ![p] = "match"]
    BY <1>1, <2>1
  <2> QED BY <1>1, <2>1, <2>2, <2>3, BeforeLoop
<1> QED
  BY <1>2, <1>3, <1>4, <1>5, DefVarHand, SkipRouterHand, SendParsHand, RecvParsHand,
     RecvSegsHand DEF Step

LEMMA HandInitInv == Init => HandInv
<1> SUFFICES ASSUME Init PROVE HandInv
  OBVIOUS
<1>1. SetupInv /\ IInv
  BY SetupInitInv DEF SetupInv
<1>2. /\ pc = [p \in Model |-> "define"] /\ nc = [p \in Model |-> 1]
      /\ router = [p \in Model |-> <<>>] /\ net = [p \in Model |-> [q \in Model |-> <<>>]]
  BY DEF Init
<1>3. HandTypes /\ Quiet
  BY <1>2 DEF HandTypes, Quiet
<1>4. Paired /\ RoutersMade
  BY <1>1, <1>2, <1>3, NothingYet
<1> QED BY <1>1, <1>3, <1>4 DEF HandInv

\* When the variables of each side of an entry are those of one model, the router
\* of a coupler is made of what the other end of that coupler sent: MapHandshake_
\* and ExGSMapGSMap_ tell messages apart by their order alone.
THEOREM RoutersMeet == NamesPaired => (Spec => [](OneHome(prism_var) => RoutersPaired))
<1> SUFFICES ASSUME NamesPaired PROVE Spec => [](OneHome(prism_var) => RoutersPaired)
  OBVIOUS
<1>1. HandInv /\ [Next]_vars => HandInv'
  <2> SUFFICES ASSUME HandInv, [Next]_vars PROVE HandInv'
    OBVIOUS
  <2>1. CASE Next
    BY <2>1, StepHand DEF Next
  <2>2. CASE UNCHANGED vars
    <3>1. SetupInv'
      BY NextSetup DEF HandInv
    <3>2. HandTypes' /\ Quiet'
      BY <2>2 DEF vars, HandInv, HandTypes, Quiet, Exchanging
    <3>3. OneHome(prism_var)' => Paired' /\ RoutersMade'
      BY <2>2 DEF vars, HandInv, OneHome, Paired, PairAt, RoutersMade
    <3> QED BY <3>1, <3>2, <3>3 DEF HandInv
  <2> QED BY <2>1, <2>2
<1>2. HandInv => (OneHome(prism_var) => RoutersPaired)
  BY RoutersPairedAre DEF HandInv, RoutersMade
<1> QED BY <1>1, <1>2, HandInitInv, PTL DEF Spec

=============================================================================
