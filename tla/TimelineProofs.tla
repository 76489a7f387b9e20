--------------------------- MODULE TimelineProofs ---------------------------
(***************************************************************************)
(* Theorems about Timeline, for every set of databases and robots, every   *)
(* recording, batch size and foreign rows, and every command.              *)
(*                                                                         *)
(* What an answer is rests on one idea: Lists(t, S, f) says that f is the  *)
(* rows S of the table t in the order of stamps and ids.  SelectIds makes  *)
(* such a list, and there is only one of it.                               *)
(***************************************************************************)
EXTENDS Timeline, Counting, SequenceTheorems

(* f lists the rows S of t in their order, each once.                      *)
Lists(t, S, f) ==
  /\ f \in Seq(S)
  /\ \A i \in S : \E p \in 1..Len(f) : f[p] = i
  /\ \A p, r \in 1..Len(f) : p < r => Earlier(t, f[p], f[r])

Order(t) == {ss \in (1..Len(t)) \X (1..Len(t)) : Earlier(t, ss[1], ss[2])}

Stamped(t) == Len(t) \in Nat /\ \A i \in 1..Len(t) : t[i].stamp \in Int

(***************************************************************************)
(* The order of the answers.                                               *)
(***************************************************************************)

LEMMA OrderIsEarlier ==
  ASSUME NEW t, NEW i \in 1..Len(t), NEW j \in 1..Len(t)
  PROVE  <<i, j>> \in Order(t) <=> Earlier(t, i, j)
BY DEF Order

(* (stamp_ns, id) is a strict and total order of the rows.                 *)
LEMMA EarlierOrders ==
  ASSUME NEW t, Stamped(t)
  PROVE  /\ \A i \in 1..Len(t) : ~Earlier(t, i, i)
         /\ \A i, j \in 1..Len(t) : i = j \/ Earlier(t, i, j) \/ Earlier(t, j, i)
         /\ \A i, j, k \in 1..Len(t) :
              Earlier(t, i, j) /\ Earlier(t, j, k) => Earlier(t, i, k)
BY DEF Stamped, Earlier

LEMMA RowsAreStamped ==
  ASSUME NEW t \in Seq(Row)
  PROVE  Stamped(t) /\ \A i \in 1..Len(t) : t[i] \in Row
<1>1. Len(t) \in Nat /\ \A i \in 1..Len(t) : t[i] \in Row
  OBVIOUS
<1>2. \A row \in Row : row.stamp \in Int
  BY BatchAssumption DEF Row, Stamp
<1> QED
  BY <1>1, <1>2 DEF Stamped

(* ORDER BY gives the rows that match, each once, in their order.          *)
LEMMA Selected ==
  ASSUME NEW t \in Seq(Row), NEW q
  PROVE  /\ Lists(t, Matching(t, q), SelectIds(t, q))
         /\ Matching(t, q) \in SUBSET (1..Len(t))
         /\ Len(SelectIds(t, q)) = Cardinality(Matching(t, q))
         /\ Len(SelectIds(t, q)) \in Nat
<1> DEFINE S == Matching(t, q)
           n == Cardinality(S)
           place == Places(Order(t), S)
           s == SelectIds(t, q)
<1>1. S \in SUBSET (1..Len(t)) /\ Stamped(t)
  BY RowsAreStamped DEF Matching
<1>2. IsFiniteSet(S)
  <2>1. IsFiniteSet(1..Len(t))
    BY <1>1, FS_Interval DEF Stamped
  <2> HIDE DEF S
  <2> QED
    BY <1>1, <2>1, FS_Subset
<1>3. \A i, j \in S : <<i, j>> \in Order(t) <=> Earlier(t, i, j)
  BY <1>1, OrderIsEarlier
<1>4. place = [i \in S |-> Cardinality({j \in S : ~Earlier(t, i, j)})]
  <2>1. \A i \in S : {j \in S : <<i, j>> \notin Order(t)} = {j \in S : ~Earlier(t, i, j)}
    BY <1>3
  <2> HIDE DEF S
  <2> QED
    BY <2>1 DEF Places
<1>5. s = [p \in 1..n |-> CHOOSE i \in S : place[i] = p]
  <2> DEFINE Enum(f) == [p \in 1..n |-> CHOOSE i \in S : f[i] = p]
  <2>1. s = Enum([i \in S |-> Cardinality({j \in S : ~Earlier(t, i, j)})])
    BY DEF SelectIds
  <2> HIDE DEF Enum
  <2>2. s = Enum(place)
    BY <1>4, <2>1
  <2> QED
    BY <2>2 DEF Enum
<1>6. /\ \A i \in S : ~Earlier(t, i, i)
      /\ \A i, j \in S : i = j \/ Earlier(t, i, j) \/ Earlier(t, j, i)
      /\ \A i, j, k \in S : Earlier(t, i, j) /\ Earlier(t, j, k) => Earlier(t, i, k)
  BY <1>1, EarlierOrders
<1>7. /\ n \in Nat
      /\ \A i \in S : place[i] \in 1..n
      /\ \A i, j \in S : <<i, j>> \in Order(t) => place[i] < place[j]
      /\ \A p \in 1..n : \E i \in S : place[i] = p
  <2>1. Orders(Order(t), S)
    <3> HIDE DEF S
    <3> QED
      BY <1>3, <1>6 DEF Orders
  <2> HIDE DEF S
  <2> QED
    BY <1>2, <2>1, Ranking
<1> HIDE DEF S, n, place, s
<1>8. \A p \in 1..n : s[p] \in S /\ place[s[p]] = p
  BY <1>5, <1>7
<1>9. s \in Seq(S) /\ Len(s) = n
  BY <1>5, <1>7, <1>8
<1>10. \A i \in S : \E p \in 1..n : s[p] = i
  <2> TAKE i \in S
  <2>1. place[i] \in 1..n
    BY <1>7
  <2>2. s[place[i]] \in S /\ place[s[place[i]]] = place[i]
    BY <1>8, <2>1
  <2>3. s[place[i]] = i
    <3> SUFFICES ASSUME s[place[i]] # i PROVE FALSE
      OBVIOUS
    <3>1. <<s[place[i]], i>> \in Order(t) \/ <<i, s[place[i]]>> \in Order(t)
      BY <1>3, <1>6, <2>2
    <3>2. place[s[place[i]]] < place[i] \/ place[i] < place[s[place[i]]]
      BY <1>7, <2>2, <3>1
    <3> QED
      BY <1>7, <2>1, <2>2, <3>2
  <2> QED
    BY <2>1, <2>3
<1>11. \A p, r \in 1..n : p < r => Earlier(t, s[p], s[r])
  <2> SUFFICES ASSUME NEW p \in 1..n, NEW r \in 1..n, p < r
               PROVE  Earlier(t, s[p], s[r])
    OBVIOUS
  <2>1. s[p] \in S /\ s[r] \in S /\ place[s[p]] = p /\ place[s[r]] = r
    BY <1>8
  <2>2. s[p] # s[r]
    BY <2>1
  <2>3. ~Earlier(t, s[r], s[p])
    <3>1. Earlier(t, s[r], s[p]) => r < p
      BY <1>3, <1>7, <2>1
    <3> QED
      BY <1>7, <3>1
  <2> QED
    BY <1>6, <2>1, <2>2, <2>3
<1> QED
  BY <1>1, <1>7, <1>9, <1>10, <1>11 DEF Lists, S, n, s

(* There is only one list of a set of rows.                                *)
LEMMA OneList ==
  ASSUME NEW t, Stamped(t), NEW S \in SUBSET (1..Len(t)), NEW f, NEW g,
         Lists(t, S, f), Lists(t, S, g)
  PROVE  f = g
<1>1. Orders(Order(t), S)
  BY OrderIsEarlier, EarlierOrders DEF Orders
<1>2. /\ f \in Seq(S) /\ g \in Seq(S) /\ Len(f) \in Nat /\ Len(g) \in Nat
      /\ \A p \in 1..Len(f) : f[p] \in S
      /\ \A p \in 1..Len(g) : g[p] \in S
      /\ \A i \in S : (\E p \in 1..Len(f) : f[p] = i) /\ (\E p \in 1..Len(g) : g[p] = i)
  BY DEF Lists
<1>3. \A p, q \in 1..Len(f) : p < q => <<f[p], f[q]>> \in Order(t)
  BY <1>2, OrderIsEarlier DEF Lists
<1>4. \A p, q \in 1..Len(g) : p < q => <<g[p], g[q]>> \in Order(t)
  BY <1>2, OrderIsEarlier DEF Lists
<1>5. InOrder(Order(t), S, Len(f), f) /\ InOrder(Order(t), S, Len(g), g)
  BY <1>2, <1>3, <1>4 DEF InOrder
<1>6. Len(f) = Len(g) /\ \A p \in 1..Len(g) : f[p] = g[p]
  BY <1>1, <1>2, <1>5, OneOrder
<1> QED
  BY <1>2, <1>6, SeqEqual

(* Two lists one behind the other list both sets.                          *)
LEMMA ListsJoin ==
  ASSUME NEW t, NEW S, NEW T, NEW f, NEW g, Lists(t, S, f), Lists(t, T, g),
         \A i \in S, j \in T : Earlier(t, i, j)
  PROVE  Lists(t, S \cup T, f \o g)
<1>1. f \in Seq(S \cup T) /\ g \in Seq(S \cup T) /\ Len(f) \in Nat /\ Len(g) \in Nat
  BY DEF Lists
<1>2. /\ f \o g \in Seq(S \cup T)
      /\ Len(f \o g) = Len(f) + Len(g)
      /\ \A p \in 1..Len(f) : (f \o g)[p] = f[p]
      /\ \A p \in 1..(Len(f) + Len(g)) : p > Len(f) => (f \o g)[p] = g[p - Len(f)]
  BY <1>1
<1>3. ASSUME NEW i \in S \cup T PROVE \E p \in 1..Len(f \o g) : (f \o g)[p] = i
  <2>1. CASE i \in S
    <3>1. PICK p \in 1..Len(f) : f[p] = i
      BY <2>1 DEF Lists
    <3> QED
      BY <1>1, <1>2, <3>1
  <2>2. CASE i \in T
    <3>1. PICK p \in 1..Len(g) : g[p] = i
      BY <2>2 DEF Lists
    <3>2. p + Len(f) \in 1..(Len(f) + Len(g)) /\ p + Len(f) > Len(f) /\ (p + Len(f)) - Len(f) = p
      BY <1>1
    <3>3. (f \o g)[p + Len(f)] = i
      BY <1>2, <3>1, <3>2
    <3> QED
      BY <1>2, <3>2, <3>3
  <2> QED
    BY <2>1, <2>2
<1>4. ASSUME NEW p \in 1..Len(f \o g), NEW r \in 1..Len(f \o g), p < r
      PROVE  Earlier(t, (f \o g)[p], (f \o g)[r])
  <2>1. CASE r <= Len(f)
    BY <1>1, <1>2, <1>4, <2>1 DEF Lists
  <2>2. CASE p > Len(f)
    <3>1. p - Len(f) \in 1..Len(g) /\ r - Len(f) \in 1..Len(g) /\ p - Len(f) < r - Len(f)
      BY <1>1, <1>2, <1>4, <2>2
    <3>2. Earlier(t, g[p - Len(f)], g[r - Len(f)])
      <4>1. \A x, y \in 1..Len(g) : x < y => Earlier(t, g[x], g[y])
        BY DEF Lists
      <4> QED
        BY <3>1, <4>1
    <3> QED
      BY <1>1, <1>2, <1>4, <2>2, <3>2
  <2>3. CASE p <= Len(f) /\ r > Len(f)
    <3>1. p \in 1..Len(f) /\ r - Len(f) \in 1..Len(g)
      BY <1>1, <1>2, <2>3
    <3>2. f[p] \in S /\ g[r - Len(f)] \in T
      <4>1. f[p] \in S
        BY <3>1 DEF Lists
      <4> DEFINE x == r - Len(f)
      <4>2. x \in 1..Len(g)
        BY <3>1
      <4> HIDE DEF x
      <4>3. g[x] \in T
        BY <4>2 DEF Lists
      <4> QED
        BY <4>1, <4>3 DEF x
    <3>3. (f \o g)[p] = f[p] /\ (f \o g)[r] = g[r - Len(f)]
      BY <1>2, <2>3, <3>1
    <3> QED
      BY <3>2, <3>3
  <2> QED
    BY <1>1, <1>2, <2>1, <2>2, <2>3
<1> QED
  BY <1>2, <1>3, <1>4 DEF Lists

(* Rows that are added at the end change nothing about the others.         *)
LEMMA AppendedRows ==
  ASSUME NEW t \in Seq(Row), NEW rows \in Seq(Row)
  PROVE  /\ t \o rows \in Seq(Row)
         /\ Len(t \o rows) \in Nat
         /\ Len(t) \in 0..Len(t \o rows)
         /\ \A i \in 1..Len(t) : i \in 1..Len(t \o rows) /\ (t \o rows)[i] = t[i]
OBVIOUS

(* An answer only grows when rows are added.                               *)
LEMMA AnswerOfMore ==
  ASSUME NEW t \in Seq(Row), NEW rows \in Seq(Row), NEW q
  PROVE  AnswerGrows(t, t \o rows, q)
<1> DEFINE u == t \o rows
           old == SelectIds(t, q)
           ids == SelectIds(u, q)
           kept == {p \in 1..Len(ids) : ids[p] <= Len(t)}
<1>1. /\ u \in Seq(Row) /\ Len(t) \in Nat /\ Len(u) \in Nat
      /\ \A i \in 1..Len(t) : i \in 1..Len(u) /\ u[i] = t[i]
  BY AppendedRows
<1>2. /\ Lists(t, Matching(t, q), old) /\ Matching(t, q) \in SUBSET (1..Len(t))
      /\ Len(old) \in Nat
  BY Selected
<1>3. /\ Lists(u, Matching(u, q), ids) /\ Matching(u, q) \in SUBSET (1..Len(u))
      /\ Len(ids) \in Nat
  BY <1>1, Selected
<1>4. Stamped(t) /\ Stamped(u)
  BY <1>1, RowsAreStamped
<1> HIDE DEF u, old, ids
<1>5. \A i \in 1..Len(t) : i \in Matching(t, q) <=> i \in Matching(u, q)
  BY <1>1 DEF Matching
<1>6. /\ \A k \in 1..Len(old) : old[k] \in Matching(t, q)
      /\ \A i \in Matching(t, q) : \E k \in 1..Len(old) : old[k] = i
      /\ \A k, l \in 1..Len(old) : k < l => Earlier(t, old[k], old[l])
  BY <1>2 DEF Lists
<1>7. /\ \A p \in 1..Len(ids) : ids[p] \in Matching(u, q)
      /\ \A i \in Matching(u, q) : \E p \in 1..Len(ids) : ids[p] = i
      /\ \A p, r \in 1..Len(ids) : p < r => Earlier(u, ids[p], ids[r])
  BY <1>3 DEF Lists
<1>8. ASSUME NEW k \in 1..Len(old)
      PROVE  \E p \in kept : ids[p] = old[k] /\ u[ids[p]] = t[old[k]]
  <2>1. old[k] \in Matching(t, q) /\ old[k] \in 1..Len(t)
    BY <1>2, <1>6
  <2>2. PICK p \in 1..Len(ids) : ids[p] = old[k]
    BY <1>5, <1>7, <2>1
  <2>3. ids[p] <= Len(t) /\ u[ids[p]] = t[old[k]]
    BY <1>1, <2>1, <2>2
  <2> QED
    BY <2>2, <2>3
<1>9. ASSUME NEW p \in kept PROVE \E k \in 1..Len(old) : ids[p] = old[k]
  <2>1. ids[p] \in Matching(u, q) /\ ids[p] \in 1..Len(t)
    BY <1>1, <1>3, <1>7
  <2>2. ids[p] \in Matching(t, q)
    BY <1>5, <2>1
  <2> QED
    BY <1>6, <2>2
<1>10. ASSUME NEW p \in kept, NEW r \in kept, p < r
       PROVE  \E k, l \in 1..Len(old) : k < l /\ ids[p] = old[k] /\ ids[r] = old[l]
  <2>1. PICK k \in 1..Len(old) : ids[p] = old[k]
    BY <1>9
  <2>2. PICK l \in 1..Len(old) : ids[r] = old[l]
    BY <1>9
  <2>3. old[k] \in 1..Len(t) /\ old[l] \in 1..Len(t)
    BY <1>2, <1>6
  <2>4. Earlier(t, old[k], old[l])
    <3>1. Earlier(u, ids[p], ids[r])
      BY <1>7, <1>10
    <3>2. u[old[k]] = t[old[k]] /\ u[old[l]] = t[old[l]]
      BY <1>1, <2>3
    <3> QED
      BY <2>1, <2>2, <3>1, <3>2 DEF Earlier
  <2>5. k # l /\ ~(l < k)
    <3>1. ~Earlier(t, old[l], old[k]) /\ old[k] # old[l]
      BY <1>4, <2>3, <2>4, EarlierOrders
    <3> QED
      BY <1>6, <3>1
  <2>6. k < l
    BY <1>2, <2>5
  <2> QED
    BY <2>1, <2>2, <2>6
<1> QED
  BY <1>8, <1>9, <1>10 DEF AnswerGrows, u, old, ids

(***************************************************************************)
(* What an answer holds.                                                   *)
(***************************************************************************)

(* They are rows of the table, in the order of their stamps.               *)
LEMMA AnswerRows ==
  ASSUME NEW t \in Seq(Row), NEW q
  PROVE  /\ Answer(t, q) \in Seq(Row)
         /\ Len(Answer(t, q)) = Cardinality(Matching(t, q))
         /\ \A p, r \in 1..Len(Answer(t, q)) :
              p < r => Answer(t, q)[p].stamp <= Answer(t, q)[r].stamp
<1> DEFINE s == SelectIds(t, q)
<1>1. /\ Lists(t, Matching(t, q), s) /\ Matching(t, q) \in SUBSET (1..Len(t))
      /\ Len(s) = Cardinality(Matching(t, q)) /\ Len(s) \in Nat
  BY Selected
<1>2. Stamped(t) /\ \A i \in 1..Len(t) : t[i] \in Row
  BY RowsAreStamped
<1> HIDE DEF s
<1>3. \A p \in 1..Len(s) : s[p] \in 1..Len(t)
  BY <1>1 DEF Lists
<1>4. Answer(t, q) \in Seq(Row) /\ Len(Answer(t, q)) = Len(s)
      /\ \A p \in 1..Len(s) : Answer(t, q)[p] = t[s[p]]
  BY <1>1, <1>2, <1>3 DEF Answer, s
<1>5. ASSUME NEW p \in 1..Len(s), NEW r \in 1..Len(s), p < r
      PROVE  t[s[p]].stamp <= t[s[r]].stamp
  <2>1. Earlier(t, s[p], s[r])
    BY <1>1, <1>5 DEF Lists
  <2>2. t[s[p]].stamp \in Int /\ t[s[r]].stamp \in Int
    BY <1>2, <1>3 DEF Stamped
  <2> QED
    BY <2>1, <2>2 DEF Earlier
<1> QED
  BY <1>1, <1>4, <1>5

(* An observation of which every row matches is in the answer as often as  *)
(* in the table.                                                           *)
LEMMA AnswerCounts ==
  ASSUME NEW t \in Seq(Row), NEW q, NEW o,
         \A i \in 1..Len(t) : Observation(t[i]) = o => Matches(t[i], q)
  PROVE  CountOf(o, t) = CountOf(o, Answer(t, q))
<1> DEFINE s == SelectIds(t, q)
           P == {p \in 1..Len(s) : Observation(t[s[p]]) = o}
           I == {i \in 1..Len(t) : Observation(t[i]) = o}
           f == [p \in P |-> s[p]]
<1>1. /\ Lists(t, Matching(t, q), s) /\ Matching(t, q) \in SUBSET (1..Len(t))
      /\ Len(s) \in Nat
  BY Selected
<1>2. \A i \in 1..Len(t) : ~Earlier(t, i, i)
  BY RowsAreStamped, EarlierOrders
<1>3. {p \in 1..Len(Answer(t, q)) : Observation(Answer(t, q)[p]) = o} = P
  BY <1>1 DEF Answer
<1> HIDE DEF s
<1>4. /\ \A p \in 1..Len(s) : s[p] \in Matching(t, q) /\ s[p] \in 1..Len(t)
      /\ \A i \in Matching(t, q) : \E p \in 1..Len(s) : s[p] = i
      /\ \A p, r \in 1..Len(s) : p < r => Earlier(t, s[p], s[r])
  BY <1>1 DEF Lists
<1>5. f \in [P -> I]
  BY <1>4
<1>6. \A p, r \in P : f[p] = f[r] => p = r
  <2> SUFFICES ASSUME NEW p \in P, NEW r \in P, s[p] = s[r] PROVE p = r
    OBVIOUS
  <2>1. ~(p < r) /\ ~(r < p)
    BY <1>2, <1>4
  <2> QED
    BY <1>1, <2>1
<1>7. \A i \in I : \E p \in P : f[p] = i
  <2> TAKE i \in I
  <2>1. i \in Matching(t, q)
    BY DEF Matching
  <2>2. PICK p \in 1..Len(s) : s[p] = i
    BY <1>4, <2>1
  <2> QED
    BY <2>2
<1>8. IsFiniteSet(P)
  <2>1. P \in SUBSET (1..Len(s)) /\ IsFiniteSet(1..Len(s))
    BY <1>1, FS_Interval
  <2> HIDE DEF P
  <2> QED
    BY <2>1, FS_Subset
<1> HIDE DEF P, I, f
<1>9. f \in Injection(P, I) /\ f \in Surjection(P, I)
  BY <1>5, <1>6, <1>7 DEF Injection, IsInjective, Surjection
<1>10. Cardinality(I) = Cardinality(P)
  BY <1>8, <1>9, FS_Surjection
<1> QED
  BY <1>3, <1>10 DEF CountOf, I

(* The row of the k-th event of robot r's session, but for its run.        *)
RecordedRow(r, k) ==
  [robot |-> r, n |-> k, run |-> 0, stamp |-> Recording[r][k].stamp,
   topic |-> Recording[r][k].topic, kind |-> "valid"]

Less == {ss \in Nat \X Nat : ss[1] < ss[2]}

(* A table that holds a robot's session once and in full answers a query   *)
(* by robot with the session in the order of its stamps, those of the same *)
(* stamp in the order in which they were recorded.                         *)
LEMMA SessionInOrder ==
  ASSUME NEW t \in Seq(Row), NEW r \in Robots, HoldsSession(t, r), NEW q,
         q.robot = r, q.topic = None, q.from = None, q.to = None
  PROVE  LET n == Len(Recording[r]) IN
         /\ n \in Nat
         /\ Len(Answer(t, q)) = n
         /\ Orders(Order(Recording[r]), 1..n)
         /\ \E h : /\ InOrder(Order(Recording[r]), 1..n, n, h)
                   /\ \A p \in 1..n : Observation(Answer(t, q)[p]) = RecordedRow(r, h[p])
<1> DEFINE rec == Recording[r]
           n == Len(rec)
           own == {i \in 1..Len(t) : t[i].robot = r}
           s == SelectIds(t, q)
           place == Places(Less, own)
           h == [p \in 1..n |-> place[s[p]]]
<1>1. n \in Nat /\ Stamped(rec)
  <2> DEFINE Ev == [stamp : Stamp, topic : Topic]
  <2>1. rec \in Seq(Ev)
    BY RecordingAssumption
  <2>2. \A e \in Ev : e.stamp \in Int
    BY BatchAssumption DEF Stamp
  <2> HIDE DEF rec, Ev
  <2> QED
    BY <2>1, <2>2 DEF Stamped
<1>2. Matching(t, q) = own
  <2>1. r # None
    BY NoneAssumption
  <2> QED
    BY <2>1 DEF Matching, Matches, OfRobot, Before
<1>3. /\ Lists(t, own, s) /\ own \in SUBSET (1..Len(t))
      /\ Len(s) = Cardinality(own)
  BY <1>2, Selected
<1>4. Stamped(t)
  BY RowsAreStamped
<1>5. place = [i \in own |-> Cardinality({j \in own : j <= i})]
  <2>1. \A i \in own : {j \in own : <<i, j>> \notin Less} = {j \in own : j <= i}
    BY DEF Less
  <2> HIDE DEF own
  <2> QED
    BY <2>1 DEF Places
<1>6. /\ Cardinality(own) = n
      /\ \A i \in own : Observation(t[i]) = RecordedRow(r, place[i])
  <2>1. \A i \in own : place[i] = Cardinality({j \in own : j <= i})
    BY <1>5
  <2> QED
    BY <2>1 DEF HoldsSession, RecordedRow
<1>7. Answer(t, q) = [p \in 1..n |-> t[s[p]]]
  BY <1>3, <1>6 DEF Answer
<1>8. /\ \A i \in own : place[i] \in 1..n
      /\ \A i, j \in own : i < j => place[i] < place[j]
      /\ \A k \in 1..n : \E i \in own : place[i] = k
  <2>1. Orders(Less, own)
    BY DEF Orders, Less
  <2>2. IsFiniteSet(own)
    <3>1. IsFiniteSet(1..Len(t))
      BY <1>4, FS_Interval DEF Stamped
    <3> HIDE DEF own
    <3> QED
      BY <1>3, <3>1, FS_Subset
  <2>3. \A i, j \in own : <<i, j>> \in Less <=> i < j
    BY DEF Less
  <2> HIDE DEF own, n, place
  <2>4. /\ \A i \in own : Places(Less, own)[i] \in 1..n
        /\ \A i, j \in own : <<i, j>> \in Less => Places(Less, own)[i] < Places(Less, own)[j]
        /\ \A k \in 1..n : \E i \in own : Places(Less, own)[i] = k
    BY <1>6, <2>1, <2>2, Ranking
  <2> QED
    BY <2>3, <2>4 DEF place
<1>9. \A i \in own : t[i].stamp = rec[place[i]].stamp /\ i \in Int
  <2> TAKE i \in own
  <2>1. Observation(t[i]).stamp = RecordedRow(r, place[i]).stamp
    BY <1>6
  <2>2. t[i] \in Row
    BY RowsAreStamped
  <2>3. Observation(t[i]).stamp = t[i].stamp
    BY <2>2 DEF Observation, Row
  <2>4. RecordedRow(r, place[i]).stamp = rec[place[i]].stamp
    BY DEF RecordedRow
  <2>5. t[i].stamp = rec[place[i]].stamp
    BY <2>1, <2>3, <2>4
  <2> QED
    BY <2>5
<1> HIDE DEF own, s, place, n, rec
<1>10. /\ \A p \in 1..n : s[p] \in own
       /\ \A i \in own : \E p \in 1..n : s[p] = i
       /\ \A p, u \in 1..n : p < u => Earlier(t, s[p], s[u])
  BY <1>3, <1>6 DEF Lists
<1>11. ASSUME NEW p \in 1..n, NEW u \in 1..n, p < u
       PROVE  <<h[p], h[u]>> \in Order(rec)
  <2>1. s[p] \in own /\ s[u] \in own /\ Earlier(t, s[p], s[u])
    BY <1>10, <1>11
  <2>2. h[p] = place[s[p]] /\ h[u] = place[s[u]] /\ h[p] \in 1..n /\ h[u] \in 1..n
    BY <1>8, <2>1
  <2>3. Earlier(rec, h[p], h[u])
    BY <1>8, <1>9, <2>1, <2>2 DEF Earlier
  <2> QED
    BY <2>2, <2>3, OrderIsEarlier DEF n
<1>12. InOrder(Order(rec), 1..n, n, h)
  <2>1. \A p \in 1..n : h[p] \in 1..n
    BY <1>8, <1>10
  <2>2. ASSUME NEW k \in 1..n PROVE \E p \in 1..n : h[p] = k
    <3>1. PICK i \in own : place[i] = k
      BY <1>8
    <3>2. PICK p \in 1..n : s[p] = i
      BY <1>10
    <3> QED
      BY <3>1, <3>2
  <2> HIDE DEF h
  <2> QED
    BY <1>11, <2>1, <2>2 DEF InOrder
<1>13. \A p \in 1..n : Observation(Answer(t, q)[p]) = RecordedRow(r, h[p])
  BY <1>6, <1>7, <1>10
<1>14. Orders(Order(rec), 1..n)
  BY <1>1, OrderIsEarlier, EarlierOrders DEF Orders, n
<1>15. Len(Answer(t, q)) = n
  BY <1>1, <1>7
<1> QED
  BY <1>1, <1>12, <1>13, <1>14, <1>15 DEF n, rec

(* Two such tables give the same answer.                                   *)
LEMMA SameSessionSameAnswer ==
  ASSUME NEW t \in Seq(Row), NEW u \in Seq(Row), NEW r \in Robots,
         HoldsSession(t, r), HoldsSession(u, r), NEW q,
         q.robot = r, q.topic = None, q.from = None, q.to = None
  PROVE  /\ Len(Answer(t, q)) = Len(Answer(u, q))
         /\ \A p \in 1..Len(Answer(t, q)) :
              Observation(Answer(t, q)[p]) = Observation(Answer(u, q)[p])
<1> DEFINE n == Len(Recording[r])
           R == Order(Recording[r])
<1>1. /\ n \in Nat /\ Orders(R, 1..n)
      /\ Len(Answer(t, q)) = n /\ Len(Answer(u, q)) = n
  BY SessionInOrder
<1>2. PICK h : /\ InOrder(R, 1..n, n, h)
               /\ \A p \in 1..n : Observation(Answer(t, q)[p]) = RecordedRow(r, h[p])
  BY SessionInOrder
<1>3. PICK g : /\ InOrder(R, 1..n, n, g)
               /\ \A p \in 1..n : Observation(Answer(u, q)[p]) = RecordedRow(r, g[p])
  BY SessionInOrder
<1> HIDE DEF n, R
<1>4. \A p \in 1..n : h[p] = g[p]
  BY <1>1, <1>2, <1>3, OneOrder
<1> QED
  BY <1>1, <1>2, <1>3, <1>4

(***************************************************************************)
(* The pace of a replay.                                                   *)
(***************************************************************************)

(* What a command is.                                                      *)
LEMMA RequestFacts ==
  ASSUME NEW q \in Requests
  PROVE  /\ q.command \in {"query", "replay", "diff"}
         /\ q.dbs \in Seq(Databases)
         /\ Len(q.dbs) = IF q.command = "diff" THEN 2 ELSE 1
         /\ \A k \in 1..Len(q.dbs) : q.dbs[k] \in Databases
         /\ q.robot \in Robots \cup {None}
         /\ q.speed \in [num : Int, den : Nat \ {0}]
         /\ q.command # "query" => q.topic = None /\ q.from = None /\ q.to = None
         /\ q.command = "replay" => q.robot = None
         /\ q.from \in Stamp \cup {None, Unparsable}
         /\ q.to \in Stamp \cup {None, Unparsable}
<1>1. q \in Request
  BY RequestsAssumption
<1>2. q.dbs \in Seq(Databases)
  BY <1>1 DEF Request
<1>3. \A k \in 1..Len(q.dbs) : q.dbs[k] \in Databases
  BY <1>2
<1> QED
  BY <1>1, <1>2, <1>3, RequestsAssumption DEF Request

(* Adjacent windows: the first ends where the second begins.               *)
LEMMA AdjacentWindows ==
  ASSUME NEW t \in Seq(Row), NEW q \in Requests, Unparsable \notin {q.from, q.to},
         NEW cut \in Stamp, q.from # None => q.from <= cut, q.to # None => cut <= q.to
  PROVE  Answer(t, q) = Answer(t, [q EXCEPT !.to = cut]) \o Answer(t, [q EXCEPT !.from = cut])
<1> DEFINE below == [q EXCEPT !.to = cut]
           above == [q EXCEPT !.from = cut]
           S(x) == Matching(t, x)
           s(x) == SelectIds(t, x)
<1>1. /\ Stamped(t) /\ \A i \in 1..Len(t) : t[i].stamp \in Int
      /\ cut \in Int /\ cut # None
      /\ q.from # None => q.from \in Int
      /\ q.to # None => q.to \in Int
  <2>1. Stamp \in SUBSET Int
    BY BatchAssumption DEF Stamp
  <2>2. q.from \in Stamp \cup {None, Unparsable} /\ q.to \in Stamp \cup {None, Unparsable}
    BY RequestFacts
  <2>3. Stamped(t)
    BY RowsAreStamped
  <2> QED
    BY <2>1, <2>2, <2>3, NoneAssumption DEF Stamped
<1>2. /\ below.robot = q.robot /\ below.topic = q.topic /\ below.from = q.from /\ below.to = cut
      /\ above.robot = q.robot /\ above.topic = q.topic /\ above.from = cut /\ above.to = q.to
  <2>1. q \in Request
    BY RequestsAssumption
  <2> QED
    BY <2>1 DEF Request
<1>3. \A x : /\ S(x) \in SUBSET (1..Len(t)) /\ Lists(t, S(x), s(x)) /\ Len(s(x)) \in Nat
             /\ Answer(t, x) = [p \in 1..Len(s(x)) |-> t[s(x)[p]]]
  BY Selected DEF Answer
<1> HIDE DEF below, above
<1>4. ASSUME NEW i \in 1..Len(t), NEW x
      PROVE  i \in S(x) <=> /\ x.robot \in {None, t[i].robot} /\ x.topic \in {None, t[i].topic}
                            /\ x.from # None => t[i].stamp >= x.from
                            /\ x.to # None => t[i].stamp < x.to
  BY DEF Matching, Matches, OfRobot, Before
<1> HIDE DEF S, s
<1>5. \A i \in 1..Len(t) :
        /\ i \in S(below) <=> i \in S(q) /\ t[i].stamp < cut
        /\ i \in S(above) <=> i \in S(q) /\ t[i].stamp >= cut
  BY <1>1, <1>2, <1>4
<1>6. S(below) \cup S(above) = S(q)
  <2>1. \A i \in 1..Len(t) : i \in S(below) \/ i \in S(above) <=> i \in S(q)
    BY <1>1, <1>5
  <2> QED
    BY <1>3, <2>1
<1>7. \A i \in S(below), j \in S(above) : Earlier(t, i, j)
  <2> SUFFICES ASSUME NEW i \in S(below), NEW j \in S(above)
               PROVE  Earlier(t, i, j)
    OBVIOUS
  <2>1. i \in 1..Len(t) /\ j \in 1..Len(t)
    BY <1>3
  <2> QED
    BY <1>1, <1>5, <2>1 DEF Earlier
<1>8. s(q) = s(below) \o s(above)
  <2>1. Lists(t, S(q), s(below) \o s(above))
    BY <1>3, <1>6, <1>7, ListsJoin
  <2> QED
    BY <1>1, <1>3, <2>1, OneList
<1>9. \A x : s(x) \in Seq(S(x))
  BY <1>3 DEF Lists
<1>10. Answer(t, below) \o Answer(t, above) = Answer(t, q)
  <2> DEFINE f == s(below)
             g == s(above)
  <2>1. /\ f \in Seq(S(below)) /\ g \in Seq(S(above)) /\ s(q) = f \o g
        /\ Answer(t, below) = [p \in 1..Len(f) |-> t[f[p]]]
        /\ Answer(t, above) = [p \in 1..Len(g) |-> t[g[p]]]
        /\ Answer(t, q) = [p \in 1..Len(f \o g) |-> t[(f \o g)[p]]]
    <3>1. f \in Seq(S(below)) /\ g \in Seq(S(above)) /\ s(q) = f \o g
      BY <1>8, <1>9
    <3>2. \A x : Answer(t, x) = [p \in 1..Len(s(x)) |-> t[s(x)[p]]]
      BY <1>3
    <3>3. Answer(t, q) = [p \in 1..Len(s(q)) |-> t[s(q)[p]]]
      BY <3>2
    <3>4. /\ Answer(t, below) = [p \in 1..Len(f) |-> t[f[p]]]
          /\ Answer(t, above) = [p \in 1..Len(g) |-> t[g[p]]]
      BY <3>2
    <3> HIDE DEF f, g
    <3> QED
      BY <3>1, <3>3, <3>4
  <2>2. \A x \in Seq(1..Len(t)) : [p \in 1..Len(x) |-> t[x[p]]] \in Seq(Row)
    OBVIOUS
  <2>3. f \in Seq(1..Len(t)) /\ g \in Seq(1..Len(t))
    <3>1. S(below) \in SUBSET (1..Len(t)) /\ S(above) \in SUBSET (1..Len(t))
      BY <1>3
    <3> HIDE DEF f, g
    <3> QED
      BY <2>1, <3>1
  <2> HIDE DEF f, g
  <2> QED
    BY <2>1, <2>2, <2>3
<1> QED
  BY <1>10 DEF below, above

LEMMA TimesMonotone ==
  ASSUME NEW a \in Nat, NEW b \in Nat, NEW c \in Nat, a <= b
  PROVE  a * c \in Nat /\ b * c \in Nat /\ a * c <= b * c
OBVIOUS

LEMMA Roundings ==
  /\ PRECISION \in Nat /\ PRECISION - 1 \in Nat
  /\ Below \in Nat /\ Exact \in Nat /\ Above \in Nat /\ Below <= Exact
<1>1. PRECISION \in Nat \ {0}
  BY FloatAssumption
<1>2. /\ Below \in Nat /\ Exact \in Nat /\ Above \in Nat
      /\ Below = Exact - 2 * PRECISION + 1
  BY <1>1 DEF Below, Exact, Above
<1> QED
  BY <1>1, <1>2

(* Two roundings up, one behind the other.                                 *)
LEMMA RoundedUp ==
  ASSUME NEW gap \in Nat, NEW x \in Nat, NEW w \in Nat, NEW num \in Nat, NEW den \in Nat,
         x * PRECISION <= gap * (PRECISION + 1),
         w * num * PRECISION <= (x * den) * (PRECISION + 1)
  PROVE  w * (num * Exact) <= gap * (den * Above)
<1> DEFINE P == PRECISION
<1>1. P \in Nat
  BY Roundings
<1>2. /\ w * num * P \in Nat /\ (x * den) * (P + 1) \in Nat /\ x * P \in Nat
      /\ gap * (P + 1) \in Nat /\ den * (P + 1) \in Nat
  BY <1>1
<1>3. (w * num * P) * P <= ((x * den) * (P + 1)) * P
  BY <1>1, <1>2, TimesMonotone
<1>4. (x * P) * (den * (P + 1)) <= (gap * (P + 1)) * (den * (P + 1))
  BY <1>2, TimesMonotone
<1>5. Exact = P * P /\ Above = (P + 1) * (P + 1)
  BY DEF Exact, Above
<1> HIDE DEF P
<1>6. (w * num * P) * P = w * (num * (P * P))
  BY <1>1
<1>7. ((x * den) * (P + 1)) * P = (x * P) * (den * (P + 1))
  BY <1>1
<1>8. (gap * (P + 1)) * (den * (P + 1)) = gap * (den * ((P + 1) * (P + 1)))
  BY <1>1
<1>9. w * (num * (P * P)) <= (x * P) * (den * (P + 1))
  BY <1>3, <1>6, <1>7
<1>10. (x * P) * (den * (P + 1)) <= gap * (den * ((P + 1) * (P + 1)))
  BY <1>4, <1>8
<1>11. /\ w * (num * (P * P)) \in Nat /\ (x * P) * (den * (P + 1)) \in Nat
       /\ gap * (den * ((P + 1) * (P + 1))) \in Nat
  BY <1>1
<1> QED
  BY <1>5, <1>9, <1>10, <1>11

(* Two roundings down.                                                     *)
LEMMA RoundedDown ==
  ASSUME NEW gap \in Nat, NEW x \in Nat, NEW w \in Nat, NEW num \in Nat, NEW den \in Nat,
         x * PRECISION >= gap * (PRECISION - 1),
         w * num * PRECISION >= (x * den) * (PRECISION - 1)
  PROVE  w * (num * Exact) >= gap * (den * Below)
<1> DEFINE P == PRECISION
           D == PRECISION - 1
<1>1. P \in Nat /\ D \in Nat
  BY Roundings
<1>2. /\ w * num * P \in Nat /\ (x * den) * D \in Nat /\ x * P \in Nat
      /\ gap * D \in Nat /\ den * D \in Nat
  BY <1>1
<1>3. ((x * den) * D) * P <= (w * num * P) * P
  BY <1>1, <1>2, TimesMonotone
<1>4. (gap * D) * (den * D) <= (x * P) * (den * D)
  BY <1>2, TimesMonotone
<1>5. Exact = P * P /\ Below = D * D
  BY DEF Exact, Below
<1> HIDE DEF P, D
<1>6. (w * num * P) * P = w * (num * (P * P))
  BY <1>1
<1>7. ((x * den) * D) * P = (x * P) * (den * D)
  BY <1>1
<1>8. (gap * D) * (den * D) = gap * (den * (D * D))
  BY <1>1
<1>9. /\ w * (num * (P * P)) \in Nat /\ (x * P) * (den * D) \in Nat
      /\ gap * (den * (D * D)) \in Nat
  BY <1>1
<1> QED
  BY <1>3, <1>4, <1>5, <1>6, <1>7, <1>8, <1>9

(* A pause is as long as the gap at the speed asked for, but for the two   *)
(* roundings, and short of that by less than a nanosecond unless it does   *)
(* not fit.                                                                *)
LEMMA GapBounds ==
  ASSUME NEW a \in Stamp, NEW b \in Stamp, a <= b,
         NEW q \in Requests, q.speed.num > 0
  PROVE  LET g == ScaledGap(a, b, q.speed)
             num == q.speed.num
             den == q.speed.den
         IN
         /\ g \in Nat
         /\ g * (num * Exact) <= (b - a) * (den * Above)
         /\ b - a <= MaxStamp /\ (b - a) * den <= MaxNanos * num =>
              (b - a) * (den * Below) <= (g + 1) * (num * Exact)
<1> DEFINE gap == Greatest(0, SaturatingSub(b, a))
           x == F64(gap)
           whole == Quotient(x, q.speed)
           g == Least(whole, MaxNanos)
           num == q.speed.num
           den == q.speed.den
<1>1. a \in Int /\ b \in Int /\ MaxStamp \in Nat /\ MaxNanos \in Nat
  BY BatchAssumption DEF Stamp, MaxNanos
<1>2. /\ gap \in 0..MaxStamp /\ gap \in Nat /\ gap <= b - a
      /\ b - a \in Nat /\ (b - a <= MaxStamp => gap = b - a)
  BY <1>1 DEF Greatest, Least, SaturatingSub
<1>3. num \in Nat /\ den \in Nat /\ q.speed.num > 0
  BY RequestFacts
<1> HIDE DEF gap
<1>4. /\ x \in Nat /\ x * PRECISION <= gap * (PRECISION + 1)
      /\ x * PRECISION >= gap * (PRECISION - 1)
  BY <1>2, FloatAssumption
<1>5. /\ whole \in Nat
      /\ whole * num * PRECISION <= (x * den) * (PRECISION + 1)
      /\ (whole + 1) * num * PRECISION >= (x * den) * (PRECISION - 1)
  BY <1>2, <1>3, FloatAssumption
<1>6. ScaledGap(a, b, q.speed) = g
  BY DEF ScaledGap, g, whole, x, gap
<1> HIDE DEF x, whole, num, den
<1>7. g \in Nat /\ g <= whole /\ (g = whole \/ g = MaxNanos)
  BY <1>1, <1>5 DEF Least
<1> HIDE DEF g
<1>8. /\ num * Exact \in Nat /\ den * Above \in Nat /\ den * Below \in Nat
      /\ gap * den \in Nat
  BY <1>2, <1>3, Roundings
<1>9. whole * (num * Exact) <= gap * (den * Above)
  BY <1>2, <1>3, <1>4, <1>5, RoundedUp
<1>10. (whole + 1) * (num * Exact) >= gap * (den * Below)
  <2>1. whole + 1 \in Nat
    BY <1>5
  <2> QED
    BY <1>2, <1>3, <1>4, <1>5, <2>1, RoundedDown
<1>11. g * (num * Exact) <= (b - a) * (den * Above)
  <2>1. g * (num * Exact) <= whole * (num * Exact)
    BY <1>5, <1>7, <1>8, TimesMonotone
  <2>2. gap * (den * Above) <= (b - a) * (den * Above)
    BY <1>2, <1>8, TimesMonotone
  <2> DEFINE A == g * (num * Exact)
             B == whole * (num * Exact)
             C == gap * (den * Above)
             E == (b - a) * (den * Above)
  <2>3. A \in Nat /\ B \in Nat /\ C \in Nat /\ E \in Nat
    BY <1>2, <1>5, <1>7, <1>8
  <2>4. A <= B /\ B <= C /\ C <= E
    BY <1>9, <2>1, <2>2
  <2> HIDE DEF A, B, C, E
  <2>5. A <= E
    BY <2>3, <2>4
  <2> QED
    BY <2>5 DEF A, E
<1>12. ASSUME b - a <= MaxStamp, (b - a) * den <= MaxNanos * num
       PROVE  (b - a) * (den * Below) <= (g + 1) * (num * Exact)
  <2>1. gap = b - a
    BY <1>2, <1>12
  <2>2. CASE g = whole
    BY <1>10, <2>1, <2>2
  <2>3. CASE g = MaxNanos
    <3>1. MaxNanos * num \in Nat /\ gap * den <= MaxNanos * num
      BY <1>1, <1>3, <1>12, <2>1
    <3>2. (gap * den) * Exact <= (MaxNanos * num) * Exact
      BY <1>8, <3>1, Roundings, TimesMonotone
    <3>3. Below * (gap * den) <= Exact * (gap * den)
      BY <1>8, Roundings, TimesMonotone
    <3>4. MaxNanos * (num * Exact) <= (MaxNanos + 1) * (num * Exact)
      BY <1>1, <1>8, TimesMonotone
    <3>5. /\ gap * (den * Below) = Below * (gap * den)
          /\ (gap * den) * Exact = Exact * (gap * den)
          /\ (MaxNanos * num) * Exact = MaxNanos * (num * Exact)
      BY <1>1, <1>2, <1>3, Roundings
    <3> DEFINE A == Below * (gap * den)
               B == Exact * (gap * den)
               C == MaxNanos * (num * Exact)
               E == (MaxNanos + 1) * (num * Exact)
    <3>6. A \in Nat /\ B \in Nat /\ C \in Nat /\ E \in Nat
      BY <1>1, <1>8, Roundings
    <3>7. A <= B /\ B <= C /\ C <= E
      BY <3>2, <3>3, <3>4, <3>5
    <3> HIDE DEF A, B, C, E
    <3>8. A <= E
      BY <3>6, <3>7
    <3> QED
      BY <2>1, <2>3, <3>5, <3>8 DEF A, E
  <2> QED
    BY <1>7, <2>2, <2>3
<1> QED
  BY <1>6, <1>7, <1>11, <1>12 DEF num, den

(* What was slept after the n-th event of a span, in terms of the speed.   *)
Kept(slept, n, span, speed) ==
  /\ slept * (speed.num * Exact) <= span * (speed.den * Above)
  /\ span <= MaxStamp /\ span * speed.den <= MaxNanos * speed.num =>
       (slept + n - 1) * (speed.num * Exact) >= span * (speed.den * Below)

(* Another event behind a gap keeps the pace: the roundings are in         *)
(* proportion to the gaps and do not add up beyond that.                   *)
LEMMA KeptOn ==
  ASSUME NEW a \in Stamp, NEW b \in Stamp, a <= b, NEW span \in Nat,
         NEW q \in Requests, q.speed.num > 0,
         NEW slept \in Nat, NEW n \in Nat \ {0}, Kept(slept, n, span, q.speed)
  PROVE  /\ ScaledGap(a, b, q.speed) \in Nat
         /\ Kept(slept + ScaledGap(a, b, q.speed), n + 1, span + (b - a), q.speed)
<1> DEFINE g == ScaledGap(a, b, q.speed)
           gap == b - a
           num == q.speed.num
           den == q.speed.den
           N == num * Exact
           D == den * Above
           L == den * Below
<1>1. num \in Nat /\ den \in Nat /\ N \in Nat /\ D \in Nat /\ L \in Nat
  BY RequestFacts, Roundings
<1>2. gap \in Nat /\ MaxNanos \in Nat /\ MaxStamp \in Nat
  BY BatchAssumption DEF Stamp, MaxNanos
<1>3. /\ g \in Nat
      /\ g * N <= gap * D
      /\ gap <= MaxStamp /\ gap * den <= MaxNanos * num => gap * L <= (g + 1) * N
  BY GapBounds
<1>4. /\ slept * N <= span * D
      /\ span <= MaxStamp /\ span * den <= MaxNanos * num => (slept + n - 1) * N >= span * L
  BY DEF Kept
<1> HIDE DEF g, gap, num, den, N, D, L
<1>5. /\ (span + gap) * D = span * D + gap * D
      /\ (span + gap) * L = span * L + gap * L
      /\ (span + gap) * den = span * den + gap * den
      /\ (slept + g) * N = slept * N + g * N
      /\ slept * N \in Nat /\ g * N \in Nat /\ span * D \in Nat /\ gap * D \in Nat
      /\ span * L \in Nat /\ gap * L \in Nat /\ span * den \in Nat /\ gap * den \in Nat
      /\ MaxNanos * num \in Nat
  BY <1>1, <1>2, <1>3
<1>6. (slept + g) * N <= (span + gap) * D
  BY <1>3, <1>4, <1>5
<1>7. ASSUME span + gap <= MaxStamp, (span + gap) * den <= MaxNanos * num
      PROVE  (slept + g + (n + 1) - 1) * N >= (span + gap) * L
  <2>1. span <= MaxStamp /\ gap <= MaxStamp
    BY <1>2, <1>7
  <2>2. span * den <= MaxNanos * num /\ gap * den <= MaxNanos * num
    BY <1>5, <1>7
  <2>3. (slept + n - 1) * N >= span * L /\ gap * L <= (g + 1) * N
    BY <1>3, <1>4, <2>1, <2>2
  <2>4. slept + g + (n + 1) - 1 = (slept + n - 1) + (g + 1)
    BY <1>3
  <2>5. ((slept + n - 1) + (g + 1)) * N = (slept + n - 1) * N + (g + 1) * N
    BY <1>1, <1>3
  <2>6. (slept + n - 1) * N \in Int /\ (g + 1) * N \in Int
    BY <1>1, <1>3
  <2> QED
    BY <1>5, <2>3, <2>4, <2>5, <2>6
<1> QED
  BY <1>3, <1>6, <1>7 DEF Kept, g, gap, num, den, N, D, L

(***************************************************************************)
(* What a diff finds.                                                      *)
(***************************************************************************)

(* It names a pair that differs, or different lengths, or there is neither.*)
LEMMA Divergences ==
  ASSUME NEW a \in Seq(Row), NEW b \in Seq(Row)
  PROVE  LET v == FirstDivergence(a, b)
             Same(p) == Observation(a[p]) = Observation(b[p])
         IN
         /\ v \in [kind : {"same", "divergence", "length"}, index : Nat]
         /\ v.kind = "divergence" =>
              /\ v.index < Len(a) /\ v.index < Len(b)
              /\ ~Same(v.index + 1)
         /\ v.kind # "divergence" => \A p \in 1..Least(Len(a), Len(b)) : Same(p)
         /\ v.kind = "same" <=> v.kind # "divergence" /\ Len(a) = Len(b)
<1> DEFINE v == FirstDivergence(a, b)
           shorter == Least(Len(a), Len(b))
           differ == {k \in 1..shorter : Observation(a[k]) # Observation(b[k])}
           first == CHOOSE k \in differ : \A j \in differ : k <= j
<1>1. shorter \in Nat /\ shorter <= Len(a) /\ shorter <= Len(b) /\ Len(a) \in Nat /\ Len(b) \in Nat
  BY DEF Least
<1>2. CASE differ = {}
  <2>1. v = [kind |-> AfterZip(a, b), index |-> shorter]
    BY <1>2 DEF FirstDivergence
  <2>2. \A p \in 1..shorter : Observation(a[p]) = Observation(b[p])
    BY <1>2
  <2> HIDE DEF shorter, v, differ
  <2> QED
    BY <1>1, <2>1, <2>2 DEF AfterZip, shorter, v
<1>3. CASE differ # {}
  <2>1. v = [kind |-> "divergence", index |-> first - 1]
    BY <1>3 DEF FirstDivergence, Index
  <2>2. first \in differ
    <3>1. differ \in SUBSET Nat
      BY <1>1
    <3> HIDE DEF differ
    <3>2. \E k \in differ : \A j \in differ : k <= j
      BY <1>3, <3>1, LeastExists
    <3> QED
      BY <3>2
  <2>3. first \in 1..shorter /\ Observation(a[first]) # Observation(b[first])
    BY <2>2
  <2> HIDE DEF shorter, v, differ, first
  <2>4. first - 1 \in Nat /\ (first - 1) + 1 = first /\ first - 1 < Len(a) /\ first - 1 < Len(b)
    BY <1>1, <2>3
  <2> QED
    BY <2>1, <2>3, <2>4 DEF v
<1> QED
  BY <1>2, <1>3

(***************************************************************************)
(* The inductive invariant.                                                *)
(***************************************************************************)

Verdict ==
  [kind : {"none yet", "refused", "cannot read", "printed", "replayed",
           "same", "divergence", "length"},
   index : Nat]

TypeInv ==
  /\ file \in [Databases -> {"absent", "empty", "ready"}]
  /\ table \in [Databases -> Seq(Row)]
  /\ runs \in [Databases -> [Robots -> Nat]]
  /\ active \in [Databases -> [Robots -> SUBSET [run : Nat, done : Nat]]]
  /\ pc \in {"start", "load", "loaded", "exit"}
  /\ shown \in Nat /\ elapsed \in Nat
  /\ verdict \in Verdict

(* How far the command is.                                                 *)
RequestInv ==
  /\ pc = "start" => request = <<>> /\ length = <<>> /\ shown = 0 /\ verdict = NoVerdict
  /\ pc # "start" => request \in Requests
  /\ pc \in {"load", "loaded"} =>
       verdict = NoVerdict /\ request.speed.num > 0 /\ Unparsable \notin {request.from, request.to}
  /\ pc = "load" => shown = 0 /\ Len(length) < Len(request.dbs)
  /\ pc = "loaded" => Len(length) = Len(request.dbs)

(* What it has loaded is what the first rows of each table answer, though  *)
(* there may be more rows by now.                                          *)
LoadedInv ==
  /\ length \in Seq(Nat)
  /\ timeline = [k \in 1..Len(length) |-> Answer(Seen(k), request)]
  /\ pc # "start" =>
       /\ Len(length) <= Len(request.dbs)
       /\ \A k \in 1..Len(length) :
            length[k] <= Len(table[request.dbs[k]]) /\ file[request.dbs[k]] = "ready"

(* A replay has kept the pace so far.                                      *)
PaceInv ==
  /\ shown = 0 => elapsed = 0
  /\ shown > 0 =>
       /\ pc # "start" /\ request.command = "replay" /\ request.speed.num > 0
       /\ Len(length) = 1 /\ shown <= Len(timeline[1])
       /\ Kept(elapsed, shown, timeline[1][shown].stamp - timeline[1][1].stamp, request.speed)

(* What the command ended with.                                            *)
VerdictInv ==
  /\ verdict.kind \in {"same", "divergence", "length"} =>
       /\ pc = "exit" /\ request.command = "diff" /\ Len(length) = 2
       /\ verdict = FirstDivergence(timeline[1], timeline[2])
  /\ verdict.kind = "replayed" =>
       /\ pc = "exit" /\ request.command = "replay" /\ Len(length) = 1
       /\ shown = Len(timeline[1])
  /\ verdict.kind = "printed" =>
       /\ request.command = "query" /\ Len(length) = 1
       /\ Unparsable \notin {request.from, request.to}

IInv == TypeInv /\ RequestInv /\ LoadedInv /\ PaceInv /\ VerdictInv

LEMMA Outcomes ==
  /\ NoVerdict \in Verdict /\ NoVerdict.kind = "none yet"
  /\ \A k \in {"refused", "cannot read", "printed", "replayed"} :
       Outcome(k) \in Verdict /\ Outcome(k).kind = k
BY DEF NoVerdict, Outcome, Verdict

(* The beginning of a table stays as it is.                                *)
LEMMA BeginningKept ==
  ASSUME NEW t \in Seq(Row), NEW rows \in Seq(Row), NEW n \in Nat, n <= Len(t)
  PROVE  SubSeq(t \o rows, 1, n) = SubSeq(t, 1, n)
<1>1. /\ t \o rows \in Seq(Row) /\ Len(t) <= Len(t \o rows)
      /\ \A i \in 1..n : (t \o rows)[i] = t[i]
  BY AppendedRows
<1> QED
  BY <1>1

(* What was seen of a table is a sequence of rows.                         *)
LEMMA SeenRows ==
  ASSUME TypeInv, RequestInv, LoadedInv, NEW k \in 1..Len(length)
  PROVE  /\ pc # "start" /\ request \in Requests
         /\ k \in 1..Len(request.dbs) /\ request.dbs[k] \in Databases
         /\ length[k] \in Nat
         /\ Seen(k) \in Seq(Row) /\ Len(Seen(k)) = length[k]
         /\ k \in 1..Len(timeline) /\ timeline[k] = Answer(Seen(k), request)
         /\ timeline[k] \in Seq(Row)
<1>1. pc # "start"
  BY DEF RequestInv
<1>2. request \in Requests /\ Len(length) <= Len(request.dbs) /\ length[k] <= Len(table[request.dbs[k]])
  BY <1>1 DEF RequestInv, LoadedInv
<1>3. Len(length) \in Nat /\ length[k] \in Nat
  BY DEF LoadedInv
<1>4. request.dbs \in Seq(Databases) /\ Len(request.dbs) \in Nat
  BY <1>2, RequestFacts
<1>5. k \in 1..Len(request.dbs) /\ request.dbs[k] \in Databases
  BY <1>2, <1>3, <1>4
<1>6. table[request.dbs[k]] \in Seq(Row)
  BY <1>5 DEF TypeInv
<1>7. Seen(k) \in Seq(Row) /\ Len(Seen(k)) = length[k]
  BY <1>2, <1>3, <1>6 DEF Seen
<1>8. k \in 1..Len(timeline) /\ timeline[k] = Answer(Seen(k), request)
  BY <1>3 DEF LoadedInv
<1>9. timeline[k] \in Seq(Row)
  BY <1>7, <1>8, AnswerRows
<1> QED
  BY <1>1, <1>2, <1>3, <1>5, <1>7, <1>8, <1>9

LEMMA InitInv == Init => IInv
<1> SUFFICES ASSUME Init PROVE IInv
  OBVIOUS
<1>1. table \in [Databases -> Seq(Row)]
  <2>1. /\ table = [d \in Databases |-> table[d]]
        /\ \A d \in Databases : table[d] = <<>> \/ table[d] \in Foreign[d]
    BY DEF Init
  <2>2. ASSUME NEW d \in Databases PROVE table[d] \in Seq(Row)
    <3>1. table[d] \in Foreign[d] => table[d] \in Seq(Row)
      BY ForeignAssumption
    <3>2. <<>> \in Seq(Row)
      OBVIOUS
    <3> QED
      BY <2>1, <3>1, <3>2
  <2> QED
    BY <2>1, <2>2
<1>2. TypeInv
  BY <1>1, Outcomes DEF Init, TypeInv
<1>3. RequestInv
  BY DEF Init, RequestInv
<1>4. LoadedInv
  BY DEF Init, LoadedInv
<1>5. PaceInv /\ VerdictInv
  <2>0. shown = 0 /\ elapsed = 0 /\ verdict = NoVerdict
    BY DEF Init
  <2>1. ~(shown > 0)
    BY <2>0
  <2>2. verdict.kind = "none yet"
    BY <2>0, Outcomes
  <2> QED
    BY <2>0, <2>1, <2>2 DEF PaceInv, VerdictInv
<1> QED
  BY <1>2, <1>3, <1>4, <1>5 DEF IInv

(* A step that neither loads nor records keeps what was loaded.            *)
LEMMA LoadedKept ==
  ASSUME LoadedInv, pc # "start", pc' # "start",
         UNCHANGED <<file, table, request, timeline, length>>
  PROVE  LoadedInv'
BY DEF LoadedInv, Seen

LEMMA StartStep == IInv /\ Start => IInv'
<1> SUFFICES ASSUME TypeInv, RequestInv, LoadedInv, PaceInv, VerdictInv, Start
             PROVE  IInv'
  BY DEF IInv
<1>1. /\ pc = "start" /\ request' \in Requests /\ pc' \in {"exit", "load"}
      /\ pc' = "load" => verdict' = verdict /\ ~Refused(request')
      /\ pc' = "exit" => verdict' = Outcome("refused")
      /\ UNCHANGED <<tables, timeline, length, shown, elapsed>>
  BY DEF Start, ExitWith
<1>2. length = <<>> /\ shown = 0 /\ verdict = NoVerdict /\ timeline = <<>>
  BY <1>1 DEF RequestInv, LoadedInv
<1>3. pc' = "load" =>
        request'.speed.num > 0 /\ Unparsable \notin {request'.from, request'.to}
  <2>1. request'.speed.num \in Int
    BY <1>1, RequestFacts
  <2> QED
    BY <1>1, <2>1 DEF Refused
<1>4. Len(request'.dbs) \in Nat /\ 0 < Len(request'.dbs)
  BY <1>1, RequestFacts
<1>5. TypeInv'
  <2>1. verdict' = NoVerdict \/ verdict' = Outcome("refused")
    BY <1>1, <1>2
  <2>2. /\ verdict' \in Verdict
        /\ UNCHANGED <<file, table, runs, active, shown, elapsed>>
    BY <1>1, <2>1, Outcomes DEF tables
  <2>3. pc' \in {"start", "load", "loaded", "exit"}
    BY <1>1
  <2> QED
    BY <2>2, <2>3 DEF TypeInv
<1>6. RequestInv'
  BY <1>1, <1>2, <1>3, <1>4 DEF RequestInv
<1>7. LoadedInv'
  <2>1. length' = <<>> /\ timeline' = <<>>
    BY <1>1, <1>2
  <2> QED
    BY <1>4, <2>1 DEF LoadedInv
<1>8. PaceInv' /\ VerdictInv'
  <2>1. shown' = 0 /\ ~(shown' > 0) /\ elapsed' = 0
    BY <1>1, <1>2 DEF PaceInv
  <2>2. verdict'.kind \in {"none yet", "refused"}
    BY <1>1, <1>2, Outcomes
  <2> QED
    BY <2>1, <2>2 DEF PaceInv, VerdictInv
<1> QED
  BY <1>5, <1>6, <1>7, <1>8 DEF IInv

LEMMA LoadStep == IInv /\ Load => IInv'
<1> SUFFICES ASSUME TypeInv, RequestInv, LoadedInv, PaceInv, VerdictInv, Load
             PROVE  IInv'
  BY DEF IInv
<1> DEFINE m == Len(length)
           d == request.dbs[m + 1]
<1>1. /\ pc = "load" /\ verdict = NoVerdict /\ shown = 0 /\ request \in Requests
      /\ m \in Nat /\ m < Len(request.dbs) /\ request.speed.num > 0
      /\ Unparsable \notin {request.from, request.to}
      /\ length \in Seq(Nat)
  <2>1. pc = "load"
    BY DEF Load
  <2> QED
    BY <2>1 DEF RequestInv, LoadedInv
<1>2. Len(timeline) = m
  BY <1>1 DEF LoadedInv
<1>3. Len(request.dbs) \in Nat /\ m + 1 \in 1..Len(request.dbs) /\ d \in Databases
  BY <1>1, RequestFacts
<1>4. table[d] \in Seq(Row) /\ Len(table[d]) \in Nat
  <2>1. table \in [Databases -> Seq(Row)]
    BY DEF TypeInv
  <2>2. table[d] \in Seq(Row)
    BY <1>3, <2>1
  <2> QED
    BY <2>2
<1>5. /\ timeline' = Append(timeline, Answer(table[d], request))
      /\ length' = Append(length, Len(table[d]))
      /\ pc' = IF Len(timeline') < Len(request.dbs) THEN "load" ELSE "loaded"
      /\ UNCHANGED <<tables, request, shown, elapsed, verdict>>
      /\ file[d] = "ready"
  BY <1>2 DEF Load, Answer
<1>6. /\ length' \in Seq(Nat) /\ Len(length') = m + 1
      /\ \A k \in 1..m : length'[k] = length[k]
      /\ length'[m + 1] = Len(table[d])
  BY <1>1, <1>4, <1>5
<1>7. \A k \in 1..(m + 1) : timeline'[k] = Answer(Seen(k)', request)
  <2>1. ASSUME NEW k \in 1..m PROVE timeline'[k] = Answer(Seen(k)', request)
    <3>1. Seen(k)' = Seen(k)
      BY <1>5, <1>6 DEF Seen, tables
    <3>2. timeline[k] = Answer(Seen(k), request)
      BY DEF LoadedInv
    <3>3. timeline'[k] = timeline[k]
      BY <1>1, <1>2, <1>5
    <3> QED
      BY <3>1, <3>2, <3>3
  <2>2. ASSUME NEW k, k = m + 1 PROVE timeline'[k] = Answer(Seen(k)', request)
    <3>1. table' = table /\ request' = request
      BY <1>5 DEF tables
    <3>2. Seen(k)' = SubSeq(table[d], 1, Len(table[d]))
      BY <1>6, <2>2, <3>1 DEF Seen
    <3>3. SubSeq(table[d], 1, Len(table[d])) = table[d]
      <4> HIDE DEF d
      <4> QED
        BY <1>4
    <3>4. timeline'[k] = Answer(table[d], request)
      BY <1>1, <1>2, <1>5, <2>2
    <3> QED
      BY <3>2, <3>3, <3>4
  <2> TAKE k \in 1..(m + 1)
  <2>3. k \in 1..m \/ k = m + 1
    BY <1>1
  <2> QED
    BY <2>1, <2>2, <2>3
<1>8. timeline' = [k \in 1..(m + 1) |-> timeline'[k]] /\ Len(timeline') = m + 1
  BY <1>1, <1>2, <1>5 DEF LoadedInv
<1>9. TypeInv'
  BY <1>5 DEF TypeInv, tables
<1>10. RequestInv'
  BY <1>1, <1>3, <1>5, <1>6, <1>8 DEF RequestInv
<1>11. LoadedInv'
  <2>1. timeline' = [k \in 1..Len(length') |-> Answer(Seen(k)', request')]
    BY <1>5, <1>6, <1>7, <1>8
  <2>2. \A k \in 1..(m + 1) :
          length'[k] <= Len(table'[request'.dbs[k]]) /\ file'[request'.dbs[k]] = "ready"
    <3>1. \A k \in 1..m :
            length[k] <= Len(table[request.dbs[k]]) /\ file[request.dbs[k]] = "ready"
      BY <1>1 DEF LoadedInv
    <3> QED
      BY <1>1, <1>4, <1>5, <1>6, <3>1 DEF tables
  <2>3. Len(length') <= Len(request'.dbs)
    BY <1>3, <1>5, <1>6
  <2> HIDE DEF m, d
  <2> QED
    BY <1>6, <2>1, <2>2, <2>3 DEF LoadedInv
<1>12. PaceInv' /\ VerdictInv'
  <2>1. shown' = 0 /\ ~(shown' > 0) /\ elapsed' = 0
    BY <1>1, <1>5 DEF PaceInv
  <2>2. verdict'.kind = "none yet"
    BY <1>1, <1>5, Outcomes
  <2> QED
    BY <2>1, <2>2 DEF PaceInv, VerdictInv
<1> QED
  BY <1>9, <1>10, <1>11, <1>12 DEF IInv

(* A command that ends keeps all but its place and its verdict.            *)
LEMMA ExitStep ==
  ASSUME TypeInv, RequestInv, LoadedInv, PaceInv, pc \in {"load", "loaded"},
         NEW k \in {"cannot read", "printed", "replayed"}, ExitWith(Outcome(k)),
         UNCHANGED <<tables, request, timeline, length, shown, elapsed>>,
         k = "printed" =>
           /\ request.command = "query" /\ Len(length) = 1
           /\ Unparsable \notin {request.from, request.to},
         k = "replayed" =>
           /\ request.command = "replay" /\ Len(length) = 1
           /\ shown = Len(timeline[1])
  PROVE  IInv'
<1>1. /\ pc # "start" /\ pc' = "exit" /\ verdict' = Outcome(k)
      /\ UNCHANGED <<file, table, runs, active, request, timeline, length>>
      /\ UNCHANGED <<shown, elapsed>>
  BY DEF ExitWith, tables
<1>2. verdict' \in Verdict /\ verdict'.kind = k
  BY <1>1, Outcomes
<1>3. TypeInv'
  BY <1>1, <1>2 DEF TypeInv
<1>4. RequestInv'
  BY <1>1 DEF RequestInv
<1>5. LoadedInv'
  BY <1>1, LoadedKept
<1>6. PaceInv'
  BY <1>1 DEF PaceInv
<1>7. VerdictInv'
  BY <1>1, <1>2 DEF VerdictInv
<1> QED
  BY <1>3, <1>4, <1>5, <1>6, <1>7 DEF IInv

LEMMA LoadFailsStep == IInv /\ LoadFails => IInv'
BY ExitStep DEF IInv, LoadFails

LEMMA LoadedAll ==
  ASSUME RequestInv, pc = "loaded"
  PROVE  /\ request \in Requests /\ request.speed.num > 0 /\ verdict = NoVerdict
         /\ Unparsable \notin {request.from, request.to}
         /\ Len(length) = IF request.command = "diff" THEN 2 ELSE 1
BY RequestFacts DEF RequestInv

LEMMA PrintRowsStep == IInv /\ PrintRows => IInv'
BY ExitStep, LoadedAll DEF IInv, PrintRows, Loaded

LEMMA EndReplayStep == IInv /\ EndReplay => IInv'
BY ExitStep, LoadedAll DEF IInv, EndReplay, Loaded

LEMMA CompareStep == IInv /\ Compare => IInv'
<1> SUFFICES ASSUME TypeInv, RequestInv, LoadedInv, PaceInv, VerdictInv, Compare
             PROVE  IInv'
  BY DEF IInv
<1>1. /\ pc = "loaded" /\ request.command = "diff" /\ pc' = "exit"
      /\ verdict' = FirstDivergence(timeline[1], timeline[2])
      /\ UNCHANGED <<file, table, runs, active, request, timeline, length>>
      /\ UNCHANGED <<shown, elapsed>>
  BY DEF Compare, Loaded, ExitWith, tables
<1>2. Len(length) = 2
  BY <1>1, LoadedAll
<1>3. timeline[1] \in Seq(Row) /\ timeline[2] \in Seq(Row)
  BY <1>2, SeenRows
<1>4. verdict' \in Verdict /\ verdict'.kind \in {"same", "divergence", "length"}
  <2>1. verdict' \in [kind : {"same", "divergence", "length"}, index : Nat]
    BY <1>1, <1>3, Divergences
  <2> QED
    BY <2>1 DEF Verdict
<1>5. TypeInv'
  BY <1>1, <1>4 DEF TypeInv
<1>6. RequestInv'
  BY <1>1 DEF RequestInv
<1>7. LoadedInv'
  BY <1>1, LoadedKept
<1>8. PaceInv'
  BY <1>1 DEF PaceInv
<1>9. VerdictInv'
  BY <1>1, <1>2, <1>4 DEF VerdictInv
<1> QED
  BY <1>5, <1>6, <1>7, <1>8, <1>9 DEF IInv

LEMMA ShowStep == IInv /\ Show => IInv'
<1> SUFFICES ASSUME TypeInv, RequestInv, LoadedInv, PaceInv, VerdictInv, Show
             PROVE  IInv'
  BY DEF IInv
<1> DEFINE rows == timeline[1]
           n == shown
           speed == request.speed
           gap == ScaledGap(rows[n].stamp, rows[n + 1].stamp, speed)
<1>1. /\ pc = "loaded" /\ request.command = "replay" /\ n < Len(rows) /\ n \in Nat
      /\ shown' = n + 1
      /\ elapsed' = elapsed + (IF n = 0 THEN 0 ELSE gap)
      /\ UNCHANGED <<file, table, runs, active, request, timeline, length>>
      /\ UNCHANGED <<pc, verdict>>
  BY DEF Show, Loaded, Previous, tables, TypeInv
<1>2. Len(length) = 1 /\ request \in Requests /\ speed.num > 0
  BY <1>1, LoadedAll
<1>3. speed \in [num : Int, den : Nat \ {0}]
  BY <1>2, RequestFacts
<1>4. verdict.kind = "none yet"
  BY <1>1, LoadedAll, Outcomes
<1>5. rows \in Seq(Row) /\ Seen(1) \in Seq(Row) /\ rows = Answer(Seen(1), request)
  <2>0. Len(length) = 1
    BY <1>2
  <2>1. 1 \in 1..Len(length)
    BY <2>0
  <2> QED
    BY <2>1, SeenRows
<1>6. /\ Len(rows) \in Nat
      /\ \A p \in 1..Len(rows) : rows[p].stamp \in Stamp
      /\ \A p, r \in 1..Len(rows) : p < r => rows[p].stamp <= rows[r].stamp
  <2>1. \A row \in Row : row.stamp \in Stamp
    BY DEF Row
  <2>2. \A p, r \in 1..Len(rows) : p < r => rows[p].stamp <= rows[r].stamp
    BY <1>5, AnswerRows
  <2> HIDE DEF rows
  <2> QED
    BY <1>5, <2>1, <2>2
<1>7. elapsed' \in Nat /\ Kept(elapsed', n + 1, rows[n + 1].stamp - rows[1].stamp, speed)
  <2> HIDE DEF rows, gap, n, speed
  <2>1. n + 1 \in 1..Len(rows) /\ 1 \in 1..Len(rows)
    BY <1>1, <1>6
  <2>0. \A p \in 1..Len(rows) : rows[p].stamp \in Stamp /\ rows[p].stamp \in Int
    BY <1>6, BatchAssumption DEF Stamp
  <2>2. /\ rows[n + 1].stamp \in Stamp /\ rows[1].stamp \in Stamp
        /\ rows[n + 1].stamp \in Int /\ rows[1].stamp \in Int
    BY <2>0, <2>1
  <2>3. CASE n = 0
    <3>1. elapsed = 0
      BY <2>3 DEF PaceInv, n
    <3>2. elapsed' = 0 /\ n + 1 = 1 /\ rows[n + 1].stamp - rows[1].stamp = 0
      BY <1>1, <2>2, <2>3, <3>1
    <3>3. Kept(0, 1, 0, speed)
      <4> DEFINE N == speed.num * Exact
                 D == speed.den * Above
                 L == speed.den * Below
      <4>1. N \in Int /\ D \in Int /\ L \in Int
        BY <1>3, Roundings
      <4> HIDE DEF N, D, L
      <4>2. 0 * N = 0 /\ 0 * D = 0 /\ 0 * L = 0 /\ (0 + 1 - 1) * N = 0
        BY <4>1
      <4> QED
        BY <4>2 DEF Kept, N, D, L
    <3> QED
      BY <3>2, <3>3
  <2>4. CASE n > 0
    <3>1. n \in 1..Len(rows) /\ n < n + 1 /\ n \in Nat \ {0}
      BY <1>1, <1>6, <2>4
    <3>2. /\ rows[n].stamp \in Stamp /\ rows[n].stamp \in Int
          /\ rows[n].stamp <= rows[n + 1].stamp /\ rows[1].stamp <= rows[n].stamp
      <4>1. rows[1].stamp <= rows[n].stamp
        <5>1. CASE n = 1
          BY <2>2, <5>1
        <5>2. CASE n > 1
          BY <1>6, <2>1, <3>1, <5>2
        <5> QED
          BY <3>1, <5>1, <5>2
      <4> QED
        BY <1>6, <2>0, <2>1, <3>1, <4>1
    <3>3. Kept(elapsed, n, rows[n].stamp - rows[1].stamp, speed) /\ elapsed \in Nat
      BY <2>4 DEF PaceInv, TypeInv, n, rows, speed
    <3>4. rows[n].stamp - rows[1].stamp \in Nat
      BY <2>2, <3>2
    <3>5. /\ gap \in Nat
          /\ Kept(elapsed + gap, n + 1,
                  (rows[n].stamp - rows[1].stamp) + (rows[n + 1].stamp - rows[n].stamp), speed)
      BY <1>2, <2>2, <3>1, <3>2, <3>3, <3>4, KeptOn DEF gap, speed
    <3>6. (rows[n].stamp - rows[1].stamp) + (rows[n + 1].stamp - rows[n].stamp)
            = rows[n + 1].stamp - rows[1].stamp
      BY <2>2, <3>2
    <3>7. elapsed' = elapsed + gap
      BY <1>1, <2>4
    <3> QED
      BY <3>3, <3>5, <3>6, <3>7
  <2> QED
    BY <1>1, <2>3, <2>4
<1>8. TypeInv'
  BY <1>1, <1>7 DEF TypeInv
<1>9. RequestInv'
  BY <1>1 DEF RequestInv
<1>10. LoadedInv'
  BY <1>1, LoadedKept
<1>11. PaceInv'
  <2>1. shown' > 0 /\ shown' # 0 /\ shown' <= Len(rows)
    BY <1>1, <1>6
  <2> QED
    BY <1>1, <1>2, <1>7, <2>1 DEF PaceInv
<1>12. VerdictInv'
  BY <1>1, <1>4 DEF VerdictInv
<1> QED
  BY <1>8, <1>9, <1>10, <1>11, <1>12 DEF IInv

(* What a step of the recorders does to the files.                         *)
LEMMA RecordGrows ==
  ASSUME TypeInv, Record
  PROVE  /\ pc \in {"start", "load"} /\ UNCHANGED reader
         /\ file' \in [Databases -> {"absent", "empty", "ready"}]
         /\ \A d \in Databases : file[d] = "ready" => file'[d] = "ready"
         /\ runs' \in [Databases -> [Robots -> Nat]]
         /\ active' \in [Databases -> [Robots -> SUBSET [run : Nat, done : Nat]]]
         /\ table' \in [Databases -> Seq(Row)]
         /\ \A d \in Databases :
              table'[d] = table[d] \/ \E rows \in Seq(Row) : table'[d] = table[d] \o rows
<1> DEFINE Run == [run : Nat, done : Nat]
<1>1. pc \in {"start", "load"} /\ UNCHANGED reader
  BY DEF Record
<1>2. CASE \E d \in Databases : CreateFile(d) \/ Migrate(d)
  <2>1. PICK d \in Databases : CreateFile(d) \/ Migrate(d)
    BY <1>2
  <2> QED
    BY <1>1, <2>1 DEF TypeInv, CreateFile, Migrate
<1>3. CASE \E d \in Databases, r \in Robots : StartRun(d, r)
  <2>1. PICK d \in Databases, r \in Robots : StartRun(d, r)
    BY <1>3
  <2>2. /\ runs' = [runs EXCEPT ![d][r] = runs[d][r] + 1]
        /\ active' = [active EXCEPT ![d][r] =
             active[d][r] \cup {[run |-> runs'[d][r], done |-> 0]}]
        /\ UNCHANGED <<file, table>>
    BY <2>1 DEF StartRun
  <2>3. /\ runs \in [Databases -> [Robots -> Nat]]
        /\ active \in [Databases -> [Robots -> SUBSET Run]]
    BY DEF TypeInv
  <2>4. runs' \in [Databases -> [Robots -> Nat]] /\ runs'[d][r] \in Nat
    BY <2>2, <2>3
  <2>5. [run |-> runs'[d][r], done |-> 0] \in Run
    BY <2>4
  <2> HIDE DEF Run
  <2>6. active' \in [Databases -> [Robots -> SUBSET Run]]
    BY <2>2, <2>3, <2>5
  <2> QED
    BY <1>1, <2>2, <2>4, <2>6 DEF TypeInv, Run
<1>4. CASE \E d \in Databases, r \in Robots : \E a \in active[d][r] : EndRun(d, r, a)
  <2>1. PICK d \in Databases, r \in Robots : \E a \in active[d][r] : EndRun(d, r, a)
    BY <1>4
  <2>2. PICK a \in active[d][r] : EndRun(d, r, a)
    BY <2>1
  <2>3. /\ active' = [active EXCEPT ![d][r] = active[d][r] \ {a}]
        /\ UNCHANGED <<file, table, runs>>
    BY <2>2 DEF EndRun
  <2>4. active \in [Databases -> [Robots -> SUBSET Run]]
    BY DEF TypeInv
  <2> HIDE DEF Run
  <2>5. active' \in [Databases -> [Robots -> SUBSET Run]]
    BY <2>3, <2>4
  <2> QED
    BY <1>1, <2>3, <2>5 DEF TypeInv, Run
<1>5. CASE \E d \in Databases, r \in Robots : \E a \in active[d][r] : RecordBatch(d, r, a)
  <2>1. PICK d \in Databases, r \in Robots : \E a \in active[d][r] : RecordBatch(d, r, a)
    BY <1>5
  <2>0. PICK a \in active[d][r] : RecordBatch(d, r, a)
    BY <2>1
  <2> DEFINE k == a.done
             end == Least(k + BATCH_SIZE, Len(Recording[r]))
             rows == [i \in 1..(end - k) |-> EventRow(r, a.run, k + i)]
  <2>2. /\ k < end
        /\ active' = [active EXCEPT ![d][r] =
             (active[d][r] \ {a}) \cup {[a EXCEPT !.done = end]}]
        /\ table' = [table EXCEPT ![d] = table[d] \o rows]
        /\ UNCHANGED <<file, runs>>
    BY <2>0 DEF RecordBatch, Inserted
  <2>3. /\ a \in Run /\ k \in Nat /\ a.run \in Nat
        /\ Len(Recording[r]) \in Nat /\ BATCH_SIZE \in Nat
    <3>1. active \in [Databases -> [Robots -> SUBSET Run]]
      BY DEF TypeInv
    <3>2. a \in Run
      <4> HIDE DEF Run
      <4> QED
        BY <3>1
    <3> QED
      BY <3>2, RecordingAssumption, BatchAssumption
  <2>4. end \in Nat /\ end <= Len(Recording[r])
    BY <2>3 DEF Least
  <2>5. \A i \in 1..(end - k) : EventRow(r, a.run, k + i) \in Row
    <3> DEFINE Ev == [stamp : Stamp, topic : Topic]
    <3>1. Recording[r] \in Seq(Ev)
      BY RecordingAssumption
    <3>2. ASSUME NEW i \in 1..(end - k) PROVE k + i \in 1..Len(Recording[r]) /\ k + i \in Nat
      <4> HIDE DEF k, end
      <4> QED
        BY <2>2, <2>3, <2>4
    <3>3. ASSUME NEW j \in 1..Len(Recording[r]) PROVE Recording[r][j] \in Ev
      <4> HIDE DEF Ev
      <4> QED
        BY <3>1
    <3>4. ASSUME NEW j \in Nat, Recording[r][j] \in Ev PROVE EventRow(r, a.run, j) \in Row
      BY <2>3, <3>4 DEF EventRow, Row, RowKind
    <3> HIDE DEF k, end, Ev
    <3> QED
      BY <3>2, <3>3, <3>4
  <2>6. [a EXCEPT !.done = end] \in Run
    BY <2>3, <2>4
  <2> HIDE DEF k, end, Run
  <2>7. rows \in Seq(Row)
    <3>1. end - k \in Nat
      BY <2>2, <2>3, <2>4
    <3> QED
      BY <2>5, <3>1
  <2> HIDE DEF rows
  <2>8. /\ table \in [Databases -> Seq(Row)] /\ file \in [Databases -> {"absent", "empty", "ready"}]
        /\ runs \in [Databases -> [Robots -> Nat]]
        /\ active \in [Databases -> [Robots -> SUBSET Run]]
    BY DEF TypeInv, Run
  <2>9. table[d] \o rows \in Seq(Row)
    BY <2>7, <2>8
  <2>10. table' \in [Databases -> Seq(Row)]
    BY <2>2, <2>8, <2>9
  <2>11. \A b \in Databases : table'[b] = table[b] \/ table'[b] = table[b] \o rows
    BY <2>2, <2>8
  <2>12. active' \in [Databases -> [Robots -> SUBSET Run]]
    BY <2>2, <2>6, <2>8
  <2> QED
    BY <1>1, <2>2, <2>7, <2>8, <2>10, <2>11, <2>12 DEF Run
<1> QED
  BY <1>2, <1>3, <1>4, <1>5 DEF Record

LEMMA RecordStep == IInv /\ Record => IInv'
<1> SUFFICES ASSUME TypeInv, RequestInv, LoadedInv, PaceInv, VerdictInv, Record
             PROVE  IInv'
  BY DEF IInv
<1>1. /\ pc \in {"start", "load"} /\ UNCHANGED reader
      /\ \A d \in Databases :
           /\ table'[d] = table[d] \/ \E rows \in Seq(Row) : table'[d] = table[d] \o rows
           /\ file[d] = "ready" => file'[d] = "ready"
  BY RecordGrows
<1>2. UNCHANGED <<request, pc, timeline, length, shown, elapsed, verdict>>
  BY <1>1 DEF reader
<1>3. TypeInv'
  BY <1>2, RecordGrows DEF TypeInv
<1>4. RequestInv'
  BY <1>2 DEF RequestInv
<1>5. PaceInv' /\ VerdictInv'
  BY <1>2 DEF PaceInv, VerdictInv
<1>6. ASSUME NEW k \in 1..Len(length)
      PROVE  /\ Seen(k)' = Seen(k) /\ length[k] <= Len(table'[request.dbs[k]])
             /\ file'[request.dbs[k]] = "ready"
  <2> DEFINE d == request.dbs[k]
  <2>1. d \in Databases /\ length[k] \in Nat /\ pc # "start"
    BY SeenRows
  <2>2. table[d] \in Seq(Row) /\ length[k] <= Len(table[d]) /\ file[d] = "ready"
    <3>1. table \in [Databases -> Seq(Row)]
      BY DEF TypeInv
    <3> QED
      BY <2>1, <3>1 DEF LoadedInv
  <2>0. file'[d] = "ready"
    BY <1>1, <2>1, <2>2
  <2>3. CASE table'[d] = table[d]
    BY <1>2, <2>0, <2>2, <2>3 DEF Seen
  <2>4. CASE \E rows \in Seq(Row) : table'[d] = table[d] \o rows
    <3>1. PICK rows \in Seq(Row) : table'[d] = table[d] \o rows
      BY <2>4
    <3>2. /\ Len(table[d]) <= Len(table'[d])
          /\ SubSeq(table'[d], 1, length[k]) = SubSeq(table[d], 1, length[k])
      <4> HIDE DEF d
      <4>1. Len(table[d]) <= Len(table[d] \o rows)
        BY <2>2, AppendedRows
      <4> QED
        BY <2>1, <2>2, <3>1, <4>1, BeginningKept
    <3>3. Len(table[d]) \in Nat /\ Len(table'[d]) \in Nat
      <4> HIDE DEF d
      <4> QED
        BY <2>2, <3>1, AppendedRows
    <3>4. length[k] <= Len(table'[d])
      <4> HIDE DEF d
      <4>1. length[k] <= Len(table[d]) /\ Len(table[d]) <= Len(table'[d])
        BY <2>2, <3>2
      <4> QED
        BY <2>1, <3>3, <4>1
    <3> QED
      BY <1>2, <2>0, <3>2, <3>4 DEF Seen
  <2> QED
    BY <1>1, <2>1, <2>3, <2>4
<1>7. LoadedInv'
  <2>1. timeline' = [k \in 1..Len(length') |-> Answer(Seen(k)', request')]
    <3>1. timeline = [k \in 1..Len(length) |-> Answer(Seen(k), request)]
      BY DEF LoadedInv
    <3> QED
      BY <1>2, <1>6, <3>1
  <2>2. \A k \in 1..Len(length') :
          length'[k] <= Len(table'[request'.dbs[k]]) /\ file'[request'.dbs[k]] = "ready"
    BY <1>2, <1>6
  <2> QED
    BY <1>2, <2>1, <2>2 DEF LoadedInv
<1> QED
  BY <1>3, <1>4, <1>5, <1>7 DEF IInv

LEMMA Stutter == IInv /\ UNCHANGED vars => IInv'
BY DEF vars, tables, reader, IInv, TypeInv, RequestInv, LoadedInv, Seen, PaceInv, VerdictInv

LEMMA InvStep == IInv /\ [Next]_vars => IInv'
BY StartStep, LoadStep, LoadFailsStep, PrintRowsStep, ShowStep, EndReplayStep,
   CompareStep, RecordStep, Stutter DEF Next, ReaderStep, Finished

(* The inductive invariant holds of every behaviour.                       *)
THEOREM Invariance == Spec => []IInv
BY InitInv, InvStep, PTL DEF Spec

(***************************************************************************)
(* The theorems.                                                           *)
(***************************************************************************)

(* Every variable keeps its type; a divergence names an event that both    *)
(* timelines have.                                                         *)
THEOREM TypeCorrect == Spec => []TypeOK
<1>1. IInv => TypeOK
  <2> SUFFICES ASSUME TypeInv, RequestInv, LoadedInv, PaceInv, VerdictInv PROVE TypeOK
    BY DEF IInv
  <2>1. request \in Requests \cup {<<>>}
    BY DEF RequestInv
  <2>2. length \in Seq(Nat) /\ Len(length) \in Nat /\ DOMAIN timeline = 1..Len(length)
    BY DEF LoadedInv
  <2>3. Len(length) <= 2
    <3>1. CASE pc = "start"
      BY <3>1 DEF RequestInv
    <3>2. CASE pc # "start"
      <4>1. request \in Requests /\ Len(length) <= Len(request.dbs)
        BY <3>2 DEF RequestInv, LoadedInv
      <4>2. Len(request.dbs) = 1 \/ Len(request.dbs) = 2
        BY <4>1, RequestFacts
      <4>3. Len(length) \in Nat
        BY <2>2
      <4> DEFINE loaded == Len(length)
                 asked == Len(request.dbs)
      <4>4. loaded <= asked /\ loaded \in Nat /\ (asked = 1 \/ asked = 2)
        BY <4>1, <4>2, <4>3
      <4> HIDE DEF loaded, asked
      <4>5. loaded <= 2
        BY <4>4
      <4> QED
        BY <4>5 DEF loaded
    <3> QED
      BY <3>1, <3>2
  <2>4. timeline \in Seq(Seq(Row)) /\ Len(timeline) = Len(length)
    <3>1. \A k \in 1..Len(length) : timeline[k] \in Seq(Row)
      BY SeenRows
    <3>2. timeline = [k \in 1..Len(length) |-> timeline[k]]
      BY DEF LoadedInv
    <3> QED
      BY <2>2, <3>1, <3>2
  <2>5. ASSUME verdict.kind = "divergence", NEW t \in 1..2
        PROVE  verdict.index < Len(timeline[t])
    <3>1. Len(length) = 2 /\ verdict = FirstDivergence(timeline[1], timeline[2])
      BY <2>5 DEF VerdictInv
    <3>2. timeline[1] \in Seq(Row) /\ timeline[2] \in Seq(Row)
      BY <3>1, SeenRows
    <3>3. verdict.index < Len(timeline[1]) /\ verdict.index < Len(timeline[2])
      BY <2>5, <3>1, <3>2, Divergences
    <3> QED
      BY <3>3
  <2> QED
    BY <2>1, <2>2, <2>3, <2>4, <2>5 DEF TypeInv, TypeOK, Verdict
<1> QED
  BY <1>1, Invariance, PTL

(* What a diff of two answers found, in terms of the tables it has seen.   *)
LEMMA DiffFacts ==
  ASSUME IInv, verdict.kind \in {"same", "divergence", "length"}
  PROVE  /\ request \in Requests /\ request.command = "diff"
         /\ Seen(1) \in Seq(Row) /\ Seen(2) \in Seq(Row)
         /\ LET a == Answer(Seen(1), request)
                b == Answer(Seen(2), request)
            IN  /\ a \in Seq(Row) /\ b \in Seq(Row)
                /\ verdict = FirstDivergence(a, b)
<1>1. TypeInv /\ RequestInv /\ LoadedInv /\ VerdictInv
  BY DEF IInv
<1>2. Len(length) = 2 /\ request.command = "diff"
      /\ verdict = FirstDivergence(timeline[1], timeline[2])
  BY <1>1 DEF VerdictInv
<1>3. ASSUME NEW k \in 1..2
      PROVE  /\ request \in Requests /\ Seen(k) \in Seq(Row)
             /\ timeline[k] = Answer(Seen(k), request) /\ timeline[k] \in Seq(Row)
  <2>1. k \in 1..Len(length)
    BY <1>2
  <2> QED
    BY <1>1, <2>1, SeenRows
<1> QED
  BY <1>2, <1>3

(* Exit code 0 of a diff is sound: it compared files that had their        *)
(* tables, and these hold every observation of the robot equally often.    *)
THEOREM NoDivergenceSound == Spec => []NoDivergenceIsSound
<1>1. IInv => NoDivergenceIsSound
  <2>0. ASSUME IInv, pc = "exit", ExitCode = 0, request.command = "diff", NEW k \in 1..2
        PROVE  file[request.dbs[k]] = "ready"
    <3>1. verdict.kind = "same"
      BY <2>0 DEF ExitCode, IInv, VerdictInv
    <3>2. Len(length) = 2 /\ pc # "start"
      BY <2>0, <3>1 DEF IInv, VerdictInv
    <3> QED
      BY <2>0, <3>2 DEF IInv, LoadedInv
  <2> SUFFICES ASSUME IInv, pc = "exit", ExitCode = 0, request.command = "diff",
                      NEW k \in 1..2, NEW i \in 1..Len(Seen(k)),
                      request.robot \in {None, Observation(Seen(k)[i]).robot}
               PROVE  CountOf(Observation(Seen(k)[i]), Seen(1))
                        = CountOf(Observation(Seen(k)[i]), Seen(2))
    BY <2>0 DEF NoDivergenceIsSound
  <2> DEFINE o == Observation(Seen(k)[i])
             q == request
             a == Answer(Seen(1), q)
             b == Answer(Seen(2), q)
  <2>1. verdict.kind = "same"
    <3>1. verdict.kind \in {"printed", "replayed", "same"}
      BY DEF ExitCode
    <3>2. verdict.kind # "printed" /\ verdict.kind # "replayed"
      BY DEF IInv, VerdictInv
    <3> QED
      BY <3>1, <3>2
  <2>2. /\ q \in Requests /\ Seen(1) \in Seq(Row) /\ Seen(2) \in Seq(Row)
        /\ a \in Seq(Row) /\ b \in Seq(Row) /\ verdict = FirstDivergence(a, b)
    BY <2>1, DiffFacts
  <2>3. q.topic = None /\ q.from = None /\ q.to = None
    BY <2>2, RequestFacts
  <2>4. \A row \in Row : Observation(row).robot = row.robot
    BY DEF Observation, Row
  <2> HIDE DEF o, q, a, b
  <2>5. q.robot \in {None, o.robot}
    BY DEF o, q
  <2>6. \A row \in Row : Observation(row) = o => Matches(row, q)
    BY <2>3, <2>4, <2>5 DEF Matches, OfRobot, Before
  <2>7. /\ Len(a) \in Nat /\ Len(a) = Len(b)
        /\ \A p \in 1..Len(a) : Observation(a[p]) = Observation(b[p])
    <3>1. Len(a) \in Nat /\ Len(b) \in Nat
      BY <2>2
    <3>2. /\ Len(a) = Len(b)
          /\ \A p \in 1..Least(Len(a), Len(b)) : Observation(a[p]) = Observation(b[p])
      BY <2>1, <2>2, Divergences
    <3> QED
      BY <3>1, <3>2 DEF Least
  <2>8. CountOf(o, Seen(1)) = CountOf(o, a)
    <3>1. \A j \in 1..Len(Seen(1)) : Observation(Seen(1)[j]) = o => Matches(Seen(1)[j], q)
      BY <2>2, <2>6, RowsAreStamped
    <3> QED
      BY <2>2, <3>1, AnswerCounts DEF a
  <2>9. CountOf(o, Seen(2)) = CountOf(o, b)
    <3>1. \A j \in 1..Len(Seen(2)) : Observation(Seen(2)[j]) = o => Matches(Seen(2)[j], q)
      BY <2>2, <2>6, RowsAreStamped
    <3> QED
      BY <2>2, <3>1, AnswerCounts DEF b
  <2>10. CountOf(o, a) = CountOf(o, b)
    <3>1. {p \in 1..Len(a) : Observation(a[p]) = o} = {p \in 1..Len(b) : Observation(b[p]) = o}
      BY <2>7
    <3> QED
      BY <3>1 DEF CountOf
  <2> QED
    BY <2>8, <2>9, <2>10 DEF o
<1> QED
  BY <1>1, Invariance, PTL

(* Two databases with the same session of a robot, once and in full, have  *)
(* no divergence for it, whatever else they hold.                          *)
THEOREM SameSession == Spec => []SameSessionNoDivergence
<1>1. IInv => SameSessionNoDivergence
  <2> SUFFICES ASSUME IInv, verdict.kind \in {"divergence", "length"}, request.robot # None,
                      HoldsSession(Seen(1), request.robot),
                      HoldsSession(Seen(2), request.robot)
               PROVE  FALSE
    BY DEF SameSessionNoDivergence
  <2> DEFINE q == request
             a == Answer(Seen(1), q)
             b == Answer(Seen(2), q)
  <2>1. /\ q \in Requests /\ q.command = "diff"
        /\ Seen(1) \in Seq(Row) /\ Seen(2) \in Seq(Row)
        /\ a \in Seq(Row) /\ b \in Seq(Row) /\ verdict = FirstDivergence(a, b)
    BY DiffFacts
  <2>2. /\ q.topic = None /\ q.from = None /\ q.to = None
        /\ q.robot \in Robots
    BY <2>1, RequestFacts
  <2>3. Len(a) = Len(b) /\ \A p \in 1..Len(a) : Observation(a[p]) = Observation(b[p])
    BY <2>1, <2>2, SameSessionSameAnswer
  <2> HIDE DEF a, b, q
  <2>4. verdict.kind # "same" => verdict.kind = "divergence"
    BY <2>1, <2>3, Divergences
  <2>5. verdict.kind = "divergence"
    BY <2>4
  <2>6. /\ verdict.index \in Nat /\ verdict.index < Len(a)
        /\ Observation(a[verdict.index + 1]) # Observation(b[verdict.index + 1])
    BY <2>1, <2>5, Divergences
  <2>7. verdict.index + 1 \in 1..Len(a)
    BY <2>1, <2>6
  <2> QED
    BY <2>3, <2>6, <2>7
<1> QED
  BY <1>1, Invariance, PTL

(* Adjacent windows partition the answer, at every bound between.          *)
THEOREM WindowsJoin == Spec => []WindowsPartition
<1>1. IInv => WindowsPartition
  <2> SUFFICES ASSUME TypeInv, RequestInv, LoadedInv, VerdictInv, verdict.kind = "printed",
                      NEW cut \in Stamp,
                      request.from # None => request.from <= cut,
                      request.to # None => cut <= request.to
               PROVE  timeline[1] = Answer(Seen(1), [request EXCEPT !.to = cut])
                                      \o Answer(Seen(1), [request EXCEPT !.from = cut])
    BY DEF IInv, WindowsPartition
  <2>1. Len(length) = 1 /\ Unparsable \notin {request.from, request.to}
    BY DEF VerdictInv
  <2>2. 1 \in 1..Len(length)
    BY <2>1
  <2>3. request \in Requests /\ Seen(1) \in Seq(Row) /\ timeline[1] = Answer(Seen(1), request)
    BY <2>2, SeenRows
  <2> QED
    BY <2>1, <2>3, AdjacentWindows
<1> QED
  BY <1>1, Invariance, PTL

(* A later answer has every row of an earlier one, in the same order.      *)
THEOREM AnswersGrow == Spec => AnswersOnlyGrow
<1>1. ASSUME IInv, [Next]_vars, NEW d \in Databases, table'[d] # table[d], NEW q
      PROVE  AnswerGrows(table[d], table'[d], q)
  <2>1. table[d] \in Seq(Row)
    <3>1. table \in [Databases -> Seq(Row)]
      BY <1>1 DEF IInv, TypeInv
    <3> QED
      BY <3>1
  <2>2. Record
    BY <1>1 DEF Next, ReaderStep, Start, Load, LoadFails, PrintRows, Show, EndReplay, Compare,
                Finished, vars, tables
  <2>3. PICK rows \in Seq(Row) : table'[d] = table[d] \o rows
    BY <1>1, <2>2, RecordGrows DEF IInv
  <2> QED
    BY <2>1, <2>3, AnswerOfMore
<1>2. IInv /\ [Next]_vars =>
        [\A d \in Databases : table'[d] # table[d] =>
           \A r \in Robots \cup {None} :
             AnswerGrows(table[d], table'[d],
                         [robot |-> r, topic |-> None, from |-> None, to |-> None])]_table
  BY <1>1
<1> QED
  BY <1>2, Invariance, PTL DEF Spec, AnswersOnlyGrow

(* A replay sleeps the recorded time divided by the speed: two roundings   *)
(* of an f64 away from it in proportion, short of it by less than a        *)
(* nanosecond per gap, and one that ends well has shown all there was.     *)
THEOREM PaceKept == Spec => []PaceIsKept
<1>1. IInv => PaceIsKept
  <2> SUFFICES ASSUME TypeInv, RequestInv, LoadedInv, PaceInv, VerdictInv PROVE PaceIsKept
    BY DEF IInv
  <2>1. shown > 0 =>
          Kept(elapsed, shown, timeline[1][shown].stamp - timeline[1][1].stamp, request.speed)
    BY DEF PaceInv
  <2>2. ASSUME verdict.kind = "replayed" PROVE shown = length[1]
    <3>1. request.command = "replay" /\ Len(length) = 1 /\ shown = Len(timeline[1])
      BY <2>2 DEF VerdictInv
    <3>2. 1 \in 1..Len(length)
      BY <3>1
    <3>3. /\ request \in Requests /\ length[1] \in Nat
          /\ Seen(1) \in Seq(Row) /\ Len(Seen(1)) = length[1]
          /\ timeline[1] = Answer(Seen(1), request)
      BY <3>2, SeenRows
    <3>4. /\ request.robot = None /\ request.topic = None
          /\ request.from = None /\ request.to = None
      BY <3>1, <3>3, RequestFacts
    <3>5. Matching(Seen(1), request) = 1..length[1]
      BY <3>3, <3>4 DEF Matching, Matches, OfRobot, Before
    <3>6. Len(timeline[1]) = Cardinality(1..length[1])
      BY <3>3, <3>5, AnswerRows
    <3>7. Cardinality(1..length[1]) = length[1]
      BY <3>3, FS_Interval
    <3> QED
      BY <3>1, <3>6, <3>7
  <2> QED
    BY <2>1, <2>2 DEF PaceIsKept, Kept
<1> QED
  BY <1>1, Invariance, PTL
=============================================================================
