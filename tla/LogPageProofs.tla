---------------------------- MODULE LogPageProofs ----------------------------

(***************************************************************************)
(* Proofs about the pages of the operation log, and the theorems about all *)
(* messages: Split finds the records of a page one behind the other, each   *)
(* record is read of its own bytes alone, and each tail decoder takes only  *)
(* what was sent.                                                          *)
(***************************************************************************)
EXTENDS PayloadsProofs, WellFoundedInduction

(* Induction over the numbers of a set, and the functions it defines.       *)
LEMMA LeastNumber ==
  ASSUME NEW T \in SUBSET Nat, T # {}
  PROVE  \E n \in T : \A m \in T : n <= m
<1> DEFINE less == {p \in Nat \X Nat : p[1] < p[2]}
<1>1. IsWellFoundedOn(less, Nat)
  BY NatLessThanWellFounded DEF OpToRel
<1>2. PICK n \in T : \A m \in T : ~(<<m, n>> \in less)
  <2> HIDE DEF less
  <2> QED BY <1>1, WFMin
<1>3. \A m \in T : ~(m < n)
  BY <1>2
<1> QED BY <1>3

(* A set of numbers that has 0 and the successor of each of its members is  *)
(* Nat.                                                                     *)
LEMMA SetInduction ==
  ASSUME NEW T \in SUBSET Nat, 0 \in T, \A n \in T : n + 1 \in T
  PROVE  T = Nat
<1> SUFFICES ASSUME Nat \ T # {} PROVE FALSE
  OBVIOUS
<1>1. PICK n \in Nat \ T : \A m \in Nat \ T : n <= m
  BY LeastNumber
<1>2. n - 1 \in T
  BY <1>1
<1> QED BY <1>1, <1>2

(* What a function is, whose definition calls it again on something of less *)
(* rank.                                                                    *)
Defines(f, D, rank, next, done, base, comb, n) ==
  \A x \in D : rank[x] < n =>
    f[x] = IF x \in done THEN base[x] ELSE comb[<<x, f[next[x]]>>]

(* A function defined by recursion exists up to every rank ...              *)
LEMMA RecursionTo ==
  ASSUME NEW D, NEW V, NEW rank \in [D -> Nat], NEW next \in [D -> D], NEW done,
         NEW base \in [D -> V], NEW comb \in [D \X V -> V],
         \A x \in D \ done : rank[next[x]] < rank[x],
         NEW n \in Nat
  PROVE  \E f \in [D -> V] : Defines(f, D, rank, next, done, base, comb, n)
<1> DEFINE T == {m \in Nat : \E f \in [D -> V] : Defines(f, D, rank, next, done, base, comb, m)}
<1>1. 0 \in T
  BY DEF Defines
<1>2. ASSUME NEW m \in T PROVE m + 1 \in T
  <2>1. PICK f \in [D -> V] : Defines(f, D, rank, next, done, base, comb, m)
    OBVIOUS
  <2> DEFINE value(x) == IF x \in done THEN base[x] ELSE comb[<<x, f[next[x]]>>]
             g == [x \in D |-> value(x)]
  <2>2. \A x \in D : value(x) \in V
    OBVIOUS
  <2> HIDE DEF value
  <2>3. g \in [D -> V] /\ \A x \in D : g[x] = value(x)
    BY <2>2
  <2> HIDE DEF g
  <2>4. \A x \in D : rank[x] < m => g[x] = f[x]
    BY <2>1, <2>3 DEF Defines, value
  <2>5. ASSUME NEW x \in D, rank[x] < m + 1
        PROVE  g[x] = IF x \in done THEN base[x] ELSE comb[<<x, g[next[x]]>>]
    <3>1. CASE x \in done
      BY <2>3, <3>1 DEF value
    <3>2. CASE x \notin done
      <4>1. next[x] \in D /\ rank[next[x]] < m
        BY <2>5, <3>2
      <4>2. g[next[x]] = f[next[x]]
        BY <2>4, <4>1
      <4> QED BY <2>3, <3>2, <4>2 DEF value
    <3> QED BY <3>1, <3>2
  <2>6. Defines(g, D, rank, next, done, base, comb, m + 1)
    BY <2>5 DEF Defines
  <2> QED BY <2>3, <2>6
<1> HIDE DEF T
<1>3. T = Nat
  <2>1. T \in SUBSET Nat
    BY DEF T
  <2> QED BY <1>1, <1>2, <2>1, SetInduction
<1> QED BY <1>3 DEF T

(* ... two of them agree where both are defined ...                         *)
LEMMA RecursionAgrees ==
  ASSUME NEW D, NEW rank \in [D -> Nat], NEW next \in [D -> D], NEW done, NEW base, NEW comb,
         \A x \in D \ done : rank[next[x]] < rank[x],
         NEW n \in Nat, NEW m \in Nat, n <= m,
         NEW f, Defines(f, D, rank, next, done, base, comb, n),
         NEW g, Defines(g, D, rank, next, done, base, comb, m)
  PROVE  \A x \in D : rank[x] < n => f[x] = g[x]
<1> DEFINE T == {k \in Nat : \A x \in D : rank[x] < k /\ rank[x] < n => f[x] = g[x]}
<1>1. 0 \in T
  OBVIOUS
<1>2. ASSUME NEW k \in T PROVE k + 1 \in T
  <2>1. SUFFICES ASSUME NEW x \in D, rank[x] < k + 1, rank[x] < n PROVE f[x] = g[x]
    OBVIOUS
  <2>2. /\ f[x] = IF x \in done THEN base[x] ELSE comb[<<x, f[next[x]]>>]
        /\ g[x] = IF x \in done THEN base[x] ELSE comb[<<x, g[next[x]]>>]
    BY <2>1 DEF Defines
  <2>3. x \notin done => f[next[x]] = g[next[x]]
    <3>1. SUFFICES ASSUME x \notin done PROVE f[next[x]] = g[next[x]]
      OBVIOUS
    <3>2. next[x] \in D /\ rank[next[x]] < k /\ rank[next[x]] < n
      BY <2>1, <3>1
    <3> QED BY <3>2
  <2> QED BY <2>2, <2>3
<1> HIDE DEF T
<1>3. T = Nat
  <2>1. T \in SUBSET Nat
    BY DEF T
  <2> QED BY <1>1, <1>2, <2>1, SetInduction
<1> QED BY <1>3 DEF T

(* What it takes to define a function on D by recursion: a rank that falls  *)
(* at every step that is not the last.                                      *)
Recursive(D, V, rank, next, done, base, comb) ==
  /\ rank \in [D -> Nat] /\ next \in [D -> D] /\ base \in [D -> V]
  /\ comb \in [D \X V -> V]
  /\ \A x \in D \ done : rank[next[x]] < rank[x]

(* ... so there is one that satisfies its recursion everywhere.             *)
LEMMA Recursion ==
  ASSUME NEW D, NEW V, NEW rank, NEW next, NEW done, NEW base, NEW comb,
         Recursive(D, V, rank, next, done, base, comb)
  PROVE  \E f \in [D -> V] :
           \A x \in D : f[x] = IF x \in done THEN base[x] ELSE comb[<<x, f[next[x]]>>]
<1> DEFINE good(f, n) == f \in [D -> V] /\ Defines(f, D, rank, next, done, base, comb, n)
           upto(n) == CHOOSE f : good(f, n)
           whole == [x \in D |-> upto(rank[x] + 1)[x]]
<1>1. /\ rank \in [D -> Nat] /\ next \in [D -> D] /\ base \in [D -> V]
      /\ comb \in [D \X V -> V]
      /\ \A x \in D \ done : rank[next[x]] < rank[x]
  BY DEF Recursive
<1>2. \A n \in Nat : good(upto(n), n)
  <2>1. \A n \in Nat : \E f : good(f, n)
    BY <1>1, RecursionTo
  <2> QED BY <2>1
<1>3. \A n \in Nat : upto(n) \in [D -> V] /\ Defines(upto(n), D, rank, next, done, base, comb, n)
  BY <1>2
<1> HIDE DEF upto
<1>4. whole \in [D -> V] /\ \A x \in D : whole[x] = upto(rank[x] + 1)[x]
  BY <1>1, <1>3
<1> HIDE DEF whole
<1>5. ASSUME NEW x \in D
      PROVE  whole[x] = IF x \in done THEN base[x] ELSE comb[<<x, whole[next[x]]>>]
  <2> DEFINE n == rank[x] + 1
             f == upto(n)
  <2>1. n \in Nat /\ rank[x] < n
    BY <1>1
  <2>2. Defines(f, D, rank, next, done, base, comb, n) /\ whole[x] = f[x]
    BY <1>3, <1>4, <2>1
  <2> HIDE DEF n, f
  <2>3. f[x] = IF x \in done THEN base[x] ELSE comb[<<x, f[next[x]]>>]
    BY <2>1, <2>2 DEF Defines
  <2>4. ASSUME x \notin done PROVE f[next[x]] = whole[next[x]]
    <3> DEFINE y == next[x]
               m == rank[y] + 1
               g == upto(m)
    <3>1. y \in D /\ m \in Nat /\ m <= n /\ rank[y] < m
      BY <1>1, <2>4 DEF n
    <3>2. Defines(g, D, rank, next, done, base, comb, m) /\ whole[y] = g[y]
      BY <1>3, <1>4, <3>1
    <3> HIDE DEF m, g, y
    <3>3. \A z \in D : rank[z] < m => g[z] = f[z]
      BY <2>1, <2>2, <3>1, <3>2, <1>1, RecursionAgrees
    <3> QED BY <3>1, <3>2, <3>3 DEF y
  <2> QED BY <2>2, <2>3, <2>4
<1> QED BY <1>4, <1>5

----------------------------------------------------------------------------

(* The pages of the operation log.  A page of any number of records, each    *)
(* at least as long as its header, is read as one entry of each.  A page     *)
(* holds these records when it is two words, and then a length and that many *)
(* bytes for each of them, at at[k] for the record k, and nothing else.      *)
Holds(data, bodies, at) ==
  /\ at \in [1..(Len(bodies) + 1) -> Nat]
  /\ at[1] = 4
  /\ at[Len(bodies) + 1] = Len(data)
  /\ \A k \in 1..Len(bodies) :
       /\ at[k + 1] = at[k] + 1 + Len(bodies[k])
       /\ data[at[k] + 1] = Len(bodies[k])
       /\ \A i \in 1..Len(bodies[k]) : data[at[k] + 1 + i] = bodies[k][i]

(* Where a record is: after its length, and up to its end.                   *)
Place == [start : Nat, end : Nat]

(* Where that loop ends: at the end, or at a record that overruns the page. *)
Stops(data, idx) == idx = Len(data) \/ idx + 1 + At(data, idx) > Len(data)

(* The loop of parse_operate_log_response, from each place of the page on.  *)
Splits(from, data) ==
  from = [idx \in 0..Len(data) |->
            IF idx = Len(data) \/ idx + 1 + At(data, idx) > Len(data)
            THEN <<>>
            ELSE LET end == idx + 1 + At(data, idx)
                 IN  <<[start |-> idx + 1, end |-> end]>> \o from[end]]

(* A byte is a number.                                                       *)
LEMMA LogBytes ==
  \A b \in Byte : b \in Nat
  BY DEF Byte

(* Each turn of the loop is further on in the page, so there is such a      *)
(* function ...                                                             *)
LEMMA SplitsExists ==
  ASSUME NEW data \in Seq(Byte)
  PROVE  \E from : Splits(from, data)
<1> DEFINE L == Len(data)
           D == 0..L
           V == Seq(Place)
           done == {idx \in D : Stops(data, idx)}
           end(idx) == idx + 1 + data[idx + 1]
           rank == [idx \in D |-> L - idx]
           next == [idx \in D |-> IF idx \in done THEN idx ELSE end(idx)]
           base == [idx \in D |-> <<>>]
           comb == [z \in D \X V |-> <<[start |-> z[1] + 1, end |-> next[z[1]]]>> \o z[2]]
<1>1. L \in Nat
  OBVIOUS
<1>2. \A idx \in D \ done : idx \in D /\ idx < L /\ end(idx) \in D /\ idx < end(idx)
  <2> TAKE idx \in D \ done
  <2>1. idx \in D /\ idx # L /\ ~(idx + 1 + data[idx + 1] > L)
    BY DEF Stops, At
  <2>2. idx + 1 \in 1..L
    BY <1>1, <2>1
  <2>3. data[idx + 1] \in Byte
    BY <2>2
  <2>4. data[idx + 1] \in Nat
    BY <2>3, LogBytes
  <2> QED BY <1>1, <2>1, <2>4
<1>3. rank \in [D -> Nat]
  BY <1>1
<1> HIDE DEF end
<1>4. next \in [D -> D]
  BY <1>2
<1>5. base \in [D -> V]
  <2>1. <<>> \in V
    OBVIOUS
  <2> QED BY <2>1
<1>6. comb \in [D \X V -> V]
  <2> SUFFICES ASSUME NEW z \in D \X V
               PROVE  <<[start |-> z[1] + 1, end |-> next[z[1]]]>> \o z[2] \in V
    OBVIOUS
  <2>1. z[1] \in Nat /\ z[1] + 1 \in Nat /\ z[1] \in D /\ z[2] \in V
    BY <1>1
  <2>2. next[z[1]] \in Nat
    BY <1>4, <2>1
  <2>3. [start |-> z[1] + 1, end |-> next[z[1]]] \in Place
    BY <2>1, <2>2 DEF Place
  <2> QED BY <2>1, <2>3
<1>7. \A x \in D \ done : rank[next[x]] < rank[x]
  <2> TAKE x \in D \ done
  <2>1. next[x] = end(x) /\ end(x) \in D /\ x < end(x) /\ x \in D
    BY <1>2
  <2> QED BY <1>1, <2>1
<1>8. Recursive(D, V, rank, next, done, base, comb)
  BY <1>3, <1>4, <1>5, <1>6, <1>7, Zenon DEF Recursive
<1>9. PICK f \in [D -> V] :
        \A x \in D : f[x] = IF x \in done THEN base[x] ELSE comb[<<x, f[next[x]]>>]
  <2> HIDE DEF D, V, rank, next, done, base, comb
  <2> QED BY <1>8, Recursion
<1>10. \A x \in D : f[x] = IF Stops(data, x) THEN <<>>
                           ELSE <<[start |-> x + 1, end |-> end(x)]>> \o f[end(x)]
  <2> TAKE x \in D
  <2>1. f[x] = IF x \in done THEN base[x] ELSE comb[<<x, f[next[x]]>>]
    BY <1>9
  <2>2. CASE x \in done
    BY <2>1, <2>2
  <2>3. CASE x \notin done
    <3>1. ~Stops(data, x) /\ next[x] = end(x) /\ end(x) \in D
      BY <1>2, <2>3
    <3>2. PICK v \in V : v = f[end(x)]
      BY <3>1
    <3>3. <<x, v>> \in D \X V
      OBVIOUS
    <3>4. comb[<<x, v>>] = <<[start |-> x + 1, end |-> next[x]]>> \o v
      BY <3>3
    <3> QED BY <2>1, <2>3, <3>1, <3>2, <3>4
  <2> QED BY <2>2, <2>3
<1>11. f = [idx \in D |-> f[idx]]
  OBVIOUS
<1>12. Splits(f, data)
  BY <1>10, <1>11 DEF Splits, Stops, end, At
<1> QED BY <1>12

(* ... and the reader returns what it finds from the first record on.       *)
LEMMA SplitIs ==
  ASSUME NEW data \in Seq(Byte), Len(data) >= 4
  PROVE  \E from : Splits(from, data) /\ Split(data) = from[4]
<1> DEFINE from == CHOOSE f : Splits(f, data)
<1>1. Splits(from, data)
  BY SplitsExists
<1>2. Split(data) = from[4]
  <2>1. ~(Len(data) < 4)
    OBVIOUS
  <2> QED BY <2>1 DEF Split, Splits
<1> HIDE DEF from
<1> QED BY <1>1, <1>2

(* The records of a page, and the places where the reader finds them.       *)
PlacesFrom(at, k, n) == [j \in 1..(n + 1 - k) |-> [start |-> at[k + j - 1] + 1, end |-> at[k + j]]]

(* What is used of that.                                                     *)
LaidOut(data, bodies, at) ==
  /\ Len(bodies) \in Nat /\ Len(data) \in Nat /\ at[1] = 4 /\ at[Len(bodies) + 1] = Len(data)
  /\ \A k \in 1..(Len(bodies) + 1) : at[k] \in Nat
  /\ \A k \in 1..Len(bodies) : /\ at[k + 1] = at[k] + 1 + Len(bodies[k])
                               /\ Len(bodies[k]) \in Nat /\ bodies[k] \in Seq(Byte)
                               /\ data[at[k] + 1] = Len(bodies[k])

(* Each place is a number, and each length is one.                           *)
LEMMA HoldsIs ==
  ASSUME NEW data \in Seq(Byte), NEW bodies \in Seq(Seq(Byte)), NEW at, Holds(data, bodies, at)
  PROVE  LaidOut(data, bodies, at)
<1>1. Len(bodies) \in Nat /\ Len(data) \in Nat
  OBVIOUS
<1>2. \A k \in 1..(Len(bodies) + 1) : at[k] \in Nat
  BY DEF Holds
<1>3. \A k \in 1..Len(bodies) : Len(bodies[k]) \in Nat /\ bodies[k] \in Seq(Byte)
  <2> TAKE k \in 1..Len(bodies)
  <2>1. bodies[k] \in Seq(Byte)
    OBVIOUS
  <2> QED BY <2>1
<1> QED BY <1>1, <1>2, <1>3, Zenon DEF Holds, LaidOut

(* A place ahead of other places.                                            *)
LEMMA Ahead ==
  ASSUME NEW y \in Place, NEW R \in Seq(Place), NEW X, X = <<y>> \o R
  PROVE  X \in Seq(Place) /\ Len(X) = Len(R) + 1 /\ X[1] = y /\ \A j \in 1..Len(R) : X[j + 1] = R[j]
OBVIOUS

(* By induction from the last record back: from each record on the loop      *)
(* finds the records that follow, at their places.                           *)
LEMMA PlacesFound ==
  ASSUME NEW data \in Seq(Byte), NEW bodies \in Seq(Seq(Byte)), NEW at, Holds(data, bodies, at),
         NEW from, Splits(from, data)
  PROVE  \A k \in 1..(Len(bodies) + 1) : at[k] <= Len(data) /\ from[at[k]] = PlacesFrom(at, k, Len(bodies))
<1>1. PICK n \in Nat : n = Len(bodies)
  OBVIOUS
<1>2. PICK L \in Nat : L = Len(data)
  OBVIOUS
<1>3. /\ at[1] = 4 /\ at[n + 1] = L /\ \A k \in 1..(n + 1) : at[k] \in Nat
      /\ \A k \in 1..n : /\ at[k + 1] = at[k] + 1 + Len(bodies[k]) /\ Len(bodies[k]) \in Nat
                         /\ data[at[k] + 1] = Len(bodies[k])
  <2>1. LaidOut(data, bodies, at)
    BY HoldsIs
  <2> QED BY <1>1, <1>2, <2>1, Zenon DEF LaidOut
<1>4. \A idx \in 0..L :
        from[idx] = IF idx = L \/ idx + 1 + data[idx + 1] > L THEN <<>>
                    ELSE <<[start |-> idx + 1, end |-> idx + 1 + data[idx + 1]]>>
                           \o from[idx + 1 + data[idx + 1]]
  <2> TAKE idx \in 0..L
  <2> QED BY <1>2, Zenon DEF Splits, At
<1> DEFINE good(k) == at[k] <= L /\ from[at[k]] = PlacesFrom(at, k, n)
           T == {m \in Nat : m <= n => good(n + 1 - m)}
<1>5. 0 \in T
  <2>1. n + 1 - 0 = n + 1 /\ L \in 0..L
    OBVIOUS
  <2>2. from[L] = <<>>
    BY <1>4, <2>1
  <2>3. PlacesFrom(at, n + 1, n) = <<>>
    BY DEF PlacesFrom
  <2>4. good(n + 1)
    BY <1>3, <2>2, <2>3
  <2> QED BY <2>1, <2>4
<1>6. ASSUME NEW m \in T PROVE m + 1 \in T
  <2> SUFFICES ASSUME m + 1 <= n PROVE good(n + 1 - (m + 1))
    OBVIOUS
  <2>1. PICK k \in Nat : k = n - m
    BY <1>6
  <2>2. m \in Nat /\ k \in 1..n /\ n + 1 - (m + 1) = k /\ n + 1 - m = k + 1 /\ k \in 1..(n + 1)
    BY <2>1
  <2>3. at[k + 1] <= L /\ from[at[k + 1]] = PlacesFrom(at, k + 1, n)
    BY <1>6, <2>2
  <2>4. PICK p \in Nat : p = at[k]
    BY <1>3, <2>2
  <2>5. PICK q \in Nat : q = at[k + 1]
    <3>1. k + 1 \in 1..(n + 1)
      BY <2>2
    <3> QED BY <1>3, <3>1
  <2>6. PICK size \in Nat : size = Len(bodies[k]) /\ data[p + 1] = size /\ q = p + 1 + size
    BY <1>3, <2>2, <2>4, <2>5
  <2>7. p \in 0..L /\ p # L /\ ~(p + 1 + data[p + 1] > L) /\ p + 1 + data[p + 1] = q
    <3>1. q <= L
      BY <2>3, <2>5
    <3>4. q = p + 1 + size
      BY <2>6
    <3>2. p + 1 + size <= L /\ p \in 0..L /\ p # L /\ ~(p + 1 + size > L) /\ p + 1 + size = q
      BY <3>1, <3>4
    <3>3. data[p + 1] = size
      BY <2>6
    <3> QED BY <3>2, <3>3, Zenon
  <2>8. from[p] = <<[start |-> p + 1, end |-> q]>> \o from[q]
    BY <1>4, <2>7
  <2> DEFINE R == PlacesFrom(at, k + 1, n)
             W == PlacesFrom(at, k, n)
             y == [start |-> p + 1, end |-> q]
  <2>9. /\ W \in Seq(Place) /\ Len(W) = n + 1 - k
        /\ \A j \in 1..(n + 1 - k) : W[j] = [start |-> at[k + j - 1] + 1, end |-> at[k + j]]
    <3>1. n + 1 - k \in Nat
      BY <2>2
    <3>2. \A j \in 1..(n + 1 - k) : [start |-> at[k + j - 1] + 1, end |-> at[k + j]] \in Place
      <4> TAKE j \in 1..(n + 1 - k)
      <4>1. k + j - 1 \in 1..(n + 1) /\ k + j \in 1..(n + 1)
        BY <2>2
      <4>2. at[k + j - 1] \in Nat /\ at[k + j] \in Nat
        BY <1>3, <4>1
      <4> QED BY <4>2 DEF Place
    <3>3. W = [j \in 1..(n + 1 - k) |-> [start |-> at[k + j - 1] + 1, end |-> at[k + j]]]
      BY DEF PlacesFrom
    <3> HIDE DEF W
    <3>4. PICK size1 \in Nat : size1 = n + 1 - k
      BY <3>1
    <3>5. W \in Seq(Place) /\ Len(W) = n + 1 - k
      <4>1. W \in [1..size1 -> Place]
        BY <3>2, <3>3, <3>4
      <4>2. W \in Seq(Place) /\ Len(W) = size1
        BY <4>1, FunctionIsSeq
      <4> QED BY <3>4, <4>2
    <3>6. \A j \in 1..(n + 1 - k) : W[j] = [start |-> at[k + j - 1] + 1, end |-> at[k + j]]
      BY <3>3, Zenon
    <3> QED BY <3>5, <3>6
  <2>10. /\ R \in Seq(Place) /\ Len(R) = n - k
         /\ \A j \in 1..(n - k) : R[j] = [start |-> at[k + j] + 1, end |-> at[k + j + 1]]
    <3>1. n + 1 - (k + 1) = n - k /\ n - k \in Nat /\ \A j \in 1..(n - k) : k + 1 + j - 1 = k + j /\ k + 1 + j = k + j + 1
      BY <2>2
    <3>2. R = [j \in 1..(n - k) |-> [start |-> at[k + j] + 1, end |-> at[k + j + 1]]]
      BY <3>1 DEF PlacesFrom
    <3>3. \A j \in 1..(n - k) : [start |-> at[k + j] + 1, end |-> at[k + j + 1]] \in Place
      <4> TAKE j \in 1..(n - k)
      <4>1. k + j \in 1..(n + 1) /\ k + j + 1 \in 1..(n + 1)
        BY <2>2
      <4>2. at[k + j] \in Nat /\ at[k + j + 1] \in Nat
        BY <1>3, <4>1
      <4> QED BY <4>2 DEF Place
    <3> HIDE DEF R
    <3>4. PICK size1 \in Nat : size1 = n - k
      BY <3>1
    <3>5. R \in Seq(Place) /\ Len(R) = n - k
      <4>1. R \in [1..size1 -> Place]
        BY <3>2, <3>3, <3>4
      <4>2. R \in Seq(Place) /\ Len(R) = size1
        BY <4>1, FunctionIsSeq
      <4> QED BY <3>4, <4>2
    <3>6. \A j \in 1..(n - k) : R[j] = [start |-> at[k + j] + 1, end |-> at[k + j + 1]]
      BY <3>2, Zenon
    <3> QED BY <3>5, <3>6
  <2>11. y \in Place
    BY DEF Place
  <2> HIDE DEF R, W, y
  <2>12. PICK X : X = <<y>> \o R
    OBVIOUS
  <2>13. X \in Seq(Place) /\ Len(X) = n - k + 1 /\ X[1] = y /\ \A j \in 1..(n - k) : X[j + 1] = R[j]
    <3>1. R \in Seq(Place) /\ Len(R) = n - k
      BY <2>10
    <3>2. /\ X \in Seq(Place) /\ Len(X) = Len(R) + 1 /\ X[1] = y
          /\ \A j \in 1..Len(R) : X[j + 1] = R[j]
      BY <2>11, <2>12, <3>1, Ahead
    <3> QED BY <3>1, <3>2
  <2>14. ASSUME NEW j \in 1..(n - k + 1) PROVE X[j] = W[j]
    <3>1. CASE j = 1
      <4>1. k + j - 1 = k /\ j \in 1..(n + 1 - k)
        BY <2>2, <3>1
      <4>2. W[j] = [start |-> at[k] + 1, end |-> at[k + 1]]
        BY <2>9, <3>1, <4>1
      <4> QED BY <2>4, <2>5, <2>13, <3>1, <4>2 DEF y
    <3>2. CASE j # 1
      <4>1. PICK i \in 1..(n - k) : j = i + 1 /\ k + j - 1 = k + i /\ k + j = k + i + 1 /\ j \in 1..(n + 1 - k)
        <5>1. j - 1 \in 1..(n - k) /\ j = (j - 1) + 1 /\ k + j - 1 = k + (j - 1) /\ k + j = k + (j - 1) + 1
              /\ j \in 1..(n + 1 - k)
          BY <2>2, <3>2
        <5> QED BY <5>1
      <4>2. W[j] = [start |-> at[k + i] + 1, end |-> at[k + i + 1]]
        BY <2>9, <4>1
      <4> QED BY <2>10, <2>13, <4>1, <4>2
    <3> QED BY <3>1, <3>2
  <2>15. X = W
    <3>1. Len(X) = Len(W) /\ Len(X) = n - k + 1
      BY <2>2, <2>9, <2>13
    <3> QED BY <2>9, <2>13, <2>14, <3>1
  <2>16. at[k] <= L
    BY <2>4, <2>7
  <2>17. from[at[k]] = PlacesFrom(at, k, n)
    BY <2>3, <2>4, <2>5, <2>8, <2>12, <2>15, Zenon DEF R, W, y
  <2> QED BY <2>2, <2>16, <2>17
<1> HIDE DEF T
<1>7. T \in SUBSET Nat
  BY DEF T
<1>8. T = Nat
  BY <1>5, <1>6, <1>7, SetInduction
<1> HIDE DEF good
<1>9. ASSUME NEW k \in 1..(n + 1) PROVE good(k)
  <2>1. n + 1 - k \in Nat /\ n + 1 - k <= n /\ n + 1 - (n + 1 - k) = k
    OBVIOUS
  <2>2. n + 1 - k \in T
    BY <1>8, <2>1
  <2> QED BY <2>1, <2>2 DEF T
<1> QED BY <1>1, <1>2, <1>9 DEF good

(* An entry of the log, of the bytes of its record and nothing else.        *)
EntryOf(body, number) ==
  [number |-> number, type |-> body[1],
   date |-> Date(6, SubSeq(body, 2, 7)), battery |-> body[8],
   tail |-> RecordTail(body[1], SubSeq(body, 9, Len(body)))]

SameSlice(data, first, last, body, a, b) == SubSeq(data, first, last) = SubSeq(body, a, b)

(* A slice of a page that lies within a record, and where it is in each.     *)
SlicesBoth(S, data, body, p, a, b, first, last) ==
  /\ data \in Seq(S) /\ body \in Seq(S) /\ p \in Nat /\ Within(body, data, p)
  /\ a \in Nat /\ a # 0 /\ b \in Nat /\ a <= b + 1 /\ b <= Len(body)
  /\ first = p + a /\ last = p + b

(* It is the same slice of both.                                             *)
LEMMA SliceOfRecord ==
  ASSUME NEW S, NEW data, NEW body, NEW p, NEW a, NEW b, NEW first, NEW last,
         SlicesBoth(S, data, body, p, a, b, first, last)
  PROVE  SameSlice(data, first, last, body, a, b)
<1>0. /\ data \in Seq(S) /\ body \in Seq(S) /\ p \in Nat /\ Within(body, data, p)
      /\ a \in Nat /\ a # 0 /\ b \in Nat /\ a <= b + 1 /\ b <= Len(body)
      /\ first = p + a /\ last = p + b
  BY DEF SlicesBoth
<1> USE <1>0 DEF Within
<1>1. PICK n \in Nat : n = b + 1 - a
  OBVIOUS
<1>2. first \in Nat \ {0} /\ last \in Nat /\ last <= Len(data) /\ first <= last + 1 /\ first + n = last + 1
  BY <1>1
<1>3. PICK u : u = SubSeq(data, first, last)
  OBVIOUS
<1>4. PICK v : v = SubSeq(body, a, b)
  OBVIOUS
<1>5. u \in Seq(S) /\ Len(u) = n /\ \A i \in 1..n : u[i] = data[p + a + i - 1]
  <2>1. PICK f \in Nat \ {0} : f = first
    BY <1>2
  <2>2. PICK l \in Nat : l = last
    BY <1>2
  <2>3. l <= Len(data) /\ f <= l + 1 /\ n = l + 1 - f
    BY <1>1, <1>2, <2>1, <2>2
  <2>4. u = SubSeq(data, f, l)
    BY <1>3, <2>1, <2>2
  <2>5. u \in Seq(S) /\ Len(u) = n /\ \A i \in 1..n : u[i] = data[f + i - 1]
    <3>1. data \in Seq(S)
      BY <1>0
    <3> HIDE <1>0
    <3> QED BY <2>3, <2>4, <3>1
  <2> QED BY <2>1, <2>5
<1>6. v \in Seq(S) /\ Len(v) = n /\ \A i \in 1..n : v[i] = body[a + i - 1]
  <2>1. b <= Len(body) /\ a <= b + 1 /\ n = b + 1 - a /\ a # 0
    BY <1>1
  <2> QED BY <1>4, <2>1
<1>7. ASSUME NEW i \in 1..n PROVE u[i] = v[i]
  <2>1. a + i - 1 \in 1..Len(body) /\ p + (a + i - 1) = p + a + i - 1
    BY <1>1
  <2> QED BY <1>5, <1>6, <2>1
<1>8. u = v
  BY <1>5, <1>6, <1>7
<1> QED BY <1>2, <1>3, <1>4, <1>8 DEF SameSlice

(* An entry reads its header and its tail from its record.                   *)
LEMMA EntryIs ==
  ASSUME NEW data \in Seq(Byte), NEW body \in Seq(Byte), NEW p \in Nat, NEW number,
         Within(body, data, p), Len(body) >= 8
  PROVE  Entry(data, [start |-> p, end |-> p + Len(body)], number) = EntryOf(body, number)
<1>1. PICK n \in Nat : n = Len(body)
  OBVIOUS
<1>2. n >= 8 /\ p + n <= Len(data)
  BY <1>1 DEF Within
<1>3. At(data, p) = body[1] /\ At(data, p + 7) = body[8]
  <2>1. 1 \in 1..Len(body) /\ 8 \in 1..Len(body) /\ p + 7 + 1 = p + 8
    BY <1>1, <1>2
  <2> QED BY <2>1 DEF At, Within
<1>4. Slice(data, p + 1, p + 7) = SubSeq(body, 2, 7)
  <2>1. PICK a \in Nat, b \in Nat : a = 2 /\ b = 7
    OBVIOUS
  <2>2. PICK first, last : first = p + a /\ last = p + b
    OBVIOUS
  <2>3. SubSeq(data, first, last) = SubSeq(body, a, b)
    <3>1. a # 0 /\ a <= b + 1 /\ b <= Len(body)
      BY <1>1, <1>2, <2>1
    <3>2. PICK S : data \in Seq(S) /\ body \in Seq(S)
      OBVIOUS
    <3>3. SlicesBoth(S, data, body, p, a, b, first, last)
      BY <2>2, <3>1, <3>2 DEF SlicesBoth
    <3>4. SameSlice(data, first, last, body, a, b)
      BY <3>3, SliceOfRecord
    <3> QED BY <3>4 DEF SameSlice
  <2>4. p + 7 <= Len(data) /\ p + 1 + 1 = first /\ p + 7 = last
    BY <1>2, <2>1, <2>2
  <2>5. Slice(data, p + 1, p + 7) = SubSeq(data, p + 1 + 1, p + 7)
    BY <2>4 DEF Slice
  <2> QED BY <2>1, <2>3, <2>4, <2>5
<1>5. Slice(data, p + 8, p + n) = SubSeq(body, 9, n)
  <2>1. PICK a \in Nat : a = 9
    OBVIOUS
  <2>2. PICK first, last : first = p + a /\ last = p + n
    OBVIOUS
  <2>3. SubSeq(data, first, last) = SubSeq(body, a, n)
    <3>1. a # 0 /\ a <= n + 1 /\ n <= Len(body)
      BY <1>1, <1>2, <2>1
    <3>2. PICK S : data \in Seq(S) /\ body \in Seq(S)
      OBVIOUS
    <3>3. SlicesBoth(S, data, body, p, a, n, first, last)
      BY <2>2, <3>1, <3>2 DEF SlicesBoth
    <3>4. SameSlice(data, first, last, body, a, n)
      BY <3>3, SliceOfRecord
    <3> QED BY <3>4 DEF SameSlice
  <2>4. p + n <= Len(data) /\ p + 8 + 1 = first /\ p + n = last
    BY <1>2, <2>1, <2>2
  <2>5. Slice(data, p + 8, p + n) = SubSeq(data, p + 8 + 1, p + n)
    BY <2>4 DEF Slice
  <2> QED BY <2>1, <2>3, <2>4, <2>5
<1>6. PICK record : record = [start |-> p, end |-> p + n]
  OBVIOUS
<1>7. record.start = p /\ record.end = p + n
  BY <1>6
<1>8. Entry(data, record, number) = EntryOf(body, number)
  BY <1>1, <1>3, <1>4, <1>5, <1>7 DEF Entry, EntryOf, HEADER_LENGTH
<1> QED BY <1>1, <1>6, <1>8

(* A page of the operation log is its records: from a page of any number of  *)
(* records, each at least as long as its header, the reader makes one entry  *)
(* of each, of its own bytes alone, numbered down from the sequence number  *)
(* of the page (parse_operate_log_response, decode_log_record).              *)
THEOREM LogPageIsItsRecords ==
  ASSUME NEW plain \in Seq(Byte), Len(plain) >= 2, plain[2] = SUCCESS,
         NEW data, data = From(plain, 2), Uint16(Slice(data, 0, 2)) # 0,
         NEW bodies \in Seq(Seq(Byte)), NEW at, Holds(data, bodies, at),
         \A k \in 1..Len(bodies) : Len(bodies[k]) >= 8,
         NEW sequence, sequence = Uint16(Slice(data, 2, 4))
  PROVE  OperateLogPage(plain) =
           Returns([entries |-> [k \in 1..Len(bodies) |-> EntryOf(bodies[k], sequence - k)],
                        sequence |-> sequence])
<1>1. data \in Seq(Byte)
  BY DEF From
<1>2. PICK n \in Nat : n = Len(bodies)
  OBVIOUS
<1>3. /\ at[1] = 4 /\ at[n + 1] = Len(data) /\ \A k \in 1..(n + 1) : at[k] \in Nat
      /\ \A k \in 1..n : /\ at[k + 1] = at[k] + 1 + Len(bodies[k]) /\ Len(bodies[k]) \in Nat
                         /\ bodies[k] \in Seq(Byte)
  <2>1. LaidOut(data, bodies, at)
    BY <1>1, HoldsIs
  <2> QED BY <1>2, <2>1, Zenon DEF LaidOut
<1>4. PICK from : Splits(from, data) /\ Split(data) = from[4]
  <2>1. Len(data) >= 4
    <3>1. 1 \in 1..(n + 1)
      OBVIOUS
    <3>2. PICK f : Splits(f, data)
      BY <1>1, SplitsExists
    <3>3. at[1] <= Len(data)
      BY <1>1, <1>2, <3>1, <3>2, PlacesFound
    <3> QED BY <1>3, <3>3
  <2> QED BY <1>1, <2>1, SplitIs
<1>5. \A k \in 1..(n + 1) : at[k] <= Len(data) /\ from[at[k]] = PlacesFrom(at, k, n)
  BY <1>1, <1>2, <1>4, PlacesFound
<1>6. PICK records : records = Split(data)
  OBVIOUS
<1>7. records = [k \in 1..n |-> [start |-> at[k] + 1, end |-> at[k + 1]]]
  <2>1. PICK one \in 1..(n + 1) : one = 1
    OBVIOUS
  <2>2. records = PlacesFrom(at, one, n)
    BY <1>3, <1>4, <1>5, <1>6, <2>1
  <2>3. n + 1 - one = n /\ \A k \in 1..n : one + k - 1 = k /\ one + k = k + 1
    BY <2>1
  <2> QED BY <2>2, <2>3 DEF PlacesFrom
<1>8. DOMAIN records = 1..n /\ \A k \in 1..n : records[k] = [start |-> at[k] + 1, end |-> at[k + 1]]
  BY <1>7
<1>9. ASSUME NEW k \in 1..n
      PROVE  /\ ~(records[k].start + 7 >= Len(data))
             /\ \A number : Entry(data, records[k], number) = EntryOf(bodies[k], number)
  <2>1. PICK p \in Nat : p = at[k] + 1
    <3>1. k \in 1..(n + 1)
      OBVIOUS
    <3>2. at[k] \in Nat
      BY <1>3, <3>1
    <3> QED BY <3>2
  <2>2. PICK body \in Seq(Byte) : body = bodies[k]
    BY <1>3
  <2>3. PICK size \in Nat : size = Len(body)
    OBVIOUS
  <2>4. size >= 8 /\ at[k + 1] = p + size /\ p + size <= Len(data)
    <3>1. k + 1 \in 1..(n + 1)
      OBVIOUS
    <3>2. at[k + 1] <= Len(data) /\ at[k + 1] = at[k] + 1 + size
      BY <1>3, <1>5, <2>2, <2>3, <3>1
    <3>3. at[k + 1] = p + size
      BY <2>1, <3>2
    <3>4. size >= 8
      BY <1>2, <2>2, <2>3
    <3> QED BY <3>2, <3>3, <3>4
  <2>5. records[k] = [start |-> p, end |-> p + Len(body)]
    BY <1>8, <2>1, <2>3, <2>4
  <2>6. \A i \in 1..Len(body) : data[p + i] = body[i]
    BY <1>2, <2>1, <2>2 DEF Holds
  <2>7. p + Len(body) <= Len(data) /\ Len(body) >= 8
    BY <2>3, <2>4
  <2>8. \A number : Entry(data, [start |-> p, end |-> p + Len(body)], number) = EntryOf(body, number)
    <3>1. Within(body, data, p)
      BY <2>6, <2>7 DEF Within
    <3> QED BY <1>1, <2>7, <3>1, EntryIs
  <2>9. records[k].start = p
    BY <2>5
  <2>10. ~(records[k].start + 7 >= Len(data))
    BY <1>1, <2>3, <2>4, <2>9
  <2> QED BY <2>2, <2>5, <2>8, <2>10
<1>10. PICK envelope : envelope = Envelope(plain)
  OBVIOUS
<1>11. /\ Returned(envelope) /\ envelope.value.data = data
       /\ envelope.value.status = SUCCESS
  BY <1>10 DEF Envelope, Returned, Returns, At
<1>12. [k \in DOMAIN records |-> Entry(data, records[k], sequence - k)]
         = [k \in 1..Len(bodies) |-> EntryOf(bodies[k], sequence - k)]
  BY <1>2, <1>8, <1>9
<1>13. ~(\E k \in DOMAIN records : records[k].start + 7 >= Len(data))
  BY <1>8, <1>9
<1>14. ~(Len(data) < 2)
  <2>1. n + 1 \in 1..(n + 1) /\ 1 \in 1..(n + 1)
    OBVIOUS
  <2>2. at[1] <= Len(data)
    BY <1>5, <2>1
  <2> QED BY <1>1, <1>3, <2>2
<1> QED BY <1>6, <1>10, <1>11, <1>12, <1>13, <1>14 DEF OperateLogPage

----------------------------------------------------------------------------
(* The two records of a page.                                               *)

(* A turn of the loop.                                                       *)
Further(from, data, idx, e) ==
  /\ e = idx + 1 + At(data, idx) /\ e \in Nat /\ idx < e /\ e <= Len(data)
  /\ from[idx] = <<[start |-> idx + 1, end |-> e]>> \o from[e]

(* One turn of the loop that splits a page.                                 *)
LEMMA TurnIs ==
  ASSUME NEW data \in Seq(Byte), NEW from, Splits(from, data), NEW idx \in Nat, idx <= Len(data)
  PROVE  IF Stops(data, idx) THEN from[idx] = <<>> ELSE \E e : Further(from, data, idx, e)
<1>1. PICK L \in Nat : L = Len(data)
  OBVIOUS
<1>2. from = [i \in 0..L |->
                IF Stops(data, i) THEN <<>>
                ELSE <<[start |-> i + 1, end |-> i + 1 + At(data, i)]>> \o from[i + 1 + At(data, i)]]
  BY <1>1, Zenon DEF Splits, Stops
<1>3. idx \in 0..L
  BY <1>1
<1>4. from[idx] = IF Stops(data, idx) THEN <<>>
                  ELSE <<[start |-> idx + 1, end |-> idx + 1 + At(data, idx)]>> \o from[idx + 1 + At(data, idx)]
  BY <1>2, <1>3, Zenon
<1>5. CASE ~Stops(data, idx)
  <2>1. idx # L /\ ~(idx + 1 + At(data, idx) > L)
    BY <1>1, <1>5 DEF Stops
  <2>2. idx + 1 \in 1..L
    BY <1>1, <2>1
  <2>3. At(data, idx) \in Byte
    BY <1>1, <2>2 DEF At
  <2>4. At(data, idx) \in Nat
    BY <2>3, LogBytes
  <2>5. PICK e \in Nat : e = idx + 1 + At(data, idx)
    BY <2>4
  <2>6. idx < e /\ e <= Len(data)
    BY <1>1, <2>1, <2>4, <2>5
  <2>7. from[idx] = <<[start |-> idx + 1, end |-> e]>> \o from[e]
    BY <1>4, <1>5, <2>5, Zenon
  <2>8. Further(from, data, idx, e)
    BY <2>5, <2>6, <2>7, Zenon DEF Further
  <2> QED BY <1>5, <2>8
<1> QED BY <1>4, <1>5

(* The places that are found.                                                *)
LEMMA PlacesTyped ==
  ASSUME NEW data \in Seq(Byte), NEW from, Splits(from, data), NEW idx \in Nat, idx <= Len(data)
  PROVE  from[idx] \in Seq(Place)
<1>1. PICK L \in Nat : L = Len(data)
  OBVIOUS
<1> DEFINE T == {m \in Nat : \A i \in Nat : i <= L /\ L - i <= m => from[i] \in Seq(Place)}
<1>2. ASSUME NEW i \in Nat, i <= L,
             \A e \in Nat : i < e /\ e <= L => from[e] \in Seq(Place)
      PROVE  from[i] \in Seq(Place)
  <2>1. CASE Stops(data, i)
    <3>1. from[i] = <<>>
      BY <1>1, <1>2, <2>1, TurnIs
    <3> QED BY <3>1
  <2>2. CASE ~Stops(data, i)
    <3>1. PICK e : Further(from, data, i, e)
      BY <1>1, <1>2, <2>2, TurnIs
    <3>2. e \in Nat /\ i < e /\ e <= L /\ from[i] = <<[start |-> i + 1, end |-> e]>> \o from[e]
      BY <1>1, <3>1, Zenon DEF Further
    <3>3. from[e] \in Seq(Place)
      BY <1>2, <3>2
    <3>4. PICK y : y = [start |-> i + 1, end |-> e]
      OBVIOUS
    <3>5. y \in Place
      BY <3>2, <3>4 DEF Place
    <3>6. from[i] = <<y>> \o from[e]
      BY <3>2, <3>4, Zenon
    <3> QED BY <3>3, <3>5, <3>6, Ahead
  <2> QED BY <2>1, <2>2
<1>3. 0 \in T
  <2>1. ASSUME NEW i \in Nat, i <= L, L - i <= 0 PROVE from[i] \in Seq(Place)
    <3>1. \A e \in Nat : ~(i < e /\ e <= L)
      BY <2>1
    <3> QED BY <1>2, <2>1, <3>1
  <2> QED BY <2>1
<1>4. ASSUME NEW m \in T PROVE m + 1 \in T
  <2>1. ASSUME NEW i \in Nat, i <= L, L - i <= m + 1 PROVE from[i] \in Seq(Place)
    <3>1. \A e \in Nat : i < e /\ e <= L => L - e <= m
      BY <1>4, <2>1
    <3>2. \A e \in Nat : i < e /\ e <= L => from[e] \in Seq(Place)
      BY <1>4, <3>1
    <3> QED BY <1>2, <2>1, <3>2
  <2> QED BY <1>4, <2>1
<1> HIDE DEF T
<1>5. T = Nat
  <2>1. T \in SUBSET Nat
    BY DEF T
  <2> QED BY <1>3, <1>4, <2>1, SetInduction
<1>6. PICK m \in Nat : m = L - idx
  <2>1. idx <= L
    BY <1>1
  <2>2. L - idx \in Nat
    BY <2>1
  <2> QED BY <2>2
<1>7. m \in T
  BY <1>5
<1> QED BY <1>1, <1>6, <1>7 DEF T

(* The data of a page of two records.                                        *)
TwoRecords(data, b1, b2, e1, s2, e2) ==
  /\ data \in Seq(Byte) /\ Len(data) = e2
  /\ e1 \in Nat /\ s2 \in Nat /\ e2 \in Nat /\ s2 = e1 + 1
  /\ ByteIn(Len(b1), data, 4) /\ FieldAt(b1, data, 5, e1)
  /\ ByteIn(Len(b2), data, e1) /\ FieldAt(b2, data, s2, e2)

(* A record by its first place and the place behind it.                     *)
Spot(start, end) == [start |-> start, end |-> end]

LEMMA SpotsAre ==
  ASSUME NEW s \in Nat, NEW e \in Nat
  PROVE  Spot(s, e) \in Place /\ Spot(s, e).start = s /\ Spot(s, e).end = e
BY DEF Spot, Place

(* A turn where the length of a record is.                                   *)
LEMMA TurnAt ==
  ASSUME NEW data \in Seq(Byte), NEW d \in Seq(Byte), Agrees(d, data), NEW body \in Seq(Byte),
         NEW at \in Nat, NEW s \in Nat, s = at + 1, NEW e \in Nat, FieldAt(body, data, s, e), ByteIn(Len(body), data, at),
         NEW from, Splits(from, d), at <= Len(d)
  PROVE  /\ e <= Len(d) => from[at] = <<Spot(s, e)>> \o from[e]
         /\ Len(d) < e => from[at] = <<>>
<1>1. PICK m \in Nat : m = Len(d)
  OBVIOUS
<1>2. Len(body) \in Nat /\ e = s + Len(body)
  BY DEF FieldAt
<1>3. CASE m = at
  <2>1. Stops(d, at)
    BY <1>1, <1>3 DEF Stops
  <2>2. from[at] = <<>>
    BY <2>1, TurnIs
  <2> QED BY <1>1, <1>2, <1>3, <2>2
<1>4. CASE m # at
  <2>1. at < Len(d)
    BY <1>1, <1>4
  <2>2. At(d, at) = Len(body)
    BY <2>1, ByteAgreed
  <2>3. at + 1 + At(d, at) = e
    BY <1>2, <2>2
  <2>4. Stops(d, at) <=> Len(d) < e
    BY <1>1, <1>2, <2>1, <2>3 DEF Stops
  <2>5. CASE Stops(d, at)
    BY <1>1, <1>2, <2>4, <2>5, TurnIs
  <2>6. CASE ~Stops(d, at)
    <3>1. PICK z : Further(from, d, at, z)
      BY <2>6, TurnIs
    <3>2. z = e
      BY <2>3, <3>1, Zenon DEF Further
    <3>3. from[at] = <<Spot(s, e)>> \o from[e]
      BY <3>1, <3>2, Zenon DEF Further, Spot
    <3> QED BY <1>1, <1>2, <2>4, <2>6, <3>3
  <2> QED BY <2>5, <2>6
<1> QED BY <1>3, <1>4

LEMMA PairOfPlaces ==
  ASSUME NEW x \in Place, NEW y \in Place
  PROVE  <<x>> \o (<<y>> \o <<>>) = <<x, y>>
<1>1. <<y>> \o <<>> = <<y>>
  OBVIOUS
<1>2. PICK one : one = <<y>>
  OBVIOUS
<1>3. one \in Seq(Place) /\ Len(one) = 1 /\ one[1] = y
  BY <1>2
<1>4. PICK z : z = <<x>> \o one
  OBVIOUS
<1>5. z \in Seq(Place) /\ Len(z) = Len(one) + 1 /\ z[1] = x /\ \A j \in 1..Len(one) : z[j + 1] = one[j]
  BY <1>3, <1>4, Ahead
<1>6. z \in Seq(Place) /\ Len(z) = 2 /\ z[1] = x /\ z[2] = y
  <2>1. 1 \in 1..Len(one) /\ 1 + 1 = 2
    BY <1>3
  <2> QED BY <1>3, <1>5, <2>1
<1>7. z = <<x, y>>
  BY <1>6
<1> QED BY <1>1, <1>2, <1>4, <1>7, Zenon

(* What is found of two records.                                             *)
SplitCame(d, records, e1, s2, e2) ==
  /\ Len(d) < e1 => records = <<>>
  /\ e1 <= Len(d) /\ Len(d) < e2 => records = <<Spot(5, e1)>>
  /\ Len(d) = e2 => records = <<Spot(5, e1), Spot(s2, e2)>>
  /\ Len(d) >= e2 => \E rest \in Seq(Place) : records = <<Spot(5, e1)>> \o (<<Spot(s2, e2)>> \o rest)

(* Of a page of two records, the loop finds as many as have come, each      *)
(* where it is.                                                             *)
LEMMA TwoFound ==
  ASSUME NEW b1 \in Seq(Byte), NEW b2 \in Seq(Byte), NEW e1, NEW s2, NEW e2, NEW data,
         TwoRecords(data, b1, b2, e1, s2, e2), NEW d \in Seq(Byte), Agrees(d, data), NEW records, records = Split(d)
  PROVE  SplitCame(d, records, e1, s2, e2)
<1>1. /\ data \in Seq(Byte) /\ Len(data) = e2
      /\ e1 \in Nat /\ s2 \in Nat /\ e2 \in Nat /\ s2 = e1 + 1
      /\ ByteIn(Len(b1), data, 4) /\ FieldAt(b1, data, 5, e1)
      /\ ByteIn(Len(b2), data, e1) /\ FieldAt(b2, data, s2, e2)
  BY Zenon DEF TwoRecords
<1>2. PICK four \in Nat : four = 4
  OBVIOUS
<1>3. PICK five \in Nat : five = 5
  OBVIOUS
<1>4. four \in Nat /\ five \in Nat /\ five = four + 1 /\ ByteIn(Len(b1), data, four) /\ FieldAt(b1, data, five, e1)
  BY <1>1, <1>2, <1>3
<1>5. e1 = five + Len(b1) /\ e2 = s2 + Len(b2) /\ Len(b1) \in Nat /\ Len(b2) \in Nat
  BY <1>1, <1>4 DEF FieldAt
<1>6. four < e1 /\ e1 < e2
  BY <1>1, <1>2, <1>3, <1>5
<1>7. CASE Len(d) < 4
  <2>1. records = <<>>
    BY <1>7 DEF Split
  <2>2. Len(d) < e1 /\ Len(d) < e2 /\ ~(e1 <= Len(d)) /\ Len(d) # e2 /\ ~(Len(d) >= e2)
    BY <1>1, <1>2, <1>6, <1>7
  <2> QED BY <2>1, <2>2 DEF SplitCame
<1>8. CASE ~(Len(d) < 4)
  <2>1. Len(d) >= 4
    BY <1>8
  <2>2. PICK from : Splits(from, d) /\ Split(d) = from[4]
    BY <2>1, SplitIs
  <2>3. records = from[four] /\ four <= Len(d)
    BY <1>2, <2>1, <2>2
  <2>4. /\ e1 <= Len(d) => from[four] = <<Spot(five, e1)>> \o from[e1]
        /\ Len(d) < e1 => from[four] = <<>>
    BY <1>1, <1>4, <2>2, <2>3, TurnAt
  <2>5. e1 <= Len(d) => /\ e2 <= Len(d) => from[e1] = <<Spot(s2, e2)>> \o from[e2]
                        /\ Len(d) < e2 => from[e1] = <<>>
    <3>1. ASSUME e1 <= Len(d)
          PROVE  /\ e2 <= Len(d) => from[e1] = <<Spot(s2, e2)>> \o from[e2]
                 /\ Len(d) < e2 => from[e1] = <<>>
      <4>1. e1 \in Nat /\ s2 \in Nat /\ e2 \in Nat /\ s2 = e1 + 1 /\ ByteIn(Len(b2), data, e1) /\ FieldAt(b2, data, s2, e2)
        BY <1>1
      <4>2. data \in Seq(Byte)
        BY <1>1
      <4>3. Splits(from, d) /\ e1 <= Len(d)
        BY <2>2, <3>1
      <4>4. /\ e2 <= Len(d) => from[e1] = <<Spot(s2, e2)>> \o from[e2]
            /\ Len(d) < e2 => from[e1] = <<>>
        BY <4>1, <4>2, <4>3, TurnAt
      <4> QED BY <4>4
    <3> QED BY <3>1
  <2>6. e2 <= Len(d) => from[e2] \in Seq(Place)
    BY <1>1, <2>2, PlacesTyped
  <2>7. Len(d) = e2 => from[e2] = <<>>
    <3>1. Len(d) = e2 => Stops(d, e2)
      BY DEF Stops
    <3> QED BY <1>1, <2>2, <3>1, TurnIs
  <2>8. PICK x \in Place : x = Spot(five, e1)
    BY <1>1, <1>4, SpotsAre
  <2>9. PICK y \in Place : y = Spot(s2, e2)
    BY <1>1, SpotsAre
  <2>10. Len(d) < e1 => records = <<>>
    BY <2>3, <2>4
  <2>11. e1 <= Len(d) /\ Len(d) < e2 => records = <<x>>
    BY <2>3, <2>4, <2>5, <2>8
  <2>12. e2 <= Len(d) => records = <<x>> \o (<<y>> \o from[e2])
    <3>1. e2 <= Len(d) => e1 <= Len(d)
      BY <1>1, <1>6
    <3> QED BY <2>3, <2>4, <2>5, <2>8, <2>9, <3>1
  <2>13. Len(d) = e2 => records = <<x, y>>
    <3>1. Len(d) = e2 => records = <<x>> \o (<<y>> \o <<>>)
      <4>1. Len(d) = e2 => e2 <= Len(d)
        BY <1>1
      <4> QED BY <2>7, <2>12, <4>1
    <3>2. <<x>> \o (<<y>> \o <<>>) = <<x, y>>
      BY PairOfPlaces
    <3> QED BY <3>1, <3>2
  <2>14. Len(d) >= e2 => \E rest \in Seq(Place) : records = <<x>> \o (<<y>> \o rest)
    <3>1. Len(d) >= e2 => e2 <= Len(d)
      BY <1>1
    <3> QED BY <2>6, <2>12, <3>1
  <2> QED BY <1>3, <2>8, <2>9, <2>10, <2>11, <2>13, <2>14, Zenon DEF SplitCame
<1> QED BY <1>7, <1>8

----------------------------------------------------------------------------
(* The tails of the records.                                                *)

(* The fields of a record's tail.                                            *)
Names == {"uid", "recordId", "password", "newPassword", "deleteDate", "keyId", "accessoryBattery",
          "startDate", "endDate"}

(* A tail is a function on the names of the fields.                         *)
IsTail(tail) == tail = [f \in Names |-> tail[f]]

(* A tail with one field more.                                              *)
Put(tail, name, value) == [tail EXCEPT ![name] = Some(value)]

LEMMA EmptyIs == IsTail(EmptyTail) /\ \A f \in Names : EmptyTail[f] = None
BY DEF EmptyTail, Names, IsTail

LEMMA PutIs ==
  ASSUME NEW tail, IsTail(tail), NEW name \in Names, NEW value, NEW put, put = Put(tail, name, value)
  PROVE  IsTail(put) /\ \A f \in Names : put[f] = IF f = name THEN Some(value) ELSE tail[f]
<1>1. DOMAIN tail = Names
  BY DEF IsTail
<1>2. put = [tail EXCEPT ![name] = Some(value)]
  BY DEF Put
<1>3. put = [f \in Names |-> put[f]]
  BY <1>1, <1>2
<1> QED BY <1>1, <1>2, <1>3 DEF IsTail

LEMMA SomeIs == \A v : Some(v) # None /\ Some(v)[1] = v
BY DEF Some, None

(* The bytes behind the header of a record.                                  *)
Piece(type, tail, n) ==
  LET fields == Layout(type)
  IN  IF n > Len(fields) \/ tail[fields[n].name] = None THEN <<>>
      ELSE Written(fields[n].how, tail[fields[n].name][1])

(* The bytes of a tail.                                                     *)
TailBytes(type, tail) == (Piece(type, tail, 1) \o Piece(type, tail, 2)) \o Piece(type, tail, 3)

(* The bytes of one field of a tail, none when it is missing.               *)
PartOf(tail, n, h) == IF tail[n] = None THEN <<>> ELSE Written(h, tail[n][1])

(* The layout of a type of one field; of two and of three below.            *)
LayoutOne(type, f) == Layout(type) = <<f>> /\ Required(type) = 1

LayoutTwo(type, f, g, least) == Layout(type) = <<f, g>> /\ Required(type) = least

LayoutThree(type, f, g, h, least) == Layout(type) = <<f, g, h>> /\ Required(type) = least

LEMMA FieldIs == \A n, h : Field(n, h).name = n /\ Field(n, h).how = h
BY DEF Field

(* What is written of a tail, field after field.                             *)
LEMMA PiecesOne ==
  ASSUME NEW type, NEW n1, NEW h1, LayoutOne(type, Field(n1, h1)), NEW tail
  PROVE  TailBytes(type, tail) =
           (PartOf(tail, n1, h1) \o <<>>) \o <<>>
<1>1. PICK f : f = Field(n1, h1) /\ f.name = n1 /\ f.how = h1
  BY FieldIs
<1>2. PICK fields : fields = <<f>>
  OBVIOUS
<1>3. Layout(type) = fields
  BY <1>1, <1>2, Zenon DEF LayoutOne
<1>4. Len(fields) = 1 /\ fields[1] = f
  BY <1>2
<1>5. Piece(type, tail, 1) = PartOf(tail, n1, h1)
  BY <1>1, <1>3, <1>4 DEF Piece, PartOf
<1>6. Piece(type, tail, 2) = <<>> /\ Piece(type, tail, 3) = <<>>
  BY <1>3, <1>4 DEF Piece, PartOf
<1> QED BY <1>5, <1>6, Zenon DEF TailBytes

(* The bytes of a tail of two fields.                                       *)
LEMMA PiecesTwo ==
  ASSUME NEW type, NEW n1, NEW h1, NEW n2, NEW h2, NEW least, LayoutTwo(type, Field(n1, h1), Field(n2, h2), least), NEW tail
  PROVE  TailBytes(type, tail) =
           (PartOf(tail, n1, h1)
             \o PartOf(tail, n2, h2)) \o <<>>
<1>1. PICK f : f = Field(n1, h1) /\ f.name = n1 /\ f.how = h1
  BY FieldIs
<1>2. PICK g : g = Field(n2, h2) /\ g.name = n2 /\ g.how = h2
  BY FieldIs
<1>3. PICK fields : fields = <<f, g>>
  OBVIOUS
<1>4. Layout(type) = fields
  BY <1>1, <1>2, <1>3, Zenon DEF LayoutTwo
<1>5. Len(fields) = 2 /\ fields[1] = f /\ fields[2] = g
  BY <1>3
<1>6. Piece(type, tail, 1) = PartOf(tail, n1, h1)
  BY <1>1, <1>4, <1>5 DEF Piece, PartOf
<1>7. Piece(type, tail, 2) = PartOf(tail, n2, h2)
  BY <1>2, <1>4, <1>5 DEF Piece, PartOf
<1>8. Piece(type, tail, 3) = <<>>
  BY <1>4, <1>5 DEF Piece, PartOf
<1> QED BY <1>6, <1>7, <1>8, Zenon DEF TailBytes

(* The bytes of a tail of three fields.                                     *)
LEMMA PiecesThree ==
  ASSUME NEW type, NEW n1, NEW h1, NEW n2, NEW h2, NEW n3, NEW h3, NEW least,
         LayoutThree(type, Field(n1, h1), Field(n2, h2), Field(n3, h3), least), NEW tail
  PROVE  TailBytes(type, tail) =
           (PartOf(tail, n1, h1)
             \o PartOf(tail, n2, h2))
             \o PartOf(tail, n3, h3)
<1>1. PICK f : f = Field(n1, h1) /\ f.name = n1 /\ f.how = h1
  BY FieldIs
<1>2. PICK g : g = Field(n2, h2) /\ g.name = n2 /\ g.how = h2
  BY FieldIs
<1>3. PICK h : h = Field(n3, h3) /\ h.name = n3 /\ h.how = h3
  BY FieldIs
<1>4. PICK fields : fields = <<f, g, h>>
  OBVIOUS
<1>5. Layout(type) = fields
  BY <1>1, <1>2, <1>3, <1>4, Zenon DEF LayoutThree
<1>6. Len(fields) = 3 /\ fields[1] = f /\ fields[2] = g /\ fields[3] = h
  BY <1>4
<1>7. Piece(type, tail, 1) = PartOf(tail, n1, h1)
  BY <1>1, <1>5, <1>6 DEF Piece, PartOf
<1>8. Piece(type, tail, 2) = PartOf(tail, n2, h2)
  BY <1>2, <1>5, <1>6 DEF Piece, PartOf
<1>9. Piece(type, tail, 3) = PartOf(tail, n3, h3)
  BY <1>3, <1>5, <1>6 DEF Piece, PartOf
<1> QED BY <1>7, <1>8, <1>9, Zenon DEF TailBytes

(* The tails there are, by the fields they have.                             *)
LEMMA WithIs ==
  ASSUME NEW tails, NEW n, NEW h, NEW tail \in With(tails, Field(n, h))
  PROVE  \E t \in tails : \E v \in Values(h) : tail = Put(t, n, v)
<1>1. Field(n, h).name = n /\ Field(n, h).how = h
  BY FieldIs
<1> QED BY <1>1 DEF With, Put

(* The tails of n fields.                                                   *)
UpTo(n, fields) ==
  CASE n = 0 -> {EmptyTail} [] n = 1 -> With({EmptyTail}, fields[1])
    [] n = 2 -> With(With({EmptyTail}, fields[1]), fields[2])
    [] OTHER -> With(With(With({EmptyTail}, fields[1]), fields[2]), fields[3])

(* The tails of a type are those of some of its fields, from the first on.   *)
LEMMA TailsAre ==
  ASSUME NEW type, NEW fields, fields = Layout(type), NEW least \in Nat, Required(type) = least,
         NEW most \in Nat, Len(fields) = most, NEW tail \in Tails(type)
  PROVE  \E n \in least..most : tail \in UpTo(n, fields)
<1> DEFINE all == [n \in 0..Len(Layout(type)) |->
                 CASE n = 0 -> {EmptyTail} [] n = 1 -> With({EmptyTail}, Layout(type)[1])
                   [] n = 2 -> With(With({EmptyTail}, Layout(type)[1]), Layout(type)[2])
                   [] OTHER -> With(With(With({EmptyTail}, Layout(type)[1]), Layout(type)[2]), Layout(type)[3])]
<1>1. Tails(type) = UNION {all[n] : n \in Required(type)..Len(Layout(type))}
  BY Zenon DEF Tails
<1>4. \A n \in 0..Len(Layout(type)) : all[n] = UpTo(n, Layout(type))
  BY Zenon DEF UpTo
<1> HIDE DEF all
<1>2. PICK n \in Required(type)..Len(Layout(type)) : tail \in all[n]
  BY <1>1
<1>3. n \in 0..Len(Layout(type)) /\ n \in least..most
  BY <1>2
<1> QED BY <1>2, <1>3, <1>4

LEMMA UpToIs ==
  ASSUME NEW fields
  PROVE  /\ UpTo(1, fields) = With({EmptyTail}, fields[1])
         /\ UpTo(2, fields) = With(With({EmptyTail}, fields[1]), fields[2])
         /\ UpTo(3, fields) = With(With(With({EmptyTail}, fields[1]), fields[2]), fields[3])
BY DEF UpTo

(* A tail of one field and its bytes; of two and of three below.            *)
MadeOne(tail, w, n1, h1) ==
  \E v \in Values(h1) : tail = Put(EmptyTail, n1, v) /\ w = Written(h1, v)

MadeTwo(tail, w, n1, h1, n2, h2) ==
  \E v \in Values(h1), u \in Values(h2) :
    tail = Put(Put(EmptyTail, n1, v), n2, u) /\ w = Written(h1, v) \o Written(h2, u)

MadeThree(tail, w, n1, h1, n2, h2, n3, h3) ==
  \E v \in Values(h1), u \in Values(h2), x \in Values(h3) :
    /\ tail = Put(Put(Put(EmptyTail, n1, v), n2, u), n3, x)
    /\ w = (Written(h1, v) \o Written(h2, u)) \o Written(h3, x)

LEMMA NothingBehind ==
  ASSUME NEW s \in Seq(Byte)
  PROVE  s \o <<>> = s
OBVIOUS

(* Every value is written as bytes.                                         *)
WritesBytes(how) == \A v \in Values(how) : Written(how, v) \in Seq(Byte)

LEMMA OnePut ==
  ASSUME NEW n1 \in Names, NEW v, NEW tail, tail = Put(EmptyTail, n1, v)
  PROVE  IsTail(tail) /\ tail[n1] # None /\ tail[n1][1] = v /\ \A f \in Names : f # n1 => tail[f] = None
<1>1. IsTail(EmptyTail) /\ \A f \in Names : EmptyTail[f] = None
  BY EmptyIs
<1>2. IsTail(tail) /\ \A f \in Names : tail[f] = IF f = n1 THEN Some(v) ELSE EmptyTail[f]
  BY <1>1, PutIs
<1> QED BY <1>1, <1>2, SomeIs

LEMMA TwoPut ==
  ASSUME NEW n1 \in Names, NEW n2 \in Names, n1 # n2, NEW v, NEW u, NEW tail, tail = Put(Put(EmptyTail, n1, v), n2, u)
  PROVE  /\ IsTail(tail) /\ tail[n1] # None /\ tail[n1][1] = v /\ tail[n2] # None /\ tail[n2][1] = u
         /\ \A f \in Names : f # n1 /\ f # n2 => tail[f] = None
<1>1. PICK one : one = Put(EmptyTail, n1, v)
  OBVIOUS
<1>2. IsTail(one) /\ one[n1] # None /\ one[n1][1] = v /\ \A f \in Names : f # n1 => one[f] = None
  BY <1>1, OnePut
<1>3. tail = Put(one, n2, u)
  BY <1>1
<1>4. IsTail(tail) /\ \A f \in Names : tail[f] = IF f = n2 THEN Some(u) ELSE one[f]
  BY <1>2, <1>3, PutIs
<1> QED BY <1>2, <1>4, SomeIs

LEMMA ThreePut ==
  ASSUME NEW n1 \in Names, NEW n2 \in Names, NEW n3 \in Names, n1 # n2, n1 # n3, n2 # n3,
         NEW v, NEW u, NEW x, NEW tail, tail = Put(Put(Put(EmptyTail, n1, v), n2, u), n3, x)
  PROVE  /\ IsTail(tail) /\ tail[n1] # None /\ tail[n1][1] = v /\ tail[n2] # None /\ tail[n2][1] = u
         /\ tail[n3] # None /\ tail[n3][1] = x
         /\ \A f \in Names : f # n1 /\ f # n2 /\ f # n3 => tail[f] = None
<1>1. PICK two : two = Put(Put(EmptyTail, n1, v), n2, u)
  OBVIOUS
<1>2. /\ IsTail(two) /\ two[n1] # None /\ two[n1][1] = v /\ two[n2] # None /\ two[n2][1] = u
      /\ \A f \in Names : f # n1 /\ f # n2 => two[f] = None
  BY <1>1, TwoPut
<1>3. tail = Put(two, n3, x)
  BY <1>1
<1>4. IsTail(tail) /\ \A f \in Names : tail[f] = IF f = n3 THEN Some(x) ELSE two[f]
  BY <1>2, <1>3, PutIs
<1> QED BY <1>2, <1>4, SomeIs

(* The tails of a type of one field.                                        *)
LEMMA TailsOne ==
  ASSUME NEW type, NEW n1 \in Names, NEW h1, LayoutOne(type, Field(n1, h1)), WritesBytes(h1),
         NEW tail \in Tails(type), NEW w, w = TailBytes(type, tail)
  PROVE  MadeOne(tail, w, n1, h1)
<1>1. PICK f : f = Field(n1, h1)
  OBVIOUS
<1>2. PICK fields : fields = <<f>> /\ Layout(type) = fields /\ Required(type) = 1
  BY <1>1, Zenon DEF LayoutOne
<1>3. Len(fields) = 1 /\ fields[1] = f
  BY <1>2
<1>4. PICK n \in 1..1 : tail \in UpTo(n, fields)
  BY <1>2, <1>3, TailsAre
<1>5. n = 1
  BY <1>4
<1>6. tail \in With({EmptyTail}, f)
  BY <1>3, <1>4, <1>5, UpToIs
<1>7. PICK v \in Values(h1) : tail = Put(EmptyTail, n1, v)
  BY <1>1, <1>6, WithIs
<1>8. tail[n1] # None /\ tail[n1][1] = v
  BY <1>7, OnePut
<1>9. w = (Written(h1, v) \o <<>>) \o <<>>
  BY <1>8, PiecesOne DEF PartOf
<1>10. w = Written(h1, v)
  BY <1>9, NothingBehind DEF WritesBytes
<1> QED BY <1>7, <1>10, Zenon DEF MadeOne

(* The tails of a type of two fields, the second of which may be missing.   *)
LEMMA TailsTwo ==
  ASSUME NEW type, NEW n1 \in Names, NEW h1, NEW n2 \in Names, NEW h2, n1 # n2, NEW least \in 1..2,
         LayoutTwo(type, Field(n1, h1), Field(n2, h2), least), WritesBytes(h1), WritesBytes(h2),
         NEW tail \in Tails(type), NEW w, w = TailBytes(type, tail)
  PROVE  MadeTwo(tail, w, n1, h1, n2, h2) \/ (least = 1 /\ MadeOne(tail, w, n1, h1))
<1>1. PICK f : f = Field(n1, h1)
  OBVIOUS
<1>2. PICK g : g = Field(n2, h2)
  OBVIOUS
<1>3. PICK fields : fields = <<f, g>> /\ Layout(type) = fields /\ Required(type) = least
  BY <1>1, <1>2, Zenon DEF LayoutTwo
<1>4. Len(fields) = 2 /\ fields[1] = f /\ fields[2] = g
  BY <1>3
<1>4a. PICK most \in Nat : most = 2
  OBVIOUS
<1>4b. Len(fields) = most /\ least \in Nat
  BY <1>4, <1>4a
<1>4c. \E n \in least..most : tail \in UpTo(n, fields)
  BY <1>3, <1>4b, TailsAre
<1>5. PICK n \in least..2 : tail \in UpTo(n, fields)
  BY <1>4a, <1>4c
<1>6. (n = 1 /\ least = 1) \/ n = 2
  BY <1>5
<1>7. CASE n = 1 /\ least = 1
  <2>1. tail \in With({EmptyTail}, f)
    BY <1>4, <1>5, <1>7, UpToIs
  <2>2. PICK v \in Values(h1) : tail = Put(EmptyTail, n1, v)
    BY <1>1, <2>1, WithIs
  <2>3. tail[n1] # None /\ tail[n1][1] = v /\ tail[n2] = None
    BY <2>2, OnePut
  <2>4. w = (Written(h1, v) \o <<>>) \o <<>>
    <3>1. TailBytes(type, tail) = (PartOf(tail, n1, h1) \o PartOf(tail, n2, h2)) \o <<>>
      BY PiecesTwo
    <3> QED BY <2>3, <3>1, Zenon DEF PartOf
  <2>5. w = Written(h1, v)
    BY <2>4, NothingBehind DEF WritesBytes
  <2>6. MadeOne(tail, w, n1, h1)
    BY <2>2, <2>5, Zenon DEF MadeOne
  <2> QED BY <1>7, <2>6
<1>8. CASE n = 2
  <2>1. tail \in With(With({EmptyTail}, f), g)
    BY <1>4, <1>5, <1>8, UpToIs
  <2>2. PICK t \in With({EmptyTail}, f) : \E u \in Values(h2) : tail = Put(t, n2, u)
    BY <1>2, <2>1, WithIs
  <2>3. PICK u \in Values(h2) : tail = Put(t, n2, u)
    BY <2>2
  <2>4. PICK v \in Values(h1) : t = Put(EmptyTail, n1, v)
    BY <1>1, <2>2, WithIs
  <2>5. tail = Put(Put(EmptyTail, n1, v), n2, u)
    BY <2>3, <2>4
  <2>6. tail[n1] # None /\ tail[n1][1] = v /\ tail[n2] # None /\ tail[n2][1] = u
    BY <2>5, TwoPut
  <2>7. w = (Written(h1, v) \o Written(h2, u)) \o <<>>
    <3>1. TailBytes(type, tail) = (PartOf(tail, n1, h1) \o PartOf(tail, n2, h2)) \o <<>>
      BY PiecesTwo
    <3> QED BY <2>6, <3>1, Zenon DEF PartOf
  <2>8. w = Written(h1, v) \o Written(h2, u)
    <3>1. Written(h1, v) \in Seq(Byte) /\ Written(h2, u) \in Seq(Byte)
      BY Zenon DEF WritesBytes
    <3>2. Written(h1, v) \o Written(h2, u) \in Seq(Byte)
      BY <3>1
    <3> QED BY <2>7, <3>2, NothingBehind
  <2>9. MadeTwo(tail, w, n1, h1, n2, h2)
    BY <2>5, <2>8, Zenon DEF MadeTwo
  <2> QED BY <2>9
<1> QED BY <1>6, <1>7, <1>8

(* The tails of a type of three fields, the last of which may be missing.   *)
LEMMA TailsThree ==
  ASSUME NEW type, NEW n1 \in Names, NEW h1, NEW n2 \in Names, NEW h2, NEW n3 \in Names, NEW h3,
         n1 # n2, n1 # n3, n2 # n3, NEW least \in 1..3,
         LayoutThree(type, Field(n1, h1), Field(n2, h2), Field(n3, h3), least),
         WritesBytes(h1), WritesBytes(h2), WritesBytes(h3),
         NEW tail \in Tails(type), NEW w, w = TailBytes(type, tail)
  PROVE  \/ MadeThree(tail, w, n1, h1, n2, h2, n3, h3)
         \/ least # 3 /\ MadeTwo(tail, w, n1, h1, n2, h2)
         \/ least = 1 /\ MadeOne(tail, w, n1, h1)
<1>1. PICK f : f = Field(n1, h1)
  OBVIOUS
<1>2. PICK g : g = Field(n2, h2)
  OBVIOUS
<1>2a. PICK h : h = Field(n3, h3)
  OBVIOUS
<1>3. PICK fields : fields = <<f, g, h>> /\ Layout(type) = fields /\ Required(type) = least
  BY <1>1, <1>2, <1>2a, Zenon DEF LayoutThree
<1>4. Len(fields) = 3 /\ fields[1] = f /\ fields[2] = g /\ fields[3] = h
  BY <1>3
<1>4a. PICK most \in Nat : most = 3
  OBVIOUS
<1>4b. Len(fields) = most /\ least \in Nat
  BY <1>4, <1>4a
<1>4c. \E n \in least..most : tail \in UpTo(n, fields)
  BY <1>3, <1>4b, TailsAre
<1>5. PICK n \in least..3 : tail \in UpTo(n, fields)
  BY <1>4a, <1>4c
<1>6. (n = 1 /\ least = 1) \/ (n = 2 /\ least # 3) \/ n = 3
  BY <1>5
<1>7. CASE n = 1 /\ least = 1
  <2>1. tail \in With({EmptyTail}, f)
    BY <1>4, <1>5, <1>7, UpToIs
  <2>2. PICK v \in Values(h1) : tail = Put(EmptyTail, n1, v)
    BY <1>1, <2>1, WithIs
  <2>3. tail[n1] # None /\ tail[n1][1] = v /\ tail[n2] = None /\ tail[n3] = None
    BY <2>2, OnePut
  <2>4. w = (Written(h1, v) \o <<>>) \o <<>>
    <3>1. TailBytes(type, tail) = (PartOf(tail, n1, h1) \o PartOf(tail, n2, h2)) \o PartOf(tail, n3, h3)
      BY PiecesThree
    <3> QED BY <2>3, <3>1, Zenon DEF PartOf
  <2>5. w = Written(h1, v)
    BY <2>4, NothingBehind DEF WritesBytes
  <2>6. MadeOne(tail, w, n1, h1)
    BY <2>2, <2>5, Zenon DEF MadeOne
  <2> QED BY <1>7, <2>6
<1>8. CASE n = 2 /\ least # 3
  <2>1. tail \in With(With({EmptyTail}, f), g)
    BY <1>4, <1>5, <1>8, UpToIs
  <2>2. PICK t \in With({EmptyTail}, f) : \E u \in Values(h2) : tail = Put(t, n2, u)
    BY <1>2, <2>1, WithIs
  <2>3. PICK u \in Values(h2) : tail = Put(t, n2, u)
    BY <2>2
  <2>4. PICK v \in Values(h1) : t = Put(EmptyTail, n1, v)
    BY <1>1, <2>2, WithIs
  <2>5. tail = Put(Put(EmptyTail, n1, v), n2, u)
    BY <2>3, <2>4
  <2>6. tail[n1] # None /\ tail[n1][1] = v /\ tail[n2] # None /\ tail[n2][1] = u /\ tail[n3] = None
    BY <2>5, TwoPut
  <2>7. w = (Written(h1, v) \o Written(h2, u)) \o <<>>
    <3>1. TailBytes(type, tail) = (PartOf(tail, n1, h1) \o PartOf(tail, n2, h2)) \o PartOf(tail, n3, h3)
      BY PiecesThree
    <3> QED BY <2>6, <3>1, Zenon DEF PartOf
  <2>8. w = Written(h1, v) \o Written(h2, u)
    <3>1. Written(h1, v) \in Seq(Byte) /\ Written(h2, u) \in Seq(Byte)
      BY Zenon DEF WritesBytes
    <3>2. Written(h1, v) \o Written(h2, u) \in Seq(Byte)
      BY <3>1
    <3> QED BY <2>7, <3>2, NothingBehind
  <2>9. MadeTwo(tail, w, n1, h1, n2, h2)
    BY <2>5, <2>8, Zenon DEF MadeTwo
  <2> QED BY <1>8, <2>9
<1>9. CASE n = 3
  <2>1. tail \in With(With(With({EmptyTail}, f), g), h)
    BY <1>4, <1>5, <1>9, UpToIs
  <2>2. PICK s \in With(With({EmptyTail}, f), g) : \E x \in Values(h3) : tail = Put(s, n3, x)
    BY <1>2a, <2>1, WithIs
  <2>3. PICK x \in Values(h3) : tail = Put(s, n3, x)
    BY <2>2
  <2>4. PICK t \in With({EmptyTail}, f) : \E u \in Values(h2) : s = Put(t, n2, u)
    BY <1>2, <2>2, WithIs
  <2>5. PICK u \in Values(h2) : s = Put(t, n2, u)
    BY <2>4
  <2>6. PICK v \in Values(h1) : t = Put(EmptyTail, n1, v)
    BY <1>1, <2>4, WithIs
  <2>7. tail = Put(Put(Put(EmptyTail, n1, v), n2, u), n3, x)
    BY <2>3, <2>5, <2>6
  <2>8. tail[n1] # None /\ tail[n1][1] = v /\ tail[n2] # None /\ tail[n2][1] = u /\ tail[n3] # None /\ tail[n3][1] = x
    BY <2>7, ThreePut
  <2>9. w = (Written(h1, v) \o Written(h2, u)) \o Written(h3, x)
    <3>1. TailBytes(type, tail) = (PartOf(tail, n1, h1) \o PartOf(tail, n2, h2)) \o PartOf(tail, n3, h3)
      BY PiecesThree
    <3> QED BY <2>8, <3>1, Zenon DEF PartOf
  <2>10. MadeThree(tail, w, n1, h1, n2, h2, n3, h3)
    BY <2>7, <2>9, Zenon DEF MadeThree
  <2> QED BY <2>10
<1> QED BY <1>6, <1>7, <1>8, <1>9

(* The values of the fields, by how they are written.                       *)
LEMMA ValuesAre ==
  /\ Values("one") = Levels /\ Values("two") = {id \in Ids : Len(id) <= 2}
  /\ Values("four") = Ids /\ Values("six") = Ids /\ Values("text") = Codes
  /\ Values("mac") = {<<1, 2, 3, 4, 5, 6>>} /\ Values("date") = {day \in Days : IsDate(day)}
BY DEF Values

(* How they are written.                                                    *)
LEMMA WrittenAre ==
  \A v : /\ Written("one", v) = <<v>> /\ Written("two", v) = Padded(2, v)
         /\ Written("four", v) = Padded(4, v) /\ Written("six", v) = Padded(6, v)
         /\ Written("text", v) = <<Len(v)>> \o v
         /\ Written("mac", v) = Mac(v) /\ Written("date", v) = v
BY DEF Written

(* What is written of a field, and what it reads back to.                    *)
OneWritten(v, u) == v \in Byte /\ u \in Seq(Byte) /\ Len(u) = 1 /\ u[1] = v

MacWrit(v, u) == u \in Seq(Byte) /\ Len(u) = 6 /\ Mac(u) = v

DateWritten(v, u) == v \in Seq(Byte) /\ u = v /\ Len(u) = 5 /\ IsDate(v)

TextWritten(v, u) ==
  /\ v \in Seq(Byte) /\ Len(v) \in Byte /\ Text(v) = v
  /\ u \in Seq(Byte) /\ Len(u) = Len(v) + 1 /\ u[1] = Len(v) /\ Within(v, u, 1)

LEMMA OnesWritten ==
  ASSUME NEW v \in Values("one"), NEW u, u = Written("one", v)
  PROVE  OneWritten(v, u)
<1>1. v \in Byte
  BY ValuesAre, LevelsAre
<1>2. u = <<v>>
  BY WrittenAre
<1> QED BY <1>1, <1>2, OneByte, Zenon DEF OneWritten

LEMMA NumbersWritten ==
  ASSUME NEW v, NEW u
  PROVE  /\ v \in Values("two") /\ u = Written("two", v) => PaddedIn(2, v, u)
         /\ v \in Values("four") /\ u = Written("four", v) => PaddedIn(4, v, u)
         /\ v \in Values("six") /\ u = Written("six", v) => PaddedIn(6, v, u)
<1>1. ASSUME v \in Values("two"), u = Written("two", v) PROVE PaddedIn(2, v, u)
  <2>1. v \in Ids \cup LongIds /\ Len(v) <= 2 /\ u = Padded(2, v)
    BY <1>1, ValuesAre, WrittenAre
  <2> QED BY <2>1, TwoFit
<1>2. ASSUME v \in Values("four"), u = Written("four", v) PROVE PaddedIn(4, v, u)
  <2>1. v \in Ids /\ u = Padded(4, v)
    BY <1>2, ValuesAre, WrittenAre
  <2>2. PICK n \in Nat : n = 4 /\ n >= 4
    OBVIOUS
  <2>3. u = Padded(n, v) /\ v \in Ids /\ n >= 4
    BY <2>1, <2>2
  <2>4. u \in Seq(Byte) /\ Len(u) = n /\ Number(u) = v
    BY <2>3, IdPadded
  <2> QED BY <2>2, <2>4 DEF PaddedIn
<1>3. ASSUME v \in Values("six"), u = Written("six", v) PROVE PaddedIn(6, v, u)
  <2>1. v \in Ids /\ u = Padded(6, v)
    BY <1>3, ValuesAre, WrittenAre
  <2>2. PICK n \in Nat : n = 6 /\ n >= 4
    OBVIOUS
  <2>3. u = Padded(n, v) /\ v \in Ids /\ n >= 4
    BY <2>1, <2>2
  <2>4. u \in Seq(Byte) /\ Len(u) = n /\ Number(u) = v
    BY <2>3, IdPadded
  <2> QED BY <2>2, <2>4 DEF PaddedIn
<1> QED BY <1>1, <1>2, <1>3

LEMMA MacsWritten ==
  ASSUME NEW v \in Values("mac"), NEW u, u = Written("mac", v)
  PROVE  MacWrit(v, u)
<1>1. v = <<1, 2, 3, 4, 5, 6>> /\ u = Mac(v)
  BY ValuesAre, WrittenAre
<1>2. v \in Seq(Byte) /\ Len(v) = 6
  BY <1>1, TheMac
<1>3. u \in Seq(Byte) /\ Len(u) = Len(v)
  BY <1>1, <1>2, MacIs
<1>4. Mac(u) = v
  BY <1>1, <1>2, MacBack
<1> QED BY <1>2, <1>3, <1>4 DEF MacWrit

LEMMA DatesWritten ==
  ASSUME NEW v \in Values("date"), NEW u, u = Written("date", v)
  PROVE  DateWritten(v, u)
<1>1. v \in Days /\ IsDate(v) /\ u = v
  BY ValuesAre, WrittenAre
<1> QED BY <1>1, DaysAre DEF DateWritten

LEMMA TextsWritten ==
  ASSUME NEW v \in Values("text"), NEW u, u = Written("text", v)
  PROVE  TextWritten(v, u)
<1>1. v \in Codes /\ u = <<Len(v)>> \o v
  BY ValuesAre, WrittenAre
<1>2. v \in Seq(Byte) /\ IsPasscode(v)
  BY <1>1, CodesAre
<1>3. Len(v) \in Byte
  BY <1>2 DEF IsPasscode, Byte
<1>4. Text(v) = v
  BY <1>2 DEF IsPasscode, Text
<1>5. PICK one : one = <<Len(v)>>
  OBVIOUS
<1>6. one \in Seq(Byte) /\ Len(one) = 1 /\ one[1] = Len(v)
  BY <1>3, <1>5, OneByte
<1>7. u = one \o v
  BY <1>1, <1>5
<1>8. /\ u \in Seq(Byte) /\ Len(u) = Len(one) + Len(v)
      /\ \A i \in 1..Len(one) : u[i] = one[i]
      /\ \A i \in 1..Len(v) : u[Len(one) + i] = v[i]
  <2>1. one \in Seq(Byte) /\ v \in Seq(Byte)
    BY <1>2, <1>6
  <2>2. /\ one \o v \in Seq(Byte) /\ Len(one \o v) = Len(one) + Len(v)
        /\ \A i \in 1..Len(one) : (one \o v)[i] = one[i]
        /\ \A i \in 1..Len(v) : (one \o v)[Len(one) + i] = v[i]
    BY <2>1, Joined
  <2> QED BY <1>7, <2>2
<1>9. Len(u) = Len(v) + 1 /\ u[1] = Len(v)
  BY <1>2, <1>6, <1>8
<1>10. Within(v, u, 1)
  BY <1>2, <1>6, <1>8, <1>9 DEF Within
<1> QED BY <1>2, <1>3, <1>4, <1>8, <1>9, <1>10 DEF TextWritten

LEMMA AllWriteBytes ==
  /\ WritesBytes("one") /\ WritesBytes("two") /\ WritesBytes("four") /\ WritesBytes("six")
  /\ WritesBytes("mac") /\ WritesBytes("date") /\ WritesBytes("text")
BY OnesWritten, NumbersWritten, MacsWritten, DatesWritten, TextsWritten
   DEF WritesBytes, OneWritten, PaddedIn, MacWrit, DateWritten, TextWritten

----------------------------------------------------------------------------

(* What may become of a field of a record, and of all of them.               *)
Goes(how, type, f, was, is) ==
  \/ how # "whole" /\ Stretches(type, f)
  \/ is = was
  \/ how = "cut" /\ is = None
  \/ how = "extended" /\ was = None

(* Every field of a tail is as it was, or became what the form allows it to *)
(* become.                                                                  *)
TailKept(how, type, tail, is) ==
  IsTail(tail) /\ IsTail(is) /\ \A f \in Names : Goes(how, type, f, tail[f], is[f])

(* A tail with one field replaced.                                          *)
Change(tail, name, value) == [tail EXCEPT ![name] = value]

LEMMA ChangeIs ==
  ASSUME NEW tail, IsTail(tail), NEW name \in Names, NEW value, NEW put, put = Change(tail, name, value)
  PROVE  IsTail(put) /\ \A f \in Names : put[f] = IF f = name THEN value ELSE tail[f]
<1>1. DOMAIN tail = Names
  BY DEF IsTail
<1>2. put = [tail EXCEPT ![name] = value]
  BY DEF Change
<1>3. put = [f \in Names |-> put[f]]
  BY <1>1, <1>2
<1> QED BY <1>1, <1>2, <1>3 DEF IsTail

LEMMA EmptyKept ==
  ASSUME NEW how, NEW type
  PROVE  TailKept(how, type, EmptyTail, EmptyTail)
BY EmptyIs DEF TailKept, Goes

(* A tail of which nothing came, because it was cut.                        *)
LEMMA NothingRead ==
  ASSUME NEW type, NEW tail, IsTail(tail)
  PROVE  TailKept("cut", type, tail, EmptyTail)
BY EmptyIs DEF TailKept, Goes

(* A field more that is written and read.                                    *)
LEMMA OneMore ==
  ASSUME NEW how, NEW type, NEW tail, NEW is, TailKept(how, type, tail, is), NEW f \in Names,
         NEW was, NEW now, Goes(how, type, f, was, now)
  PROVE  TailKept(how, type, Change(tail, f, was), Change(is, f, now))
<1>1. PICK a : a = Change(tail, f, was)
  OBVIOUS
<1>2. PICK b : b = Change(is, f, now)
  OBVIOUS
<1>3. IsTail(tail) /\ IsTail(is) /\ \A x \in Names : Goes(how, type, x, tail[x], is[x])
  BY Zenon DEF TailKept
<1>4. IsTail(a) /\ \A x \in Names : a[x] = IF x = f THEN was ELSE tail[x]
  BY <1>1, <1>3, ChangeIs
<1>5. IsTail(b) /\ \A x \in Names : b[x] = IF x = f THEN now ELSE is[x]
  BY <1>2, <1>3, ChangeIs
<1>6. \A x \in Names : Goes(how, type, x, a[x], b[x])
  BY <1>3, <1>4, <1>5
<1> QED BY <1>1, <1>2, <1>4, <1>5, <1>6, Zenon DEF TailKept

LEMMA PutChanges == \A tail, f, v : Put(tail, f, v) = Change(tail, f, Some(v))
BY DEF Put, Change

(* The types that have no decoder of their own.                             *)
OtherTypes(type) ==
  /\ type \notin AppTypes \cup PasscodeTypes \cup CardTypes \cup SixByteIdTypes \cup ShortIdTypes
                   \cup MacTypes \cup FobTypes \cup {7, 8, 30, 31, 37, 56, 93}

(* A decoder that wants so many bytes, and leaves the tail empty without    *)
(* them.                                                                    *)
Decodes(type, body, least, tail) ==
  RecordTail(type, body) = IF Len(body) < least THEN EmptyTail ELSE tail

(* The decoder and the layout of the types of the app. The lemmas called    *)
(* ...Decoded below pair the decoder of record_tail with the layout for the *)
(* other types.                                                             *)
LEMMA AppDecoded ==
  ASSUME NEW type, type \in AppTypes, NEW body
  PROVE  /\ Decodes(type, body, 8, AppUidRecordId(body))
         /\ LayoutTwo(type, Field("uid", "four"), Field("recordId", "four"), 2)
<1>1. type # 37 /\ type \notin PasscodeTypes /\ type # 7 /\ type # 8 /\ type \notin CardTypes /\ type \notin SixByteIdTypes /\ type \notin ShortIdTypes /\ type \notin MacTypes /\ type \notin {30, 31} /\ type \notin FobTypes /\ type # 56 /\ type # 93
  BY DEF AppTypes, PasscodeTypes, CardTypes, SixByteIdTypes, ShortIdTypes, MacTypes, FobTypes
<1>2. Least(type) = 8
  BY <1>1, Zenon DEF Least
<1>3. Layout(type) = <<Field("uid", "four"), Field("recordId", "four")>>
  BY <1>1, Zenon DEF Layout
<1>4. RecordTail(type, body) = IF Len(body) < 8 THEN EmptyTail ELSE AppUidRecordId(body)
  BY <1>1, <1>2, Zenon DEF RecordTail
<1>5. <<Field("uid", "four"), Field("recordId", "four")>> # <<>>
  OBVIOUS
<1>6. Required(type) = 2
  BY <1>1, <1>3, <1>5, Zenon DEF Required
<1> QED BY <1>3, <1>4, <1>6, Zenon DEF Decodes, LayoutTwo

LEMMA RemoteDecoded ==
  ASSUME NEW type, type = 37, NEW body
  PROVE  /\ Decodes(type, body, 9, RemoteControlKey(body))
         /\ LayoutThree(type, Field("uid", "four"), Field("recordId", "four"), Field("keyId", "one"), 3)
<1>1. type \notin AppTypes /\ type \notin PasscodeTypes /\ type # 7 /\ type # 8 /\ type \notin CardTypes /\ type \notin SixByteIdTypes /\ type \notin ShortIdTypes /\ type \notin MacTypes /\ type \notin {30, 31} /\ type \notin FobTypes /\ type # 56 /\ type # 93
  BY DEF AppTypes, PasscodeTypes, CardTypes, SixByteIdTypes, ShortIdTypes, MacTypes, FobTypes
<1>2. Least(type) = 9
  BY <1>1, Zenon DEF Least
<1>3. Layout(type) = <<Field("uid", "four"), Field("recordId", "four"), Field("keyId", "one")>>
  BY <1>1, Zenon DEF Layout
<1>4. RecordTail(type, body) = IF Len(body) < 9 THEN EmptyTail ELSE RemoteControlKey(body)
  BY <1>1, <1>2, Zenon DEF RecordTail
<1>5. <<Field("uid", "four"), Field("recordId", "four"), Field("keyId", "one")>> # <<>>
  OBVIOUS
<1>6. Required(type) = 3
  BY <1>1, <1>3, <1>5, Zenon DEF Required
<1> QED BY <1>3, <1>4, <1>6, Zenon DEF Decodes, LayoutThree

LEMMA PairsDecoded ==
  ASSUME NEW type, type \in PasscodeTypes, NEW body
  PROVE  /\ Decodes(type, body, 1, PwdPair(body))
         /\ LayoutTwo(type, Field("password", "text"), Field("newPassword", "text"), 1)
<1>1. type \notin AppTypes /\ type # 37 /\ type # 7 /\ type # 8 /\ type \notin CardTypes /\ type \notin SixByteIdTypes /\ type \notin ShortIdTypes /\ type \notin MacTypes /\ type \notin {30, 31} /\ type \notin FobTypes /\ type # 56 /\ type # 93
  BY DEF AppTypes, PasscodeTypes, CardTypes, SixByteIdTypes, ShortIdTypes, MacTypes, FobTypes
<1>2. Least(type) = 1
  BY <1>1, Zenon DEF Least
<1>3. Layout(type) = <<Field("password", "text"), Field("newPassword", "text")>>
  BY <1>1, Zenon DEF Layout
<1>4. RecordTail(type, body) = IF Len(body) < 1 THEN EmptyTail ELSE PwdPair(body)
  BY <1>1, <1>2, Zenon DEF RecordTail
<1>5. <<Field("password", "text"), Field("newPassword", "text")>> # <<>>
  OBVIOUS
<1>6. Required(type) = 1
  BY <1>1, <1>3, <1>5, Zenon DEF Required
<1> QED BY <1>3, <1>4, <1>6, Zenon DEF Decodes, LayoutTwo

LEMMA OnlyDecoded ==
  ASSUME NEW type, type = 7, NEW body
  PROVE  /\ Decodes(type, body, 1, PasscodeOnly(body))
         /\ LayoutOne(type, Field("password", "text"))
<1>1. type \notin AppTypes /\ type # 37 /\ type \notin PasscodeTypes /\ type # 8 /\ type \notin CardTypes /\ type \notin SixByteIdTypes /\ type \notin ShortIdTypes /\ type \notin MacTypes /\ type \notin {30, 31} /\ type \notin FobTypes /\ type # 56 /\ type # 93
  BY DEF AppTypes, PasscodeTypes, CardTypes, SixByteIdTypes, ShortIdTypes, MacTypes, FobTypes
<1>2. Least(type) = 1
  BY <1>1, Zenon DEF Least
<1>3. Layout(type) = <<Field("password", "text")>>
  BY <1>1, Zenon DEF Layout
<1>4. RecordTail(type, body) = IF Len(body) < 1 THEN EmptyTail ELSE PasscodeOnly(body)
  BY <1>1, <1>2, Zenon DEF RecordTail
<1>5. <<Field("password", "text")>> # <<>>
  OBVIOUS
<1>6. Required(type) = 1
  BY <1>1, <1>3, <1>5, Zenon DEF Required
<1> QED BY <1>3, <1>4, <1>6, Zenon DEF Decodes, LayoutOne

LEMMA ClearDecoded ==
  ASSUME NEW type, type = 8, NEW body
  PROVE  /\ Decodes(type, body, 5, ClearAllPasscodes(body))
         /\ LayoutTwo(type, Field("deleteDate", "date"), Field("password", "text"), 1)
<1>1. type \notin AppTypes /\ type # 37 /\ type \notin PasscodeTypes /\ type # 7 /\ type \notin CardTypes /\ type \notin SixByteIdTypes /\ type \notin ShortIdTypes /\ type \notin MacTypes /\ type \notin {30, 31} /\ type \notin FobTypes /\ type # 56 /\ type # 93
  BY DEF AppTypes, PasscodeTypes, CardTypes, SixByteIdTypes, ShortIdTypes, MacTypes, FobTypes
<1>2. Least(type) = 5
  BY <1>1, Zenon DEF Least
<1>3. Layout(type) = <<Field("deleteDate", "date"), Field("password", "text")>>
  BY <1>1, Zenon DEF Layout
<1>4. RecordTail(type, body) = IF Len(body) < 5 THEN EmptyTail ELSE ClearAllPasscodes(body)
  BY <1>1, <1>2, Zenon DEF RecordTail
<1>5. <<Field("deleteDate", "date"), Field("password", "text")>> # <<>>
  OBVIOUS
<1>6. Required(type) = 1
  BY <1>1, <1>3, <1>5, Zenon DEF Required
<1> QED BY <1>3, <1>4, <1>6, Zenon DEF Decodes, LayoutTwo

LEMMA CardDecoded ==
  ASSUME NEW type, type \in CardTypes, NEW body
  PROVE  /\ Decodes(type, body, 1, CredentialId(body))
         /\ LayoutOne(type, Field("password", "four"))
<1>1. type \notin AppTypes /\ type # 37 /\ type \notin PasscodeTypes /\ type # 7 /\ type # 8 /\ type \notin SixByteIdTypes /\ type \notin ShortIdTypes /\ type \notin MacTypes /\ type \notin {30, 31} /\ type \notin FobTypes /\ type # 56 /\ type # 93
  BY DEF AppTypes, PasscodeTypes, CardTypes, SixByteIdTypes, ShortIdTypes, MacTypes, FobTypes
<1>2. Least(type) = 1
  BY <1>1, Zenon DEF Least
<1>3. Layout(type) = <<Field("password", "four")>>
  BY <1>1, Zenon DEF Layout
<1>4. RecordTail(type, body) = IF Len(body) < 1 THEN EmptyTail ELSE CredentialId(body)
  BY <1>1, <1>2, Zenon DEF RecordTail
<1>5. <<Field("password", "four")>> # <<>>
  OBVIOUS
<1>6. Required(type) = 1
  BY <1>1, <1>3, <1>5, Zenon DEF Required
<1> QED BY <1>3, <1>4, <1>6, Zenon DEF Decodes, LayoutOne

LEMMA SixByteDecoded ==
  ASSUME NEW type, type \in SixByteIdTypes, NEW body
  PROVE  /\ Decodes(type, body, 6, CredentialId(Slice(body, 0, 6)))
         /\ LayoutOne(type, Field("password", "six"))
<1>1. type \notin AppTypes /\ type # 37 /\ type \notin PasscodeTypes /\ type # 7 /\ type # 8 /\ type \notin CardTypes /\ type \notin ShortIdTypes /\ type \notin MacTypes /\ type \notin {30, 31} /\ type \notin FobTypes /\ type # 56 /\ type # 93
  BY DEF AppTypes, PasscodeTypes, CardTypes, SixByteIdTypes, ShortIdTypes, MacTypes, FobTypes
<1>2. Least(type) = 6
  BY <1>1, Zenon DEF Least
<1>3. Layout(type) = <<Field("password", "six")>>
  BY <1>1, Zenon DEF Layout
<1>4. RecordTail(type, body) = IF Len(body) < 6 THEN EmptyTail ELSE CredentialId(Slice(body, 0, 6))
  BY <1>1, <1>2, Zenon DEF RecordTail
<1>5. <<Field("password", "six")>> # <<>>
  OBVIOUS
<1>6. Required(type) = 1
  BY <1>1, <1>3, <1>5, Zenon DEF Required
<1> QED BY <1>3, <1>4, <1>6, Zenon DEF Decodes, LayoutOne

LEMMA ShortDecoded ==
  ASSUME NEW type, type \in ShortIdTypes, NEW body
  PROVE  /\ Decodes(type, body, 2, CredentialId(Slice(body, 0, 2)))
         /\ LayoutOne(type, Field("password", "two"))
<1>1. type \notin AppTypes /\ type # 37 /\ type \notin PasscodeTypes /\ type # 7 /\ type # 8 /\ type \notin CardTypes /\ type \notin SixByteIdTypes /\ type \notin MacTypes /\ type \notin {30, 31} /\ type \notin FobTypes /\ type # 56 /\ type # 93
  BY DEF AppTypes, PasscodeTypes, CardTypes, SixByteIdTypes, ShortIdTypes, MacTypes, FobTypes
<1>2. Least(type) = 2
  BY <1>1, Zenon DEF Least
<1>3. Layout(type) = <<Field("password", "two")>>
  BY <1>1, Zenon DEF Layout
<1>4. RecordTail(type, body) = IF Len(body) < 2 THEN EmptyTail ELSE CredentialId(Slice(body, 0, 2))
  BY <1>1, <1>2, Zenon DEF RecordTail
<1>5. <<Field("password", "two")>> # <<>>
  OBVIOUS
<1>6. Required(type) = 1
  BY <1>1, <1>3, <1>5, Zenon DEF Required
<1> QED BY <1>3, <1>4, <1>6, Zenon DEF Decodes, LayoutOne

LEMMA MacDecoded ==
  ASSUME NEW type, type \in MacTypes, NEW body
  PROVE  /\ Decodes(type, body, 6, MacOnly(body))
         /\ LayoutOne(type, Field("password", "mac"))
<1>1. type \notin AppTypes /\ type # 37 /\ type \notin PasscodeTypes /\ type # 7 /\ type # 8 /\ type \notin CardTypes /\ type \notin SixByteIdTypes /\ type \notin ShortIdTypes /\ type \notin {30, 31} /\ type \notin FobTypes /\ type # 56 /\ type # 93
  BY DEF AppTypes, PasscodeTypes, CardTypes, SixByteIdTypes, ShortIdTypes, MacTypes, FobTypes
<1>2. Least(type) = 6
  BY <1>1, Zenon DEF Least
<1>3. Layout(type) = <<Field("password", "mac")>>
  BY <1>1, Zenon DEF Layout
<1>4. RecordTail(type, body) = IF Len(body) < 6 THEN EmptyTail ELSE MacOnly(body)
  BY <1>1, <1>2, Zenon DEF RecordTail
<1>5. <<Field("password", "mac")>> # <<>>
  OBVIOUS
<1>6. Required(type) = 1
  BY <1>1, <1>3, <1>5, Zenon DEF Required
<1> QED BY <1>3, <1>4, <1>6, Zenon DEF Decodes, LayoutOne

LEMMA BatteryDecoded ==
  ASSUME NEW type, type \in {30, 31}, NEW body
  PROVE  /\ Decodes(type, body, 1, AccessoryBattery(body))
         /\ LayoutOne(type, Field("accessoryBattery", "one"))
<1>1. type \notin AppTypes /\ type # 37 /\ type \notin PasscodeTypes /\ type # 7 /\ type # 8 /\ type \notin CardTypes /\ type \notin SixByteIdTypes /\ type \notin ShortIdTypes /\ type \notin MacTypes /\ type \notin FobTypes /\ type # 56 /\ type # 93
  BY DEF AppTypes, PasscodeTypes, CardTypes, SixByteIdTypes, ShortIdTypes, MacTypes, FobTypes
<1>2. Least(type) = 1
  BY <1>1, Zenon DEF Least
<1>3. Layout(type) = <<Field("accessoryBattery", "one")>>
  BY <1>1, Zenon DEF Layout
<1>4. RecordTail(type, body) = IF Len(body) < 1 THEN EmptyTail ELSE AccessoryBattery(body)
  BY <1>1, <1>2, Zenon DEF RecordTail
<1>5. <<Field("accessoryBattery", "one")>> # <<>>
  OBVIOUS
<1>6. Required(type) = 1
  BY <1>1, <1>3, <1>5, Zenon DEF Required
<1> QED BY <1>3, <1>4, <1>6, Zenon DEF Decodes, LayoutOne

LEMMA FobDecoded ==
  ASSUME NEW type, type \in FobTypes, NEW body
  PROVE  /\ Decodes(type, body, 6, KeyFob(body))
         /\ LayoutThree(type, Field("password", "mac"), Field("keyId", "one"), Field("accessoryBattery", "one"), 1)
<1>1. type \notin AppTypes /\ type # 37 /\ type \notin PasscodeTypes /\ type # 7 /\ type # 8 /\ type \notin CardTypes /\ type \notin SixByteIdTypes /\ type \notin ShortIdTypes /\ type \notin MacTypes /\ type \notin {30, 31} /\ type # 56 /\ type # 93
  BY DEF AppTypes, PasscodeTypes, CardTypes, SixByteIdTypes, ShortIdTypes, MacTypes, FobTypes
<1>2. Least(type) = 6
  BY <1>1, Zenon DEF Least
<1>3. Layout(type) = <<Field("password", "mac"), Field("keyId", "one"), Field("accessoryBattery", "one")>>
  BY <1>1, Zenon DEF Layout
<1>4. RecordTail(type, body) = IF Len(body) < 6 THEN EmptyTail ELSE KeyFob(body)
  BY <1>1, <1>2, Zenon DEF RecordTail
<1>5. <<Field("password", "mac"), Field("keyId", "one"), Field("accessoryBattery", "one")>> # <<>>
  OBVIOUS
<1>6. Required(type) = 1
  BY <1>1, <1>3, <1>5, Zenon DEF Required
<1> QED BY <1>3, <1>4, <1>6, Zenon DEF Decodes, LayoutThree

LEMMA KeypadDecoded ==
  ASSUME NEW type, type = 56, NEW body
  PROVE  /\ Decodes(type, body, 6, WirelessKeypad(body))
         /\ LayoutTwo(type, Field("password", "mac"), Field("accessoryBattery", "one"), 1)
<1>1. type \notin AppTypes /\ type # 37 /\ type \notin PasscodeTypes /\ type # 7 /\ type # 8 /\ type \notin CardTypes /\ type \notin SixByteIdTypes /\ type \notin ShortIdTypes /\ type \notin MacTypes /\ type \notin {30, 31} /\ type \notin FobTypes /\ type # 93
  BY DEF AppTypes, PasscodeTypes, CardTypes, SixByteIdTypes, ShortIdTypes, MacTypes, FobTypes
<1>2. Least(type) = 6
  BY <1>1, Zenon DEF Least
<1>3. Layout(type) = <<Field("password", "mac"), Field("accessoryBattery", "one")>>
  BY <1>1, Zenon DEF Layout
<1>4. RecordTail(type, body) = IF Len(body) < 6 THEN EmptyTail ELSE WirelessKeypad(body)
  BY <1>1, <1>2, Zenon DEF RecordTail
<1>5. <<Field("password", "mac"), Field("accessoryBattery", "one")>> # <<>>
  OBVIOUS
<1>6. Required(type) = 1
  BY <1>1, <1>3, <1>5, Zenon DEF Required
<1> QED BY <1>3, <1>4, <1>6, Zenon DEF Decodes, LayoutTwo

LEMMA AddedDecoded ==
  ASSUME NEW type, type = 93, NEW body
  PROVE  /\ Decodes(type, body, 1, AddedPasscode(body))
         /\ LayoutThree(type, Field("password", "text"), Field("startDate", "date"), Field("endDate", "date"), 1)
<1>1. type \notin AppTypes /\ type # 37 /\ type \notin PasscodeTypes /\ type # 7 /\ type # 8 /\ type \notin CardTypes /\ type \notin SixByteIdTypes /\ type \notin ShortIdTypes /\ type \notin MacTypes /\ type \notin {30, 31} /\ type \notin FobTypes /\ type # 56
  BY DEF AppTypes, PasscodeTypes, CardTypes, SixByteIdTypes, ShortIdTypes, MacTypes, FobTypes
<1>2. Least(type) = 1
  BY <1>1, Zenon DEF Least
<1>3. Layout(type) = <<Field("password", "text"), Field("startDate", "date"), Field("endDate", "date")>>
  BY <1>1, Zenon DEF Layout
<1>4. RecordTail(type, body) = IF Len(body) < 1 THEN EmptyTail ELSE AddedPasscode(body)
  BY <1>1, <1>2, Zenon DEF RecordTail
<1>5. <<Field("password", "text"), Field("startDate", "date"), Field("endDate", "date")>> # <<>>
  OBVIOUS
<1>6. Required(type) = 1
  BY <1>1, <1>3, <1>5, Zenon DEF Required
<1> QED BY <1>3, <1>4, <1>6, Zenon DEF Decodes, LayoutThree

(* A type without a decoder has no tail.                                    *)
LEMMA OtherDecoded ==
  ASSUME NEW type, OtherTypes(type), NEW body
  PROVE  RecordTail(type, body) = EmptyTail /\ Layout(type) = <<>> /\ Required(type) = 0
<1>1. type \notin AppTypes /\ type # 37 /\ type \notin PasscodeTypes /\ type # 7 /\ type # 8 /\ type \notin CardTypes /\ type \notin SixByteIdTypes /\ type \notin ShortIdTypes /\ type \notin MacTypes /\ type \notin {30, 31} /\ type \notin FobTypes /\ type # 56 /\ type # 93
  BY DEF OtherTypes
<1>3. Layout(type) = <<>>
  BY <1>1, Zenon DEF Layout
<1>4. RecordTail(type, body) = EmptyTail
  BY <1>1, Zenon DEF RecordTail
<1>6. Required(type) = 0
  BY <1>1, <1>3, Zenon DEF Required
<1> QED BY <1>3, <1>4, <1>6

Hows == {"whole", "cut", "extended"}

(* What the reader has of a tail.                                            *)
Gets(how, t, w) == how \in Hows /\ w \in Seq(Byte) /\ t \in Seq(Byte) /\ Came(how, t, w)

(* What came of a tail.                                                     *)
LEMMA GetsIs ==
  ASSUME NEW how, NEW t, NEW w, Gets(how, t, w)
  PROVE  /\ w \in Seq(Byte) /\ t \in Seq(Byte) /\ Agrees(t, w) /\ Len(t) \in Nat /\ Len(w) \in Nat
         /\ Len(t) < Len(w) => how = "cut"
         /\ Len(t) > Len(w) => how = "extended"
         /\ how = "whole" => t = w
<1>1. Came(how, t, w) /\ how \in {"whole", "cut", "extended"} /\ w \in Seq(Byte) /\ t \in Seq(Byte)
  BY Zenon DEF Gets, Hows
<1>2. /\ Agrees(t, w) /\ Len(t) \in Nat /\ Len(w) \in Nat
      /\ how = "whole" => t = w
      /\ how = "cut" => Len(t) < Len(w)
      /\ how = "extended" => Len(t) > Len(w)
  BY <1>1, Zenon DEF Came
<1>3. Len(t) < Len(w) => how = "cut"
  BY <1>1, <1>2
<1>4. Len(t) > Len(w) => how = "extended"
  BY <1>1, <1>2
<1> QED BY <1>1, <1>2, <1>3, <1>4

(* A field of a fixed place is what was written, or the body ends before it. *)
LEMMA FieldGets ==
  ASSUME NEW how, NEW t, NEW w, Gets(how, t, w), NEW u \in Seq(Byte), NEW p \in Nat, NEW q \in Nat, FieldAt(u, w, p, q)
  PROVE  /\ Len(t) < q => how = "cut"
         /\ q <= Len(t) => Slice(t, p, q) = u
<1>1. /\ w \in Seq(Byte) /\ t \in Seq(Byte) /\ Agrees(t, w) /\ Len(t) \in Nat /\ Len(w) \in Nat
      /\ Len(t) < Len(w) => how = "cut"
  BY GetsIs
<1>2. q <= Len(w)
  BY <1>1 DEF FieldAt, Within
<1>3. Len(t) < q => how = "cut"
  BY <1>1, <1>2
<1>4. ASSUME q <= Len(t) PROVE Slice(t, p, q) = u
  BY <1>1, <1>4, FieldRead
<1> QED BY <1>3, <1>4

LEMMA ByteGets ==
  ASSUME NEW how, NEW t, NEW w, Gets(how, t, w), NEW i \in Nat, i < Len(w), NEW v, v = w[i + 1], i < Len(t)
  PROVE  At(t, i) = v
<1>1. /\ w \in Seq(Byte) /\ t \in Seq(Byte) /\ Agrees(t, w) /\ Len(t) \in Nat /\ Len(w) \in Nat
  BY GetsIs
<1>2. PICK k \in Nat : k = i + 1
  OBVIOUS
<1>3. k \in 1..Len(t) /\ k <= Len(w)
  BY <1>1, <1>2
<1>4. t[k] = w[k]
  BY <1>1, <1>3, Zenon DEF Agrees
<1> QED BY <1>2, <1>4 DEF At

(* A byte that may be there.                                                 *)
OptionalByte(w, i, was) ==
  (i < Len(w) /\ was = Some(w[i + 1])) \/ (Len(w) <= i /\ was = None)

(* A byte that may be missing, in what came.                                *)
LEMMA OptionalGoes ==
  ASSUME NEW how, NEW t, NEW w, Gets(how, t, w), NEW i \in Nat, NEW was, OptionalByte(w, i, was), NEW type, NEW f
  PROVE  Goes(how, type, f, was, Optional(t, i))
<1>1. /\ w \in Seq(Byte) /\ t \in Seq(Byte) /\ Len(t) \in Nat /\ Len(w) \in Nat
      /\ Len(t) < Len(w) => how = "cut"
      /\ Len(t) > Len(w) => how = "extended"
  BY GetsIs
<1>2. CASE i < Len(w)
  <2>1. was = Some(w[i + 1])
    BY <1>1, <1>2 DEF OptionalByte
  <2>2. CASE i < Len(t)
    <3>1. At(t, i) = w[i + 1]
      BY <1>1, <1>2, <2>2, ByteGets
    <3>2. Optional(t, i) = Some(w[i + 1])
      BY <1>1, <2>2, <3>1 DEF Optional
    <3> QED BY <2>1, <3>2 DEF Goes
  <2>3. CASE Len(t) <= i
    <3>1. how = "cut"
      BY <1>1, <1>2, <2>3
    <3>2. Optional(t, i) = None
      BY <1>1, <2>3 DEF Optional
    <3> QED BY <3>1, <3>2 DEF Goes
  <2> QED BY <1>1, <2>2, <2>3
<1>3. CASE Len(w) <= i
  <2>1. was = None
    BY <1>1, <1>3 DEF OptionalByte
  <2>2. CASE i < Len(t)
    <3>1. how = "extended"
      BY <1>1, <1>3, <2>2
    <3> QED BY <2>1, <3>1 DEF Goes
  <2>3. CASE Len(t) <= i
    <3>1. Optional(t, i) = None
      BY <1>1, <2>3 DEF Optional
    <3> QED BY <2>1, <3>1 DEF Goes
  <2> QED BY <1>1, <2>2, <2>3
<1> QED BY <1>1, <1>2, <1>3

(* A date that may be there.                                                 *)
OptionalDate(w, i, was) ==
  \/ \E d \in Seq(Byte) : DateWritten(d, d) /\ FieldAt(d, w, i, i + 5) /\ was = Some(d)
  \/ Len(w) <= i /\ was = None

LEMMA ShortDate ==
  ASSUME NEW t \in Seq(Byte), NEW i \in Nat, Len(t) < i + 5
  PROVE  Date(5, From(t, i)) = None
<1>1. Len(From(t, i)) < 5
  BY DEF From
<1> QED BY <1>1 DEF Date

LEMMA DateThere ==
  ASSUME NEW t \in Seq(Byte), NEW i \in Nat, NEW d, DateWritten(d, d), NEW j \in Nat, j = i + 5, j <= Len(t), Slice(t, i, j) = d
  PROVE  Date(5, From(t, i)) = Some(d)
<1>1. PICK r : r = From(t, i)
  OBVIOUS
<1>2. r \in Seq(Byte) /\ Len(r) = Len(t) - i
  BY <1>1 DEF From
<1>3. Len(r) >= 5
  BY <1>2
<1>4. Slice(r, 0, 5) = Slice(t, i, j)
  BY <1>1, <1>2, <1>3 DEF Slice, From
<1>5. IsDate(d)
  BY DEF DateWritten
<1> QED BY <1>1, <1>3, <1>4, <1>5 DEF Date

(* A date that may be missing, in what came.                                *)
LEMMA DateGoes ==
  ASSUME NEW how, NEW t, NEW w, Gets(how, t, w), NEW i \in Nat, NEW was, OptionalDate(w, i, was), NEW type, NEW f
  PROVE  Goes(how, type, f, was, Date(5, From(t, i)))
<1>1. /\ w \in Seq(Byte) /\ t \in Seq(Byte) /\ Len(t) \in Nat /\ Len(w) \in Nat
      /\ Len(t) < Len(w) => how = "cut"
      /\ Len(t) > Len(w) => how = "extended"
  BY GetsIs
<1>2. PICK j \in Nat : j = i + 5
  OBVIOUS
<1>3. ASSUME NEW d \in Seq(Byte), DateWritten(d, d), FieldAt(d, w, i, i + 5), was = Some(d)
      PROVE  Goes(how, type, f, was, Date(5, From(t, i)))
  <2>1. FieldAt(d, w, i, j)
    BY <1>2, <1>3
  <2>2. /\ Len(t) < j => how = "cut"
        /\ j <= Len(t) => Slice(t, i, j) = d
    BY <2>1, FieldGets
  <2>3. CASE Len(t) < j
    <3>1. Date(5, From(t, i)) = None
      BY <1>1, <1>2, <2>3, ShortDate
    <3> QED BY <2>2, <2>3, <3>1 DEF Goes
  <2>4. CASE j <= Len(t)
    <3>1. Date(5, From(t, i)) = Some(d)
      BY <1>1, <1>2, <1>3, <2>2, <2>4, DateThere
    <3> QED BY <1>3, <3>1 DEF Goes
  <2> QED BY <1>1, <1>2, <2>3, <2>4
<1>4. ASSUME Len(w) <= i, was = None
      PROVE  Goes(how, type, f, was, Date(5, From(t, i)))
  <2>1. CASE Len(t) > Len(w)
    BY <1>1, <1>4, <2>1 DEF Goes
  <2>2. CASE Len(t) <= Len(w)
    <3>1. Len(t) < i + 5
      BY <1>1, <1>4, <2>2
    <3>2. Date(5, From(t, i)) = None
      BY <1>1, <3>1, ShortDate
    <3> QED BY <1>4, <3>2 DEF Goes
  <2> QED BY <1>1, <2>1, <2>2
<1> QED BY <1>3, <1>4, Zenon DEF OptionalDate

(* A text that comes first, behind its length.                               *)
TextFound(t, v, u) ==
  /\ Len(t) < Len(u) => t = <<>> \/ 1 + t[1] > Len(t)
  /\ Len(u) <= Len(t) => /\ t # <<>> /\ 1 + t[1] = Len(u) /\ ~(1 + t[1] > Len(t))
                         /\ Text(Slice(t, 1, 1 + t[1])) = v

(* A text at the start of what came.                                        *)
LEMMA TextFirst ==
  ASSUME NEW v, NEW u, TextWritten(v, u), NEW t \in Seq(Byte), Agrees(t, u)
  PROVE  TextFound(t, v, u)
<1>1. /\ v \in Seq(Byte) /\ Len(v) \in Byte /\ Text(v) = v
      /\ u \in Seq(Byte) /\ Len(u) = Len(v) + 1 /\ u[1] = Len(v) /\ Within(v, u, 1)
  BY Zenon DEF TextWritten
<1>2. Len(v) \in Nat /\ Len(t) \in Nat
  BY <1>1
<1>3. Len(t) # 0 => t[1] = Len(v)
  <2>1. Len(t) # 0 => 1 \in 1..Len(t) /\ 1 <= Len(u)
    BY <1>1, <1>2
  <2> QED BY <1>1, <2>1 DEF Agrees
<1>4. ASSUME Len(t) < Len(u) PROVE t = <<>> \/ 1 + t[1] > Len(t)
  BY <1>1, <1>2, <1>3, <1>4
<1>5. ASSUME Len(u) <= Len(t)
      PROVE  t # <<>> /\ 1 + t[1] = Len(u) /\ ~(1 + t[1] > Len(t)) /\ Text(Slice(t, 1, 1 + t[1])) = v
  <2>1. t # <<>> /\ 1 + t[1] = Len(u) /\ ~(1 + t[1] > Len(t))
    BY <1>1, <1>2, <1>3, <1>5
  <2>2. PICK one \in Nat : one = 1
    OBVIOUS
  <2>3. PICK q \in Nat : q = Len(u)
    BY <1>1
  <2>4. FieldAt(v, u, one, q)
    BY <1>1, <1>2, <2>2, <2>3 DEF FieldAt
  <2>5. q <= Len(t)
    BY <1>5, <2>3
  <2>6. Slice(t, one, q) = v
    BY <1>1, <2>4, <2>5, FieldRead
  <2>7. Slice(t, 1, 1 + t[1]) = v
    BY <2>1, <2>2, <2>3, <2>6
  <2> QED BY <1>1, <2>1, <2>7
<1> QED BY <1>4, <1>5 DEF TextFound

(* Two fields of a body, and three.                                          *)
TwoFields(w, a, b, p, q) ==
  w \in Seq(Byte) /\ Len(w) = q /\ FieldAt(a, w, 0, p) /\ FieldAt(b, w, p, q)

ThreeFields(w, a, b, c, p, q, r) ==
  w \in Seq(Byte) /\ Len(w) = r /\ FieldAt(a, w, 0, p) /\ FieldAt(b, w, p, q) /\ FieldAt(c, w, q, r)

LEMMA TwoFieldsAre ==
  ASSUME NEW a \in Seq(Byte), NEW b \in Seq(Byte), NEW p \in Nat, NEW q \in Nat, p = Len(a), q = p + Len(b),
         NEW w, JoinedAs(w, a, b)
  PROVE  TwoFields(w, a, b, p, q)
<1>0. PICK z \in Nat : z = 0
  OBVIOUS
<1>1. w = a \o b
  BY DEF JoinedAs
<1>2. MadeOf(w, a, b, p, q)
  BY <1>1, Parts
<1>3. w \in Seq(Byte) /\ Len(w) = q /\ FieldAt(a, w, z, p) /\ FieldAt(b, w, p, q)
  BY <1>0, <1>2, Behind, FirstField
<1> QED BY <1>0, <1>3 DEF TwoFields

LEMMA ThreeFieldsAre ==
  ASSUME NEW a \in Seq(Byte), NEW b \in Seq(Byte), NEW c \in Seq(Byte), NEW p \in Nat, NEW q \in Nat, NEW r \in Nat,
         p = Len(a), q = p + Len(b), r = q + Len(c), NEW w, ThreeJoined(w, a, b, c)
  PROVE  ThreeFields(w, a, b, c, p, q, r)
<1>0. PICK z \in Nat : z = 0
  OBVIOUS
<1>1. PICK x : x = a \o b
  OBVIOUS
<1>2. w = x \o c
  BY <1>1 DEF ThreeJoined
<1>3. MadeOf(x, a, b, p, q)
  BY <1>1, Parts
<1>4. x \in Seq(Byte) /\ Len(x) = q /\ FieldAt(a, x, z, p) /\ FieldAt(b, x, p, q)
  BY <1>0, <1>3, Behind, FirstField
<1>5. MadeOf(w, x, c, q, r)
  BY <1>2, <1>4, Parts
<1>6. w \in Seq(Byte) /\ Len(w) = r /\ FieldAt(c, w, q, r)
  BY <1>5, Behind
<1>7. FieldAt(a, w, z, p)
  BY <1>0, <1>4, <1>5, StillThere
<1>8. FieldAt(b, w, p, q)
  BY <1>4, <1>5, StillThere
<1> QED BY <1>0, <1>6, <1>7, <1>8 DEF ThreeFields

(* The decoders, field after field.                                          *)
LEMMA TailsDecoded ==
  ASSUME NEW body
  PROVE  /\ AppUidRecordId(body) =
              Change(Change(EmptyTail, "uid", Some(Number(Slice(body, 0, 4)))),
                     "recordId", Some(Number(Slice(body, 4, 8))))
         /\ RemoteControlKey(body) = Change(AppUidRecordId(body), "keyId", Some(At(body, 8)))
         /\ PasscodeOnly(body) = Change(EmptyTail, "password", PwdPair(body).password)
         /\ ClearAllPasscodes(body) =
              Change(Change(EmptyTail, "deleteDate", Date(5, body)),
                     "password", PwdPair(From(body, 5)).password)
         /\ CredentialId(body) = Change(EmptyTail, "password", Some(Number(body)))
         /\ AccessoryBattery(body) = Change(EmptyTail, "accessoryBattery", Some(At(body, 0)))
         /\ MacOnly(body) = Change(EmptyTail, "password", Some(Mac(Slice(body, 0, 6))))
         /\ KeyFob(body) =
              Change(Change(MacOnly(body), "keyId", Optional(body, 6)), "accessoryBattery", Optional(body, 7))
         /\ WirelessKeypad(body) = Change(MacOnly(body), "accessoryBattery", Optional(body, 6))
BY Zenon DEF Change, AppUidRecordId, RemoteControlKey, PasscodeOnly, ClearAllPasscodes, CredentialId,
             AccessoryBattery, MacOnly, KeyFob, WirelessKeypad

LEMMA PairDecoded ==
  ASSUME NEW body, NEW short, short <=> body = <<>> \/ 1 + body[1] > Len(body)
  PROVE  PwdPair(body) =
           IF short THEN EmptyTail
           ELSE Change(Change(EmptyTail, "password", Some(Text(Slice(body, 1, 1 + body[1])))),
                       "newPassword",
                       IF 1 + body[1] >= Len(body) THEN None
                       ELSE Some(Text(Slice(body, (1 + body[1]) + 1,
                                            (1 + body[1]) + 1 + At(body, 1 + body[1])))))
BY Zenon DEF PwdPair, Change

LEMMA AddedDecoded2 ==
  ASSUME NEW body, NEW short, short <=> body = <<>> \/ 1 + body[1] > Len(body)
  PROVE  AddedPasscode(body) =
           IF short THEN EmptyTail
           ELSE Change(Change(Change(EmptyTail, "password", Some(Text(Slice(body, 1, 1 + body[1])))),
                              "startDate", Date(5, From(body, 1 + body[1]))),
                       "endDate", Date(5, From(body, (1 + body[1]) + 5)))
BY Zenon DEF AddedPasscode, Change

LEMMA NamesAre ==
  /\ "uid" \in Names /\ "recordId" \in Names /\ "password" \in Names /\ "newPassword" \in Names
  /\ "deleteDate" \in Names /\ "keyId" \in Names /\ "accessoryBattery" \in Names
  /\ "startDate" \in Names /\ "endDate" \in Names
BY DEF Names

LEMMA SameKept ==
  ASSUME NEW how, NEW type, NEW tail, IsTail(tail)
  PROVE  TailKept(how, type, tail, tail)
BY DEF TailKept, Goes

(* A decoder that takes its fields together, or none.                       *)
LEMMA AllOrNothing ==
  ASSUME NEW how, NEW type, NEW t, NEW least, NEW made, Decodes(type, t, least, made), NEW tail, IsTail(tail),
         Len(t) < least => how = "cut", ~(Len(t) < least) => TailKept(how, type, tail, made)
  PROVE  TailKept(how, type, tail, RecordTail(type, t))
<1>1. CASE Len(t) < least
  <2>1. RecordTail(type, t) = EmptyTail
    BY <1>1, Zenon DEF Decodes
  <2> QED BY <1>1, <2>1, NothingRead
<1>2. CASE ~(Len(t) < least)
  <2>1. RecordTail(type, t) = made
    BY <1>2, Zenon DEF Decodes
  <2> QED BY <1>2, <2>1
<1> QED BY <1>1, <1>2

(* The tail of a record of the app. The lemmas called ...TailKept below say *)
(* the same of the tails of the other types.                                *)
LEMMA AppTailKept ==
  ASSUME NEW type \in AppTypes, NEW tail \in Tails(type), NEW w, w = TailBytes(type, tail),
         NEW how, NEW t, Gets(how, t, w)
  PROVE  TailKept(how, type, tail, RecordTail(type, t))
<1>1. Decodes(type, t, 8, AppUidRecordId(t)) /\ LayoutTwo(type, Field("uid", "four"), Field("recordId", "four"), 2)
  BY AppDecoded
<1>2. MadeTwo(tail, w, "uid", "four", "recordId", "four")
  <2>1. PICK least \in 1..2 : least = 2
    OBVIOUS
  <2>2. LayoutTwo(type, Field("uid", "four"), Field("recordId", "four"), least)
    BY <1>1, <2>1
  <2> QED BY <2>1, <2>2, NamesAre, AllWriteBytes, TailsTwo
<1>3. PICK v \in Values("four"), u \in Values("four") :
        tail = Put(Put(EmptyTail, "uid", v), "recordId", u) /\ w = Written("four", v) \o Written("four", u)
  BY <1>2, Zenon DEF MadeTwo
<1>4. PICK a : a = Written("four", v)
  OBVIOUS
<1>5. PICK b : b = Written("four", u)
  OBVIOUS
<1>6. PaddedIn(4, v, a) /\ PaddedIn(4, u, b)
  BY <1>4, <1>5, NumbersWritten
<1>7. PICK four \in Nat : four = 4
  OBVIOUS
<1>8. PICK eight \in Nat : eight = 8
  OBVIOUS
<1>9. /\ a \in Seq(Byte) /\ Len(a) = four /\ Number(a) = v
      /\ b \in Seq(Byte) /\ Len(b) = 4 /\ Number(b) = u
  BY <1>6, <1>7 DEF PaddedIn
<1>10. four = Len(a) /\ eight = four + Len(b) /\ a \in Seq(Byte) /\ b \in Seq(Byte)
  BY <1>7, <1>8, <1>9
<1>11. JoinedAs(w, a, b)
  BY <1>3, <1>4, <1>5 DEF JoinedAs
<1>12. TwoFields(w, a, b, four, eight)
  BY <1>10, <1>11, TwoFieldsAre
<1>13. PICK z \in Nat : z = 0
  OBVIOUS
<1>14. FieldAt(a, w, z, four) /\ FieldAt(b, w, four, eight)
  BY <1>12, <1>13 DEF TwoFields
<1>15. /\ Len(t) < eight => how = "cut"
       /\ four <= Len(t) => Slice(t, z, four) = a
       /\ eight <= Len(t) => Slice(t, four, eight) = b
  BY <1>10, <1>14, FieldGets
<1>16. IsTail(tail)
  BY <1>3, NamesAre, TwoPut
<1>17. ASSUME ~(Len(t) < 8) PROVE TailKept(how, type, tail, AppUidRecordId(t))
  <2>1. Len(t) \in Nat
    BY GetsIs
  <2>2. Slice(t, 0, 4) = a /\ Slice(t, 4, 8) = b
    BY <1>7, <1>8, <1>13, <1>15, <1>17, <2>1
  <2>3. AppUidRecordId(t) = Change(Change(EmptyTail, "uid", Some(v)), "recordId", Some(u))
    BY <1>9, <2>2, TailsDecoded
  <2>4. AppUidRecordId(t) = tail
    BY <1>3, <2>3, PutChanges
  <2> QED BY <1>16, <2>4, SameKept
<1>18. Len(t) < 8 => how = "cut"
  BY <1>8, <1>15
<1> QED BY <1>1, <1>16, <1>17, <1>18, AllOrNothing

LEMMA FirstGets ==
  ASSUME NEW how, NEW t, NEW w, Gets(how, t, w), NEW n \in Nat, n = Len(w)
  PROVE  /\ Len(t) < n => how = "cut"
         /\ n <= Len(t) => Slice(t, 0, n) = w
<1>1. PICK z \in Nat : z = 0
  OBVIOUS
<1>2. w \in Seq(Byte)
  BY GetsIs
<1>3. FieldAt(w, w, z, n)
  BY <1>1, <1>2 DEF FieldAt, Within
<1>4. /\ Len(t) < n => how = "cut"
      /\ n <= Len(t) => Slice(t, z, n) = w
  BY <1>2, <1>3, FieldGets
<1> QED BY <1>1, <1>4

LEMMA CardTailKept ==
  ASSUME NEW type, type \in CardTypes, NEW tail \in Tails(type), NEW w, w = TailBytes(type, tail),
         NEW how, NEW t, Gets(how, t, w)
  PROVE  TailKept(how, type, tail, RecordTail(type, t))
<1>1. Decodes(type, t, 1, CredentialId(t)) /\ LayoutOne(type, Field("password", "four"))
  BY CardDecoded
<1>2. MadeOne(tail, w, "password", "four")
  BY <1>1, NamesAre, AllWriteBytes, TailsOne
<1>3. PICK v \in Values("four") : tail = Put(EmptyTail, "password", v) /\ w = Written("four", v)
  BY <1>2, Zenon DEF MadeOne
<1>4. IsTail(tail) /\ tail = Change(EmptyTail, "password", Some(v))
  BY <1>3, NamesAre, OnePut, PutChanges
<1>5. /\ w \in Seq(Byte) /\ t \in Seq(Byte) /\ Len(t) \in Nat /\ Len(w) \in Nat
      /\ Len(t) < Len(w) => how = "cut"
      /\ Len(t) > Len(w) => how = "extended"
      /\ how = "whole" => t = w
  BY GetsIs
<1>6. PaddedIn(4, v, w)
  BY <1>3, NumbersWritten
<1>7. Len(w) = 4 /\ Number(w) = v
  BY <1>6 DEF PaddedIn
<1>8. Len(t) < 1 => how = "cut"
  BY <1>5, <1>7
<1>9. ASSUME ~(Len(t) < 1) PROVE TailKept(how, type, tail, CredentialId(t))
  <2>1. CredentialId(t) = Change(EmptyTail, "password", Some(Number(t)))
    BY TailsDecoded
  <2>2. Goes(how, type, "password", Some(v), Some(Number(t)))
    BY <1>5, <1>7 DEF Goes, Stretches
  <2> QED BY <1>4, <2>1, <2>2, NamesAre, EmptyKept, OneMore
<1> QED BY <1>1, <1>4, <1>8, <1>9, AllOrNothing

LEMMA SixByteTailKept ==
  ASSUME NEW type, type \in SixByteIdTypes, NEW tail \in Tails(type), NEW w, w = TailBytes(type, tail),
         NEW how, NEW t, Gets(how, t, w)
  PROVE  TailKept(how, type, tail, RecordTail(type, t))
<1>1. Decodes(type, t, 6, CredentialId(Slice(t, 0, 6))) /\ LayoutOne(type, Field("password", "six"))
  BY SixByteDecoded
<1>2. MadeOne(tail, w, "password", "six")
  BY <1>1, NamesAre, AllWriteBytes, TailsOne
<1>3. PICK v \in Values("six") : tail = Put(EmptyTail, "password", v) /\ w = Written("six", v)
  BY <1>2, Zenon DEF MadeOne
<1>4. IsTail(tail) /\ tail = Change(EmptyTail, "password", Some(v))
  BY <1>3, NamesAre, OnePut, PutChanges
<1>5. /\ w \in Seq(Byte) /\ t \in Seq(Byte) /\ Len(t) \in Nat /\ Len(w) \in Nat
      /\ Len(t) < Len(w) => how = "cut"
      /\ Len(t) > Len(w) => how = "extended"
      /\ how = "whole" => t = w
  BY GetsIs
<1>6. Len(w) = 6 /\ Number(w) = v
  BY <1>3, NumbersWritten DEF PaddedIn
<1>7. PICK n \in Nat : n = 6
  OBVIOUS
<1>7a. n = Len(w)
  BY <1>6, <1>7
<1>7b. /\ Len(t) < n => how = "cut"
       /\ n <= Len(t) => Slice(t, 0, n) = w
  BY <1>7a, FirstGets
<1>8. Len(t) < 6 => how = "cut"
  BY <1>7, <1>7b
<1>9. ASSUME ~(Len(t) < 6) PROVE TailKept(how, type, tail, CredentialId(Slice(t, 0, 6)))
  <2>1. Slice(t, 0, 6) = w
    BY <1>5, <1>7, <1>7b, <1>9
  <2>2. CredentialId(Slice(t, 0, 6)) = Change(EmptyTail, "password", Some(Number(w)))
    BY <2>1, TailsDecoded
  <2>3. CredentialId(Slice(t, 0, 6)) = tail
    BY <1>4, <1>6, <2>2
  <2> QED BY <1>4, <2>3, SameKept
<1> QED BY <1>1, <1>4, <1>8, <1>9, AllOrNothing

LEMMA ShortTailKept ==
  ASSUME NEW type, type \in ShortIdTypes, NEW tail \in Tails(type), NEW w, w = TailBytes(type, tail),
         NEW how, NEW t, Gets(how, t, w)
  PROVE  TailKept(how, type, tail, RecordTail(type, t))
<1>1. Decodes(type, t, 2, CredentialId(Slice(t, 0, 2))) /\ LayoutOne(type, Field("password", "two"))
  BY ShortDecoded
<1>2. MadeOne(tail, w, "password", "two")
  BY <1>1, NamesAre, AllWriteBytes, TailsOne
<1>3. PICK v \in Values("two") : tail = Put(EmptyTail, "password", v) /\ w = Written("two", v)
  BY <1>2, Zenon DEF MadeOne
<1>4. IsTail(tail) /\ tail = Change(EmptyTail, "password", Some(v))
  BY <1>3, NamesAre, OnePut, PutChanges
<1>5. /\ w \in Seq(Byte) /\ t \in Seq(Byte) /\ Len(t) \in Nat /\ Len(w) \in Nat
      /\ Len(t) < Len(w) => how = "cut"
      /\ Len(t) > Len(w) => how = "extended"
      /\ how = "whole" => t = w
  BY GetsIs
<1>6. Len(w) = 2 /\ Number(w) = v
  BY <1>3, NumbersWritten DEF PaddedIn
<1>7. PICK n \in Nat : n = 2
  OBVIOUS
<1>7a. n = Len(w)
  BY <1>6, <1>7
<1>7b. /\ Len(t) < n => how = "cut"
       /\ n <= Len(t) => Slice(t, 0, n) = w
  BY <1>7a, FirstGets
<1>8. Len(t) < 2 => how = "cut"
  BY <1>7, <1>7b
<1>9. ASSUME ~(Len(t) < 2) PROVE TailKept(how, type, tail, CredentialId(Slice(t, 0, 2)))
  <2>1. Slice(t, 0, 2) = w
    BY <1>5, <1>7, <1>7b, <1>9
  <2>2. CredentialId(Slice(t, 0, 2)) = Change(EmptyTail, "password", Some(Number(w)))
    BY <2>1, TailsDecoded
  <2>3. CredentialId(Slice(t, 0, 2)) = tail
    BY <1>4, <1>6, <2>2
  <2> QED BY <1>4, <2>3, SameKept
<1> QED BY <1>1, <1>4, <1>8, <1>9, AllOrNothing

LEMMA MacTailKept ==
  ASSUME NEW type, type \in MacTypes, NEW tail \in Tails(type), NEW w, w = TailBytes(type, tail),
         NEW how, NEW t, Gets(how, t, w)
  PROVE  TailKept(how, type, tail, RecordTail(type, t))
<1>1. Decodes(type, t, 6, MacOnly(t)) /\ LayoutOne(type, Field("password", "mac"))
  BY MacDecoded
<1>2. MadeOne(tail, w, "password", "mac")
  BY <1>1, NamesAre, AllWriteBytes, TailsOne
<1>3. PICK v \in Values("mac") : tail = Put(EmptyTail, "password", v) /\ w = Written("mac", v)
  BY <1>2, Zenon DEF MadeOne
<1>4. IsTail(tail) /\ tail = Change(EmptyTail, "password", Some(v))
  BY <1>3, NamesAre, OnePut, PutChanges
<1>5. /\ w \in Seq(Byte) /\ t \in Seq(Byte) /\ Len(t) \in Nat /\ Len(w) \in Nat
      /\ Len(t) < Len(w) => how = "cut"
      /\ Len(t) > Len(w) => how = "extended"
      /\ how = "whole" => t = w
  BY GetsIs
<1>6. Len(w) = 6 /\ Mac(w) = v
  BY <1>3, MacsWritten DEF MacWrit
<1>7. PICK n \in Nat : n = 6
  OBVIOUS
<1>7a. n = Len(w)
  BY <1>6, <1>7
<1>7b. /\ Len(t) < n => how = "cut"
       /\ n <= Len(t) => Slice(t, 0, n) = w
  BY <1>7a, FirstGets
<1>8. Len(t) < 6 => how = "cut"
  BY <1>7, <1>7b
<1>9. ASSUME ~(Len(t) < 6) PROVE TailKept(how, type, tail, MacOnly(t))
  <2>1. Slice(t, 0, 6) = w
    BY <1>5, <1>7, <1>7b, <1>9
  <2>2. MacOnly(t) = Change(EmptyTail, "password", Some(Mac(w)))
    BY <2>1, TailsDecoded
  <2>3. MacOnly(t) = tail
    BY <1>4, <1>6, <2>2
  <2> QED BY <1>4, <2>3, SameKept
<1> QED BY <1>1, <1>4, <1>8, <1>9, AllOrNothing

LEMMA BatteryTailKept ==
  ASSUME NEW type, type \in {30, 31}, NEW tail \in Tails(type), NEW w, w = TailBytes(type, tail),
         NEW how, NEW t, Gets(how, t, w)
  PROVE  TailKept(how, type, tail, RecordTail(type, t))
<1>1. Decodes(type, t, 1, AccessoryBattery(t)) /\ LayoutOne(type, Field("accessoryBattery", "one"))
  BY BatteryDecoded
<1>2. MadeOne(tail, w, "accessoryBattery", "one")
  BY <1>1, NamesAre, AllWriteBytes, TailsOne
<1>3. PICK v \in Values("one") : tail = Put(EmptyTail, "accessoryBattery", v) /\ w = Written("one", v)
  BY <1>2, Zenon DEF MadeOne
<1>4. IsTail(tail) /\ tail = Change(EmptyTail, "accessoryBattery", Some(v))
  BY <1>3, NamesAre, OnePut, PutChanges
<1>5. /\ w \in Seq(Byte) /\ t \in Seq(Byte) /\ Len(t) \in Nat /\ Len(w) \in Nat
      /\ Len(t) < Len(w) => how = "cut"
      /\ Len(t) > Len(w) => how = "extended"
      /\ how = "whole" => t = w
  BY GetsIs
<1>6. Len(w) = 1 /\ w[1] = v
  BY <1>3, OnesWritten DEF OneWritten
<1>8. Len(t) < 1 => how = "cut"
  BY <1>5, <1>6
<1>9. ASSUME ~(Len(t) < 1) PROVE TailKept(how, type, tail, AccessoryBattery(t))
  <2>1. PICK z \in Nat : z = 0 /\ v = w[z + 1] /\ z < Len(w) /\ z < Len(t)
    BY <1>5, <1>6, <1>9
  <2>2. At(t, z) = v
    BY <2>1, ByteGets
  <2>3. AccessoryBattery(t) = Change(EmptyTail, "accessoryBattery", Some(v))
    BY <2>1, <2>2, TailsDecoded
  <2>4. AccessoryBattery(t) = tail
    BY <1>4, <2>3
  <2> QED BY <1>4, <2>4, SameKept
<1> QED BY <1>1, <1>4, <1>8, <1>9, AllOrNothing

LEMMA PairField ==
  /\ EmptyTail.password = None
  /\ \A x, y : Change(Change(EmptyTail, "password", x), "newPassword", y).password = x
<1>1. EmptyTail.password = None
  BY EmptyIs, NamesAre
<1>2. ASSUME NEW x, NEW y PROVE Change(Change(EmptyTail, "password", x), "newPassword", y).password = x
  <2>1. PICK a : a = Change(EmptyTail, "password", x)
    OBVIOUS
  <2>2. IsTail(a) /\ a["password"] = x
    BY <2>1, EmptyIs, NamesAre, ChangeIs
  <2>3. PICK b : b = Change(a, "newPassword", y)
    OBVIOUS
  <2>4. b["password"] = IF "password" = "newPassword" THEN y ELSE a["password"]
    BY <2>2, <2>3, NamesAre, ChangeIs
  <2> QED BY <2>1, <2>2, <2>3, <2>4
<1> QED BY <1>1, <1>2

(* The passcode that a body starts with.                                     *)
LEMMA FirstPassword ==
  ASSUME NEW v, NEW u, TextWritten(v, u), NEW t \in Seq(Byte), Agrees(t, u)
  PROVE  /\ Len(t) < Len(u) => PwdPair(t) = EmptyTail /\ PwdPair(t).password = None
         /\ Len(u) <= Len(t) => PwdPair(t).password = Some(v)
<1>1. TextFound(t, v, u)
  BY TextFirst
<1>2. PICK short \in BOOLEAN : short <=> t = <<>> \/ 1 + t[1] > Len(t)
  OBVIOUS
<1>3. PwdPair(t) = IF short THEN EmptyTail
           ELSE Change(Change(EmptyTail, "password", Some(Text(Slice(t, 1, 1 + t[1])))),
                       "newPassword",
                       IF 1 + t[1] >= Len(t) THEN None
                       ELSE Some(Text(Slice(t, (1 + t[1]) + 1, (1 + t[1]) + 1 + At(t, 1 + t[1])))))
  BY <1>2, PairDecoded
<1>4. ASSUME Len(t) < Len(u) PROVE PwdPair(t) = EmptyTail /\ PwdPair(t).password = None
  <2>1. short
    BY <1>1, <1>2, <1>4 DEF TextFound
  <2>2. PwdPair(t) = EmptyTail
    BY <1>3, <2>1, Zenon
  <2> QED BY <2>2, PairField
<1>5. ASSUME Len(u) <= Len(t) PROVE PwdPair(t).password = Some(v)
  <2>1. ~short /\ Text(Slice(t, 1, 1 + t[1])) = v
    BY <1>1, <1>2, <1>5 DEF TextFound
  <2>2. PICK y : PwdPair(t) = Change(Change(EmptyTail, "password", Some(Text(Slice(t, 1, 1 + t[1])))), "newPassword", y)
    BY <1>3, <2>1, Zenon
  <2>3. PwdPair(t) = Change(Change(EmptyTail, "password", Some(v)), "newPassword", y)
    BY <2>1, <2>2
  <2> QED BY <2>3, PairField
<1> QED BY <1>4, <1>5

LEMMA OnlyTailKept ==
  ASSUME NEW type, type = 7, NEW tail \in Tails(type), NEW w, w = TailBytes(type, tail),
         NEW how, NEW t, Gets(how, t, w)
  PROVE  TailKept(how, type, tail, RecordTail(type, t))
<1>1. Decodes(type, t, 1, PasscodeOnly(t)) /\ LayoutOne(type, Field("password", "text"))
  BY OnlyDecoded
<1>2. MadeOne(tail, w, "password", "text")
  BY <1>1, NamesAre, AllWriteBytes, TailsOne
<1>3. PICK v \in Values("text") : tail = Put(EmptyTail, "password", v) /\ w = Written("text", v)
  BY <1>2, Zenon DEF MadeOne
<1>4. IsTail(tail) /\ tail = Change(EmptyTail, "password", Some(v))
  BY <1>3, NamesAre, OnePut, PutChanges
<1>5. /\ w \in Seq(Byte) /\ t \in Seq(Byte) /\ Len(t) \in Nat /\ Len(w) \in Nat
      /\ Len(t) < Len(w) => how = "cut"
      /\ Len(t) > Len(w) => how = "extended"
      /\ how = "whole" => t = w
  BY GetsIs
<1>6. TextWritten(v, w)
  BY <1>3, TextsWritten
<1>7. Len(w) >= 1
  BY <1>6 DEF TextWritten, Byte
<1>8. Len(t) < 1 => how = "cut"
  BY <1>5, <1>7
<1>9. ASSUME ~(Len(t) < 1) PROVE TailKept(how, type, tail, PasscodeOnly(t))
  <2>1. Agrees(t, w)
    BY GetsIs
  <2>2. /\ Len(t) < Len(w) => PwdPair(t).password = None
        /\ Len(w) <= Len(t) => PwdPair(t).password = Some(v)
    BY <1>5, <1>6, <2>1, FirstPassword
  <2>3. Goes(how, type, "password", Some(v), PwdPair(t).password)
    BY <1>5, <2>2 DEF Goes
  <2>4. PasscodeOnly(t) = Change(EmptyTail, "password", PwdPair(t).password)
    BY TailsDecoded
  <2> QED BY <1>4, <2>3, <2>4, NamesAre, EmptyKept, OneMore
<1> QED BY <1>1, <1>4, <1>8, <1>9, AllOrNothing

(* The number of a type of records.                                          *)
OfType(type, n) == type = n

LEMMA RemoteTailKept ==
  ASSUME NEW type, OfType(type, 37), NEW tail \in Tails(type), NEW w, w = TailBytes(type, tail),
         NEW how, NEW t, Gets(how, t, w)
  PROVE  TailKept(how, type, tail, RecordTail(type, t))
<1>1. /\ Decodes(type, t, 9, RemoteControlKey(t))
      /\ LayoutThree(type, Field("uid", "four"), Field("recordId", "four"), Field("keyId", "one"), 3)
  BY RemoteDecoded DEF OfType
<1>2. MadeThree(tail, w, "uid", "four", "recordId", "four", "keyId", "one")
  <2>1. PICK least \in 1..3 : least = 3
    OBVIOUS
  <2>2. LayoutThree(type, Field("uid", "four"), Field("recordId", "four"), Field("keyId", "one"), least)
    BY <1>1, <2>1
  <2>3. \/ MadeThree(tail, w, "uid", "four", "recordId", "four", "keyId", "one")
        \/ least # 3 /\ MadeTwo(tail, w, "uid", "four", "recordId", "four")
        \/ least = 1 /\ MadeOne(tail, w, "uid", "four")
    <3>1. /\ "uid" \in Names /\ "recordId" \in Names /\ "keyId" \in Names
          /\ "uid" # "recordId" /\ "uid" # "keyId" /\ "recordId" # "keyId"
          /\ WritesBytes("four") /\ WritesBytes("one")
      BY NamesAre, AllWriteBytes
    <3> QED BY <2>2, <3>1, TailsThree
  <2> QED BY <2>1, <2>3
<1>3. PICK v \in Values("four"), u \in Values("four"), x \in Values("one") :
        /\ tail = Put(Put(Put(EmptyTail, "uid", v), "recordId", u), "keyId", x)
        /\ w = (Written("four", v) \o Written("four", u)) \o Written("one", x)
  BY <1>2, Zenon DEF MadeThree
<1>4. PICK a : a = Written("four", v)
  OBVIOUS
<1>5. PICK b : b = Written("four", u)
  OBVIOUS
<1>6. PICK c : c = Written("one", x)
  OBVIOUS
<1>7. PaddedIn(4, v, a) /\ PaddedIn(4, u, b) /\ OneWritten(x, c)
  BY <1>4, <1>5, <1>6, NumbersWritten, OnesWritten
<1>8. PICK four \in Nat : four = 4
  OBVIOUS
<1>9. PICK eight \in Nat : eight = 8
  OBVIOUS
<1>10. PICK nine \in Nat : nine = 9
  OBVIOUS
<1>11. /\ a \in Seq(Byte) /\ Len(a) = four /\ Number(a) = v
       /\ b \in Seq(Byte) /\ Len(b) = 4 /\ Number(b) = u
       /\ c \in Seq(Byte) /\ Len(c) = 1 /\ c[1] = x
  BY <1>7, <1>8 DEF PaddedIn, OneWritten
<1>12. four = Len(a) /\ eight = four + Len(b) /\ nine = eight + Len(c) /\ a \in Seq(Byte) /\ b \in Seq(Byte) /\ c \in Seq(Byte)
  BY <1>8, <1>9, <1>10, <1>11
<1>13. ThreeJoined(w, a, b, c)
  BY <1>3, <1>4, <1>5, <1>6 DEF ThreeJoined
<1>14. ThreeFields(w, a, b, c, four, eight, nine)
  BY <1>12, <1>13, ThreeFieldsAre
<1>15. PICK z \in Nat : z = 0
  OBVIOUS
<1>16. FieldAt(a, w, z, four) /\ FieldAt(b, w, four, eight) /\ FieldAt(c, w, eight, nine) /\ Len(w) = nine
  BY <1>14, <1>15 DEF ThreeFields
<1>17. /\ Len(t) < nine => how = "cut"
       /\ four <= Len(t) => Slice(t, z, four) = a
       /\ eight <= Len(t) => Slice(t, four, eight) = b
  BY <1>12, <1>16, FieldGets
<1>18. w[eight + 1] = x
  BY <1>9, <1>11, <1>16 DEF FieldAt, Within
<1>19. IsTail(tail)
  BY <1>3, NamesAre, ThreePut
<1>20. ASSUME ~(Len(t) < 9) PROVE TailKept(how, type, tail, RemoteControlKey(t))
  <2>1. Len(t) \in Nat
    BY GetsIs
  <2>2. Slice(t, 0, 4) = a /\ Slice(t, 4, 8) = b
    BY <1>8, <1>9, <1>15, <1>17, <1>20, <2>1
  <2>3. eight < Len(w) /\ eight < Len(t)
    <3>1. Len(w) = nine
      BY <1>16
    <3> QED BY <1>9, <1>10, <1>20, <2>1, <3>1
  <2>4. At(t, eight) = x
    BY <1>18, <2>3, ByteGets
  <2>5. RemoteControlKey(t) = Change(Change(Change(EmptyTail, "uid", Some(v)), "recordId", Some(u)), "keyId", Some(x))
    BY <1>9, <1>11, <2>2, <2>4, TailsDecoded
  <2>6. RemoteControlKey(t) = tail
    BY <1>3, <2>5, PutChanges
  <2> QED BY <1>19, <2>6, SameKept
<1>21. Len(t) < 9 => how = "cut"
  BY <1>10, <1>17
<1> QED BY <1>1, <1>19, <1>20, <1>21, AllOrNothing

(* A field that is not there.                                                *)
LEMMA NoneChanges ==
  ASSUME NEW tail, IsTail(tail), NEW f \in Names, tail[f] = None
  PROVE  Change(tail, f, None) = tail
<1>1. tail = [x \in Names |-> tail[x]]
  BY DEF IsTail
<1>2. [tail EXCEPT ![f] = None] = [x \in Names |-> tail[x]]
  BY <1>1
<1> QED BY <1>1, <1>2 DEF Change

(* An address, and what may be behind it.                                    *)
AddressThen(tail, w, v, keyId, battery) ==
  /\ \E a \in Seq(Byte) : MacWrit(v, a) /\ FieldAt(a, w, 0, 6)
  /\ tail = Change(Change(Change(EmptyTail, "password", Some(v)), "keyId", keyId), "accessoryBattery", battery)
  /\ OptionalByte(w, 6, keyId) /\ OptionalByte(w, 7, battery)

LEMMA FobOne ==
  ASSUME NEW tail, NEW w, MadeOne(tail, w, "password", "mac")
  PROVE  \E v : AddressThen(tail, w, v, None, None)
<1>1. PICK v \in Values("mac") : tail = Put(EmptyTail, "password", v) /\ w = Written("mac", v)
  BY Zenon DEF MadeOne
<1>2. MacWrit(v, w)
  BY <1>1, MacsWritten
<1>3. w \in Seq(Byte) /\ Len(w) = 6
  BY <1>2 DEF MacWrit
<1>4. FieldAt(w, w, 0, 6)
  BY <1>3 DEF FieldAt, Within
<1>5. OptionalByte(w, 6, None) /\ OptionalByte(w, 7, None)
  BY <1>3 DEF OptionalByte
<1>6. /\ IsTail(tail) /\ tail["keyId"] = None /\ tail["accessoryBattery"] = None
  BY <1>1, NamesAre, OnePut
<1>7. Change(tail, "keyId", None) = tail /\ Change(tail, "accessoryBattery", None) = tail
  BY <1>6, NamesAre, NoneChanges
<1>8. tail = Change(EmptyTail, "password", Some(v))
  BY <1>1, PutChanges
<1>9. tail = Change(Change(Change(EmptyTail, "password", Some(v)), "keyId", None), "accessoryBattery", None)
  BY <1>7, <1>8
<1> QED BY <1>2, <1>3, <1>4, <1>5, <1>9, Zenon DEF AddressThen

LEMMA FobTwo ==
  ASSUME NEW tail, NEW w, MadeTwo(tail, w, "password", "mac", "keyId", "one")
  PROVE  \E v, x : AddressThen(tail, w, v, x, None)
<1>1. PICK v \in Values("mac"), x \in Values("one") :
        tail = Put(Put(EmptyTail, "password", v), "keyId", x) /\ w = Written("mac", v) \o Written("one", x)
  BY Zenon DEF MadeTwo
<1>2. PICK a : a = Written("mac", v)
  OBVIOUS
<1>3. PICK b : b = Written("one", x)
  OBVIOUS
<1>4. MacWrit(v, a) /\ OneWritten(x, b)
  BY <1>2, <1>3, MacsWritten, OnesWritten
<1>5. PICK six \in Nat : six = 6
  OBVIOUS
<1>6. PICK seven \in Nat : seven = 7
  OBVIOUS
<1>7. a \in Seq(Byte) /\ b \in Seq(Byte) /\ six = Len(a) /\ seven = six + Len(b) /\ b[1] = x /\ Len(b) = 1
  BY <1>4, <1>5, <1>6 DEF MacWrit, OneWritten
<1>8. JoinedAs(w, a, b)
  BY <1>1, <1>2, <1>3 DEF JoinedAs
<1>9. TwoFields(w, a, b, six, seven)
  BY <1>7, <1>8, TwoFieldsAre
<1>10. FieldAt(a, w, 0, 6) /\ FieldAt(b, w, 6, 7) /\ Len(w) = 7
  BY <1>5, <1>6, <1>9 DEF TwoFields
<1>11. w[7] = x
  BY <1>7, <1>10 DEF FieldAt, Within
<1>12. OptionalByte(w, 6, Some(x)) /\ OptionalByte(w, 7, None)
  BY <1>10, <1>11 DEF OptionalByte
<1>13. /\ IsTail(tail) /\ tail["accessoryBattery"] = None
  BY <1>1, NamesAre, TwoPut
<1>14. Change(tail, "accessoryBattery", None) = tail
  BY <1>13, NamesAre, NoneChanges
<1>15. tail = Change(Change(EmptyTail, "password", Some(v)), "keyId", Some(x))
  BY <1>1, PutChanges
<1>16. tail = Change(Change(Change(EmptyTail, "password", Some(v)), "keyId", Some(x)), "accessoryBattery", None)
  BY <1>14, <1>15
<1> QED BY <1>4, <1>7, <1>10, <1>12, <1>16, Zenon DEF AddressThen

LEMMA FobThree ==
  ASSUME NEW tail, NEW w, MadeThree(tail, w, "password", "mac", "keyId", "one", "accessoryBattery", "one")
  PROVE  \E v, x, y : AddressThen(tail, w, v, x, y)
<1>1. PICK v \in Values("mac"), x \in Values("one"), y \in Values("one") :
        /\ tail = Put(Put(Put(EmptyTail, "password", v), "keyId", x), "accessoryBattery", y)
        /\ w = (Written("mac", v) \o Written("one", x)) \o Written("one", y)
  BY Zenon DEF MadeThree
<1>2. PICK a : a = Written("mac", v)
  OBVIOUS
<1>3. PICK b : b = Written("one", x)
  OBVIOUS
<1>3a. PICK c : c = Written("one", y)
  OBVIOUS
<1>4. MacWrit(v, a) /\ OneWritten(x, b) /\ OneWritten(y, c)
  BY <1>2, <1>3, <1>3a, MacsWritten, OnesWritten
<1>5. PICK six \in Nat : six = 6
  OBVIOUS
<1>6. PICK seven \in Nat : seven = 7
  OBVIOUS
<1>6a. PICK eight \in Nat : eight = 8
  OBVIOUS
<1>7. /\ a \in Seq(Byte) /\ b \in Seq(Byte) /\ six = Len(a) /\ seven = six + Len(b) /\ b[1] = x /\ Len(b) = 1
      /\ c \in Seq(Byte) /\ eight = seven + Len(c) /\ c[1] = y /\ Len(c) = 1
  BY <1>4, <1>5, <1>6, <1>6a DEF MacWrit, OneWritten
<1>8. ThreeJoined(w, a, b, c)
  BY <1>1, <1>2, <1>3, <1>3a DEF ThreeJoined
<1>9. ThreeFields(w, a, b, c, six, seven, eight)
  BY <1>7, <1>8, ThreeFieldsAre
<1>10. FieldAt(a, w, 0, 6) /\ FieldAt(b, w, 6, 7) /\ FieldAt(c, w, 7, 8) /\ Len(w) = 8
  BY <1>5, <1>6, <1>6a, <1>9 DEF ThreeFields
<1>11. w[7] = x /\ w[8] = y
  BY <1>7, <1>10 DEF FieldAt, Within
<1>12. OptionalByte(w, 6, Some(x)) /\ OptionalByte(w, 7, Some(y))
  BY <1>10, <1>11 DEF OptionalByte
<1>16. tail = Change(Change(Change(EmptyTail, "password", Some(v)), "keyId", Some(x)), "accessoryBattery", Some(y))
  BY <1>1, PutChanges
<1> QED BY <1>4, <1>7, <1>10, <1>12, <1>16, Zenon DEF AddressThen

LEMMA AddressGets ==
  ASSUME NEW how, NEW t, NEW w, Gets(how, t, w), NEW v, NEW a \in Seq(Byte), MacWrit(v, a), FieldAt(a, w, 0, 6)
  PROVE  /\ Len(t) < 6 => how = "cut"
         /\ ~(Len(t) < 6) => MacOnly(t) = Change(EmptyTail, "password", Some(v))
<1>1. PICK z \in Nat : z = 0
  OBVIOUS
<1>2. PICK six \in Nat : six = 6
  OBVIOUS
<1>3. FieldAt(a, w, z, six)
  BY <1>1, <1>2
<1>4. /\ Len(t) < six => how = "cut"
      /\ six <= Len(t) => Slice(t, z, six) = a
  BY <1>3, FieldGets
<1>5. Len(t) \in Nat
  BY GetsIs
<1>6. ASSUME ~(Len(t) < 6) PROVE MacOnly(t) = Change(EmptyTail, "password", Some(v))
  <2>1. Slice(t, 0, 6) = a
    BY <1>1, <1>2, <1>4, <1>5, <1>6
  <2>2. Mac(a) = v
    BY DEF MacWrit
  <2> QED BY <2>1, <2>2, TailsDecoded
<1> QED BY <1>2, <1>4, <1>6

LEMMA FobTailKept ==
  ASSUME NEW type, type \in FobTypes, NEW tail \in Tails(type), NEW w, w = TailBytes(type, tail),
         NEW how, NEW t, Gets(how, t, w)
  PROVE  TailKept(how, type, tail, RecordTail(type, t))
<1>1. /\ Decodes(type, t, 6, KeyFob(t))
      /\ LayoutThree(type, Field("password", "mac"), Field("keyId", "one"), Field("accessoryBattery", "one"), 1)
  BY FobDecoded
<1>2. \/ MadeThree(tail, w, "password", "mac", "keyId", "one", "accessoryBattery", "one")
      \/ MadeTwo(tail, w, "password", "mac", "keyId", "one")
      \/ MadeOne(tail, w, "password", "mac")
  <2>1. PICK least \in 1..3 : least = 1
    OBVIOUS
  <2>2. LayoutThree(type, Field("password", "mac"), Field("keyId", "one"), Field("accessoryBattery", "one"), least)
    BY <1>1, <2>1
  <2> QED BY <2>1, <2>2, NamesAre, AllWriteBytes, TailsThree
<1>3. PICK v, x, y : AddressThen(tail, w, v, x, y)
  BY <1>2, FobOne, FobTwo, FobThree
<1>4. PICK a \in Seq(Byte) : MacWrit(v, a) /\ FieldAt(a, w, 0, 6)
  BY <1>3, Zenon DEF AddressThen
<1>5. /\ tail = Change(Change(Change(EmptyTail, "password", Some(v)), "keyId", x), "accessoryBattery", y)
      /\ OptionalByte(w, 6, x) /\ OptionalByte(w, 7, y)
  BY <1>3, Zenon DEF AddressThen
<1>6. /\ Len(t) < 6 => how = "cut"
      /\ ~(Len(t) < 6) => MacOnly(t) = Change(EmptyTail, "password", Some(v))
  BY <1>4, AddressGets
<1>7. /\ Goes(how, type, "keyId", x, Optional(t, 6))
      /\ Goes(how, type, "accessoryBattery", y, Optional(t, 7))
  <2>1. PICK six \in Nat : six = 6
    OBVIOUS
  <2>2. PICK seven \in Nat : seven = 7
    OBVIOUS
  <2>3. OptionalByte(w, six, x) /\ OptionalByte(w, seven, y)
    BY <1>5, <2>1, <2>2
  <2>4. Goes(how, type, "keyId", x, Optional(t, six)) /\ Goes(how, type, "accessoryBattery", y, Optional(t, seven))
    BY <2>3, OptionalGoes
  <2> QED BY <2>1, <2>2, <2>4
<1>8. PICK base : base = Change(EmptyTail, "password", Some(v))
  OBVIOUS
<1>9. IsTail(base)
  BY <1>8, EmptyIs, NamesAre, ChangeIs
<1>10. PICK wasKey : wasKey = Change(base, "keyId", x)
  OBVIOUS
<1>11. PICK isKey : isKey = Change(base, "keyId", Optional(t, 6))
  OBVIOUS
<1>12. TailKept(how, type, wasKey, isKey)
  BY <1>7, <1>9, <1>10, <1>11, NamesAre, SameKept, OneMore
<1>13. TailKept(how, type, tail, Change(isKey, "accessoryBattery", Optional(t, 7)))
  BY <1>5, <1>7, <1>8, <1>10, <1>12, NamesAre, OneMore
<1>14. IsTail(tail)
  BY <1>13 DEF TailKept
<1>15. ASSUME ~(Len(t) < 6) PROVE TailKept(how, type, tail, KeyFob(t))
  <2>1. KeyFob(t) = Change(isKey, "accessoryBattery", Optional(t, 7))
    BY <1>6, <1>8, <1>11, <1>15, TailsDecoded
  <2> QED BY <1>13, <2>1
<1> QED BY <1>1, <1>6, <1>14, <1>15, AllOrNothing

(* An address, and a battery that may be missing.                           *)
AddressBattery(tail, w, v, battery) ==
  /\ \E a \in Seq(Byte) : MacWrit(v, a) /\ FieldAt(a, w, 0, 6)
  /\ tail = Change(Change(EmptyTail, "password", Some(v)), "accessoryBattery", battery)
  /\ OptionalByte(w, 6, battery)

LEMMA KeypadOne ==
  ASSUME NEW tail, NEW w, MadeOne(tail, w, "password", "mac")
  PROVE  \E v : AddressBattery(tail, w, v, None)
<1>1. PICK v \in Values("mac") : tail = Put(EmptyTail, "password", v) /\ w = Written("mac", v)
  BY Zenon DEF MadeOne
<1>2. MacWrit(v, w)
  BY <1>1, MacsWritten
<1>3. w \in Seq(Byte) /\ Len(w) = 6
  BY <1>2 DEF MacWrit
<1>4. FieldAt(w, w, 0, 6)
  BY <1>3 DEF FieldAt, Within
<1>5. OptionalByte(w, 6, None)
  BY <1>3 DEF OptionalByte
<1>6. /\ IsTail(tail) /\ tail["accessoryBattery"] = None
  BY <1>1, NamesAre, OnePut
<1>7. Change(tail, "accessoryBattery", None) = tail
  BY <1>6, NamesAre, NoneChanges
<1>8. tail = Change(EmptyTail, "password", Some(v))
  BY <1>1, PutChanges
<1>9. tail = Change(Change(EmptyTail, "password", Some(v)), "accessoryBattery", None)
  BY <1>7, <1>8
<1> QED BY <1>2, <1>3, <1>4, <1>5, <1>9, Zenon DEF AddressBattery

LEMMA KeypadTwo ==
  ASSUME NEW tail, NEW w, MadeTwo(tail, w, "password", "mac", "accessoryBattery", "one")
  PROVE  \E v, x : AddressBattery(tail, w, v, x)
<1>1. PICK v \in Values("mac"), x \in Values("one") :
        tail = Put(Put(EmptyTail, "password", v), "accessoryBattery", x) /\ w = Written("mac", v) \o Written("one", x)
  BY Zenon DEF MadeTwo
<1>2. PICK a : a = Written("mac", v)
  OBVIOUS
<1>3. PICK b : b = Written("one", x)
  OBVIOUS
<1>4. MacWrit(v, a) /\ OneWritten(x, b)
  BY <1>2, <1>3, MacsWritten, OnesWritten
<1>5. PICK six \in Nat : six = 6
  OBVIOUS
<1>6. PICK seven \in Nat : seven = 7
  OBVIOUS
<1>7. a \in Seq(Byte) /\ b \in Seq(Byte) /\ six = Len(a) /\ seven = six + Len(b) /\ b[1] = x /\ Len(b) = 1
  BY <1>4, <1>5, <1>6 DEF MacWrit, OneWritten
<1>8. JoinedAs(w, a, b)
  BY <1>1, <1>2, <1>3 DEF JoinedAs
<1>9. TwoFields(w, a, b, six, seven)
  BY <1>7, <1>8, TwoFieldsAre
<1>10. FieldAt(a, w, 0, 6) /\ FieldAt(b, w, 6, 7) /\ Len(w) = 7
  BY <1>5, <1>6, <1>9 DEF TwoFields
<1>11. w[7] = x
  BY <1>7, <1>10 DEF FieldAt, Within
<1>12. OptionalByte(w, 6, Some(x))
  BY <1>10, <1>11 DEF OptionalByte
<1>15. tail = Change(Change(EmptyTail, "password", Some(v)), "accessoryBattery", Some(x))
  BY <1>1, PutChanges
<1> QED BY <1>4, <1>7, <1>10, <1>12, <1>15, Zenon DEF AddressBattery

LEMMA KeypadTailKept ==
  ASSUME NEW type, OfType(type, 56), NEW tail \in Tails(type), NEW w, w = TailBytes(type, tail),
         NEW how, NEW t, Gets(how, t, w)
  PROVE  TailKept(how, type, tail, RecordTail(type, t))
<1>1. /\ Decodes(type, t, 6, WirelessKeypad(t))
      /\ LayoutTwo(type, Field("password", "mac"), Field("accessoryBattery", "one"), 1)
  BY KeypadDecoded DEF OfType
<1>2. \/ MadeTwo(tail, w, "password", "mac", "accessoryBattery", "one")
      \/ MadeOne(tail, w, "password", "mac")
  <2>1. PICK least \in 1..2 : least = 1
    OBVIOUS
  <2>2. LayoutTwo(type, Field("password", "mac"), Field("accessoryBattery", "one"), least)
    BY <1>1, <2>1
  <2>3. /\ "password" \in Names /\ "accessoryBattery" \in Names /\ "password" # "accessoryBattery"
        /\ WritesBytes("mac") /\ WritesBytes("one")
    BY NamesAre, AllWriteBytes
  <2> QED BY <2>2, <2>3, TailsTwo
<1>3. PICK v, x : AddressBattery(tail, w, v, x)
  BY <1>2, KeypadOne, KeypadTwo
<1>4. PICK a \in Seq(Byte) : MacWrit(v, a) /\ FieldAt(a, w, 0, 6)
  BY <1>3, Zenon DEF AddressBattery
<1>5. /\ tail = Change(Change(EmptyTail, "password", Some(v)), "accessoryBattery", x)
      /\ OptionalByte(w, 6, x)
  BY <1>3, Zenon DEF AddressBattery
<1>6. /\ Len(t) < 6 => how = "cut"
      /\ ~(Len(t) < 6) => MacOnly(t) = Change(EmptyTail, "password", Some(v))
  BY <1>4, AddressGets
<1>7. Goes(how, type, "accessoryBattery", x, Optional(t, 6))
  <2>1. PICK six \in Nat : six = 6
    OBVIOUS
  <2>3. OptionalByte(w, six, x)
    BY <1>5, <2>1
  <2>4. Goes(how, type, "accessoryBattery", x, Optional(t, six))
    BY <2>3, OptionalGoes
  <2> QED BY <2>1, <2>4
<1>8. PICK base : base = Change(EmptyTail, "password", Some(v))
  OBVIOUS
<1>9. IsTail(base)
  BY <1>8, EmptyIs, NamesAre, ChangeIs
<1>13. TailKept(how, type, tail, Change(base, "accessoryBattery", Optional(t, 6)))
  BY <1>5, <1>7, <1>8, <1>9, NamesAre, SameKept, OneMore
<1>14. IsTail(tail)
  BY <1>13 DEF TailKept
<1>15. ASSUME ~(Len(t) < 6) PROVE TailKept(how, type, tail, WirelessKeypad(t))
  <2>1. WirelessKeypad(t) = Change(base, "accessoryBattery", Optional(t, 6))
    BY <1>6, <1>8, <1>15, TailsDecoded
  <2> QED BY <1>13, <2>1
<1> QED BY <1>1, <1>6, <1>14, <1>15, AllOrNothing

----------------------------------------------------------------------------

(* A text at the front of a body.                                            *)
LEMMA FrontAgrees ==
  ASSUME NEW t \in Seq(Byte), NEW w \in Seq(Byte), Agrees(t, w), NEW u \in Seq(Byte), Within(u, w, 0)
  PROVE  Agrees(t, u)
<1> SUFFICES ASSUME NEW i \in 1..Len(t), i <= Len(u) PROVE t[i] = u[i]
  BY DEF Agrees
<1>1. i \in 1..Len(u) /\ 0 + i = i /\ Len(u) <= Len(w)
  BY DEF Within
<1>2. w[i] = u[i]
  BY <1>1 DEF Within
<1>3. t[i] = w[i]
  BY <1>1 DEF Agrees
<1> QED BY <1>2, <1>3

(* A passcode, and perhaps a new one.                                        *)
TextThen(tail, w, v, u, next) ==
  /\ TextWritten(v, u) /\ FieldAt(u, w, 0, Len(u))
  /\ tail = Change(Change(EmptyTail, "password", Some(v)), "newPassword", next)
  /\ \/ next = None /\ w = u
     \/ \E y, b : TextWritten(y, b) /\ next = Some(y) /\ FieldAt(b, w, Len(u), Len(w))

LEMMA PairOne ==
  ASSUME NEW tail, NEW w, MadeOne(tail, w, "password", "text")
  PROVE  \E v : TextThen(tail, w, v, w, None)
<1>1. PICK v \in Values("text") : tail = Put(EmptyTail, "password", v) /\ w = Written("text", v)
  BY Zenon DEF MadeOne
<1>2. TextWritten(v, w)
  BY <1>1, TextsWritten
<1>3. w \in Seq(Byte)
  BY <1>2 DEF TextWritten
<1>4. FieldAt(w, w, 0, Len(w))
  BY <1>3 DEF FieldAt, Within
<1>6. /\ IsTail(tail) /\ tail["newPassword"] = None
  BY <1>1, NamesAre, OnePut
<1>7. Change(tail, "newPassword", None) = tail
  BY <1>6, NamesAre, NoneChanges
<1>8. tail = Change(EmptyTail, "password", Some(v))
  BY <1>1, PutChanges
<1>9. tail = Change(Change(EmptyTail, "password", Some(v)), "newPassword", None)
  BY <1>7, <1>8
<1> QED BY <1>2, <1>4, <1>9, Zenon DEF TextThen

LEMMA PairTwo ==
  ASSUME NEW tail, NEW w, MadeTwo(tail, w, "password", "text", "newPassword", "text")
  PROVE  \E v, u, y : TextThen(tail, w, v, u, y)
<1>1. PICK v \in Values("text"), y \in Values("text") :
        tail = Put(Put(EmptyTail, "password", v), "newPassword", y) /\ w = Written("text", v) \o Written("text", y)
  BY Zenon DEF MadeTwo
<1>2. PICK u : u = Written("text", v)
  OBVIOUS
<1>3. PICK b : b = Written("text", y)
  OBVIOUS
<1>4. TextWritten(v, u) /\ TextWritten(y, b)
  BY <1>2, <1>3, TextsWritten
<1>5. u \in Seq(Byte) /\ b \in Seq(Byte)
  BY <1>4 DEF TextWritten
<1>6. PICK p \in Nat : p = Len(u)
  BY <1>5
<1>7. PICK q \in Nat : q = p + Len(b)
  BY <1>5
<1>8. JoinedAs(w, u, b)
  BY <1>1, <1>2, <1>3 DEF JoinedAs
<1>9. TwoFields(w, u, b, p, q)
  BY <1>5, <1>6, <1>7, <1>8, TwoFieldsAre
<1>10. FieldAt(u, w, 0, Len(u)) /\ FieldAt(b, w, Len(u), Len(w))
  BY <1>6, <1>9 DEF TwoFields
<1>11. tail = Change(Change(EmptyTail, "password", Some(v)), "newPassword", Some(y))
  BY <1>1, PutChanges
<1>12. TextThen(tail, w, v, u, Some(y))
  BY <1>4, <1>10, <1>11, Zenon DEF TextThen
<1> QED BY <1>12

(* The new passcode of a pair that is read as it was written.                *)
LEMMA NextPassword ==
  ASSUME NEW t \in Seq(Byte), NEW y, NEW b, TextWritten(y, b), NEW c \in Nat, FieldAt(b, t, c, Len(t))
  PROVE  Text(Slice(t, c + 1, c + 1 + At(t, c))) = y /\ ~(c >= Len(t))
<1>1. /\ y \in Seq(Byte) /\ Len(y) \in Byte /\ Text(y) = y
      /\ b \in Seq(Byte) /\ Len(b) = Len(y) + 1 /\ b[1] = Len(y) /\ Within(y, b, 1)
  BY Zenon DEF TextWritten
<1>2. Len(y) \in Nat /\ Len(t) \in Nat /\ Len(t) = c + Len(b) /\ Within(b, t, c)
  BY <1>1 DEF FieldAt, Byte
<1>3. At(t, c) = Len(y)
  <2>1. 1 \in 1..Len(b)
    BY <1>1, <1>2
  <2> QED BY <1>1, <1>2, <2>1 DEF At, Within
<1>4. PICK one \in Nat : one = 1
  OBVIOUS
<1>5. PICK s \in Nat : s = c + one
  BY <1>4
<1>6. Within(y, b, one)
  BY <1>1, <1>4
<1>7. Within(y, t, s)
  BY <1>1, <1>2, <1>5, <1>6, PartOfPart
<1>8. PICK q \in Nat : q = s + Len(y)
  BY <1>2
<1>9. Slice(t, s, q) = y
  BY <1>1, <1>7, <1>8, SliceIsBody
<1> QED BY <1>1, <1>2, <1>3, <1>4, <1>5, <1>8, <1>9

LEMMA PairsTailKept ==
  ASSUME NEW type, type \in PasscodeTypes, NEW tail \in Tails(type), NEW w, w = TailBytes(type, tail),
         NEW how, NEW t, Gets(how, t, w)
  PROVE  TailKept(how, type, tail, RecordTail(type, t))
<1>1. /\ Decodes(type, t, 1, PwdPair(t))
      /\ LayoutTwo(type, Field("password", "text"), Field("newPassword", "text"), 1)
  BY PairsDecoded
<1>2. \/ MadeTwo(tail, w, "password", "text", "newPassword", "text")
      \/ MadeOne(tail, w, "password", "text")
  <2>1. PICK least \in 1..2 : least = 1
    OBVIOUS
  <2>2. LayoutTwo(type, Field("password", "text"), Field("newPassword", "text"), least)
    BY <1>1, <2>1
  <2>3. /\ "password" \in Names /\ "newPassword" \in Names /\ "password" # "newPassword"
        /\ WritesBytes("text")
    BY NamesAre, AllWriteBytes
  <2> QED BY <2>2, <2>3, TailsTwo
<1>3. PICK v, u, next : TextThen(tail, w, v, u, next)
  BY <1>2, PairOne, PairTwo
<1>4. /\ TextWritten(v, u) /\ FieldAt(u, w, 0, Len(u))
      /\ tail = Change(Change(EmptyTail, "password", Some(v)), "newPassword", next)
      /\ \/ next = None /\ w = u
         \/ \E y, b : TextWritten(y, b) /\ next = Some(y) /\ FieldAt(b, w, Len(u), Len(w))
  BY <1>3, Zenon DEF TextThen
<1>5. /\ w \in Seq(Byte) /\ t \in Seq(Byte) /\ Len(t) \in Nat /\ Len(w) \in Nat /\ Agrees(t, w)
      /\ Len(t) < Len(w) => how = "cut"
      /\ Len(t) > Len(w) => how = "extended"
      /\ how = "whole" => t = w
  BY GetsIs
<1>6. u \in Seq(Byte) /\ Len(u) \in Nat /\ Len(u) >= 1 /\ Len(u) <= Len(w) /\ Within(u, w, 0)
  BY <1>4, <1>5 DEF TextWritten, FieldAt, Within, Byte
<1>7. Agrees(t, u)
  BY <1>5, <1>6, FrontAgrees
<1>8. TextFound(t, v, u)
  BY <1>4, <1>5, <1>7, TextFirst
<1>9. IsTail(tail)
  <2>1. PICK base : base = Change(EmptyTail, "password", Some(v))
    OBVIOUS
  <2>2. IsTail(base)
    BY <2>1, EmptyIs, NamesAre, ChangeIs
  <2> QED BY <1>4, <2>1, <2>2, NamesAre, ChangeIs
<1>10. PICK short \in BOOLEAN : short <=> t = <<>> \/ 1 + t[1] > Len(t)
  OBVIOUS
<1>11. PICK new : new = IF 1 + t[1] >= Len(t) THEN None
                        ELSE Some(Text(Slice(t, (1 + t[1]) + 1, (1 + t[1]) + 1 + At(t, 1 + t[1]))))
  OBVIOUS
<1>12. PwdPair(t) = IF short THEN EmptyTail
           ELSE Change(Change(EmptyTail, "password", Some(Text(Slice(t, 1, 1 + t[1])))), "newPassword", new)
  BY <1>10, <1>11, PairDecoded
<1>13. CASE Len(t) < Len(u)
  <2>1. short
    BY <1>8, <1>10, <1>13 DEF TextFound
  <2>2. PwdPair(t) = EmptyTail
    BY <1>12, <2>1, Zenon
  <2>3. RecordTail(type, t) = EmptyTail
    BY <1>1, <2>2, Zenon DEF Decodes
  <2>4. how = "cut"
    BY <1>5, <1>6, <1>13
  <2> QED BY <1>9, <2>3, <2>4, NothingRead
<1>14. CASE Len(u) <= Len(t)
  <2>1. ~short /\ Text(Slice(t, 1, 1 + t[1])) = v /\ 1 + t[1] = Len(u)
    BY <1>8, <1>10, <1>14 DEF TextFound
  <2>2. PwdPair(t) = Change(Change(EmptyTail, "password", Some(v)), "newPassword", new)
    BY <1>12, <2>1
  <2>3. RecordTail(type, t) = PwdPair(t)
    <3>1. ~(Len(t) < 1)
      BY <1>5, <1>6, <1>14
    <3> QED BY <1>1, <3>1, Zenon DEF Decodes
  <2>4. Goes(how, type, "newPassword", next, new)
    <3>1. CASE how # "whole"
      BY <3>1 DEF Goes, Stretches
    <3>2. CASE how = "whole"
      <4>1. t = w
        BY <1>5, <3>2
      <4>2. ASSUME next = None, w = u PROVE new = next
        BY <1>5, <1>11, <2>1, <4>1, <4>2
      <4>3. ASSUME NEW y, NEW b, TextWritten(y, b), next = Some(y), FieldAt(b, w, Len(u), Len(w)) PROVE new = next
        <5>1. PICK c \in Nat : c = Len(u)
          BY <1>6
        <5>2. FieldAt(b, t, c, Len(t))
          BY <4>1, <4>3, <5>1
        <5>3. Text(Slice(t, c + 1, c + 1 + At(t, c))) = y /\ ~(c >= Len(t))
          BY <1>5, <4>3, <5>2, NextPassword
        <5>4. new = Some(y)
          BY <1>11, <2>1, <5>1, <5>3
        <5> QED BY <4>3, <5>4
      <4>4. new = next
        BY <1>4, <4>2, <4>3
      <4> QED BY <4>4 DEF Goes
    <3> QED BY <3>1, <3>2
  <2>5. PICK base : base = Change(EmptyTail, "password", Some(v))
    OBVIOUS
  <2>6. IsTail(base)
    BY <2>5, EmptyIs, NamesAre, ChangeIs
  <2>7. TailKept(how, type, tail, Change(base, "newPassword", new))
    BY <1>4, <2>4, <2>5, <2>6, NamesAre, SameKept, OneMore
  <2> QED BY <2>2, <2>3, <2>5, <2>7
<1> QED BY <1>5, <1>6, <1>13, <1>14

(* A date, and perhaps a passcode.                                           *)
DateThen(tail, w, d, password) ==
  /\ DateWritten(d, d) /\ FieldAt(d, w, 0, 5)
  /\ tail = Change(Change(EmptyTail, "deleteDate", Some(d)), "password", password)
  /\ \/ password = None /\ Len(w) = 5
     \/ \E v, u : TextWritten(v, u) /\ password = Some(v) /\ FieldAt(u, w, 5, Len(w))

LEMMA ClearOne ==
  ASSUME NEW tail, NEW w, MadeOne(tail, w, "deleteDate", "date")
  PROVE  \E d : DateThen(tail, w, d, None)
<1>1. PICK d \in Values("date") : tail = Put(EmptyTail, "deleteDate", d) /\ w = Written("date", d)
  BY Zenon DEF MadeOne
<1>2. DateWritten(d, w)
  BY <1>1, DatesWritten
<1>3. w = d /\ w \in Seq(Byte) /\ Len(w) = 5 /\ DateWritten(d, d)
  BY <1>2 DEF DateWritten
<1>4. FieldAt(d, w, 0, 5)
  BY <1>3 DEF FieldAt, Within
<1>6. /\ IsTail(tail) /\ tail["password"] = None
  BY <1>1, NamesAre, OnePut
<1>7. Change(tail, "password", None) = tail
  BY <1>6, NamesAre, NoneChanges
<1>8. tail = Change(EmptyTail, "deleteDate", Some(d))
  BY <1>1, PutChanges
<1>9. tail = Change(Change(EmptyTail, "deleteDate", Some(d)), "password", None)
  BY <1>7, <1>8
<1> QED BY <1>3, <1>4, <1>9, Zenon DEF DateThen

LEMMA ClearTwo ==
  ASSUME NEW tail, NEW w, MadeTwo(tail, w, "deleteDate", "date", "password", "text")
  PROVE  \E d, x : DateThen(tail, w, d, x)
<1>1. PICK d \in Values("date"), v \in Values("text") :
        tail = Put(Put(EmptyTail, "deleteDate", d), "password", v) /\ w = Written("date", d) \o Written("text", v)
  BY Zenon DEF MadeTwo
<1>2. PICK a : a = Written("date", d)
  OBVIOUS
<1>3. PICK u : u = Written("text", v)
  OBVIOUS
<1>4. DateWritten(d, a) /\ TextWritten(v, u)
  BY <1>2, <1>3, DatesWritten, TextsWritten
<1>5. a = d /\ DateWritten(d, d) /\ d \in Seq(Byte) /\ Len(d) = 5 /\ u \in Seq(Byte)
  BY <1>4 DEF TextWritten, DateWritten
<1>6. PICK p \in Nat : p = 5
  OBVIOUS
<1>7. PICK q \in Nat : q = p + Len(u)
  BY <1>5
<1>7a. p = Len(d)
  BY <1>5, <1>6
<1>8. JoinedAs(w, d, u)
  BY <1>1, <1>2, <1>3, <1>5 DEF JoinedAs
<1>9. TwoFields(w, d, u, p, q)
  <2>1. d \in Seq(Byte) /\ u \in Seq(Byte)
    BY <1>5
  <2> QED BY <1>7, <1>7a, <1>8, <2>1, TwoFieldsAre
<1>10. FieldAt(d, w, 0, 5) /\ FieldAt(u, w, 5, Len(w))
  BY <1>6, <1>9 DEF TwoFields
<1>11. tail = Change(Change(EmptyTail, "deleteDate", Some(d)), "password", Some(v))
  BY <1>1, PutChanges
<1>12. DateThen(tail, w, d, Some(v))
  BY <1>4, <1>5, <1>10, <1>11, Zenon DEF DateThen
<1> QED BY <1>12

LEMMA RestAgrees ==
  ASSUME NEW t \in Seq(Byte), NEW w \in Seq(Byte), Agrees(t, w), NEW p \in Nat, p <= Len(t), NEW u \in Seq(Byte),
         Within(u, w, p), NEW f, f = From(t, p)
  PROVE  f \in Seq(Byte) /\ Len(f) = Len(t) - p /\ Agrees(f, u)
<1>1. PICK n \in Nat : n = Len(t) - p
  OBVIOUS
<1>2. f \in Seq(Byte) /\ Len(f) = n /\ Within(f, t, p)
  BY <1>1, FromIs
<1>3. ASSUME NEW i \in 1..Len(f), i <= Len(u) PROVE f[i] = u[i]
  <2>1. PICK k \in Nat : k = p + i
    BY <1>2, <1>3
  <2>2. k \in 1..Len(t) /\ k <= Len(w) /\ i \in 1..Len(u)
    BY <1>1, <1>2, <1>3, <2>1 DEF Within
  <2>3. t[k] = f[i] /\ w[k] = u[i]
    BY <1>3, <2>1, <2>2, <1>2 DEF Within
  <2>4. t[k] = w[k]
    BY <2>2, Zenon DEF Agrees
  <2> QED BY <2>3, <2>4
<1>4. Agrees(f, u)
  BY <1>3 DEF Agrees
<1> QED BY <1>1, <1>2, <1>4

LEMMA NoPassword ==
  ASSUME NEW f, f = <<>>
  PROVE  PwdPair(f).password = None
<1>1. PwdPair(f) = EmptyTail
  BY DEF PwdPair
<1> QED BY <1>1, PairField

LEMMA ClearTailKept ==
  ASSUME NEW type, OfType(type, 8), NEW tail \in Tails(type), NEW w, w = TailBytes(type, tail),
         NEW how, NEW t, Gets(how, t, w)
  PROVE  TailKept(how, type, tail, RecordTail(type, t))
<1>1. /\ Decodes(type, t, 5, ClearAllPasscodes(t))
      /\ LayoutTwo(type, Field("deleteDate", "date"), Field("password", "text"), 1)
  BY ClearDecoded DEF OfType
<1>2. \/ MadeTwo(tail, w, "deleteDate", "date", "password", "text")
      \/ MadeOne(tail, w, "deleteDate", "date")
  <2>1. PICK least \in 1..2 : least = 1
    OBVIOUS
  <2>2. LayoutTwo(type, Field("deleteDate", "date"), Field("password", "text"), least)
    BY <1>1, <2>1
  <2>3. /\ "password" \in Names /\ "deleteDate" \in Names /\ "deleteDate" # "password"
        /\ WritesBytes("text") /\ WritesBytes("date")
    BY NamesAre, AllWriteBytes
  <2> QED BY <2>2, <2>3, TailsTwo
<1>3. PICK d, password : DateThen(tail, w, d, password)
  BY <1>2, ClearOne, ClearTwo
<1>4. /\ DateWritten(d, d) /\ FieldAt(d, w, 0, 5)
      /\ tail = Change(Change(EmptyTail, "deleteDate", Some(d)), "password", password)
      /\ \/ password = None /\ Len(w) = 5
         \/ \E v, u : TextWritten(v, u) /\ password = Some(v) /\ FieldAt(u, w, 5, Len(w))
  BY <1>3, Zenon DEF DateThen
<1>5. /\ w \in Seq(Byte) /\ t \in Seq(Byte) /\ Len(t) \in Nat /\ Len(w) \in Nat /\ Agrees(t, w)
      /\ Len(t) < Len(w) => how = "cut"
      /\ Len(t) > Len(w) => how = "extended"
  BY GetsIs
<1>6. PICK z \in Nat : z = 0
  OBVIOUS
<1>7. PICK five \in Nat : five = 5
  OBVIOUS
<1>8. FieldAt(d, w, z, five) /\ d \in Seq(Byte) /\ IsDate(d)
  BY <1>4, <1>6, <1>7 DEF DateWritten
<1>9. /\ Len(t) < five => how = "cut"
      /\ five <= Len(t) => Slice(t, z, five) = d
  BY <1>8, FieldGets
<1>10. PICK base : base = Change(EmptyTail, "deleteDate", Some(d))
  OBVIOUS
<1>11. IsTail(base)
  BY <1>10, EmptyIs, NamesAre, ChangeIs
<1>12. IsTail(tail)
  BY <1>4, <1>10, <1>11, NamesAre, ChangeIs
<1>13. ASSUME ~(Len(t) < 5) PROVE TailKept(how, type, tail, ClearAllPasscodes(t))
  <2>1. Date(5, t) = Some(d)
    BY <1>5, <1>6, <1>7, <1>8, <1>9, <1>13 DEF Date
  <2>2. PICK f : f = From(t, five)
    OBVIOUS
  <2>3. five <= Len(t)
    BY <1>5, <1>7, <1>13
  <2>4. Goes(how, type, "password", password, PwdPair(f).password)
    <3>1. ASSUME password = None, Len(w) = 5 PROVE Goes(how, type, "password", password, PwdPair(f).password)
      <4>1. CASE Len(t) > Len(w)
        BY <1>5, <3>1, <4>1 DEF Goes
      <4>2. CASE Len(t) <= Len(w)
        <5>1. Len(t) = five
          BY <1>5, <1>7, <2>3, <3>1, <4>2
        <5>2. f = <<>>
          BY <1>5, <2>2, <5>1 DEF From
        <5>3. PwdPair(f).password = None
          BY <5>2, NoPassword
        <5> QED BY <3>1, <5>3 DEF Goes
      <4> QED BY <1>5, <4>1, <4>2
    <3>2. ASSUME NEW v, NEW u, TextWritten(v, u), password = Some(v), FieldAt(u, w, 5, Len(w))
          PROVE  Goes(how, type, "password", password, PwdPair(f).password)
      <4>1. u \in Seq(Byte) /\ Len(u) \in Nat
        BY <3>2 DEF TextWritten
      <4>2. Within(u, w, five) /\ Len(w) = five + Len(u)
        BY <1>7, <3>2 DEF FieldAt
      <4>3. f \in Seq(Byte) /\ Len(f) = Len(t) - five /\ Agrees(f, u)
        BY <1>5, <2>2, <2>3, <4>1, <4>2, RestAgrees
      <4>4. /\ Len(f) < Len(u) => PwdPair(f).password = None
            /\ Len(u) <= Len(f) => PwdPair(f).password = Some(v)
        BY <3>2, <4>3, FirstPassword
      <4>5. CASE Len(f) < Len(u)
        <5>1. Len(t) < Len(w)
          BY <1>5, <4>1, <4>2, <4>3, <4>5
        <5> QED BY <1>5, <4>4, <4>5, <5>1 DEF Goes
      <4>6. CASE Len(u) <= Len(f)
        BY <3>2, <4>4, <4>6 DEF Goes
      <4> QED BY <1>5, <4>1, <4>3, <4>5, <4>6
    <3> QED BY <1>4, <3>1, <3>2
  <2>5. ClearAllPasscodes(t) = Change(base, "password", PwdPair(f).password)
    BY <1>7, <1>10, <2>1, <2>2, TailsDecoded
  <2>6. TailKept(how, type, tail, Change(base, "password", PwdPair(f).password))
    BY <1>4, <1>10, <1>11, <2>4, NamesAre, SameKept, OneMore
  <2> QED BY <2>5, <2>6
<1>14. Len(t) < 5 => how = "cut"
  BY <1>7, <1>9
<1> QED BY <1>1, <1>12, <1>13, <1>14, AllOrNothing

----------------------------------------------------------------------------

(* A passcode, and perhaps the window it is valid in.                        *)
TextDates(tail, w, v, u, start, end) ==
  /\ TextWritten(v, u) /\ FieldAt(u, w, 0, Len(u))
  /\ tail = Change(Change(Change(EmptyTail, "password", Some(v)), "startDate", start), "endDate", end)
  /\ OptionalDate(w, Len(u), start) /\ OptionalDate(w, Len(u) + 5, end)

LEMMA AddedOne ==
  ASSUME NEW tail, NEW w, MadeOne(tail, w, "password", "text")
  PROVE  \E v : TextDates(tail, w, v, w, None, None)
<1>1. PICK v \in Values("text") : tail = Put(EmptyTail, "password", v) /\ w = Written("text", v)
  BY Zenon DEF MadeOne
<1>2. TextWritten(v, w)
  BY <1>1, TextsWritten
<1>3. w \in Seq(Byte)
  BY <1>2 DEF TextWritten
<1>4. FieldAt(w, w, 0, Len(w))
  BY <1>3 DEF FieldAt, Within
<1>5. OptionalDate(w, Len(w), None) /\ OptionalDate(w, Len(w) + 5, None)
  BY <1>3 DEF OptionalDate
<1>6. /\ IsTail(tail) /\ tail["startDate"] = None /\ tail["endDate"] = None
  BY <1>1, NamesAre, OnePut
<1>7. Change(tail, "startDate", None) = tail /\ Change(tail, "endDate", None) = tail
  BY <1>6, NamesAre, NoneChanges
<1>8. tail = Change(EmptyTail, "password", Some(v))
  BY <1>1, PutChanges
<1>9. tail = Change(Change(Change(EmptyTail, "password", Some(v)), "startDate", None), "endDate", None)
  BY <1>7, <1>8
<1> QED BY <1>2, <1>4, <1>5, <1>9, Zenon DEF TextDates

LEMMA AddedTwo ==
  ASSUME NEW tail, NEW w, MadeTwo(tail, w, "password", "text", "startDate", "date")
  PROVE  \E v, u, x : TextDates(tail, w, v, u, x, None)
<1>1. PICK v \in Values("text"), d \in Values("date") :
        tail = Put(Put(EmptyTail, "password", v), "startDate", d) /\ w = Written("text", v) \o Written("date", d)
  BY Zenon DEF MadeTwo
<1>2. PICK u : u = Written("text", v)
  OBVIOUS
<1>3. PICK b : b = Written("date", d)
  OBVIOUS
<1>4. TextWritten(v, u) /\ DateWritten(d, b)
  BY <1>2, <1>3, TextsWritten, DatesWritten
<1>5. b = d /\ DateWritten(d, d) /\ d \in Seq(Byte) /\ Len(d) = 5 /\ u \in Seq(Byte)
  BY <1>4 DEF TextWritten, DateWritten
<1>6. PICK p \in Nat : p = Len(u)
  BY <1>5
<1>7. PICK q \in Nat : q = p + 5 /\ q = p + Len(d)
  BY <1>5
<1>8. JoinedAs(w, u, d)
  BY <1>1, <1>2, <1>3, <1>5 DEF JoinedAs
<1>9. TwoFields(w, u, d, p, q)
  <2>1. d \in Seq(Byte) /\ u \in Seq(Byte)
    BY <1>5
  <2> QED BY <1>6, <1>7, <1>8, <2>1, TwoFieldsAre
<1>10. FieldAt(u, w, 0, Len(u)) /\ FieldAt(d, w, p, p + 5) /\ Len(w) = p + 5
  BY <1>6, <1>7, <1>9 DEF TwoFields
<1>11. OptionalDate(w, p, Some(d))
  BY <1>5, <1>10 DEF OptionalDate
<1>12. OptionalDate(w, p + 5, None)
  BY <1>10 DEF OptionalDate
<1>13. IsTail(tail) /\ tail["endDate"] = None
  BY <1>1, NamesAre, TwoPut
<1>14. Change(tail, "endDate", None) = tail
  BY <1>13, NamesAre, NoneChanges
<1>15. tail = Change(Change(EmptyTail, "password", Some(v)), "startDate", Some(d))
  BY <1>1, PutChanges
<1>16. tail = Change(Change(Change(EmptyTail, "password", Some(v)), "startDate", Some(d)), "endDate", None)
  BY <1>14, <1>15
<1>17. OptionalDate(w, Len(u), Some(d)) /\ OptionalDate(w, Len(u) + 5, None)
  BY <1>6, <1>11, <1>12
<1>18. TextDates(tail, w, v, u, Some(d), None)
  BY <1>4, <1>10, <1>16, <1>17, Zenon DEF TextDates
<1> QED BY <1>18

LEMMA AddedThree ==
  ASSUME NEW tail, NEW w, MadeThree(tail, w, "password", "text", "startDate", "date", "endDate", "date")
  PROVE  \E v, u, x, y : TextDates(tail, w, v, u, x, y)
<1>1. PICK v \in Values("text"), d \in Values("date"), e \in Values("date") :
        /\ tail = Put(Put(Put(EmptyTail, "password", v), "startDate", d), "endDate", e)
        /\ w = (Written("text", v) \o Written("date", d)) \o Written("date", e)
  BY Zenon DEF MadeThree
<1>2. PICK u : u = Written("text", v)
  OBVIOUS
<1>3. PICK b : b = Written("date", d)
  OBVIOUS
<1>3a. PICK c : c = Written("date", e)
  OBVIOUS
<1>4. TextWritten(v, u) /\ DateWritten(d, b) /\ DateWritten(e, c)
  BY <1>2, <1>3, <1>3a, TextsWritten, DatesWritten
<1>5. /\ b = d /\ DateWritten(d, d) /\ d \in Seq(Byte) /\ Len(d) = 5 /\ u \in Seq(Byte)
      /\ c = e /\ DateWritten(e, e) /\ e \in Seq(Byte) /\ Len(e) = 5
  BY <1>4 DEF TextWritten, DateWritten
<1>6. PICK p \in Nat : p = Len(u)
  BY <1>5
<1>7. PICK q \in Nat : q = p + 5 /\ q = p + Len(d)
  BY <1>5
<1>7a. PICK r \in Nat : r = q + 5 /\ r = q + Len(e)
  BY <1>5
<1>8. ThreeJoined(w, u, d, e)
  BY <1>1, <1>2, <1>3, <1>3a, <1>5 DEF ThreeJoined
<1>9. ThreeFields(w, u, d, e, p, q, r)
  <2>1. d \in Seq(Byte) /\ u \in Seq(Byte) /\ e \in Seq(Byte)
    BY <1>5
  <2> QED BY <1>6, <1>7, <1>7a, <1>8, <2>1, ThreeFieldsAre
<1>10. FieldAt(u, w, 0, Len(u)) /\ FieldAt(d, w, p, p + 5) /\ FieldAt(e, w, q, q + 5)
  BY <1>6, <1>7, <1>7a, <1>9 DEF ThreeFields
<1>11. OptionalDate(w, p, Some(d)) /\ OptionalDate(w, q, Some(e))
  BY <1>5, <1>10 DEF OptionalDate
<1>15. tail = Change(Change(Change(EmptyTail, "password", Some(v)), "startDate", Some(d)), "endDate", Some(e))
  BY <1>1, PutChanges
<1>17. OptionalDate(w, Len(u), Some(d)) /\ OptionalDate(w, Len(u) + 5, Some(e))
  BY <1>6, <1>7, <1>11
<1>18. TextDates(tail, w, v, u, Some(d), Some(e))
  BY <1>4, <1>10, <1>15, <1>17, Zenon DEF TextDates
<1> QED BY <1>18

LEMMA AddedTailKept ==
  ASSUME NEW type, OfType(type, 93), NEW tail \in Tails(type), NEW w, w = TailBytes(type, tail),
         NEW how, NEW t, Gets(how, t, w)
  PROVE  TailKept(how, type, tail, RecordTail(type, t))
<1>1. /\ Decodes(type, t, 1, AddedPasscode(t))
      /\ LayoutThree(type, Field("password", "text"), Field("startDate", "date"), Field("endDate", "date"), 1)
  BY AddedDecoded DEF OfType
<1>2. \/ MadeThree(tail, w, "password", "text", "startDate", "date", "endDate", "date")
      \/ MadeTwo(tail, w, "password", "text", "startDate", "date")
      \/ MadeOne(tail, w, "password", "text")
  <2>1. PICK least \in 1..3 : least = 1
    OBVIOUS
  <2>2. LayoutThree(type, Field("password", "text"), Field("startDate", "date"), Field("endDate", "date"), least)
    BY <1>1, <2>1
  <2>3. /\ "password" \in Names /\ "startDate" \in Names /\ "endDate" \in Names
        /\ "password" # "startDate" /\ "password" # "endDate" /\ "startDate" # "endDate"
        /\ WritesBytes("text") /\ WritesBytes("date")
    BY NamesAre, AllWriteBytes
  <2> QED BY <2>2, <2>3, TailsThree
<1>3. PICK v, u, start, end : TextDates(tail, w, v, u, start, end)
  BY <1>2, AddedOne, AddedTwo, AddedThree
<1>4. /\ TextWritten(v, u) /\ FieldAt(u, w, 0, Len(u))
      /\ tail = Change(Change(Change(EmptyTail, "password", Some(v)), "startDate", start), "endDate", end)
      /\ OptionalDate(w, Len(u), start) /\ OptionalDate(w, Len(u) + 5, end)
  BY <1>3, Zenon DEF TextDates
<1>5. /\ w \in Seq(Byte) /\ t \in Seq(Byte) /\ Len(t) \in Nat /\ Len(w) \in Nat /\ Agrees(t, w)
      /\ Len(t) < Len(w) => how = "cut"
  BY GetsIs
<1>6. u \in Seq(Byte) /\ Len(u) \in Nat /\ Len(u) >= 1 /\ Len(u) <= Len(w) /\ Within(u, w, 0)
  BY <1>4, <1>5 DEF TextWritten, FieldAt, Within, Byte
<1>7. Agrees(t, u)
  BY <1>5, <1>6, FrontAgrees
<1>8. TextFound(t, v, u)
  BY <1>4, <1>5, <1>7, TextFirst
<1>9. PICK base : base = Change(EmptyTail, "password", Some(v))
  OBVIOUS
<1>10. IsTail(base)
  BY <1>9, EmptyIs, NamesAre, ChangeIs
<1>11. PICK was : was = Change(base, "startDate", start)
  OBVIOUS
<1>12. IsTail(was)
  BY <1>10, <1>11, NamesAre, ChangeIs
<1>13. tail = Change(was, "endDate", end) /\ IsTail(tail)
  BY <1>4, <1>9, <1>11, <1>12, NamesAre, ChangeIs
<1>14. PICK short \in BOOLEAN : short <=> t = <<>> \/ 1 + t[1] > Len(t)
  OBVIOUS
<1>15. AddedPasscode(t) =
           IF short THEN EmptyTail
           ELSE Change(Change(Change(EmptyTail, "password", Some(Text(Slice(t, 1, 1 + t[1])))),
                              "startDate", Date(5, From(t, 1 + t[1]))),
                       "endDate", Date(5, From(t, (1 + t[1]) + 5)))
  BY <1>14, AddedDecoded2
<1>16. CASE Len(t) < Len(u)
  <2>1. short
    BY <1>8, <1>14, <1>16 DEF TextFound
  <2>2. AddedPasscode(t) = EmptyTail
    BY <1>15, <2>1, Zenon
  <2>3. RecordTail(type, t) = EmptyTail
    BY <1>1, <2>2, Zenon DEF Decodes
  <2>4. how = "cut"
    BY <1>5, <1>6, <1>16
  <2> QED BY <1>13, <2>3, <2>4, NothingRead
<1>17. CASE Len(u) <= Len(t)
  <2>1. ~short /\ Text(Slice(t, 1, 1 + t[1])) = v /\ 1 + t[1] = Len(u)
    BY <1>8, <1>14, <1>17 DEF TextFound
  <2>2. PICK i \in Nat : i = Len(u)
    BY <1>6
  <2>3. PICK j \in Nat : j = i + 5
    OBVIOUS
  <2>4. AddedPasscode(t) =
          Change(Change(base, "startDate", Date(5, From(t, i))), "endDate", Date(5, From(t, j)))
    BY <1>9, <1>15, <2>1, <2>2, <2>3
  <2>5. RecordTail(type, t) = AddedPasscode(t)
    <3>1. ~(Len(t) < 1)
      BY <1>5, <1>6, <1>17
    <3> QED BY <1>1, <3>1, Zenon DEF Decodes
  <2>6. OptionalDate(w, i, start) /\ OptionalDate(w, j, end)
    BY <1>4, <2>2, <2>3
  <2>7. /\ Goes(how, type, "startDate", start, Date(5, From(t, i)))
        /\ Goes(how, type, "endDate", end, Date(5, From(t, j)))
    BY <2>6, DateGoes
  <2>8. TailKept(how, type, was, Change(base, "startDate", Date(5, From(t, i))))
    BY <1>10, <1>11, <2>7, NamesAre, SameKept, OneMore
  <2>9. TailKept(how, type, tail, Change(Change(base, "startDate", Date(5, From(t, i))), "endDate", Date(5, From(t, j))))
    BY <1>13, <2>7, <2>8, NamesAre, OneMore
  <2> QED BY <2>4, <2>5, <2>9
<1> QED BY <1>5, <1>6, <1>16, <1>17

LEMMA OtherTailKept ==
  ASSUME NEW type, OtherTypes(type), NEW tail \in Tails(type), NEW how, NEW t
  PROVE  TailKept(how, type, tail, RecordTail(type, t)) /\ TailBytes(type, tail) = <<>>
<1>1. RecordTail(type, t) = EmptyTail /\ Layout(type) = <<>> /\ Required(type) = 0
  BY OtherDecoded
<1>2. PICK fields : fields = Layout(type)
  OBVIOUS
<1>3. PICK z \in Nat : z = 0
  OBVIOUS
<1>4. fields = <<>> /\ Len(fields) = z /\ Required(type) = z
  BY <1>1, <1>2, <1>3
<1>5. PICK n \in z..z : tail \in UpTo(n, fields)
  BY <1>2, <1>4, TailsAre
<1>6. n = 0
  BY <1>3, <1>5
<1>7. UpTo(0, fields) = {EmptyTail}
  BY DEF UpTo
<1>8. tail = EmptyTail
  BY <1>5, <1>6, <1>7
<1>9. Piece(type, tail, 1) = <<>> /\ Piece(type, tail, 2) = <<>> /\ Piece(type, tail, 3) = <<>>
  BY <1>1 DEF Piece
<1>10. TailBytes(type, tail) = (<<>> \o <<>>) \o <<>>
  BY <1>9, Zenon DEF TailBytes
<1>11. (<<>> \o <<>>) \o <<>> = <<>>
  OBVIOUS
<1> QED BY <1>1, <1>8, <1>10, <1>11, EmptyKept

----------------------------------------------------------------------------
(* A tail of any type, whole, cut or with more behind it.                   *)

(* A tail is no longer than thirty bytes.                                    *)
ShortBytes(w) == w \in Seq(Byte) /\ Len(w) <= 30

(* Ten bytes at most.                                                       *)
Brief(w) == w \in Seq(Byte) /\ Len(w) <= 10

(* Every value is written in ten bytes at most.                             *)
WritesShort(how) == \A v \in Values(how) : Brief(Written(how, v))

LEMMA BriefIs ==
  ASSUME NEW w \in Seq(Byte), NEW n \in Nat, Len(w) = n, n <= 10
  PROVE  Brief(w)
BY DEF Brief

LEMMA PaddedShort ==
  ASSUME NEW n \in 1..10, NEW v, NEW u, PaddedIn(n, v, u)
  PROVE  Brief(u)
BY BriefIs DEF PaddedIn

LEMMA OneBrief ==
  ASSUME NEW v, NEW u, OneWritten(v, u)
  PROVE  Brief(u)
<1>1. PICK n \in Nat : n = 1
  OBVIOUS
<1>2. u \in Seq(Byte) /\ Len(u) = n /\ n <= 10
  BY <1>1 DEF OneWritten
<1> QED BY <1>2, BriefIs

LEMMA TextBrief ==
  ASSUME NEW v, NEW u, TextWritten(v, u), IsPasscode(v)
  PROVE  Brief(u)
<1>1. PICK l \in 4..9 : l = Len(v)
  BY DEF IsPasscode
<1>2. PICK n \in Nat : n = l + 1
  OBVIOUS
<1>3. u \in Seq(Byte) /\ Len(u) = n /\ n <= 10
  BY <1>1, <1>2 DEF TextWritten
<1> QED BY <1>3, BriefIs

LEMMA AllWriteShort ==
  /\ WritesShort("one") /\ WritesShort("two") /\ WritesShort("four") /\ WritesShort("six")
  /\ WritesShort("mac") /\ WritesShort("date") /\ WritesShort("text")
<1>1. WritesShort("one")
  <2>1. ASSUME NEW v \in Values("one") PROVE Brief(Written("one", v))
    <3>1. OneWritten(v, Written("one", v))
      BY OnesWritten
    <3> QED BY <3>1, OneBrief
  <2> QED BY <2>1 DEF WritesShort, Brief
<1>2. WritesShort("two") /\ WritesShort("four") /\ WritesShort("six")
  <2>1. ASSUME NEW v \in Values("two") PROVE Brief(Written("two", v))
    <3>1. PaddedIn(2, v, Written("two", v))
      BY NumbersWritten
    <3> QED BY <3>1, PaddedShort
  <2>2. ASSUME NEW v \in Values("four") PROVE Brief(Written("four", v))
    <3>1. PaddedIn(4, v, Written("four", v))
      BY NumbersWritten
    <3> QED BY <3>1, PaddedShort
  <2>3. ASSUME NEW v \in Values("six") PROVE Brief(Written("six", v))
    <3>1. PaddedIn(6, v, Written("six", v))
      BY NumbersWritten
    <3> QED BY <3>1, PaddedShort
  <2> QED BY <2>1, <2>2, <2>3 DEF WritesShort, Brief
<1>3. WritesShort("mac") /\ WritesShort("date")
  BY MacsWritten, DatesWritten DEF WritesShort, Brief, MacWrit, DateWritten
<1>4. WritesShort("text")
  <2>1. ASSUME NEW v \in Values("text") PROVE Brief(Written("text", v))
    <3>1. v \in Codes
      BY ValuesAre
    <3>2. IsPasscode(v)
      BY <3>1, CodesAre
    <3>3. TextWritten(v, Written("text", v))
      BY TextsWritten
    <3> QED BY <3>2, <3>3, TextBrief
  <2> QED BY <2>1 DEF WritesShort, Brief
<1> QED BY <1>1, <1>2, <1>3, <1>4

LEMMA OneShort ==
  ASSUME NEW tail, NEW w, NEW n1, NEW h1, MadeOne(tail, w, n1, h1), WritesShort(h1)
  PROVE  ShortBytes(w)
<1>1. PICK v \in Values(h1) : w = Written(h1, v)
  BY DEF MadeOne
<1>2. Brief(w)
  BY <1>1 DEF WritesShort
<1>3. Len(w) \in Nat /\ Len(w) <= 10 /\ w \in Seq(Byte)
  BY <1>2 DEF Brief
<1> QED BY <1>3 DEF ShortBytes

LEMMA JoinedShort ==
  ASSUME NEW a, NEW b, NEW m \in Nat, NEW n \in Nat, a \in Seq(Byte), b \in Seq(Byte), Len(a) <= m, Len(b) <= n
  PROVE  a \o b \in Seq(Byte) /\ Len(a \o b) <= m + n
OBVIOUS

LEMMA TwoShort ==
  ASSUME NEW tail, NEW w, NEW n1, NEW h1, NEW n2, NEW h2, MadeTwo(tail, w, n1, h1, n2, h2), WritesShort(h1), WritesShort(h2)
  PROVE  ShortBytes(w)
<1>1. PICK v \in Values(h1), u \in Values(h2) : w = Written(h1, v) \o Written(h2, u)
  BY DEF MadeTwo
<1>2. PICK a : a = Written(h1, v)
  OBVIOUS
<1>3. PICK b : b = Written(h2, u)
  OBVIOUS
<1>4. a \in Seq(Byte) /\ b \in Seq(Byte) /\ Len(a) <= 10 /\ Len(b) <= 10
  BY <1>2, <1>3 DEF WritesShort, Brief
<1>5. w = a \o b
  BY <1>1, <1>2, <1>3
<1>6. a \o b \in Seq(Byte) /\ Len(a \o b) <= 10 + 10
  BY <1>4, JoinedShort
<1> QED BY <1>5, <1>6 DEF ShortBytes

LEMMA ThreeShort ==
  ASSUME NEW tail, NEW w, NEW n1, NEW h1, NEW n2, NEW h2, NEW n3, NEW h3,
         MadeThree(tail, w, n1, h1, n2, h2, n3, h3), WritesShort(h1), WritesShort(h2), WritesShort(h3)
  PROVE  ShortBytes(w)
<1>1. PICK v \in Values(h1), u \in Values(h2), x \in Values(h3) : w = (Written(h1, v) \o Written(h2, u)) \o Written(h3, x)
  BY DEF MadeThree
<1>2. PICK a : a = Written(h1, v)
  OBVIOUS
<1>3. PICK b : b = Written(h2, u)
  OBVIOUS
<1>3a. PICK c : c = Written(h3, x)
  OBVIOUS
<1>4. a \in Seq(Byte) /\ b \in Seq(Byte) /\ Len(a) <= 10 /\ Len(b) <= 10 /\ c \in Seq(Byte) /\ Len(c) <= 10
  BY <1>2, <1>3, <1>3a DEF WritesShort, Brief
<1>5. w = (a \o b) \o c
  BY <1>1, <1>2, <1>3, <1>3a
<1>6. a \o b \in Seq(Byte) /\ Len(a \o b) <= 10 + 10
  BY <1>4, JoinedShort
<1>7. PICK y : y = a \o b
  OBVIOUS
<1>8. y \in Seq(Byte) /\ Len(y) <= 20
  BY <1>6, <1>7
<1>9. y \o c \in Seq(Byte) /\ Len(y \o c) <= 20 + 10
  BY <1>4, <1>8, JoinedShort
<1> QED BY <1>5, <1>7, <1>9 DEF ShortBytes

(* Each field of a record is bytes.                                           *)
PiecesBytes(type, tail) ==
  Piece(type, tail, 1) \in Seq(Byte) /\ Piece(type, tail, 2) \in Seq(Byte) /\ Piece(type, tail, 3) \in Seq(Byte)

HasValue(tail, n, h) == tail[n] = None \/ tail[n][1] \in Values(h)

LEMMA PartBytes ==
  ASSUME NEW tail, NEW n, NEW h, WritesBytes(h), HasValue(tail, n, h)
  PROVE  PartOf(tail, n, h) \in Seq(Byte)
<1>1. CASE tail[n] = None
  BY <1>1 DEF PartOf
<1>2. CASE tail[n] # None
  BY <1>2 DEF PartOf, HasValue, WritesBytes
<1> QED BY <1>1, <1>2

LEMMA OneHas ==
  ASSUME NEW n1 \in Names, NEW h1, NEW tail, NEW w, MadeOne(tail, w, n1, h1)
  PROVE  HasValue(tail, n1, h1) /\ \A f \in Names : \A h : f # n1 => HasValue(tail, f, h)
<1>1. PICK v \in Values(h1) : tail = Put(EmptyTail, n1, v)
  BY DEF MadeOne
<1> QED BY <1>1, OnePut DEF HasValue

LEMMA TwoHave ==
  ASSUME NEW n1 \in Names, NEW h1, NEW n2 \in Names, NEW h2, n1 # n2, NEW tail, NEW w, MadeTwo(tail, w, n1, h1, n2, h2)
  PROVE  HasValue(tail, n1, h1) /\ HasValue(tail, n2, h2) /\ \A f \in Names : \A h : f # n1 /\ f # n2 => HasValue(tail, f, h)
<1>1. PICK v \in Values(h1), u \in Values(h2) : tail = Put(Put(EmptyTail, n1, v), n2, u)
  BY DEF MadeTwo
<1> QED BY <1>1, TwoPut DEF HasValue

LEMMA ThreeHave ==
  ASSUME NEW n1 \in Names, NEW h1, NEW n2 \in Names, NEW h2, NEW n3 \in Names, NEW h3, n1 # n2, n1 # n3, n2 # n3,
         NEW tail, NEW w, MadeThree(tail, w, n1, h1, n2, h2, n3, h3)
  PROVE  HasValue(tail, n1, h1) /\ HasValue(tail, n2, h2) /\ HasValue(tail, n3, h3)
<1>1. PICK v \in Values(h1), u \in Values(h2), x \in Values(h3) : tail = Put(Put(Put(EmptyTail, n1, v), n2, u), n3, x)
  BY DEF MadeThree
<1> QED BY <1>1, ThreePut DEF HasValue

LEMMA PiecesOneBytes ==
  ASSUME NEW type, NEW n1, NEW h1, LayoutOne(type, Field(n1, h1)), NEW tail,
         WritesBytes(h1), HasValue(tail, n1, h1)
  PROVE  PiecesBytes(type, tail)
<1>1. PICK f : f = Field(n1, h1) /\ f.name = n1 /\ f.how = h1
  BY FieldIs
<1>2. PICK fields : fields = <<f>>
  OBVIOUS
<1>3. Layout(type) = fields
  BY <1>1, <1>2, Zenon DEF LayoutOne
<1>4. Len(fields) = 1 /\ fields[1] = f
  BY <1>2
<1>5. Piece(type, tail, 1) = PartOf(tail, n1, h1)
  BY <1>1, <1>3, <1>4 DEF Piece, PartOf
<1>6. PartOf(tail, n1, h1) \in Seq(Byte)
  BY PartBytes
<1>7. Piece(type, tail, 2) = <<>> /\ <<>> \in Seq(Byte)
  BY <1>3, <1>4 DEF Piece
<1>8. Piece(type, tail, 3) = <<>> /\ <<>> \in Seq(Byte)
  BY <1>3, <1>4 DEF Piece
<1> QED BY <1>5, <1>6, <1>7, <1>8 DEF PiecesBytes

LEMMA PiecesTwoBytes ==
  ASSUME NEW type, NEW n1, NEW h1, NEW n2, NEW h2, NEW least, LayoutTwo(type, Field(n1, h1), Field(n2, h2), least), NEW tail,
         WritesBytes(h1), HasValue(tail, n1, h1), WritesBytes(h2), HasValue(tail, n2, h2)
  PROVE  PiecesBytes(type, tail)
<1>1. PICK f : f = Field(n1, h1) /\ f.name = n1 /\ f.how = h1
  BY FieldIs
<1>2. PICK g : g = Field(n2, h2) /\ g.name = n2 /\ g.how = h2
  BY FieldIs
<1>3. PICK fields : fields = <<f, g>>
  OBVIOUS
<1>4. Layout(type) = fields
  BY <1>1, <1>2, <1>3, Zenon DEF LayoutTwo
<1>5. Len(fields) = 2 /\ fields[1] = f /\ fields[2] = g
  BY <1>3
<1>6. Piece(type, tail, 1) = PartOf(tail, n1, h1)
  BY <1>1, <1>4, <1>5 DEF Piece, PartOf
<1>7. PartOf(tail, n1, h1) \in Seq(Byte)
  BY PartBytes
<1>8. Piece(type, tail, 2) = PartOf(tail, n2, h2)
  BY <1>2, <1>4, <1>5 DEF Piece, PartOf
<1>9. PartOf(tail, n2, h2) \in Seq(Byte)
  BY PartBytes
<1>10. Piece(type, tail, 3) = <<>> /\ <<>> \in Seq(Byte)
  BY <1>4, <1>5 DEF Piece
<1> QED BY <1>6, <1>7, <1>8, <1>9, <1>10 DEF PiecesBytes

LEMMA PiecesThreeBytes ==
  ASSUME NEW type, NEW n1, NEW h1, NEW n2, NEW h2, NEW n3, NEW h3, NEW least, LayoutThree(type, Field(n1, h1), Field(n2, h2), Field(n3, h3), least), NEW tail,
         WritesBytes(h1), HasValue(tail, n1, h1), WritesBytes(h2), HasValue(tail, n2, h2), WritesBytes(h3), HasValue(tail, n3, h3)
  PROVE  PiecesBytes(type, tail)
<1>1. PICK f : f = Field(n1, h1) /\ f.name = n1 /\ f.how = h1
  BY FieldIs
<1>2. PICK g : g = Field(n2, h2) /\ g.name = n2 /\ g.how = h2
  BY FieldIs
<1>3. PICK h : h = Field(n3, h3) /\ h.name = n3 /\ h.how = h3
  BY FieldIs
<1>4. PICK fields : fields = <<f, g, h>>
  OBVIOUS
<1>5. Layout(type) = fields
  BY <1>1, <1>2, <1>3, <1>4, Zenon DEF LayoutThree
<1>6. Len(fields) = 3 /\ fields[1] = f /\ fields[2] = g /\ fields[3] = h
  BY <1>4
<1>7. Piece(type, tail, 1) = PartOf(tail, n1, h1)
  BY <1>1, <1>5, <1>6 DEF Piece, PartOf
<1>8. PartOf(tail, n1, h1) \in Seq(Byte)
  BY PartBytes
<1>9. Piece(type, tail, 2) = PartOf(tail, n2, h2)
  BY <1>2, <1>5, <1>6 DEF Piece, PartOf
<1>10. PartOf(tail, n2, h2) \in Seq(Byte)
  BY PartBytes
<1>11. Piece(type, tail, 3) = PartOf(tail, n3, h3)
  BY <1>3, <1>5, <1>6 DEF Piece, PartOf
<1>12. PartOf(tail, n3, h3) \in Seq(Byte)
  BY PartBytes
<1> QED BY <1>7, <1>8, <1>9, <1>10, <1>11, <1>12 DEF PiecesBytes

(* The bytes of a tail of the app are few enough for the one length byte of *)
(* a record, and so are those of the types below.                           *)
LEMMA AppShort ==
  ASSUME NEW type, type \in AppTypes, NEW tail \in Tails(type), NEW w, w = TailBytes(type, tail)
  PROVE  ShortBytes(w) /\ PiecesBytes(type, tail)
<1>1. LayoutTwo(type, Field("uid", "four"), Field("recordId", "four"), 2)
  BY AppDecoded 
<1>2. /\ "uid" \in Names /\ "recordId" \in Names /\ "uid" # "recordId" /\ WritesBytes("four")
  BY NamesAre, AllWriteBytes
<1>3. PICK least \in 1..2 : least = 2
  OBVIOUS
<1>4. LayoutTwo(type, Field("uid", "four"), Field("recordId", "four"), least)
  BY <1>1, <1>3
<1>5. MadeTwo(tail, w, "uid", "four", "recordId", "four")
  <2>1. (MadeTwo(tail, w, "uid", "four", "recordId", "four")) \/ (least = 1 /\ MadeOne(tail, w, "uid", "four"))
    BY <1>2, <1>4, TailsTwo
  <2> QED BY <1>3, <2>1
<1>6. ShortBytes(w)
  BY <1>5, AllWriteShort, OneShort, TwoShort
<1>7. HasValue(tail, "uid", "four") /\ HasValue(tail, "recordId", "four")
  BY <1>2, <1>5, OneHas, TwoHave
<1>8. PiecesBytes(type, tail)
  BY <1>1, <1>2, <1>7, PiecesTwoBytes
<1> QED BY <1>6, <1>8

LEMMA RemoteShort ==
  ASSUME NEW type, OfType(type, 37), NEW tail \in Tails(type), NEW w, w = TailBytes(type, tail)
  PROVE  ShortBytes(w) /\ PiecesBytes(type, tail)
<1>1. LayoutThree(type, Field("uid", "four"), Field("recordId", "four"), Field("keyId", "one"), 3)
  BY RemoteDecoded DEF OfType
<1>2. /\ "uid" \in Names /\ "recordId" \in Names /\ "keyId" \in Names /\ "uid" # "recordId" /\ "uid" # "keyId" /\ "recordId" # "keyId" /\ WritesBytes("four") /\ WritesBytes("one")
  BY NamesAre, AllWriteBytes
<1>3. PICK least \in 1..3 : least = 3
  OBVIOUS
<1>4. LayoutThree(type, Field("uid", "four"), Field("recordId", "four"), Field("keyId", "one"), least)
  BY <1>1, <1>3
<1>5. MadeThree(tail, w, "uid", "four", "recordId", "four", "keyId", "one")
  <2>1. (MadeThree(tail, w, "uid", "four", "recordId", "four", "keyId", "one")) \/ (least # 3 /\ MadeTwo(tail, w, "uid", "four", "recordId", "four")) \/ (least = 1 /\ MadeOne(tail, w, "uid", "four"))
    BY <1>2, <1>4, TailsThree
  <2> QED BY <1>3, <2>1
<1>6. ShortBytes(w)
  BY <1>5, AllWriteShort, OneShort, TwoShort, ThreeShort
<1>7. HasValue(tail, "uid", "four") /\ HasValue(tail, "recordId", "four") /\ HasValue(tail, "keyId", "one")
  BY <1>2, <1>5, OneHas, TwoHave, ThreeHave
<1>8. PiecesBytes(type, tail)
  BY <1>1, <1>2, <1>7, PiecesThreeBytes
<1> QED BY <1>6, <1>8

LEMMA PairsShort ==
  ASSUME NEW type, type \in PasscodeTypes, NEW tail \in Tails(type), NEW w, w = TailBytes(type, tail)
  PROVE  ShortBytes(w) /\ PiecesBytes(type, tail)
<1>1. LayoutTwo(type, Field("password", "text"), Field("newPassword", "text"), 1)
  BY PairsDecoded 
<1>2. /\ "password" \in Names /\ "newPassword" \in Names /\ "password" # "newPassword" /\ WritesBytes("text")
  BY NamesAre, AllWriteBytes
<1>3. PICK least \in 1..2 : least = 1
  OBVIOUS
<1>4. LayoutTwo(type, Field("password", "text"), Field("newPassword", "text"), least)
  BY <1>1, <1>3
<1>5. MadeTwo(tail, w, "password", "text", "newPassword", "text") \/ MadeOne(tail, w, "password", "text")
  BY <1>2, <1>4, TailsTwo
<1>6. ShortBytes(w)
  BY <1>5, AllWriteShort, OneShort, TwoShort
<1>7. HasValue(tail, "password", "text") /\ HasValue(tail, "newPassword", "text")
  BY <1>2, <1>5, OneHas, TwoHave
<1>8. PiecesBytes(type, tail)
  BY <1>1, <1>2, <1>7, PiecesTwoBytes
<1> QED BY <1>6, <1>8

LEMMA OnlyShort ==
  ASSUME NEW type, OfType(type, 7), NEW tail \in Tails(type), NEW w, w = TailBytes(type, tail)
  PROVE  ShortBytes(w) /\ PiecesBytes(type, tail)
<1>1. LayoutOne(type, Field("password", "text"))
  BY OnlyDecoded DEF OfType
<1>2. /\ "password" \in Names /\ WritesBytes("text")
  BY NamesAre, AllWriteBytes
<1>3. MadeOne(tail, w, "password", "text")
  BY <1>1, <1>2, TailsOne
<1>4. ShortBytes(w)
  BY <1>3, AllWriteShort, OneShort
<1>5. HasValue(tail, "password", "text")
  BY <1>2, <1>3, OneHas
<1>6. PiecesBytes(type, tail)
  BY <1>1, <1>2, <1>5, PiecesOneBytes
<1> QED BY <1>4, <1>6

LEMMA ClearShort ==
  ASSUME NEW type, OfType(type, 8), NEW tail \in Tails(type), NEW w, w = TailBytes(type, tail)
  PROVE  ShortBytes(w) /\ PiecesBytes(type, tail)
<1>1. LayoutTwo(type, Field("deleteDate", "date"), Field("password", "text"), 1)
  BY ClearDecoded DEF OfType
<1>2. /\ "deleteDate" \in Names /\ "password" \in Names /\ "deleteDate" # "password" /\ WritesBytes("date") /\ WritesBytes("text")
  BY NamesAre, AllWriteBytes
<1>3. PICK least \in 1..2 : least = 1
  OBVIOUS
<1>4. LayoutTwo(type, Field("deleteDate", "date"), Field("password", "text"), least)
  BY <1>1, <1>3
<1>5. MadeTwo(tail, w, "deleteDate", "date", "password", "text") \/ MadeOne(tail, w, "deleteDate", "date")
  BY <1>2, <1>4, TailsTwo
<1>6. ShortBytes(w)
  BY <1>5, AllWriteShort, OneShort, TwoShort
<1>7. HasValue(tail, "deleteDate", "date") /\ HasValue(tail, "password", "text")
  BY <1>2, <1>5, OneHas, TwoHave
<1>8. PiecesBytes(type, tail)
  BY <1>1, <1>2, <1>7, PiecesTwoBytes
<1> QED BY <1>6, <1>8

LEMMA CardShort ==
  ASSUME NEW type, type \in CardTypes, NEW tail \in Tails(type), NEW w, w = TailBytes(type, tail)
  PROVE  ShortBytes(w) /\ PiecesBytes(type, tail)
<1>1. LayoutOne(type, Field("password", "four"))
  BY CardDecoded 
<1>2. /\ "password" \in Names /\ WritesBytes("four")
  BY NamesAre, AllWriteBytes
<1>3. MadeOne(tail, w, "password", "four")
  BY <1>1, <1>2, TailsOne
<1>4. ShortBytes(w)
  BY <1>3, AllWriteShort, OneShort
<1>5. HasValue(tail, "password", "four")
  BY <1>2, <1>3, OneHas
<1>6. PiecesBytes(type, tail)
  BY <1>1, <1>2, <1>5, PiecesOneBytes
<1> QED BY <1>4, <1>6

LEMMA SixByteShort ==
  ASSUME NEW type, type \in SixByteIdTypes, NEW tail \in Tails(type), NEW w, w = TailBytes(type, tail)
  PROVE  ShortBytes(w) /\ PiecesBytes(type, tail)
<1>1. LayoutOne(type, Field("password", "six"))
  BY SixByteDecoded 
<1>2. /\ "password" \in Names /\ WritesBytes("six")
  BY NamesAre, AllWriteBytes
<1>3. MadeOne(tail, w, "password", "six")
  BY <1>1, <1>2, TailsOne
<1>4. ShortBytes(w)
  BY <1>3, AllWriteShort, OneShort
<1>5. HasValue(tail, "password", "six")
  BY <1>2, <1>3, OneHas
<1>6. PiecesBytes(type, tail)
  BY <1>1, <1>2, <1>5, PiecesOneBytes
<1> QED BY <1>4, <1>6

LEMMA ShortShort ==
  ASSUME NEW type, type \in ShortIdTypes, NEW tail \in Tails(type), NEW w, w = TailBytes(type, tail)
  PROVE  ShortBytes(w) /\ PiecesBytes(type, tail)
<1>1. LayoutOne(type, Field("password", "two"))
  BY ShortDecoded 
<1>2. /\ "password" \in Names /\ WritesBytes("two")
  BY NamesAre, AllWriteBytes
<1>3. MadeOne(tail, w, "password", "two")
  BY <1>1, <1>2, TailsOne
<1>4. ShortBytes(w)
  BY <1>3, AllWriteShort, OneShort
<1>5. HasValue(tail, "password", "two")
  BY <1>2, <1>3, OneHas
<1>6. PiecesBytes(type, tail)
  BY <1>1, <1>2, <1>5, PiecesOneBytes
<1> QED BY <1>4, <1>6

LEMMA MacShort ==
  ASSUME NEW type, type \in MacTypes, NEW tail \in Tails(type), NEW w, w = TailBytes(type, tail)
  PROVE  ShortBytes(w) /\ PiecesBytes(type, tail)
<1>1. LayoutOne(type, Field("password", "mac"))
  BY MacDecoded 
<1>2. /\ "password" \in Names /\ WritesBytes("mac")
  BY NamesAre, AllWriteBytes
<1>3. MadeOne(tail, w, "password", "mac")
  BY <1>1, <1>2, TailsOne
<1>4. ShortBytes(w)
  BY <1>3, AllWriteShort, OneShort
<1>5. HasValue(tail, "password", "mac")
  BY <1>2, <1>3, OneHas
<1>6. PiecesBytes(type, tail)
  BY <1>1, <1>2, <1>5, PiecesOneBytes
<1> QED BY <1>4, <1>6

LEMMA BatteryShort ==
  ASSUME NEW type, type \in {30, 31}, NEW tail \in Tails(type), NEW w, w = TailBytes(type, tail)
  PROVE  ShortBytes(w) /\ PiecesBytes(type, tail)
<1>1. LayoutOne(type, Field("accessoryBattery", "one"))
  BY BatteryDecoded 
<1>2. /\ "accessoryBattery" \in Names /\ WritesBytes("one")
  BY NamesAre, AllWriteBytes
<1>3. MadeOne(tail, w, "accessoryBattery", "one")
  BY <1>1, <1>2, TailsOne
<1>4. ShortBytes(w)
  BY <1>3, AllWriteShort, OneShort
<1>5. HasValue(tail, "accessoryBattery", "one")
  BY <1>2, <1>3, OneHas
<1>6. PiecesBytes(type, tail)
  BY <1>1, <1>2, <1>5, PiecesOneBytes
<1> QED BY <1>4, <1>6

LEMMA FobShort ==
  ASSUME NEW type, type \in FobTypes, NEW tail \in Tails(type), NEW w, w = TailBytes(type, tail)
  PROVE  ShortBytes(w) /\ PiecesBytes(type, tail)
<1>1. LayoutThree(type, Field("password", "mac"), Field("keyId", "one"), Field("accessoryBattery", "one"), 1)
  BY FobDecoded 
<1>2. /\ "password" \in Names /\ "keyId" \in Names /\ "accessoryBattery" \in Names /\ "password" # "keyId" /\ "password" # "accessoryBattery" /\ "keyId" # "accessoryBattery" /\ WritesBytes("mac") /\ WritesBytes("one")
  BY NamesAre, AllWriteBytes
<1>3. PICK least \in 1..3 : least = 1
  OBVIOUS
<1>4. LayoutThree(type, Field("password", "mac"), Field("keyId", "one"), Field("accessoryBattery", "one"), least)
  BY <1>1, <1>3
<1>5. MadeThree(tail, w, "password", "mac", "keyId", "one", "accessoryBattery", "one") \/ MadeTwo(tail, w, "password", "mac", "keyId", "one") \/ MadeOne(tail, w, "password", "mac")
  BY <1>2, <1>4, TailsThree
<1>6. ShortBytes(w)
  BY <1>5, AllWriteShort, OneShort, TwoShort, ThreeShort
<1>7. HasValue(tail, "password", "mac") /\ HasValue(tail, "keyId", "one") /\ HasValue(tail, "accessoryBattery", "one")
  BY <1>2, <1>5, OneHas, TwoHave, ThreeHave
<1>8. PiecesBytes(type, tail)
  BY <1>1, <1>2, <1>7, PiecesThreeBytes
<1> QED BY <1>6, <1>8

LEMMA KeypadShort ==
  ASSUME NEW type, OfType(type, 56), NEW tail \in Tails(type), NEW w, w = TailBytes(type, tail)
  PROVE  ShortBytes(w) /\ PiecesBytes(type, tail)
<1>1. LayoutTwo(type, Field("password", "mac"), Field("accessoryBattery", "one"), 1)
  BY KeypadDecoded DEF OfType
<1>2. /\ "password" \in Names /\ "accessoryBattery" \in Names /\ "password" # "accessoryBattery" /\ WritesBytes("mac") /\ WritesBytes("one")
  BY NamesAre, AllWriteBytes
<1>3. PICK least \in 1..2 : least = 1
  OBVIOUS
<1>4. LayoutTwo(type, Field("password", "mac"), Field("accessoryBattery", "one"), least)
  BY <1>1, <1>3
<1>5. MadeTwo(tail, w, "password", "mac", "accessoryBattery", "one") \/ MadeOne(tail, w, "password", "mac")
  BY <1>2, <1>4, TailsTwo
<1>6. ShortBytes(w)
  BY <1>5, AllWriteShort, OneShort, TwoShort
<1>7. HasValue(tail, "password", "mac") /\ HasValue(tail, "accessoryBattery", "one")
  BY <1>2, <1>5, OneHas, TwoHave
<1>8. PiecesBytes(type, tail)
  BY <1>1, <1>2, <1>7, PiecesTwoBytes
<1> QED BY <1>6, <1>8

LEMMA AddedShort ==
  ASSUME NEW type, OfType(type, 93), NEW tail \in Tails(type), NEW w, w = TailBytes(type, tail)
  PROVE  ShortBytes(w) /\ PiecesBytes(type, tail)
<1>1. LayoutThree(type, Field("password", "text"), Field("startDate", "date"), Field("endDate", "date"), 1)
  BY AddedDecoded DEF OfType
<1>2. /\ "password" \in Names /\ "startDate" \in Names /\ "endDate" \in Names /\ "password" # "startDate" /\ "password" # "endDate" /\ "startDate" # "endDate" /\ WritesBytes("text") /\ WritesBytes("date")
  BY NamesAre, AllWriteBytes
<1>3. PICK least \in 1..3 : least = 1
  OBVIOUS
<1>4. LayoutThree(type, Field("password", "text"), Field("startDate", "date"), Field("endDate", "date"), least)
  BY <1>1, <1>3
<1>5. MadeThree(tail, w, "password", "text", "startDate", "date", "endDate", "date") \/ MadeTwo(tail, w, "password", "text", "startDate", "date") \/ MadeOne(tail, w, "password", "text")
  BY <1>2, <1>4, TailsThree
<1>6. ShortBytes(w)
  BY <1>5, AllWriteShort, OneShort, TwoShort, ThreeShort
<1>7. HasValue(tail, "password", "text") /\ HasValue(tail, "startDate", "date") /\ HasValue(tail, "endDate", "date")
  BY <1>2, <1>5, OneHas, TwoHave, ThreeHave
<1>8. PiecesBytes(type, tail)
  BY <1>1, <1>2, <1>7, PiecesThreeBytes
<1> QED BY <1>6, <1>8

(* A type is one of those with a decoder, or of the others.                 *)
LEMMA TypesKnown ==
  ASSUME NEW type
  PROVE  \/ type \in AppTypes
         \/ OfType(type, 37)
         \/ type \in PasscodeTypes
         \/ OfType(type, 7)
         \/ OfType(type, 8)
         \/ type \in CardTypes
         \/ type \in SixByteIdTypes
         \/ type \in ShortIdTypes
         \/ type \in MacTypes
         \/ type \in {30, 31}
         \/ type \in FobTypes
         \/ OfType(type, 56)
         \/ OfType(type, 93)
         \/ OtherTypes(type)
BY Zenon DEF OtherTypes, OfType

(* What a type's decoder makes of a tail, whatever has come of it.           *)
LEMMA TailReads ==
  ASSUME NEW type, NEW tail \in Tails(type), NEW w, w = TailBytes(type, tail), NEW how, NEW t, Gets(how, t, w)
  PROVE  TailKept(how, type, tail, RecordTail(type, t))
BY TypesKnown, AppTailKept, RemoteTailKept, PairsTailKept, OnlyTailKept, ClearTailKept, CardTailKept, SixByteTailKept, ShortTailKept, MacTailKept, BatteryTailKept, FobTailKept, KeypadTailKept, AddedTailKept, OtherTailKept DEF OfType

(* The bytes of a tail of any type are few.                                 *)
LEMMA TailShort ==
  ASSUME NEW type, NEW tail \in Tails(type), NEW w, w = TailBytes(type, tail)
  PROVE  ShortBytes(w) /\ PiecesBytes(type, tail)
<1>1. CASE OtherTypes(type)
  <2>1. w = <<>>
    BY <1>1, OtherTailKept
  <2>2. Piece(type, tail, 1) = <<>> /\ Piece(type, tail, 2) = <<>> /\ Piece(type, tail, 3) = <<>>
    BY <1>1, OtherDecoded DEF Piece
  <2>3. <<>> \in Seq(Byte) /\ Len(<<>>) <= 30
    OBVIOUS
  <2>4. ShortBytes(w)
    BY <2>1, <2>3, Zenon DEF ShortBytes
  <2>5. PiecesBytes(type, tail)
    BY <2>2, <2>3, Zenon DEF PiecesBytes
  <2> QED BY <2>4, <2>5
<1> QED BY <1>1, TypesKnown, AppShort, RemoteShort, PairsShort, OnlyShort, ClearShort, CardShort, SixByteShort, ShortShort, MacShort, BatteryShort, FobShort, KeypadShort, AddedShort DEF OfType

----------------------------------------------------------------------------
(* The records: a header and a tail.                                        *)

(* The bytes of a record: its header, and its tail behind it.                *)
IsBody(body, type, stamp, battery, w) ==
  /\ body \in Seq(Byte) /\ w \in Seq(Byte) /\ stamp \in Seq(Byte) /\ type \in Byte /\ battery \in Byte
  /\ ByteIn(type, body, 0) /\ FieldAt(stamp, body, 1, 7) /\ ByteIn(battery, body, 7) /\ FieldAt(w, body, 8, Len(body))

(* The head of a record: its type, its stamp, its battery.                  *)
Header(type, stamp, battery) == (<<type>> \o stamp) \o <<battery>>

Stamped(type, stamp, battery) ==
  type \in Byte /\ stamp \in Seq(Byte) /\ Len(stamp) = 6 /\ battery \in Byte

IsHeader(h, type, stamp, battery) ==
  h \in Seq(Byte) /\ Len(h) = 8 /\ ByteIn(type, h, 0) /\ FieldAt(stamp, h, 1, 7) /\ ByteIn(battery, h, 7)

LEMMA HeaderIs ==
  ASSUME NEW type, NEW stamp, NEW battery, Stamped(type, stamp, battery), NEW h, h = Header(type, stamp, battery)
  PROVE  IsHeader(h, type, stamp, battery)
<1>0. PICK six \in Nat, eight \in Nat : six = 6 /\ eight = six + 2
  OBVIOUS
<1>0a. type \in Byte /\ stamp \in Seq(Byte) /\ Len(stamp) = six /\ battery \in Byte
  BY <1>0 DEF Stamped
<1>1. PICK t : t = <<type>>
  OBVIOUS
<1>2. t \in Seq(Byte) /\ Len(t) = 1 /\ t[1] = type
  BY <1>0a, <1>1, OneByte
<1>3. PICK u : u = <<battery>>
  OBVIOUS
<1>4. u \in Seq(Byte) /\ Len(u) = 1 /\ u[1] = battery
  BY <1>0a, <1>3, OneByte
<1>5. PICK one \in Nat : one = 1
  OBVIOUS
<1>6. PICK seven \in Nat : seven = 7 /\ seven = one + six
  BY <1>0, <1>5
<1>7. PICK x : x = t \o stamp
  OBVIOUS
<1>8. MadeOf(x, t, stamp, one, seven)
  BY <1>2, <1>5, <1>6, <1>7, <1>0a, Parts
<1>9. x \in Seq(Byte) /\ Len(x) = seven /\ Within(t, x, 0) /\ Within(stamp, x, one)
  BY <1>8 DEF MadeOf
<1>10. h = x \o u
  BY <1>1, <1>3, <1>7 DEF Header
<1>11. PICK e \in Nat : e = seven + Len(u)
  BY <1>4
<1>12. MadeOf(h, x, u, seven, e)
  BY <1>4, <1>9, <1>10, <1>11, Parts
<1>13. h \in Seq(Byte) /\ Len(h) = e /\ Within(x, h, 0) /\ Within(u, h, seven)
  BY <1>12 DEF MadeOf
<1>14. e = eight
  BY <1>4, <1>6, <1>11, <1>0
<1>15. Within(t, h, 0) /\ Within(stamp, h, one)
  BY <1>2, <1>9, <1>13, PartOfPart, <1>5, <1>0a
<1>16. ByteIn(type, h, 0)
  BY <1>2, <1>15 DEF Within, ByteIn
<1>17. ByteIn(battery, h, 7)
  BY <1>4, <1>6, <1>13 DEF Within, ByteIn
<1>18. FieldAt(stamp, h, 1, 7)
  BY <1>5, <1>6, <1>15, <1>0a DEF FieldAt
<1> QED BY <1>13, <1>14, <1>16, <1>17, <1>18, <1>0 DEF IsHeader

Grouped(a, b, c, d) == ((a \o b) \o c) \o d = a \o ((b \o c) \o d)

LEMMA Together ==
  ASSUME NEW a \in Seq(Byte), NEW b \in Seq(Byte), NEW c \in Seq(Byte), NEW d \in Seq(Byte)
  PROVE  Grouped(a, b, c, d)
<1>1. a \o b \in Seq(Byte) /\ b \o c \in Seq(Byte) /\ c \o d \in Seq(Byte)
  OBVIOUS
<1>2. (a \o b) \o c = a \o (b \o c)
  BY ConcatAssociative
<1>3. (a \o (b \o c)) \o d = a \o ((b \o c) \o d)
  BY <1>1, ConcatAssociative
<1> QED BY <1>2, <1>3 DEF Grouped

(* A record, as it is meant.                                                 *)
IsRecord(e, type, stamp, battery, tail) ==
  /\ e.type = type /\ e.date = Some(stamp) /\ e.battery = battery /\ e.tail = tail
  /\ type \in Byte /\ stamp \in Seq(Byte) /\ Len(stamp) = 6 /\ IsDate(stamp) /\ battery \in Byte
  /\ tail \in Tails(type)

(* The bytes of a record: its head and its tail.                            *)
LEMMA BodyIs ==
  ASSUME NEW e, NEW type, NEW stamp, NEW battery, NEW tail, IsRecord(e, type, stamp, battery, tail),
         NEW body, body = RecordBody(e), NEW w, w = TailBytes(type, tail)
  PROVE  IsBody(body, type, stamp, battery, w) /\ Len(body) = 8 + Len(w) /\ Len(w) <= 30
<1>1. PICK h : h = Header(type, stamp, battery)
  OBVIOUS
<1>2. PICK six \in Nat, eight \in Nat : six = 6 /\ eight = six + 2 /\ eight = 8
  OBVIOUS
<1>3. type \in Byte /\ stamp \in Seq(Byte) /\ Len(stamp) = six /\ battery \in Byte /\ tail \in Tails(type)
  BY <1>2 DEF IsRecord
<1>4. h \in Seq(Byte) /\ Len(h) = eight /\ ByteIn(type, h, 0) /\ FieldAt(stamp, h, 1, 7) /\ ByteIn(battery, h, 7)
  <2>1. Stamped(type, stamp, battery)
    BY DEF IsRecord, Stamped
  <2>2. IsHeader(h, type, stamp, battery)
    BY <1>1, <2>1, HeaderIs
  <2> QED BY <1>2, <2>2 DEF IsHeader
<1>5. ShortBytes(w) /\ PiecesBytes(type, tail)
  BY <1>3, TailShort
<1>6. \A n : FieldBytes(e, n) = Piece(type, tail, n)
  BY Zenon DEF FieldBytes, Piece, IsRecord
<1>7. e.date[1] = stamp
  BY SomeIs DEF IsRecord
<1>8. RecordBody(e) = ((h \o FieldBytes(e, 1)) \o FieldBytes(e, 2)) \o FieldBytes(e, 3)
  BY <1>1, <1>7, Zenon DEF RecordBody, Header, IsRecord
<1>9. body = ((h \o Piece(type, tail, 1)) \o Piece(type, tail, 2)) \o Piece(type, tail, 3)
  <2>1. FieldBytes(e, 1) = Piece(type, tail, 1)
    BY <1>6, Zenon
  <2>2. FieldBytes(e, 2) = Piece(type, tail, 2)
    BY <1>6, Zenon
  <2>3. FieldBytes(e, 3) = Piece(type, tail, 3)
    BY <1>6, Zenon
  <2>4. body = ((h \o FieldBytes(e, 1)) \o FieldBytes(e, 2)) \o FieldBytes(e, 3)
    BY <1>8
  <2> HIDE DEF Piece, FieldBytes
  <2> QED BY <2>1, <2>2, <2>3, <2>4
<1>10. Piece(type, tail, 1) \in Seq(Byte) /\ Piece(type, tail, 2) \in Seq(Byte) /\ Piece(type, tail, 3) \in Seq(Byte)
  BY <1>5 DEF PiecesBytes
<1>11. body = h \o w
  <2>1. ((h \o Piece(type, tail, 1)) \o Piece(type, tail, 2)) \o Piece(type, tail, 3)
          = h \o ((Piece(type, tail, 1) \o Piece(type, tail, 2)) \o Piece(type, tail, 3))
    <3>1. h \in Seq(Byte)
      BY <1>4
    <3>2. Grouped(h, Piece(type, tail, 1), Piece(type, tail, 2), Piece(type, tail, 3))
      BY <1>10, <3>1, Together
    <3> QED BY <3>2 DEF Grouped
  <2>2. w = (Piece(type, tail, 1) \o Piece(type, tail, 2)) \o Piece(type, tail, 3)
    BY Zenon DEF TailBytes
  <2> QED BY <1>9, <2>1, <2>2, Zenon
<1>12. w \in Seq(Byte) /\ Len(w) <= 30 /\ Len(w) \in Nat
  BY <1>5 DEF ShortBytes
<1>13. PICK n \in Nat : n = eight + Len(w)
  BY <1>12
<1>14. MadeOf(body, h, w, eight, n)
  BY <1>4, <1>11, <1>12, <1>13, Parts
<1>15. body \in Seq(Byte) /\ Len(body) = n /\ Within(h, body, 0) /\ Within(w, body, eight)
  BY <1>14 DEF MadeOf
<1>16. \A i \in 1..8 : body[i] = h[i]
  BY <1>2, <1>4, <1>15 DEF Within
<1>17. Len(body) >= 8
  BY <1>2, <1>12, <1>13, <1>15
<1>18. ByteIn(type, body, 0)
  BY <1>4, <1>16, <1>17 DEF ByteIn
<1>19. ByteIn(battery, body, 7)
  BY <1>4, <1>16, <1>17 DEF ByteIn
<1>20. FieldAt(stamp, body, 1, 7)
  <2>1. PICK one \in Nat, zero \in Nat : one = 1 /\ zero = 0 /\ one = zero + one
    OBVIOUS
  <2>2. Within(stamp, h, one) /\ 7 = one + Len(stamp)
    BY <1>4, <2>1 DEF FieldAt
  <2>3. Within(stamp, body, one)
    BY <1>3, <1>4, <1>15, <2>1, <2>2, PartOfPart
  <2> QED BY <2>1, <2>2, <2>3 DEF FieldAt
<1>21. FieldAt(w, body, 8, Len(body))
  BY <1>2, <1>13, <1>15 DEF FieldAt
<1> QED BY <1>2, <1>3, <1>12, <1>13, <1>15, <1>18, <1>19, <1>20, <1>21 DEF IsBody

(* An entry of the log, by what may become of its tail.                      *)
EntryFrom(number, type, stamp, battery, tail) ==
  [number |-> number, type |-> type, date |-> Some(stamp), battery |-> battery, tail |-> tail]

(* An entry of which the tail has come as the form says.                    *)
EntryComes(how, type, stamp, battery, tail, entry, number) ==
  \E is : TailKept(how, type, tail, is) /\ entry = EntryFrom(number, type, stamp, battery, is)

(* The tail of a record that has come at least as far as its header.         *)
LEMMA TailCame ==
  ASSUME NEW body \in Seq(Byte), NEW w \in Seq(Byte), NEW p \in Nat, FieldAt(w, body, p, Len(body)),
         NEW how, how \in Hows, NEW b, Came(how, b, body), Len(b) >= p,
         NEW t, t = From(b, p)
  PROVE  Gets(how, t, w)
<1>1. b \in Seq(Byte) /\ Agrees(b, body) /\ Len(b) \in Nat /\ Len(body) \in Nat
  BY DEF Came
<1>2. PICK n \in Nat : n = Len(b) - p
  BY <1>1
<1>3. t \in Seq(Byte) /\ Len(t) = n /\ Within(t, b, p)
  BY <1>1, <1>2, FromIs
<1>4. Len(w) \in Nat /\ Len(body) = p + Len(w) /\ Within(w, body, p)
  BY LengthIs DEF FieldAt
<1>5. Agrees(t, w)
  <2>1. ASSUME NEW i \in 1..Len(t), i <= Len(w) PROVE t[i] = w[i]
    <3>1. t[i] = b[p + i] /\ p + i \in 1..Len(b)
      BY <1>1, <1>2, <1>3 DEF Within
    <3>2. i \in 1..Len(w)
      BY <1>3, <1>4, <2>1
    <3>3. w[i] = body[p + i] /\ p + i <= Len(body)
      BY <1>4, <3>2 DEF Within
    <3>4. b[p + i] = body[p + i]
      BY <1>1, <3>1, <3>3 DEF Agrees
    <3> QED BY <3>1, <3>3, <3>4
  <2> QED BY <2>1 DEF Agrees
<1>6. how = "cut" => Len(t) < Len(w)
  BY <1>1, <1>2, <1>3, <1>4 DEF Came
<1>7. how = "extended" => Len(t) > Len(w)
  BY <1>1, <1>2, <1>3, <1>4 DEF Came
<1>8. ASSUME how = "whole" PROVE t = w
  <2>1. b = body
    BY <1>8 DEF Came
  <2>2. Len(t) = Len(w)
    BY <1>1, <1>2, <1>3, <1>4, <2>1
  <2>3. \A i \in 1..Len(t) : t[i] = w[i]
    BY <1>3, <1>5, <2>2 DEF Agrees
  <2> QED BY <1>3, <2>2, <2>3, SeqEqual
<1> QED BY <1>3, <1>4, <1>5, <1>6, <1>7, <1>8 DEF Gets, Came

(* The head of a record, when eight bytes have come.                        *)
LEMMA HeaderCame ==
  ASSUME NEW body, NEW type, NEW stamp, NEW battery, NEW w, IsBody(body, type, stamp, battery, w),
         Len(stamp) = 6, IsDate(stamp), NEW b \in Seq(Byte), Agrees(b, body), Len(b) >= 8
  PROVE  b[1] = type /\ b[8] = battery /\ Date(6, SubSeq(b, 2, 7)) = Some(stamp)
<1>1. body \in Seq(Byte) /\ Len(b) \in Nat /\ stamp \in Seq(Byte)
  BY LengthIs DEF IsBody
<1>2. At(b, 0) = type
  <2>1. ByteIn(type, body, 0) /\ 0 < Len(b)
    BY <1>1 DEF IsBody
  <2> QED BY <2>1, ByteAgreed
<1>3. At(b, 7) = battery
  <2>1. ByteIn(battery, body, 7) /\ 7 < Len(b)
    BY <1>1 DEF IsBody
  <2> QED BY <2>1, ByteAgreed
<1>4. Slice(b, 1, 7) = stamp
  <2>1. FieldAt(stamp, body, 1, 7) /\ 7 <= Len(b)
    BY <1>1 DEF IsBody
  <2> QED BY <1>1, <2>1, FieldRead
<1>5. SubSeq(b, 2, 7) = stamp
  <2>1. 7 <= Len(b) /\ 1 + 1 = 2
    BY <1>1
  <2> QED BY <1>4, <2>1 DEF Slice
<1>6. Slice(stamp, 0, 6) = stamp
  <2>1. Len(stamp) = 6 /\ stamp \in Seq(Byte)
    BY <1>1
  <2>2. SubSeq(stamp, 1, Len(stamp)) = stamp
    BY <2>1
  <2> QED BY <2>1, <2>2 DEF Slice
<1>7. Date(6, stamp) = Some(stamp)
  BY <1>6 DEF Date
<1>8. b[1] = type /\ b[8] = battery
  BY <1>2, <1>3 DEF At
<1>9. Date(6, SubSeq(b, 2, 7)) = Some(stamp)
  BY <1>5, <1>7, Zenon
<1> QED BY <1>8, <1>9

(* A record that has come whole, cut behind its head or with more behind it *)
(* is an entry whose tail is kept.                                          *)
LEMMA EntryCame ==
  ASSUME NEW body, NEW type, NEW stamp, NEW battery, NEW tail \in Tails(type), NEW w, w = TailBytes(type, tail),
         IsBody(body, type, stamp, battery, w), Len(stamp) = 6, IsDate(stamp),
         NEW how, how \in Hows, NEW b, Came(how, b, body), Len(b) >= 8, NEW number
  PROVE  EntryComes(how, type, stamp, battery, tail, EntryOf(b, number), number)
<1>1. b \in Seq(Byte) /\ Agrees(b, body)
  BY DEF Came
<1>2. b[1] = type /\ b[8] = battery /\ Date(6, SubSeq(b, 2, 7)) = Some(stamp)
  BY <1>1, HeaderCame
<1>3. PICK t : t = From(b, 8)
  OBVIOUS
<1>4. Gets(how, t, w)
  <2>1. PICK p \in Nat : p = 8
    OBVIOUS
  <2>2. body \in Seq(Byte) /\ w \in Seq(Byte) /\ FieldAt(w, body, p, Len(body)) /\ Len(b) >= p /\ t = From(b, p)
    BY <1>3, <2>1 DEF IsBody
  <2> QED BY <2>2, TailCame
<1>5. t = SubSeq(b, 9, Len(b))
  BY <1>3 DEF From
<1>6. TailKept(how, type, tail, RecordTail(type, t))
  BY <1>4, TailReads
<1>7. EntryOf(b, number) = EntryFrom(number, type, stamp, battery, RecordTail(type, t))
  BY <1>2, <1>5, Zenon DEF EntryOf, EntryFrom
<1> QED BY <1>6, <1>7 DEF EntryComes

(* A whole tail is read as it was written.                                   *)
LEMMA WholeTail ==
  ASSUME NEW type, NEW tail, NEW is, TailKept("whole", type, tail, is)
  PROVE  is = tail
<1>1. IsTail(tail) /\ IsTail(is) /\ \A f \in Names : is[f] = tail[f]
  BY DEF TailKept, Goes
<1> QED BY <1>1 DEF IsTail

(* A whole record is the entry that was written.                            *)
LEMMA WholeEntry ==
  ASSUME NEW type, NEW stamp, NEW battery, NEW tail, NEW entry, NEW number,
         EntryComes("whole", type, stamp, battery, tail, entry, number)
  PROVE  entry = EntryFrom(number, type, stamp, battery, tail)
BY WholeTail DEF EntryComes

(* An entry of a page, as it is meant.                                       *)
IsEntry(e, number) ==
  \E type, stamp, battery, tail :
    IsRecord(e, type, stamp, battery, tail) /\ e = EntryFrom(number, type, stamp, battery, tail)

(* A record the model's logs are made of.                                   *)
IsLog(r) == \E type, stamp, battery, tail : IsRecord(r, type, stamp, battery, tail)

(* All records of the model are such records.                               *)
LEMMA RecordsAre ==
  ASSUME NEW r \in Records
  PROVE  IsLog(r)
<1>1. PICK type \in Types : \E stamp \in Stamps, battery \in Levels, tail \in Tails(type) :
             r = [type |-> type, date |-> Some(stamp), battery |-> battery, tail |-> tail]
  BY DEF Records
<1>2. PICK stamp \in Stamps, battery \in Levels, tail \in Tails(type) :
             r = [type |-> type, date |-> Some(stamp), battery |-> battery, tail |-> tail]
  BY <1>1
<1>3. type \in Byte /\ battery \in Byte
  BY <1>1, <1>2, LayoutsAssumption
<1>4. r.type = type /\ r.date = Some(stamp) /\ r.battery = battery /\ r.tail = tail
  BY <1>2
<1>5. stamp \in Seq(Byte) /\ Len(stamp) = 6 /\ IsDate(stamp)
  BY <1>2, StampsAre
<1>6. IsRecord(r, type, stamp, battery, tail)
  BY <1>2, <1>3, <1>4, <1>5, Zenon DEF IsRecord
<1> QED BY <1>6 DEF IsLog

LEMMA PlainIs == IsLog(Plain)
<1>1. PICK type, stamp : type = 14 /\ stamp = <<25, 12, 31, 23, 59, 59>>
  OBVIOUS
<1>2. PICK battery : battery = 88
  OBVIOUS
<1>3. Plain.type = type /\ Plain.date = Some(stamp) /\ Plain.battery = battery /\ Plain.tail = EmptyTail
  BY <1>1, <1>2 DEF Plain
<1>4. stamp \in Seq(Byte) /\ Len(stamp) = 6
  BY <1>1 DEF Byte
<1>5. IsDate(stamp)
  BY <1>1 DEF IsDate, DaysIn
<1>6. type \in Byte /\ battery \in Byte
  BY <1>1, <1>2 DEF Byte
<1>7. OtherTypes(type)
  BY <1>1 DEF OtherTypes, AppTypes, PasscodeTypes, CardTypes, SixByteIdTypes, ShortIdTypes, MacTypes, FobTypes
<1>8. EmptyTail \in Tails(type)
  <2>1. Layout(type) = <<>> /\ Required(type) = 0
    BY <1>7, OtherDecoded
  <2>2. PICK z \in Nat : z = 0
    OBVIOUS
  <2>3. PICK fields : fields = Layout(type)
    OBVIOUS
  <2>4. Len(fields) = z /\ Required(type) = z
    BY <2>1, <2>2, <2>3
  <2> QED BY <2>2, <2>3, <2>4 DEF Tails
<1>9. IsRecord(Plain, type, stamp, battery, EmptyTail)
  BY <1>3, <1>4, <1>5, <1>6, <1>8, Zenon DEF IsRecord
<1> QED BY <1>9 DEF IsLog

(* A page, as it is meant.                                                   *)
IsPage(m, sequence, x, y, e1, e2) ==
  m = [sequence |-> sequence, entries |-> <<e1, e2>>] /\ IsEntry(e1, x) /\ IsEntry(e2, y)

Recorded(r, number) ==
  [number |-> number, type |-> r.type, date |-> r.date, battery |-> r.battery, tail |-> r.tail]

LEMMA EnteredIs ==
  ASSUME NEW r, IsLog(r), NEW number
  PROVE  IsEntry(Recorded(r, number), number)
<1>1. PICK type, stamp, battery, tail : IsRecord(r, type, stamp, battery, tail)
  BY DEF IsLog
<1>2. Recorded(r, number) = EntryFrom(number, type, stamp, battery, tail)
  BY <1>1, Zenon DEF Recorded, EntryFrom, IsRecord
<1>3. PICK e : e = Recorded(r, number)
  OBVIOUS
<1>4. e.type = r.type /\ e.date = r.date /\ e.battery = r.battery /\ e.tail = r.tail
  BY <1>3 DEF Recorded
<1>5. IsRecord(e, type, stamp, battery, tail)
  BY <1>1, <1>4, Zenon DEF IsRecord
<1> QED BY <1>2, <1>3, <1>5 DEF IsEntry

LEMMA NumberedIs ==
  ASSUME NEW r1, NEW r2, IsLog(r1), IsLog(r2), NEW sequence \in Nat, NEW x, x = sequence - 1, NEW y, y = sequence - 2
  PROVE  \E e1, e2 : IsPage(Numbered(sequence, <<r1, r2>>), sequence, x, y, e1, e2)
<1>1. PICK e1 : e1 = Recorded(r1, x)
  OBVIOUS
<1>2. PICK e2 : e2 = Recorded(r2, y)
  OBVIOUS
<1>3. PICK records : records = <<r1, r2>>
  OBVIOUS
<1>4. DOMAIN records = {1, 2} /\ records[1] = r1 /\ records[2] = r2
  BY <1>3
<1>5. PICK entries : entries = [k \in DOMAIN records |-> Recorded(records[k], sequence - k)]
  OBVIOUS
<1>6. Numbered(sequence, records) = [sequence |-> sequence, entries |-> entries]
  BY <1>5, Zenon DEF Numbered, Recorded
<1>7. entries[1] = e1 /\ entries[2] = e2 /\ entries = [k \in 1..2 |-> entries[k]]
  BY <1>1, <1>2, <1>4, <1>5
<1>8. entries = <<e1, e2>>
  BY <1>7
<1>9. IsEntry(e1, x) /\ IsEntry(e2, y)
  BY <1>1, <1>2, EnteredIs
<1> QED BY <1>3, <1>6, <1>8, <1>9 DEF IsPage

(* A page of the model is two such records, numbered down from its          *)
(* sequence.                                                                *)
LEMMA PagesSay ==
  ASSUME message \in LogPages, NEW sequence \in Nat, sequence = 40, NEW x, x = sequence - 1, NEW y, y = sequence - 2
  PROVE  \E e1, e2 : IsPage(meant, sequence, x, y, e1, e2)
<1>1. PICK r \in Records : message = Means("page", Numbered(sequence, <<r, Plain>>))
                           \/ message = Means("page", Numbered(sequence, <<Plain, r>>))
  BY DEF LogPages
<1>2. meant = Numbered(sequence, <<r, Plain>>) \/ meant = Numbered(sequence, <<Plain, r>>)
  BY <1>1, KindIs DEF meant
<1>3. IsLog(r) /\ IsLog(Plain)
  BY RecordsAre, PlainIs
<1> QED BY <1>2, <1>3, NumberedIs

----------------------------------------------------------------------------
(* The pages.                                                               *)

(* The data of a page: two words, and the two records.                      *)
PageWords(data, sequence) ==
  \E head \in Seq(Byte), number \in Seq(Byte) :
    /\ FieldAt(head, data, 0, 2) /\ Uint16(head) # 0
    /\ FieldAt(number, data, 2, 4) /\ Uint16(number) = sequence

(* A record with its length byte before it.                                 *)
CountedAs(c, b, n) ==
  c \in Seq(Byte) /\ Len(c) = n /\ ByteIn(Len(b), c, 0) /\ Within(b, c, 1)

LEMMA CountedIs ==
  ASSUME NEW b \in Seq(Byte), Len(b) \in Byte, NEW c, c = Counted(b), NEW n \in Nat, n = Len(b) + 1
  PROVE  CountedAs(c, b, n)
<1>1. PICK t : t = <<Len(b)>>
  OBVIOUS
<1>2. t \in Seq(Byte) /\ Len(t) = 1 /\ t[1] = Len(b)
  BY <1>1, OneByte
<1>3. PICK one \in Nat : one = 1
  OBVIOUS
<1>4. c = t \o b /\ one = Len(t) /\ n = one + Len(b)
  BY <1>1, <1>2, <1>3, LengthIs DEF Counted
<1>5. MadeOf(c, t, b, one, n)
  BY <1>2, <1>4, Parts
<1>6. c \in Seq(Byte) /\ Len(c) = n /\ Within(t, c, 0) /\ Within(b, c, one)
  BY <1>5 DEF MadeOf
<1>7. ByteIn(Len(b), c, 0)
  BY <1>2, <1>6 DEF Within, ByteIn
<1> QED BY <1>3, <1>6, <1>7 DEF CountedAs

(* A record behind its length, somewhere in the data.                        *)
LEMMA CountedAt ==
  ASSUME NEW b \in Seq(Byte), NEW c, NEW n \in Nat, CountedAs(c, b, n), n = Len(b) + 1,
         NEW data \in Seq(Byte), NEW p \in Nat, Within(c, data, p),
         NEW s \in Nat, s = p + 1, NEW e, e = p + n
  PROVE  ByteIn(Len(b), data, p) /\ FieldAt(b, data, s, e)
<1>1. c \in Seq(Byte) /\ Len(c) = n /\ ByteIn(Len(b), c, 0) /\ Within(b, c, 1) /\ Len(b) \in Nat
  BY LengthIs DEF CountedAs
<1>2. c[1] = Len(b) /\ 1 \in 1..Len(c)
  BY <1>1 DEF ByteIn
<1>3. data[p + 1] = c[1] /\ p + Len(c) <= Len(data) /\ Len(data) \in Nat
  BY <1>2, LengthIs DEF Within
<1>4. ByteIn(Len(b), data, p)
  BY <1>1, <1>2, <1>3 DEF ByteIn
<1>5. PICK one \in Nat : one = 1
  OBVIOUS
<1>6. Within(b, data, s)
  BY <1>1, <1>5, PartOfPart
<1>7. e = s + Len(b)
  BY <1>1
<1> QED BY <1>4, <1>6, <1>7 DEF FieldAt

(* The bytes of a page of two records: where each of them is.               *)
LEMMA PageIs ==
  ASSUME NEW b1 \in Seq(Byte), NEW b2 \in Seq(Byte), NEW most \in Nat, most = 200, Len(b1) + Len(b2) <= most,
         NEW sequence \in Byte, NEW bodies, bodies[1] = b1, bodies[2] = b2, NEW whole, whole = Page(sequence, bodies)
  PROVE  \E data, e1, s2, e2 :
           IsReply(whole, 0, data) /\ TwoRecords(data, b1, b2, e1, s2, e2) /\ PageWords(data, sequence)
<1>1. Len(b1) \in Nat /\ Len(b2) \in Nat
  BY LengthIs
<1>1a. PICK l1 \in Nat : l1 = Len(b1)
  BY <1>1
<1>1b. PICK l2 \in Nat : l2 = Len(b2)
  BY <1>1
<1>1c. l1 + l2 <= most
  BY <1>1a, <1>1b
<1>1d. l1 \in Byte /\ l2 \in Byte
  BY <1>1c DEF Byte
<1>2. Len(b1) \in Byte /\ Len(b2) \in Byte
  BY <1>1a, <1>1b, <1>1d
<1>3. PICK n1 \in Nat, n2 \in Nat : n1 = Len(b1) + 1 /\ n2 = Len(b2) + 1
  BY <1>1
<1>4. PICK c1 : c1 = Counted(b1)
  OBVIOUS
<1>5. PICK c2 : c2 = Counted(b2)
  OBVIOUS
<1>6. CountedAs(c1, b1, n1) /\ CountedAs(c2, b2, n2)
  BY <1>2, <1>3, <1>4, <1>5, CountedIs
<1>7. c1 \in Seq(Byte) /\ Len(c1) = n1 /\ c2 \in Seq(Byte) /\ Len(c2) = n2
  BY <1>6 DEF CountedAs
<1>8. PICK records : records = c1 \o c2
  OBVIOUS
<1>9. PICK n \in Nat : n = n1 + n2
  OBVIOUS
<1>10. MadeOf(records, c1, c2, n1, n)
  BY <1>7, <1>8, <1>9, Parts
<1>11. records \in Seq(Byte) /\ Len(records) = n /\ Within(c1, records, 0) /\ Within(c2, records, n1)
  BY <1>10 DEF MadeOf
<1>12. PICK h \in Nat : h = n + 2
  OBVIOUS
<1>13. h \in Byte /\ h # 0 /\ h = Len(records) + 2
  <2>1. h = l1 + l2 + 4
    BY <1>1a, <1>1b, <1>3, <1>9, <1>12
  <2>2. h \in Byte /\ h # 0
    BY <1>1c, <2>1 DEF Byte
  <2> QED BY <1>11, <1>12, <2>2
<1>14. PICK head : head = Padded(2, <<h>>)
  OBVIOUS
<1>15. head \in Seq(Byte) /\ Len(head) = 2 /\ Uint16(head) = h
  BY <1>13, <1>14, SmallPadded
<1>16. PICK number : number = Padded(2, <<sequence>>)
  OBVIOUS
<1>17. number \in Seq(Byte) /\ Len(number) = 2 /\ Uint16(number) = sequence
  BY <1>16, SmallPadded
<1>18. PICK two \in Nat, four \in Nat : two = 2 /\ four = 4 /\ four = two + two
  OBVIOUS
<1>19. PICK x : x = head \o number
  OBVIOUS
<1>20. MadeOf(x, head, number, two, four)
  BY <1>15, <1>17, <1>18, <1>19, Parts
<1>21. x \in Seq(Byte) /\ Len(x) = four /\ Within(head, x, 0) /\ Within(number, x, two)
  BY <1>20 DEF MadeOf
<1>22. PICK data : data = x \o records
  OBVIOUS
<1>23. PICK e2 \in Nat : e2 = four + Len(records)
  BY <1>11
<1>24. MadeOf(data, x, records, four, e2)
  BY <1>11, <1>21, <1>22, <1>23, Parts
<1>25. data \in Seq(Byte) /\ Len(data) = e2 /\ Within(x, data, 0) /\ Within(records, data, four)
  BY <1>24 DEF MadeOf
<1>26. PICK zero \in Nat : zero = 0
  OBVIOUS
<1>27. Within(head, data, zero) /\ Within(number, data, two)
  <2>1. Within(head, x, zero) /\ Within(x, data, zero) /\ zero = zero + zero /\ two = zero + two
    BY <1>21, <1>25, <1>26
  <2> QED BY <1>15, <1>17, <1>21, <1>25, <2>1, PartOfPart
<1>28. PICK e1 \in Nat : e1 = four + n1
  OBVIOUS
<1>29. Within(c1, data, four) /\ Within(c2, data, e1)
  <2>1. Within(c1, records, zero) /\ four = four + zero
    BY <1>11, <1>26
  <2> QED BY <1>7, <1>11, <1>25, <1>28, <2>1, PartOfPart
<1>30. PICK s1 \in Nat, s2 \in Nat : s1 = four + 1 /\ s2 = e1 + 1
  OBVIOUS
<1>31. ByteIn(Len(b1), data, four) /\ FieldAt(b1, data, s1, e1)
  BY <1>3, <1>6, <1>25, <1>28, <1>29, <1>30, CountedAt
<1>32. e2 = e1 + n2
  BY <1>9, <1>11, <1>23, <1>28
<1>33. ByteIn(Len(b2), data, e1) /\ FieldAt(b2, data, s2, e2)
  BY <1>3, <1>6, <1>25, <1>29, <1>30, <1>32, CountedAt
<1>34. s1 = 5
  BY <1>18, <1>30
<1>35. TwoRecords(data, b1, b2, e1, s2, e2)
  BY <1>18, <1>25, <1>30, <1>31, <1>33, <1>34 DEF TwoRecords
<1>36. FieldAt(head, data, 0, 2) /\ FieldAt(number, data, 2, 4)
  BY <1>15, <1>17, <1>18, <1>26, <1>27 DEF FieldAt
<1>37. PageWords(data, sequence)
  BY <1>13, <1>15, <1>17, <1>36 DEF PageWords
<1>38. whole = Reply(data)
  <2>1. records = Counted(bodies[1]) \o Counted(bodies[2])
    BY <1>4, <1>5, <1>8
  <2>2. Page(sequence, bodies) = Reply((Padded(2, <<Len(records) + 2>>) \o Padded(2, <<sequence>>)) \o records)
    BY <2>1, Zenon DEF Page
  <2>3. Padded(2, <<Len(records) + 2>>) = head
    BY <1>13, <1>14
  <2>4. Page(sequence, bodies) = Reply((head \o number) \o records)
    BY <2>2, <2>3, <1>16, Zenon
  <2> QED BY <2>4, <1>19, <1>22, Zenon
<1>39. IsReply(whole, 0, data)
  BY <1>38 DEF IsReply, Reply, Byte
<1> QED BY <1>35, <1>37, <1>39

(* What an entry of a page reads as.                                         *)
LEMMA IsRead ==
  ASSUME NEW e, NEW number, IsEntry(e, number), NEW b, b = RecordBody(e),
         NEW how, how \in Hows, NEW c, Came(how, c, b), Len(c) >= 8,
         NEW d \in Seq(Byte), NEW p \in Nat, Within(c, d, p), NEW q, q = p + Len(c)
  PROVE  \E type, stamp, battery, tail :
           /\ e = EntryFrom(number, type, stamp, battery, tail)
           /\ EntryComes(how, type, stamp, battery, tail, Entry(d, Spot(p, q), number), number)
<1>1. PICK type, stamp, battery, tail :
             IsRecord(e, type, stamp, battery, tail) /\ e = EntryFrom(number, type, stamp, battery, tail)
  BY DEF IsEntry
<1>2. PICK w : w = TailBytes(type, tail)
  OBVIOUS
<1>3. IsBody(b, type, stamp, battery, w)
  BY <1>1, <1>2, BodyIs
<1>4. Len(stamp) = 6 /\ IsDate(stamp) /\ tail \in Tails(type)
  BY <1>1 DEF IsRecord
<1>5. EntryComes(how, type, stamp, battery, tail, EntryOf(c, number), number)
  BY <1>2, <1>3, <1>4, EntryCame
<1>6. Entry(d, Spot(p, q), number) = EntryOf(c, number)
  <2>1. c \in Seq(Byte)
    BY DEF Came
  <2>2. Entry(d, [start |-> p, end |-> p + Len(c)], number) = EntryOf(c, number)
    BY <2>1, EntryIs
  <2> QED BY <2>2, Zenon DEF Spot
<1> QED BY <1>1, <1>5, <1>6

LEMMA CameWhole ==
  ASSUME NEW b \in Seq(Byte)
  PROVE  Came("whole", b, b)
BY LengthIs DEF Came, Agrees

(* The bytes of an entry.                                                    *)
LEMMA BytesAre ==
  ASSUME NEW e, NEW number, IsEntry(e, number), NEW b, b = RecordBody(e)
  PROVE  b \in Seq(Byte) /\ Len(b) \in 8..38
<1>1. PICK type, stamp, battery, tail : IsRecord(e, type, stamp, battery, tail)
  BY DEF IsEntry
<1>2. PICK w : w = TailBytes(type, tail)
  OBVIOUS
<1>3. IsBody(b, type, stamp, battery, w) /\ Len(b) = 8 + Len(w) /\ Len(w) <= 30
  BY <1>1, <1>2, BodyIs
<1>4. b \in Seq(Byte) /\ w \in Seq(Byte)
  BY <1>3 DEF IsBody
<1>5. PICK n \in Nat : n = Len(w)
  BY <1>4
<1>6. Len(b) = 8 + n /\ n <= 30
  BY <1>3, <1>5
<1> QED BY <1>4, <1>6

(* A record that is all in the data is read as it was written.              *)
LEMMA WholeRecord ==
  ASSUME NEW e, NEW number, IsEntry(e, number), NEW b, b = RecordBody(e),
         NEW d \in Seq(Byte), NEW p \in Nat, NEW q, FieldAt(b, d, p, q)
  PROVE  Entry(d, Spot(p, q), number) = e
<1>1. b \in Seq(Byte) /\ Len(b) >= 8
  <2>1. b \in Seq(Byte) /\ Len(b) \in 8..38
    BY BytesAre
  <2>2. PICK n \in 8..38 : n = Len(b)
    BY <2>1
  <2>3. n >= 8
    BY <2>2
  <2> QED BY <2>1, <2>2, <2>3
<1>2. PICK how : how = "whole" /\ how \in Hows
  BY DEF Hows
<1>3. Came(how, b, b)
  BY <1>1, <1>2, CameWhole
<1>4. Within(b, d, p) /\ q = p + Len(b)
  BY DEF FieldAt
<1>5. PICK type, stamp, battery, tail :
             /\ e = EntryFrom(number, type, stamp, battery, tail)
             /\ EntryComes(how, type, stamp, battery, tail, Entry(d, Spot(p, q), number), number)
  BY <1>1, <1>2, <1>3, <1>4, IsRead
<1> QED BY <1>2, <1>5, WholeEntry

(* A record that is written shorter or longer.                               *)
RecordHolds(how, was, is) ==
  /\ [is EXCEPT !.tail = was.tail] = was
  /\ \A f \in DOMAIN was.tail :
       \/ Stretches(was.type, f)
       \/ is.tail[f] = was.tail[f]
       \/ IF how = "cut" THEN is.tail[f] = None ELSE was.tail[f] = None

(* An entry whose tail is kept holds what was written.                      *)
LEMMA HoldsOf ==
  ASSUME NEW how, how \in {"cut", "extended"}, NEW number, NEW type, NEW stamp, NEW battery, NEW tail,
         NEW was, was = EntryFrom(number, type, stamp, battery, tail),
         NEW is, EntryComes(how, type, stamp, battery, tail, is, number)
  PROVE  RecordHolds(how, was, is)
<1>1. PICK new : TailKept(how, type, tail, new) /\ is = EntryFrom(number, type, stamp, battery, new)
  BY DEF EntryComes
<1>2. was.tail = tail /\ was.type = type /\ is.tail = new
  BY <1>1 DEF EntryFrom
<1>3. [is EXCEPT !.tail = was.tail] = was
  BY <1>1, <1>2 DEF EntryFrom
<1>4. IsTail(tail) /\ \A f \in Names : Goes(how, type, f, tail[f], new[f])
  BY <1>1 DEF TailKept
<1>5. DOMAIN tail = Names
  BY <1>4 DEF IsTail
<1>6. ASSUME NEW f \in DOMAIN was.tail
      PROVE  \/ Stretches(was.type, f)
             \/ is.tail[f] = was.tail[f]
             \/ IF how = "cut" THEN is.tail[f] = None ELSE was.tail[f] = None
  <2>1. Goes(how, type, f, tail[f], new[f])
    BY <1>2, <1>4, <1>5, <1>6
  <2> QED BY <1>2, <2>1 DEF Goes
<1> QED BY <1>3, <1>6 DEF RecordHolds

(* A record that was written shorter or longer, and has its head, holds     *)
(* what was written of it.                                                  *)
LEMMA ChangedRecord ==
  ASSUME NEW e, NEW number, IsEntry(e, number), NEW b, b = RecordBody(e),
         NEW how, how \in {"cut", "extended"}, NEW c, Came(how, c, b), Len(c) >= 8,
         NEW d \in Seq(Byte), NEW p \in Nat, NEW q, FieldAt(c, d, p, q)
  PROVE  RecordHolds(how, e, Entry(d, Spot(p, q), number))
<1>1. how \in Hows
  BY DEF Hows
<1>2. Within(c, d, p) /\ q = p + Len(c)
  BY DEF FieldAt
<1>3. PICK type, stamp, battery, tail :
             /\ e = EntryFrom(number, type, stamp, battery, tail)
             /\ EntryComes(how, type, stamp, battery, tail, Entry(d, Spot(p, q), number), number)
  BY <1>1, <1>2, IsRead
<1> QED BY <1>3, HoldsOf

(* What is read of a page.                                                   *)
PageOf(d, records, sequence) ==
  [entries |-> [k \in DOMAIN records |-> Entry(d, records[k], sequence - k)], sequence |-> sequence]

(* A record without the eight bytes of its head: the reader raises an       *)
(* IndexError.                                                              *)
Overruns(d, records) == \E k \in DOMAIN records : records[k].start + 7 >= Len(d)

(* The page at the end of the log.                                          *)
NoPage == [entries |-> <<>>, sequence |-> 0]

LEMMA PageOutcome ==
  ASSUME NEW plain, NEW echo, NEW data, NEW d, Opened(plain, echo, data, d), NEW records, records = Split(d),
         NEW sequence, sequence = Uint16(Slice(d, 2, 4))
  PROVE  OperateLogPage(plain) =
           IF Len(d) < 2 \/ Uint16(Slice(d, 0, 2)) = 0 THEN Returns(NoPage)
           ELSE IF Overruns(d, records) THEN Raises("IndexError")
           ELSE Returns(PageOf(d, records, sequence))
<1>1. PICK e : e = Envelope(plain)
  OBVIOUS
<1>2. e = Returns([echo |-> echo, status |-> SUCCESS, data |-> d])
  BY <1>1 DEF Opened
<1>3. Returned(e) /\ e.value.status = SUCCESS /\ e.value.data = d
  BY <1>2 DEF Returns, Returned
<1>4. OperateLogPage(plain) =
        IF ~Returned(e) THEN e
        ELSE IF \/ e.value.status # SUCCESS
                \/ Len(d) < 2 \/ Uint16(Slice(d, 0, 2)) = 0
             THEN Returns(NoPage)
        ELSE IF Overruns(d, records) THEN Raises("IndexError")
        ELSE Returns(PageOf(d, records, sequence))
  BY <1>1, <1>3, Zenon DEF OperateLogPage, NoPage, Overruns, PageOf
<1> QED BY <1>3, <1>4

Paged(d, records, sequence) ==
  IF Overruns(d, records) THEN Raises("IndexError") ELSE Returns(PageOf(d, records, sequence))

(* A page, as far as its data has come.                                      *)
PageComes(d, records, sequence, page) ==
  /\ Len(d) < 2 => page = Returns(NoPage)
  /\ Len(d) >= 2 => \E s : /\ Len(d) >= 4 => s = sequence
                           /\ page = Paged(d, records, s)

(* What operate_log makes of what came.                                     *)
LEMMA PageCame ==
  ASSUME NEW plain, NEW echo, NEW data, NEW d, Opened(plain, echo, data, d), NEW records, records = Split(d),
         data \in Seq(Byte), NEW sequence, PageWords(data, sequence)
  PROVE  PageComes(d, records, sequence, OperateLogPage(plain))
<1>1. PICK s : s = Uint16(Slice(d, 2, 4))
  OBVIOUS
<1>2. OperateLogPage(plain) =
        IF Len(d) < 2 \/ Uint16(Slice(d, 0, 2)) = 0 THEN Returns(NoPage)
        ELSE IF Overruns(d, records) THEN Raises("IndexError")
        ELSE Returns(PageOf(d, records, s))
  BY <1>1, PageOutcome
<1>3. d \in Seq(Byte) /\ Agrees(d, data) /\ Len(d) \in Nat
  BY LengthIs DEF Opened
<1>4. PICK head \in Seq(Byte), number \in Seq(Byte) :
        /\ FieldAt(head, data, 0, 2) /\ Uint16(head) # 0
        /\ FieldAt(number, data, 2, 4) /\ Uint16(number) = sequence
  BY DEF PageWords
<1>5. Len(d) >= 2 => Slice(d, 0, 2) = head
  <2>1. ASSUME 2 <= Len(d) PROVE Slice(d, 0, 2) = head
    BY <1>3, <1>4, <2>1, FieldRead
  <2> QED BY <1>3, <2>1
<1>6. Len(d) >= 4 => Slice(d, 2, 4) = number
  <2>1. ASSUME 4 <= Len(d) PROVE Slice(d, 2, 4) = number
    BY <1>3, <1>4, <2>1, FieldRead
  <2> QED BY <1>3, <2>1
<1>7. CASE Len(d) < 2
  BY <1>2, <1>3, <1>7 DEF PageComes
<1>8. CASE Len(d) >= 2
  <2>1. Uint16(Slice(d, 0, 2)) # 0 /\ ~(Len(d) < 2)
    BY <1>3, <1>4, <1>5, <1>8
  <2>2. OperateLogPage(plain) = IF Overruns(d, records) THEN Raises("IndexError") ELSE Returns(PageOf(d, records, s))
    BY <1>2, <2>1, Zenon
  <2>3. Len(d) >= 4 => s = sequence
    BY <1>1, <1>4, <1>6
  <2>4. OperateLogPage(plain) = Paged(d, records, s)
    BY <2>2, Zenon DEF Paged
  <2> QED BY <2>1, <2>3, <2>4 DEF PageComes
<1> QED BY <1>3, <1>7, <1>8

(* The entries of no, one, two and more records.                             *)
LEMMA NoneOf ==
  ASSUME NEW d, NEW s
  PROVE  PageOf(d, <<>>, s).entries = <<>>
<1>1. PICK records : records = <<>>
  OBVIOUS
<1>2. DOMAIN records = {}
  BY <1>1
<1>3. PageOf(d, records, s).entries = [k \in DOMAIN records |-> Entry(d, records[k], s - k)]
  BY DEF PageOf
<1>4. [k \in DOMAIN records |-> Entry(d, records[k], s - k)] = <<>>
  BY <1>2
<1> QED BY <1>1, <1>3, <1>4

LEMMA OneOf ==
  ASSUME NEW d, NEW s \in Nat, NEW x, NEW n, n = s - 1, NEW records, records = <<x>>
  PROVE  PageOf(d, records, s).entries = <<Entry(d, x, n)>>
<1>1. DOMAIN records = {1} /\ records[1] = x
  OBVIOUS
<1>2. PICK entries : entries = [k \in DOMAIN records |-> Entry(d, records[k], s - k)]
  OBVIOUS
<1>3. PageOf(d, records, s).entries = entries
  BY <1>2 DEF PageOf
<1>4. PICK e : e = Entry(d, x, n)
  OBVIOUS
<1>5. entries = [k \in {1} |-> entries[k]] /\ entries[1] = e
  BY <1>1, <1>2, <1>4
<1>6. entries = <<e>>
  BY <1>5
<1> QED BY <1>3, <1>4, <1>6

LEMMA TwoOf ==
  ASSUME NEW d, NEW s \in Nat, NEW x, NEW y, NEW n, n = s - 1, NEW m, m = s - 2, NEW records, records = <<x, y>>
  PROVE  PageOf(d, records, s).entries = <<Entry(d, x, n), Entry(d, y, m)>>
<1>1. DOMAIN records = {1, 2} /\ records[1] = x /\ records[2] = y
  OBVIOUS
<1>2. PICK entries : entries = [k \in DOMAIN records |-> Entry(d, records[k], s - k)]
  OBVIOUS
<1>3. PageOf(d, records, s).entries = entries
  BY <1>2 DEF PageOf
<1>4. PICK e : e = Entry(d, x, n)
  OBVIOUS
<1>5. PICK f : f = Entry(d, y, m)
  OBVIOUS
<1>6. entries = [k \in 1..2 |-> entries[k]] /\ entries[1] = e /\ entries[2] = f
  BY <1>1, <1>2, <1>4, <1>5
<1>7. entries = <<e, f>>
  BY <1>6
<1> QED BY <1>3, <1>4, <1>5, <1>7

IsRow(entries, h) == h >= 2 /\ entries = [k \in 1..h |-> entries[k]]

LEMMA TwoFirst ==
  ASSUME NEW entries, NEW h \in Nat, IsRow(entries, h)
  PROVE  SubSeq(entries, 1, 2) = <<entries[1], entries[2]>>
<1>1. PICK S : S = {entries[k] : k \in 1..h}
  OBVIOUS
<1>2. \A k \in 1..h : entries[k] \in S
  BY <1>1
<1>3. entries \in [1..h -> S]
  BY <1>2 DEF IsRow
<1>4. entries \in Seq(S) /\ Len(entries) = h
  BY <1>3
<1>5. SubSeq(entries, 1, 2) \in Seq(S) /\ Len(SubSeq(entries, 1, 2)) = 2
        /\ SubSeq(entries, 1, 2)[1] = entries[1] /\ SubSeq(entries, 1, 2)[2] = entries[2]
  BY <1>4 DEF IsRow
<1>6. PICK u : u = SubSeq(entries, 1, 2)
  OBVIOUS
<1>7. u = [k \in 1..2 |-> u[k]] /\ u[1] = entries[1] /\ u[2] = entries[2]
  BY <1>5, <1>6
<1>8. u = <<entries[1], entries[2]>>
  BY <1>7
<1> QED BY <1>6, <1>8

StartsWith(records, x, y) == \E rest \in Seq(Place) : records = <<x>> \o (<<y>> \o rest)

(* The first two entries of a page, whatever is found behind them.          *)
LEMMA ManyOf ==
  ASSUME NEW d, NEW s \in Nat, NEW x \in Place, NEW y \in Place, NEW n, n = s - 1, NEW m, m = s - 2,
         NEW records, StartsWith(records, x, y)
  PROVE  SubSeq(PageOf(d, records, s).entries, 1, 2) = <<Entry(d, x, n), Entry(d, y, m)>>
<1>0. PICK rest \in Seq(Place) : records = <<x>> \o (<<y>> \o rest)
  BY DEF StartsWith
<1>1. PICK l \in Nat : l = Len(rest)
  OBVIOUS
<1>2. PICK more : more = <<y>> \o rest
  OBVIOUS
<1>3. more \in Seq(Place) /\ Len(more) = l + 1 /\ more[1] = y
  BY <1>0, <1>1, <1>2, Ahead
<1>4. records \in Seq(Place) /\ Len(records) = l + 2 /\ records[1] = x /\ records[2] = y
  <2>1. records \in Seq(Place) /\ Len(records) = Len(more) + 1 /\ records[1] = x /\ \A j \in 1..Len(more) : records[j + 1] = more[j]
    BY <1>0, <1>2, <1>3, Ahead
  <2>2. records[1 + 1] = more[1]
    BY <1>3, <2>1
  <2> QED BY <1>3, <2>1, <2>2
<1>5. PICK entries : entries = [k \in 1..(l + 2) |-> Entry(d, records[k], s - k)]
  OBVIOUS
<1>6. DOMAIN records = 1..(l + 2)
  BY <1>4
<1>7. PageOf(d, records, s).entries = entries
  BY <1>5, <1>6 DEF PageOf
<1>8. PICK e : e = Entry(d, x, n)
  OBVIOUS
<1>9. PICK f : f = Entry(d, y, m)
  OBVIOUS
<1>10. entries[1] = e /\ entries[2] = f
  <2>1. 1 \in 1..(l + 2) /\ 2 \in 1..(l + 2)
    OBVIOUS
  <2>2. entries[1] = Entry(d, x, n)
    BY <1>4, <1>5, <2>1
  <2>3. entries[2] = Entry(d, y, m)
    BY <1>4, <1>5, <2>1
  <2> QED BY <1>8, <1>9, <2>2, <2>3
<1>11. PICK h : h = l + 2 /\ h \in Nat /\ h >= 2
  OBVIOUS
<1>12. IsRow(entries, h)
  BY <1>5, <1>11 DEF IsRow
<1>13. SubSeq(entries, 1, 2) = <<entries[1], entries[2]>>
  BY <1>11, <1>12, TwoFirst
<1> QED BY <1>7, <1>8, <1>9, <1>10, <1>13

(* What is read of a page whose records are whole.                           *)
PageReads(d, page, sequence, e1, e2, last) ==
  /\ Len(d) = last => page = Returns([entries |-> <<e1, e2>>, sequence |-> sequence])
  /\ Len(d) > last /\ Returned(page) =>
       page.value.sequence = sequence /\ SubSeq(page.value.entries, 1, 2) = <<e1, e2>>
  /\ Len(d) < last /\ Returned(page) =>
       page.value.entries = <<>> \/ (page.value.sequence = sequence /\ page.value.entries = <<e1>>)

(* Where the records of a page are.                                         *)
LEMMA EndsAre ==
  ASSUME NEW b1 \in Seq(Byte), NEW b2 \in Seq(Byte), NEW data, NEW f1, NEW s2, NEW f2,
         TwoRecords(data, b1, b2, f1, s2, f2)
  PROVE  /\ data \in Seq(Byte) /\ Len(data) = f2 /\ f1 \in Nat /\ s2 \in Nat /\ f2 \in Nat
         /\ f1 = 5 + Len(b1) /\ s2 = f1 + 1 /\ f2 = s2 + Len(b2)
         /\ FieldAt(b1, data, 5, f1) /\ FieldAt(b2, data, s2, f2)
         /\ Len(b1) \in Nat /\ Len(b2) \in Nat
BY LengthIs DEF TwoRecords, FieldAt

LEMMA FieldAgreed ==
  ASSUME NEW d \in Seq(Byte), NEW data \in Seq(Byte), Agrees(d, data), NEW b \in Seq(Byte),
         NEW p \in Nat, NEW q, FieldAt(b, data, p, q), q <= Len(d)
  PROVE  FieldAt(b, d, p, q)
<1>1. Within(b, data, p) /\ q = p + Len(b)
  BY DEF FieldAt
<1>2. p + Len(b) <= Len(d)
  BY <1>1
<1>3. Within(b, d, p)
  BY <1>1, <1>2, WithinAgreed
<1> QED BY <1>1, <1>3 DEF FieldAt

(* Two records that have their heads.                                       *)
LEMMA NoOverrun ==
  ASSUME NEW d, NEW s1 \in Nat, NEW f1 \in Nat, NEW s2 \in Nat, NEW f2 \in Nat,
         NEW n \in Nat, Len(d) = n, s1 + 7 < n, s2 + 7 < n, NEW records, records = <<Spot(s1, f1), Spot(s2, f2)>>
  PROVE  ~Overruns(d, records)
<1>1. PICK x : x = Spot(s1, f1) /\ x.start = s1
  BY SpotsAre
<1>2. PICK y : y = Spot(s2, f2) /\ y.start = s2
  BY SpotsAre
<1>3. DOMAIN records = {1, 2} /\ records[1] = x /\ records[2] = y
  BY <1>1, <1>2
<1> QED BY <1>1, <1>2, <1>3 DEF Overruns

LEMMA PagedIs ==
  ASSUME NEW d, NEW records, NEW s
  PROVE  /\ Returned(Paged(d, records, s)) => Paged(d, records, s) = Returns(PageOf(d, records, s))
         /\ ~Overruns(d, records) => Paged(d, records, s) = Returns(PageOf(d, records, s))
         /\ PageOf(d, records, s).sequence = s
         /\ PageOf(d, records, s) = [entries |-> PageOf(d, records, s).entries, sequence |-> s]
<1>1. Overruns(d, records) => ~Returned(Paged(d, records, s))
  BY DEF Paged, Returned, Raises
<1>2. ~Overruns(d, records) => Paged(d, records, s) = Returns(PageOf(d, records, s))
  BY DEF Paged
<1>3. PICK entries : entries = [k \in DOMAIN records |-> Entry(d, records[k], s - k)]
  OBVIOUS
<1>4. PageOf(d, records, s) = [entries |-> entries, sequence |-> s]
  BY <1>3, Zenon DEF PageOf
<1>5. PageOf(d, records, s).entries = entries /\ PageOf(d, records, s).sequence = s
  BY <1>4
<1> QED BY <1>1, <1>2, <1>4, <1>5

LEMMA ValueIs == \A v : Returns(v).value = v /\ Returned(Returns(v))
BY DEF Returns, Returned

(* The data of a page: its two records, one behind the other.               *)
WholePage(e1, e2, sequence, data, f1, s2, f2) ==
  \E x, y : /\ sequence \in Nat /\ x = sequence - 1 /\ y = sequence - 2
            /\ IsEntry(e1, x) /\ IsEntry(e2, y)
            /\ TwoRecords(data, RecordBody(e1), RecordBody(e2), f1, s2, f2)

(* A page of which anything came is read as the records that came whole,    *)
(* and of the last one what came of it.                                     *)
LEMMA PageIsRead ==
  ASSUME NEW e1, NEW e2, NEW sequence, NEW data, NEW f1, NEW s2, NEW f2,
         WholePage(e1, e2, sequence, data, f1, s2, f2),
         NEW d \in Seq(Byte), Agrees(d, data), NEW records, records = Split(d),
         NEW page, PageComes(d, records, sequence, page)
  PROVE  PageReads(d, page, sequence, e1, e2, f2)
<1>1. PICK x, y : /\ sequence \in Nat /\ x = sequence - 1 /\ y = sequence - 2
                  /\ IsEntry(e1, x) /\ IsEntry(e2, y)
                  /\ TwoRecords(data, RecordBody(e1), RecordBody(e2), f1, s2, f2)
  BY DEF WholePage
<1>2. PICK b1 : b1 = RecordBody(e1)
  OBVIOUS
<1>3. PICK b2 : b2 = RecordBody(e2)
  OBVIOUS
<1>4. b1 \in Seq(Byte) /\ Len(b1) \in 8..38 /\ b2 \in Seq(Byte) /\ Len(b2) \in 8..38
  BY <1>1, <1>2, <1>3, BytesAre
<1>5. TwoRecords(data, b1, b2, f1, s2, f2)
  BY <1>1, <1>2, <1>3
<1>6. /\ data \in Seq(Byte) /\ Len(data) = f2 /\ f1 \in Nat /\ s2 \in Nat /\ f2 \in Nat
      /\ f1 = 5 + Len(b1) /\ s2 = f1 + 1 /\ f2 = s2 + Len(b2)
      /\ FieldAt(b1, data, 5, f1) /\ FieldAt(b2, data, s2, f2)
  BY <1>4, <1>5, EndsAre
<1>6a. f1 \in Nat /\ s2 \in Nat /\ f2 \in Nat
  BY <1>6
<1>7. SplitCame(d, records, f1, s2, f2)
  BY <1>4, <1>5, TwoFound
<1>8. PICK l \in Nat : l = Len(d)
  BY LengthIs
<1>9. PICK n1 \in 8..38, n2 \in 8..38 : n1 = Len(b1) /\ n2 = Len(b2)
  BY <1>4
<1>10. PICK five \in Nat : five = 5
  OBVIOUS
<1>11. f1 = five + n1 /\ s2 = f1 + 1 /\ f2 = s2 + n2
  BY <1>6, <1>9, <1>10
<1>12. /\ f1 <= l => FieldAt(b1, d, five, f1)
       /\ f2 <= l => FieldAt(b2, d, s2, f2)
  <2>1. ASSUME f1 <= l PROVE FieldAt(b1, d, five, f1)
    <3>1. FieldAt(b1, data, five, f1) /\ f1 <= Len(d)
      BY <1>6, <1>8, <1>10, <2>1
    <3> QED BY <1>4, <1>6, <3>1, FieldAgreed
  <2>2. ASSUME f2 <= l PROVE FieldAt(b2, d, s2, f2)
    <3>1. FieldAt(b2, data, s2, f2) /\ f2 <= Len(d)
      BY <1>6, <1>8, <2>2
    <3> QED BY <1>4, <1>6, <3>1, FieldAgreed
  <2> QED BY <2>1, <2>2
<1>13. /\ f1 <= l => Entry(d, Spot(five, f1), x) = e1
       /\ f2 <= l => Entry(d, Spot(s2, f2), y) = e2
  <2>1. ASSUME f1 <= l PROVE Entry(d, Spot(five, f1), x) = e1
    BY <1>1, <1>2, <1>12, <2>1, WholeRecord
  <2>2. ASSUME f2 <= l PROVE Entry(d, Spot(s2, f2), y) = e2
    BY <1>1, <1>3, <1>6, <1>12, <2>2, WholeRecord
  <2> QED BY <2>1, <2>2
<1>14. l < 2 => page = Returns(NoPage)
  BY <1>8 DEF PageComes
<1>15. ASSUME l >= 2 PROVE \E s : (l >= 4 => s = sequence) /\ page = Paged(d, records, s)
  BY <1>8, <1>15 DEF PageComes
<1>16. f1 >= 13 /\ f1 < f2
  BY <1>10, <1>11
<1>17. CASE l = f2
  <2>1. records = <<Spot(five, f1), Spot(s2, f2)>>
    BY <1>7, <1>8, <1>10, <1>17 DEF SplitCame
  <2>2. l >= 4 /\ l >= 2
    BY <1>6a, <1>16, <1>17
  <2>3. page = Paged(d, records, sequence)
    BY <1>15, <2>2
  <2>4. five + 7 < l /\ s2 + 7 < l
    BY <1>10, <1>11, <1>16, <1>17
  <2>5. ~Overruns(d, records)
    BY <1>6, <1>8, <2>1, <2>4, NoOverrun
  <2>6. PageOf(d, records, sequence).entries = <<Entry(d, Spot(five, f1), x), Entry(d, Spot(s2, f2), y)>>
    BY <1>1, <2>1, TwoOf
  <2>7. PageOf(d, records, sequence).entries = <<e1, e2>>
    <3>1. f1 <= l /\ f2 <= l
      BY <1>6a, <1>16, <1>17
    <3>2. Entry(d, Spot(five, f1), x) = e1 /\ Entry(d, Spot(s2, f2), y) = e2
      BY <1>13, <3>1
    <3> QED BY <2>6, <3>2, Zenon
  <2>8. page = Returns([entries |-> <<e1, e2>>, sequence |-> sequence])
    BY <2>3, <2>5, <2>7, PagedIs
  <2>9. ~(Len(d) > f2) /\ ~(Len(d) < f2)
    BY <1>8, <1>17
  <2> QED BY <2>8, <2>9 DEF PageReads
<1>18. CASE l > f2
  <2>1. StartsWith(records, Spot(five, f1), Spot(s2, f2))
    <3>1. Len(d) >= f2
      BY <1>6a, <1>8, <1>18
    <3> QED BY <1>7, <1>10, <3>1 DEF SplitCame, StartsWith
  <2>2. l >= 4 /\ l >= 2 /\ f1 <= l /\ f2 <= l
    BY <1>6a, <1>16, <1>18
  <2>3. page = Paged(d, records, sequence)
    BY <1>15, <2>2
  <2>4. Spot(five, f1) \in Place /\ Spot(s2, f2) \in Place
    BY <1>6, SpotsAre
  <2>5. SubSeq(PageOf(d, records, sequence).entries, 1, 2) = <<Entry(d, Spot(five, f1), x), Entry(d, Spot(s2, f2), y)>>
    BY <1>1, <2>1, <2>4, ManyOf
  <2>6. SubSeq(PageOf(d, records, sequence).entries, 1, 2) = <<e1, e2>>
    BY <1>13, <2>2, <2>5
  <2>7. Returned(page) => page = Returns(PageOf(d, records, sequence))
    BY <2>3, PagedIs
  <2>8. Returned(page) => page.value.sequence = sequence /\ SubSeq(page.value.entries, 1, 2) = <<e1, e2>>
    BY <2>6, <2>7, ValueIs, PagedIs
  <2>9. ~(Len(d) = f2) /\ ~(Len(d) < f2)
    BY <1>6a, <1>8, <1>18
  <2> QED BY <2>8, <2>9 DEF PageReads
<1>19. CASE l < f2
  <2>1. ~(Len(d) = f2) /\ ~(Len(d) > f2)
    BY <1>6a, <1>8, <1>19
  <2>2. Returned(page) => page.value.entries = <<>> \/ (page.value.sequence = sequence /\ page.value.entries = <<e1>>)
    <3>1. CASE l < 2
      <4>1. page.value = NoPage
        BY <1>14, <3>1, ValueIs
      <4> QED BY <4>1 DEF NoPage
    <3>2. CASE l >= 2 /\ l < f1
      <4>1. records = <<>>
        BY <1>7, <1>8, <3>2 DEF SplitCame
      <4>2. PICK s : page = Paged(d, records, s)
        BY <1>15, <3>2
      <4>3. Returned(page) => page.value.entries = PageOf(d, records, s).entries
        BY <4>2, PagedIs, ValueIs
      <4> QED BY <4>1, <4>3, NoneOf
    <3>3. CASE f1 <= l
      <4>1. records = <<Spot(five, f1)>>
        BY <1>7, <1>8, <1>10, <1>19, <3>3 DEF SplitCame
      <4>2. l >= 2 /\ l >= 4
        BY <1>6a, <1>16, <3>3
      <4>3. page = Paged(d, records, sequence)
        BY <1>15, <4>2
      <4>4. Returned(page) => page.value = PageOf(d, records, sequence)
        BY <4>3, PagedIs, ValueIs
      <4>5. PageOf(d, records, sequence).entries = <<Entry(d, Spot(five, f1), x)>>
        BY <1>1, <4>1, OneOf
      <4>6. PageOf(d, records, sequence).entries = <<e1>>
        BY <1>13, <3>3, <4>5
      <4> QED BY <4>4, <4>6, PagedIs
    <3> QED BY <1>6, <3>1, <3>2, <3>3
  <2> QED BY <2>1, <2>2 DEF PageReads
<1> QED BY <1>6, <1>17, <1>18, <1>19

(* What a page says, and what is written of it.                              *)
SaysPage(m, sequence, e1, e2) ==
  \E x, y : /\ sequence \in Nat /\ sequence \in Byte /\ x = sequence - 1 /\ y = sequence - 2
            /\ IsPage(m, sequence, x, y, e1, e2)

(* What a page of the model means.                                          *)
LEMMA PageSays ==
  ASSUME IInv, kind = "page"
  PROVE  \E sequence, e1, e2 : SaysPage(meant, sequence, e1, e2)
<1>1. message \in LogPages
  BY GroupOf DEF IInv
<1>2. PICK sequence \in Nat : sequence = 40
  OBVIOUS
<1>3. PICK x, y : x = sequence - 1 /\ y = sequence - 2
  OBVIOUS
<1>4. \E e1, e2 : IsPage(meant, sequence, x, y, e1, e2)
  BY <1>1, <1>2, <1>3, PagesSay
<1>5. sequence \in Byte
  BY <1>2 DEF Byte
<1> QED BY <1>3, <1>4, <1>5 DEF SaysPage

MeantPage(m, sequence, e1, e2) ==
  /\ m.sequence = sequence /\ m.entries = <<e1, e2>> /\ DOMAIN m = {"sequence", "entries"}
  /\ m = [entries |-> <<e1, e2>>, sequence |-> sequence]
  /\ DOMAIN Bodies(m) = {1, 2} /\ Bodies(m)[1] = RecordBody(e1) /\ Bodies(m)[2] = RecordBody(e2)

LEMMA MeantIs ==
  ASSUME NEW m, NEW sequence, NEW e1, NEW e2, SaysPage(m, sequence, e1, e2)
  PROVE  MeantPage(m, sequence, e1, e2)
<1>1. PICK entries : entries = <<e1, e2>>
  OBVIOUS
<1>2. m = [sequence |-> sequence, entries |-> entries]
  BY <1>1, Zenon DEF SaysPage, IsPage
<1>3. m.sequence = sequence /\ m.entries = entries /\ DOMAIN m = {"sequence", "entries"}
      /\ m = [entries |-> entries, sequence |-> sequence]
  BY <1>2
<1>4. DOMAIN entries = {1, 2} /\ entries[1] = e1 /\ entries[2] = e2
  BY <1>1
<1>5. Bodies(m) = [k \in DOMAIN entries |-> RecordBody(entries[k])]
  BY <1>3, Zenon DEF Bodies
<1>6. DOMAIN Bodies(m) = {1, 2} /\ Bodies(m)[1] = RecordBody(e1) /\ Bodies(m)[2] = RecordBody(e2)
  BY <1>4, <1>5
<1> QED BY <1>1, <1>3, <1>6, Zenon DEF MeantPage

(* The data of a page, as it is written.                                     *)
PageData(whole, data, sequence, b1, b2, f1, s2, f2) ==
  IsReply(whole, 0, data) /\ TwoRecords(data, b1, b2, f1, s2, f2) /\ PageWords(data, sequence)

(* The bytes of a page of the model.                                        *)
LEMMA PageWritten ==
  ASSUME NEW m, NEW sequence, NEW e1, NEW e2, SaysPage(m, sequence, e1, e2)
  PROVE  \E data, f1, s2, f2 :
           /\ PageData(Page(m.sequence, Bodies(m)), data, sequence, RecordBody(e1), RecordBody(e2), f1, s2, f2)
           /\ WholePage(e1, e2, sequence, data, f1, s2, f2)
<1>1. MeantPage(m, sequence, e1, e2)
  BY MeantIs
<1>2. PICK x, y : /\ sequence \in Nat /\ sequence \in Byte /\ x = sequence - 1 /\ y = sequence - 2
                  /\ IsEntry(e1, x) /\ IsEntry(e2, y)
  BY DEF SaysPage, IsPage
<1>3. PICK b1 : b1 = RecordBody(e1)
  OBVIOUS
<1>4. PICK b2 : b2 = RecordBody(e2)
  OBVIOUS
<1>5. b1 \in Seq(Byte) /\ Len(b1) \in 8..38 /\ b2 \in Seq(Byte) /\ Len(b2) \in 8..38
  BY <1>2, <1>3, <1>4, BytesAre
<1>6. PICK most \in Nat : most = 200
  OBVIOUS
<1>7. Len(b1) + Len(b2) <= most
  <2>1. PICK n1 \in 8..38, n2 \in 8..38 : n1 = Len(b1) /\ n2 = Len(b2)
    BY <1>5
  <2>2. n1 + n2 <= most
    BY <1>6
  <2> QED BY <2>1, <2>2
<1>8. PICK bodies : bodies = Bodies(m)
  OBVIOUS
<1>9. bodies[1] = b1 /\ bodies[2] = b2 /\ m.sequence = sequence
  BY <1>1, <1>3, <1>4, <1>8, Zenon DEF MeantPage
<1>10. PICK whole : whole = Page(sequence, bodies)
  OBVIOUS
<1>11. PICK data, f1, s2, f2 : PageData(whole, data, sequence, b1, b2, f1, s2, f2)
  BY <1>2, <1>5, <1>6, <1>7, <1>9, <1>10, PageIs DEF PageData
<1>12. TwoRecords(data, RecordBody(e1), RecordBody(e2), f1, s2, f2)
  BY <1>3, <1>4, <1>11 DEF PageData
<1>13. WholePage(e1, e2, sequence, data, f1, s2, f2)
  BY <1>2, <1>12 DEF WholePage
<1>14. whole = Page(m.sequence, Bodies(m))
  BY <1>8, <1>9, <1>10, Zenon
<1> QED BY <1>3, <1>4, <1>11, <1>13, <1>14, Zenon

LEMMA PageSayable ==
  ASSUME kind = "page"
  PROVE  /\ Understood = meant /\ Sayable /\ kind \notin RequestKinds
         /\ Whole = Page(meant.sequence, Bodies(meant)) /\ \A raw : Decode(raw) = OperateLogPage(raw)
BY DEF Understood, Sayable, RequestKinds, Whole, Bytes, Decode, KeyKinds

LEMMA PageTooShort ==
  ASSUME NEW raw, TooShort(raw)
  PROVE  ~Returned(OperateLogPage(raw))
<1>1. PICK e : e = Envelope(raw)
  OBVIOUS
<1>2. e = Raises("ValueError")
  BY <1>1 DEF TooShort
<1>3. ~Returned(e)
  BY <1>2 DEF Returned, Raises
<1>4. OperateLogPage(raw) = e
  BY <1>1, <1>3, Zenon DEF OperateLogPage
<1> QED BY <1>3, <1>4

(* A refused page is read as the end of the log.                            *)
LEMMA PageRefused ==
  ASSUME NEW raw, raw = <<0, 0, 3>>
  PROVE  OperateLogPage(raw) = Returns(NoPage)
<1>1. PICK e : e = Envelope(raw)
  OBVIOUS
<1>2. PICK status : status = 0 /\ status # SUCCESS
  BY DEF SUCCESS
<1>3. PICK d : d = From(raw, 2)
  OBVIOUS
<1>4. e = Returns([echo |-> At(raw, 0), status |-> status, data |-> d])
  BY <1>1, <1>2, <1>3 DEF Envelope, At
<1>5. Returned(e) /\ e.value.status # SUCCESS
  BY <1>2, <1>4 DEF Returned, Returns
<1>6. OperateLogPage(raw) = Returns([entries |-> <<>>, sequence |-> 0])
  BY <1>1, <1>5, Zenon DEF OperateLogPage
<1> QED BY <1>6 DEF NoPage

(* A page in one of the three forms of a message that came.                 *)
Arrives(page, sequence, e1, e2, how) ==
  \/ how = "cut" /\ ~Returned(page)
  \/ \E d, last : /\ PageReads(d, page, sequence, e1, e2, last)
                  /\ how = "whole" => Len(d) = last
                  /\ how = "cut" => Len(d) < last
                  /\ how = "extended" => Len(d) > last

(* What has come of a page is read as PageReads says.                        *)
LEMMA PageArrives ==
  ASSUME NEW m, NEW sequence, NEW e1, NEW e2, SaysPage(m, sequence, e1, e2),
         NEW whole, whole = Page(m.sequence, Bodies(m)), NEW raw, NEW how, how \in {"whole", "cut", "extended"},
         whole \in Seq(Byte) => Came(how, raw, whole), NEW page, page = OperateLogPage(raw)
  PROVE  Arrives(page, sequence, e1, e2, how)
<1>1. PICK data, f1, s2, f2 :
           /\ PageData(whole, data, sequence, RecordBody(e1), RecordBody(e2), f1, s2, f2)
           /\ WholePage(e1, e2, sequence, data, f1, s2, f2)
  BY PageWritten
<1>2. IsReply(whole, 0, data) /\ TwoRecords(data, RecordBody(e1), RecordBody(e2), f1, s2, f2) /\ PageWords(data, sequence)
  BY <1>1 DEF PageData
<1>3. data \in Seq(Byte) /\ Len(data) = f2
  BY <1>2 DEF TwoRecords
<1>4. Came(how, raw, whole)
  BY <1>2, <1>3, ReplyLength
<1>5. \/ how = "cut" /\ TooShort(raw)
      \/ \E d : Opened(raw, 0, data, d) /\ Came(how, d, data)
  BY <1>2, <1>3, <1>4, ReplyCame
<1>6. CASE how = "cut" /\ TooShort(raw)
  BY <1>6, PageTooShort DEF Arrives
<1>7. ASSUME NEW d, Opened(raw, 0, data, d), Came(how, d, data)
      PROVE  \E last : /\ PageReads(d, page, sequence, e1, e2, last)
                       /\ how = "whole" => Len(d) = last
                       /\ how = "cut" => Len(d) < last
                       /\ how = "extended" => Len(d) > last
  <2>1. PICK records : records = Split(d)
    OBVIOUS
  <2>2. d \in Seq(Byte) /\ Agrees(d, data)
    BY <1>7 DEF Opened
  <2>3. PageComes(d, records, sequence, page)
    BY <1>2, <1>3, <1>7, <2>1, PageCame
  <2>4. PageReads(d, page, sequence, e1, e2, f2)
    BY <1>1, <2>1, <2>2, <2>3, PageIsRead
  <2>5. /\ how = "whole" => Len(d) = f2
        /\ how = "cut" => Len(d) < f2
        /\ how = "extended" => Len(d) > f2
    BY <1>3, <1>7 DEF Came
  <2> QED BY <2>4, <2>5
<1> QED BY <1>5, <1>6, <1>7 DEF Arrives

LEMMA FirstOfTwo ==
  ASSUME NEW x, NEW y, NEW s, s = <<x, y>>
  PROVE  SubSeq(s, 1, 0) = <<>> /\ SubSeq(s, 1, 1) = <<x>>
<1>1. PICK S : S = {x, y}
  OBVIOUS
<1>2. s \in Seq(S) /\ Len(s) = 2 /\ s[1] = x
  BY <1>1
<1>3. PICK u : u = SubSeq(s, 1, 0)
  OBVIOUS
<1>4. Len(u) = 0 /\ u \in Seq(S)
  BY <1>2, <1>3
<1>5. u = <<>>
  BY <1>4, EmptySeq
<1>6. PICK v : v = SubSeq(s, 1, 1)
  OBVIOUS
<1>7. Len(v) = 1 /\ v \in Seq(S) /\ v[1] = x
  BY <1>2, <1>6
<1>8. v = [k \in 1..1 |-> v[k]]
  BY <1>7
<1>9. v = <<x>>
  BY <1>7, <1>8
<1> QED BY <1>3, <1>5, <1>6, <1>9

(* The properties of what is read of a page in its own layout.               *)
LEMMA PageSent ==
  ASSUME IInv, kind = "page"
  PROVE  ReadAsSent /\ NothingIsMadeUp
<1>1. PICK sequence, e1, e2 : SaysPage(meant, sequence, e1, e2)
  BY PageSays
<1>2. /\ Understood = meant /\ Sayable /\ kind \notin RequestKinds
      /\ Whole = Page(meant.sequence, Bodies(meant)) /\ \A raw : Decode(raw) = OperateLogPage(raw)
  BY PageSayable
<1>3. /\ meant.sequence = sequence /\ meant.entries = <<e1, e2>> /\ DOMAIN meant = {"sequence", "entries"}
      /\ meant = [entries |-> <<e1, e2>>, sequence |-> sequence]
  BY <1>1, MeantIs, Zenon DEF MeantPage
<1>4. PICK page : page = OperateLogPage(wire)
  OBVIOUS
<1>5. page = Decode(wire)
  BY <1>2, <1>4
<1>6. ASSUME form.how \in {"whole", "cut", "extended"} PROVE Arrives(page, sequence, e1, e2, form.how)
  <2>1. Whole \in Seq(Byte) => Came(form.how, wire, Whole)
    BY <1>6, Arrival
  <2> QED BY <1>1, <1>2, <1>4, <1>6, <2>1, PageArrives
<1>7. ASSUME form.how = "whole" PROVE page = Returns(meant)
  <2>1. page = Returns([entries |-> <<e1, e2>>, sequence |-> sequence])
    BY <1>6, <1>7 DEF PageReads, Arrives
  <2> QED BY <1>3, <2>1
<1>8. form.how = "whole" => /\ Returned(page) <=> Sayable
                            /\ Returned(page) => page.value = Understood
  BY <1>2, <1>7, ValueIs
<1>9. ASSUME form.how = "extended", Returned(page)
      PROVE  \A f \in DOMAIN meant : Withstands(f, page.value[f])
  <2>1. page.value.sequence = sequence /\ SubSeq(page.value.entries, 1, 2) = <<e1, e2>>
    BY <1>6, <1>9 DEF PageReads, Arrives
  <2>2. Len(meant.entries) = 2
    BY <1>3
  <2>3. SubSeq(page.value.entries, 1, Len(meant.entries)) = meant.entries
    BY <1>3, <2>1, <2>2
  <2>4. Withstands("entries", page.value["entries"])
    BY <2>3 DEF Withstands
  <2>5. Withstands("sequence", page.value["sequence"])
    BY <1>2, <1>3, <2>1 DEF Withstands
  <2> QED BY <1>3, <2>4, <2>5
<1>10. ASSUME form.how = "cut", Returned(page)
       PROVE  FirstEntries(page.value)
  <2>1. page.value.entries = <<>> \/ (page.value.sequence = sequence /\ page.value.entries = <<e1>>)
    BY <1>6, <1>10 DEF PageReads, Arrives
  <2>2. CASE page.value.entries = <<>>
    <3>1. Len(page.value.entries) = 0 /\ Len(meant.entries) = 2
      BY <1>3, <2>2
    <3>2. SubSeq(meant.entries, 1, 0) = <<>>
      BY <1>3, FirstOfTwo
    <3> QED BY <2>2, <3>1, <3>2 DEF FirstEntries
  <2>3. CASE page.value.sequence = sequence /\ page.value.entries = <<e1>>
    <3>1. Len(page.value.entries) = 1 /\ Len(meant.entries) = 2
      BY <1>3, <2>3
    <3>2. SubSeq(meant.entries, 1, 1) = <<e1>>
      BY <1>3, FirstOfTwo
    <3> QED BY <1>3, <2>3, <3>1, <3>2 DEF FirstEntries
  <2> QED BY <2>1, <2>2, <2>3
<1>11. ASSUME form.how = "refused" PROVE page.value.entries = <<>>
  <2>1. page = Returns(NoPage)
    BY <1>4, <1>11, ReadKinds, PageRefused
  <2> QED BY <2>1, ValueIs DEF NoPage
<1> QED BY <1>2, <1>5, <1>8, <1>9, <1>10, <1>11, Clauses

(* What is read of two records that fill their page.                         *)
ChangedAs(raw, page, c1, c2, x, y) ==
  \E d, f1, s2, f2 :
    /\ d \in Seq(Byte) /\ f1 \in Nat /\ s2 \in Nat /\ f2 \in Nat
    /\ FieldAt(c1, d, 5, f1) /\ FieldAt(c2, d, s2, f2)
    /\ Split(From(raw, 2)) = <<Spot(5, f1), Spot(s2, f2)>>
    /\ page.value.entries = <<Entry(d, Spot(5, f1), x), Entry(d, Spot(s2, f2), y)>>

LEMMA OpenedFrom ==
  ASSUME NEW raw, NEW echo, NEW data, NEW d, Opened(raw, echo, data, d)
  PROVE  From(raw, 2) = d
<1>1. PICK e : e = Envelope(raw)
  OBVIOUS
<1>2. e = Returns([echo |-> echo, status |-> SUCCESS, data |-> d]) /\ Len(raw) = Len(d) + 2 /\ d \in Seq(Byte)
  BY <1>1 DEF Opened
<1>3. ~(Len(raw) < 2)
  BY <1>2, LengthIs
<1>4. e = Returns([echo |-> At(raw, 0), status |-> At(raw, 1), data |-> From(raw, 2)])
  BY <1>1, <1>3, Zenon DEF Envelope
<1>5. e.value.data = d
  BY <1>2 DEF Returns
<1>6. e.value.data = From(raw, 2)
  BY <1>4 DEF Returns
<1> QED BY <1>5, <1>6

(* A page with one record rewritten is read as two entries, each of its own *)
(* bytes.                                                                   *)
LEMMA ChangedPage ==
  ASSUME NEW c1 \in Seq(Byte), NEW c2 \in Seq(Byte), NEW most \in Nat, most = 200, Len(c1) + Len(c2) <= most,
         NEW sequence \in Byte, sequence \in Nat, NEW x, x = sequence - 1, NEW y, y = sequence - 2,
         NEW bodies, bodies[1] = c1, bodies[2] = c2, NEW raw, raw = Page(sequence, bodies),
         NEW page, page = OperateLogPage(raw), Returned(page)
  PROVE  ChangedAs(raw, page, c1, c2, x, y)
<1>1. PICK data, f1, s2, f2 :
           IsReply(raw, 0, data) /\ TwoRecords(data, c1, c2, f1, s2, f2) /\ PageWords(data, sequence)
  BY PageIs
<1>2. /\ data \in Seq(Byte) /\ Len(data) = f2 /\ f1 \in Nat /\ s2 \in Nat /\ f2 \in Nat
      /\ f1 = 5 + Len(c1) /\ s2 = f1 + 1 /\ f2 = s2 + Len(c2)
      /\ FieldAt(c1, data, 5, f1) /\ FieldAt(c2, data, s2, f2)
      /\ Len(c1) \in Nat /\ Len(c2) \in Nat
  BY <1>1, EndsAre
<1>3. raw \in Seq(Byte)
  BY <1>1, <1>2, ReplyLength
<1>4. PICK how : how = "whole" /\ how \in {"whole", "cut", "extended"}
  OBVIOUS
<1>5. Came(how, raw, raw)
  BY <1>3, <1>4, CameWhole
<1>6. \E d : Opened(raw, 0, data, d) /\ Came(how, d, data)
  BY <1>1, <1>2, <1>4, <1>5, ReplyCame
<1>7. Opened(raw, 0, data, data)
  BY <1>4, <1>6 DEF Came
<1>8. From(raw, 2) = data
  BY <1>7, OpenedFrom
<1>9. PICK records : records = Split(data)
  OBVIOUS
<1>10. Agrees(data, data)
  BY DEF Agrees
<1>11. SplitCame(data, records, f1, s2, f2)
  BY <1>1, <1>2, <1>9, <1>10, TwoFound
<1>12. records = <<Spot(5, f1), Spot(s2, f2)>>
  BY <1>2, <1>11 DEF SplitCame
<1>13. PageComes(data, records, sequence, page)
  BY <1>1, <1>2, <1>7, <1>9, PageCame
<1>14. page = Paged(data, records, sequence)
  <2>1. Len(data) >= 2 /\ Len(data) >= 4
    BY <1>2
  <2> QED BY <1>13, <2>1 DEF PageComes
<1>15. page.value = PageOf(data, records, sequence)
  BY <1>14, PagedIs, ValueIs
<1>16. PageOf(data, records, sequence).entries = <<Entry(data, Spot(5, f1), x), Entry(data, Spot(s2, f2), y)>>
  BY <1>12, TwoOf
<1>17. Split(From(raw, 2)) = <<Spot(5, f1), Spot(s2, f2)>>
  BY <1>8, <1>9, <1>12
<1>18. page.value.entries = <<Entry(data, Spot(5, f1), x), Entry(data, Spot(s2, f2), y)>>
  BY <1>15, <1>16
<1>19. /\ data \in Seq(Byte) /\ f1 \in Nat /\ s2 \in Nat /\ f2 \in Nat
       /\ FieldAt(c1, data, 5, f1) /\ FieldAt(c2, data, s2, f2)
  BY <1>2
<1> QED BY <1>17, <1>18, <1>19, Zenon DEF ChangedAs

----------------------------------------------------------------------------
(* A record that is written shorter or longer.                              *)

(* Room for the header in what the k-th record became.                       *)
Room(raw, k) == Split(From(raw, 2))[k].end - Split(From(raw, 2))[k].start >= HEADER_LENGTH

(* The record that changed is read alone, and the other one as ever.         *)
FirstAlone(how, raw, page, e1, e2) ==
  /\ Len(page.value.entries) = 2 /\ page.value.entries[2] = e2
  /\ Room(raw, 1) => RecordHolds(how, e1, page.value.entries[1])

(* The first entry as it was, the second holding what was written of it.    *)
SecondAlone(how, raw, page, e1, e2) ==
  /\ Len(page.value.entries) = 2 /\ page.value.entries[1] = e1
  /\ Room(raw, 2) => RecordHolds(how, e2, page.value.entries[2])

(* A page with its first record rewritten: the second entry is as it was.   *)
LEMMA FirstChanged ==
  ASSUME NEW sequence \in Byte, sequence \in Nat, NEW x, x = sequence - 1, NEW y, y = sequence - 2,
         NEW e1, NEW e2, IsEntry(e1, x), IsEntry(e2, y), NEW b1, b1 = RecordBody(e1), NEW b2, b2 = RecordBody(e2),
         NEW how, how \in {"cut", "extended"}, NEW c, Came(how, c, b1), NEW most \in Nat, most = 200,
         Len(c) + Len(b2) <= most,
         NEW bodies, bodies[1] = c, bodies[2] = b2, NEW raw, raw = Page(sequence, bodies),
         NEW page, page = OperateLogPage(raw), Returned(page)
  PROVE  FirstAlone(how, raw, page, e1, e2)
<1>1. c \in Seq(Byte) /\ b2 \in Seq(Byte) /\ Len(c) \in Nat
  BY BytesAre DEF Came
<1>2. ChangedAs(raw, page, c, b2, x, y)
  BY <1>1, ChangedPage
<1>3. PICK d, f1, s2, f2 :
        /\ d \in Seq(Byte) /\ f1 \in Nat /\ s2 \in Nat /\ f2 \in Nat
        /\ FieldAt(c, d, 5, f1) /\ FieldAt(b2, d, s2, f2)
        /\ Split(From(raw, 2)) = <<Spot(5, f1), Spot(s2, f2)>>
        /\ page.value.entries = <<Entry(d, Spot(5, f1), x), Entry(d, Spot(s2, f2), y)>>
  BY <1>2, Zenon DEF ChangedAs
<1>4. /\ d \in Seq(Byte) /\ f1 \in Nat /\ s2 \in Nat /\ f2 \in Nat
      /\ FieldAt(b2, d, s2, f2)
  BY <1>3
<1>5. Entry(d, Spot(s2, f2), y) = e2
  BY <1>4, WholeRecord
<1>6. PICK e : e = page.value.entries
  OBVIOUS
<1>7. Len(e) = 2 /\ e[2] = e2 /\ e[1] = Entry(d, Spot(5, f1), x)
  BY <1>3, <1>5, <1>6
<1>8. ASSUME Room(raw, 1) PROVE RecordHolds(how, e1, e[1])
  <2>1. PICK s : s = Split(From(raw, 2))
    OBVIOUS
  <2>2. s[1] = Spot(5, f1)
    BY <1>3, <2>1
  <2>3. s[1].end - s[1].start >= 8
    BY <1>8, <2>1 DEF Room, HEADER_LENGTH
  <2>4. PICK five \in Nat : five = 5
    OBVIOUS
  <2>5. f1 - 5 >= 8
    BY <2>2, <2>3 DEF Spot
  <2>6. f1 = five + Len(c)
    BY <1>3, <2>4 DEF FieldAt
  <2>7. Len(c) >= 8
    BY <1>1, <1>4, <2>4, <2>5, <2>6
  <2>8. FieldAt(c, d, five, f1) /\ d \in Seq(Byte)
    BY <1>3, <2>4
  <2>9. RecordHolds(how, e1, Entry(d, Spot(five, f1), x))
    BY <2>7, <2>8, ChangedRecord
  <2> QED BY <1>7, <2>4, <2>9
<1> QED BY <1>6, <1>7, <1>8 DEF FirstAlone

(* A page with its second record rewritten: the first entry is as it was.   *)
LEMMA SecondChanged ==
  ASSUME NEW sequence \in Byte, sequence \in Nat, NEW x, x = sequence - 1, NEW y, y = sequence - 2,
         NEW e1, NEW e2, IsEntry(e1, x), IsEntry(e2, y), NEW b1, b1 = RecordBody(e1), NEW b2, b2 = RecordBody(e2),
         NEW how, how \in {"cut", "extended"}, NEW c, Came(how, c, b2), NEW most \in Nat, most = 200,
         Len(b1) + Len(c) <= most,
         NEW bodies, bodies[1] = b1, bodies[2] = c, NEW raw, raw = Page(sequence, bodies),
         NEW page, page = OperateLogPage(raw), Returned(page)
  PROVE  SecondAlone(how, raw, page, e1, e2)
<1>1. c \in Seq(Byte) /\ b1 \in Seq(Byte) /\ Len(c) \in Nat
  BY BytesAre DEF Came
<1>2. ChangedAs(raw, page, b1, c, x, y)
  BY <1>1, ChangedPage
<1>3. PICK d, f1, s2, f2 :
        /\ d \in Seq(Byte) /\ f1 \in Nat /\ s2 \in Nat /\ f2 \in Nat
        /\ FieldAt(b1, d, 5, f1) /\ FieldAt(c, d, s2, f2)
        /\ Split(From(raw, 2)) = <<Spot(5, f1), Spot(s2, f2)>>
        /\ page.value.entries = <<Entry(d, Spot(5, f1), x), Entry(d, Spot(s2, f2), y)>>
  BY <1>2, Zenon DEF ChangedAs
<1>4. PICK five \in Nat : five = 5
  OBVIOUS
<1>5. d \in Seq(Byte) /\ FieldAt(b1, d, five, f1)
  BY <1>3, <1>4
<1>6. Entry(d, Spot(five, f1), x) = e1
  BY <1>5, WholeRecord
<1>7. PICK e : e = page.value.entries
  OBVIOUS
<1>8. Len(e) = 2 /\ e[1] = e1 /\ e[2] = Entry(d, Spot(s2, f2), y)
  BY <1>3, <1>4, <1>6, <1>7
<1>9. ASSUME Room(raw, 2) PROVE RecordHolds(how, e2, e[2])
  <2>1. PICK s : s = Split(From(raw, 2))
    OBVIOUS
  <2>2. s[2] = Spot(s2, f2)
    BY <1>3, <2>1
  <2>3. s[2].end - s[2].start >= 8
    BY <1>9, <2>1 DEF Room, HEADER_LENGTH
  <2>4. f2 - s2 >= 8
    BY <2>2, <2>3 DEF Spot
  <2>5. f2 = s2 + Len(c) /\ s2 \in Nat
    BY <1>3 DEF FieldAt
  <2>6. Len(c) >= 8
    BY <1>1, <2>4, <2>5
  <2>7. FieldAt(c, d, s2, f2) /\ d \in Seq(Byte) /\ s2 \in Nat
    BY <1>3
  <2>8. RecordHolds(how, e2, Entry(d, Spot(s2, f2), y))
    BY <2>6, <2>7, ChangedRecord
  <2> QED BY <1>8, <2>8
<1> QED BY <1>7, <1>8, <1>9 DEF SecondAlone

(* What is on the wire when a record is written shorter or longer.           *)
ChangedInto(how, k, c, bodies) ==
  /\ how = IF form.how = "shorter" THEN "cut" ELSE "extended"
  /\ form.nr = k /\ Came(how, c, bodies[k]) /\ Len(c) <= 138
  /\ wire = Page(meant.sequence, [bodies EXCEPT ![k] = c])

LEMMA ShortBody ==
  ASSUME NEW w, Len(w) \in 8..38
  PROVE  Len(w) \in Nat /\ Len(w) <= 38
<1>1. PICK n \in 8..38 : n = Len(w)
  OBVIOUS
<1>2. n \in Nat /\ n <= 38
  OBVIOUS
<1> QED BY <1>1, <1>2

(* In the forms that rewrite a record, the wire is the page of the          *)
(* rewritten record.                                                        *)
LEMMA ChangedWire ==
  ASSUME IInv, form.how \in {"shorter", "longer"}, NEW bodies, bodies = Bodies(meant),
         \A k \in DOMAIN bodies : bodies[k] \in Seq(Byte) /\ Len(bodies[k]) \in 8..38
  PROVE  \E how \in {"cut", "extended"}, k \in DOMAIN bodies : \E c : ChangedInto(how, k, c, bodies)
<1>1. CASE form.how = "shorter"
  <2>1. ShorterWire
    BY <1>1 DEF IInv, WireInv
  <2>2. PICK k \in DOMAIN bodies : \E n \in 0..Len(bodies[k]) - 1 :
           /\ form.nr = k
           /\ wire = Page(meant.sequence, [bodies EXCEPT ![k] = SubSeq(@, 1, n)])
    BY <2>1 DEF ShorterWire
  <2>3. PICK n \in 0..Len(bodies[k]) - 1 :
           /\ form.nr = k
           /\ wire = Page(meant.sequence, [bodies EXCEPT ![k] = SubSeq(@, 1, n)])
    BY <2>2
  <2>4. PICK b \in Seq(Byte) : b = bodies[k] /\ Len(b) \in 8..38
    OBVIOUS
  <2>5. PICK c : c = SubSeq(b, 1, n)
    OBVIOUS
  <2>6. n \in 0..Len(b) - 1
    BY <2>3, <2>4
  <2>7. Came("cut", c, b)
    BY <2>5, <2>6, CutCame
  <2>8. Len(c) <= 138
    BY <2>4, <2>7 DEF Came
  <2>9. wire = Page(meant.sequence, [bodies EXCEPT ![k] = c])
    BY <2>3, <2>4, <2>5, Zenon
  <2> QED BY <1>1, <2>3, <2>4, <2>7, <2>8, <2>9 DEF ChangedInto
<1>2. CASE form.how = "longer"
  <2>1. LongerWire
    BY <1>2 DEF IInv, WireInv
  <2>2. PICK k \in DOMAIN bodies, suffix \in Suffixes :
           /\ form.nr = k
           /\ wire = Page(meant.sequence, [bodies EXCEPT ![k] = @ \o suffix])
    BY <2>1 DEF LongerWire
  <2>4. PICK b \in Seq(Byte) : b = bodies[k] /\ Len(b) \in 8..38
    OBVIOUS
  <2>5. PICK c : c = b \o suffix
    OBVIOUS
  <2>6. suffix \in Seq(Byte) /\ Len(suffix) <= 100 /\ Len(suffix) \in Nat
    BY PayloadsAssumption, LengthIs
  <2>7. Came("extended", c, b)
    BY <2>5, ExtendedCame
  <2>8. Len(c) <= 138
    <3>1. PICK n \in Nat : n = Len(b) /\ n <= 38
      BY <2>4, ShortBody
    <3>2. PICK m \in Nat : m = Len(suffix) /\ m <= 100
      BY <2>6
    <3>3. Len(c) = Len(b) + Len(suffix)
      BY <2>5, <2>6
    <3>4. Len(c) = n + m
      BY <3>1, <3>2, <3>3
    <3>6. n + m <= 138
      BY <3>1, <3>2
    <3> QED BY <3>4, <3>6
  <2>9. wire = Page(meant.sequence, [bodies EXCEPT ![k] = c])
    BY <2>2, <2>4, <2>5, Zenon
  <2> QED BY <1>2, <2>2, <2>4, <2>7, <2>8, <2>9 DEF ChangedInto
<1> QED BY <1>1, <1>2

(* A page in which a record is written shorter or longer than it is known.   *)
LEMMA PageChanged ==
  ASSUME IInv, kind = "page"
  PROVE  RecordsDoNotRunTogether
<1> SUFFICES ASSUME form.how \in {"shorter", "longer"}, outcome # Pending, Returned(outcome)
             PROVE  RecordsDoNotRunTogether
  BY DEF RecordsDoNotRunTogether, Has
<1>1. PICK sequence, e1, e2 : SaysPage(meant, sequence, e1, e2)
  BY PageSays
<1>2. MeantPage(meant, sequence, e1, e2)
  BY <1>1, MeantIs
<1>3. PICK x, y : /\ sequence \in Nat /\ sequence \in Byte /\ x = sequence - 1 /\ y = sequence - 2
                  /\ IsPage(meant, sequence, x, y, e1, e2)
  BY <1>1 DEF SaysPage
<1>4. IsEntry(e1, x) /\ IsEntry(e2, y)
  BY <1>3 DEF IsPage
<1>5. PICK b1, b2 : b1 = RecordBody(e1) /\ b2 = RecordBody(e2)
  OBVIOUS
<1>6. b1 \in Seq(Byte) /\ Len(b1) \in 8..38
  BY <1>4, <1>5, BytesAre
<1>7. b2 \in Seq(Byte) /\ Len(b2) \in 8..38
  BY <1>4, <1>5, BytesAre
<1>8. PICK bodies : bodies = Bodies(meant)
  OBVIOUS
<1>9. DOMAIN bodies = {1, 2} /\ bodies[1] = b1 /\ bodies[2] = b2
  BY <1>2, <1>5, <1>8 DEF MeantPage
<1>10. \A k \in DOMAIN bodies : bodies[k] \in Seq(Byte) /\ Len(bodies[k]) \in 8..38
  BY <1>6, <1>7, <1>9
<1>11. PICK how \in {"cut", "extended"}, k \in DOMAIN bodies : \E c : ChangedInto(how, k, c, bodies)
  BY <1>8, <1>10, ChangedWire
<1>12. PICK c : ChangedInto(how, k, c, bodies)
  BY <1>11
<1>13. /\ how = IF form.how = "shorter" THEN "cut" ELSE "extended"
       /\ form.nr = k /\ Came(how, c, bodies[k]) /\ Len(c) <= 138
       /\ wire = Page(meant.sequence, [bodies EXCEPT ![k] = c])
  BY <1>12, Zenon DEF ChangedInto
<1>14. PICK changed : changed = [bodies EXCEPT ![k] = c]
  OBVIOUS
<1>15. meant.sequence = sequence /\ meant.entries = <<e1, e2>>
  BY <1>2 DEF MeantPage
<1>16. wire = Page(sequence, changed)
  BY <1>13, <1>14, <1>15
<1>17. outcome = OperateLogPage(wire)
  BY PageSayable, Outcome
<1>18. PICK most \in Nat : most = 200
  OBVIOUS
<1>19. Len(c) \in Nat
  BY <1>13 DEF Came
<1>20. PICK s : s = Split(From(wire, 2))
  OBVIOUS
<1>21. Len(meant.entries) = 2 /\ DOMAIN meant.entries = {1, 2} /\ meant.entries[1] = e1 /\ meant.entries[2] = e2
  BY <1>15
<1>22. CASE k = 1
  <2>1. changed[1] = c /\ changed[2] = b2
    BY <1>9, <1>14, <1>22
  <2>2. Came(how, c, b1)
    BY <1>9, <1>13, <1>22
  <2>3. Len(c) + Len(b2) <= most
    <3>1. PICK n \in Nat : n = Len(b2) /\ n <= 38
      BY <1>7, ShortBody
    <3>2. PICK l \in Nat : l = Len(c) /\ l <= 138
      BY <1>13, <1>19
    <3>3. Len(c) + Len(b2) = l + n
      BY <3>1, <3>2
    <3>5. n + l <= 200 /\ l + n <= 200
      BY <3>1, <3>2
    <3> QED BY <1>18, <3>3, <3>5
  <2>4. FirstAlone(how, wire, outcome, e1, e2)
    BY <1>3, <1>4, <1>5, <1>11, <1>16, <1>17, <1>18, <2>1, <2>2, <2>3, FirstChanged
  <2>5. Len(read.entries) = 2 /\ read.entries[2] = e2 /\ (Room(wire, 1) => RecordHolds(how, e1, read.entries[1]))
    BY <2>4 DEF FirstAlone, read
  <2>6. form.nr = 1
    BY <1>13, <1>22
  <2> QED BY <1>13, <1>21, <2>5, <2>6 DEF RecordsDoNotRunTogether, Room, RecordHolds
<1>23. CASE k = 2
  <2>1. changed[1] = b1 /\ changed[2] = c
    BY <1>9, <1>14, <1>23
  <2>2. Came(how, c, b2)
    BY <1>9, <1>13, <1>23
  <2>3. Len(b1) + Len(c) <= most
    <3>1. PICK n \in Nat : n = Len(b1) /\ n <= 38
      BY <1>6, ShortBody
    <3>2. PICK l \in Nat : l = Len(c) /\ l <= 138
      BY <1>13, <1>19
    <3>3. Len(b1) + Len(c) = n + l
      BY <3>1, <3>2
    <3>5. n + l <= 200 /\ l + n <= 200
      BY <3>1, <3>2
    <3> QED BY <1>18, <3>3, <3>5
  <2>4. SecondAlone(how, wire, outcome, e1, e2)
    BY <1>3, <1>4, <1>5, <1>11, <1>16, <1>17, <1>18, <2>1, <2>2, <2>3, SecondChanged
  <2>5. Len(read.entries) = 2 /\ read.entries[1] = e1 /\ (Room(wire, 2) => RecordHolds(how, e2, read.entries[2]))
    BY <2>4 DEF SecondAlone, read
  <2>6. form.nr = 2
    BY <1>13, <1>23
  <2> QED BY <1>13, <1>21, <2>5, <2>6 DEF RecordsDoNotRunTogether, Room, RecordHolds
<1> QED BY <1>9, <1>22, <1>23

(* A page of the operation log has the three properties: whole, cut, with   *)
(* more behind it, refused, or with one record rewritten.                   *)
LEMMA PageKept == IInv /\ kind = "page" => Kept
BY PageSent, PageChanged DEF Kept

----------------------------------------------------------------------------
(* The theorems.                                                           *)

(* A report of the lock, whichever it is.                                   *)
LEMMA ReportKept == IInv /\ kind \in ReportKinds => Kept
BY StateKept, StatePushKept, LogPushKept, TokenKept, AutoLockKept, LimitsKept, SoundKept, FeaturesKept,
   FeatureValueKept, SpecialValueKept, ClockKept, TextKept, MacKept DEF ReportKinds

(* An entry of a list of credentials.                                       *)
LEMMA CredentialKept == IInv /\ kind \in CredentialKinds => Kept
BY CardKept, FingerprintKept, PasscodeKept DEF CredentialKinds

(* A request of the client.                                                 *)
LEMMA AskedKept == IInv /\ kind \in RequestKinds => Kept
BY CheckUserTimeKept, CheckAdminKept, CheckRandomKept, UnlockKept, AutoLockSetKept, SetSoundKept, VolumeKept,
   PasscodeAddKept, PasscodeDeleteKept, CursorKept, CalibrateKept DEF RequestKinds

(* Every message, of every kind.                                            *)
LEMMA EveryMessageKept == IInv => Kept
<1> SUFFICES ASSUME IInv PROVE Kept
  OBVIOUS
<1>1. kind \in ReportKinds \cup CredentialKinds \cup RequestKinds \cup {"advertisement", "page", "frame"}
  BY GroupOf DEF IInv
<1>2. \/ kind \in ReportKinds \/ kind \in CredentialKinds \/ kind \in RequestKinds
      \/ kind = "advertisement" \/ kind = "page" \/ kind = "frame"
  BY <1>1
<1> QED
  BY <1>2, ReportKept, CredentialKept, AskedKept, AdvertisementKept, PageKept, FrameKept

(* For every message and every writer: a message in the reader's own layout  *)
(* is read with every field as it was meant, or refused because it has no    *)
(* place there, and what newer firmware writes behind it changes no field    *)
(* but those named (the parsers and builders of commands/ and models/).      *)
THEOREM MessagesAreReadAsSent == Spec => []ReadAsSent
<1>1. IInv => ReadAsSent
  BY EveryMessageKept DEF Kept
<1> QED
  BY <1>1, MessagesInductive, PTL

(* For every message, wherever it ends: a reader takes only fields that were *)
(* sent, says that they are missing, or raises (the length guards).          *)
THEOREM ReadersMakeNothingUp == Spec => []NothingIsMadeUp
<1>1. IInv => NothingIsMadeUp
  BY EveryMessageKept DEF Kept
<1> QED
  BY <1>1, MessagesInductive, PTL

(* For every page, with a record of any type shorter or longer than it is    *)
(* known: the other record keeps every field and its number, and its own     *)
(* fields are those that were sent or missing (parse_operate_log_response).   *)
THEOREM RecordsStayApart == Spec => []RecordsDoNotRunTogether
<1>1. IInv => RecordsDoNotRunTogether
  BY EveryMessageKept DEF Kept
<1> QED
  BY <1>1, MessagesInductive, PTL
=============================================================================
