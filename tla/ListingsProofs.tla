--------------------------- MODULE ListingsProofs ---------------------------
(* Proofs about Listings, for any caps, sequence numbers and lists.         *)
EXTENDS Listings, WellFoundedInduction, TLAPS

(* Facts about Without.  Induction is over a set of numbers: no operator is  *)
(* a parameter.                                                             *)
LEMMA LeastNumber ==
  ASSUME NEW T \in SUBSET Nat, T # {}
  PROVE  \E n \in T : \A m \in T : n <= m
<1> DEFINE less == {p \in Nat \X Nat : p[1] < p[2]}
<1>1. IsWellFoundedOn(less, Nat)
  BY NatLessThanWellFounded DEF OpToRel
<1>2. PICK n \in T : \A m \in T : ~(<<m, n>> \in less)
  <2> HIDE DEF less
  <2> QED BY <1>1, WFMin
<1>3. \A m \in T : ~(m < n)
  BY <1>2
<1> QED BY <1>3

LEMMA SetInduction ==
  ASSUME NEW T \in SUBSET Nat, 0 \in T, \A n \in T : n + 1 \in T
  PROVE  T = Nat
<1> SUFFICES ASSUME Nat \ T # {} PROVE FALSE
  OBVIOUS
<1>1. PICK n \in Nat \ T : \A m \in Nat \ T : n <= m
  BY LeastNumber
<1>2. n - 1 \in T
  BY <1>1
<1> QED BY <1>1, <1>2

(* The function that Without defines.                                       *)
Keeps(kept, list, out, n) ==
  kept = [i \in 0..n |->
            IF i = 0 THEN <<>>
            ELSE IF list[i] \in out THEN kept[i - 1] ELSE Append(kept[i - 1], list[i])]

LEMMA KeepsExists ==
  ASSUME NEW list, NEW out, NEW n \in Nat
  PROVE  \E kept : Keeps(kept, list, out, n)
<1> DEFINE T == {k \in Nat : \E kept : Keeps(kept, list, out, k)}
<1>1. 0 \in T
  <2> DEFINE kept == [i \in 0..0 |-> <<>>]
  <2>1. Keeps(kept, list, out, 0)
    BY DEF Keeps
  <2> HIDE DEF kept
  <2> QED BY <2>1
<1>2. ASSUME NEW k \in T PROVE k + 1 \in T
  <2>1. PICK kept : Keeps(kept, list, out, k)
    OBVIOUS
  <2> DEFINE next == IF list[k + 1] \in out THEN kept[k] ELSE Append(kept[k], list[k + 1])
             more == [i \in 0..(k + 1) |-> IF i = k + 1 THEN next ELSE kept[i]]
             step(i) == IF i = 0 THEN <<>>
                        ELSE IF list[i] \in out THEN more[i - 1]
                        ELSE Append(more[i - 1], list[i])
  <2>2. \A i \in 0..k : kept[i] = IF i = 0 THEN <<>>
                                  ELSE IF list[i] \in out THEN kept[i - 1]
                                  ELSE Append(kept[i - 1], list[i])
    BY <2>1 DEF Keeps
  <2>3. \A i \in 0..k : more[i] = kept[i]
    OBVIOUS
  <2>4. more[k + 1] = next
    OBVIOUS
  <2>5. more = [i \in 0..(k + 1) |-> more[i]]
    OBVIOUS
  <2> HIDE DEF more
  <2>6. ASSUME NEW i \in 0..(k + 1) PROVE more[i] = step(i)
    <3>1. CASE i = k + 1
      <4>1. i # 0 /\ i - 1 = k /\ k \in 0..k
        BY <3>1
      <4> QED BY <2>3, <2>4, <3>1, <4>1
    <3>2. CASE i = 0
      BY <2>2, <2>3, <3>2
    <3>3. CASE i \in 1..k
      <4>1. i \in 0..k /\ i - 1 \in 0..k /\ i # 0
        BY <3>3
      <4> QED BY <2>2, <2>3, <4>1
    <3> QED BY <3>1, <3>2, <3>3
  <2>7. Keeps(more, list, out, k + 1)
    BY <2>5, <2>6 DEF Keeps
  <2> QED BY <2>7
<1> HIDE DEF T
<1>3. T \in SUBSET Nat
  BY DEF T
<1>4. T = Nat
  BY <1>1, <1>2, <1>3, SetInduction
<1> QED BY <1>4 DEF T

LEMMA WithoutKeeps ==
  ASSUME NEW S, NEW list \in Seq(S), NEW out
  PROVE  \E kept :
           /\ kept[0] = <<>>
           /\ \A i \in 1..Len(list) :
                kept[i] = IF list[i] \in out THEN kept[i - 1]
                          ELSE Append(kept[i - 1], list[i])
           /\ Without(list, out) = kept[Len(list)]
<1> DEFINE n == Len(list)
           kept == CHOOSE k : Keeps(k, list, out, n)
<1>1. n \in Nat
  OBVIOUS
<1>2. Without(list, out) = kept[n]
  BY DEF Without, Keeps
<1> HIDE DEF n
<1>3. Keeps(kept, list, out, n)
  BY <1>1, KeepsExists
<1> HIDE DEF kept
<1>4. \A i \in 0..n : kept[i] = IF i = 0 THEN <<>>
                               ELSE IF list[i] \in out THEN kept[i - 1]
                               ELSE Append(kept[i - 1], list[i])
  BY <1>3 DEF Keeps
<1>5. kept[0] = <<>>
  BY <1>1, <1>4
<1>6. \A i \in 1..n : kept[i] = IF list[i] \in out THEN kept[i - 1]
                               ELSE Append(kept[i - 1], list[i])
  BY <1>1, <1>4
<1> QED BY <1>2, <1>5, <1>6 DEF n

LEMMA WithoutNothing ==
  ASSUME NEW out
  PROVE  Without(<<>>, out) = <<>>
<1> DEFINE list == <<>>
<1>1. list \in Seq({}) /\ Len(list) = 0
  OBVIOUS
<1> HIDE DEF list
<1>2. PICK kept :
        /\ kept[0] = <<>>
        /\ \A i \in 1..Len(list) :
             kept[i] = IF list[i] \in out THEN kept[i - 1] ELSE Append(kept[i - 1], list[i])
        /\ Without(list, out) = kept[Len(list)]
  BY <1>1, WithoutKeeps
<1>3. Without(list, out) = <<>>
  BY <1>1, <1>2
<1> QED BY <1>3 DEF list

(* Without of a list and one more.                                          *)
LEMMA WithoutAppend ==
  ASSUME NEW S, NEW list \in Seq(S), NEW x \in S, NEW out
  PROVE  Without(Append(list, x), out) =
           IF x \in out THEN Without(list, out) ELSE Append(Without(list, out), x)
<1> DEFINE more == Append(list, x)
           n == Len(list)
<1>1. more \in Seq(S) /\ Len(more) = n + 1 /\ more[n + 1] = x /\ n \in Nat
      /\ \A i \in 1..n : more[i] = list[i]
  OBVIOUS
<1> HIDE DEF more, n
<1>2. PICK f : /\ f[0] = <<>>
               /\ \A i \in 1..n : f[i] = IF list[i] \in out THEN f[i - 1]
                                         ELSE Append(f[i - 1], list[i])
               /\ Without(list, out) = f[n]
  BY WithoutKeeps DEF n
<1>3. PICK g : /\ g[0] = <<>>
               /\ \A i \in 1..(n + 1) : g[i] = IF more[i] \in out THEN g[i - 1]
                                               ELSE Append(g[i - 1], more[i])
               /\ Without(more, out) = g[n + 1]
  BY <1>1, WithoutKeeps
<1> DEFINE T == {i \in Nat : i <= n => g[i] = f[i]}
<1>4. 0 \in T
  BY <1>2, <1>3
<1>5. ASSUME NEW i \in T PROVE i + 1 \in T
  <2>1. SUFFICES ASSUME i + 1 <= n PROVE g[i + 1] = f[i + 1]
    OBVIOUS
  <2>2. i \in Nat /\ i + 1 \in 1..n /\ i + 1 \in 1..(n + 1) /\ (i + 1) - 1 = i /\ g[i] = f[i]
    BY <1>1, <2>1
  <2>3. more[i + 1] = list[i + 1]
    BY <1>1, <2>2
  <2> QED BY <1>2, <1>3, <2>2, <2>3
<1> HIDE DEF T
<1>6. T = Nat
  <2>1. T \in SUBSET Nat
    BY DEF T
  <2> QED BY <1>4, <1>5, <2>1, SetInduction
<1>7. g[n] = f[n]
  BY <1>1, <1>6 DEF T
<1>8. g[n + 1] = IF x \in out THEN g[n] ELSE Append(g[n], x)
  <2>1. n + 1 \in 1..(n + 1) /\ (n + 1) - 1 = n
    BY <1>1
  <2> QED BY <1>1, <1>3, <2>1
<1> QED BY <1>2, <1>3, <1>7, <1>8 DEF more

LEMMA FrontAndLast ==
  ASSUME NEW S, NEW n \in Nat, NEW list \in Seq(S), Len(list) = n + 1
  PROVE  \E front \in Seq(S), x \in S :
           /\ list = Append(front, x) /\ Len(front) = n
           /\ \A i \in 1..n : front[i] = list[i]
<1> DEFINE front == [i \in 1..n |-> list[i]]
<1>1. front \in Seq(S) /\ Len(front) = n /\ list[n + 1] \in S
  OBVIOUS
<1>2. list = Append(front, list[n + 1])
  OBVIOUS
<1> QED BY <1>1, <1>2

(* What is left is of the list, none of it is out, and it has no element     *)
(* twice if the list has none.                                              *)
Distinct(list) == \A i, j \in 1..Len(list) : list[i] = list[j] => i = j

Selected(list, out, w, S) ==
  /\ w \in Seq(S)
  /\ \A j \in 1..Len(w) : w[j] \notin out /\ \E i \in 1..Len(list) : w[j] = list[i]
  /\ Distinct(list) => Distinct(w)

LEMMA WithoutSelects ==
  ASSUME NEW S, NEW out, NEW list \in Seq(S)
  PROVE  Selected(list, out, Without(list, out), S)
<1> DEFINE T == {n \in Nat : \A l \in Seq(S) :
                   Len(l) = n => Selected(l, out, Without(l, out), S)}
<1>1. 0 \in T
  <2> SUFFICES ASSUME NEW l \in Seq(S), Len(l) = 0
               PROVE  Selected(l, out, Without(l, out), S)
    OBVIOUS
  <2>1. l = <<>>
    OBVIOUS
  <2>2. Without(l, out) = <<>>
    BY <2>1, WithoutNothing, Zenon
  <2> DEFINE w == <<>>
  <2>3. w \in Seq(S) /\ Len(w) = 0
    OBVIOUS
  <2>4. Without(l, out) = w
    BY <2>2
  <2> HIDE DEF w
  <2> QED BY <2>3, <2>4 DEF Selected, Distinct
<1>2. ASSUME NEW n \in T PROVE n + 1 \in T
  <2> SUFFICES ASSUME NEW l \in Seq(S), Len(l) = n + 1
               PROVE  Selected(l, out, Without(l, out), S)
    OBVIOUS
  <2>1. PICK front \in Seq(S), x \in S :
          /\ l = Append(front, x) /\ Len(front) = n
          /\ \A i \in 1..n : front[i] = l[i]
    BY FrontAndLast
  <2> DEFINE v == Without(front, out)
             w == Without(l, out)
  <2>2. Selected(front, out, v, S)
    BY <2>1
  <2>3. w = IF x \in out THEN v ELSE Append(v, x)
    BY <2>1, WithoutAppend
  <2> HIDE DEF v, w
  <2>4. l[n + 1] = x
    BY <2>1
  <2>5. Distinct(l) => Distinct(front) /\ \A i \in 1..n : front[i] # x
    BY <2>1, <2>4 DEF Distinct
  <2>6. ASSUME NEW j \in 1..Len(v)
        PROVE  v[j] \notin out /\ \E i \in 1..Len(l) : v[j] = l[i]
    <3>1. PICK i \in 1..n : v[j] = front[i]
      BY <2>1, <2>2 DEF Selected
    <3>2. i \in 1..Len(l) /\ v[j] = l[i]
      BY <2>1, <3>1
    <3> QED BY <2>2, <3>2 DEF Selected
  <2>7. CASE x \in out
    <3>1. w = v
      BY <2>3, <2>7
    <3> QED BY <2>2, <2>5, <2>6, <3>1 DEF Selected, w
  <2>8. CASE x \notin out
    <3>1. /\ v \in Seq(S) /\ w = Append(v, x)
      BY <2>2, <2>3, <2>8 DEF Selected
    <3>2. /\ w \in Seq(S) /\ Len(w) = Len(v) + 1 /\ Len(v) \in Nat /\ w[Len(v) + 1] = x
          /\ \A j \in 1..Len(v) : w[j] = v[j]
      BY <3>1
    <3>3. ASSUME NEW j \in 1..Len(w)
          PROVE  w[j] \notin out /\ \E i \in 1..Len(l) : w[j] = l[i]
      <4>1. CASE j \in 1..Len(v)
        BY <2>6, <3>2, <4>1
      <4>2. CASE j = Len(v) + 1
        <5>1. w[j] = x /\ n + 1 \in 1..Len(l)
          BY <3>2, <4>2
        <5> QED BY <2>4, <2>8, <5>1
      <4> QED BY <3>2, <4>1, <4>2
    <3>4. ASSUME Distinct(l) PROVE Distinct(w)
      <4>1. Distinct(v)
        BY <2>2, <2>5, <3>4 DEF Selected
      <4>2. ASSUME NEW j \in 1..Len(v) PROVE v[j] # x
        <5>1. PICK i \in 1..n : v[j] = front[i]
          BY <2>1, <2>2 DEF Selected
        <5> QED BY <2>5, <3>4, <5>1
      <4> SUFFICES ASSUME NEW i \in 1..Len(w), NEW j \in 1..Len(w), w[i] = w[j]
                   PROVE  i = j
        BY DEF Distinct
      <4>3. CASE i \in 1..Len(v) /\ j \in 1..Len(v)
        <5>1. v[i] = v[j]
          BY <3>2, <4>3
        <5> QED BY <4>1, <4>3, <5>1 DEF Distinct
      <4>4. CASE i = Len(v) + 1 /\ j \in 1..Len(v)
        BY <3>2, <4>2, <4>4
      <4>5. CASE i \in 1..Len(v) /\ j = Len(v) + 1
        BY <3>2, <4>2, <4>5
      <4>6. CASE i = Len(v) + 1 /\ j = Len(v) + 1
        BY <4>6
      <4> QED BY <3>2, <4>3, <4>4, <4>5, <4>6
    <3> QED BY <3>2, <3>3, <3>4 DEF Selected, w
  <2> QED BY <2>7, <2>8 DEF w
<1> HIDE DEF T
<1>3. T = Nat
  <2>1. T \in SUBSET Nat
    BY DEF T
  <2> QED BY <1>1, <1>2, <2>1, SetInduction
<1> QED BY <1>3 DEF T

----------------------------------------------------------------------------
(* Types, and what bounds the loops.                                        *)
TypeInv ==
  /\ TypeOK
  /\ start.stored <= stored
  /\ phase = "running" /\ method # "get_operation_log" => attempt < MAX_ENTRIES
  /\ phase = "running" /\ method \in Indexed => cursor = attempt

(* The log: no reply repeats a record, and what was kept was seen.          *)
SeenInv ==
  method = "get_operation_log" =>
    /\ \A i \in 1..Len(late) : Distinct(late[i].items)
    /\ Distinct(entries)
    /\ phase = "running" => \A i \in 1..Len(entries) : entries[i] \in seen

(* The log of a proper lock: the records read so far follow one another,    *)
(* and the cursor is at the next one.                                       *)
First == IF start.cursor = SinceLastSync THEN unread ELSE start.cursor

Consecutive == \A i \in 1..Len(entries) : entries[i] = First + i - 1

AtTheNext ==
  /\ Len(entries) < limit
  /\ \A n \in seen : n < First + Len(entries)
  /\ IF entries = <<>> THEN cursor = start.cursor
     ELSE cursor = First + Len(entries) /\ cursor <= stored + 1

GapInv ==
  Undisturbed /\ method = "get_operation_log" =>
    /\ First \in 1..(SEQUENCES - 2)
    /\ phase = "running" => Consecutive /\ AtTheNext
    /\ phase = "returned" =>
         Consecutive /\ (First + Len(entries) - 1 >= start.stored \/ Len(entries) = limit)

(* The other lists: what was read is the list up to the cursor.             *)
ListOf(m, gone, n) == IF m = "get_passcodes" THEN Without(Upto(n), gone) ELSE Upto(n)

Listed(n) == ListOf(method, unlisted, n)

WholeInv ==
  Undisturbed /\ method # "get_operation_log" =>
    /\ phase = "running" => cursor \in 0..stored /\ entries = Listed(cursor)
    /\ phase = "returned" => \E n \in start.stored..stored : entries = Listed(n)

LEMMA OneReply ==
  ASSUME NEW answer
  PROVE  LET replies == Append(<<>>, answer)
         IN  Head(replies) = answer /\ Tail(replies) = <<>>
  OBVIOUS

Refused == {"failed", "garbled"}

(* What a proper lock answers, method by method.                            *)
LEMMA ProperAnswer ==
  /\ method \in Indexed => ProperItems = ItemAt(cursor + 1) /\ ProperNext = 0
  /\ method = "get_passcodes" =>
       /\ ProperItems = IF cursor + 1 \in unlisted THEN <<>> ELSE ItemAt(cursor + 1)
       /\ ProperNext = IF cursor + 1 < stored THEN cursor + 1 ELSE 0
  /\ method = "get_operation_log" =>
       /\ ProperItems = ItemAt(IF cursor = SinceLastSync THEN unread ELSE cursor)
       /\ ProperNext = IF ProperItems = <<>> THEN 0 ELSE ProperItems[1] + 1
<1>1. "get_passcodes" \notin Indexed /\ "get_operation_log" \notin Indexed
  BY DEF Indexed
<1>2. ASSUME method \in Indexed PROVE ProperItems = ItemAt(cursor + 1) /\ ProperNext = 0
  BY <1>1, <1>2 DEF ProperItems, ProperNext
<1>3. ASSUME method = "get_passcodes"
      PROVE  /\ ProperItems = IF cursor + 1 \in unlisted THEN <<>> ELSE ItemAt(cursor + 1)
             /\ ProperNext = IF cursor + 1 < stored THEN cursor + 1 ELSE 0
  BY <1>1, <1>3 DEF ProperItems, ProperNext
<1>4. ASSUME method = "get_operation_log"
      PROVE  /\ ProperItems = ItemAt(IF cursor = SinceLastSync THEN unread ELSE cursor)
             /\ ProperNext = IF ProperItems = <<>> THEN 0 ELSE ProperItems[1] + 1
  <2>1. ProperItems = ItemAt(IF cursor = SinceLastSync THEN unread ELSE cursor)
    BY <1>1, <1>4 DEF ProperItems
  <2>2. ProperNext = IF ProperItems = <<>> THEN 0 ELSE ProperItems[1] + 1
    BY <1>1, <1>4 DEF ProperNext
  <2> QED BY <2>1, <2>2
<1> QED BY <1>2, <1>3, <1>4

LEMMA AnswersAreReplies ==
  ASSUME TypeOK, phase = "running", NEW answer \in LockReplies
  PROVE  answer \in Reply
<1> USE ListingsAssumption
<1>1. ASSUME answer \in Refusals PROVE answer \in Reply
  <2>1. PICK s \in Refused : answer = [status |-> s, items |-> <<>>, next |-> 0]
    BY <1>1 DEF Refusals, Refused
  <2>2. <<>> \in Seq(Numbers) /\ 0 \in 0..(SEQUENCES - 1)
    OBVIOUS
  <2> QED BY <2>1, <2>2 DEF Reply, Refused
<1>2. CASE proper
  <2>1. \A n \in Nat : ItemAt(n) \in Seq(Numbers) /\ (n \in 1..stored => ItemAt(n) = <<n>>)
    <3> TAKE n \in Nat
    <3>1. CASE n \in 1..stored
      <4>1. n \in Numbers
        BY <3>1 DEF TypeOK, Numbers
      <4> QED BY <3>1, <4>1 DEF ItemAt
    <3>2. CASE n \notin 1..stored
      BY <3>2 DEF ItemAt
    <3> QED BY <3>1, <3>2
  <2>2. cursor \in Nat /\ stored \in 0..MaxStored /\ unread \in 1..(MaxStored + 1)
    BY DEF TypeOK
  <2>3. ProperItems \in Seq(Numbers)
    <3>1. CASE method \in Indexed
      BY <2>1, <2>2, <3>1, ProperAnswer
    <3>2. CASE method = "get_passcodes"
      <4>1. ItemAt(cursor + 1) \in Seq(Numbers) /\ <<>> \in Seq(Numbers)
        BY <2>1, <2>2
      <4>2. ProperItems = <<>> \/ ProperItems = ItemAt(cursor + 1)
        BY <3>2, ProperAnswer
      <4> QED BY <4>1, <4>2
    <3>3. CASE method = "get_operation_log"
      <4>1. ItemAt(cursor) \in Seq(Numbers) /\ ItemAt(unread) \in Seq(Numbers)
        BY <2>1, <2>2
      <4>2. ProperItems = ItemAt(cursor) \/ ProperItems = ItemAt(unread)
        BY <3>3, ProperAnswer
      <4> QED BY <4>1, <4>2
    <3> QED BY <3>1, <3>2, <3>3 DEF TypeOK, Methods
  <2>4. ProperNext \in 0..(SEQUENCES - 1)
    <3>1. CASE method \in Indexed
      BY <3>1, ProperAnswer
    <3>2. CASE method = "get_passcodes"
      <4>1. ProperNext = IF cursor + 1 < stored THEN cursor + 1 ELSE 0
        BY <3>2, ProperAnswer
      <4> QED BY <2>2, <4>1
    <3>3. CASE method = "get_operation_log"
      <4> DEFINE n == IF cursor = SinceLastSync THEN unread ELSE cursor
      <4>1. ProperItems = ItemAt(n) /\ n \in Nat
        BY <2>2, <3>3, ProperAnswer
      <4>2. ProperNext = IF ProperItems = <<>> THEN 0 ELSE ProperItems[1] + 1
        BY <3>3, ProperAnswer
      <4>3. ProperItems # <<>> => n \in 1..stored /\ ProperItems = <<n>>
        BY <4>1 DEF ItemAt
      <4> HIDE DEF n
      <4>4. ProperItems # <<>> => ProperItems[1] = n
        BY <4>3
      <4> QED BY <2>2, <4>2, <4>3, <4>4
    <3> QED BY <3>1, <3>2, <3>3 DEF TypeOK, Methods
  <2>5. answer \in Refusals \/ answer = [status |-> "ok", items |-> ProperItems, next |-> ProperNext]
    BY <1>2 DEF LockReplies, ProperReplies
  <2> QED BY <1>1, <2>3, <2>4, <2>5 DEF Reply
<1>3. CASE ~proper
  <2>1. CASE answer \in Refusals
    BY <1>1, <2>1
  <2>2. CASE answer \notin Refusals
    <3>1. PICK n \in 0..MaxNext, size \in 0..2 :
            answer = [status |-> "ok",
                      items |-> IF method = "get_operation_log" THEN Page(n, size)
                                ELSE [i \in 1..(size % 2) |-> n],
                      next |-> n]
      BY <1>3, <2>2 DEF LockReplies, AnyReplies
    <3>2. n \in Numbers /\ n \in 0..(SEQUENCES - 1)
      BY DEF Numbers
    <3>3. size % 2 \in Nat /\ size \in Nat
      OBVIOUS
    <3>4. [i \in 1..(size % 2) |-> n] \in Seq(Numbers)
      BY <3>2, <3>3
    <3>5. \A i \in 1..size : n - i \in Numbers
      BY DEF Numbers
    <3>6. Page(n, size) \in Seq(Numbers)
      BY <3>3, <3>5 DEF Page
    <3> QED BY <3>1, <3>2, <3>4, <3>6 DEF Reply
  <2> QED BY <2>1, <2>2
<1> QED BY <1>2, <1>3

(* The reply that the exchange returns, and the ones left.                  *)
LEMMA FirstReply ==
  ASSUME NEW S, NEW queue \in Seq(S), NEW answer \in S,
         NEW rs, rs = Append(queue, answer)
  PROVE  /\ rs \in Seq(S) /\ Head(rs) \in S /\ Tail(rs) \in Seq(S)
         /\ \A i \in 1..Len(Tail(rs)) :
              \E k \in 1..Len(rs) : Tail(rs)[i] = rs[k]
         /\ \A i \in 1..Len(rs) :
              rs[i] = answer \/ \E k \in 1..Len(queue) : rs[i] = queue[k]
         /\ \E k \in 1..Len(rs) : Head(rs) = rs[k]
<1>1. /\ rs \in Seq(S) /\ Len(rs) = Len(queue) + 1 /\ Len(queue) \in Nat
      /\ \A i \in 1..Len(queue) : rs[i] = queue[i]
      /\ rs[Len(queue) + 1] = answer
  OBVIOUS
<1>2. rs # <<>>
  BY <1>1
<1>3. /\ Head(rs) = rs[1] /\ 1 \in 1..Len(rs) /\ Head(rs) \in S
      /\ Tail(rs) \in Seq(S) /\ Len(Tail(rs)) = Len(rs) - 1
      /\ \A i \in 1..(Len(rs) - 1) : Tail(rs)[i] = rs[i + 1]
  BY <1>1, <1>2
<1>4. \A i \in 1..Len(Tail(rs)) : i + 1 \in 1..Len(rs) /\ Tail(rs)[i] = rs[i + 1]
  BY <1>1, <1>3
<1>5. \A i \in 1..Len(rs) : rs[i] = answer \/ \E k \in 1..Len(queue) : rs[i] = queue[k]
  <2> TAKE i \in 1..Len(rs)
  <2>1. i = Len(queue) + 1 \/ i \in 1..Len(queue)
    BY <1>1
  <2> QED BY <1>1, <2>1
<1> QED BY <1>1, <1>3, <1>4, <1>5

LEMMA InitType == Init => TypeInv
<1> SUFFICES ASSUME Init PROVE TypeInv
  OBVIOUS
<1> USE ListingsAssumption
<1>1. stored \in 0..MaxStored /\ unread \in 1..(MaxStored + 1) /\ unlisted \subseteq 1..MaxStored
  BY DEF Init
<1>2. limit \in Nat
  BY DEF Init, Unlimited
<1>3. /\ method \in Methods /\ phase = "idle" /\ cursor = 0 /\ attempt = 0
      /\ proper \in BOOLEAN /\ trouble \in BOOLEAN /\ calls = 0 /\ seen = {}
      /\ start = [stored |-> 0, cursor |-> 0]
  BY DEF Init, Methods, Indexed
<1>4. entries \in Seq(Numbers) /\ late \in Seq(Reply)
  BY DEF Init
<1> QED BY <1>1, <1>2, <1>4, <1>3 DEF TypeInv, TypeOK

LEMMA Prefix ==
  ASSUME NEW S, NEW list \in Seq(S), NEW n \in Nat, n <= Len(list)
  PROVE  /\ SubSeq(list, 1, n) \in Seq(S) /\ Len(SubSeq(list, 1, n)) = n
         /\ \A i \in 1..n : SubSeq(list, 1, n)[i] = list[i]
         /\ n = Len(list) => SubSeq(list, 1, n) = list
OBVIOUS

LEMMA Joined ==
  ASSUME NEW S, NEW s \in Seq(S), NEW t \in Seq(S), NEW p, p = s \o t
  PROVE  /\ p \in Seq(S) /\ Len(p) = Len(s) + Len(t)
         /\ \A i \in 1..Len(s) : p[i] = s[i]
         /\ \A i \in 1..Len(t) : p[Len(s) + i] = t[i]
         /\ \A i \in 1..Len(p) : i \in 1..Len(s) \/ i - Len(s) \in 1..Len(t)
         /\ t = <<>> => p = s
         /\ \A x : t = <<x>> => p = Append(s, x)
OBVIOUS

(* A round trip, and the reply that the client takes.                       *)
LEMMA Round ==
  ASSUME TypeInv, RoundTrip
  PROVE  \E answer \in LockReplies, reply \in Reply :
           /\ phase = "running" /\ Take(reply) /\ late' \in Seq(Reply)
           /\ trouble' = (trouble \/ reply.status # "ok") /\ trouble' \in BOOLEAN
           /\ UNCHANGED <<method, limit, proper, stored, unread, unlisted, calls, start>>
           /\ \A i \in 1..Len(late') :
                late'[i] = answer \/ \E k \in 1..Len(late) : late'[i] = late[k]
           /\ reply = answer \/ \E k \in 1..Len(late) : reply = late[k]
           /\ late = <<>> => reply = answer /\ late' = <<>>
<1>1. PICK answer \in LockReplies :
        LET replies == Append(late, answer)
        IN  /\ Take(Head(replies))
            /\ late' = Tail(replies)
            /\ trouble' = (trouble \/ Head(replies).status # "ok")
  BY DEF RoundTrip
<1>2. /\ phase = "running"
      /\ UNCHANGED <<method, limit, proper, stored, unread, unlisted, calls, start>>
  BY DEF RoundTrip, lock
<1>3. answer \in Reply /\ late \in Seq(Reply)
  BY <1>2, AnswersAreReplies DEF TypeInv, TypeOK
<1> DEFINE replies == Append(late, answer)
           reply == Head(replies)
<1>4. /\ replies \in Seq(Reply) /\ reply \in Reply /\ Tail(replies) \in Seq(Reply)
      /\ \A i \in 1..Len(Tail(replies)) :
           \E k \in 1..Len(replies) : Tail(replies)[i] = replies[k]
      /\ \A i \in 1..Len(replies) :
           replies[i] = answer \/ \E k \in 1..Len(late) : replies[i] = late[k]
      /\ \E k \in 1..Len(replies) : reply = replies[k]
  <2>1. replies = Append(late, answer)
    OBVIOUS
  <2> HIDE DEF replies
  <2>2. replies \in Seq(Reply)
    BY <1>3, <2>1, FirstReply
  <2>3. Head(replies) \in Reply
    BY <1>3, <2>1, FirstReply
  <2>4. \A i \in 1..Len(Tail(replies)) :
             \E k \in 1..Len(replies) : Tail(replies)[i] = replies[k]
    BY <1>3, <2>1, FirstReply
  <2>5. \A i \in 1..Len(replies) :
             replies[i] = answer \/ \E k \in 1..Len(late) : replies[i] = late[k]
    BY <1>3, <2>1, FirstReply
  <2>6. \E k \in 1..Len(replies) : Head(replies) = replies[k]
    BY <1>3, <2>1, FirstReply
  <2>7. Tail(replies) \in Seq(Reply)
    BY <1>3, <2>1, FirstReply
  <2> QED BY <2>2, <2>3, <2>4, <2>5, <2>6, <2>7
<1>5. late = <<>> => reply = answer /\ Tail(replies) = <<>>
  BY OneReply
<1>6. Take(reply) /\ late' = Tail(replies) /\ trouble' = (trouble \/ reply.status # "ok")
  BY <1>1
<1> HIDE DEF reply, replies
<1>7. \A i \in 1..Len(late') :
         late'[i] = answer \/ \E k \in 1..Len(late) : late'[i] = late[k]
  BY <1>4, <1>6
<1>8. reply = answer \/ \E k \in 1..Len(late) : reply = late[k]
  BY <1>4
<1>9. trouble' \in BOOLEAN
  BY <1>6, Zenon DEF TypeInv, TypeOK
<1> QED BY <1>2, <1>4, <1>5, <1>6, <1>7, <1>8, <1>9

(* A page of the log: what is new of it, and what the client has then.      *)
LEMMA PageTaken ==
  ASSUME TypeOK, NEW reply \in Reply, TakePage(reply)
  PROVE  \E new, all \in Seq(Numbers) :
           /\ all = entries \o new /\ Selected(reply.items, seen, new, Numbers)
           /\ new = Without(reply.items, seen)
           /\ UNCHANGED attempt /\ method = "get_operation_log"
           /\ IF reply.status = "garbled"
              THEN Raise /\ UNCHANGED seen
              ELSE /\ seen' = seen \cup {new[i] : i \in 1..Len(new)}
                   /\ IF new # <<>> /\ Len(all) >= limit
                      THEN Return(SubSeq(all, 1, limit))
                      ELSE IF Ends(reply, new) THEN Return(all)
                      ELSE /\ entries' = all
                           /\ cursor' = reply.next
                           /\ UNCHANGED phase
<1> DEFINE new == Unseen(reply.items)
           all == entries \o new
<1>1. reply.items \in Seq(Numbers) /\ entries \in Seq(Numbers)
  BY DEF Reply, TypeOK
<1>2. new = Without(reply.items, seen) /\ Selected(reply.items, seen, new, Numbers)
  BY <1>1, WithoutSelects DEF Unseen
<1>3. new \in Seq(Numbers)
  BY <1>2 DEF Selected
<1>4. /\ UNCHANGED attempt /\ method = "get_operation_log"
      /\ IF reply.status = "garbled"
         THEN Raise /\ UNCHANGED seen
         ELSE /\ seen' = seen \cup {new[i] : i \in 1..Len(new)}
              /\ IF new # <<>> /\ Len(all) >= limit
                 THEN Return(SubSeq(all, 1, limit))
                 ELSE IF Ends(reply, new) THEN Return(all)
                 ELSE /\ entries' = all
                      /\ cursor' = reply.next
                      /\ UNCHANGED phase
  BY DEF TakePage, NextSeq
<1> HIDE DEF new
<1>5. all \in Seq(Numbers)
  BY <1>1, <1>3
<1> QED BY <1>2, <1>3, <1>4, <1>5

LEMMA TakeTypes ==
  ASSUME TypeInv, phase = "running", NEW reply \in Reply, Take(reply)
  PROVE  /\ phase' \in {"running", "returned", "raised"}
         /\ cursor' \in 0..(SEQUENCES - 1) \cup 0..MAX_ENTRIES
         /\ attempt' \in 0..MAX_ENTRIES
         /\ entries' \in Seq(Numbers)
         /\ seen' \subseteq Numbers
         /\ phase' = "running" /\ method # "get_operation_log" => attempt' < MAX_ENTRIES
         /\ phase' = "running" /\ method \in Indexed => cursor' = attempt'
<1> USE ListingsAssumption
<1>1. /\ cursor \in 0..(SEQUENCES - 1) \cup 0..MAX_ENTRIES /\ attempt \in 0..MAX_ENTRIES
      /\ entries \in Seq(Numbers) /\ seen \subseteq Numbers /\ limit \in Nat
  BY DEF TypeInv, TypeOK
<1>2. reply.items \in Seq(Numbers) /\ reply.next \in 0..(SEQUENCES - 1)
  BY DEF Reply
<1>3. entries \o reply.items \in Seq(Numbers)
  BY <1>1, <1>2
<1>4. "get_operation_log" \notin Indexed /\ "get_passcodes" \notin Indexed
  BY DEF Indexed
<1>5. CASE TakeIndexed(reply)
  <2>1. method \in Indexed /\ method # "get_operation_log" /\ attempt < MAX_ENTRIES
        /\ cursor = attempt
    BY <1>4, <1>5 DEF TakeIndexed, TypeInv
  <2>2. attempt' = attempt + 1 /\ seen' = seen
    BY <1>5 DEF TakeIndexed
  <2>3. \/ phase' \in {"returned", "raised"} /\ cursor' = cursor
           /\ entries' \in {entries, entries \o reply.items}
        \/ phase' = "running" /\ cursor' = cursor + 1 /\ ~Capped(attempt + 1)
           /\ entries' = entries \o reply.items
    BY <1>5 DEF TakeIndexed, Raise, Return
  <2>4. attempt' \in 0..MAX_ENTRIES /\ seen' \subseteq Numbers
    BY <1>1, <2>1, <2>2
  <2>5. entries' \in Seq(Numbers)
    BY <1>1, <1>3, <2>3
  <2>6. phase' = "running" => cursor' = attempt' /\ attempt' < MAX_ENTRIES
    BY <1>1, <2>1, <2>2, <2>3 DEF Capped
  <2>7. cursor' \in 0..(SEQUENCES - 1) \cup 0..MAX_ENTRIES
    <3>1. cursor' = cursor \/ (cursor' = attempt + 1 /\ attempt + 1 \in 0..MAX_ENTRIES)
      BY <1>1, <2>1, <2>3
    <3> QED BY <1>1, <3>1
  <2>8. phase' \in {"running", "returned", "raised"}
    BY <2>3
  <2> QED BY <2>1, <2>4, <2>5, <2>6, <2>7, <2>8
<1>6. CASE TakePasscode(reply)
  <2>1. method = "get_passcodes" /\ attempt < MAX_ENTRIES
    BY <1>6 DEF TakePasscode, TypeInv
  <2>2. attempt' = attempt + 1 /\ seen' = seen
    BY <1>6 DEF TakePasscode
  <2>3. \/ phase' \in {"returned", "raised"} /\ cursor' = cursor
           /\ entries' \in {entries, entries \o reply.items}
        \/ phase' = "running" /\ cursor' = reply.next /\ ~Capped(attempt + 1)
           /\ entries' = entries \o reply.items
    BY <1>6 DEF TakePasscode, Raise, Return
  <2>4. attempt' \in 0..MAX_ENTRIES /\ seen' \subseteq Numbers
    BY <1>1, <2>1, <2>2
  <2>5. entries' \in Seq(Numbers)
    BY <1>1, <1>3, <2>3
  <2>6. phase' = "running" => attempt' < MAX_ENTRIES
    BY <1>1, <2>1, <2>2, <2>3 DEF Capped
  <2>7. cursor' \in 0..(SEQUENCES - 1) \cup 0..MAX_ENTRIES
    <3>1. cursor' = cursor \/ cursor' = reply.next
      BY <2>3
    <3> QED BY <1>1, <1>2, <3>1
  <2>8. phase' \in {"running", "returned", "raised"}
    BY <2>3
  <2> QED BY <1>4, <2>1, <2>4, <2>5, <2>6, <2>7, <2>8
<1>7. CASE TakePage(reply)
  <2>1. PICK new, all \in Seq(Numbers) :
           /\ all = entries \o new /\ Selected(reply.items, seen, new, Numbers)
           /\ new = Without(reply.items, seen)
           /\ UNCHANGED attempt /\ method = "get_operation_log"
           /\ IF reply.status = "garbled"
              THEN Raise /\ UNCHANGED seen
              ELSE /\ seen' = seen \cup {new[i] : i \in 1..Len(new)}
                   /\ IF new # <<>> /\ Len(all) >= limit
                      THEN Return(SubSeq(all, 1, limit))
                      ELSE IF Ends(reply, new) THEN Return(all)
                      ELSE /\ entries' = all
                           /\ cursor' = reply.next
                           /\ UNCHANGED phase
    BY <1>7, PageTaken DEF TypeInv
  <2>2. \A i \in 1..Len(new) : new[i] \in Numbers
    OBVIOUS
  <2>3. seen' \subseteq Numbers
    BY <1>1, <2>1, <2>2
  <2>4. limit <= Len(all) => SubSeq(all, 1, limit) \in Seq(Numbers)
    BY <1>1, Prefix
  <2>5. entries' \in Seq(Numbers)
    BY <1>1, <2>1, <2>4 DEF Raise, Return
  <2>6. /\ phase' \in {"running", "returned", "raised"} /\ cursor' \in {cursor, reply.next}
    BY <2>1 DEF Raise, Return
  <2> QED BY <1>1, <1>2, <1>4, <2>1, <2>3, <2>5, <2>6
<1> QED BY <1>5, <1>6, <1>7 DEF Take

LEMMA BeginsFit ==
  ASSUME NEW m \in Methods, NEW from \in Froms(m), NEW max \in Limits(m)
  PROVE  /\ from \in 0..(SEQUENCES - 1) /\ max \in Nat \ {0}
         /\ m # "get_operation_log" => from = 0
         /\ m = "get_operation_log" => from = SinceLastSync \/ from \in 1..MaxStored
<1> USE ListingsAssumption
<1>1. from \in 0..(SEQUENCES - 1)
  BY DEF Froms, SinceLastSync
<1>2. max \in Nat \ {0}
  BY DEF Limits, Unlimited
<1>3. /\ m # "get_operation_log" => from = 0
      /\ m = "get_operation_log" => from = SinceLastSync \/ from \in 1..MaxStored
  BY DEF Froms
<1> QED BY <1>1, <1>2, <1>3

LEMMA NextType == TypeInv /\ [Next]_vars => TypeInv'
<1> SUFFICES ASSUME TypeInv, [Next]_vars PROVE TypeInv'
  OBVIOUS
<1> USE ListingsAssumption
<1>1. ASSUME NEW m \in Methods, NEW from \in Froms(m), NEW max \in Limits(m),
             Begin(m, from, max)
      PROVE  TypeInv'
  <2>1. from \in 0..(SEQUENCES - 1) /\ max \in Nat /\ (m # "get_operation_log" => from = 0)
    BY BeginsFit
  <2>2. late' \in Seq(Reply)
    <3>1. late' \in {late, <<>>}
      BY <1>1 DEF Begin
    <3>2. late \in Seq(Reply)
      BY DEF TypeInv, TypeOK
    <3>3. <<>> \in Seq(Reply)
      OBVIOUS
    <3> QED BY <3>1, <3>2, <3>3
  <2>3. trouble' \in BOOLEAN
    <3>1. trouble' = (late' # <<>>)
      BY <1>1 DEF Begin
    <3> QED BY <3>1, Zenon
  <2>4. calls' \in 0..MaxCalls
    BY <1>1 DEF Begin, TypeInv, TypeOK
  <2>5. start' \in [stored : 0..MaxStored, cursor : 0..(SEQUENCES - 1)] /\ start'.stored = stored
    BY <1>1, <2>1 DEF Begin, TypeInv, TypeOK
  <2>6. /\ phase' = "running" /\ method' = m /\ cursor' = from /\ limit' = max
        /\ attempt' = 0 /\ entries' = <<>> /\ seen' = {}
        /\ UNCHANGED <<proper, stored, unread, unlisted>>
    BY <1>1 DEF Begin, lock
  <2>7. m \in Indexed => from = 0
    BY <2>1 DEF Indexed
  <2>8. entries' \in Seq(Numbers)
    BY <2>6
  <2> QED BY <2>1, <2>2, <2>3, <2>4, <2>5, <2>6, <2>7, <2>8 DEF TypeInv, TypeOK
<1>2. CASE RoundTrip
  <2>1. PICK answer \in LockReplies, reply \in Reply :
           /\ phase = "running" /\ Take(reply) /\ late' \in Seq(Reply)
           /\ trouble' = (trouble \/ reply.status # "ok") /\ trouble' \in BOOLEAN
           /\ UNCHANGED <<method, limit, proper, stored, unread, unlisted, calls, start>>
    BY <1>2, Round
  <2>2. /\ phase' \in {"running", "returned", "raised"}
        /\ cursor' \in 0..(SEQUENCES - 1) \cup 0..MAX_ENTRIES
        /\ attempt' \in 0..MAX_ENTRIES
        /\ entries' \in Seq(Numbers)
        /\ seen' \subseteq Numbers
        /\ phase' = "running" /\ method # "get_operation_log" => attempt' < MAX_ENTRIES
        /\ phase' = "running" /\ method \in Indexed => cursor' = attempt'
    BY <2>1, TakeTypes
  <2> QED BY <2>1, <2>2 DEF TypeInv, TypeOK
<1>3. CASE ExchangeFails
  <2>1. late' \in Seq(Reply)
    <3>1. PICK answer \in LockReplies : late' \in {late, Append(late, answer)}
      BY <1>3 DEF ExchangeFails
    <3>2. answer \in Reply /\ late \in Seq(Reply)
      BY <1>3, AnswersAreReplies DEF ExchangeFails, TypeInv, TypeOK
    <3>3. Append(late, answer) \in Seq(Reply)
      BY <3>2
    <3> QED BY <3>1, <3>2, <3>3
  <2>2. phase' = "raised" /\ trouble' = TRUE
        /\ UNCHANGED <<cursor, entries, method, limit, attempt, seen, proper, stored, unread,
                       unlisted, calls, start>>
    BY <1>3 DEF ExchangeFails, Raise, lock
  <2> QED BY <2>1, <2>2 DEF TypeInv, TypeOK
<1>4. CASE Grows
  <2>1. stored' \in 0..MaxStored /\ start'.stored <= stored'
    BY <1>4 DEF Grows, TypeInv, TypeOK
  <2>2. UNCHANGED <<client, proper, unread, unlisted, late, calls, start, trouble>>
    BY <1>4 DEF Grows
  <2> QED BY <2>1, <2>2 DEF TypeInv, TypeOK, client
<1>5. CASE UNCHANGED vars
  BY <1>5 DEF vars, client, lock, TypeInv, TypeOK
<1> QED
  BY <1>1, <1>2, <1>3, <1>4, <1>5 DEF Next

----------------------------------------------------------------------------
(* The log has no record twice.                                             *)
LEMMA AnswersAreDistinct ==
  ASSUME TypeOK, method = "get_operation_log", NEW answer \in LockReplies
  PROVE  Distinct(answer.items)
<1>1. ASSUME answer \in Refusals PROVE Distinct(answer.items)
  <2>1. answer.items = <<>>
    BY <1>1 DEF Refusals
  <2> QED BY <2>1 DEF Distinct
<1>2. ASSUME answer \notin Refusals, proper PROVE Distinct(answer.items)
  <2>1. answer.items = ProperItems
    BY <1>2 DEF LockReplies, ProperReplies
  <2> DEFINE n == IF cursor = SinceLastSync THEN unread ELSE cursor
  <2>2. ProperItems = ItemAt(n)
    BY ProperAnswer
  <2> HIDE DEF n
  <2>3. ItemAt(n) = <<n>> \/ ItemAt(n) = <<>>
    BY DEF ItemAt
  <2>4. Len(answer.items) = 1 \/ Len(answer.items) = 0
    BY <2>1, <2>2, <2>3
  <2> QED BY <2>4 DEF Distinct
<1>3. ASSUME answer \notin Refusals, ~proper PROVE Distinct(answer.items)
  <2>1. PICK n \in 0..MaxNext, size \in 0..2 : answer.items = Page(n, size)
    BY <1>3 DEF LockReplies, AnyReplies
  <2> DEFINE items == Page(n, size)
  <2>2. Len(items) = size /\ \A i \in 1..size : items[i] = n - i
    BY DEF Page
  <2> HIDE DEF items
  <2>3. n \in Int /\ \A i \in 1..size : i \in Int
    BY ListingsAssumption
  <2>4. Distinct(items)
    BY <2>2, <2>3 DEF Distinct
  <2> QED BY <2>1, <2>4 DEF items
<1> QED BY <1>1, <1>2, <1>3

LEMMA DistinctJoined ==
  ASSUME NEW S, NEW s \in Seq(S), NEW t \in Seq(S), NEW p, p = s \o t,
         Distinct(s), Distinct(t), NEW T,
         \A i \in 1..Len(s) : s[i] \in T, \A j \in 1..Len(t) : t[j] \notin T
  PROVE  Distinct(p)
<1>1. /\ p \in Seq(S) /\ Len(p) = Len(s) + Len(t) /\ Len(s) \in Nat /\ Len(t) \in Nat
      /\ \A i \in 1..Len(s) : p[i] = s[i]
      /\ \A i \in 1..Len(t) : p[Len(s) + i] = t[i]
      /\ \A i \in 1..Len(p) : i \in 1..Len(s) \/ i - Len(s) \in 1..Len(t)
  BY Joined
<1>2. \A i \in 1..Len(p) : i \in 1..Len(s) => p[i] = s[i] /\ p[i] \in T
  BY <1>1
<1>3. ASSUME NEW i \in 1..Len(p), i - Len(s) \in 1..Len(t)
      PROVE  p[i] = t[i - Len(s)] /\ p[i] \notin T
  <2>1. i = Len(s) + (i - Len(s))
    BY <1>1
  <2> QED BY <1>1, <1>3, <2>1
<1> SUFFICES ASSUME NEW i \in 1..Len(p), NEW j \in 1..Len(p), p[i] = p[j]
             PROVE  i = j
  BY DEF Distinct
<1>4. CASE i \in 1..Len(s) /\ j \in 1..Len(s)
  BY <1>1, <1>4 DEF Distinct
<1>5. CASE i - Len(s) \in 1..Len(t) /\ j - Len(s) \in 1..Len(t)
  <2>1. i - Len(s) = j - Len(s)
    BY <1>3, <1>5 DEF Distinct
  <2> QED BY <1>1, <2>1
<1>6. CASE i \in 1..Len(s) /\ j - Len(s) \in 1..Len(t)
  BY <1>2, <1>3, <1>6
<1>7. CASE i - Len(s) \in 1..Len(t) /\ j \in 1..Len(s)
  BY <1>2, <1>3, <1>7
<1> QED BY <1>1, <1>4, <1>5, <1>6, <1>7

LEMMA InitSeen == Init => SeenInv
  BY DEF Init, SeenInv

LEMMA NextSeen == TypeInv /\ SeenInv /\ [Next]_vars => SeenInv'
<1> SUFFICES ASSUME TypeInv, SeenInv, [Next]_vars, method' = "get_operation_log"
             PROVE  /\ \A i \in 1..Len(late') : Distinct(late'[i].items)
                    /\ Distinct(entries')
                    /\ phase' = "running" => \A i \in 1..Len(entries') : entries'[i] \in seen'
  BY DEF SeenInv, Distinct
<1>1. ASSUME NEW m \in Methods, NEW from \in Froms(m), NEW max \in Limits(m),
             Begin(m, from, max)
      PROVE  /\ \A i \in 1..Len(late') : Distinct(late'[i].items)
             /\ Distinct(entries')
             /\ phase' = "running" => \A i \in 1..Len(entries') : entries'[i] \in seen'
  <2>1. entries' = <<>> /\ (late' = <<>> \/ (late' = late /\ method = "get_operation_log"))
    BY <1>1 DEF Begin
  <2>2. \A i \in 1..Len(late') : Distinct(late'[i].items)
    BY <2>1 DEF SeenInv
  <2> QED BY <2>1, <2>2 DEF Distinct
<1>2. CASE RoundTrip
  <2>1. PICK answer \in LockReplies, reply \in Reply :
           /\ phase = "running" /\ Take(reply)
           /\ UNCHANGED <<method, limit>>
           /\ \A i \in 1..Len(late') :
                late'[i] = answer \/ \E k \in 1..Len(late) : late'[i] = late[k]
           /\ reply = answer \/ \E k \in 1..Len(late) : reply = late[k]
    BY <1>2, Round
  <2>2. method = "get_operation_log" /\ Distinct(answer.items)
    BY <2>1, AnswersAreDistinct DEF TypeInv
  <2>3. /\ \A i \in 1..Len(late) : Distinct(late[i].items)
        /\ Distinct(entries) /\ \A i \in 1..Len(entries) : entries[i] \in seen
    BY <2>1, <2>2 DEF SeenInv
  <2>4. Distinct(reply.items) /\ \A i \in 1..Len(late') : Distinct(late'[i].items)
    BY <2>1, <2>2, <2>3
  <2>5. TakePage(reply)
    BY <2>1, <2>2 DEF Take, TakeIndexed, TakePasscode, Indexed
  <2>6. PICK new, all \in Seq(Numbers) :
           /\ all = entries \o new /\ Selected(reply.items, seen, new, Numbers)
           /\ IF reply.status = "garbled"
              THEN Raise /\ UNCHANGED seen
              ELSE /\ seen' = seen \cup {new[i] : i \in 1..Len(new)}
                   /\ IF new # <<>> /\ Len(all) >= limit
                      THEN Return(SubSeq(all, 1, limit))
                      ELSE IF Ends(reply, new) THEN Return(all)
                      ELSE /\ entries' = all
                           /\ cursor' = reply.next
                           /\ UNCHANGED phase
    BY <2>5, PageTaken DEF TypeInv
  <2>7. entries \in Seq(Numbers) /\ limit \in Nat
    BY DEF TypeInv, TypeOK
  <2>8. Distinct(new) /\ \A j \in 1..Len(new) : new[j] \notin seen
    BY <2>4, <2>6 DEF Selected
  <2>9. Distinct(all)
    BY <2>3, <2>6, <2>7, <2>8, DistinctJoined
  <2>10. CASE reply.status = "garbled"
    BY <2>3, <2>4, <2>6, <2>10 DEF Raise
  <2>11. CASE reply.status # "garbled" /\ new # <<>> /\ Len(all) >= limit
    <3> DEFINE cut == SubSeq(all, 1, limit)
    <3>1. Len(cut) = limit /\ \A i \in 1..limit : cut[i] = all[i]
      BY <2>7, <2>11, Prefix
    <3>2. entries' = cut /\ phase' = "returned"
      BY <2>6, <2>11 DEF Return
    <3> HIDE DEF cut
    <3>3. Distinct(cut)
      BY <2>7, <2>9, <2>11, <3>1 DEF Distinct
    <3> QED BY <2>4, <3>2, <3>3
  <2>12. CASE reply.status # "garbled" /\ ~(new # <<>> /\ Len(all) >= limit)
    <3>1. entries' = all /\ seen' = seen \cup {new[i] : i \in 1..Len(new)}
      BY <2>6, <2>12 DEF Return
    <3>2. /\ \A i \in 1..Len(entries) : all[i] = entries[i]
          /\ \A i \in 1..Len(new) : all[Len(entries) + i] = new[i]
          /\ \A i \in 1..Len(all) : i \in 1..Len(entries) \/ i - Len(entries) \in 1..Len(new)
      BY <2>6, <2>7, Joined
    <3>3. ASSUME NEW i \in 1..Len(all) PROVE all[i] \in seen'
      <4>1. CASE i \in 1..Len(entries)
        BY <2>3, <3>1, <3>2, <4>1
      <4>2. CASE i - Len(entries) \in 1..Len(new)
        <5>1. i = Len(entries) + (i - Len(entries))
          BY <2>7
        <5>2. all[i] = new[i - Len(entries)]
          BY <3>2, <4>2, <5>1
        <5> QED BY <3>1, <4>2, <5>2
      <4> QED BY <3>2, <4>1, <4>2
    <3> QED BY <2>4, <2>9, <3>1, <3>3
  <2> QED BY <2>10, <2>11, <2>12
<1>3. CASE ExchangeFails
  <2>1. PICK answer \in LockReplies : late' \in {late, Append(late, answer)}
    BY <1>3 DEF ExchangeFails
  <2>2. phase' = "raised" /\ UNCHANGED <<entries, method>>
    BY <1>3 DEF ExchangeFails, Raise
  <2>3. method = "get_operation_log" /\ Distinct(answer.items)
    BY <2>2, AnswersAreDistinct DEF TypeInv
  <2>4. late \in Seq(Reply)
    BY DEF TypeInv, TypeOK
  <2>5. \A i \in 1..Len(late') :
          late'[i] = answer \/ \E k \in 1..Len(late) : late'[i] = late[k]
    <3>1. CASE late' = late
      BY <3>1
    <3>2. CASE late' = Append(late, answer)
      <4>1. answer \in Reply
        BY <1>3, AnswersAreReplies DEF ExchangeFails, TypeInv
      <4> QED BY <2>4, <3>2, <4>1, FirstReply
    <3> QED BY <2>1, <3>1, <3>2
  <2> QED BY <2>2, <2>3, <2>5 DEF SeenInv
<1>4. CASE Grows
  BY <1>4 DEF Grows, client, SeenInv
<1>5. CASE UNCHANGED vars
  BY <1>5 DEF vars, client, lock, SeenInv
<1> QED
  BY <1>1, <1>2, <1>3, <1>4, <1>5 DEF Next

----------------------------------------------------------------------------
(* The log has no gap.                                                      *)
LEMMA NoTrouble ==
  ASSUME TypeInv, late # <<>> => trouble, RoundTrip, ~trouble'
  PROVE  \E answer \in LockReplies :
           /\ phase = "running" /\ Take(answer) /\ answer \in Reply
           /\ late = <<>> /\ late' = <<>> /\ ~trouble /\ answer.status = "ok"
           /\ UNCHANGED <<method, limit, proper, stored, unread, unlisted, calls, start>>
           /\ proper => answer = [status |-> "ok", items |-> ProperItems, next |-> ProperNext]
<1>1. PICK answer \in LockReplies, reply \in Reply :
         /\ phase = "running" /\ Take(reply)
         /\ trouble' = (trouble \/ reply.status # "ok")
         /\ UNCHANGED <<method, limit, proper, stored, unread, unlisted, calls, start>>
         /\ late = <<>> => reply = answer /\ late' = <<>>
  BY Round
<1>2. ~trouble /\ reply.status = "ok" /\ late = <<>> /\ reply = answer /\ late' = <<>>
  BY <1>1
<1>3. ASSUME proper
      PROVE  answer = [status |-> "ok", items |-> ProperItems, next |-> ProperNext]
  BY <1>2, <1>3 DEF LockReplies, ProperReplies, Refusals
<1> QED BY <1>1, <1>2, <1>3

(* A reply that is late is trouble.                                         *)
LateInv == late # <<>> => trouble

LEMMA InitLate == Init => LateInv
  BY DEF Init, LateInv

LEMMA NextLate == TypeInv /\ LateInv /\ [Next]_vars => LateInv'
<1> SUFFICES ASSUME TypeInv, LateInv, [Next]_vars PROVE LateInv'
  OBVIOUS
<1>1. ASSUME NEW m \in Methods, NEW from \in Froms(m), NEW max \in Limits(m),
             Begin(m, from, max)
      PROVE  LateInv'
  BY <1>1 DEF Begin, LateInv
<1>2. CASE RoundTrip
  <2>1. ASSUME ~trouble' PROVE late' = <<>>
    BY <1>2, <2>1, NoTrouble DEF LateInv
  <2> QED BY <2>1 DEF LateInv
<1>3. CASE ExchangeFails
  BY <1>3 DEF ExchangeFails, LateInv
<1>4. CASE Grows
  BY <1>4 DEF Grows, LateInv
<1>5. CASE UNCHANGED vars
  BY <1>5 DEF vars, LateInv
<1> QED
  BY <1>1, <1>2, <1>3, <1>4, <1>5 DEF Next

LEMMA NextGap == TypeInv /\ LateInv /\ GapInv /\ [Next]_vars => GapInv'
<1> SUFFICES ASSUME TypeInv, LateInv, GapInv, [Next]_vars,
                    Undisturbed', method' = "get_operation_log"
             PROVE  /\ First' \in 1..(SEQUENCES - 2)
                    /\ phase' = "running" => Consecutive' /\ AtTheNext'
                    /\ phase' = "returned" =>
                         /\ Consecutive'
                         /\ First' + Len(entries') - 1 >= start'.stored \/ Len(entries') = limit'
  BY DEF GapInv
<1> USE ListingsAssumption
<1>1. /\ stored \in 0..MaxStored /\ unread \in 1..(MaxStored + 1) /\ entries \in Seq(Numbers)
      /\ limit \in Nat /\ start.stored \in Nat /\ start.stored <= stored /\ cursor \in Nat
      /\ start.cursor \in Nat
  BY DEF TypeInv, TypeOK
<1>2. proper' /\ ~trouble'
  BY DEF Undisturbed
<1>3. ASSUME NEW m \in Methods, NEW from \in Froms(m), NEW max \in Limits(m),
             Begin(m, from, max)
      PROVE  /\ First' \in 1..(SEQUENCES - 2) /\ phase' = "running"
             /\ Consecutive' /\ AtTheNext'
  <2>1. /\ from = SinceLastSync \/ from \in 1..MaxStored
        /\ max \in Nat \ {0}
    BY <1>3, BeginsFit DEF Begin
  <2>2. /\ phase' = "running" /\ cursor' = from /\ limit' = max /\ entries' = <<>>
        /\ seen' = {} /\ start'.cursor = from /\ unread' = unread
    BY <1>3 DEF Begin, lock
  <2>3. First' \in 1..(SEQUENCES - 2)
    <3>1. First' = IF from = SinceLastSync THEN unread ELSE from
      BY <2>2 DEF First, SinceLastSync
    <3>2. unread \in 1..(SEQUENCES - 2) /\ 1..MaxStored \subseteq 1..(SEQUENCES - 2)
      BY <1>1
    <3> QED BY <2>1, <3>1, <3>2
  <2>4. Consecutive' /\ AtTheNext'
    BY <2>1, <2>2 DEF Consecutive, AtTheNext
  <2> QED BY <2>2, <2>3, <2>4
<1>4. CASE RoundTrip
  <2>1. PICK answer \in LockReplies :
          /\ phase = "running" /\ Take(answer) /\ answer \in Reply
          /\ late = <<>> /\ late' = <<>> /\ ~trouble /\ answer.status = "ok"
          /\ UNCHANGED <<method, limit, proper, stored, unread, unlisted, calls, start>>
          /\ proper => answer = [status |-> "ok", items |-> ProperItems, next |-> ProperNext]
    BY <1>2, <1>4, NoTrouble DEF LateInv
  <2>2. proper /\ method = "get_operation_log" /\ Undisturbed
    BY <1>2, <2>1 DEF Undisturbed
  <2>3. answer.items = ProperItems /\ answer.next = ProperNext
    BY <2>1, <2>2
  <2>4. First \in 1..(SEQUENCES - 2) /\ Consecutive /\ AtTheNext
    BY <2>1, <2>2 DEF GapInv
  <2> DEFINE n == First + Len(entries)
  <2>5. n \in Nat \ {0} /\ Len(entries) \in Nat /\ First \in Nat
    BY <1>1, <2>4
  <2>6. (IF cursor = SinceLastSync THEN unread ELSE cursor) = n
    <3>1. CASE entries = <<>>
      BY <1>1, <2>4, <3>1 DEF AtTheNext, First
    <3>2. CASE entries # <<>>
      BY <1>1, <2>4, <3>2 DEF AtTheNext, SinceLastSync
    <3> QED BY <3>1, <3>2
  <2>7. /\ ProperItems = ItemAt(n)
        /\ ProperNext = IF ProperItems = <<>> THEN 0 ELSE ProperItems[1] + 1
    BY <2>2, <2>6, ProperAnswer
  <2>8. TakePage(answer)
    BY <2>1, <2>2 DEF Take, TakeIndexed, TakePasscode, Indexed
  <2>9. PICK new, all \in Seq(Numbers) :
           /\ all = entries \o new /\ Selected(answer.items, seen, new, Numbers)
           /\ new = Without(answer.items, seen)
           /\ UNCHANGED attempt /\ method = "get_operation_log"
           /\ IF answer.status = "garbled"
              THEN Raise /\ UNCHANGED seen
              ELSE /\ seen' = seen \cup {new[i] : i \in 1..Len(new)}
                   /\ IF new # <<>> /\ Len(all) >= limit
                      THEN Return(SubSeq(all, 1, limit))
                      ELSE IF Ends(answer, new) THEN Return(all)
                      ELSE /\ entries' = all
                           /\ cursor' = answer.next
                           /\ UNCHANGED phase
    BY <2>1, <2>8, PageTaken DEF TypeInv
  <2>10. /\ seen' = seen \cup {new[i] : i \in 1..Len(new)}
         /\ IF new # <<>> /\ Len(all) >= limit
            THEN Return(SubSeq(all, 1, limit))
            ELSE IF Ends(answer, new) THEN Return(all)
            ELSE entries' = all /\ cursor' = answer.next /\ UNCHANGED phase
    BY <2>1, <2>9
  <2>11. First' = First /\ start' = start /\ limit' = limit /\ stored' = stored
    BY <2>1 DEF First
  <2> HIDE DEF n
  <2>12. CASE n \notin 1..stored
    <3>1. answer.items = <<>>
      BY <2>3, <2>7, <2>12 DEF ItemAt
    <3>2. new = <<>>
      BY <2>9, <3>1, WithoutNothing
    <3>3. all = entries
      BY <1>1, <2>9, <3>2, Joined
    <3>4. phase' = "returned" /\ entries' = entries
      BY <2>10, <3>2, <3>3 DEF Return, Ends
    <3>5. n > stored
      BY <1>1, <2>5, <2>12
    <3>6. Consecutive'
      BY <2>4, <2>11, <3>4 DEF Consecutive
    <3>7. First + Len(entries) - 1 >= start.stored
      BY <1>1, <2>5, <3>5 DEF n
    <3> QED BY <2>4, <2>11, <3>4, <3>6, <3>7
  <2>13. CASE n \in 1..stored
    <3>1. answer.items = <<n>> /\ answer.next = n + 1
      <4>1. ProperItems = <<n>>
        BY <2>7, <2>13 DEF ItemAt
      <4>2. ProperItems # <<>> /\ ProperItems[1] = n
        BY <4>1
      <4> QED BY <2>3, <2>7, <4>1, <4>2
    <3>2. n \notin seen
      BY <2>4, <2>5 DEF AtTheNext, n
    <3>3. new = <<n>>
      <4> DEFINE none == <<>>
      <4>1. <<n>> = Append(none, n) /\ none \in Seq(Nat)
        OBVIOUS
      <4>2. Without(none, seen) = none
        BY WithoutNothing
      <4> HIDE DEF none
      <4>3. Without(Append(none, n), seen) = Append(none, n)
        BY <2>5, <3>2, <4>1, <4>2, WithoutAppend
      <4> QED BY <2>9, <3>1, <4>1, <4>3
    <3>4. /\ all \in Seq(Numbers) /\ Len(all) = Len(entries) + 1
          /\ all[Len(entries) + 1] = n
          /\ \A i \in 1..Len(entries) : all[i] = entries[i]
      <4> DEFINE one == <<n>>
      <4>1. Len(one) = 1 /\ one[1] = n /\ new = one
        BY <3>3
      <4> HIDE DEF one
      <4>2. /\ Len(all) = Len(entries) + Len(new)
            /\ \A i \in 1..Len(entries) : all[i] = entries[i]
            /\ \A i \in 1..Len(new) : all[Len(entries) + i] = new[i]
        BY <1>1, <2>9, Joined
      <4>3. Len(new) = 1
        BY <4>1, Zenon
      <4>4. new[1] = n
        BY <4>1, Zenon
      <4>5. all[Len(entries) + 1] = n
        BY <4>2, <4>3, <4>4
      <4> QED BY <2>9, <4>2, <4>3, <4>5
    <3>5. \A i \in 1..Len(all) : all[i] = First + i - 1
      <4> TAKE i \in 1..Len(all)
      <4>1. CASE i = Len(entries) + 1
        BY <2>5, <3>4, <4>1 DEF n
      <4>2. CASE i \in 1..Len(entries)
        BY <2>4, <3>4, <4>2 DEF Consecutive
      <4> QED BY <2>5, <3>4, <4>1, <4>2
    <3>6. new # <<>>
      BY <3>3
    <3>7. CASE Len(all) >= limit
      <4>1. Len(all) = limit
        BY <1>1, <2>4, <2>5, <3>4, <3>7 DEF AtTheNext
      <4>2. SubSeq(all, 1, limit) = all
        BY <1>1, <4>1, Prefix
      <4>3. phase' = "returned" /\ entries' = all
        BY <2>10, <3>6, <3>7, <4>2 DEF Return
      <4> QED BY <2>4, <2>11, <3>5, <4>1, <4>3 DEF Consecutive
    <3>8. CASE ~(Len(all) >= limit)
      <4>1. n + 1 # cursor /\ n + 1 # 0
        <5>1. cursor = SEQUENCES - 1 \/ cursor = n
          BY <2>6 DEF SinceLastSync
        <5>2. n + 1 < SEQUENCES - 1
          BY <1>1, <2>5, <2>13
        <5> QED BY <1>1, <2>5, <5>1, <5>2
      <4>2. ~Ends(answer, new)
        BY <3>1, <3>6, <4>1 DEF Ends
      <4>3. entries' = all /\ cursor' = n + 1 /\ phase' = "running"
        BY <2>1, <2>10, <3>1, <3>8, <4>2
      <4>4. Consecutive'
        BY <2>11, <3>5, <4>3 DEF Consecutive
      <4>5. Len(entries') < limit' /\ entries' # <<>>
        BY <1>1, <2>5, <2>11, <3>4, <3>8, <4>3
      <4>6. cursor' = First' + Len(entries') /\ cursor' <= stored' + 1
        BY <1>1, <2>5, <2>11, <2>13, <3>4, <4>3 DEF n
      <4>7. ASSUME NEW k \in seen' PROVE k < First' + Len(entries')
        <5>1. k \in seen \/ k = n
          BY <2>10, <3>3, <4>7
        <5>2. First' + Len(entries') = n + 1
          BY <2>5, <2>11, <3>4, <4>3 DEF n
        <5>3. CASE k \in seen
          <6>1. k < n
            BY <2>4, <5>3 DEF AtTheNext, n
          <6>2. k \in Int
            BY <5>3 DEF TypeInv, TypeOK, Numbers
          <6> QED BY <2>5, <5>2, <6>1, <6>2
        <5> QED BY <2>5, <5>1, <5>2, <5>3
      <4> QED BY <2>4, <2>11, <4>3, <4>4, <4>5, <4>6, <4>7 DEF AtTheNext
    <3> QED BY <3>7, <3>8
  <2> QED BY <2>12, <2>13
<1>5. CASE ExchangeFails
  BY <1>2, <1>5 DEF ExchangeFails
<1>6. CASE Grows
  <2>1. /\ UNCHANGED <<method, phase, cursor, limit, entries, seen, proper, unread, start, trouble>>
        /\ stored' = stored + 1
    BY <1>6 DEF Grows, client
  <2>2. Undisturbed /\ method = "get_operation_log" /\ First' = First
    BY <1>2, <2>1 DEF Undisturbed, First
  <2>3. AtTheNext => AtTheNext'
    BY <1>1, <2>1, <2>2 DEF AtTheNext
  <2>4. Consecutive => Consecutive'
    BY <2>1, <2>2 DEF Consecutive
  <2> QED BY <2>1, <2>2, <2>3, <2>4 DEF GapInv
<1>7. CASE UNCHANGED vars
  BY <1>2, <1>7 DEF vars, client, lock, GapInv, Undisturbed, First, AtTheNext, Consecutive
<1> QED
  BY <1>3, <1>4, <1>5, <1>6, <1>7 DEF Next

LEMMA InitGap == Init => GapInv
  BY DEF Init, GapInv

----------------------------------------------------------------------------
(* The other lists are whole.                                               *)
LEMMA NextUpto ==
  ASSUME NEW n \in Nat
  PROVE  Upto(n) \in Seq(Nat) /\ Upto(n + 1) = Append(Upto(n), n + 1)
  BY DEF Upto

LEMMA UptoNothing == Upto(0) = <<>>
  BY DEF Upto

LEMMA NextListed ==
  ASSUME NEW m, NEW gone, NEW n \in Nat
  PROVE  ListOf(m, gone, n + 1) =
           IF m = "get_passcodes" /\ n + 1 \in gone THEN ListOf(m, gone, n)
           ELSE Append(ListOf(m, gone, n), n + 1)
<1>1. Upto(n) \in Seq(Nat) /\ Upto(n + 1) = Append(Upto(n), n + 1)
  BY NextUpto, Zenon
<1>2. n + 1 \in Nat
  OBVIOUS
<1>3. Without(Append(Upto(n), n + 1), gone) =
        IF n + 1 \in gone THEN Without(Upto(n), gone) ELSE Append(Without(Upto(n), gone), n + 1)
  <2> DEFINE upto == Upto(n)
             x == n + 1
  <2>1. upto \in Seq(Nat) /\ x \in Nat
    BY <1>1, <1>2
  <2> HIDE DEF upto, x
  <2>2. Without(Append(upto, x), gone) =
          IF x \in gone THEN Without(upto, gone) ELSE Append(Without(upto, gone), x)
    BY <2>1, WithoutAppend
  <2> QED BY <2>2 DEF upto, x
<1> QED BY <1>1, <1>3 DEF ListOf

LEMMA ListedNothing ==
  ASSUME NEW m, NEW gone
  PROVE  ListOf(m, gone, 0) = <<>>
  BY UptoNothing, WithoutNothing DEF ListOf

LEMMA InitWhole == Init => WholeInv
  BY DEF Init, WholeInv

LEMMA NextWhole == TypeInv /\ LateInv /\ WholeInv /\ [Next]_vars => WholeInv'
<1> SUFFICES ASSUME TypeInv, LateInv, WholeInv, [Next]_vars,
                    Undisturbed', method' # "get_operation_log"
             PROVE  /\ phase' = "running" => cursor' \in 0..stored' /\ entries' = Listed(cursor)'
                    /\ phase' = "returned" =>
                         \E n \in start'.stored..stored' : entries' = Listed(n)'
  BY DEF WholeInv
<1> USE ListingsAssumption
<1>1. /\ stored \in 0..MaxStored /\ entries \in Seq(Numbers) /\ cursor \in Nat
      /\ start.stored \in Nat /\ start.stored <= stored
  BY DEF TypeInv, TypeOK
<1>2. proper' /\ ~trouble'
  BY DEF Undisturbed
<1>3. ASSUME NEW m \in Methods, NEW from \in Froms(m), NEW max \in Limits(m),
             Begin(m, from, max)
      PROVE  phase' = "running" /\ cursor' \in 0..stored' /\ entries' = Listed(cursor)'
  <2>1. /\ phase' = "running" /\ method' = m /\ cursor' = from /\ entries' = <<>>
        /\ stored' = stored
    BY <1>3 DEF Begin, lock
  <2>2. from = 0
    BY <2>1, BeginsFit
  <2>3. ListOf(method', unlisted', cursor') = <<>>
    BY <2>1, <2>2, ListedNothing
  <2>4. entries' = Listed(cursor)'
    BY <2>1, <2>3 DEF Listed
  <2> QED BY <1>1, <2>1, <2>2, <2>4
<1>4. CASE RoundTrip
  <2>1. PICK answer \in LockReplies :
          /\ phase = "running" /\ Take(answer) /\ answer \in Reply
          /\ late = <<>> /\ late' = <<>> /\ ~trouble /\ answer.status = "ok"
          /\ UNCHANGED <<method, limit, proper, stored, unread, unlisted, calls, start>>
          /\ proper => answer = [status |-> "ok", items |-> ProperItems, next |-> ProperNext]
    BY <1>2, <1>4, NoTrouble DEF LateInv
  <2>2. proper /\ method # "get_operation_log" /\ Undisturbed
    BY <1>2, <2>1 DEF Undisturbed
  <2>3. answer.items = ProperItems /\ answer.next = ProperNext
    BY <2>1, <2>2
  <2>4. cursor \in 0..stored /\ entries = Listed(cursor)
    BY <2>1, <2>2 DEF WholeInv
  <2>5. ListOf(method, unlisted, cursor + 1) =
          IF method = "get_passcodes" /\ cursor + 1 \in unlisted THEN entries
          ELSE Append(entries, cursor + 1)
    BY <2>4, NextListed DEF Listed
  <2>6. /\ Listed(cursor)' = ListOf(method, unlisted, cursor')
        /\ \A n : Listed(n)' = ListOf(method, unlisted, n)
        /\ stored' = stored /\ start' = start
    BY <2>1 DEF Listed
  <2>7. CASE TakeIndexed(answer)
    <3>1. method \in Indexed /\ method # "get_passcodes"
      BY <2>7 DEF TakeIndexed, Indexed
    <3>2. answer.items = ItemAt(cursor + 1)
      BY <2>3, <3>1, ProperAnswer
    <3>3. CASE cursor + 1 \in 1..stored
      <4>1. answer.items = <<cursor + 1>> /\ answer.items # <<>>
        BY <3>2, <3>3 DEF ItemAt
      <4>2. entries \o answer.items = Append(entries, cursor + 1)
        BY <1>1, <4>1
      <4>3. \/ phase' = "raised"
            \/ phase' = "running" /\ cursor' = cursor + 1 /\ entries' = entries \o answer.items
        BY <2>1, <2>7, <4>1 DEF TakeIndexed
      <4> QED BY <2>5, <2>6, <3>1, <3>3, <4>2, <4>3
    <3>4. CASE cursor + 1 \notin 1..stored
      <4>1. answer.items = <<>> /\ cursor = stored
        BY <1>1, <2>4, <3>2, <3>4 DEF ItemAt
      <4>2. phase' = "returned" /\ entries' = entries
        BY <2>1, <2>7, <4>1 DEF TakeIndexed, Return
      <4> QED BY <1>1, <2>4, <2>6, <4>1, <4>2 DEF Listed
    <3> QED BY <3>3, <3>4
  <2>8. CASE TakePasscode(answer)
    <3>1. method = "get_passcodes"
      BY <2>8 DEF TakePasscode
    <3>2. /\ answer.items = IF cursor + 1 \in unlisted THEN <<>> ELSE ItemAt(cursor + 1)
          /\ answer.next = IF cursor + 1 < stored THEN cursor + 1 ELSE 0
      BY <2>3, <3>1, ProperAnswer
    <3>3. cursor + 1 \in 1..stored => entries \o answer.items = ListOf(method, unlisted, cursor + 1)
      <4>1. CASE cursor + 1 \in unlisted
        BY <1>1, <2>5, <3>1, <3>2, <4>1
      <4>2. CASE cursor + 1 \notin unlisted /\ cursor + 1 \in 1..stored
        <5>1. answer.items = <<cursor + 1>>
          BY <3>2, <4>2 DEF ItemAt
        <5>2. entries \o answer.items = Append(entries, cursor + 1)
          BY <1>1, <5>1
        <5> QED BY <2>5, <4>2, <5>2
      <4> QED BY <4>1, <4>2
    <3>4. cursor = stored => entries \o answer.items = entries
      <4>1. ASSUME cursor = stored PROVE answer.items = <<>>
        <5>1. ItemAt(cursor + 1) = <<>>
          BY <1>1, <4>1 DEF ItemAt
        <5> QED BY <3>2, <5>1
      <4> QED BY <1>1, <4>1
    <3>5. CASE cursor + 1 < stored
      <4>1. answer.next = cursor + 1 /\ cursor + 1 # 0
        BY <1>1, <3>2, <3>5
      <4>2. \/ phase' = "raised"
            \/ phase' = "running" /\ cursor' = cursor + 1 /\ entries' = entries \o answer.items
        BY <2>1, <2>8, <4>1 DEF TakePasscode
      <4>3. cursor + 1 \in 1..stored /\ cursor + 1 \in 0..stored
        BY <1>1, <3>5
      <4> QED BY <2>6, <3>3, <4>2, <4>3
    <3>6. CASE ~(cursor + 1 < stored)
      <4>1. phase' = "returned" /\ entries' = entries \o answer.items
        BY <2>1, <2>8, <3>2, <3>6 DEF TakePasscode, Return
      <4>2. CASE cursor = stored
        BY <1>1, <2>4, <2>6, <3>4, <4>1, <4>2 DEF Listed
      <4>3. CASE cursor + 1 = stored
        <5>1. entries' = ListOf(method, unlisted, stored)
          BY <1>1, <3>3, <4>1, <4>3
        <5> QED BY <1>1, <2>6, <4>1, <5>1
      <4> QED BY <1>1, <2>4, <3>6, <4>2, <4>3
    <3> QED BY <3>5, <3>6
  <2>9. ~TakePage(answer)
    BY <2>2 DEF TakePage
  <2> QED BY <2>1, <2>7, <2>8, <2>9 DEF Take
<1>5. CASE ExchangeFails
  BY <1>2, <1>5 DEF ExchangeFails
<1>6. CASE Grows
  <2>1. /\ UNCHANGED <<method, phase, cursor, entries, proper, unlisted, start, trouble>>
        /\ stored' = stored + 1
    BY <1>6 DEF Grows, client
  <2>2. Undisturbed /\ method # "get_operation_log" /\ \A n : Listed(n)' = Listed(n)
    BY <1>2, <2>1 DEF Undisturbed, Listed
  <2>3. phase = "running" => cursor' \in 0..stored' /\ entries' = Listed(cursor)'
    BY <1>1, <2>1, <2>2 DEF WholeInv, Listed
  <2>4. ASSUME phase = "returned"
        PROVE  \E n \in start'.stored..stored' : entries' = Listed(n)'
    <3>1. PICK n \in start.stored..stored : entries = Listed(n)
      BY <2>2, <2>4 DEF WholeInv
    <3>2. n \in start'.stored..stored'
      BY <1>1, <2>1
    <3> QED BY <2>1, <2>2, <3>1, <3>2
  <2> QED BY <2>1, <2>3, <2>4
<1>7. CASE UNCHANGED vars
  BY <1>2, <1>7 DEF vars, client, lock, WholeInv, Undisturbed, Listed
<1> QED
  BY <1>3, <1>4, <1>5, <1>6, <1>7 DEF Next

----------------------------------------------------------------------------
IInv == TypeInv /\ SeenInv /\ LateInv /\ GapInv /\ WholeInv

LEMMA InitIInv == Init => IInv
  BY InitType, InitSeen, InitLate, InitGap, InitWhole DEF IInv

(* Every step keeps the inductive invariant ...                             *)
LEMMA NextIInv == IInv /\ [Next]_vars => IInv'
  BY NextType, NextSeen, NextLate, NextGap, NextWhole DEF IInv

(* ... so every state of a listing satisfies it.                            *)
THEOREM Inductive == Spec => []IInv
  BY InitIInv, NextIInv, PTL DEF Spec

(* Every variable keeps its type: the cursor is an index or a sequence      *)
(* number that a command can carry, whatever the lock answers.              *)
THEOREM TypeCorrect == Spec => []TypeOK
<1>1. IInv => TypeOK
  BY DEF IInv, TypeInv
<1> QED BY <1>1, Inductive, PTL

(* The log that get_operation_log returns holds no record twice: for any    *)
(* number of pages, with overlaps, from a lock that answers what it likes,  *)
(* and when replies to earlier commands come late.                          *)
THEOREM NoRecordIsTwice == Spec => []NoRecordTwice
<1>1. IInv => NoRecordTwice
  BY DEF IInv, SeenInv, NoRecordTwice, Distinct
<1> QED BY <1>1, Inductive, PTL

(* The log of a proper lock comes without a gap from the record asked for   *)
(* to the last one there was when the call was made, or to max_entries of   *)
(* them: for a log of any length that grows while it is read, and for any   *)
(* number of sequence numbers that it fits in.                              *)
THEOREM LogHasNoGap == Spec => []LogIsGapless
<1>1. IInv => LogIsGapless
  BY DEF IInv, GapInv, LogIsGapless, Consecutive, First
<1> QED BY <1>1, Inductive, PTL

(* The cards, fingerprints and passcodes that are returned are all those    *)
(* the lock had when the listing began, in order, and those added before    *)
(* its end was read, but for passcodes that no layout is known for.         *)
THEOREM ListsComplete == Spec => []ListsAreWhole
<1>1. IInv => ListsAreWhole
  BY DEF IInv, WholeInv, ListsAreWhole, Listed, ListOf
<1> QED BY <1>1, Inductive, PTL

----------------------------------------------------------------------------
(* The cap.                                                                *)

(* While nothing went wrong, no reply is late, and a listing by index or by *)
(* the cursor of a proper lock has asked for one entry per command and has  *)
(* not gone past the end of the list.                                      *)
InStep ==
  /\ cursor = attempt /\ attempt \in Nat
  /\ attempt < MAX_ENTRIES /\ cursor <= stored

CapInv ==
  /\ method \in Methods
  /\ stored \in Nat /\ proper \in BOOLEAN /\ trouble \in BOOLEAN
  /\ ~trouble => late = <<>>
  /\ Undisturbed /\ phase = "running" /\ method # "get_operation_log" => InStep
  /\ RaisesOnlyAtTheCap

LEMMA InitCap == Init => CapInv
<1> SUFFICES ASSUME Init PROVE CapInv
  OBVIOUS
<1>1. stored \in Nat
  BY ListingsAssumption DEF Init
<1>2. method \in Methods /\ proper \in BOOLEAN /\ trouble = FALSE
  BY DEF Init, Methods, Indexed
<1>3. phase = "idle" /\ late = <<>>
  BY DEF Init
<1> QED
  BY <1>1, <1>2, <1>3 DEF CapInv, RaisesOnlyAtTheCap

(* What a proper lock answers: no entry behind the last one, and no cursor  *)
(* either.                                                                 *)
LEMMA ProperAnswers ==
  ASSUME CapInv, Undisturbed, phase = "running", method # "get_operation_log",
         NEW answer \in LockReplies, answer.status = "ok"
  PROVE  /\ method \in Indexed /\ answer.items # <<>> => cursor + 1 <= stored
         /\ method = "get_passcodes" /\ answer.next # 0 =>
              answer.next = cursor + 1 /\ cursor + 1 < stored
<1>1. answer = [status |-> "ok", items |-> ProperItems, next |-> ProperNext]
  BY DEF LockReplies, ProperReplies, Refusals, Undisturbed
<1>2. cursor \in Nat /\ stored \in Nat
  BY DEF CapInv, InStep
<1>3. ASSUME method \in Indexed, answer.items # <<>> PROVE cursor + 1 <= stored
  <2>1. ProperItems = ItemAt(cursor + 1)
    BY <1>3 DEF ProperItems, Indexed
  <2>2. ItemAt(cursor + 1) # <<>>
    <3>1. answer.items = ProperItems
      BY <1>1
    <3> QED
      BY <1>3, <2>1, <3>1, Zenon
  <2>3. cursor + 1 \in 1..stored
    BY <2>2, Zenon DEF ItemAt
  <2> QED
    BY <1>2, <2>3
<1>4. ASSUME method = "get_passcodes", answer.next # 0
      PROVE  answer.next = cursor + 1 /\ cursor + 1 < stored
  <2>1. ProperNext = IF cursor + 1 < stored THEN cursor + 1 ELSE 0
    BY <1>4 DEF ProperNext, Indexed
  <2> QED
    BY <1>1, <1>4, <2>1
<1> QED
  BY <1>3, <1>4

LEMMA NextCap == CapInv /\ [Next]_vars => CapInv'
<1> SUFFICES ASSUME CapInv, [Next]_vars PROVE CapInv'
  OBVIOUS
<1> USE ListingsAssumption
<1>1. ASSUME NEW m \in Methods, NEW from \in Froms(m), NEW max \in Limits(m),
             Begin(m, from, max)
      PROVE  CapInv'
  <2>1. m # "get_operation_log" => from = 0
    BY DEF Froms
  <2> QED
    BY <1>1, <2>1 DEF CapInv, InStep, RaisesOnlyAtTheCap, Undisturbed, Begin, lock
<1>2. CASE RoundTrip
  <2>1. PICK answer \in LockReplies :
          LET replies == Append(late, answer)
          IN  /\ Take(Head(replies))
              /\ late' = Tail(replies)
              /\ trouble' = (trouble \/ Head(replies).status # "ok")
    BY <1>2 DEF RoundTrip
  <2>2. UNCHANGED <<method, limit, proper, stored, unread, unlisted, calls, start>>
        /\ phase = "running"
    BY <1>2 DEF RoundTrip, lock
  <2>3. trouble' \in BOOLEAN
    BY <2>1, Zenon DEF CapInv
  <2>4. CASE trouble' \/ ~proper
    BY <2>1, <2>2, <2>3, <2>4 DEF CapInv, RaisesOnlyAtTheCap, Undisturbed
  <2>5. CASE ~trouble' /\ proper
    <3>1. ~trouble /\ late = <<>>
      BY <2>1, <2>5 DEF CapInv
    <3>2. Take(answer) /\ late' = <<>> /\ answer.status = "ok"
      BY <2>1, <2>5, <3>1, OneReply
    <3>3. Undisturbed /\ Undisturbed'
      BY <2>2, <2>5, <3>1 DEF Undisturbed
    <3>4. CASE TakeIndexed(answer)
      <4>1. InStep /\ method \in Indexed /\ method # "get_operation_log"
        BY <2>2, <3>3, <3>4 DEF CapInv, TakeIndexed, Indexed
      <4>2. answer.items # <<>> => cursor + 1 <= stored
        BY <2>2, <3>2, <3>3, <4>1, ProperAnswers
      <4>3. (phase' = "running" => InStep') /\ (phase' = "raised" => stored' >= MAX_ENTRIES)
        BY <2>2, <3>2, <3>4, <4>1, <4>2 DEF TakeIndexed, InStep, Return, Capped, CapInv
      <4> QED
        BY <2>2, <2>3, <3>2, <4>1, <4>3 DEF CapInv, RaisesOnlyAtTheCap
    <3>5. CASE TakePasscode(answer)
      <4>1. InStep /\ method = "get_passcodes"
        BY <2>2, <3>3, <3>5 DEF CapInv, TakePasscode
      <4>2. answer.next # 0 => answer.next = cursor + 1 /\ cursor + 1 < stored
        BY <2>2, <3>2, <3>3, <4>1, ProperAnswers
      <4>3. (phase' = "running" => InStep') /\ (phase' = "raised" => stored' > MAX_ENTRIES)
        BY <2>2, <3>2, <3>5, <4>1, <4>2 DEF TakePasscode, InStep, Return, Capped, CapInv
      <4> QED
        BY <2>2, <2>3, <3>2, <4>1, <4>3 DEF CapInv, RaisesOnlyAtTheCap
    <3>6. CASE TakePage(answer)
      <4>1. method' = "get_operation_log" /\ phase' # "raised"
        BY <2>2, <3>2, <3>6 DEF TakePage, Return
      <4> QED
        BY <2>2, <2>3, <3>2, <4>1 DEF CapInv, RaisesOnlyAtTheCap
    <3> QED
      BY <3>2, <3>4, <3>5, <3>6 DEF Take
  <2> QED
    BY <2>3, <2>4, <2>5
<1>3. CASE ExchangeFails
  BY <1>3 DEF ExchangeFails, CapInv, RaisesOnlyAtTheCap, Undisturbed, lock
<1>4. CASE Grows
  <2>1. stored \in Nat /\ stored' = stored + 1
    BY <1>4 DEF Grows, CapInv
  <2>2. InStep => InStep'
    BY <1>4, <2>1 DEF Grows, InStep, client
  <2>3. RaisesOnlyAtTheCap'
    BY <1>4, <2>1 DEF Grows, CapInv, RaisesOnlyAtTheCap, Undisturbed, client
  <2> QED
    BY <1>4, <2>1, <2>2, <2>3 DEF Grows, CapInv, Undisturbed, client
<1>5. CASE UNCHANGED vars
  BY <1>5 DEF vars, client, lock, CapInv, InStep, RaisesOnlyAtTheCap, Undisturbed
<1> QED
  BY <1>1, <1>2, <1>3, <1>4, <1>5 DEF Next

(* A listing that nothing disturbs raises only because the list does not    *)
(* end within the cap: for every cap and every length of the list, that     *)
(* grows meanwhile (the for/else of get_cards, get_fingerprints and         *)
(* get_passcodes).                                                         *)
THEOREM OnlyTheCapRaises == Spec => []RaisesOnlyAtTheCap
<1>1. CapInv => RaisesOnlyAtTheCap
  BY DEF CapInv
<1> QED
  BY <1>1, InitCap, NextCap, PTL DEF Spec
=============================================================================
