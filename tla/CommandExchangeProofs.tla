----------------------- MODULE CommandExchangeProofs -----------------------
(***************************************************************************)
(* Theorems about CommandExchange, for any number of tasks and any method  *)
(* programs.                                                               *)
(***************************************************************************)
EXTENDS CommandExchange, FiniteSetTheorems, SequenceTheorems, TLAPS

(* The command lock: its queue holds each active task once, and only its    *)
(* head is inside exchange.                                                 *)
LockInv ==
  /\ \A i, j \in 1..Len(commandLock) : commandLock[i] = commandLock[j] => i = j
  /\ \A t \in Tasks :
       pc[t] # "idle" <=> \E i \in 1..Len(commandLock) : commandLock[i] = t
  /\ \A t \in Tasks : InExchange(t) => Holds(t)

(* The counter is raised exactly while some task is inside exchange.        *)
WaitingInv == waiting = IF \E t \in Tasks : InExchange(t) THEN 1 ELSE 0

(* An active method still has a command to get answered, and only written   *)
(* requests are in flight.                                                  *)
WorkInv ==
  /\ \A t \in Tasks : pc[t] # "idle" => todo[t] # <<>>
  /\ \A i \in 1..Len(inflight) : inflight[i] \in 1..Len(sent)

IInv == TypeOK /\ LockInv /\ WaitingInv /\ WorkInv

----------------------------------------------------------------------------

(* Taking an element out of a queue without repetitions closes the gap it   *)
(* leaves and keeps the others in their order.                              *)
LEMMA WithoutIsRemoval ==
  ASSUME NEW S, NEW queue \in Seq(S), NEW k \in 1..Len(queue),
         \A i, j \in 1..Len(queue) : queue[i] = queue[j] => i = j
  PROVE  /\ Without(queue, queue[k]) \in Seq(S)
         /\ Len(Without(queue, queue[k])) = Len(queue) - 1
         /\ \A i \in 1..(Len(queue) - 1) :
              Without(queue, queue[k])[i] =
                IF i < k THEN queue[i] ELSE queue[i + 1]
<1> DEFINE c == CHOOSE i \in 1..Len(queue) : queue[i] = queue[k]
           w == [i \in 1..(Len(queue) - 1) |->
                   IF i < k THEN queue[i] ELSE queue[i + 1]]
<1>1. c = k
  OBVIOUS
<1>2. Without(queue, queue[k]) = w
  BY <1>1 DEF Without
<1>3. Len(queue) \in Nat /\ Len(queue) - 1 \in Nat
  OBVIOUS
<1>4. w \in [1..(Len(queue) - 1) -> S]
  BY <1>3
<1>5. w \in Seq(S) /\ Len(w) = Len(queue) - 1
  BY <1>3, <1>4
<1> QED
  BY <1>2, <1>5

(* The rest of the queue after such a removal: no repetitions, the same     *)
(* other members, and the same head unless the head was taken.              *)
LEMMA WithoutKeepsTheRest ==
  ASSUME NEW S, NEW queue \in Seq(S), NEW x,
         \A i, j \in 1..Len(queue) : queue[i] = queue[j] => i = j,
         \E i \in 1..Len(queue) : queue[i] = x
  PROVE  LET w == Without(queue, x)
         IN  /\ w \in Seq(S)
             /\ \A i, j \in 1..Len(w) : w[i] = w[j] => i = j
             /\ \A i \in 1..Len(w) : w[i] # x
             /\ \A i \in 1..Len(w) : \E j \in 1..Len(queue) : queue[j] = w[i]
             /\ \A j \in 1..Len(queue) :
                  queue[j] # x => \E i \in 1..Len(w) : w[i] = queue[j]
             /\ queue[1] # x => w # <<>> /\ w[1] = queue[1]
<1> DEFINE w == Without(queue, x)
<1>1. PICK k \in 1..Len(queue) : queue[k] = x
  OBVIOUS
<1>2. /\ w \in Seq(S)
      /\ Len(w) = Len(queue) - 1
      /\ \A i \in 1..(Len(queue) - 1) :
           w[i] = IF i < k THEN queue[i] ELSE queue[i + 1]
  BY <1>1, WithoutIsRemoval
<1> HIDE DEF w
<1>3. Len(queue) \in Nat \ {0} /\ k \in Nat \ {0} /\ k <= Len(queue)
  OBVIOUS
<1> DEFINE from(i) == IF i < k THEN i ELSE i + 1
<1>4. \A i \in 1..Len(w) :
        from(i) \in 1..Len(queue) /\ from(i) # k /\ w[i] = queue[from(i)]
  BY <1>2, <1>3
<1>5. \A i, j \in 1..Len(w) : from(i) = from(j) => i = j
  BY <1>2, <1>3
<1>6. \A j \in 1..Len(queue) : j # k => \E i \in 1..Len(w) : from(i) = j
  <2>1. TAKE j \in 1..Len(queue)
  <2>2. HAVE j # k
  <2>3. CASE j < k
    <3>1. j \in 1..Len(w) /\ from(j) = j
      BY <1>2, <1>3, <2>3
    <3> QED
      BY <3>1
  <2>4. CASE j > k
    <3>1. j - 1 \in 1..Len(w) /\ from(j - 1) = j
      BY <1>2, <1>3, <2>4
    <3> QED
      BY <3>1
  <2> QED
    BY <1>3, <2>2, <2>3, <2>4
<1>7. k # 1 => Len(w) >= 1 /\ from(1) = 1
  BY <1>2, <1>3
<1> HIDE DEF from
<1>8. \A i, j \in 1..Len(w) : w[i] = w[j] => i = j
  BY <1>4, <1>5
<1>9. \A i \in 1..Len(w) : w[i] # x
  BY <1>1, <1>4
<1>10. \A i \in 1..Len(w) : \E j \in 1..Len(queue) : queue[j] = w[i]
  BY <1>4
<1>11. \A j \in 1..Len(queue) : queue[j] # x => \E i \in 1..Len(w) : w[i] = queue[j]
  BY <1>1, <1>4, <1>6
<1>12. queue[1] # x => w # <<>> /\ w[1] = queue[1]
  <2>1. HAVE queue[1] # x
  <2>2. 1 \in 1..Len(w) /\ from(1) = 1
    BY <1>1, <1>2, <1>7, <2>1
  <2> QED
    BY <1>2, <1>4, <2>2
<1> QED
  BY <1>2, <1>8, <1>9, <1>10, <1>11, <1>12 DEF w

(* Leaving a method keeps the lock queue in order: the holder is succeeded  *)
(* by the oldest waiter, and a waiter that leaves does not touch the holder. *)
LEMMA LeaveKeepsLock ==
  ASSUME TypeOK, LockInv, NEW t \in Tasks, pc[t] # "idle", Leave(t)
  PROVE  /\ commandLock' \in Seq(Tasks)
         /\ pc' \in [Tasks -> PC]
         /\ todo' \in [Tasks -> Seq(Commands)]
         /\ call' = call
         /\ LockInv'
<1> DEFINE w == Without(commandLock, t)
<1>1. /\ commandLock \in Seq(Tasks)
      /\ pc \in [Tasks -> PC]
      /\ todo \in [Tasks -> Seq(Commands)]
  BY DEF TypeOK
<1>2. /\ commandLock' = w
      /\ pc' = [pc EXCEPT ![t] = "idle"]
      /\ todo' = [todo EXCEPT ![t] = <<>>]
      /\ call' = call
  BY DEF Leave
<1>3. /\ \A i, j \in 1..Len(commandLock) :
           commandLock[i] = commandLock[j] => i = j
      /\ \A u \in Tasks :
           pc[u] # "idle" <=> \E i \in 1..Len(commandLock) : commandLock[i] = u
      /\ \A u \in Tasks : InExchange(u) => Holds(u)
  BY DEF LockInv
<1>4. /\ w \in Seq(Tasks)
      /\ \A i, j \in 1..Len(w) : w[i] = w[j] => i = j
      /\ \A i \in 1..Len(w) : w[i] # t
      /\ \A i \in 1..Len(w) : \E j \in 1..Len(commandLock) : commandLock[j] = w[i]
      /\ \A j \in 1..Len(commandLock) :
           commandLock[j] # t => \E i \in 1..Len(w) : w[i] = commandLock[j]
      /\ commandLock[1] # t => w # <<>> /\ w[1] = commandLock[1]
  BY <1>1, <1>3, WithoutKeepsTheRest
<1> HIDE DEF w
<1>5. pc' \in [Tasks -> PC] /\ todo' \in [Tasks -> Seq(Commands)]
  BY <1>1, <1>2 DEF PC
<1>6. ASSUME NEW u \in Tasks
      PROVE  pc'[u] # "idle" <=> \E i \in 1..Len(w) : w[i] = u
  <2>1. CASE u = t
    <3>1. pc'[t] = "idle"
      BY <1>1, <1>2
    <3> QED
      BY <1>4, <2>1, <3>1
  <2>2. CASE u # t
    <3>1. pc'[u] = pc[u]
      BY <1>1, <1>2, <2>2
    <3>2. (\E i \in 1..Len(w) : w[i] = u) <=>
            \E j \in 1..Len(commandLock) : commandLock[j] = u
      BY <1>4, <2>2
    <3> QED
      BY <1>3, <3>1, <3>2
  <2> QED
    BY <2>1, <2>2
<1>7. ASSUME NEW u \in Tasks, pc'[u] \in Exchanging
      PROVE  w # <<>> /\ Head(w) = u
  <2>1. u # t /\ pc'[u] = pc[u]
    BY <1>1, <1>2, <1>7 DEF Exchanging
  <2>2. commandLock # <<>> /\ Head(commandLock) = u
    BY <1>3, <1>7, <2>1 DEF InExchange, Holds
  <2>3. w # <<>> /\ w[1] = u
    BY <1>1, <1>4, <2>1, <2>2
  <2> QED
    BY <1>4, <2>3
<1> QED
  BY <1>2, <1>4, <1>5, <1>6, <1>7 DEF LockInv, InExchange, Holds

(* Only the holder is inside exchange, so the counter is 1 when a task is   *)
(* inside and leaving takes it to 0.                                        *)
LEMMA ExchangeIsExclusive ==
  ASSUME LockInv, WaitingInv, NEW t \in Tasks, InExchange(t)
  PROVE  /\ waiting = 1
         /\ \A u \in Tasks : InExchange(u) => u = t
BY DEF LockInv, WaitingInv, Holds

(* Abandoning an exchange keeps the inductive invariant.                    *)
LEMMA AbandonKeepsInv ==
  ASSUME IInv, NEW t \in Tasks, InExchange(t), Leave(t), LeaveExchange(t)
  PROVE  /\ commandLock' \in Seq(Tasks)
         /\ pc' \in [Tasks -> PC]
         /\ todo' \in [Tasks -> Seq(Commands)]
         /\ call' = call
         /\ left' \in [Tasks -> 0..TIMEOUT]
         /\ waiting' \in Nat
         /\ LockInv'
         /\ WaitingInv'
         /\ \A u \in Tasks : pc'[u] # "idle" => todo'[u] # <<>>
<1> USE DEF IInv
<1>1. pc[t] # "idle"
  BY DEF InExchange, Exchanging
<1>2. /\ commandLock' \in Seq(Tasks)
      /\ pc' \in [Tasks -> PC]
      /\ todo' \in [Tasks -> Seq(Commands)]
      /\ call' = call
      /\ LockInv'
  BY <1>1, LeaveKeepsLock
<1>3. waiting = 1 /\ \A u \in Tasks : InExchange(u) => u = t
  BY ExchangeIsExclusive
<1>4. waiting' = 0
  BY <1>3 DEF LeaveExchange
<1>5. left' \in [Tasks -> 0..TIMEOUT]
  BY BoundsAssumption DEF LeaveExchange, TypeOK
<1>6. \A u \in Tasks : ~InExchange(u)'
  BY <1>3 DEF Leave, InExchange, Exchanging, TypeOK
<1>7. \A u \in Tasks : pc'[u] # "idle" => todo'[u] # <<>>
  BY DEF Leave, WorkInv, TypeOK
<1> QED
  BY <1>2, <1>4, <1>5, <1>6, <1>7 DEF WaitingInv

LEMMA InitIInv == Init => IInv
<1> SUFFICES ASSUME Init PROVE IInv
  OBVIOUS
<1>1. TypeOK
  BY BoundsAssumption DEF Init, TypeOK, PC
<1>2. LockInv /\ WaitingInv /\ WorkInv
  BY DEF Init, LockInv, WaitingInv, WorkInv, InExchange, Exchanging
<1> QED
  BY <1>1, <1>2 DEF IInv

(* A frame the lock sends is a frame, and notifying it keeps the queues.    *)
LEMMA OnNotifyKeepsTypes ==
  ASSUME TypeOK, NEW frame \in Frames, OnNotify(frame)
  PROVE  /\ arrived' \in SUBSET Frames
         /\ inbox' \in Seq(Frames)
         /\ dispatched' \in Seq(Frames)
<1>1. inbox \in Seq(Frames) /\ dispatched \in Seq(Frames) /\ arrived \in SUBSET Frames
  BY DEF TypeOK
<1>2. /\ Append(inbox, frame) \in Seq(Frames)
      /\ Append(dispatched, frame) \in Seq(Frames)
      /\ arrived \cup {frame} \in SUBSET Frames
  BY <1>1
<1> QED
  BY <1>1, <1>2 DEF OnNotify

LEMMA NextIInv == IInv /\ [Next]_vars => IInv'
<1> SUFFICES ASSUME IInv, [Next]_vars PROVE IInv'
  OBVIOUS
<1> USE DEF IInv
<1>1. ASSUME NEW t \in Tasks, NEW program \in Programs, Call(t, program)
      PROVE  IInv'
  <2>1. program \in Seq(Commands) /\ program # <<>>
    BY ProgramsAssumption
  <2>2. TypeOK'
    BY <1>1, <2>1 DEF Call, TypeOK, PC
  <2>3. LockInv'
    <3>1. /\ commandLock \in Seq(Tasks)
          /\ commandLock' = Append(commandLock, t)
          /\ pc \in [Tasks -> PC]
          /\ pc' = [pc EXCEPT ![t] = "acquiring"]
          /\ pc[t] = "idle"
      BY <1>1 DEF Call, TypeOK
    <3>2. \A i \in 1..Len(commandLock) : commandLock[i] # t
      BY <3>1 DEF LockInv
    <3>3. /\ Len(commandLock') = Len(commandLock) + 1
          /\ \A i \in 1..Len(commandLock) : commandLock'[i] = commandLock[i]
          /\ commandLock'[Len(commandLock) + 1] = t
      BY <3>1
    <3>4. \A i, j \in 1..Len(commandLock') :
            commandLock'[i] = commandLock'[j] => i = j
      BY <3>1, <3>2, <3>3 DEF LockInv
    <3>5. \A u \in Tasks : pc'[u] # "idle" <=>
            \E i \in 1..Len(commandLock') : commandLock'[i] = u
      BY <3>1, <3>3 DEF LockInv
    <3>6. \A u \in Tasks : InExchange(u)' => Holds(u)'
      BY <3>1, <3>3 DEF LockInv, InExchange, Exchanging, Holds
    <3> QED
      BY <3>4, <3>5, <3>6 DEF LockInv
  <2>4. WaitingInv'
    BY <1>1 DEF Call, WaitingInv, InExchange, Exchanging, TypeOK
  <2>5. WorkInv'
    BY <1>1, <2>1 DEF Call, WorkInv, TypeOK
  <2> QED
    BY <2>2, <2>3, <2>4, <2>5
<1>2. ASSUME NEW t \in Tasks, BeginExchange(t)
      PROVE  IInv'
  <2>1. \A u \in Tasks : ~InExchange(u)
    BY <1>2 DEF BeginExchange, LockInv, Holds, InExchange, Exchanging
  <2>2. waiting' = 1
    BY <1>2, <2>1 DEF BeginExchange, EnterExchange, WaitingInv
  <2>3. TypeOK'
    BY <1>2, <2>2 DEF BeginExchange, TypeOK, PC, history
  <2>4. LockInv'
    BY <1>2, <2>1 DEF BeginExchange, LockInv, InExchange, Exchanging, Holds, TypeOK
  <2>5. InExchange(t)'
    BY <1>2 DEF BeginExchange, InExchange, Exchanging, TypeOK
  <2>6. WaitingInv'
    BY <2>2, <2>5 DEF WaitingInv
  <2>7. WorkInv'
    BY <1>2 DEF BeginExchange, WorkInv, TypeOK, history
  <2> QED
    BY <2>3, <2>4, <2>6, <2>7
<1>3. ASSUME NEW t \in Tasks, Transmit(t)
      PROVE  IInv'
  <2>1. todo[t] \in Seq(Commands) /\ todo[t] # <<>>
    BY <1>3 DEF Transmit, TypeOK, WorkInv
  <2>2. [call |-> call[t], cmd |-> Head(todo[t])] \in Request
    BY <2>1 DEF Request, TypeOK
  <2>3. sent' \in Seq(Request) /\ Len(sent') = Len(sent) + 1 /\ Len(sent) \in Nat
    BY <1>3, <2>2 DEF Transmit, TypeOK
  <2>4. /\ inflight' \in Seq(Nat)
        /\ req' \in [Tasks -> Nat]
        /\ pc' \in [Tasks -> PC]
    BY <1>3, <2>3 DEF Transmit, TypeOK, PC
  <2>5. TypeOK'
    BY <1>3, <2>3, <2>4 DEF Transmit, TypeOK
  <2>6. LockInv' /\ WaitingInv'
    BY <1>3 DEF Transmit, LockInv, WaitingInv, InExchange, Exchanging, Holds, TypeOK
  <2>7. \A i \in 1..Len(inflight') : inflight'[i] \in 1..Len(sent')
    <3>1. /\ inflight \in Seq(Nat)
          /\ inflight' = Append(inflight, Len(sent) + 1)
          /\ \A i \in 1..Len(inflight) : inflight[i] \in 1..Len(sent)
      BY <1>3 DEF Transmit, TypeOK, WorkInv
    <3> QED
      BY <2>3, <3>1
  <2>8. \A u \in Tasks : pc'[u] # "idle" => todo'[u] # <<>>
    BY <1>3 DEF Transmit, WorkInv, TypeOK
  <2> QED
    BY <2>5, <2>6, <2>7, <2>8 DEF WorkInv
<1>4. ASSUME NEW t \in Tasks, SendReturns(t)
      PROVE  IInv'
  <2>1. TypeOK'
    BY <1>4, BoundsAssumption DEF SendReturns, TypeOK, PC, history
  <2>2. LockInv' /\ WaitingInv'
    BY <1>4 DEF SendReturns, LockInv, WaitingInv, InExchange, Exchanging, Holds, TypeOK
  <2>3. WorkInv'
    BY <1>4 DEF SendReturns, WorkInv, TypeOK, history
  <2> QED
    BY <2>1, <2>2, <2>3
<1>5. ASSUME NEW t \in Tasks, InExchange(t), Abandon(t),
             UNCHANGED <<req, inbox, inflight, history>>
      PROVE  IInv'
  BY <1>5, AbandonKeepsInv DEF Abandon, TypeOK, WorkInv, history
<1>6. ASSUME NEW t \in Tasks, ReceiveReply(t)
      PROVE  IInv'
  <2>1. Head(inbox) \in Frames /\ inbox' \in Seq(Frames)
    BY <1>6 DEF ReceiveReply, TypeOK
  <2>2. accepted' \in SUBSET [req : Nat, frame : Frames]
    BY <1>6, <2>1 DEF ReceiveReply, TypeOK
  <2>3. InExchange(t)
    BY <1>6 DEF ReceiveReply, InExchange, Exchanging
  <2>4. CASE Head(inbox).body = "ok" /\ Len(todo[t]) > 1
    <3>1. /\ todo' = [todo EXCEPT ![t] = Tail(@)]
          /\ pc' = [pc EXCEPT ![t] = "sending"]
          /\ left' = [left EXCEPT ![t] = 0]
          /\ UNCHANGED <<commandLock, call, waiting>>
          /\ UNCHANGED <<req, inflight, calls, pushes, sent, arrived, dispatched>>
      BY <1>6, <2>4 DEF ReceiveReply
    <3>2. Tail(todo[t]) \in Seq(Commands) /\ Tail(todo[t]) # <<>>
      <4>1. todo[t] \in Seq(Commands)
        BY DEF TypeOK
      <4> QED
        BY <2>4, <4>1
    <3>3. TypeOK'
      BY <2>1, <2>2, <3>1, <3>2, BoundsAssumption, SMTT(30) DEF TypeOK, PC
    <3>4. LockInv' /\ WaitingInv'
      BY <2>3, <3>1 DEF LockInv, WaitingInv, InExchange, Exchanging, Holds, TypeOK
    <3>5. WorkInv'
      BY <3>1, <3>2 DEF WorkInv, TypeOK
    <3> QED
      BY <3>3, <3>4, <3>5
  <2>5. CASE ~(Head(inbox).body = "ok" /\ Len(todo[t]) > 1)
    <3>1. /\ LeaveExchange(t)
          /\ Leave(t)
          /\ UNCHANGED <<req, inflight, calls, pushes, sent, arrived, dispatched>>
      BY <1>6, <2>5 DEF ReceiveReply
    <3> QED
      BY <2>1, <2>2, <2>3, <3>1, AbandonKeepsInv DEF TypeOK, WorkInv
  <2> QED
    BY <2>4, <2>5
<1>7. ASSUME NEW t \in Tasks, ReceivePush(t)
      PROVE  IInv'
  <2>1. inbox' \in Seq(Frames) /\ dispatched' \in Seq(Frames)
    BY <1>7 DEF ReceivePush, TypeOK
  <2>2. InExchange(t)
    BY <1>7 DEF ReceivePush, InExchange, Exchanging
  <2>3. CASE left[t] = 0
    BY <1>7, <2>1, <2>2, <2>3, AbandonKeepsInv
       DEF ReceivePush, Abandon, TypeOK, WorkInv
  <2>4. CASE left[t] # 0
    BY <1>7, <2>1, <2>4
       DEF ReceivePush, local, TypeOK, LockInv, WaitingInv, WorkInv, InExchange, Holds
  <2> QED
    BY <2>3, <2>4
<1>8. ASSUME NEW t \in Tasks, Cancel(t)
      PROVE  IInv'
  <2>1. CASE InExchange(t)
    BY <1>8, <2>1, AbandonKeepsInv DEF Cancel, TypeOK, WorkInv, history
  <2>2. CASE ~InExchange(t)
    <3>1. pc[t] # "idle" /\ Leave(t)
          /\ UNCHANGED <<waiting, left, req, inbox, inflight, history>>
      BY <1>8, <2>2 DEF Cancel
    <3>2. /\ commandLock' \in Seq(Tasks)
          /\ pc' \in [Tasks -> PC]
          /\ todo' \in [Tasks -> Seq(Commands)]
          /\ call' = call
          /\ LockInv'
      BY <3>1, LeaveKeepsLock
    <3>3. TypeOK'
      BY <3>1, <3>2 DEF TypeOK, history
    <3>4. WaitingInv'
      BY <2>2, <3>1 DEF WaitingInv, Leave, InExchange, Exchanging, TypeOK
    <3>5. WorkInv'
      BY <3>1 DEF WorkInv, Leave, TypeOK, history
    <3> QED
      BY <3>2, <3>3, <3>4, <3>5
  <2> QED
    BY <2>1, <2>2
<1>9. ASSUME LockAnswers
      PROVE  IInv'
  <2>1. PICK body \in Bodies : OnNotify(Reply(Head(inflight), body))
    BY <1>9 DEF LockAnswers
  <2>2. Head(inflight) \in Nat /\ Head(inflight) \in 1..Len(sent)
    BY <1>9 DEF LockAnswers, TypeOK, WorkInv
  <2>3. sent[Head(inflight)].cmd \in Commands
    <3>1. sent[Head(inflight)] \in Request
      BY <2>2 DEF TypeOK
    <3> QED
      BY <3>1 DEF Request
  <2>4. Reply(Head(inflight), body) \in Frames
    BY <2>2, <2>3 DEF Reply, Frames
  <2>5. /\ arrived' \in SUBSET Frames
        /\ inbox' \in Seq(Frames)
        /\ dispatched' \in Seq(Frames)
    BY <2>1, <2>4, OnNotifyKeepsTypes
  <2>6. TypeOK'
    BY <1>9, <2>5 DEF LockAnswers, TypeOK, local
  <2>7. LockInv' /\ WaitingInv'
    BY <1>9 DEF LockAnswers, LockInv, WaitingInv, InExchange, Holds, local
  <2>8. WorkInv'
    BY <1>9 DEF LockAnswers, WorkInv, TypeOK, local
  <2> QED
    BY <2>6, <2>7, <2>8
<1>10. ASSUME LockIgnores
       PROVE  IInv'
  <2>1. TypeOK'
    BY <1>10 DEF LockIgnores, TypeOK, local, history
  <2>2. LockInv' /\ WaitingInv'
    BY <1>10 DEF LockIgnores, LockInv, WaitingInv, InExchange, Holds, local
  <2>3. WorkInv'
    <3>1. /\ inflight \in Seq(Nat) /\ inflight # <<>> /\ inflight' = Tail(inflight)
          /\ UNCHANGED <<pc, todo, sent>>
      BY <1>10 DEF LockIgnores, TypeOK, local, history
    <3> QED
      BY <3>1 DEF WorkInv
  <2> QED
    BY <2>1, <2>2, <2>3
<1>11. ASSUME LockPushes
       PROVE  IInv'
  <2>1. PICK echo \in PushEchoes, body \in Bodies :
          OnNotify(PushFrame(pushes + 1, echo, body))
    BY <1>11 DEF LockPushes
  <2>2. PushFrame(pushes + 1, echo, body) \in Frames
    BY DEF PushFrame, Frames, TypeOK
  <2>3. /\ arrived' \in SUBSET Frames
        /\ inbox' \in Seq(Frames)
        /\ dispatched' \in Seq(Frames)
    BY <2>1, <2>2, OnNotifyKeepsTypes
  <2>4. TypeOK'
    BY <1>11, <2>3 DEF LockPushes, TypeOK, local
  <2>5. LockInv' /\ WaitingInv' /\ WorkInv'
    BY <1>11 DEF LockPushes, LockInv, WaitingInv, WorkInv, InExchange, Holds, local
  <2> QED
    BY <2>4, <2>5
<1>12. ASSUME NEW t \in Tasks, Tick(t)
       PROVE  IInv'
  <2>1. TypeOK'
    BY <1>12, BoundsAssumption DEF Tick, TypeOK, local, history
  <2>2. LockInv' /\ WaitingInv' /\ WorkInv'
    BY <1>12 DEF Tick, LockInv, WaitingInv, WorkInv, InExchange, Holds, local, history
  <2> QED
    BY <2>1, <2>2
<1>13. CASE UNCHANGED vars
  BY <1>13 DEF vars, local, history, TypeOK, LockInv, WaitingInv, WorkInv,
               InExchange, Holds
<1>14. ASSUME NEW t \in Tasks, SendFails(t)
       PROVE  IInv'
  BY <1>14, <1>5 DEF SendFails, InExchange, Exchanging
<1>15. ASSUME NEW t \in Tasks, TimesOut(t)
       PROVE  IInv'
  BY <1>15, <1>5 DEF TimesOut, InExchange, Exchanging
<1> QED
  BY <1>1, <1>2, <1>3, <1>4, <1>6, <1>7, <1>8, <1>9, <1>10, <1>11, <1>12, <1>13,
     <1>14, <1>15 DEF Next, Step

(* The inductive invariant holds of every behaviour.                        *)
THEOREM Inductive == Spec => []IInv
BY InitIInv, NextIInv, PTL DEF Spec

(* Every variable keeps its type; in particular _waiting_for_response never *)
(* goes below zero.                                                         *)
THEOREM TypeCorrect == Spec => []TypeOK
<1>1. IInv => TypeOK
  BY DEF IInv
<1> QED
  BY <1>1, Inductive, PTL

(* One exchange at a time, counted exactly, for any number of tasks.        *)
THEOREM ExchangesAreSerial == Spec => []OneExchangeAtATime
<1>1. IInv => OneExchangeAtATime
  <2> SUFFICES ASSUME IInv PROVE OneExchangeAtATime
    OBVIOUS
  <2>1. \A t \in Tasks : InExchange(t) => Holds(t)
    BY DEF IInv, LockInv
  <2> DEFINE inside == {t \in Tasks : InExchange(t)}
  <2>2. CASE \E t \in Tasks : InExchange(t)
    <3>1. PICK t \in Tasks : InExchange(t)
      BY <2>2
    <3>2. inside = {t}
      BY <2>1, <3>1 DEF Holds
    <3>3. waiting = 1
      BY <2>2 DEF IInv, WaitingInv
    <3> QED
      BY <2>1, <3>2, <3>3, FS_Singleton DEF OneExchangeAtATime
  <2>3. CASE ~\E t \in Tasks : InExchange(t)
    <3>1. inside = {}
      BY <2>3
    <3>2. waiting = 0
      BY <2>3 DEF IInv, WaitingInv
    <3> QED
      BY <2>1, <3>1, <3>2, FS_EmptySet DEF OneExchangeAtATime
  <2> QED
    BY <2>2, <2>3
<1> QED
  BY <1>1, Inductive, PTL

----------------------------------------------------------------------------
(* Sessions.                                                               *)

(* Calls are numbered apart, a call that has not entered an exchange has    *)
(* nothing in sent, and what the holder has sent is the end of sent.        *)
CallsInv ==
  /\ \A i \in 1..Len(sent) : sent[i].call \in 1..calls
  /\ \A t \in Tasks : pc[t] # "idle" => call[t] \in 1..calls
  /\ \A t, u \in Tasks :
       pc[t] # "idle" /\ pc[u] # "idle" /\ call[t] = call[u] => t = u
  /\ \A t \in Tasks : pc[t] = "acquiring" =>
       \A i \in 1..Len(sent) : sent[i].call # call[t]
  /\ \A t \in Tasks : InExchange(t) =>
       \A i, k \in 1..Len(sent) :
         i <= k /\ sent[i].call = call[t] => sent[k].call = call[t]

SessionsInv == CallsInv /\ SessionsDoNotInterleave

(* Steps that write nothing and start no call keep sent and the numbering.  *)
LEMMA QuietStepKeepsSessions ==
  ASSUME IInv, SessionsInv, UNCHANGED <<call, calls, sent>>,
         \A t \in Tasks : pc'[t] # "idle" => pc[t] # "idle",
         \A t \in Tasks : pc'[t] = "acquiring" => pc[t] = "acquiring",
         \A t \in Tasks : InExchange(t)' => InExchange(t) \/ pc[t] = "acquiring"
  PROVE  SessionsInv'
BY DEF SessionsInv, CallsInv, SessionsDoNotInterleave

LEMMA NextSessions == IInv /\ SessionsInv /\ [Next]_vars => SessionsInv'
<1> SUFFICES ASSUME IInv, SessionsInv, [Next]_vars PROVE SessionsInv'
  OBVIOUS
<1>0. pc \in [Tasks -> PC] /\ call \in [Tasks -> Nat] /\ calls \in Nat
  BY DEF IInv, TypeOK
<1>1. ASSUME NEW t \in Tasks, NEW program \in Programs, Call(t, program)
      PROVE  SessionsInv'
  <2>1. /\ pc' = [pc EXCEPT ![t] = "acquiring"]
        /\ call' = [call EXCEPT ![t] = calls + 1]
        /\ calls' = calls + 1
        /\ sent' = sent
    BY <1>1 DEF Call
  <2>2. \A i \in 1..Len(sent) : sent[i].call \in 1..calls /\ sent[i].call # calls + 1
    BY <1>0 DEF SessionsInv, CallsInv
  <2>3. \A u \in Tasks : u # t => pc'[u] = pc[u] /\ call'[u] = call[u]
    BY <1>0, <2>1
  <2>4. pc'[t] = "acquiring" /\ call'[t] = calls + 1
    BY <1>0, <2>1
  <2>5. \A u \in Tasks : u # t /\ pc[u] # "idle" => call[u] # calls + 1
    BY <1>0 DEF SessionsInv, CallsInv
  <2>6. \A i \in 1..Len(sent) : sent[i].call \in 1..(calls + 1)
    BY <1>0, <2>2
  <2>7. \A u \in Tasks : pc'[u] # "idle" => call'[u] \in 1..(calls + 1)
    BY <1>0, <2>3, <2>4 DEF SessionsInv, CallsInv
  <2>8. \A u, v \in Tasks :
          pc'[u] # "idle" /\ pc'[v] # "idle" /\ call'[u] = call'[v] => u = v
    BY <2>3, <2>4, <2>5 DEF SessionsInv, CallsInv
  <2>9. \A u \in Tasks : pc'[u] = "acquiring" =>
          \A i \in 1..Len(sent) : sent[i].call # call'[u]
    BY <2>2, <2>3, <2>4 DEF SessionsInv, CallsInv
  <2>10. \A u \in Tasks : pc'[u] \in Exchanging =>
           \A i, k \in 1..Len(sent) :
             i <= k /\ sent[i].call = call'[u] => sent[k].call = call'[u]
    BY <2>3, <2>4 DEF SessionsInv, CallsInv, InExchange, Exchanging
  <2>11. CallsInv'
    BY <2>1, <2>6, <2>7, <2>8, <2>9, <2>10 DEF CallsInv, InExchange
  <2> QED
    BY <2>1, <2>11 DEF SessionsInv, SessionsDoNotInterleave
<1>2. ASSUME NEW t \in Tasks, Transmit(t)
      PROVE  SessionsInv'
  <2> DEFINE new == [call |-> call[t], cmd |-> Head(todo[t])]
  <2>1. /\ pc[t] = "sending"
        /\ pc' = [pc EXCEPT ![t] = "written"]
        /\ sent' = Append(sent, new)
        /\ UNCHANGED <<call, calls>>
    BY <1>2 DEF Transmit
  <2>2. sent \in Seq(Request)
    BY DEF IInv, TypeOK
  <2>3. /\ Len(sent') = Len(sent) + 1
        /\ Len(sent) \in Nat
        /\ \A i \in 1..Len(sent) : sent'[i] = sent[i]
        /\ sent'[Len(sent) + 1].call = call[t]
    BY <2>1, <2>2
  <2>4. InExchange(t) /\ \A u \in Tasks : InExchange(u) => u = t
    BY <2>1, ExchangeIsExclusive DEF IInv, InExchange, Exchanging
  <2>5. \A u \in Tasks : u # t => pc'[u] = pc[u]
    BY <1>0, <2>1
  <2>6. pc'[t] = "written"
    BY <1>0, <2>1
  <2>7. \A i, k \in 1..Len(sent) :
          i <= k /\ sent[i].call = call[t] => sent[k].call = call[t]
    BY <2>4 DEF SessionsInv, CallsInv
  <2>8. \A i, k \in 1..Len(sent') :
          i <= k /\ sent'[i].call = call[t] => sent'[k].call = call[t]
    BY <2>3, <2>7
  <2>9. \A u \in Tasks : pc'[u] \in Exchanging => u = t
    BY <2>4, <2>5 DEF InExchange
  <2>10. \A u \in Tasks : u # t /\ pc[u] # "idle" => call[u] # call[t]
    BY <2>1 DEF SessionsInv, CallsInv
  <2>11. \A i \in 1..Len(sent') : sent'[i].call \in 1..calls
    BY <2>1, <2>3 DEF SessionsInv, CallsInv
  <2>12. \A u \in Tasks : pc'[u] = "acquiring" =>
           \A i \in 1..Len(sent') : sent'[i].call # call[u]
    <3>1. TAKE u \in Tasks
    <3>2. HAVE pc'[u] = "acquiring"
    <3>3. u # t /\ pc[u] = "acquiring"
      BY <2>5, <2>6, <3>2
    <3>4. \A i \in 1..Len(sent) : sent[i].call # call[u]
      BY <3>3 DEF SessionsInv, CallsInv
    <3> QED
      BY <2>3, <2>10, <3>3, <3>4
  <2>13. \A u \in Tasks : pc'[u] # "idle" => pc[u] # "idle"
    BY <2>1, <2>5
  <2>14. CallsInv'
    <3>1. \A u \in Tasks : pc'[u] # "idle" => call[u] \in 1..calls
      BY <2>13 DEF SessionsInv, CallsInv
    <3>2. \A u, v \in Tasks :
            pc'[u] # "idle" /\ pc'[v] # "idle" /\ call[u] = call[v] => u = v
      BY <2>13 DEF SessionsInv, CallsInv
    <3>3. \A u \in Tasks : pc'[u] \in Exchanging =>
            \A i, k \in 1..Len(sent') :
              i <= k /\ sent'[i].call = call[u] => sent'[k].call = call[u]
      BY <2>8, <2>9
    <3> QED
      BY <2>1, <2>11, <2>12, <3>1, <3>2, <3>3 DEF CallsInv, InExchange
  <2>15. ASSUME NEW i \in 1..Len(sent'), NEW j \in 1..Len(sent'), NEW k \in 1..Len(sent'),
                i < k, k < j, sent'[i].call = sent'[j].call
         PROVE  sent'[k].call = sent'[i].call
    <3>1. CASE j = Len(sent) + 1
      BY <2>3, <2>8, <2>15, <3>1
    <3>2. CASE j \in 1..Len(sent)
      <4>1. i \in 1..Len(sent) /\ k \in 1..Len(sent)
        BY <2>3, <2>15, <3>2
      <4> QED
        BY <2>3, <2>15, <3>2, <4>1 DEF SessionsInv, SessionsDoNotInterleave
    <3> QED
      BY <2>3, <3>1, <3>2
  <2> QED
    BY <2>14, <2>15 DEF SessionsInv, SessionsDoNotInterleave
<1>3. ASSUME NEW t \in Tasks, Leave(t), UNCHANGED <<calls, sent>>
      PROVE  SessionsInv'
  BY <1>0, <1>3, QuietStepKeepsSessions DEF Leave, InExchange, Exchanging
<1>4. ASSUME NEW t \in Tasks, NEW q \in Exchanging, InExchange(t) \/ pc[t] = "acquiring",
             pc' = [pc EXCEPT ![t] = q], UNCHANGED <<call, calls, sent>>
      PROVE  SessionsInv'
  BY <1>0, <1>4, QuietStepKeepsSessions DEF InExchange, Exchanging
<1>5. ASSUME UNCHANGED <<pc, call, calls, sent>>
      PROVE  SessionsInv'
  BY <1>5, QuietStepKeepsSessions DEF InExchange
<1>6. ASSUME NEW t \in Tasks, Step(t)
      PROVE  SessionsInv'
  <2>1. CASE BeginExchange(t)
    BY <1>4, <2>1 DEF BeginExchange, Exchanging, history
  <2>2. CASE SendReturns(t)
    BY <1>4, <2>2 DEF SendReturns, Exchanging, InExchange, history
  <2>3. CASE SendFails(t)
    BY <1>3, <2>3 DEF SendFails, Abandon, history
  <2>4. CASE ReceiveReply(t)
    <3>1. CASE Head(inbox).body = "ok" /\ Len(todo[t]) > 1
      BY <1>4, <2>4, <3>1 DEF ReceiveReply, Exchanging, InExchange
    <3>2. CASE ~(Head(inbox).body = "ok" /\ Len(todo[t]) > 1)
      BY <1>3, <2>4, <3>2 DEF ReceiveReply
    <3> QED
      BY <3>1, <3>2
  <2>5. CASE ReceivePush(t)
    BY <1>3, <1>5, <2>5 DEF ReceivePush, Abandon, local
  <2>6. CASE TimesOut(t)
    BY <1>3, <2>6 DEF TimesOut, Abandon, history
  <2>7. CASE Tick(t)
    BY <1>5, <2>7 DEF Tick, local, history
  <2> QED
    BY <1>2, <1>6, <2>1, <2>2, <2>3, <2>4, <2>5, <2>6, <2>7 DEF Step
<1>7. ASSUME NEW t \in Tasks, Cancel(t)
      PROVE  SessionsInv'
  BY <1>3, <1>7 DEF Cancel, history
<1>8. CASE LockAnswers \/ LockIgnores \/ LockPushes \/ UNCHANGED vars
  BY <1>5, <1>8 DEF LockAnswers, LockIgnores, LockPushes, vars, local, history
<1> QED
  BY <1>1, <1>6, <1>7, <1>8 DEF Next

(* The lock never sees a foreign command inside a session.                  *)
THEOREM SessionsAreNotInterleaved == Spec => []SessionsDoNotInterleave
<1>1. Init => SessionsInv
  BY DEF Init, SessionsInv, CallsInv, SessionsDoNotInterleave, InExchange, Exchanging
<1>2. SessionsInv => SessionsDoNotInterleave
  BY DEF SessionsInv
<1> QED
  BY <1>1, <1>2, NextSessions, Inductive, PTL DEF Spec

(* While an exchange waits, its deadline only comes closer.                 *)
THEOREM DeadlineIsFixed == Spec => DeadlineNeverExtended
<1> DEFINE Fixed == \A t \in Tasks :
             pc[t] = "awaiting" /\ pc'[t] = "awaiting" => left'[t] <= left[t]
<1>1. IInv /\ [Next]_vars => [Fixed]_vars
  <2> SUFFICES ASSUME IInv, [Next]_vars, NEW u \in Tasks,
                      pc[u] = "awaiting", pc'[u] = "awaiting"
               PROVE  left'[u] <= left[u]
    OBVIOUS
  <2>1. left \in [Tasks -> 0..TIMEOUT] /\ pc \in [Tasks -> PC]
    BY DEF IInv, TypeOK
  <2>2. left[u] \in Int /\ left[u] >= 0
    BY <2>1, BoundsAssumption
  <2>3. CASE left' = left
    BY <2>2, <2>3
  <2>4. ASSUME NEW t \in Tasks, LeaveExchange(t)
        PROVE  left'[u] <= left[u]
    BY <2>1, <2>2, <2>4 DEF LeaveExchange
  <2>5. ASSUME NEW t \in Tasks, SendReturns(t)
        PROVE  left'[u] <= left[u]
    BY <2>1, <2>2, <2>5 DEF SendReturns
  <2>6. ASSUME NEW t \in Tasks, ReceiveReply(t)
        PROVE  left'[u] <= left[u]
    <3>1. CASE Head(inbox).body = "ok" /\ Len(todo[t]) > 1
      <4>1. left' = [left EXCEPT ![t] = 0]
        BY <2>6, <3>1 DEF ReceiveReply
      <4> QED
        BY <2>1, <2>2, <4>1
    <3>2. CASE ~(Head(inbox).body = "ok" /\ Len(todo[t]) > 1)
      BY <2>4, <2>6, <3>2 DEF ReceiveReply
    <3> QED
      BY <3>1, <3>2
  <2>7. ASSUME NEW t \in Tasks, Tick(t)
        PROVE  left'[u] <= left[u]
    BY <2>1, <2>2, <2>7 DEF Tick
  <2>8. ASSUME NEW t \in Tasks,
               \/ \E program \in Programs : Call(t, program)
               \/ BeginExchange(t) \/ Transmit(t)
        PROVE  left' = left
    BY <2>8 DEF Call, BeginExchange, Transmit
  <2>9. ASSUME NEW t \in Tasks, SendFails(t) \/ ReceivePush(t) \/ TimesOut(t) \/ Cancel(t)
        PROVE  left' = left \/ LeaveExchange(t)
    BY <2>9 DEF SendFails, ReceivePush, TimesOut, Cancel, Abandon
  <2>10. CASE LockAnswers \/ LockIgnores \/ LockPushes \/ UNCHANGED vars
    BY <2>3, <2>10 DEF LockAnswers, LockIgnores, LockPushes, vars
  <2> QED
    BY <2>3, <2>4, <2>5, <2>6, <2>7, <2>8, <2>9, <2>10 DEF Next, Step
<1> QED
  BY <1>1, Inductive, PTL DEF Spec, DeadlineNeverExtended

----------------------------------------------------------------------------
(* Replies.                                                                *)

(* A reply names a written request and echoes its command.                  *)
Genuine(frame) ==
  frame.kind = "reply" =>
    frame.nr \in 1..Len(sent) /\ frame.echo = sent[frame.nr].cmd

(* The request of the exchange that waits is the last one written, for the  *)
(* command at the head of its method's work.                                *)
RequestInv ==
  \A t \in Tasks : pc[t] \in {"written", "awaiting"} =>
    /\ req[t] = Len(sent)
    /\ Len(sent) >= 1
    /\ sent[Len(sent)].cmd = Head(todo[t])

InboxInv == \A i \in 1..Len(inbox) : Genuine(inbox[i])

AcceptedInv == \A a \in accepted : a.req \in 1..Len(sent) /\ Genuine(a.frame)

RepliesInv ==
  /\ RequestInv
  /\ InboxInv
  /\ AcceptedInv
  /\ ReturnedFrameEchoesItsCommand

(* A step that writes nothing and moves no task into a wait keeps the       *)
(* request of the waiting exchange.                                         *)
LEMMA RequestInvIsStable ==
  ASSUME RequestInv, sent' = sent, req' = req,
         \A t \in Tasks : pc'[t] \in {"written", "awaiting"} =>
           pc[t] \in {"written", "awaiting"} /\ todo'[t] = todo[t]
  PROVE  RequestInv'
BY DEF RequestInv

LEMMA NextReplies == IInv /\ RepliesInv /\ [Next]_vars => RepliesInv'
<1> SUFFICES ASSUME IInv, RepliesInv, [Next]_vars PROVE RepliesInv'
  OBVIOUS
<1>0. /\ pc \in [Tasks -> PC]
      /\ todo \in [Tasks -> Seq(Commands)]
      /\ inbox \in Seq(Frames)
      /\ sent \in Seq(Request)
  BY DEF IInv, TypeOK
<1>1. ASSUME NEW t \in Tasks, Leave(t), UNCHANGED <<req, inbox, sent, accepted>>
      PROVE  RepliesInv'
  <2>1. RequestInv'
    BY <1>0, <1>1, RequestInvIsStable DEF RepliesInv, Leave
  <2> QED
    BY <1>1, <2>1 DEF RepliesInv, InboxInv, AcceptedInv, Genuine, ReturnedFrameEchoesItsCommand
<1>2. ASSUME UNCHANGED <<pc, todo, req, inbox, sent, accepted>>
      PROVE  RepliesInv'
  BY <1>2 DEF RepliesInv, RequestInv, InboxInv, AcceptedInv, Genuine,
              ReturnedFrameEchoesItsCommand
<1>3. ASSUME NEW t \in Tasks, NEW q \in {"acquiring", "sending"}, pc' = [pc EXCEPT ![t] = q],
             \A u \in Tasks : u # t => todo'[u] = todo[u],
             UNCHANGED <<req, inbox, sent, accepted>>
      PROVE  RepliesInv'
  <2>1. RequestInv'
    BY <1>0, <1>3, RequestInvIsStable DEF RepliesInv
  <2> QED
    BY <1>3, <2>1 DEF RepliesInv, InboxInv, AcceptedInv, Genuine, ReturnedFrameEchoesItsCommand
<1>4. ASSUME NEW t \in Tasks, Transmit(t)
      PROVE  RepliesInv'
  <2> DEFINE new == [call |-> call[t], cmd |-> Head(todo[t])]
  <2>1. /\ pc[t] = "sending"
        /\ pc' = [pc EXCEPT ![t] = "written"]
        /\ sent' = Append(sent, new)
        /\ req' = [req EXCEPT ![t] = Len(sent) + 1]
        /\ UNCHANGED <<todo, inbox, accepted>>
    BY <1>4 DEF Transmit
  <2>2. new \in Request
    <3>1. todo[t] \in Seq(Commands) /\ todo[t] # <<>>
      BY <2>1 DEF IInv, TypeOK, WorkInv
    <3> QED
      BY <3>1 DEF IInv, TypeOK, Request
  <2>3. /\ Len(sent') = Len(sent) + 1
        /\ Len(sent) \in Nat
        /\ \A i \in 1..Len(sent) : sent'[i] = sent[i]
        /\ sent'[Len(sent) + 1].cmd = Head(todo[t])
    BY <1>0, <2>1
  <2>4. RequestInv'
    <3>1. \A u \in Tasks : InExchange(u) => u = t
      BY <2>1, ExchangeIsExclusive DEF IInv, InExchange, Exchanging
    <3>2. \A u \in Tasks : pc'[u] \in {"written", "awaiting"} => u = t
      BY <1>0, <2>1, <3>1 DEF InExchange, Exchanging
    <3>3. req'[t] = Len(sent) + 1
      BY <2>1 DEF IInv, TypeOK
    <3> QED
      BY <2>1, <2>3, <3>2, <3>3 DEF RequestInv
  <2>5. InboxInv'
    <3>1. \A i \in 1..Len(inbox) :
            inbox[i].kind = "reply" =>
              inbox[i].nr \in 1..Len(sent) /\ inbox[i].echo = sent[inbox[i].nr].cmd
      BY DEF RepliesInv, InboxInv, Genuine
    <3>2. \A i \in 1..Len(inbox) :
            inbox[i].kind = "reply" =>
              inbox[i].nr \in 1..Len(sent') /\ inbox[i].echo = sent'[inbox[i].nr].cmd
      BY <2>3, <3>1
    <3> QED
      BY <2>1, <3>2 DEF InboxInv, Genuine
  <2>6. AcceptedInv'
    BY <2>1, <2>3 DEF RepliesInv, InboxInv, AcceptedInv, Genuine
  <2>7. ReturnedFrameEchoesItsCommand'
    <3>1. ASSUME NEW a \in accepted, a.frame.body # "garbled"
          PROVE  /\ a.frame.echo = sent'[a.req].cmd
                 /\ a.frame.kind = "reply" =>
                      a.frame.nr <= a.req /\ sent'[a.frame.nr].cmd = sent'[a.req].cmd
      <4>1. a.req \in 1..Len(sent) /\ (a.frame.kind = "reply" => a.frame.nr \in 1..Len(sent))
        BY DEF RepliesInv, InboxInv, AcceptedInv, Genuine
      <4>2. /\ a.frame.echo = sent[a.req].cmd
            /\ a.frame.kind = "reply" =>
                 a.frame.nr <= a.req /\ sent[a.frame.nr].cmd = sent[a.req].cmd
        BY <3>1 DEF RepliesInv, ReturnedFrameEchoesItsCommand
      <4> QED
        BY <2>3, <4>1, <4>2
    <3> QED
      BY <2>1, <3>1 DEF ReturnedFrameEchoesItsCommand
  <2> QED
    BY <2>4, <2>5, <2>6, <2>7 DEF RepliesInv
<1>5. ASSUME NEW t \in Tasks, ReceiveReply(t)
      PROVE  RepliesInv'
  <2> DEFINE new == [req |-> req[t], frame |-> Head(inbox)]
  <2>1. /\ pc[t] = "awaiting"
        /\ inbox # <<>>
        /\ Answers(Head(inbox), Head(todo[t]))
        /\ inbox' = Tail(inbox)
        /\ accepted' = accepted \cup {new}
        /\ UNCHANGED <<req, sent>>
    BY <1>5 DEF ReceiveReply
  <2>2. Genuine(Head(inbox)) /\ Head(inbox) = inbox[1]
    BY <1>0, <2>1 DEF RepliesInv, InboxInv
  <2>3. InboxInv'
    BY <1>0, <2>1 DEF RepliesInv, InboxInv, AcceptedInv, Genuine
  <2>4. /\ req[t] = Len(sent)
        /\ Len(sent) \in Nat \ {0}
        /\ sent[Len(sent)].cmd = Head(todo[t])
    BY <1>0, <2>1 DEF RepliesInv, RequestInv
  <2>5. AcceptedInv'
    BY <2>1, <2>2, <2>4 DEF RepliesInv, InboxInv, AcceptedInv, Genuine
  <2>6. RequestInv'
    <3>1. \A u \in Tasks : u # t => pc'[u] = pc[u] /\ todo'[u] = todo[u]
      BY <1>0, <1>5 DEF ReceiveReply, Leave
    <3>2. pc'[t] \in {"idle", "sending"}
      BY <1>0, <1>5 DEF ReceiveReply, Leave
    <3> QED
      BY <2>1, <3>1, <3>2, RequestInvIsStable DEF RepliesInv
  <2>7. ReturnedFrameEchoesItsCommand'
    <3>1. Head(inbox).body # "garbled" =>
            /\ Head(inbox).echo = sent[req[t]].cmd
            /\ Head(inbox).kind = "reply" =>
                 /\ Head(inbox).nr <= req[t]
                 /\ sent[Head(inbox).nr].cmd = sent[req[t]].cmd
      BY <2>1, <2>2, <2>4 DEF Answers, Genuine
    <3> QED
      BY <2>1, <3>1 DEF RepliesInv, ReturnedFrameEchoesItsCommand
  <2> QED
    BY <2>3, <2>5, <2>6, <2>7 DEF RepliesInv
<1>6. ASSUME NEW t \in Tasks, ReceivePush(t)
      PROVE  RepliesInv'
  <2>1. inbox # <<>> /\ inbox' = Tail(inbox) /\ UNCHANGED <<req, sent, accepted>>
    BY <1>6 DEF ReceivePush
  <2>2. InboxInv'
    BY <1>0, <2>1 DEF RepliesInv, InboxInv, AcceptedInv, Genuine
  <2>3. RequestInv'
    BY <1>0, <1>6, RequestInvIsStable DEF RepliesInv, ReceivePush, Abandon, Leave, local
  <2> QED
    BY <2>1, <2>2, <2>3 DEF RepliesInv, InboxInv, AcceptedInv, Genuine, ReturnedFrameEchoesItsCommand
<1>7. ASSUME NEW frame, Genuine(frame), frame \in Frames, OnNotify(frame),
             UNCHANGED <<pc, todo, req, sent, accepted>>
      PROVE  RepliesInv'
  <2>1. RequestInv'
    BY <1>7 DEF RepliesInv, RequestInv
  <2>2. InboxInv'
    <3>1. CASE inbox' = inbox
      BY <1>7, <3>1 DEF RepliesInv, InboxInv, AcceptedInv, Genuine
    <3>2. CASE inbox' = Append(inbox, frame)
      BY <1>0, <1>7, <3>2 DEF RepliesInv, InboxInv, AcceptedInv, Genuine
    <3> QED
      BY <1>7, <3>1, <3>2 DEF OnNotify
  <2> QED
    BY <1>7, <2>1, <2>2 DEF RepliesInv, InboxInv, AcceptedInv, Genuine, ReturnedFrameEchoesItsCommand
<1>8. ASSUME LockAnswers
      PROVE  RepliesInv'
  <2>1. PICK body \in Bodies : OnNotify(Reply(Head(inflight), body))
    BY <1>8 DEF LockAnswers
  <2>2. Head(inflight) \in 1..Len(sent)
    BY <1>8 DEF LockAnswers, IInv, TypeOK, WorkInv
  <2>3. sent[Head(inflight)].cmd \in Commands
    <3>1. sent[Head(inflight)] \in Request
      BY <1>0, <2>2
    <3> QED
      BY <3>1 DEF Request
  <2>4. Genuine(Reply(Head(inflight), body)) /\ Reply(Head(inflight), body) \in Frames
    BY <1>0, <2>2, <2>3 DEF Genuine, Reply, Frames
  <2> QED
    BY <1>7, <1>8, <2>1, <2>4 DEF LockAnswers, local
<1>9. ASSUME LockPushes
      PROVE  RepliesInv'
  <2>1. PICK echo \in PushEchoes, body \in Bodies :
          OnNotify(PushFrame(pushes + 1, echo, body))
    BY <1>9 DEF LockPushes
  <2>2. /\ Genuine(PushFrame(pushes + 1, echo, body))
        /\ PushFrame(pushes + 1, echo, body) \in Frames
    BY DEF Genuine, PushFrame, Frames, IInv, TypeOK
  <2> QED
    BY <1>7, <1>9, <2>1, <2>2 DEF LockPushes, local
<1>10. ASSUME NEW t \in Tasks, NEW program \in Programs, Call(t, program)
       PROVE  RepliesInv'
  <2>1. /\ pc' = [pc EXCEPT ![t] = "acquiring"]
        /\ todo' = [todo EXCEPT ![t] = program]
        /\ UNCHANGED <<req, inbox, sent, accepted>>
    BY <1>10 DEF Call
  <2> QED
    BY <1>0, <1>3, <2>1
<1>11. ASSUME NEW t \in Tasks, SendReturns(t)
       PROVE  RepliesInv'
  <2>1. /\ pc[t] = "written"
        /\ pc' = [pc EXCEPT ![t] = "awaiting"]
        /\ UNCHANGED <<todo, req, inbox, sent, accepted>>
    BY <1>11 DEF SendReturns, history
  <2>2. RequestInv'
    BY <1>0, <2>1, RequestInvIsStable DEF RepliesInv
  <2> QED
    BY <2>1, <2>2 DEF RepliesInv, InboxInv, AcceptedInv, Genuine, ReturnedFrameEchoesItsCommand
<1>12. ASSUME NEW t \in Tasks, Step(t)
       PROVE  RepliesInv'
  <2>1. CASE BeginExchange(t)
    BY <1>3, <2>1 DEF BeginExchange, history
  <2>2. CASE SendFails(t) \/ TimesOut(t)
    BY <1>1, <2>2 DEF SendFails, TimesOut, Abandon, history
  <2>3. CASE Tick(t)
    BY <1>2, <2>3 DEF Tick, local, history
  <2> QED
    BY <1>4, <1>5, <1>6, <1>11, <1>12, <2>1, <2>2, <2>3 DEF Step
<1>13. ASSUME NEW t \in Tasks, Cancel(t)
       PROVE  RepliesInv'
  BY <1>1, <1>13 DEF Cancel, history
<1>14. CASE LockIgnores \/ UNCHANGED vars
  BY <1>2, <1>14 DEF LockIgnores, vars, local, history
<1> QED
  BY <1>8, <1>9, <1>10, <1>12, <1>13, <1>14 DEF Next

(* A frame returned for a command echoes that command, and a reply among    *)
(* them answers that request or an earlier one for the same command.        *)
THEOREM RepliesEchoTheirCommand == Spec => []ReturnedFrameEchoesItsCommand
<1>1. Init => RepliesInv
  BY DEF Init, RepliesInv, RequestInv, InboxInv, AcceptedInv, ReturnedFrameEchoesItsCommand
<1>2. RepliesInv => ReturnedFrameEchoesItsCommand
  BY DEF RepliesInv
<1> QED
  BY <1>1, <1>2, NextReplies, Inductive, PTL DEF Spec
----------------------------------------------------------------------------
(* SerialCommands, seen through the lock's queue: a call in it is the task   *)
(* and the number of its call.                                             *)
Queue == [i \in 1..Len(commandLock) |->
            [caller |-> commandLock[i], nr |-> call[commandLock[i]]]]

LEMMA SerialInit == Init => Serial!Init
<1> SUFFICES ASSUME Init PROVE Serial!Init
  OBVIOUS
<1>1. Queue = <<>>
  BY DEF Init, Queue
<1>2. [t \in Tasks |-> Script(t)] = [t \in Tasks |-> <<>>]
  BY DEF Init, Script
<1> QED BY <1>1, <1>2 DEF Init, Serial!Init, Queue

(* A step that leaves the queue, the scripts and the requests alone.        *)
LEMMA SerialStutter ==
  ASSUME UNCHANGED <<commandLock, call, calls, sent>>,
         \A t \in Tasks : Script(t)' = Script(t)
  PROVE  UNCHANGED Serial!vars
BY DEF Serial!vars

(* However a method ends, one call leaves, and the others keep their places. *)
LEMMA SerialDepart ==
  ASSUME IInv, NEW t \in Tasks, pc[t] # "idle", Leave(t), UNCHANGED <<calls, sent>>
  PROVE  Serial!Depart(t)
<1>1. /\ commandLock \in Seq(Tasks) /\ pc \in [Tasks -> PC]
      /\ todo \in [Tasks -> Seq(Commands)]
  BY DEF IInv, TypeOK
<1>2. PICK k \in 1..Len(commandLock) : commandLock[k] = t
  BY DEF IInv, LockInv
<1>3. \A i, j \in 1..Len(commandLock) : commandLock[i] = commandLock[j] => i = j
  BY DEF IInv, LockInv
<1>4. /\ Len(commandLock') = Len(commandLock) - 1
      /\ \A i \in 1..(Len(commandLock) - 1) :
           commandLock'[i] = IF i < k THEN commandLock[i] ELSE commandLock[i + 1]
  BY <1>1, <1>2, <1>3, WithoutIsRemoval DEF Leave
<1>5. Len(commandLock) \in Nat /\ k \in Nat
  BY <1>1
<1>6. /\ Len(Queue) = Len(commandLock)
      /\ \A i \in 1..Len(commandLock) :
           Queue[i] = [caller |-> commandLock[i], nr |-> call[commandLock[i]]]
  BY <1>5 DEF Queue
<1>7. call' = call
  BY DEF Leave
<1>8. Queue' = [i \in 1..(Len(commandLock) - 1) |->
                  [caller |-> commandLock'[i], nr |-> call[commandLock'[i]]]]
  BY <1>4, <1>7 DEF Queue
<1>9. ASSUME NEW i \in 1..(Len(commandLock) - 1)
      PROVE  [caller |-> commandLock'[i], nr |-> call[commandLock'[i]]]
               = IF i < k THEN Queue[i] ELSE Queue[i + 1]
  <2>1. i \in 1..Len(commandLock) /\ i + 1 \in 1..Len(commandLock)
    BY <1>5
  <2> QED BY <1>4, <1>6, <2>1
<1>10. Queue' = [i \in 1..(Len(Queue) - 1) |-> IF i < k THEN Queue[i] ELSE Queue[i + 1]]
  <2> HIDE DEF Queue
  <2> QED BY <1>6, <1>8, <1>9
<1>11. k \in 1..Len(Queue) /\ Queue[k].caller = t
  <2>1. Queue[k] = [caller |-> t, nr |-> call[t]]
    BY <1>2, <1>6
  <2> QED BY <1>6, <2>1
<1>12. ASSUME NEW u \in Tasks
       PROVE  Script(u)' = [[v \in Tasks |-> Script(v)] EXCEPT ![t] = <<>>][u]
  BY <1>1 DEF Leave, Script
<1>13. [u \in Tasks |-> Script(u)]' = [[v \in Tasks |-> Script(v)] EXCEPT ![t] = <<>>]
  BY <1>12
<1> QED BY <1>10, <1>11, <1>13 DEF Serial!Depart, Queue

LEMMA SerialAsk ==
  ASSUME IInv, NEW t \in Tasks, NEW program \in Programs, Call(t, program)
  PROVE  Serial!Ask(t, program)
<1>1. /\ commandLock \in Seq(Tasks) /\ pc \in [Tasks -> PC]
      /\ todo \in [Tasks -> Seq(Commands)] /\ call \in [Tasks -> Nat]
  BY DEF IInv, TypeOK
<1>2. \A i \in 1..Len(commandLock) : commandLock[i] \in Tasks /\ commandLock[i] # t
  BY <1>1 DEF IInv, LockInv, Call
<1>3. Len(commandLock) \in Nat
  BY <1>1
<1>4. /\ commandLock' = Append(commandLock, t) /\ call' = [call EXCEPT ![t] = calls + 1]
      /\ pc' = [pc EXCEPT ![t] = "acquiring"] /\ todo' = [todo EXCEPT ![t] = program]
      /\ calls' = calls + 1 /\ sent' = sent
  BY DEF Call
<1>5. /\ Len(commandLock') = Len(commandLock) + 1
      /\ \A i \in 1..Len(commandLock) :
           commandLock'[i] = commandLock[i] /\ call'[commandLock[i]] = call[commandLock[i]]
      /\ commandLock'[Len(commandLock) + 1] = t /\ call'[t] = calls + 1
  BY <1>1, <1>2, <1>4
<1>6. Queue \in Seq([caller : Tasks, nr : Nat]) /\ Len(Queue) = Len(commandLock)
  BY <1>1, <1>2, <1>3 DEF Queue
<1>7. Append(Queue, [caller |-> t, nr |-> calls + 1])
        = [i \in 1..(Len(Queue) + 1) |->
             IF i <= Len(Queue) THEN Queue[i] ELSE [caller |-> t, nr |-> calls + 1]]
  <2> HIDE DEF Queue
  <2> QED BY <1>6
<1>8. Queue' = [i \in 1..(Len(commandLock) + 1) |->
                  [caller |-> commandLock'[i], nr |-> call'[commandLock'[i]]]]
  BY <1>5 DEF Queue
<1>9. ASSUME NEW i \in 1..(Len(commandLock) + 1)
      PROVE  [caller |-> commandLock'[i], nr |-> call'[commandLock'[i]]]
               = IF i <= Len(Queue) THEN Queue[i] ELSE [caller |-> t, nr |-> calls + 1]
  <2>1. CASE i \in 1..Len(commandLock)
    BY <1>3, <1>5, <1>6, <2>1 DEF Queue
  <2>2. CASE i = Len(commandLock) + 1
    BY <1>3, <1>5, <1>6, <2>2
  <2> QED BY <1>3, <2>1, <2>2
<1>10. Queue' = Append(Queue, [caller |-> t, nr |-> calls + 1])
  <2> HIDE DEF Queue
  <2> QED BY <1>6, <1>7, <1>8, <1>9
<1>11. \A i \in 1..Len(Queue) : Queue[i].caller # t
  BY <1>2, <1>6 DEF Queue
<1>12. ASSUME NEW u \in Tasks
       PROVE  Script(u)' = [[v \in Tasks |-> Script(v)] EXCEPT ![t] = program][u]
  BY <1>1, <1>4 DEF Script
<1>13. [u \in Tasks |-> Script(u)]' = [[v \in Tasks |-> Script(v)] EXCEPT ![t] = program]
  BY <1>12
<1> QED BY <1>4, <1>10, <1>11, <1>13 DEF Serial!Ask, Serial!Queued, Queue

LEMMA SerialPut ==
  ASSUME IInv, NEW t \in Tasks, Transmit(t)
  PROVE  Serial!Put
<1>1. /\ commandLock \in Seq(Tasks) /\ pc \in [Tasks -> PC]
      /\ todo \in [Tasks -> Seq(Commands)] /\ todo[t] # <<>>
  BY DEF IInv, TypeOK, WorkInv, Transmit
<1>2. commandLock # <<>> /\ Head(commandLock) = t
  BY DEF IInv, LockInv, Transmit, InExchange, Exchanging, Holds
<1>3. 1 \in 1..Len(commandLock) /\ commandLock[1] = t
  BY <1>1, <1>2
<1>4. Queue # <<>> /\ Head(Queue) = [caller |-> t, nr |-> call[t]]
  BY <1>1, <1>3 DEF Queue
<1>5. Queue' = Queue /\ calls' = calls
  BY DEF Transmit, Queue
<1>6. Script(t) = todo[t]
  BY <1>1 DEF Transmit, Script
<1>7. ASSUME NEW u \in Tasks
      PROVE  Script(u)' = [[v \in Tasks |-> Script(v)] EXCEPT ![t] = Tail(@)][u]
  BY <1>1, <1>6 DEF Transmit, Script
<1>8. [u \in Tasks |-> Script(u)]' = [[v \in Tasks |-> Script(v)] EXCEPT ![t] = Tail(@)]
  BY <1>7
<1>9. sent' = Append(sent, [call |-> call[t], cmd |-> Head(todo[t])])
  BY DEF Transmit
<1>10. [v \in Tasks |-> Script(v)][t] = todo[t]
  BY <1>6
<1>11. Head(Queue).caller = t /\ Head(Queue).nr = call[t]
  BY <1>4
<1>12. /\ [v \in Tasks |-> Script(v)][Head(Queue).caller] # <<>>
       /\ sent' = Append(sent, [call |-> Head(Queue).nr,
                               cmd |-> Head([v \in Tasks |-> Script(v)][Head(Queue).caller])])
       /\ [u \in Tasks |-> Script(u)]'
            = [[v \in Tasks |-> Script(v)] EXCEPT ![Head(Queue).caller] = Tail(@)]
  BY <1>1, <1>8, <1>9, <1>10, <1>11
<1> QED BY <1>4, <1>5, <1>12, Zenon DEF Serial!Put, Queue

LEMMA SerialNext ==
  ASSUME IInv, [Next]_vars
  PROVE  [Serial!Next]_(Serial!vars)
<1>0. pc \in [Tasks -> PC] /\ todo \in [Tasks -> Seq(Commands)]
  BY DEF IInv, TypeOK
<1>1. ASSUME NEW t \in Tasks, pc[t] # "idle", Leave(t), UNCHANGED <<calls, sent>>
      PROVE  Serial!Next
  BY <1>1, SerialDepart DEF Serial!Next
<1>2. ASSUME NEW t \in Tasks, BeginExchange(t) \/ SendReturns(t) \/ Tick(t)
      PROVE  UNCHANGED Serial!vars
  <2>1. UNCHANGED <<commandLock, call, calls, sent>>
    BY <1>2 DEF BeginExchange, SendReturns, Tick, local, history
  <2>2. \A u \in Tasks : Script(u)' = Script(u)
    BY <1>0, <1>2 DEF BeginExchange, SendReturns, Tick, local, Script
  <2> QED BY <2>1, <2>2, SerialStutter
<1>3. ASSUME NEW t \in Tasks, SendFails(t) \/ TimesOut(t) \/ Cancel(t)
      PROVE  Serial!Next
  <2>1. pc[t] # "idle" /\ Leave(t) /\ UNCHANGED <<calls, sent>>
    BY <1>3 DEF SendFails, TimesOut, Cancel, Abandon, history
  <2> QED BY <1>1, <2>1
<1>4. ASSUME NEW t \in Tasks, ReceiveReply(t)
      PROVE  [Serial!Next]_(Serial!vars)
  <2>1. CASE Head(inbox).body = "ok" /\ Len(todo[t]) > 1
    <3>1. UNCHANGED <<commandLock, call, calls, sent>>
      BY <1>4, <2>1 DEF ReceiveReply
    <3>2. \A u \in Tasks : Script(u)' = Script(u)
      BY <1>0, <1>4, <2>1 DEF ReceiveReply, Script
    <3> QED BY <3>1, <3>2, SerialStutter
  <2>2. CASE ~(Head(inbox).body = "ok" /\ Len(todo[t]) > 1)
    <3>1. pc[t] # "idle" /\ Leave(t) /\ UNCHANGED <<calls, sent>>
      BY <1>4, <2>2 DEF ReceiveReply
    <3> QED BY <1>1, <3>1
  <2> QED BY <2>1, <2>2
<1>5. ASSUME NEW t \in Tasks, ReceivePush(t)
      PROVE  [Serial!Next]_(Serial!vars)
  <2>1. CASE left[t] = 0
    <3>1. pc[t] # "idle" /\ Leave(t) /\ UNCHANGED <<calls, sent>>
      BY <1>5, <2>1 DEF ReceivePush, Abandon
    <3> QED BY <1>1, <3>1
  <2>2. CASE left[t] # 0
    <3>1. UNCHANGED <<local, calls, sent>>
      BY <1>5, <2>2 DEF ReceivePush
    <3>2. UNCHANGED <<commandLock, call, calls, sent>>
      BY <3>1 DEF local
    <3>3. \A u \in Tasks : Script(u)' = Script(u)
      BY <3>1 DEF local, Script
    <3> QED BY <3>2, <3>3, SerialStutter
  <2> QED BY <2>1, <2>2
<1>6. ASSUME LockAnswers \/ LockIgnores \/ LockPushes \/ UNCHANGED vars
      PROVE  UNCHANGED Serial!vars
  <2>1. UNCHANGED <<commandLock, call, pc, todo, calls, sent>>
    BY <1>6 DEF LockAnswers, LockIgnores, LockPushes, vars, local, history
  <2>2. \A u \in Tasks : Script(u)' = Script(u)
    BY <2>1 DEF Script
  <2> QED BY <2>1, <2>2, SerialStutter
<1>7. ASSUME NEW t \in Tasks, NEW program \in Programs, Call(t, program)
      PROVE  Serial!Next
  BY <1>7, SerialAsk DEF Serial!Next
<1>8. ASSUME NEW t \in Tasks, Transmit(t)
      PROVE  Serial!Next
  BY <1>8, SerialPut DEF Serial!Next
<1> QED
  BY <1>2, <1>3, <1>4, <1>5, <1>6, <1>7, <1>8 DEF Next, Step

(* For any tasks and programs: calls are served one at a time, in the order  *)
(* they were made, and the lock sees each call's commands in order           *)
(* (ServesEveryCall but for its fairness).                                  *)
THEOREM CallsAreServedInOrder == Spec => Serial!Spec
BY SerialInit, SerialNext, Inductive, PTL DEF Spec, Serial!Spec

----------------------------------------------------------------------------
(* Where each frame ends, and which exchange a reply goes to.               *)

(* No two frames that arrive are the same: pushes are counted, and a request *)
(* that was answered is in flight no more.                                  *)
Numbered ==
  /\ \A f \in arrived : f.kind = "push" => f.nr <= pushes
  /\ \A f \in arrived : f.kind = "reply" =>
       f.nr <= Len(sent) /\ \A i \in 1..Len(inflight) : inflight[i] # f.nr
  /\ \A i, j \in 1..Len(inflight) : inflight[i] = inflight[j] => i = j

(* No frame is in two places, or twice in one.                              *)
Apart ==
  /\ \A i, j \in 1..Len(inbox) : Id(inbox[i]) = Id(inbox[j]) => i = j
  /\ \A i, j \in 1..Len(dispatched) : Id(dispatched[i]) = Id(dispatched[j]) => i = j
  /\ \A i \in 1..Len(inbox), j \in 1..Len(dispatched) : Id(inbox[i]) # Id(dispatched[j])
  /\ \A a \in accepted :
       /\ \A i \in 1..Len(inbox) : Id(inbox[i]) # Id(a.frame)
       /\ \A i \in 1..Len(dispatched) : Id(dispatched[i]) # Id(a.frame)
  /\ \A a, b \in accepted : Id(a.frame) = Id(b.frame) => a = b

(* What arrived is somewhere, and nothing else is.                          *)
Complete ==
  /\ \A i \in 1..Len(inbox) : inbox[i] \in arrived
  /\ \A i \in 1..Len(dispatched) : dispatched[i] \in arrived
  /\ \A a \in accepted : a.frame \in arrived
  /\ \A f \in arrived :
       \/ \E i \in 1..Len(inbox) : inbox[i] = f
       \/ \E i \in 1..Len(dispatched) : dispatched[i] = f
       \/ \E a \in accepted : a.frame = f
  /\ IsFiniteSet(accepted)

PlacesInv == Numbered /\ Apart /\ Complete

----------------------------------------------------------------------------
(* The three ways a frame moves.                                           *)

LEMMA FrameComes ==
  ASSUME TypeOK, Apart, Complete, NEW frame, OnNotify(frame), accepted' = accepted,
         \A f \in arrived : Id(f) # Id(frame)
  PROVE  Apart' /\ Complete'
<1>1. inbox \in Seq(Frames) /\ dispatched \in Seq(Frames)
  BY DEF TypeOK
<1>2. arrived' = arrived \cup {frame}
  BY DEF OnNotify
<1>3. CASE inbox' = Append(inbox, frame) /\ dispatched' = dispatched
  <2>1. /\ Len(inbox') = Len(inbox) + 1 /\ Len(inbox) \in Nat
        /\ \A i \in 1..Len(inbox) : inbox'[i] = inbox[i]
        /\ inbox'[Len(inbox) + 1] = frame
    BY <1>1, <1>3
  <2>2. Apart'
    BY <1>3, <2>1 DEF Apart, Complete
  <2>3. Complete'
    BY <1>2, <1>3, <2>1 DEF Complete
  <2> QED BY <2>2, <2>3
<1>4. CASE dispatched' = Append(dispatched, frame) /\ inbox' = inbox
  <2>1. /\ Len(dispatched') = Len(dispatched) + 1 /\ Len(dispatched) \in Nat
        /\ \A i \in 1..Len(dispatched) : dispatched'[i] = dispatched[i]
        /\ dispatched'[Len(dispatched) + 1] = frame
    BY <1>1, <1>4
  <2>2. \A i \in 1..Len(dispatched') :
          \/ i \in 1..Len(dispatched) /\ dispatched'[i] = dispatched[i]
          \/ i = Len(dispatched) + 1 /\ dispatched'[i] = frame
    BY <2>1
  <2>3. \A i \in 1..Len(dispatched) : Id(dispatched[i]) # Id(frame)
    BY DEF Complete
  <2>4. \A i \in 1..Len(inbox) : Id(inbox[i]) # Id(frame)
    BY DEF Complete
  <2>5. \A a \in accepted : Id(a.frame) # Id(frame)
    BY DEF Complete
  <2>6. Apart'
    BY <1>4, <2>1, <2>2, <2>3, <2>4, <2>5 DEF Apart
  <2>7. Complete'
    BY <1>2, <1>4, <2>1 DEF Complete
  <2> QED BY <2>6, <2>7
<1> QED BY <1>3, <1>4 DEF OnNotify

LEMMA InboxShrinks ==
  ASSUME TypeOK, inbox # <<>>, inbox' = Tail(inbox)
  PROVE  /\ Len(inbox) \in Nat /\ 1 \in 1..Len(inbox) /\ Len(inbox') = Len(inbox) - 1
         /\ \A i \in 1..(Len(inbox) - 1) : inbox'[i] = inbox[i + 1]
         /\ Head(inbox) = inbox[1]
<1>1. inbox \in Seq(Frames)
  BY DEF TypeOK
<1> QED BY <1>1

LEMMA FrameIsReturned ==
  ASSUME TypeOK, Apart, Complete, inbox # <<>>, inbox' = Tail(inbox), NEW r,
         accepted' = accepted \cup {[req |-> r, frame |-> Head(inbox)]},
         UNCHANGED <<dispatched, arrived>>
  PROVE  Apart' /\ Complete'
<1> DEFINE new == [req |-> r, frame |-> Head(inbox)]
<1>1. /\ Len(inbox) \in Nat /\ 1 \in 1..Len(inbox) /\ Len(inbox') = Len(inbox) - 1
      /\ \A i \in 1..(Len(inbox) - 1) : inbox'[i] = inbox[i + 1]
      /\ Head(inbox) = inbox[1]
  BY InboxShrinks
<1>2. new.frame = inbox[1] /\ accepted' = accepted \cup {new}
  BY <1>1
<1> HIDE DEF new
<1>3. Apart'
  BY <1>1, <1>2 DEF Apart
<1>4. \A f \in arrived : (\E i \in 1..Len(inbox) : inbox[i] = f) =>
        f = new.frame \/ \E i \in 1..Len(inbox') : inbox'[i] = f
  <2> SUFFICES ASSUME NEW f \in arrived, NEW i \in 1..Len(inbox), inbox[i] = f, i # 1
               PROVE  \E j \in 1..Len(inbox') : inbox'[j] = f
    BY <1>2
  <2>1. i - 1 \in 1..Len(inbox') /\ inbox'[i - 1] = f
    BY <1>1
  <2> QED BY <2>1
<1>5. IsFiniteSet(accepted')
  BY <1>2, FS_AddElement DEF Complete
<1>6. Complete'
  BY <1>1, <1>2, <1>4, <1>5 DEF Complete
<1> QED BY <1>3, <1>6

LEMMA FrameIsDispatched ==
  ASSUME TypeOK, Apart, Complete, inbox # <<>>, inbox' = Tail(inbox),
         dispatched' = Append(dispatched, Head(inbox)), UNCHANGED <<accepted, arrived>>
  PROVE  Apart' /\ Complete'
<1>1. /\ Len(inbox) \in Nat /\ 1 \in 1..Len(inbox) /\ Len(inbox') = Len(inbox) - 1
      /\ \A i \in 1..(Len(inbox) - 1) : inbox'[i] = inbox[i + 1]
      /\ Head(inbox) = inbox[1]
  BY InboxShrinks
<1>2. dispatched \in Seq(Frames)
  BY DEF TypeOK
<1>3. /\ Len(dispatched') = Len(dispatched) + 1 /\ Len(dispatched) \in Nat
      /\ \A i \in 1..Len(dispatched) : dispatched'[i] = dispatched[i]
      /\ dispatched'[Len(dispatched) + 1] = inbox[1]
  BY <1>1, <1>2
<1>4. Apart'
  BY <1>1, <1>3 DEF Apart
<1>5. \A f \in arrived : (\E i \in 1..Len(inbox) : inbox[i] = f) =>
        \/ \E i \in 1..Len(dispatched') : dispatched'[i] = f
        \/ \E i \in 1..Len(inbox') : inbox'[i] = f
  <2> SUFFICES ASSUME NEW f \in arrived, NEW i \in 1..Len(inbox), inbox[i] = f
               PROVE  \/ \E j \in 1..Len(dispatched') : dispatched'[j] = f
                      \/ \E j \in 1..Len(inbox') : inbox'[j] = f
    OBVIOUS
  <2>1. CASE i = 1
    BY <1>3, <2>1
  <2>2. CASE i # 1
    <3>1. i - 1 \in 1..Len(inbox') /\ inbox'[i - 1] = f
      BY <1>1, <2>2
    <3> QED BY <3>1
  <2> QED BY <2>1, <2>2
<1>6. \A f \in arrived : (\E i \in 1..Len(dispatched) : dispatched[i] = f) =>
        \E i \in 1..Len(dispatched') : dispatched'[i] = f
  BY <1>3
<1>7. Complete'
  <2>1. \A i \in 1..Len(inbox') : inbox'[i] \in arrived
    BY <1>1 DEF Complete
  <2>2. \A i \in 1..Len(dispatched') : dispatched'[i] \in arrived
    <3> SUFFICES ASSUME NEW i \in 1..Len(dispatched') PROVE dispatched'[i] \in arrived
      OBVIOUS
    <3>1. CASE i \in 1..Len(dispatched)
      BY <1>3, <3>1 DEF Complete
    <3>2. CASE i = Len(dispatched) + 1
      BY <1>1, <1>3, <3>2 DEF Complete
    <3> QED BY <1>3, <3>1, <3>2
  <2> QED BY <1>5, <1>6, <2>1, <2>2 DEF Complete
<1> QED BY <1>4, <1>7

----------------------------------------------------------------------------
LEMMA InitPlaces == Init => PlacesInv
<1> SUFFICES ASSUME Init PROVE PlacesInv
  OBVIOUS
<1>1. IsFiniteSet(accepted)
  BY FS_EmptySet DEF Init
<1> QED BY <1>1 DEF Init, PlacesInv, Numbered, Apart, Complete

(* Steps that send, lose and answer nothing.                                *)
LEMMA NumberedIsStable ==
  ASSUME Numbered, UNCHANGED <<arrived, pushes, sent, inflight>>
  PROVE  Numbered'
BY DEF Numbered

LEMMA PlacesAreStable ==
  ASSUME Apart, Complete, UNCHANGED <<inbox, dispatched, accepted, arrived>>
  PROVE  Apart' /\ Complete'
BY DEF Apart, Complete

LEMMA NextPlaces == IInv /\ PlacesInv /\ [Next]_vars => PlacesInv'
<1> SUFFICES ASSUME IInv, PlacesInv, [Next]_vars PROVE PlacesInv'
  OBVIOUS
<1>0. /\ TypeOK /\ Numbered /\ Apart /\ Complete
      /\ sent \in Seq(Request) /\ inflight \in Seq(Nat) /\ pushes \in Nat
      /\ \A f \in arrived : f \in Frames
  BY DEF IInv, PlacesInv, TypeOK
<1>1. ASSUME UNCHANGED <<inbox, inflight, pushes, sent, arrived, accepted, dispatched>>
      PROVE  PlacesInv'
  BY <1>0, <1>1, NumberedIsStable, PlacesAreStable DEF PlacesInv
<1>2. ASSUME NEW t \in Tasks, NEW program \in Programs, Call(t, program) PROVE PlacesInv'
  BY <1>1, <1>2 DEF Call
<1>3. ASSUME NEW t \in Tasks, Cancel(t) PROVE PlacesInv'
  BY <1>1, <1>3 DEF Cancel, history
<1>4. ASSUME NEW t \in Tasks,
             BeginExchange(t) \/ SendReturns(t) \/ SendFails(t) \/ TimesOut(t) \/ Tick(t)
      PROVE  PlacesInv'
  BY <1>1, <1>4 DEF BeginExchange, SendReturns, SendFails, TimesOut, Tick, history
<1>5. ASSUME NEW t \in Tasks, Transmit(t) PROVE PlacesInv'
  <2>1. /\ Len(sent') = Len(sent) + 1 /\ Len(sent) \in Nat
        /\ inflight' = Append(inflight, Len(sent) + 1)
        /\ UNCHANGED <<inbox, pushes, arrived, accepted, dispatched>>
    BY <1>0, <1>5 DEF Transmit
  <2>2. \A f \in arrived : f.nr \in Nat
    BY <1>0 DEF Frames
  <2>3. /\ Len(inflight') = Len(inflight) + 1 /\ Len(inflight) \in Nat
        /\ \A i \in 1..Len(inflight) : inflight'[i] = inflight[i]
        /\ inflight'[Len(inflight) + 1] = Len(sent) + 1
    BY <1>0, <2>1
  <2>4. \A i \in 1..Len(inflight) : inflight[i] \in 1..Len(sent)
    BY DEF IInv, WorkInv
  <2>5. Numbered'
    BY <1>0, <2>1, <2>2, <2>3, <2>4 DEF Numbered
  <2> QED BY <1>0, <2>1, <2>5, PlacesAreStable DEF PlacesInv
<1>6. ASSUME NEW t \in Tasks, ReceiveReply(t) PROVE PlacesInv'
  <2>1. /\ inbox # <<>> /\ inbox' = Tail(inbox)
        /\ accepted' = accepted \cup {[req |-> req[t], frame |-> Head(inbox)]}
        /\ UNCHANGED <<inflight, pushes, sent, arrived, dispatched>>
    BY <1>6 DEF ReceiveReply
  <2>2. Apart' /\ Complete'
    BY <1>0, <2>1, FrameIsReturned
  <2> QED BY <1>0, <2>1, <2>2, NumberedIsStable DEF PlacesInv
<1>7. ASSUME NEW t \in Tasks, ReceivePush(t) PROVE PlacesInv'
  <2>1. /\ inbox # <<>> /\ inbox' = Tail(inbox)
        /\ dispatched' = Append(dispatched, Head(inbox))
        /\ UNCHANGED <<inflight, pushes, sent, arrived, accepted>>
    BY <1>7 DEF ReceivePush
  <2>2. Apart' /\ Complete'
    BY <1>0, <2>1, FrameIsDispatched
  <2> QED BY <1>0, <2>1, <2>2, NumberedIsStable DEF PlacesInv
<1>8. ASSUME inflight # <<>>
      PROVE  /\ Len(inflight) \in Nat /\ 1 \in 1..Len(inflight)
             /\ Len(Tail(inflight)) = Len(inflight) - 1
             /\ \A i \in 1..(Len(inflight) - 1) : Tail(inflight)[i] = inflight[i + 1]
             /\ Head(inflight) = inflight[1]
  BY <1>0, <1>8
<1>9. CASE LockAnswers
  <2>1. PICK body \in Bodies : OnNotify(Reply(Head(inflight), body))
    BY <1>9 DEF LockAnswers
  <2>2. /\ inflight # <<>> /\ inflight' = Tail(inflight)
        /\ UNCHANGED <<pushes, sent, accepted>>
    BY <1>9 DEF LockAnswers
  <2> DEFINE frame == Reply(Head(inflight), body)
  <2>3. frame.kind = "reply" /\ frame.nr = inflight[1]
    BY <1>8, <2>2 DEF Reply
  <2>4. \A f \in arrived : Id(f) # Id(frame)
    BY <1>0, <1>8, <2>2, <2>3 DEF Numbered, Id
  <2>5. arrived' = arrived \cup {frame}
    BY <2>1 DEF OnNotify
  <2>6. inflight[1] \in 1..Len(sent)
    BY <1>8, <2>2 DEF IInv, WorkInv
  <2> HIDE DEF frame
  <2>7. Numbered'
    BY <1>0, <1>8, <2>2, <2>3, <2>5, <2>6 DEF Numbered
  <2>8. Apart' /\ Complete'
    BY <1>0, <2>1, <2>2, <2>4, FrameComes DEF frame
  <2> QED BY <2>7, <2>8 DEF PlacesInv
<1>10. CASE LockPushes
  <2>1. PICK echo \in PushEchoes, body \in Bodies :
          OnNotify(PushFrame(pushes + 1, echo, body))
    BY <1>10 DEF LockPushes
  <2>2. pushes' = pushes + 1 /\ UNCHANGED <<inflight, sent, accepted>>
    BY <1>10 DEF LockPushes
  <2> DEFINE frame == PushFrame(pushes + 1, echo, body)
  <2>3. frame.kind = "push" /\ frame.nr = pushes + 1
    BY DEF PushFrame
  <2>4. \A f \in arrived : f.nr \in Nat
    BY <1>0 DEF Frames
  <2>5. \A f \in arrived : Id(f) # Id(frame)
    BY <1>0, <2>3, <2>4 DEF Numbered, Id
  <2>6. arrived' = arrived \cup {frame}
    BY <2>1 DEF OnNotify
  <2> HIDE DEF frame
  <2>7. Numbered'
    BY <1>0, <2>2, <2>3, <2>4, <2>6 DEF Numbered
  <2>8. Apart' /\ Complete'
    BY <1>0, <2>1, <2>2, <2>5, FrameComes DEF frame
  <2> QED BY <2>7, <2>8 DEF PlacesInv
<1>11. CASE LockIgnores
  <2>1. /\ inflight # <<>> /\ inflight' = Tail(inflight)
        /\ UNCHANGED <<inbox, pushes, sent, arrived, accepted, dispatched>>
    BY <1>11 DEF LockIgnores, history
  <2>2. Numbered'
    BY <1>0, <1>8, <2>1 DEF Numbered
  <2> QED BY <1>0, <2>1, <2>2, PlacesAreStable DEF PlacesInv
<1>12. CASE UNCHANGED vars
  BY <1>1, <1>12 DEF vars, history
<1> QED
  BY <1>2, <1>3, <1>4, <1>5, <1>6, <1>7, <1>9, <1>10, <1>11, <1>12 DEF Next, Step

(* Counted.                                                                *)
LEMMA PlacesCount ==
  ASSUME TypeOK, Apart, Complete
  PROVE  EachFrameInOnePlace
<1> DEFINE places == [i \in 1..Len(inbox) |-> Id(inbox[i])] \o
                     [i \in 1..Len(dispatched) |-> Id(dispatched[i])]
           taken == {Id(a.frame) : a \in accepted}
           queued == {places[i] : i \in 1..Len(places)}
<1>1. Len(inbox) \in Nat /\ Len(dispatched) \in Nat
  BY DEF TypeOK
<1>2. /\ Len(places) = Len(inbox) + Len(dispatched)
      /\ \A i \in 1..Len(inbox) : places[i] = Id(inbox[i])
      /\ \A i \in 1..Len(dispatched) : places[Len(inbox) + i] = Id(dispatched[i])
  BY <1>1
<1> HIDE DEF places
<1>3. \A i \in 1..Len(places) :
        i \in 1..Len(inbox) \/ (i - Len(inbox) \in 1..Len(dispatched)
                                /\ places[i] = Id(dispatched[i - Len(inbox)]))
  <2> SUFFICES ASSUME NEW i \in 1..Len(places), i \notin 1..Len(inbox)
               PROVE  /\ i - Len(inbox) \in 1..Len(dispatched)
                      /\ places[i] = Id(dispatched[i - Len(inbox)])
    OBVIOUS
  <2>1. i - Len(inbox) \in 1..Len(dispatched) /\ Len(inbox) + (i - Len(inbox)) = i
    BY <1>1, <1>2
  <2> QED BY <1>2, <2>1
<1>4. \A x : x \in queued <=> \/ \E i \in 1..Len(inbox) : x = Id(inbox[i])
                              \/ \E i \in 1..Len(dispatched) : x = Id(dispatched[i])
  <2>1. ASSUME NEW i \in 1..Len(places)
        PROVE  \/ \E j \in 1..Len(inbox) : places[i] = Id(inbox[j])
               \/ \E j \in 1..Len(dispatched) : places[i] = Id(dispatched[j])
    BY <1>2, <1>3
  <2>2. ASSUME NEW i \in 1..Len(inbox) PROVE Id(inbox[i]) \in queued
    <3>1. i \in 1..Len(places) /\ places[i] = Id(inbox[i])
      BY <1>1, <1>2
    <3> QED BY <3>1
  <2>3. ASSUME NEW i \in 1..Len(dispatched) PROVE Id(dispatched[i]) \in queued
    <3>1. Len(inbox) + i \in 1..Len(places) /\ places[Len(inbox) + i] = Id(dispatched[i])
      BY <1>1, <1>2
    <3> QED BY <3>1
  <2> QED BY <2>1, <2>2, <2>3
<1>5. {Id(f) : f \in arrived} = queued \cup taken
  <2> HIDE DEF queued
  <2> QED BY <1>4 DEF Complete
<1>6. queued \cap taken = {}
  <2> HIDE DEF queued
  <2> QED BY <1>4 DEF Apart
<1>7. ASSUME NEW i \in 1..Len(places), NEW j \in 1..Len(places), places[i] = places[j]
      PROVE  i = j
  <2>1. i \in Int /\ j \in Int
    BY <1>1, <1>2
  <2>2. CASE i \in 1..Len(inbox) /\ j \in 1..Len(inbox)
    BY <1>2, <1>7, <2>2 DEF Apart
  <2>3. CASE i \in 1..Len(inbox) /\ j \notin 1..Len(inbox)
    BY <1>2, <1>3, <1>7, <2>3 DEF Apart
  <2>4. CASE i \notin 1..Len(inbox) /\ j \in 1..Len(inbox)
    BY <1>2, <1>3, <1>7, <2>4 DEF Apart
  <2>5. CASE i \notin 1..Len(inbox) /\ j \notin 1..Len(inbox)
    <3>1. i - Len(inbox) = j - Len(inbox)
      BY <1>3, <1>7, <2>5 DEF Apart
    <3> QED BY <1>1, <2>1, <3>1
  <2> QED BY <2>2, <2>3, <2>4, <2>5
<1>8. Cardinality(queued) = Len(places)
  <2> DEFINE place == [i \in 1..Len(places) |-> places[i]]
  <2>1. place \in Bijection(1..Len(places), queued)
    BY <1>7 DEF Bijection, Injection, Surjection, IsInjective
  <2>2. Len(places) \in Nat
    BY <1>1, <1>2
  <2> QED BY <2>1, <2>2, FS_CountingElements DEF ExistsBijection
<1>9. Cardinality(taken) = Cardinality(accepted)
  <2> DEFINE name == [a \in accepted |-> Id(a.frame)]
  <2>1. name \in Bijection(accepted, taken)
    BY DEF Apart, Bijection, Injection, Surjection, IsInjective
  <2> QED BY <2>1, FS_Bijection DEF ExistsBijection, Complete
<1> QED BY <1>5, <1>6, <1>8, <1>9 DEF EachFrameInOnePlace, places

LEMMA AlwaysInPlace == Spec => [](IInv /\ PlacesInv)
BY InitPlaces, NextPlaces, Inductive, PTL DEF Spec

(* For any tasks, programs and numbers of frames, every notified frame is in *)
(* exactly one place: the inbox, one exchange's result, or the push handler. *)
THEOREM FramesAreInOnePlace == Spec => []EachFrameInOnePlace
<1>1. IInv /\ PlacesInv => EachFrameInOnePlace
  BY PlacesCount DEF IInv, PlacesInv
<1> QED BY <1>1, AlwaysInPlace, PTL

----------------------------------------------------------------------------
(* An exchange that waits for r gets a reply of an earlier request only if   *)
(* that one's exchange gave up or took another frame.  Otherwise each has    *)
(* its own reply, and what echoes r and is no push answers r.               *)
LEMMA NextExchangeGetsItsReply ==
  ASSUME IInv, IInv', RepliesInv, PlacesInv, UndisturbedExchangeGetsItsReply,
         NEW t \in Tasks, ReceiveReply(t)
  PROVE  UndisturbedExchangeGetsItsReply'
<1>0. PICK r, frame, new :
        r = req[t] /\ frame = Head(inbox) /\ new = [req |-> r, frame |-> frame]
  OBVIOUS
<1>1. /\ pc[t] = "awaiting" /\ inbox # <<>> /\ Answers(frame, Head(todo[t]))
      /\ accepted' = accepted \cup {new} /\ sent' = sent
  BY <1>0 DEF ReceiveReply
<1>2. frame = inbox[1] /\ 1 \in 1..Len(inbox)
  BY <1>0, <1>1 DEF IInv, TypeOK
<1>3. r = Len(sent) /\ r \in Nat /\ r >= 1 /\ sent[r].cmd = Head(todo[t])
  BY <1>0, <1>1 DEF RepliesInv, RequestInv, IInv, TypeOK
<1>4. Genuine(frame) /\ frame \in Frames
  <2>1. inbox \in Seq(Frames)
    BY DEF IInv, TypeOK
  <2>2. frame \in Frames
    BY <1>2, <2>1
  <2> QED BY <1>2, <2>2 DEF RepliesInv, InboxInv
<1>5. new.req = r /\ new.frame = frame /\ new \in accepted'
  BY <1>0, <1>1
<1>6. \A a \in accepted : a.req \in 1..r
  BY <1>3 DEF RepliesInv, AcceptedInv
<1>7. ASSUME NEW a \in accepted, Disturbed(a.req) PROVE Disturbed(a.req)'
  <2>1. a.req \in 1..r
    BY <1>6
  <2>2. CASE \E q \in 1..(a.req - 1) : \A b \in accepted : b.req # q
    <3>1. PICK q \in 1..(a.req - 1) : \A b \in accepted : b.req # q
      BY <2>2
    <3>2. q # r
      BY <1>3, <2>1
    <3>3. \A b \in accepted' : b.req # q
      BY <1>1, <1>5, <3>1, <3>2
    <3> QED BY <3>3 DEF Disturbed
  <2>3. CASE \E b \in accepted :
               /\ b.req <= a.req
               /\ \/ b.frame.body = "garbled"
                  \/ b.frame.kind = "push" /\ b.frame.echo = sent[b.req].cmd
    BY <1>1, <2>3 DEF Disturbed
  <2> QED BY <1>7, <2>2, <2>3 DEF Disturbed
<1>8. Own(new) \/ Disturbed(r)'
  <2>1. CASE frame.body = "garbled" \/ frame.kind = "push"
    <3>1. frame.body = "garbled" \/ (frame.kind = "push" /\ frame.echo = sent[r].cmd)
      BY <1>1, <1>3, <2>1 DEF Answers
    <3> QED BY <1>1, <1>3, <1>5, <3>1 DEF Disturbed
  <2>2. CASE \E q \in 1..(r - 1) : \A a \in accepted : a.req # q
    <3>1. PICK q \in 1..(r - 1) : \A a \in accepted : a.req # q
      BY <2>2
    <3>2. \A a \in accepted' : a.req # q
      BY <1>1, <1>3, <1>5, <3>1
    <3> QED BY <3>2 DEF Disturbed
  <2>3. CASE /\ frame.body # "garbled" /\ frame.kind # "push"
             /\ \A q \in 1..(r - 1) : \E a \in accepted : a.req = q
    <3>1. frame.kind = "reply" /\ frame.nr \in 1..r
      BY <1>3, <1>4, <2>3 DEF Frames, Genuine
    <3>2. CASE frame.nr = r
      BY <1>5, <3>1, <3>2 DEF Own
    <3>3. CASE frame.nr # r
      <4>1. frame.nr \in 1..(r - 1)
        BY <1>3, <3>1, <3>3
      <4>2. PICK a \in accepted : a.req = frame.nr
        BY <2>3, <4>1
      <4>3. ~Own(a)
        <5>1. Id(a.frame) # Id(frame)
          BY <1>2 DEF PlacesInv, Apart
        <5> QED BY <3>1, <4>2, <5>1 DEF Own, Id
      <4>4. Disturbed(a.req)
        BY <4>3 DEF UndisturbedExchangeGetsItsReply
      <4>5. \A q \in 1..(a.req - 1) : q \in 1..(r - 1)
        BY <1>3, <4>1, <4>2
      <4>6. PICK b \in accepted :
              /\ b.req <= a.req
              /\ \/ b.frame.body = "garbled"
                 \/ b.frame.kind = "push" /\ b.frame.echo = sent[b.req].cmd
        BY <2>3, <4>4, <4>5 DEF Disturbed
      <4>7. b.req <= r
        BY <1>6
      <4> QED BY <1>1, <4>6, <4>7 DEF Disturbed
    <3> QED BY <3>2, <3>3
  <2> QED BY <2>1, <2>2, <2>3
<1> QED
  BY <1>1, <1>5, <1>7, <1>8 DEF UndisturbedExchangeGetsItsReply, Own

LEMMA NextUndisturbed ==
  ASSUME IInv, IInv', RepliesInv, PlacesInv, UndisturbedExchangeGetsItsReply, [Next]_vars
  PROVE  UndisturbedExchangeGetsItsReply'
<1>1. CASE \E t \in Tasks : ReceiveReply(t)
  BY <1>1, NextExchangeGetsItsReply
<1>2. ASSUME UNCHANGED <<accepted, sent>> PROVE UndisturbedExchangeGetsItsReply'
  BY <1>2 DEF UndisturbedExchangeGetsItsReply, Disturbed, Own
<1>3. ASSUME NEW t \in Tasks, Transmit(t) PROVE UndisturbedExchangeGetsItsReply'
  <2>1. accepted' = accepted /\ \A i \in 1..Len(sent) : sent'[i] = sent[i]
    BY <1>3 DEF Transmit, IInv, TypeOK
  <2>2. \A a \in accepted : a.req \in 1..Len(sent)
    BY DEF RepliesInv, AcceptedInv
  <2>3. \A a \in accepted : sent'[a.req].cmd = sent[a.req].cmd
    BY <2>1, <2>2
  <2>4. \A a \in accepted : Disturbed(a.req) => Disturbed(a.req)'
    BY <2>1, <2>3 DEF Disturbed
  <2> QED BY <2>1, <2>4 DEF UndisturbedExchangeGetsItsReply, Own
<1>4. ASSUME NEW t \in Tasks, Step(t), ~ReceiveReply(t), ~Transmit(t)
      PROVE  UNCHANGED <<accepted, sent>>
  BY <1>4 DEF Step, BeginExchange, SendReturns, SendFails, ReceivePush, TimesOut, Tick, history
<1>5. ASSUME NEW t \in Tasks, Cancel(t) \/ \E program \in Programs : Call(t, program)
      PROVE  UNCHANGED <<accepted, sent>>
  BY <1>5 DEF Cancel, Call, history
<1>6. LockAnswers \/ LockIgnores \/ LockPushes \/ UNCHANGED vars => UNCHANGED <<accepted, sent>>
  BY DEF LockAnswers, LockIgnores, LockPushes, vars, history
<1> QED BY <1>1, <1>2, <1>3, <1>4, <1>5, <1>6 DEF Next

(* For any tasks, programs, pushes and interleavings: exchange returns the   *)
(* reply to its own request, unless an earlier exchange gave up, or a frame  *)
(* that does not decode or a push that echoes the opcode was taken for one.  *)
THEOREM RepliesFindTheirExchange == Spec => []UndisturbedExchangeGetsItsReply
<1>1. Init => RepliesInv
  BY DEF Init, RepliesInv, RequestInv, InboxInv, AcceptedInv, ReturnedFrameEchoesItsCommand
<1>2. Init => UndisturbedExchangeGetsItsReply
  BY DEF Init, UndisturbedExchangeGetsItsReply
<1>3. Spec => []RepliesInv
  BY <1>1, NextReplies, Inductive, PTL DEF Spec
<1> QED BY <1>2, <1>3, NextUndisturbed, AlwaysInPlace, PTL DEF Spec
=============================================================================
