-------------------------- MODULE CommandExchange --------------------------
(***************************************************************************)
(* The command path of TTLockClient over BleTransport.                     *)
(*                                                                         *)
(* Every public method of the client takes the asyncio command lock and    *)
(* runs its commands one after another through BleTransport.exchange.  The *)
(* notification callback runs between the awaits of the tasks and routes   *)
(* each frame either to the inbox of the waiting exchange or straight to   *)
(* the push handler.  One action below is the code a task runs between two *)
(* awaits; the lock firmware, the radio and the canceller of a task are    *)
(* the environment.                                                        *)
(***************************************************************************)
EXTENDS Integers, Sequences, FiniteSets

CONSTANTS
  Tasks,        \* asyncio tasks that call methods of one client
  Commands,     \* opcodes of the commands the methods send
  Programs,     \* the command sequences the methods run under the lock
  PushEchoes,   \* opcodes echoed by the frames the lock pushes by itself
  TIMEOUT,      \* DEFAULT_RECV_TIMEOUT, in ticks of the event loop clock
  MaxCalls,     \* bound: calls made on the client
  MaxPushes     \* bound: frames the lock pushes

ASSUME ProgramsAssumption ==
  \A p \in Programs : p \in Seq(Commands) /\ p # <<>>

ASSUME BoundsAssumption ==
  /\ TIMEOUT \in Nat \ {0}
  /\ MaxCalls \in Nat
  /\ MaxPushes \in Nat

VARIABLES
  commandLock,  \* _command_lock: its holder, then its waiters in FIFO order
  pc,           \* where each task is suspended
  todo,         \* commands each task's method has still to get answered
  call,         \* the number of the call each task is in
  req,          \* the request each task's exchange has written
  left,         \* ticks until the deadline of each task's exchange
  waiting,      \* _waiting_for_response
  inbox,        \* _inbox
  inflight,     \* requests written to the lock and not answered yet
  calls,        \* history: calls made
  pushes,       \* history: frames pushed by the lock
  sent,         \* history: the requests, in the order they were written
  arrived,      \* history: the frames _on_notify was given
  accepted,     \* history: the frames exchange returned, with the request
  dispatched    \* history: the frames handed to _on_push_frame

local == <<commandLock, pc, todo, call>>
history == <<calls, pushes, sent, arrived, accepted, dispatched>>
vars == <<local, req, left, waiting, inbox, inflight, history>>

PC == {"idle", "acquiring", "sending", "written", "awaiting"}

(* What a frame decrypts to: a status a parser takes, one it raises on, or  *)
(* nothing at all because AES or the envelope does not decode.              *)
Bodies == {"ok", "failed", "garbled"}

(* nr identifies the frame: the request a reply answers, or the number of   *)
(* the push.  The program sees only echo and body.                          *)
Frames == [kind : {"reply", "push"}, nr : Nat, echo : Commands \cup PushEchoes,
           body : Bodies]

Request == [call : Nat, cmd : Commands]

TypeOK ==
  /\ commandLock \in Seq(Tasks)
  /\ pc \in [Tasks -> PC]
  /\ todo \in [Tasks -> Seq(Commands)]
  /\ call \in [Tasks -> Nat]
  /\ req \in [Tasks -> Nat]
  /\ left \in [Tasks -> 0..TIMEOUT]
  /\ waiting \in Nat
  /\ inbox \in Seq(Frames)
  /\ inflight \in Seq(Nat)
  /\ calls \in Nat
  /\ pushes \in Nat
  /\ sent \in Seq(Request)
  /\ arrived \in SUBSET Frames
  /\ accepted \in SUBSET [req : Nat, frame : Frames]
  /\ dispatched \in Seq(Frames)

Init ==
  /\ commandLock = <<>>
  /\ pc = [t \in Tasks |-> "idle"]
  /\ todo = [t \in Tasks |-> <<>>]
  /\ call = [t \in Tasks |-> 0]
  /\ req = [t \in Tasks |-> 0]
  /\ left = [t \in Tasks |-> 0]
  /\ waiting = 0
  /\ inbox = <<>>
  /\ inflight = <<>>
  /\ calls = 0
  /\ pushes = 0
  /\ sent = <<>>
  /\ arrived = {}
  /\ accepted = {}
  /\ dispatched = <<>>

Exchanging == {"sending", "written", "awaiting"}

InExchange(t) == pc[t] \in Exchanging

Holds(t) == commandLock # <<>> /\ Head(commandLock) = t

Without(queue, t) ==
  LET k == CHOOSE i \in 1..Len(queue) : queue[i] = t
  IN  [i \in 1..(Len(queue) - 1) |-> IF i < k THEN queue[i] ELSE queue[i + 1]]

----------------------------------------------------------------------------
(* The tasks.                                                              *)

(* A task calls a method and queues for the command lock.  An uncontended   *)
(* acquire does not suspend; BeginExchange then simply follows.             *)
Call(t, program) ==
  /\ pc[t] = "idle"
  /\ calls < MaxCalls
  /\ commandLock' = Append(commandLock, t)
  /\ pc' = [pc EXCEPT ![t] = "acquiring"]
  /\ todo' = [todo EXCEPT ![t] = program]
  /\ call' = [call EXCEPT ![t] = calls + 1]
  /\ calls' = calls + 1
  /\ UNCHANGED <<req, left, waiting, inbox, inflight, pushes, sent, arrived,
                 accepted, dispatched>>

(* Fault: a cancelled waiter releases the lock of the holder.               *)
LeaveReleasingHolder(t) ==
  /\ commandLock' = Tail(commandLock)
  /\ pc' = [pc EXCEPT ![t] = "idle"]
  /\ todo' = [todo EXCEPT ![t] = <<>>]
  /\ call' = call

(* Leaving the method, however it ends: `async with` releases the lock, or  *)
(* a cancelled acquire takes its waiter out of the queue.                   *)
Leave(t) ==
  /\ commandLock' = Without(commandLock, t)
  /\ pc' = [pc EXCEPT ![t] = "idle"]
  /\ todo' = [todo EXCEPT ![t] = <<>>]
  /\ call' = call

EnterExchange(t) == waiting' = waiting + 1

LeaveExchange(t) ==
  /\ waiting' = waiting - 1
  /\ left' = [left EXCEPT ![t] = 0]

(* Fault: the method does not take the command lock.                        *)
BeginExchangeUnlocked(t) ==
  /\ pc[t] = "acquiring"
  /\ pc' = [pc EXCEPT ![t] = "sending"]
  /\ EnterExchange(t)
  /\ UNCHANGED <<commandLock, todo, call, req, left, inbox, inflight, history>>

(* Fault: frames left in the inbox are dropped before the command is sent.  *)
BeginExchangeDraining(t) ==
  /\ pc[t] = "acquiring"
  /\ Holds(t)
  /\ pc' = [pc EXCEPT ![t] = "sending"]
  /\ inbox' = <<>>
  /\ EnterExchange(t)
  /\ UNCHANGED <<commandLock, todo, call, req, left, inflight, history>>

(* Holding the lock, the method enters exchange for its first command.      *)
BeginExchange(t) ==
  /\ pc[t] = "acquiring"
  /\ Holds(t)
  /\ pc' = [pc EXCEPT ![t] = "sending"]
  /\ EnterExchange(t)
  /\ UNCHANGED <<commandLock, todo, call, req, left, inbox, inflight, history>>

(* The last chunk of the frame leaves; its await has not returned yet, and  *)
(* the lock may answer before it does.                                      *)
Transmit(t) ==
  /\ pc[t] = "sending"
  /\ pc' = [pc EXCEPT ![t] = "written"]
  /\ sent' = Append(sent, [call |-> call[t], cmd |-> Head(todo[t])])
  /\ req' = [req EXCEPT ![t] = Len(sent) + 1]
  /\ inflight' = Append(inflight, Len(sent) + 1)
  /\ UNCHANGED <<commandLock, todo, call, left, waiting, inbox, calls, pushes,
                 arrived, accepted, dispatched>>

(* send returns and exchange fixes its deadline.                            *)
SendReturns(t) ==
  /\ pc[t] = "written"
  /\ pc' = [pc EXCEPT ![t] = "awaiting"]
  /\ left' = [left EXCEPT ![t] = TIMEOUT]
  /\ UNCHANGED <<commandLock, todo, call, req, waiting, inbox, inflight, history>>

(* exchange and then the method raise; `finally` and `async with` unwind.   *)
Abandon(t) ==
  /\ LeaveExchange(t)
  /\ Leave(t)

(* A write raises, before or after the bytes of the frame have left.        *)
SendFails(t) ==
  /\ pc[t] \in {"sending", "written"}
  /\ Abandon(t)
  /\ UNCHANGED <<req, inbox, inflight, history>>

(* Fault: the first frame to arrive is taken for the reply.                 *)
AnswersAnything(frame, command) == TRUE

(* TTLockClient._answers: only the echoed opcode is compared, and a frame   *)
(* that does not decode passes for any command.                             *)
Answers(frame, command) ==
  \/ frame.body = "garbled"
  \/ frame.echo = command

(* Fault: the lock is held for one command, not for the session.            *)
ReceiveReplyYielding(t) ==
  /\ pc[t] = "awaiting"
  /\ inbox # <<>>
  /\ Answers(Head(inbox), Head(todo[t]))
  /\ inbox' = Tail(inbox)
  /\ accepted' = accepted \cup {[req |-> req[t], frame |-> Head(inbox)]}
  /\ LeaveExchange(t)
  /\ IF Head(inbox).body = "ok" /\ Len(todo[t]) > 1
     THEN /\ commandLock' = Append(Without(commandLock, t), t)
          /\ todo' = [todo EXCEPT ![t] = Tail(@)]
          /\ pc' = [pc EXCEPT ![t] = "acquiring"]
          /\ UNCHANGED call
     ELSE Leave(t)
  /\ UNCHANGED <<req, inflight, calls, pushes, sent, arrived, dispatched>>

(* The head of the inbox is the reply: exchange returns it, and the method  *)
(* raises on it, returns, or enters the exchange of its next command before *)
(* it suspends again, so no notification falls between the two exchanges.   *)
ReceiveReply(t) ==
  /\ pc[t] = "awaiting"
  /\ inbox # <<>>
  /\ Answers(Head(inbox), Head(todo[t]))
  /\ inbox' = Tail(inbox)
  /\ accepted' = accepted \cup {[req |-> req[t], frame |-> Head(inbox)]}
  /\ IF Head(inbox).body = "ok" /\ Len(todo[t]) > 1
     THEN /\ todo' = [todo EXCEPT ![t] = Tail(@)]
          /\ pc' = [pc EXCEPT ![t] = "sending"]
          /\ left' = [left EXCEPT ![t] = 0]
          /\ UNCHANGED <<commandLock, call, waiting>>
     ELSE /\ LeaveExchange(t)
          /\ Leave(t)
  /\ UNCHANGED <<req, inflight, calls, pushes, sent, arrived, dispatched>>

(* Fault: a frame that is not the reply restarts the deadline.              *)
ReceivePushRestarting(t) ==
  /\ pc[t] = "awaiting"
  /\ inbox # <<>>
  /\ ~Answers(Head(inbox), Head(todo[t]))
  /\ inbox' = Tail(inbox)
  /\ dispatched' = Append(dispatched, Head(inbox))
  /\ left' = [left EXCEPT ![t] = TIMEOUT]
  /\ UNCHANGED <<local, waiting, req, inflight, calls, pushes, sent, arrived,
                 accepted>>

(* The head of the inbox is not the reply: it goes to the push handler and  *)
(* the wait goes on to the same deadline, unless that has passed.           *)
ReceivePush(t) ==
  /\ pc[t] = "awaiting"
  /\ inbox # <<>>
  /\ ~Answers(Head(inbox), Head(todo[t]))
  /\ inbox' = Tail(inbox)
  /\ dispatched' = Append(dispatched, Head(inbox))
  /\ IF left[t] = 0
     THEN Abandon(t)
     ELSE UNCHANGED <<local, left, waiting>>
  /\ UNCHANGED <<req, inflight, calls, pushes, sent, arrived, accepted>>

(* Fault: a timed out method does not release the command lock.             *)
TimesOutKeepingLock(t) ==
  /\ pc[t] = "awaiting"
  /\ left[t] = 0
  /\ LeaveExchange(t)
  /\ pc' = [pc EXCEPT ![t] = "idle"]
  /\ todo' = [todo EXCEPT ![t] = <<>>]
  /\ UNCHANGED <<commandLock, call, req, inbox, inflight, history>>

(* wait_for times out.  A frame queued in the same turn of the event loop   *)
(* is not taken: it stays in the inbox.                                     *)
TimesOut(t) ==
  /\ pc[t] = "awaiting"
  /\ left[t] = 0
  /\ Abandon(t)
  /\ UNCHANGED <<req, inbox, inflight, history>>

(* The caller cancels the task at whichever await it is suspended in.       *)
Cancel(t) ==
  /\ pc[t] # "idle"
  /\ Leave(t)
  /\ IF InExchange(t) THEN LeaveExchange(t) ELSE UNCHANGED <<waiting, left>>
  /\ UNCHANGED <<req, inbox, inflight, history>>

----------------------------------------------------------------------------
(* The environment.                                                        *)

(* BleTransport._on_notify for one reassembled frame.                       *)
OnNotify(frame) ==
  /\ arrived' = arrived \cup {frame}
  /\ IF waiting > 0
     THEN /\ inbox' = Append(inbox, frame)
          /\ UNCHANGED dispatched
     ELSE /\ dispatched' = Append(dispatched, frame)
          /\ UNCHANGED inbox

Reply(r, body) ==
  [kind |-> "reply", nr |-> r, echo |-> sent[r].cmd, body |-> body]

PushFrame(n, echo, body) ==
  [kind |-> "push", nr |-> n, echo |-> echo, body |-> body]

(* The lock handles requests in order and its reply is notified.            *)
LockAnswers ==
  /\ inflight # <<>>
  /\ \E body \in Bodies : OnNotify(Reply(Head(inflight), body))
  /\ inflight' = Tail(inflight)
  /\ UNCHANGED <<local, req, left, waiting, calls, pushes, sent, accepted>>

(* A request or its reply is lost, or the lock does not answer it.          *)
LockIgnores ==
  /\ inflight # <<>>
  /\ inflight' = Tail(inflight)
  /\ UNCHANGED <<local, req, left, waiting, inbox, history>>

(* The keypad, a fingerprint or auto-lock makes the lock push a frame.      *)
LockPushes ==
  /\ pushes < MaxPushes
  /\ \E echo \in PushEchoes, body \in Bodies :
        OnNotify(PushFrame(pushes + 1, echo, body))
  /\ pushes' = pushes + 1
  /\ UNCHANGED <<local, req, left, waiting, inflight, calls, sent, accepted>>

(* The event loop clock.                                                    *)
Tick(t) ==
  /\ pc[t] = "awaiting"
  /\ left[t] > 0
  /\ left' = [left EXCEPT ![t] = @ - 1]
  /\ UNCHANGED <<local, req, waiting, inbox, inflight, history>>

Step(t) ==
  \/ BeginExchange(t)
  \/ Transmit(t)
  \/ SendReturns(t)
  \/ SendFails(t)
  \/ ReceiveReply(t)
  \/ ReceivePush(t)
  \/ TimesOut(t)
  \/ Tick(t)

Next ==
  \/ \E t \in Tasks :
        \/ Step(t)
        \/ \E program \in Programs : Call(t, program)
        \/ Cancel(t)
  \/ LockAnswers
  \/ LockIgnores
  \/ LockPushes

Spec == Init /\ [][Next]_vars

(* A task the event loop can resume is resumed, a write ends and the clock  *)
(* runs.  Nothing is assumed of the lock, the callers or the canceller.     *)
FairSpec == Spec /\ \A t \in Tasks : WF_vars(Step(t))


----------------------------------------------------------------------------
(* Properties.                                                             *)

(* At most one task is inside exchange, it holds the command lock, and      *)
(* _waiting_for_response counts exactly the tasks inside: neither a         *)
(* timeout, a failed write nor a cancellation leaves it raised or takes it  *)
(* below zero.  _on_notify routes on that counter.                          *)
OneExchangeAtATime ==
  /\ \A t \in Tasks : InExchange(t) => Holds(t)
  /\ waiting = Cardinality({t \in Tasks : InExchange(t)})

(* What identifies a frame.                                                 *)
Id(frame) == <<frame.kind, frame.nr>>

(* Every notified frame is in exactly one place: waiting in the inbox,      *)
(* returned by one exchange, or handed once to the push handler.            *)
EachFrameInOnePlace ==
  LET places == [i \in 1..Len(inbox) |-> Id(inbox[i])] \o
                [i \in 1..Len(dispatched) |-> Id(dispatched[i])]
      taken == {Id(a.frame) : a \in accepted}
      queued == {places[i] : i \in 1..Len(places)}
  IN  /\ {Id(f) : f \in arrived} = queued \cup taken
      /\ queued \cap taken = {}
      /\ Cardinality(queued) = Len(places)
      /\ Cardinality(taken) = Cardinality(accepted)

(* The lock sees the commands of one call uninterrupted by another call's:  *)
(* what CHECK_USER_TIME or CHECK_ADMIN authorised is used by the call that  *)
(* asked for it, with no foreign command in between.                        *)
SessionsDoNotInterleave ==
  \A i, j, k \in 1..Len(sent) :
    i < k /\ k < j /\ sent[i].call = sent[j].call => sent[k].call = sent[i].call

(* A returned frame that decodes echoes the command it is returned for, and *)
(* if it is a reply, it answers that request or an earlier one for the same *)
(* command: never another command's, and never one of a request yet to come. *)
ReturnedFrameEchoesItsCommand ==
  \A a \in accepted : a.frame.body # "garbled" =>
    /\ a.frame.echo = sent[a.req].cmd
    /\ a.frame.kind = "reply" =>
         a.frame.nr <= a.req /\ sent[a.frame.nr].cmd = sent[a.req].cmd

Own(a) == a.frame.kind = "reply" /\ a.frame.nr = a.req

(* The three ways an exchange comes to return a frame that is not its own:  *)
(* an earlier exchange gave up, or a frame that does not decode or a push   *)
(* that echoes the awaited opcode was taken for a reply.                    *)
Disturbed(r) ==
  \/ \E q \in 1..(r - 1) : \A a \in accepted : a.req # q
  \/ \E a \in accepted :
       /\ a.req <= r
       /\ \/ a.frame.body = "garbled"
          \/ a.frame.kind = "push" /\ a.frame.echo = sent[a.req].cmd

(* Short of those three, exchange returns the reply to its own request, for *)
(* every interleaving of pushes, calls and notifications.                   *)
UndisturbedExchangeGetsItsReply ==
  \A a \in accepted : Own(a) \/ Disturbed(a.req)

(* A frame that is not the reply never moves the deadline away: while an    *)
(* exchange waits, the time left only shrinks.                              *)
DeadlineNeverExtended ==
  [][\A t \in Tasks :
       pc[t] = "awaiting" /\ pc'[t] = "awaiting" => left'[t] <= left[t]]_vars

(* A command left to the timeout ends with the frame that beat it or at the *)
(* deadline, so every call returns, and so does every call queued behind it. *)
EveryCallReturns ==
  \A t \in Tasks : pc[t] # "idle" ~> pc[t] = "idle"

(* The command path implements SerialCommands: a task's script is what its  *)
(* method has not written yet, and the lock sees the requests.              *)
Script(t) ==
  IF pc[t] \in {"written", "awaiting"} THEN Tail(todo[t]) ELSE todo[t]

Serial ==
  INSTANCE SerialCommands WITH
    Callers <- Tasks,
    queue <- [i \in 1..Len(commandLock) |->
                [caller |-> commandLock[i], nr |-> call[commandLock[i]]]],
    script <- [t \in Tasks |-> Script(t)],
    seen <- sent

(* Calls are served in the order they were made, one at a time, and what    *)
(* reaches the lock is each call's commands in order, whichever waiter is   *)
(* cancelled and however each exchange ends; and no call keeps the ones     *)
(* behind it waiting for ever.                                              *)
ServesEveryCall == Serial!FairSpec
=============================================================================
