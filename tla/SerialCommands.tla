--------------------------- MODULE SerialCommands ---------------------------
(***************************************************************************)
(* What the command path promises its callers: the lock serves one call at *)
(* a time, in the order the calls were made, and sees the commands of a    *)
(* call in program order.  A caller may give up at any time, and no caller *)
(* is kept for ever.                                                       *)
(***************************************************************************)
EXTENDS Naturals, Sequences

CONSTANTS Callers, Programs

VARIABLES
  queue,   \* the calls not finished, oldest first: the caller and its number
  script,  \* the commands each caller's call has still to put to the lock
  calls,   \* the number of calls made
  seen     \* the commands the lock was sent, with the number of their call

vars == <<queue, script, calls, seen>>

Init ==
  /\ queue = <<>>
  /\ script = [c \in Callers |-> <<>>]
  /\ calls = 0
  /\ seen = <<>>

Queued(c) == \E i \in 1..Len(queue) : queue[i].caller = c

Ask(c, program) ==
  /\ ~Queued(c)
  /\ queue' = Append(queue, [caller |-> c, nr |-> calls + 1])
  /\ script' = [script EXCEPT ![c] = program]
  /\ calls' = calls + 1
  /\ UNCHANGED seen

(* Only the oldest call puts commands to the lock.                          *)
Put ==
  /\ queue # <<>>
  /\ LET c == Head(queue).caller
     IN  /\ script[c] # <<>>
         /\ seen' = Append(seen, [call |-> Head(queue).nr, cmd |-> Head(script[c])])
         /\ script' = [script EXCEPT ![c] = Tail(@)]
  /\ UNCHANGED <<queue, calls>>

(* A call leaves: finished or failed if it is the oldest, given up if not.  *)
Depart(c) ==
  /\ \E i \in 1..Len(queue) :
       /\ queue[i].caller = c
       /\ queue' = [j \in 1..(Len(queue) - 1) |->
                      IF j < i THEN queue[j] ELSE queue[j + 1]]
  /\ script' = [script EXCEPT ![c] = <<>>]
  /\ UNCHANGED <<calls, seen>>

Next ==
  \/ \E c \in Callers : Depart(c) \/ \E program \in Programs : Ask(c, program)
  \/ Put

Spec == Init /\ [][Next]_vars

(* The oldest call departs in the end.                                      *)
OldestDeparts == queue # <<>> /\ Depart(Head(queue).caller)

FairSpec == Spec /\ WF_vars(OldestDeparts)
=============================================================================
