------------------------------ MODULE BleLink ------------------------------
(***************************************************************************)
(* The BLE link of BleTransport: connect and disconnect, and the GATT      *)
(* writes and reads the commands make on it.                               *)
(*                                                                         *)
(* connect and disconnect take no lock.  One action is the code a task     *)
(* runs between two awaits, so other tasks act and the link drops while a  *)
(* task is suspended, and what the task reads next may have changed.  The  *)
(* bleak backend, the radio and the cancellers are the environment.        *)
(***************************************************************************)
EXTENDS Naturals

CONSTANTS
  Owners,       \* tasks that connect and disconnect the client
  Commanders,   \* tasks that run commands on it
  Cancellable,  \* the awaits at which a task may be cancelled
  CHUNKS,       \* ATT writes that carry one frame
  READS,        \* characteristics get_device_info reads
  MaxClients    \* bound: bleak clients established

ASSUME LinkAssumption ==
  /\ CHUNKS \in Nat \ {0}
  /\ READS \in Nat \ {0}
  /\ MaxClients \in Nat
  /\ Owners \cap Commanders = {}

VARIABLES
  client,     \* _client: the bleak client in use, 0 for None
  chars,      \* _write_char, _notify_char: the client they were read from
  device,     \* whether self.device is resolved
  state,      \* the life of each bleak client
  notifying,  \* the clients whose start_notify took effect
  raised,     \* history: the clients whose client.disconnect() has raised
  pc,         \* the await each task is suspended at
  op,         \* the call each task is in, or made last
  outcome,    \* how that call ended
  cl,         \* the client each task's await is on
  left        \* writes or reads each task has still to finish

linkVars == <<client, chars, device, state, notifying, raised, pc, op, outcome, cl, left>>

Tasks == Owners \cup Commanders

Clients == 1..MaxClients

(* stop_notify and client.disconnect, in disconnect.                        *)
Teardown == {"stopping", "releasing"}

(* The scan, establish_connection, start_notify, sleep and battery read.    *)
Setup == {"scanning", "establishing", "subscribing", "settling", "waking"}

(* write_gatt_char in send, read_gatt_char in read_optional_char: these run  *)
(* under the command lock.                                                  *)
Commanding == {"writing", "reading"}

Outcomes == {"none", "pending", "returned", "cancelled", "TTLockError",
             "BleakError", "AssertionError", "AttributeError"}

LinkTypeOK ==
  /\ client \in 0..MaxClients
  /\ chars \in 0..MaxClients
  /\ device \in BOOLEAN
  /\ state \in [Clients -> {"new", "up", "down", "released"}]
  /\ notifying \subseteq Clients
  /\ raised \subseteq Clients
  /\ pc \in [Tasks -> {"idle"} \cup Teardown \cup Setup \cup Commanding]
  /\ op \in [Tasks -> {"none", "connect", "disconnect", "send", "read"}]
  /\ outcome \in [Tasks -> Outcomes]
  /\ cl \in [Tasks -> 0..MaxClients]
  /\ left \in [Tasks -> Nat]

LinkInit ==
  /\ client = 0
  /\ chars = 0
  /\ device \in BOOLEAN
  /\ state = [c \in Clients |-> "new"]
  /\ notifying = {}
  /\ raised = {}
  /\ pc = [t \in Tasks |-> "idle"]
  /\ op = [t \in Tasks |-> "none"]
  /\ outcome = [t \in Tasks |-> "none"]
  /\ cl = [t \in Tasks |-> 0]
  /\ left = [t \in Tasks |-> 0]

IsConnected == client # 0 /\ state[client] = "up"

(* Task t is suspended at await w on client c, and the call goes on.        *)
Suspend(t, w, c) ==
  /\ pc' = [pc EXCEPT ![t] = w]
  /\ cl' = [cl EXCEPT ![t] = c]
  /\ outcome' = [outcome EXCEPT ![t] = "pending"]

(* The call of task t ends.                                                 *)
EndCall(t, how) ==
  /\ pc' = [pc EXCEPT ![t] = "idle"]
  /\ cl' = [cl EXCEPT ![t] = 0]
  /\ outcome' = [outcome EXCEPT ![t] = how]

Enter(t, call, n) ==
  /\ pc[t] = "idle"
  /\ op' = [op EXCEPT ![t] = call]
  /\ left' = [left EXCEPT ![t] = n]

Released(c) ==
  /\ state' = [state EXCEPT ![c] = "released"]
  /\ notifying' = notifying \ {c}

----------------------------------------------------------------------------
(* connect and disconnect.                                                 *)

(* disconnect is over or had nothing to do: the scan is skipped when the    *)
(* device is known.                                                         *)
Resolve(t) == Suspend(t, IF device THEN "establishing" ELSE "scanning", 0)

(* Fault: connect does not release the client of a dropped link.            *)
ConnectKeepingDropped(t) ==
  /\ Enter(t, "connect", 0)
  /\ IF IsConnected THEN EndCall(t, "returned") ELSE Resolve(t)
  /\ UNCHANGED <<client, chars, device, state, notifying, raised>>

Connect(t) ==
  /\ Enter(t, "connect", 0)
  /\ CASE IsConnected                  -> EndCall(t, "returned")
       [] ~IsConnected /\ client = 0   -> Resolve(t)
       [] ~IsConnected /\ client # 0   -> Suspend(t, "releasing", client)
  /\ UNCHANGED <<client, chars, device, state, notifying, raised>>

(* Fault: a client whose link has dropped is forgotten, not released.       *)
DisconnectForgettingDropped(t) ==
  /\ Enter(t, "disconnect", 0)
  /\ IF IsConnected
     THEN Suspend(t, IF chars # 0 THEN "stopping" ELSE "releasing", client)
          /\ UNCHANGED client
     ELSE EndCall(t, "returned") /\ client' = 0
  /\ UNCHANGED <<chars, device, state, notifying, raised>>

(* _notify_char may be one of an earlier client.                            *)
Disconnect(t) ==
  /\ Enter(t, "disconnect", 0)
  /\ CASE client = 0               -> EndCall(t, "returned")
       [] IsConnected /\ chars # 0 -> Suspend(t, "stopping", client)
       [] OTHER                    -> client # 0 /\ Suspend(t, "releasing", client)
  /\ UNCHANGED <<client, chars, device, state, notifying, raised>>

(* Fault: the client is forgotten once its notifications are stopped.       *)
StopNotifyEndsUnreleased(t) ==
  /\ pc[t] = "stopping"
  /\ notifying' \in {notifying, notifying \ {cl[t]}}
  /\ client' = 0
  /\ EndCall(t, "returned")
  /\ UNCHANGED <<chars, device, state, raised, op, left>>

(* stop_notify ends, failures swallowed; _client is read again.             *)
StopNotifyEnds(t) ==
  /\ pc[t] = "stopping"
  /\ notifying' \in {notifying, notifying \ {cl[t]}}
  /\ IF client = 0
     THEN EndCall(t, "AttributeError")
     ELSE Suspend(t, "releasing", client)
  /\ UNCHANGED <<client, chars, device, state, raised, op, left>>

(* client.disconnect() returns.  `finally` clears _client, whichever client  *)
(* it holds by now, and connect goes on.                                    *)
ReleaseEnds(t) ==
  /\ pc[t] = "releasing"
  /\ Released(cl[t])
  /\ client' = 0
  /\ \/ op[t] = "disconnect" /\ EndCall(t, "returned")
     \/ op[t] = "connect" /\ Resolve(t)
  /\ UNCHANGED <<chars, device, raised, op, left>>

(* client.disconnect() raises: `finally` clears _client all the same, and   *)
(* the exception goes to the caller.  The client may be released or not, or *)
(* have only its notify session closed.                                     *)
ReleaseRaises(t) ==
  /\ pc[t] = "releasing"
  /\ raised' = raised \cup {cl[t]}
  /\ client' = 0
  /\ EndCall(t, "BleakError")
  /\ \/ Released(cl[t])
     \/ notifying' \in {notifying, notifying \ {cl[t]}} /\ UNCHANGED state
  /\ UNCHANGED <<chars, device, op, left>>

(* find_lock_device returns the device, or None at its deadline.            *)
ScanEnds(t) ==
  /\ pc[t] = "scanning"
  /\ \/ device' = TRUE /\ Suspend(t, "establishing", 0)
     \/ device' = FALSE /\ EndCall(t, "TTLockError")
  /\ UNCHANGED <<client, chars, state, notifying, raised, op, left>>

(* establish_connection returns a client, and _discover_chars finds the     *)
(* characteristics in its services or raises, the client staying in place.  *)
Established(t, c) ==
  /\ pc[t] = "establishing"
  /\ state[c] = "new"
  /\ \A d \in Clients : d < c => state[d] # "new"
  /\ client' = c
  /\ state' = [state EXCEPT ![c] = "up"]
  /\ \/ chars' = c /\ Suspend(t, "subscribing", c)
     \/ UNCHANGED chars /\ EndCall(t, "TTLockError")
  /\ UNCHANGED <<device, notifying, raised, op, left>>

EstablishFails(t) ==
  /\ pc[t] = "establishing"
  /\ EndCall(t, "TTLockError")
  /\ UNCHANGED <<client, chars, device, state, notifying, raised, op, left>>

(* start_notify returns.                                                    *)
Subscribed(t) ==
  /\ pc[t] = "subscribing"
  /\ state[cl[t]] = "up"
  /\ notifying' = notifying \cup {cl[t]}
  /\ Suspend(t, "settling", cl[t])
  /\ UNCHANGED <<client, chars, device, state, raised, op, left>>

(* Fault: a failed start_notify is logged and connect goes on.              *)
SubscribeFailureIgnored(t) ==
  /\ pc[t] = "subscribing"
  /\ Suspend(t, "settling", cl[t])
  /\ UNCHANGED <<client, chars, device, state, notifying, raised, op, left>>

(* start_notify raises; nothing catches it.                                 *)
SubscribeFails(t) ==
  /\ pc[t] = "subscribing"
  /\ EndCall(t, "BleakError")
  /\ UNCHANGED <<client, chars, device, state, notifying, raised, op, left>>

(* The sleep is over; _wake_battery_read asserts that there is a client.    *)
Settled(t) ==
  /\ pc[t] = "settling"
  /\ IF client = 0
     THEN EndCall(t, "AssertionError")
     ELSE Suspend(t, "waking", client)
  /\ UNCHANGED <<client, chars, device, state, notifying, raised, op, left>>

(* The battery read ends, failures swallowed.                               *)
WakeEnds(t) ==
  /\ pc[t] = "waking"
  /\ EndCall(t, "returned")
  /\ UNCHANGED <<client, chars, device, state, notifying, raised, op, left>>

----------------------------------------------------------------------------
(* Commands.                                                               *)

(* The command lock is free.                                                *)
Unlocked == \A t \in Tasks : pc[t] \notin Commanding

Send(t) ==
  /\ Unlocked
  /\ Enter(t, "send", CHUNKS)
  /\ IF client = 0 \/ chars = 0
     THEN EndCall(t, "AssertionError")
     ELSE Suspend(t, "writing", client)
  /\ UNCHANGED <<client, chars, device, state, notifying, raised>>

(* A write returns.  The next one reads _client again.                      *)
WriteReturns(t) ==
  /\ pc[t] = "writing"
  /\ state[cl[t]] = "up"
  /\ left' = [left EXCEPT ![t] = @ - 1]
  /\ CASE left[t] = 1                -> EndCall(t, "returned")
       [] left[t] > 1 /\ client = 0  -> EndCall(t, "AttributeError")
       [] left[t] > 1 /\ client # 0  -> Suspend(t, "writing", client)
  /\ UNCHANGED <<client, chars, device, state, notifying, raised, op>>

WriteFails(t) ==
  /\ pc[t] = "writing"
  /\ EndCall(t, "TTLockError")
  /\ UNCHANGED <<client, chars, device, state, notifying, raised, op, left>>

(* get_device_info reads its characteristics one by one.                    *)
ReadChars(t) ==
  /\ Unlocked
  /\ Enter(t, "read", READS)
  /\ IF client = 0
     THEN EndCall(t, "AssertionError")
     ELSE Suspend(t, "reading", client)
  /\ UNCHANGED <<client, chars, device, state, notifying, raised>>

(* A read ends, failures swallowed; the next one asserts a client again.    *)
ReadEnds(t) ==
  /\ pc[t] = "reading"
  /\ left' = [left EXCEPT ![t] = @ - 1]
  /\ CASE left[t] = 1                -> EndCall(t, "returned")
       [] left[t] > 1 /\ client = 0  -> EndCall(t, "AssertionError")
       [] left[t] > 1 /\ client # 0  -> Suspend(t, "reading", client)
  /\ UNCHANGED <<client, chars, device, state, notifying, raised, op>>

----------------------------------------------------------------------------
(* The environment.                                                        *)

(* CancelledError at the await: `finally` of disconnect clears _client.     *)
(* What was being asked of the backend may have been done.                  *)
Cancel(t) ==
  /\ pc[t] \in Cancellable
  /\ EndCall(t, "cancelled")
  /\ client' = IF pc[t] \in Teardown THEN 0 ELSE client
  /\ \/ pc[t] = "stopping" /\ notifying' = notifying \ {cl[t]} /\ UNCHANGED state
     \/ pc[t] = "releasing" /\ Released(cl[t])
     \/ /\ pc[t] = "subscribing"
        /\ notifying' = notifying \cup {cl[t]}
        /\ UNCHANGED state
     \/ UNCHANGED <<state, notifying>>
  /\ UNCHANGED <<chars, device, raised, op, left>>

ClientDrops(c) ==
  /\ state[c] = "up"
  /\ state' = [state EXCEPT ![c] = "down"]
  /\ UNCHANGED <<client, chars, device, notifying, raised, pc, op, outcome, cl, left>>

ConnectSteps(t) ==
  \/ Connect(t)
  \/ ScanEnds(t)
  \/ \E c \in Clients : Established(t, c)
  \/ EstablishFails(t)
  \/ Subscribed(t)
  \/ SubscribeFails(t)
  \/ Settled(t)
  \/ WakeEnds(t)

DisconnectSteps(t) ==
  \/ Disconnect(t)
  \/ StopNotifyEnds(t)
  \/ ReleaseEnds(t)
  \/ ReleaseRaises(t)

CommandSteps(t) ==
  \/ Send(t)
  \/ WriteReturns(t)
  \/ WriteFails(t)
  \/ ReadChars(t)
  \/ ReadEnds(t)

LinkNext ==
  \/ \E t \in Owners : ConnectSteps(t) \/ DisconnectSteps(t)
  \/ \E t \in Commanders : CommandSteps(t)
  \/ \E t \in Tasks : Cancel(t)
  \/ \E c \in Clients : ClientDrops(c)

LinkSpec == LinkInit /\ [][LinkNext]_linkVars

----------------------------------------------------------------------------
(* Properties.                                                             *)

Open == {c \in Clients : state[c] \in {"up", "down"}}

(* A client that is not in use any more has been released, but for those    *)
(* whose own client.disconnect() raised, which `finally` forgets: with one  *)
(* owner, and a disconnect that is let finish, neither a dropped link nor a *)
(* failed or cancelled connect leaves one behind, then or after a release   *)
(* of an earlier client has raised.                                         *)
OnlyTheClientInUseIsOpen == Open \subseteq {client} \cup raised

(* Every chunk the lock notifies reaches _on_notify once: beside _client's  *)
(* no notify session exists, dropped links included, but those of clients   *)
(* whose client.disconnect() raised.                                        *)
OneNotifySession == notifying \subseteq {client} \cup raised

(* The chunks of a frame are written on one connection, whatever connects   *)
(* and disconnects while a write is pending.  Only if the release of that   *)
(* connection raised, and left it up, can the next chunk go out on another. *)
FrameStaysOnItsLink ==
  [][\A t \in Tasks :
       pc[t] = "writing" /\ pc'[t] = "writing" =>
         cl'[t] = cl[t] \/ cl[t] \in raised]_linkVars

(* A connect that went all the way returns with a client that notifies and  *)
(* whose characteristics are the ones held: a half-open link can only be    *)
(* left over from a connect that raised or was cancelled.                   *)
EstablishedMeansSubscribed ==
  [][\A t \in Tasks :
       pc[t] = "waking" /\ outcome'[t] = "returned" /\ pc'[t] = "idle" =>
         client \in notifying /\ chars = client]_linkVars

(* connect: "Resolve the BLE device (if not supplied), GATT-connect, start  *)
(* notify": when it returns to a live link, that link notifies.             *)
ConnectStartsNotify ==
  \A t \in Owners :
    op[t] = "connect" /\ outcome[t] = "returned" /\ IsConnected =>
      client \in notifying
=============================================================================
