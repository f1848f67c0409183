----------------------------- MODULE CliSessions -----------------------------
(***************************************************************************)
(* The commands of `ttlock` that talk to a lock, and the script             *)
(* dump_operation_log.py: each is a process that reads the key store, opens *)
(* a client with `async with`, calls one method of it, and exits.           *)
(*                                                                         *)
(* Processes run at the same time: they compete for the locks, each of      *)
(* which has one BLE link, while a `ttlock sync` may rewrite the key store  *)
(* under them and the user may press Ctrl-C.  CommandExchange and BleLink   *)
(* open up what is one request and one call of connect here, CloudSync      *)
(* what sync does before it writes.                                        *)
(***************************************************************************)
EXTENDS Integers, Sequences

CONSTANTS
  Processes,      \* processes of the user
  Runs,           \* for each of them, the invocations it may be
  Stores,         \* what a sync may write: sequences of keys
  MaxSyncs,       \* bound: syncs that rewrite the store
  MaxInterrupts   \* bound: times Ctrl-C is pressed

VARIABLES
  run,         \* the invocation each process is: a command and its arguments
  pc,          \* where each process is
  key,         \* the key each process uses
  done,        \* how many of the requests of each process its lock has carried out
  blank,       \* the processes whose method was told nothing, and goes on
  outcome,     \* how each process exits, or will when it has disconnected
  link,        \* the process whose link each lock holds
  store,       \* KEY_STORE
  syncs, interrupts

session == <<run, pc, key, done, blank, outcome>>
counts == <<syncs, interrupts>>
vars == <<session, link, store, counts>>

Nobody == "nobody"

Nothing == "nothing"

----------------------------------------------------------------------------
(* The commands: where an argument is checked, whether the user is asked,   *)
(* and the requests that the method sends, in order.                        *)
Command(checked, asks, requests) ==
  [checked |-> checked, asks |-> asks, requests |-> requests]

Simple(requests) == Command(Nothing, FALSE, requests)

(* _admin_handshake.                                                        *)
Admin == <<"CHECK_ADMIN", "CHECK_RANDOM">>

Control ==
  [name \in {"unlock", "lock"} |-> Simple(<<"CHECK_USER_TIME", name>>)]

State ==
  [name \in {"state", "battery"} |-> Simple(<<"QUERY_STATE">>)]

Sound ==
  [name \in {"sound", "volume", "get-sound"} |->
     Command(IF name = "get-sound" THEN Nothing ELSE "command", FALSE,
             Admin \o <<"SET_LOCK_SOUND">>)]

(* device-info reads GATT characteristics, and a failed read is a field     *)
(* that is missing.  There are six properties.                              *)
Device ==
  [name \in {"features", "device-info", "get-device-properties"} |->
     Simple(CASE name = "features" -> Admin \o <<"SEARCH_DEVICE_FEATURE">>
              [] name = "device-info" -> <<>>
              [] OTHER -> Admin \o [step \in 1..6 |-> "GET_DEVICE_PROPERTIES"])]

Passcodes ==
  [name \in {"add-passcode", "delete-passcode", "clear-passcodes", "get-passcodes"} |->
     Command(IF name \in {"add-passcode", "delete-passcode"} THEN "method" ELSE Nothing,
             name = "clear-passcodes",
             Admin \o <<IF name = "get-passcodes" THEN "GET_PASSCODES"
                        ELSE "MANAGE_KEYBOARD_PASSWORD">>)]

AutoLock ==
  [name \in {"get-auto-lock", "set-auto-lock", "get-auto-lock-limits"} |->
     Command(IF name = "set-auto-lock" THEN "method" ELSE Nothing, FALSE,
             Admin \o <<"AUTO_LOCK_MANAGE">>)]

Credentials ==
  [name \in {"get-fingerprints", "get-cards"} |->
     Simple(Admin \o <<IF name = "get-cards" THEN "MANAGE_IC_CARD" ELSE "MANAGE_FINGERPRINT">>)]

(* The script sends no handshake, and writes what it read into a file.      *)
Dump == [name \in {"dump_operation_log"} |-> Simple(<<"GET_OPERATE_LOG">>)]

Groups == <<Control, State, Sound, Device, Passcodes, AutoLock, Credentials, Dump>>

Commands ==
  [name \in UNION {DOMAIN Groups[g] : g \in DOMAIN Groups} |->
     Groups[CHOOSE g \in DOMAIN Groups : name \in DOMAIN Groups[g]][name]]

ASSUME SessionsAssumption ==
  /\ Nobody \notin Processes
  /\ \A p \in Processes : \A r \in Runs[p] : r.name \in DOMAIN Commands
  /\ \A keys \in Stores :
        DOMAIN keys \subseteq Nat /\ \A i \in DOMAIN keys : keys[i].lockId # Nothing
  /\ MaxSyncs \in Nat /\ MaxInterrupts \in Nat

(* The commands whose parser takes a refusal, or too few data, for a reply   *)
(* that tells nothing; every other one raises.                              *)
Lenient == DOMAIN State \cup DOMAIN Dump

command(p) == Commands[run[p].name]

IsAdmin(requests) == requests # <<>> /\ requests[1] = Admin[1]

----------------------------------------------------------------------------
Absent == [state |-> "absent"]

(* Between opening the file and writing it, and what a killed sync leaves.  *)
Empty == [state |-> "empty"]

Whole(keys) == [state |-> "whole", keys |-> keys]

NoKey == [lockId |-> Nothing]

Keys == UNION {{keys[i] : i \in DOMAIN keys} : keys \in Stores}

Locks == {k.lockId : k \in Keys}

PC == {"starting", "asking", "scanning", "subscribing", "running", "closing",
       "writing", "ended"}

(* A BadParameter or sys.exit with its message; an exception of the session; *)
(* a refused prompt; Ctrl-C; `raise typer.Exit(1)`; an exception of the     *)
(* disconnect, in place of any other.                                       *)
Outcomes == {"pending", "ok", "usage", "error", "aborted", "interrupted", "unknown",
             "unclosed"}

Init ==
  /\ run \in [Processes -> UNION {Runs[p] : p \in Processes}]
  /\ \A p \in Processes : run[p] \in Runs[p]
  /\ pc = [p \in Processes |-> "starting"]
  /\ key = [p \in Processes |-> NoKey]
  /\ done = [p \in Processes |-> 0]
  /\ blank = {}
  /\ outcome = [p \in Processes |-> "pending"]
  /\ link = [l \in Locks |-> Nobody]
  /\ store \in {Absent, Empty} \cup {Whole(keys) : keys \in Stores}
  /\ syncs = 0 /\ interrupts = 0

Goto(p, where) == pc' = [pc EXCEPT ![p] = where]

Exit(p, how) == Goto(p, "ended") /\ outcome' = [outcome EXCEPT ![p] = how]

(* __aexit__ is next; then the process exits this way.                      *)
Close(p, how) == Goto(p, "closing") /\ outcome' = [outcome EXCEPT ![p] = how]

lock(p) == key[p].lockId

Linked(p) == key[p] # NoKey /\ link[lock(p)] = p

----------------------------------------------------------------------------
(* Before the session.                                                     *)

Matches(k, target) == target \in {k.lockId, k.alias, k.mac}

(* _load_keys and _resolve_key: the first key that matches.  The script,     *)
(* given no target, takes the first key there is.                           *)
Matching(target) ==
  {i \in DOMAIN store.keys : target = Nothing \/ Matches(store.keys[i], target)}

Resolved(target) ==
  {store.keys[i] : i \in {i \in Matching(target) : \A j \in Matching(target) : i <= j}}

(* How the process exits without a key to use.                              *)
Refusal(target) ==
  CASE store = Absent -> "usage"
    [] store = Empty -> "error"
    [] OTHER -> IF Matching(target) # {} THEN Nothing
                ELSE IF target = Nothing THEN "error" ELSE "usage"

(* From the start to the prompt or the session: no await in between.        *)
Start(p) ==
  LET refusal == IF command(p).checked = "command" /\ ~run[p].valid
                 THEN "usage" ELSE Refusal(run[p].target)
  IN  /\ pc[p] = "starting"
      /\ \/ refusal # Nothing /\ Exit(p, refusal) /\ UNCHANGED key
         \/ /\ refusal = Nothing
            /\ \E k \in Resolved(run[p].target) : key' = [key EXCEPT ![p] = k]
            /\ Goto(p, IF command(p).asks /\ ~run[p].yes THEN "asking" ELSE "scanning")
            /\ UNCHANGED outcome
      /\ UNCHANGED <<run, done, blank, link, store, counts>>

(* typer.confirm(abort=True).                                               *)
Confirm(p) ==
  /\ pc[p] = "asking"
  /\ \/ Goto(p, "scanning") /\ UNCHANGED outcome
     \/ Exit(p, "aborted")
  /\ UNCHANGED <<run, key, done, blank, link, store, counts>>

----------------------------------------------------------------------------
(* __aenter__: connect.  What it raises is raised before the `async with`   *)
(* is entered, so that nothing disconnects.                                 *)

(* A lock holds one link, and is not found while it has it.                 *)
NotFound(p) ==
  /\ pc[p] = "scanning"
  /\ Exit(p, "error")
  /\ UNCHANGED <<run, key, done, blank, link, store, counts>>

Found(p) ==
  /\ pc[p] = "scanning"
  /\ link[lock(p)] = Nobody
  /\ link' = [link EXCEPT ![lock(p)] = p]
  /\ \/ Goto(p, "subscribing") /\ UNCHANGED outcome
     \/ Exit(p, "error")             \* _discover_chars raises
  /\ UNCHANGED <<run, key, done, blank, store, counts>>

Subscribed(p) ==
  /\ pc[p] = "subscribing"
  /\ Linked(p)
  /\ Goto(p, "running")
  /\ UNCHANGED <<run, key, done, blank, outcome, link, store, counts>>

(* Fault: a failed subscription is tried again.                             *)
SubscribeFailsAndRetries(p) ==
  /\ pc[p] = "subscribing"
  /\ Goto(p, "scanning")
  /\ UNCHANGED <<run, key, done, blank, outcome, link, store, counts>>

SubscribeFails(p) ==
  /\ pc[p] = "subscribing"
  /\ Exit(p, "error")
  /\ UNCHANGED <<run, key, done, blank, link, store, counts>>

----------------------------------------------------------------------------
(* The body of the `async with`: one method of the client.                  *)

(* The payload is built before the handshake, and a key without an admin    *)
(* password is refused by the handshake before its first request.           *)
RefusedByMethod(p) ==
  \/ command(p).checked = "method" /\ ~run[p].valid
  \/ IsAdmin(command(p).requests) /\ ~key[p].admin

Refuse(p) ==
  /\ pc[p] = "running"
  /\ RefusedByMethod(p)
  /\ Close(p, "error")
  /\ UNCHANGED <<run, key, done, blank, link, store, counts>>

AllDone(p) == done[p] = Len(command(p).requests)

Asks(p) ==
  pc[p] = "running" /\ ~RefusedByMethod(p) /\ ~AllDone(p) /\ p \notin blank

CarriedOut(p) == done' = [done EXCEPT ![p] = @ + 1]

Request(p) ==
  /\ Asks(p)
  /\ Linked(p)
  /\ CarriedOut(p)
  /\ \/ UNCHANGED blank
     \/ run[p].name \in Lenient /\ blank' = blank \cup {p}
  /\ UNCHANGED <<run, pc, key, outcome, link, store, counts>>

(* query_state returns (None, None) for a refused QUERY_STATE, and          *)
(* get_operation_log takes a refused page for the last.                     *)
RefusalTaken(p) ==
  /\ Asks(p)
  /\ Linked(p)
  /\ run[p].name \in Lenient
  /\ blank' = blank \cup {p}
  /\ UNCHANGED <<run, pc, key, done, outcome, link, store, counts>>

(* Fault: a failed request ends the process without a disconnect.           *)
RequestFailsUnreleased(p) ==
  /\ Asks(p)
  /\ \/ UNCHANGED done
     \/ Linked(p) /\ CarriedOut(p)
  /\ Exit(p, "error")
  /\ UNCHANGED <<run, key, blank, link, store, counts>>

(* The lock refuses another command, the request or the reply is lost, or   *)
(* the link is.                                                             *)
RequestFails(p) ==
  /\ Asks(p)
  /\ \/ UNCHANGED done
     \/ Linked(p) /\ CarriedOut(p)
  /\ Close(p, "error")
  /\ UNCHANGED <<run, key, blank, link, store, counts>>

(* Fault: the last reply is not waited for.                                 *)
FinishEarly(p) ==
  /\ pc[p] = "running"
  /\ ~RefusedByMethod(p)
  /\ done[p] + 1 >= Len(command(p).requests)
  /\ Close(p, IF run[p].name = "battery" /\ p \in blank THEN "unknown" ELSE "ok")
  /\ UNCHANGED <<run, key, done, blank, link, store, counts>>

(* The method returns; `battery` exits with 1 when it was told none, `state` *)
(* with 0, and the script writes what pages it has.                         *)
Finish(p) ==
  /\ pc[p] = "running"
  /\ ~RefusedByMethod(p)
  /\ AllDone(p) \/ p \in blank
  /\ Close(p, IF run[p].name = "battery" /\ p \in blank THEN "unknown" ELSE "ok")
  /\ UNCHANGED <<run, key, done, blank, link, store, counts>>

(* The process gives its link up, if it still has it.                       *)
Unlinks(p) == link' = IF Linked(p) THEN [link EXCEPT ![lock(p)] = Nobody] ELSE link

(* __aexit__: disconnect.                                                   *)
Disconnect(p) ==
  /\ pc[p] = "closing"
  /\ Unlinks(p)
  /\ IF run[p].name = "dump_operation_log" /\ outcome[p] = "ok"
     THEN Goto(p, "writing") /\ UNCHANGED outcome
     ELSE Exit(p, outcome[p])
  /\ UNCHANGED <<run, key, done, blank, store, counts>>

(* client.disconnect() raises, with the link up or not.                     *)
DisconnectRaises(p) ==
  /\ pc[p] = "closing"
  /\ UNCHANGED link \/ Unlinks(p)
  /\ Exit(p, "unclosed")
  /\ UNCHANGED <<run, key, done, blank, store, counts>>

(* The script writes its file, after the session.                           *)
WriteLog(p) ==
  /\ pc[p] = "writing"
  /\ Exit(p, "ok") \/ Exit(p, "error")
  /\ UNCHANGED <<run, key, done, blank, link, store, counts>>

----------------------------------------------------------------------------
(* The environment.                                                        *)

(* Ctrl-C: asyncio.run cancels the task.  In the body that runs __aexit__,   *)
(* in connect nothing, and in disconnect it may be done or not.  Outside of  *)
(* asyncio.run it ends the process.                                        *)
Interrupt(p) ==
  /\ pc[p] # "ended"
  /\ interrupts < MaxInterrupts
  /\ interrupts' = interrupts + 1
  /\ IF pc[p] = "running" THEN Close(p, "interrupted") ELSE Exit(p, "interrupted")
  /\ \/ UNCHANGED <<done, link>>
     \/ Asks(p) /\ Linked(p) /\ CarriedOut(p) /\ UNCHANGED link
     \/ pc[p] = "closing" /\ Unlinks(p) /\ UNCHANGED done
  /\ UNCHANGED <<run, key, blank, store, syncs>>

(* Out of range, or idled out by the lock.                                  *)
LinkDrops ==
  /\ \E l \in DOMAIN link : link[l] # Nobody /\ link' = [link EXCEPT ![l] = Nobody]
  /\ UNCHANGED <<session, store, counts>>

(* The end of a `ttlock sync` of another process.                           *)
SyncOpensStore ==
  /\ syncs < MaxSyncs
  /\ syncs' = syncs + 1
  /\ store' = Empty
  /\ UNCHANGED <<session, link, interrupts>>

SyncWritesStore ==
  /\ syncs > 0
  /\ store = Empty
  /\ \E keys \in Stores : store' = Whole(keys)
  /\ UNCHANGED <<session, link, counts>>

Step(p) ==
  \/ Start(p) \/ Confirm(p)
  \/ NotFound(p) \/ Found(p) \/ Subscribed(p) \/ SubscribeFails(p)
  \/ Refuse(p) \/ Request(p) \/ RefusalTaken(p) \/ RequestFails(p) \/ Finish(p)
  \/ Disconnect(p) \/ DisconnectRaises(p) \/ WriteLog(p)

Next ==
  \/ \E p \in Processes : Step(p) \/ Interrupt(p)
  \/ LinkDrops \/ SyncOpensStore \/ SyncWritesStore

Spec == Init /\ [][Next]_vars

(* The event loop runs, a scan and a request have their deadlines, and the   *)
(* user answers the prompt.                                                *)
FairSpec == Spec /\ \A p \in Processes : WF_vars(Step(p))

----------------------------------------------------------------------------
(* Properties.                                                             *)

TypeOK ==
  /\ DOMAIN run = Processes /\ \A p \in Processes : run[p] \in Runs[p]
  /\ pc \in [Processes -> PC]
  /\ key \in [Processes -> Keys \cup {NoKey}]
  /\ done \in [Processes -> Nat]
  /\ blank \subseteq Processes
  /\ outcome \in [Processes -> Outcomes]
  /\ link \in [Locks -> Processes \cup {Nobody}]
  /\ store \in {Absent, Empty} \cup {Whole(keys) : keys \in Stores}
  /\ syncs \in 0..MaxSyncs /\ interrupts \in 0..MaxInterrupts

(* What a process does to a lock while it exits.                            *)
Ends(p) == pc[p] # "ended" /\ pc'[p] = "ended"

(* No process leaves a lock linked: whatever is raised in the session, by a *)
(* refused argument, a refusing or silent lock or Ctrl-C, the lock is free  *)
(* for the next process when this one exits.  Excepted are a connect that   *)
(* fails or is interrupted with the link up, and a disconnect that raises   *)
(* itself or is hit by Ctrl-C (__aexit__ and the lack of a try in connect). *)
NoLinkIsLeftBehind ==
  [][\A p \in Processes :
       Ends(p) /\ (\E l \in DOMAIN link' : link'[l] = p) =>
         \/ pc[p] \in {"scanning", "subscribing"}
         \/ pc[p] = "closing" /\ outcome'[p] \in {"interrupted", "unclosed"}]_vars

(* What an exit tells: success that the lock has carried out every request  *)
(* of the command, for arguments that are valid and with the rights that it *)
(* takes, and that the lock goes by the name of the target; but `state` and *)
(* the script may succeed at a lock that told nothing, where `battery` ends *)
(* with a 1.  A usage error or a refused prompt tells that no lock was      *)
(* touched; an argument that will not do that nothing was sent.  Any other  *)
(* failure tells nothing: the lock may have done it all (the commands of    *)
(* cli.py).                                                                *)
ExitsTellTheTruth ==
  \A p \in Processes :
    pc[p] = "ended" =>
      /\ outcome[p] = "ok" =>
           \/ AllDone(p) /\ p \notin blank
           \/ p \in blank /\ run[p].name \in {"state", "dump_operation_log"}
      /\ outcome[p] = "unknown" => p \in blank /\ run[p].name = "battery"
      /\ outcome[p] \in {"ok", "unknown"} =>
           /\ command(p).checked # Nothing => run[p].valid
           /\ IsAdmin(command(p).requests) => key[p].admin
           /\ run[p].target # Nothing => Matches(key[p], run[p].target)
      /\ outcome[p] \in {"usage", "aborted"} => done[p] = 0 /\ ~Linked(p)
      /\ command(p).checked # Nothing /\ ~run[p].valid => done[p] = 0

(* Every process ends, whatever the others, the locks and the user do.      *)
ProcessesEnd == \A p \in Processes : <>(pc[p] = "ended")
=============================================================================
