------------------------- MODULE CliSessionsProofs -------------------------
(* Proofs about CliSessions, for any processes, invocations and key stores. *)
EXTENDS CliSessions, TLAPS

(* No lock is linked to the process.                                       *)
Unlinked(p) == \A l \in Locks : link[l] # p

(* The process can prove who it is to the lock it resolved.                 *)
Resolves(p) ==
  /\ key[p] \in Keys
  /\ run[p].target # Nothing => Matches(key[p], run[p].target)
  /\ command(p).checked = "command" => run[p].valid

Unstarted == {"starting", "asking", "scanning", "subscribing"}

(* What a process has done, holds and will tell, step by step.              *)
Honest(p) ==
  /\ pc[p] \in Unstarted => done[p] = 0 /\ outcome[p] = "pending"
  /\ p \in blank => run[p].name \in {"state", "battery", "dump_operation_log"}
  /\ pc[p] = "running" => outcome[p] = "pending"
  /\ pc[p] = "writing" => outcome[p] = "ok"
  /\ pc[p] \in {"starting", "asking", "scanning", "writing"} => Unlinked(p)
  /\ \A l \in Locks : link[l] = p => key[p] # NoKey /\ l = lock(p)
  /\ pc[p] \in PC \ {"starting", "ended"} => Resolves(p)
  /\ outcome[p] \in {"ok", "unknown"} =>
       /\ pc[p] \in {"closing", "writing", "ended"}
       /\ Resolves(p)
       /\ command(p).checked # Nothing => run[p].valid
       /\ IsAdmin(command(p).requests) => key[p].admin
  /\ outcome[p] = "ok" =>
       \/ AllDone(p) /\ p \notin blank
       \/ p \in blank /\ run[p].name # "battery"
  /\ outcome[p] = "unknown" => p \in blank /\ run[p].name = "battery"
  /\ outcome[p] \in {"usage", "aborted"} => pc[p] = "ended" /\ done[p] = 0 /\ Unlinked(p)
  /\ command(p).checked # Nothing /\ ~run[p].valid => done[p] = 0

IInv == TypeOK /\ \A p \in Processes : Honest(p)

----------------------------------------------------------------------------
Checked(t) == \A name \in DOMAIN t : t[name].checked \in {Nothing, "command", "method"}

LEMMA CheckedSomewhere == Checked(Commands)
<1>10. Checked(Control)
  BY DEF Checked, Control, Simple, Command
<1>11. Checked(State)
  BY DEF Checked, State, Simple, Command
<1>12. Checked(Sound)
  BY DEF Checked, Sound, Simple, Command
<1>13. Checked(Device)
  BY DEF Checked, Device, Simple, Command
<1>14. Checked(Passcodes)
  BY DEF Checked, Passcodes, Simple, Command
<1>15. Checked(AutoLock)
  BY DEF Checked, AutoLock, Simple, Command
<1>16. Checked(Credentials)
  BY DEF Checked, Credentials, Simple, Command
<1>17. Checked(Dump)
  BY DEF Checked, Dump, Simple, Command
<1>1. \A g \in DOMAIN Groups : Checked(Groups[g])
  BY <1>10, <1>11, <1>12, <1>13, <1>14, <1>15, <1>16, <1>17 DEF Groups
<1>2. ASSUME NEW name \in DOMAIN Commands
      PROVE  Commands[name].checked \in {Nothing, "command", "method"}
  <2> DEFINE group == CHOOSE g \in DOMAIN Groups : name \in DOMAIN Groups[g]
  <2>1. \E g \in DOMAIN Groups : name \in DOMAIN Groups[g]
    BY Zenon DEF Commands
  <2>2. group \in DOMAIN Groups /\ name \in DOMAIN Groups[group]
    BY <2>1, Zenon
  <2>3. Commands[name] = Groups[group][name]
    BY Zenon DEF Commands
  <2> QED
    BY <1>1, <2>2, <2>3, Zenon DEF Checked
<1> QED
  BY <1>2 DEF Checked

LEMMA LenientNames == Lenient = {"state", "battery", "dump_operation_log"}
  BY DEF Lenient, State, Dump

LEMMA KeysAreNotNoKey == \A k \in Keys : k # NoKey
  BY SessionsAssumption DEF Keys, NoKey

(* A step of one process, and of the lock, leaves the others honest.        *)
LEMMA OthersStay ==
  ASSUME IInv, NEW q \in Processes,
         run'[q] = run[q], pc'[q] = pc[q], key'[q] = key[q], done'[q] = done[q],
         q \in blank' <=> q \in blank, outcome'[q] = outcome[q],
         \A l \in Locks : link'[l] = q => link[l] = q
  PROVE  Honest(q)'
<1>1. Honest(q) /\ command(q)' = command(q) /\ lock(q)' = lock(q)
  BY DEF IInv, command, lock
<1>2. (Resolves(q) => Resolves(q)') /\ (AllDone(q) => AllDone(q)') /\ (Unlinked(q) => Unlinked(q)')
  BY <1>1 DEF Resolves, AllDone, Unlinked
<1> QED
  BY <1>1, <1>2 DEF Honest

(* What _resolve_key returns is a key of the store that matches.            *)
LEMMA ResolvedKey ==
  ASSUME IInv, NEW target, Refusal(target) = Nothing, NEW k \in Resolved(target)
  PROVE  k \in Keys /\ (target # Nothing => Matches(k, target))
<1>1. store # Absent /\ store # Empty
  BY DEF Refusal, Nothing
<1>2. store.keys \in Stores
  BY <1>1 DEF IInv, TypeOK, Whole
<1>3. PICK i \in Matching(target) : k = store.keys[i]
  BY DEF Resolved
<1> QED
  BY <1>2, <1>3 DEF Matching, Keys

----------------------------------------------------------------------------
(* One step of each kind.                                                  *)

LEMMA InitIInv == Init => IInv
<1> SUFFICES ASSUME Init PROVE IInv
  OBVIOUS
<1>1. TypeOK
  BY SessionsAssumption DEF Init, TypeOK, PC, Outcomes
<1>2. ASSUME NEW p \in Processes PROVE Honest(p)
  BY SessionsAssumption DEF Init, Honest, Unlinked, Unstarted, PC, NoKey
<1> QED
  BY <1>1, <1>2 DEF IInv

(* What the steps of a process have in common: the process and one lock move.  *)
Moved(p) ==
  /\ UNCHANGED <<run, store, syncs>>
  /\ pc' \in [Processes -> PC] /\ outcome' \in [Processes -> Outcomes]
  /\ key' \in [Processes -> Keys \cup {NoKey}] /\ done' \in [Processes -> Nat]
  /\ blank' \subseteq Processes
  /\ link' \in [Locks -> Processes \cup {Nobody}]
  /\ interrupts' \in 0..MaxInterrupts
  /\ \A q \in Processes \ {p} :
       /\ pc'[q] = pc[q] /\ outcome'[q] = outcome[q]
       /\ key'[q] = key[q] /\ done'[q] = done[q]
       /\ q \in blank' <=> q \in blank
       /\ \A l \in Locks : link'[l] = q => link[l] = q

LEMMA LockOfKey == ASSUME IInv, NEW p \in Processes, key[p] # NoKey PROVE lock(p) \in Locks
  BY DEF IInv, TypeOK, lock, Locks

LEMMA ScansForAKey ==
  ASSUME IInv, NEW p \in Processes, pc[p] = "scanning" PROVE key[p] # NoKey
  BY KeysAreNotNoKey DEF IInv, Honest, Resolves, PC

LEMMA EveryStepMoves ==
  ASSUME IInv, NEW p \in Processes, Step(p) \/ Interrupt(p)
  PROVE  Moved(p)
<1>0. /\ pc \in [Processes -> PC] /\ outcome \in [Processes -> Outcomes]
      /\ key \in [Processes -> Keys \cup {NoKey}] /\ done \in [Processes -> Nat]
      /\ blank \subseteq Processes
      /\ link \in [Locks -> Processes \cup {Nobody}]
      /\ interrupts \in 0..MaxInterrupts /\ MaxInterrupts \in Nat
      /\ Nobody \notin Processes
  BY SessionsAssumption DEF IInv, TypeOK
<1> USE DEF Goto, Exit, Close, PC, Outcomes, Moved, counts
<1>1. CASE Start(p)
  BY <1>0, <1>1, ResolvedKey DEF Start, Refusal, Nothing
<1>2. CASE Confirm(p)
  BY <1>0, <1>2 DEF Confirm
<1>3. CASE NotFound(p)
  BY <1>0, <1>3 DEF NotFound
<1>4. CASE Found(p)
  BY <1>0, <1>4, LockOfKey, ScansForAKey DEF Found
<1>5. CASE Subscribed(p)
  BY <1>0, <1>5 DEF Subscribed
<1>6. CASE SubscribeFails(p)
  BY <1>0, <1>6 DEF SubscribeFails
<1>7. CASE Refuse(p)
  BY <1>0, <1>7 DEF Refuse
<1>8. CASE Request(p)
  BY <1>0, <1>8 DEF Request, CarriedOut
<1>14. CASE RefusalTaken(p)
  BY <1>0, <1>14 DEF RefusalTaken
<1>9. CASE RequestFails(p)
  BY <1>0, <1>9 DEF RequestFails, CarriedOut
<1>10. CASE Finish(p)
  BY <1>0, <1>10 DEF Finish
<1>11. CASE Disconnect(p)
  BY <1>0, <1>11, LockOfKey DEF Disconnect, Unlinks, Linked
<1>15. CASE DisconnectRaises(p)
  BY <1>0, <1>15, LockOfKey DEF DisconnectRaises, Unlinks, Linked
<1>12. CASE WriteLog(p)
  BY <1>0, <1>12 DEF WriteLog
<1>13. CASE Interrupt(p)
  BY <1>0, <1>13, LockOfKey DEF Interrupt, Unlinks, Linked, CarriedOut
<1> QED
  BY <1>1, <1>2, <1>3, <1>4, <1>5, <1>6, <1>7, <1>8, <1>9, <1>10, <1>11, <1>12, <1>13, <1>14,
     <1>15
  DEF Step

LEMMA TypeStep ==
  ASSUME IInv, NEW p \in Processes, Moved(p)
  PROVE  TypeOK'
  BY DEF IInv, TypeOK, Moved

LEMMA OthersAreHonest ==
  ASSUME IInv, NEW p \in Processes, Moved(p), NEW q \in Processes, q # p
  PROVE  Honest(q)'
  BY OthersStay DEF Moved

LEMMA CheckedAt ==
  ASSUME IInv, NEW p \in Processes
  PROVE  command(p).checked \in {Nothing, "command", "method"}
  BY SessionsAssumption, CheckedSomewhere DEF IInv, TypeOK, Checked, command

(* A request is only sent for arguments that will do.                       *)
LEMMA AsksInEarnest ==
  ASSUME IInv, NEW p \in Processes, pc[p] = "running", ~RefusedByMethod(p)
  PROVE  /\ command(p).checked # Nothing => run[p].valid
         /\ IsAdmin(command(p).requests) => key[p].admin
         /\ Resolves(p)
<1>1. Resolves(p)
  BY DEF IInv, Honest, PC
<1> QED
  BY <1>1, CheckedAt DEF RefusedByMethod, Resolves

LEMMA HonestStep ==
  ASSUME IInv, NEW p \in Processes, Step(p) \/ Interrupt(p)
  PROVE  Honest(p)'
<1>0. TypeOK /\ Honest(p)
  BY DEF IInv
<1> USE DEF TypeOK, Honest, Goto, Exit, Close, PC, Outcomes, Unlinked, Unstarted, Resolves,
            AllDone, command, lock
<1>1. CASE Start(p)
  <2>1. /\ run' = run /\ link' = link /\ blank' = blank /\ done'[p] = 0 /\ Unlinked(p)
        /\ outcome[p] = "pending" /\ pc[p] = "starting"
    BY <1>0, <1>1 DEF Start
  <2>2. CASE command(p).checked = "command" /\ ~run[p].valid
    <3>1. pc'[p] = "ended" /\ outcome'[p] = "usage"
      BY <1>0, <1>1, <2>2 DEF Start, Nothing
    <3>2. key' = key
      BY <1>1, <2>2 DEF Start, Nothing
    <3> QED
      BY <1>0, <2>1, <3>1, <3>2
  <2>3. CASE ~(command(p).checked = "command" /\ ~run[p].valid)
             /\ Refusal(run[p].target) # Nothing
    <3>1. pc'[p] = "ended" /\ outcome'[p] \in {"usage", "error"}
      BY <1>0, <1>1, <2>3 DEF Start, Refusal
    <3>2. key' = key
      BY <1>1, <2>3 DEF Start
    <3> QED
      BY <1>0, <2>1, <3>1, <3>2
  <2>4. CASE ~(command(p).checked = "command" /\ ~run[p].valid)
             /\ Refusal(run[p].target) = Nothing
    <3>1. /\ pc'[p] \in {"asking", "scanning"} /\ outcome' = outcome
          /\ key'[p] \in Resolved(run[p].target)
      BY <1>0, <1>1, <2>4 DEF Start
    <3>2. Resolves(p)'
      BY <2>1, <2>4, <3>1, ResolvedKey
    <3> QED
      BY <1>0, <2>1, <3>1, <3>2
  <2> QED
    BY <2>2, <2>3, <2>4
<1>2. CASE Confirm(p)
  BY <1>0, <1>2, SessionsAssumption DEF Confirm
<1>3. CASE NotFound(p)
  BY <1>0, <1>3, SessionsAssumption DEF NotFound
<1>4. CASE Found(p)
  BY <1>0, <1>4, ScansForAKey, LockOfKey, SessionsAssumption DEF Found
<1>5. CASE Subscribed(p)
  BY <1>0, <1>5, SessionsAssumption DEF Subscribed
<1>6. CASE SubscribeFails(p)
  BY <1>0, <1>6, SessionsAssumption DEF SubscribeFails
<1>7. CASE Refuse(p)
  BY <1>0, <1>7, SessionsAssumption DEF Refuse
<1>8. CASE Request(p)
  BY <1>0, <1>8, AsksInEarnest, LenientNames DEF Request, CarriedOut, Asks
<1>14. CASE RefusalTaken(p)
  BY <1>0, <1>14, AsksInEarnest, LenientNames DEF RefusalTaken, Asks
<1>9. CASE RequestFails(p)
  BY <1>0, <1>9, AsksInEarnest DEF RequestFails, CarriedOut, Asks
<1>10. CASE Finish(p)
  BY <1>0, <1>10, AsksInEarnest DEF Finish
<1>11. CASE Disconnect(p)
  BY <1>0, <1>11, SessionsAssumption DEF Disconnect, Unlinks, Linked
<1>15. CASE DisconnectRaises(p)
  BY <1>0, <1>15, SessionsAssumption DEF DisconnectRaises, Unlinks, Linked
<1>12. CASE WriteLog(p)
  BY <1>0, <1>12, SessionsAssumption DEF WriteLog
<1>13. CASE Interrupt(p)
  BY <1>0, <1>13, AsksInEarnest, SessionsAssumption DEF Interrupt, CarriedOut, Asks, Unlinks, Linked
<1> QED
  BY <1>1, <1>2, <1>3, <1>4, <1>5, <1>6, <1>7, <1>8, <1>9, <1>10, <1>11, <1>12, <1>13, <1>14,
     <1>15
  DEF Step

LEMMA NextIInv == IInv /\ [Next]_vars => IInv'
<1> SUFFICES ASSUME IInv, [Next]_vars PROVE IInv'
  OBVIOUS
<1>1. ASSUME NEW p \in Processes, Step(p) \/ Interrupt(p) PROVE IInv'
  <2>1. Moved(p)
    BY <1>1, EveryStepMoves
  <2>2. TypeOK'
    BY <2>1, TypeStep
  <2>3. Honest(p)'
    BY <1>1, HonestStep
  <2>4. \A q \in Processes : q # p => Honest(q)'
    BY <2>1, OthersAreHonest
  <2> QED
    BY <2>2, <2>3, <2>4 DEF IInv
<1>2. ASSUME UNCHANGED session, TypeOK',
             \A q \in Processes : \A l \in Locks : link'[l] = q => link[l] = q
      PROVE  IInv'
  BY <1>2, OthersStay DEF IInv, session
<1>3. CASE LinkDrops
  <2>1. \A q \in Processes : \A l \in Locks : link'[l] = q => link[l] = q
    BY <1>3, SessionsAssumption DEF IInv, TypeOK, LinkDrops
  <2>2. TypeOK'
    BY <1>3 DEF IInv, TypeOK, LinkDrops, session, counts
  <2> QED
    BY <1>2, <1>3, <2>1, <2>2 DEF LinkDrops
<1>4. CASE SyncOpensStore
  <2>1. TypeOK'
    BY <1>4, SessionsAssumption DEF IInv, TypeOK, SyncOpensStore, session
  <2> QED
    BY <1>2, <1>4, <2>1 DEF SyncOpensStore
<1>5. CASE SyncWritesStore
  <2>1. TypeOK'
    BY <1>5 DEF IInv, TypeOK, SyncWritesStore, session, counts
  <2> QED
    BY <1>2, <1>5, <2>1 DEF SyncWritesStore
<1>6. CASE UNCHANGED vars
  <2>1. TypeOK'
    BY <1>6 DEF IInv, TypeOK, vars, session, counts
  <2> QED
    BY <1>2, <1>6, <2>1 DEF vars
<1> QED
  BY <1>1, <1>3, <1>4, <1>5, <1>6 DEF Next

LEMMA AlwaysIInv == Spec => []IInv
  BY InitIInv, NextIInv, PTL DEF Spec

----------------------------------------------------------------------------
(* The theorems.                                                           *)

(* Types: every process is at a step of its command, with a key of the      *)
(* store, and every lock has at most one link.                             *)
THEOREM TypeCorrect == Spec => []TypeOK
<1>1. IInv => TypeOK
  BY DEF IInv
<1> QED
  BY <1>1, AlwaysIInv, PTL

(* The exit of a process, its message and its code, say what has become of  *)
(* the lock, whatever other processes, the locks and the user do meanwhile  *)
(* (the commands of cli.py and dump_operation_log.py).                      *)
THEOREM ExitsAreTrue == Spec => []ExitsTellTheTruth
<1>1. IInv => ExitsTellTheTruth
  <2> SUFFICES ASSUME IInv, NEW p \in Processes, pc[p] = "ended"
               PROVE  ExitsTellTheTruth!(p)!2
    BY DEF ExitsTellTheTruth
  <2>1. TypeOK /\ Honest(p)
    BY DEF IInv
  <2>2. outcome[p] \in {"usage", "aborted"} => ~Linked(p)
    BY <2>1, LockOfKey DEF Honest, Unlinked, Linked
  <2> QED
    BY <2>1, <2>2 DEF Honest, Resolves
<1> QED
  BY <1>1, AlwaysIInv, PTL

(* A process that exits leaves no lock linked, but for a connect that fails *)
(* or is interrupted, and a disconnect that raises or is interrupted        *)
(* (BleTransport.connect and __aexit__).                                   *)
THEOREM LinksAreReleased == Spec => NoLinkIsLeftBehind
<1> DEFINE Released(p) ==
      Ends(p) /\ (\E l \in DOMAIN link' : link'[l] = p) =>
        \/ pc[p] \in {"scanning", "subscribing"}
        \/ pc[p] = "closing" /\ outcome'[p] \in {"interrupted", "unclosed"}
<1>1. ASSUME IInv, NEW p \in Processes, Step(p) \/ Interrupt(p), Ends(p)
      PROVE  Released(p)
  <2>1. TypeOK /\ Honest(p) /\ DOMAIN link = Locks
    BY <1>1 DEF IInv, TypeOK
  <2> USE DEF Ends, Goto, Exit, Close
  <2>2. CASE pc[p] \in {"starting", "asking", "writing"}
    <3>1. link' = link
      BY <1>1, <2>1, <2>2 DEF Step, Start, Confirm, NotFound, Found, Subscribed, SubscribeFails,
             Refuse, Request, RefusalTaken, RequestFails, Finish, Disconnect, DisconnectRaises,
             WriteLog, Interrupt, Asks
    <3> QED
      BY <2>1, <2>2, <3>1 DEF Honest, Unlinked
  <2>3. CASE pc[p] = "running"
    BY <1>1, <2>1, <2>3 DEF TypeOK, Step, Start, Confirm, NotFound, Found, Subscribed,
           SubscribeFails, Refuse, Request, RefusalTaken, RequestFails, Finish, Disconnect,
           DisconnectRaises, WriteLog, Interrupt
  <2>4. CASE pc[p] = "closing"
    <3>1. CASE Interrupt(p)
      BY <2>1, <2>4, <3>1 DEF TypeOK, Interrupt
    <3>2. CASE Disconnect(p)
      <4>1. ASSUME NEW l \in Locks PROVE link'[l] # p
        BY <2>1, <3>2, SessionsAssumption DEF TypeOK, Honest, Disconnect, Unlinks, Linked
      <4>2. DOMAIN link' = Locks
        BY <2>1, <3>2 DEF Disconnect, Unlinks
      <4> QED
        BY <4>1, <4>2
    <3>3. CASE DisconnectRaises(p)
      BY <2>1, <2>4, <3>3 DEF TypeOK, DisconnectRaises
    <3> QED
      BY <1>1, <2>4, <3>1, <3>2, <3>3 DEF Step, Start, Confirm, NotFound, Found, Subscribed,
             SubscribeFails, Refuse, Request, RefusalTaken, RequestFails, Finish, WriteLog, Asks
  <2> QED
    BY <2>1, <2>2, <2>3, <2>4 DEF TypeOK, PC
<1>2. ASSUME IInv, [Next]_vars, NEW p \in Processes, Ends(p) PROVE Step(p) \/ Interrupt(p)
  <2>1. ASSUME NEW q \in Processes, q # p, Step(q) \/ Interrupt(q) PROVE pc'[p] = pc[p]
    BY <1>2, <2>1, EveryStepMoves DEF Moved
  <2> QED
    BY <1>2, <2>1
       DEF Next, LinkDrops, SyncOpensStore, SyncWritesStore, vars, session, Ends
<1>3. IInv /\ [Next]_vars => [\A p \in Processes : Released(p)]_vars
  BY <1>1, <1>2
<1> QED
  BY <1>3, AlwaysIInv, PTL DEF Spec, NoLinkIsLeftBehind
=============================================================================
