----------------------------- MODULE KeepAlive -----------------------------
(***************************************************************************)
(* KeepAlive: the window that pokes the lock after a command.  restart is  *)
(* synchronous; stop suspends until the window it cancelled is done, and   *)
(* the caller of another method may restart in between.                    *)
(*                                                                         *)
(* A window is an asyncio task that run()s.  Its poke is a command of the  *)
(* client: it returns or raises in the end (CommandExchange), after any    *)
(* time.  The link and the clock are the environment.                      *)
(***************************************************************************)
EXTENDS Naturals

CONSTANTS
  Callers,     \* tasks that end an unlock (restart) or disconnect (stop)
  WINDOW,      \* window_seconds, in ticks
  INTERVAL,    \* KEEP_ALIVE_INTERVAL, in ticks
  MaxWindows   \* bound: windows scheduled

ASSUME KeepAliveAssumption ==
  /\ WINDOW \in Nat
  /\ INTERVAL \in Nat \ {0}
  /\ MaxWindows \in Nat

VARIABLES
  task,        \* _task: the latest window, 0 for None
  phase,          \* where each window is suspended
  cancelling,  \* the windows cancel() was called on
  age,         \* ticks since each window began to run, up to MaxAge
  nap,         \* ticks each window has still to sleep
  stopping,    \* the window each caller awaits in stop, 0 for none
  connected,   \* is_connected
  overlapped   \* history: the windows scheduled while a stop was under way

keepAliveVars == <<task, phase, cancelling, age, nap, stopping, connected, overlapped>>

Windows == 1..MaxWindows

(* No guard tells ages from MaxAge on apart.                                *)
MaxAge == WINDOW + INTERVAL

KeepAliveTypeOK ==
  /\ task \in 0..MaxWindows
  /\ phase \in [Windows -> {"new", "ready", "sleeping", "poking", "done"}]
  /\ cancelling \subseteq Windows
  /\ age \in [Windows -> 0..MaxAge]
  /\ nap \in [Windows -> 0..INTERVAL]
  /\ stopping \in [Callers -> 0..MaxWindows]
  /\ connected \in BOOLEAN
  /\ overlapped \subseteq Windows

KeepAliveInit ==
  /\ task = 0
  /\ phase = [w \in Windows |-> "new"]
  /\ cancelling = {}
  /\ age = [w \in Windows |-> 0]
  /\ nap = [w \in Windows |-> 0]
  /\ stopping = [t \in Callers |-> 0]
  /\ connected \in BOOLEAN
  /\ overlapped = {}

Live(w) == phase[w] \in {"ready", "sleeping", "poking"}

Running == task # 0 /\ Live(task)

(* unlock or lock has succeeded.                                            *)
Restart(t) ==
  /\ stopping[t] = 0
  /\ WINDOW > 0
  /\ cancelling' = IF Running THEN cancelling \cup {task} ELSE cancelling
  /\ \E w \in Windows :
       /\ phase[w] = "new"
       /\ \A v \in Windows : v < w => phase[v] # "new"
       /\ task' = w
       /\ phase' = [phase EXCEPT ![w] = "ready"]
       /\ overlapped' = IF \E u \in Callers : stopping[u] # 0
                         THEN overlapped \cup {w} ELSE overlapped
  /\ UNCHANGED <<age, nap, stopping, connected>>

Stop(t) ==
  /\ stopping[t] = 0
  /\ Running
  /\ cancelling' = cancelling \cup {task}
  /\ stopping' = [stopping EXCEPT ![t] = task]
  /\ UNCHANGED <<task, phase, age, nap, connected, overlapped>>

(* Fault: stop waits for whichever window _task holds.                      *)
StopReturnsRereading(t) ==
  /\ stopping[t] # 0
  /\ task # 0
  /\ phase[task] = "done"
  /\ task' = 0
  /\ stopping' = [stopping EXCEPT ![t] = 0]
  /\ UNCHANGED <<phase, cancelling, age, nap, connected, overlapped>>

(* The awaited window is done, whatever it raised; _task is cleared,        *)
(* whichever window it holds by now.  A cancellation of the caller is       *)
(* passed to the window and ends there.                                     *)
StopReturns(t) ==
  /\ stopping[t] # 0
  /\ phase[stopping[t]] = "done"
  /\ task' = 0
  /\ stopping' = [stopping EXCEPT ![t] = 0]
  /\ UNCHANGED <<phase, cancelling, age, nap, connected, overlapped>>

----------------------------------------------------------------------------
(* run.                                                                    *)

(* Fault: only the link is looked at, not the deadline.                     *)
LoopWithoutDeadline(w) ==
  IF connected
  THEN /\ phase' = [phase EXCEPT ![w] = "sleeping"]
       /\ nap' = [nap EXCEPT ![w] = INTERVAL]
  ELSE phase' = [phase EXCEPT ![w] = "done"] /\ UNCHANGED nap

(* The head of the while loop.                                              *)
Loop(w) ==
  IF age[w] < WINDOW /\ connected
  THEN /\ phase' = [phase EXCEPT ![w] = "sleeping"]
       /\ nap' = [nap EXCEPT ![w] = INTERVAL]
  ELSE phase' = [phase EXCEPT ![w] = "done"] /\ UNCHANGED nap

Begin(w) ==
  /\ phase[w] = "ready"
  /\ w \notin cancelling
  /\ Loop(w)
  /\ UNCHANGED <<task, cancelling, age, stopping, connected, overlapped>>

Wake(w) ==
  /\ phase[w] = "sleeping"
  /\ w \notin cancelling
  /\ nap[w] = 0
  /\ phase' = [phase EXCEPT ![w] = IF connected THEN "poking" ELSE "done"]
  /\ UNCHANGED <<task, cancelling, age, nap, stopping, connected, overlapped>>

PokeReturns(w) ==
  /\ phase[w] = "poking"
  /\ w \notin cancelling
  /\ Loop(w)
  /\ UNCHANGED <<task, cancelling, age, stopping, connected, overlapped>>

(* TTLockError ends the window; any other exception ends the task with it.  *)
PokeRaises(w) ==
  /\ phase[w] = "poking"
  /\ w \notin cancelling
  /\ phase' = [phase EXCEPT ![w] = "done"]
  /\ UNCHANGED <<task, cancelling, age, nap, stopping, connected, overlapped>>

(* Fault: a poke swallows the cancellation, and the window goes on.         *)
UnwindIgnoredByPoke(w) ==
  /\ Live(w)
  /\ w \in cancelling
  /\ IF phase[w] = "poking"
     THEN Loop(w)
     ELSE phase' = [phase EXCEPT ![w] = "done"] /\ UNCHANGED nap
  /\ cancelling' = cancelling \ {w}
  /\ UNCHANGED <<task, age, stopping, connected, overlapped>>

(* CancelledError at the await, or before the first step.                   *)
Unwind(w) ==
  /\ Live(w)
  /\ w \in cancelling
  /\ phase' = [phase EXCEPT ![w] = "done"]
  /\ UNCHANGED <<task, cancelling, age, nap, stopping, connected, overlapped>>

----------------------------------------------------------------------------
(* The environment.                                                        *)

(* Time does not pass while the event loop has a window to resume.          *)
Tick ==
  /\ \A w \in Windows :
       Live(w) => w \notin cancelling /\ (nap[w] > 0 \/ phase[w] = "poking")
  /\ \E w \in Windows : Live(w)
  /\ age' = [w \in Windows |->
               IF Live(w) /\ age[w] < MaxAge THEN age[w] + 1 ELSE age[w]]
  /\ nap' = [w \in Windows |->
               IF phase[w] = "sleeping" THEN nap[w] - 1 ELSE nap[w]]
  /\ UNCHANGED <<task, phase, cancelling, stopping, connected, overlapped>>

(* The lock drops the link, or the client connects again.                   *)
LinkChanges ==
  /\ connected' = ~connected
  /\ UNCHANGED <<task, phase, cancelling, age, nap, stopping, overlapped>>

Run(w) == Begin(w) \/ Wake(w) \/ PokeReturns(w) \/ PokeRaises(w) \/ Unwind(w)

KeepAliveNext ==
  \/ \E t \in Callers : Restart(t) \/ Stop(t) \/ StopReturns(t)
  \/ \E w \in Windows : Run(w)
  \/ Tick
  \/ LinkChanges

KeepAliveSpec == KeepAliveInit /\ [][KeepAliveNext]_keepAliveVars

(* The event loop resumes the windows and the callers, the clock runs, and  *)
(* a poke ends.                                                             *)
FairKeepAliveSpec ==
  /\ KeepAliveSpec
  /\ \A w \in Windows : WF_keepAliveVars(Run(w))
  /\ \A t \in Callers : WF_keepAliveVars(StopReturns(t))
  /\ WF_keepAliveVars(Tick)

----------------------------------------------------------------------------
(* Properties.                                                             *)

(* A window that is not being cancelled is the one _task holds, where stop  *)
(* and restart can reach it, unless it was scheduled during a stop.         *)
OnlyOverlapsAreOrphaned ==
  \A w \in Windows :
    Live(w) /\ w \notin cancelling => w = task \/ w \in overlapped

(* No poke starts WINDOW + INTERVAL or more after its window began, however *)
(* long pokes take, and none in a window that was cancelled.                *)
PokesStayInTheWindow ==
  [][\A w \in Windows :
       phase[w] # "poking" /\ phase'[w] = "poking" =>
         age[w] < WINDOW + INTERVAL /\ w \notin cancelling]_keepAliveVars

(* Every window closes, orphaned or not and link or no link, and no stop     *)
(* waits for ever for the window it has cancelled (run and stop).           *)
EveryWindowCloses ==
  /\ \A w \in Windows : Live(w) ~> phase[w] = "done"
  /\ \A t \in Callers : stopping[t] # 0 ~> stopping[t] = 0
=============================================================================
