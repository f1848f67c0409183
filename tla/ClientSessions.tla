--------------------------- MODULE ClientSessions ---------------------------
(***************************************************************************)
(* The methods of TTLockClient as sessions with the lock: the handshake    *)
(* that authorises a command, the command, and what the lock does on them. *)
(*                                                                         *)
(* The command path (CommandExchange) runs one session at a time and gives *)
(* a command the first frame that echoes it; an exchange that gives up     *)
(* leaves its request and the reply to it on the way, in order.  The lock  *)
(* and the radio are the environment: the lock remembers the last token it *)
(* gave to each handshake and whether CHECK_RANDOM was passed, for as long *)
(* as the link lasts, and may refuse anything.                             *)
(***************************************************************************)
EXTENDS Integers, Sequences

CONSTANTS
  Callers,      \* tasks that call methods of one client
  Methods,      \* the methods they call
  STEPS,        \* property steps get_device_properties reads, 6 in the code
  TOKENS,       \* a token and the sum sent back are below it, 2^32
  UNLOCK_KEY,   \* unlockKey, the number added to a token
  THRESHOLD,    \* drift_threshold_seconds, in ticks
  Skews,        \* how far the lock's clock may be off at first
  NoOne,        \* not a caller: the command lock is free
  MaxCalls,     \* bound: calls made
  MaxGiveUps,   \* bound: exchanges that time out, fail or are cancelled
  MaxDrops,     \* bound: drops of the link
  MaxTime       \* bound: ticks of the clock

Bolt == {"unlock", "lock"}

Sound == {"get_lock_sound", "set_lock_sound", "set_lock_volume"}

AutoLock == {"get_auto_lock_time", "set_auto_lock_time", "get_auto_lock_limits"}

Passcodes == {"add_passcode", "delete_passcode", "clear_passcodes"}

Setters == Bolt \cup Passcodes \cup
           {"set_lock_sound", "set_lock_volume", "set_auto_lock_time"}

(* Methods that read with no handshake.                                     *)
Open == {"query_state", "get_lock_time", "sync_time"}

Gated == Bolt \cup Sound \cup AutoLock \cup Passcodes \cup
         {"get_device_features", "get_device_properties", "calibrate_time"}

ASSUME SessionsAssumption ==
  /\ Methods \subseteq Open \cup Gated /\ Methods # {}
  /\ NoOne \notin Callers
  /\ STEPS \in Nat \ {0}
  /\ MaxCalls \in Nat /\ MaxGiveUps \in Nat /\ MaxDrops \in Nat
  /\ MaxTime \in Nat /\ THRESHOLD \in Nat /\ UNLOCK_KEY \in Nat
  /\ Skews \subseteq Int
  /\ TOKENS \in Nat /\ TOKENS > MaxCalls

VARIABLES
  holder,    \* _command_lock: who holds it
  calls,     \* the call each caller is in, or made last
  wire,      \* requests written and not handled by the lock yet
  air,       \* replies of the lock that no exchange has taken yet
  lock,      \* what the lock stores
  adminPs,   \* whether the key carries the admin password
  now,       \* true local time
  issued,    \* history: tokens the lock has given
  sessions,  \* history: acquisitions of the command lock
  made,      \* history: calls made
  gaveUp,    \* history: exchanges that gave up
  drops      \* history: drops of the link

counts == <<issued, sessions, made, gaveUp, drops>>
vars == <<holder, calls, wire, air, lock, adminPs, now, counts>>

----------------------------------------------------------------------------
(* The commands of each method, in order.                                  *)

UserHandshake == <<"CHECK_USER_TIME">>

AdminHandshake == <<"CHECK_ADMIN", "CHECK_RANDOM">>

(* The handshakes' commands: their replies are not what a method returns on. *)
Handshakes == {"CHECK_USER_TIME", "CHECK_ADMIN", "CHECK_RANDOM"}

(* Fault: a setting is written on the authorisation of an earlier call.     *)
SettingProgramUnauthorised(m) ==
  CASE m \in Sound     -> <<"SET_LOCK_SOUND">>
    [] m \in AutoLock  -> <<"AUTO_LOCK_MANAGE">>
    [] m \in Passcodes -> <<"MANAGE_KEYBOARD_PASSWORD">>

SettingProgram(m) ==
  AdminHandshake \o
  CASE m \in Sound     -> <<"SET_LOCK_SOUND">>
    [] m \in AutoLock  -> <<"AUTO_LOCK_MANAGE">>
    [] m \in Passcodes -> <<"MANAGE_KEYBOARD_PASSWORD">>

BoltProgram(m) ==
  UserHandshake \o (IF m = "unlock" THEN <<"UNLOCK">> ELSE <<"LOCK">>)

DeviceProgram(m) ==
  AdminHandshake \o
  IF m = "get_device_features" THEN <<"SEARCH_DEVICE_FEATURE">>
  ELSE [i \in 1..STEPS |-> "GET_DEVICE_PROPERTIES"]

CalibrateProgram == AdminHandshake \o <<"TIME_CALIBRATE">>

(* sync_time begins with get_lock_time.                                     *)
Program(m) ==
  CASE m \in Bolt                             -> BoltProgram(m)
    [] m \in Sound \cup AutoLock \cup Passcodes -> SettingProgram(m)
    [] m = "calibrate_time"                   -> CalibrateProgram
    [] m = "query_state"                      -> <<"QUERY_STATE">>
    [] m \in {"get_lock_time", "sync_time"}   -> <<"GET_LOCK_TIME">>
    [] OTHER                                  -> DeviceProgram(m)

Commands == Handshakes \cup
  {"UNLOCK", "LOCK", "SET_LOCK_SOUND", "AUTO_LOCK_MANAGE",
   "MANAGE_KEYBOARD_PASSWORD", "SEARCH_DEVICE_FEATURE",
   "GET_DEVICE_PROPERTIES", "TIME_CALIBRATE", "QUERY_STATE", "GET_LOCK_TIME"}

(* Which stored value of the lock a method changes.                         *)
Setting(m) ==
  CASE m \in Bolt      -> "bolt"
    [] m \in Sound     -> "sound"
    [] m \in AutoLock  -> "auto_lock"
    [] m \in Passcodes -> "passcodes"
    [] OTHER           -> "none"

Settings == {"bolt", "sound", "auto_lock", "passcodes"}

NoToken == 0

(* session and left, the commands its method had still to do, tell the      *)
(* requests apart; the program does not see them in a frame.                *)
Request == [method : Methods, session : Nat, left : Nat, cmd : Commands,
            sum : 0..(TOKENS - 1), ref : Nat]

Frame == [session : Nat, left : Nat, cmd : Commands,
          status : {"ok", "failed", "garbled"},
          ps : 0..(TOKENS - 1), time : Int]

TypeOK ==
  /\ holder \in Callers \cup {NoOne}
  /\ calls \in [Callers ->
       [phase : {"idle", "queued", "waiting", "returned", "raised"},
        method : Methods, todo : Seq(Commands), session : Nat,
        ref : 0..MaxTime, own : BOOLEAN]]
  /\ wire \in Seq(Request)
  /\ air \in Seq(Frame)
  /\ lock \in [stored : [Settings -> Nat], skew : Int, admitted : BOOLEAN,
               userToken : 0..(TOKENS - 1), adminToken : 0..(TOKENS - 1)]
  /\ adminPs \in BOOLEAN
  /\ now \in 0..MaxTime
  /\ issued \in 0..(TOKENS - 1)
  /\ \A n \in {sessions, made, gaveUp, drops} : n \in Nat

(* No call, or one that is over: of its state only how it ended matters.    *)
Over(phase, method, own) ==
  [phase |-> phase, method |-> method, todo |-> <<>>, session |-> 0, ref |-> 0,
   own |-> own]

Init ==
  /\ holder = NoOne
  /\ calls = [c \in Callers |-> Over("idle", CHOOSE m \in Methods : TRUE, TRUE)]
  /\ wire = <<>>
  /\ air = <<>>
  /\ \E skew \in Skews :
       lock = [stored |-> [s \in Settings |-> 0], skew |-> skew,
               admitted |-> FALSE, userToken |-> NoToken, adminToken |-> NoToken]
  /\ adminPs \in BOOLEAN
  /\ now = 0
  /\ issued = 0 /\ sessions = 0 /\ made = 0 /\ gaveUp = 0 /\ drops = 0

----------------------------------------------------------------------------
(* The client.                                                             *)

(* Fault: the sum is not wrapped to four bytes.                             *)
SumUnwrapped(ps) == ps + UNLOCK_KEY

(* (psFromLock + unlockKey) mod 2**32.                                      *)
Sum(ps) == (ps + UNLOCK_KEY) % TOKENS

(* The caller reads its clock when it makes the call: local_time.           *)
Call(c, m) ==
  /\ calls[c].phase \in {"idle", "returned", "raised"}
  /\ made < MaxCalls
  /\ made' = made + 1
  /\ calls' = [calls EXCEPT ![c] =
       [phase |-> "queued", method |-> m, todo |-> Program(m), session |-> 0,
        ref |-> now, own |-> TRUE]]
  /\ UNCHANGED <<holder, wire, air, lock, adminPs, now, issued, sessions, gaveUp,
                 drops>>

(* The call enters exchange for its first command to do.                    *)
Send(c, call, ps) ==
  /\ calls' = [calls EXCEPT ![c] = [call EXCEPT !.phase = "waiting"]]
  /\ wire' = Append(wire,
       [method |-> call.method, session |-> call.session, left |-> Len(call.todo),
        cmd |-> Head(call.todo), sum |-> Sum(ps), ref |-> call.ref])

(* The call ends, and `async with` releases the command lock.               *)
Return(c, call) ==
  /\ holder' = NoOne
  /\ calls' = [calls EXCEPT ![c] = Over("returned", call.method, call.own)]
  /\ UNCHANGED wire

Raise(c) ==
  /\ holder' = NoOne
  /\ calls' = [calls EXCEPT ![c] = Over("raised", calls[c].method, TRUE)]
  /\ UNCHANGED wire

(* sync_time calls calibrate_time(reference), which queues anew.            *)
Recalibrate(c, call) ==
  /\ holder' = NoOne
  /\ calls' = [calls EXCEPT ![c] =
                 [call EXCEPT !.phase = "queued", !.todo = CalibrateProgram]]
  /\ UNCHANGED wire

(* The command lock is acquired.  A key with no admin password raises       *)
(* before anything is sent.                                                 *)
Acquire(c) ==
  LET call == [calls[c] EXCEPT !.session = sessions + 1]
  IN  /\ calls[c].phase = "queued"
      /\ holder = NoOne
      /\ sessions' = sessions + 1
      /\ IF Head(call.todo) = "CHECK_ADMIN" /\ ~adminPs
         THEN Raise(c)
         ELSE holder' = c /\ Send(c, call, NoToken)
  /\ UNCHANGED <<air, lock, adminPs, now, issued, made, gaveUp, drops>>

(* Fault: any frame is taken for the reply.                                 *)
AnswersAnything(frame, command) == TRUE

(* TTLockClient._answers.                                                   *)
Answers(frame, command) == frame.status = "garbled" \/ frame.cmd = command

Abs(n) == IF n < 0 THEN -n ELSE n

(* Fault: the sign of the drift is lost.                                    *)
DriftsAheadOnly(call, frame) ==
  /\ call.method = "sync_time"
  /\ Head(call.todo) = "GET_LOCK_TIME"
  /\ frame.time - call.ref > THRESHOLD

(* sync_time: abs(drift) > drift_threshold_seconds, against the reference   *)
(* its caller read before the call.                                         *)
Drifts(call, frame) ==
  /\ call.method = "sync_time"
  /\ Head(call.todo) = "GET_LOCK_TIME"
  /\ Abs(frame.time - call.ref) > THRESHOLD

(* The parser of the method takes the frame: query_state alone has a value  *)
(* for a refusal, (None, None).                                             *)
Parses(call, frame) ==
  frame.status = "ok" \/ (frame.status = "failed" /\ call.method = "query_state")

(* The lock sent the frame for the command the call waits on.               *)
Answered(frame, call) ==
  frame.session = call.session /\ frame.left = Len(call.todo)

(* exchange returns the frame; the method raises on it, sends its next      *)
(* command, calls calibrate_time, which takes the command lock anew, or     *)
(* returns.                                                                 *)
TakeReply(c) ==
  LET frame == Head(air)
      call == [calls[c] EXCEPT
                 !.own = @ /\ (frame.cmd \in Handshakes \/ Answered(frame, calls[c]))]
      rest == Tail(call.todo)
  IN  /\ holder = c
      /\ air # <<>>
      /\ Answers(frame, Head(call.todo))
      /\ air' = Tail(air)
      /\ IF ~Parses(call, frame) THEN Raise(c)
         ELSE IF rest # <<>>
              THEN Send(c, [call EXCEPT !.todo = rest], frame.ps) /\ UNCHANGED holder
         ELSE IF Drifts(call, frame) THEN Recalibrate(c, call)
         ELSE Return(c, call)
      /\ UNCHANGED <<lock, adminPs, now, issued, sessions, made, gaveUp, drops>>

(* A frame no exchange wants goes to the event listeners.                   *)
Dispatch ==
  /\ air # <<>>
  /\ holder # NoOne => ~Answers(Head(air), Head(calls[holder].todo))
  /\ air' = Tail(air)
  /\ UNCHANGED <<holder, calls, wire, lock, adminPs, now, counts>>

(* exchange times out, a write fails, or the call is cancelled.             *)
GiveUp(c) ==
  /\ holder = c
  /\ gaveUp < MaxGiveUps
  /\ gaveUp' = gaveUp + 1
  /\ Raise(c)
  /\ UNCHANGED <<air, lock, adminPs, now, issued, sessions, made, drops>>

(* A call is cancelled while it queues for the command lock.                *)
Withdraw(c) ==
  /\ calls[c].phase = "queued"
  /\ calls' = [calls EXCEPT ![c] = Over("raised", calls[c].method, TRUE)]
  /\ UNCHANGED <<holder, wire, air, lock, adminPs, now, counts>>

----------------------------------------------------------------------------
(* The lock and the radio.                                                 *)

Token(t) == (t % (TOKENS - 1)) + 1

(* What the lock insists on before it performs a command: the sum over the  *)
(* last token it gave, or that CHECK_RANDOM was passed on this link.        *)
Authorised(request) ==
  CASE request.cmd \in {"CHECK_USER_TIME", "CHECK_ADMIN", "QUERY_STATE",
                        "GET_LOCK_TIME"} -> TRUE
    [] request.cmd \in {"UNLOCK", "LOCK"} ->
         lock.userToken # NoToken /\ request.sum = Sum(lock.userToken)
    [] request.cmd = "CHECK_RANDOM" ->
         lock.adminToken # NoToken /\ request.sum = Sum(lock.adminToken)
    [] OTHER -> lock.admitted

(* What it then does.                                                       *)
Performed(request) ==
  CASE request.cmd = "CHECK_USER_TIME" -> [lock EXCEPT !.userToken = Token(issued)]
    [] request.cmd = "CHECK_ADMIN" -> [lock EXCEPT !.adminToken = Token(issued)]
    [] request.cmd = "CHECK_RANDOM" -> [lock EXCEPT !.admitted = TRUE]
    [] request.cmd = "TIME_CALIBRATE" -> [lock EXCEPT !.skew = request.ref - now]
    [] request.method \in Setters /\ request.cmd \notin Handshakes ->
         [lock EXCEPT !.stored[Setting(request.method)] = request.session]
    [] OTHER -> lock

Reply(request, status) ==
  [session |-> request.session, left |-> request.left,
   cmd |-> request.cmd, status |-> status,
   ps |-> IF status = "ok" /\ request.cmd \in {"CHECK_USER_TIME", "CHECK_ADMIN"}
          THEN Token(issued) ELSE NoToken,
   time |-> IF request.cmd = "GET_LOCK_TIME" THEN now + lock.skew ELSE 0]

(* The reply may be lost, or damaged on the way.                            *)
LockPerforms ==
  LET request == Head(wire)
  IN  /\ wire # <<>>
      /\ Authorised(request)
      /\ lock' = Performed(request)
      /\ issued' = IF request.cmd \in {"CHECK_USER_TIME", "CHECK_ADMIN"}
                   THEN issued + 1 ELSE issued
      /\ air' \in {air} \cup
           {Append(air, Reply(request, s)) : s \in {"ok", "garbled"}}
      /\ wire' = Tail(wire)
      /\ UNCHANGED <<holder, calls, adminPs, now, sessions, made, gaveUp, drops>>

LockRefuses ==
  /\ wire # <<>>
  /\ air' = Append(air, Reply(Head(wire), "failed"))
  /\ wire' = Tail(wire)
  /\ UNCHANGED <<holder, calls, lock, adminPs, now, counts>>

RequestLost ==
  /\ wire # <<>>
  /\ wire' = Tail(wire)
  /\ UNCHANGED <<holder, calls, air, lock, adminPs, now, counts>>

(* What has reached the inbox by then stays there.                          *)
LinkDrops ==
  /\ drops < MaxDrops
  /\ drops' = drops + 1
  /\ wire' = <<>>
  /\ \E arrived \in 0..Len(air) : air' = SubSeq(air, 1, arrived)
  /\ lock' = [lock EXCEPT !.admitted = FALSE, !.userToken = NoToken,
                          !.adminToken = NoToken]
  /\ UNCHANGED <<holder, calls, adminPs, now, issued, sessions, made, gaveUp>>

Tick ==
  /\ now < MaxTime
  /\ now' = now + 1
  /\ UNCHANGED <<holder, calls, wire, air, lock, adminPs, counts>>

Next ==
  \/ \E c \in Callers :
        \/ \E m \in Methods : Call(c, m)
        \/ Acquire(c)
        \/ TakeReply(c)
        \/ GiveUp(c)
        \/ Withdraw(c)
  \/ Dispatch
  \/ LockPerforms
  \/ LockRefuses
  \/ RequestLost
  \/ LinkDrops
  \/ Tick

Spec == Init /\ [][Next]_vars

----------------------------------------------------------------------------
(* Properties.                                                             *)

Returns(c) == calls[c].phase = "waiting" /\ calls'[c].phase = "returned"

(* A handshake shields the command after it: a gated method returns on the  *)
(* reply to its own command, whatever earlier calls left on the way, since  *)
(* a late reply is dispatched while the handshake waits, or makes the lock  *)
(* refuse the sum.                                                          *)
HandshakeShieldsTheReply ==
  \A c \in Callers :
    calls[c].phase = "returned" /\ calls[c].method \in Gated => calls[c].own

(* unlock, set_lock_sound, ...: "a raise-free return means the lock accepted *)
(* the frame": when it returns, the lock stores what this call set, not     *)
(* what an earlier call that had given up set late.                         *)
ReturnMeansStored ==
  [][\A c \in Callers : Returns(c) /\ calls[c].method \in Setters =>
       lock.stored[Setting(calls[c].method)] = calls[c].session]_vars

(* sync_time leaves the clock no further off than the threshold plus the    *)
(* time the call took, whoever else sets the clock meanwhile, unless it     *)
(* took the reading of an earlier get_lock_time for its own.                *)
SyncBoundsTheError ==
  [][\A c \in Callers :
       Returns(c) /\ calls[c].method = "sync_time" /\ calls'[c].own =>
         Abs(lock.skew) <= THRESHOLD + (now - calls[c].ref)]_vars

=============================================================================
