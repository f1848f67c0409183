------------------------ MODULE ClientSessionsProofs ------------------------
(* Proofs about ClientSessions, for any callers, methods, clocks and bounds. *)
EXTENDS ClientSessions, FiniteSetTheorems, TLAPS

(* The commands a token is given for, and what it then authorises.          *)
TokenCommands == {"CHECK_USER_TIME", "CHECK_ADMIN"}

Guarded(tok) ==
  IF tok = "CHECK_USER_TIME" THEN {"UNLOCK", "LOCK"} ELSE {"CHECK_RANDOM"}

Seconds == {"UNLOCK", "LOCK", "CHECK_RANDOM"}

Held(tok) == IF tok = "CHECK_USER_TIME" THEN lock.userToken ELSE lock.adminToken

(* What a method sends once it is admitted.                                 *)
Jobs == {"SET_LOCK_SOUND", "AUTO_LOCK_MANAGE", "MANAGE_KEYBOARD_PASSWORD",
         "SEARCH_DEVICE_FEATURE", "GET_DEVICE_PROPERTIES", "TIME_CALIBRATE"}

(* What is left to do of a method: in order and to the end.                 *)
JobsFrom(m, todo, k) ==
  /\ Len(todo) >= k
  /\ \A i \in k..Len(todo) :
       /\ todo[i] \in Jobs
       /\ todo[i] = "TIME_CALIBRATE" <=> m \in {"calibrate_time", "sync_time"}

UserTodo(m, todo) ==
  /\ m \in Bolt
  /\ \/ Len(todo) = 2 /\ todo[1] = "CHECK_USER_TIME" /\ todo[2] \in {"UNLOCK", "LOCK"}
     \/ Len(todo) = 1 /\ todo[1] \in {"UNLOCK", "LOCK"}

AdminTodo(m, todo) ==
  /\ m \in (Gated \ Bolt) \cup {"sync_time"}
  /\ \E k \in 1..3 :
       /\ JobsFrom(m, todo, k)
       /\ m \in Setters \cup {"sync_time"} => Len(todo) = k
       /\ k > 1 => todo[k - 1] = "CHECK_RANDOM"
       /\ k = 3 => todo[1] = "CHECK_ADMIN"

OpenTodo(m, todo) ==
  /\ m \in Open
  /\ Len(todo) = 1
  /\ todo[1] = IF m = "query_state" THEN "QUERY_STATE" ELSE "GET_LOCK_TIME"

Todo(m, todo) == UserTodo(m, todo) \/ AdminTodo(m, todo) \/ OpenTodo(m, todo)

(* Who is where.                                                           *)
CallInv ==
  /\ \A c \in Callers : calls[c].phase = "waiting" <=> holder = c
  /\ holder # NoOne => calls[holder].session = sessions
  /\ \A c \in Callers : calls[c].phase \in {"queued", "waiting"} =>
       /\ Todo(calls[c].method, calls[c].todo)
       /\ calls[c].ref <= now
  /\ \A c \in Callers : calls[c].phase = "queued" =>
       calls[c].todo[1] \notin Jobs \cup Seconds
  /\ \A c \in Callers : calls[c].method \in Gated => calls[c].own

(* The replies and then the requests on the way are in the order in which    *)
(* the requests were sent.                                                 *)
Before(x, y) ==
  \/ x.session < y.session
  \/ x.session = y.session /\ x.left > y.left

OrderInv ==
  /\ \A i, j \in 1..Len(air) : i < j => Before(air[i], air[j])
  /\ \A i, j \in 1..Len(wire) : i < j => Before(wire[i], wire[j])
  /\ \A i \in 1..Len(air), j \in 1..Len(wire) : Before(air[i], wire[j])
  /\ \A i \in 1..Len(air) : air[i].session <= sessions
  /\ \A i \in 1..Len(wire) : wire[i].session <= sessions

(* Of the session that runs, there are on the way what it waits for and,    *)
(* in the second command of a handshake, the first.                         *)
Fits(x) ==
  LET todo == calls[holder].todo
  IN  holder # NoOne /\ x.session = sessions =>
        /\ x.left >= Len(todo)
        /\ x.left = Len(todo) => x.cmd = todo[1]
        /\ x.left > Len(todo) => todo[1] \in Seconds /\ x.cmd \in TokenCommands

(* Once it is admitted, there is nothing else on the way.                   *)
Alone(x) ==
  holder # NoOne /\ calls[holder].todo[1] \in Jobs =>
    x.session = sessions /\ x.left = Len(calls[holder].todo)

CurrentInv ==
  /\ \A i \in 1..Len(air) : Fits(air[i]) /\ Alone(air[i])
  /\ \A i \in 1..Len(wire) : Fits(wire[i]) /\ Alone(wire[i])
  /\ \A i \in 1..Len(wire) :
       holder # NoOne /\ wire[i].session = sessions
         /\ wire[i].left = Len(calls[holder].todo) =>
       wire[i].method = calls[holder].method /\ wire[i].ref = calls[holder].ref

(* A token on its way to the client is as old as what the lock holds or     *)
(* older; what was sent with the sum over an older one cannot pass.         *)
Carries(x, tok) == x.cmd = tok /\ x.status = "ok"

Passed(x, tok) == x.cmd \in Guarded(tok) /\ x.status = "ok"

TokenInv(tok) ==
  /\ Held(tok) \in 0..issued
  /\ \A i \in 1..Len(air) : Carries(air[i], tok) =>
       air[i].ps \in 1..issued /\ (Held(tok) = NoToken \/ air[i].ps <= Held(tok))
  /\ \A i, j \in 1..Len(air) : i < j /\ Carries(air[i], tok) =>
       ~Passed(air[j], tok) /\ (Carries(air[j], tok) => air[i].ps < air[j].ps)
  /\ \A j \in 1..Len(wire) : wire[j].cmd \in Guarded(tok) =>
       \E u \in 0..issued :
         /\ wire[j].sum = Sum(u)
         /\ \A i \in 1..Len(air) : Carries(air[i], tok) => u < air[i].ps

(* A session that waits for what its token authorises gets its own reply.   *)
ShieldInv(tok) ==
  holder # NoOne /\ calls[holder].todo[1] \in Guarded(tok) =>
    /\ \A i \in 1..Len(air) : Passed(air[i], tok) => air[i].session = sessions
    /\ \A j \in 1..Len(wire) :
         wire[j].cmd \in Guarded(tok) /\ wire[j].session < sessions =>
           Held(tok) = NoToken \/ wire[j].sum # Sum(Held(tok))

(* What the reply a session waits for says of the lock.                     *)
EffectInv ==
  \A i \in 1..Len(air) :
    LET call == calls[holder]
    IN  /\ holder # NoOne
        /\ air[i].session = sessions
        /\ air[i].left = Len(call.todo)
        /\ air[i].status = "ok"
        =>
        /\ call.method \in Setters /\ air[i].cmd \notin Handshakes =>
             lock.stored[Setting(call.method)] = sessions
        /\ air[i].cmd = "GET_LOCK_TIME" =>
             \E n \in call.ref..now : air[i].time = n + lock.skew
        /\ air[i].cmd = "TIME_CALIBRATE" =>
             \E n \in call.ref..now : lock.skew = call.ref - n

(* No call is given more than one token.                                    *)
Owing == {c \in Callers :
            \/ calls[c].phase = "queued"
            \/ calls[c].phase = "waiting" /\ calls[c].todo[1] = "GET_LOCK_TIME"}

Asked == {<<wire[i].session, wire[i].left>> :
            i \in {j \in 1..Len(wire) : wire[j].cmd \in TokenCommands}}

CountInv ==
  /\ IsFiniteSet(Owing) /\ IsFiniteSet(Asked)
  /\ issued + Cardinality(Asked) + Cardinality(Owing) <= made
  /\ made <= MaxCalls

IInv ==
  /\ TypeOK /\ CallInv /\ OrderInv /\ CurrentInv /\ EffectInv /\ CountInv
  /\ \A tok \in TokenCommands : TokenInv(tok) /\ ShieldInv(tok)

----------------------------------------------------------------------------
(* Sequences, element by element.                                           *)
LEMMA Joined ==
  ASSUME NEW S, NEW s \in Seq(S), NEW t \in Seq(S)
  PROVE  /\ s \o t \in Seq(S) /\ Len(s \o t) = Len(s) + Len(t)
         /\ \A i \in 1..Len(s) : (s \o t)[i] = s[i]
         /\ \A i \in (Len(s) + 1)..(Len(s) + Len(t)) : (s \o t)[i] = t[i - Len(s)]
OBVIOUS

LEMMA AdminStarts ==
  ASSUME NEW t \in Seq(Commands), NEW p, p = AdminHandshake \o t
  PROVE  /\ p \in Seq(Commands) /\ Len(p) = 2 + Len(t)
         /\ p[1] = "CHECK_ADMIN" /\ p[2] = "CHECK_RANDOM"
         /\ \A i \in 3..(2 + Len(t)) : p[i] = t[i - 2]
<1> DEFINE h == AdminHandshake
<1>1. /\ h \in Seq(Commands) /\ Len(h) = 2
      /\ h[1] = "CHECK_ADMIN" /\ h[2] = "CHECK_RANDOM"
  BY DEF AdminHandshake, Commands, Handshakes
<1> HIDE DEF h
<1>2. /\ p \in Seq(Commands) /\ Len(p) = Len(h) + Len(t)
      /\ \A i \in 1..Len(h) : p[i] = h[i]
      /\ \A i \in (Len(h) + 1)..(Len(h) + Len(t)) : p[i] = t[i - Len(h)]
  BY <1>1, Joined DEF h
<1>3. /\ \A i \in 1..2 : p[i] = h[i]
      /\ \A i \in 3..(2 + Len(t)) : p[i] = t[i - 2]
  BY <1>1, <1>2
<1> QED BY <1>1, <1>2, <1>3

----------------------------------------------------------------------------
(* Adding the unlock key tells tokens apart.                                *)
LEMMA SumInjective ==
  ASSUME NEW u \in 0..(TOKENS - 1), NEW v \in 0..(TOKENS - 1), Sum(u) = Sum(v)
  PROVE  u = v
<1>1. TOKENS \in Nat \ {0} /\ UNLOCK_KEY \in Nat
  BY SessionsAssumption
<1>2. PICK p \in Int : u + UNLOCK_KEY = p * TOKENS + Sum(u)
  <2>1. u + UNLOCK_KEY = ((u + UNLOCK_KEY) \div TOKENS) * TOKENS + Sum(u)
    BY <1>1 DEF Sum
  <2> QED BY <1>1, <2>1
<1>3. PICK q \in Int : v + UNLOCK_KEY = q * TOKENS + Sum(v)
  <2>1. v + UNLOCK_KEY = ((v + UNLOCK_KEY) \div TOKENS) * TOKENS + Sum(v)
    BY <1>1 DEF Sum
  <2> QED BY <1>1, <2>1
<1>4. Sum(u) \in Int
  BY <1>1 DEF Sum
<1>5. u - v = (p - q) * TOKENS
  BY <1>1, <1>2, <1>3, <1>4
<1>6. u - v < TOKENS /\ v - u < TOKENS
  BY <1>1
<1>7. CASE p = q
  <2>1. (p - q) * TOKENS = 0
    BY <1>1, <1>7
  <2> QED BY <1>5, <2>1
<1>8. CASE p > q
  <2>1. (p - q) * TOKENS >= TOKENS
    BY <1>1, <1>8
  <2> QED BY <1>1, <1>5, <1>6, <2>1
<1>9. CASE p < q
  <2>1. (q - p) * TOKENS >= TOKENS
    BY <1>1, <1>9
  <2>2. v - u = (q - p) * TOKENS
    BY <1>1, <1>5
  <2> QED BY <1>1, <1>6, <2>1, <2>2
<1> QED BY <1>7, <1>8, <1>9

LEMMA SumIsASum ==
  ASSUME NEW u \in Nat
  PROVE  Sum(u) \in 0..(TOKENS - 1)
<1>1. TOKENS \in Nat \ {0} /\ UNLOCK_KEY \in Nat
  BY SessionsAssumption
<1> QED BY <1>1 DEF Sum

(* What a method starts with is what is left of it at first.                *)
LEMMA CalibrateStarts ==
  /\ CalibrateProgram \in Seq(Commands) /\ Todo("sync_time", CalibrateProgram)
  /\ Todo("calibrate_time", CalibrateProgram)
  /\ CalibrateProgram[1] = "CHECK_ADMIN"
<1> DEFINE t == <<"TIME_CALIBRATE">>
<1>1. t \in Seq(Commands) /\ Len(t) = 1 /\ t[1] = "TIME_CALIBRATE"
  BY DEF Commands
<1>2. CalibrateProgram = AdminHandshake \o t
  BY DEF CalibrateProgram
<1> HIDE DEF t
<1>3. /\ CalibrateProgram \in Seq(Commands) /\ Len(CalibrateProgram) = 2 + Len(t)
      /\ CalibrateProgram[1] = "CHECK_ADMIN" /\ CalibrateProgram[2] = "CHECK_RANDOM"
      /\ \A i \in 3..(2 + Len(t)) : CalibrateProgram[i] = t[i - 2]
  BY <1>1, <1>2, AdminStarts
<1>4. /\ CalibrateProgram \in Seq(Commands) /\ Len(CalibrateProgram) = 3
      /\ CalibrateProgram[1] = "CHECK_ADMIN" /\ CalibrateProgram[2] = "CHECK_RANDOM"
      /\ CalibrateProgram[3] = "TIME_CALIBRATE"
  <2>1. 3 \in 3..(2 + Len(t)) /\ 3 - 2 = 1
    BY <1>1
  <2> QED BY <1>1, <1>3, <2>1
<1> HIDE DEF CalibrateProgram
<1>5. ASSUME NEW m \in {"sync_time", "calibrate_time"} PROVE AdminTodo(m, CalibrateProgram)
  <2>1. JobsFrom(m, CalibrateProgram, 3)
    BY <1>4 DEF JobsFrom, Jobs
  <2> QED BY <1>4, <2>1 DEF AdminTodo, Gated, Bolt
<1> QED BY <1>4, <1>5 DEF Todo

LEMMA ProgramStarts ==
  ASSUME NEW m \in Methods
  PROVE  /\ Program(m) \in Seq(Commands) /\ Todo(m, Program(m))
         /\ Program(m)[1] \notin Jobs \cup Seconds
<1> DEFINE P == Program(m)
<1>1. m \in Open \cup Gated
  BY SessionsAssumption
<1>2. CASE m \in Bolt
  <2>1. P = UserHandshake \o (IF m = "unlock" THEN <<"UNLOCK">> ELSE <<"LOCK">>)
    BY <1>2 DEF Program, BoltProgram, Bolt, Sound, AutoLock, Passcodes
  <2> HIDE DEF P
  <2>2. PICK x \in {"UNLOCK", "LOCK"} : P = UserHandshake \o <<x>>
    <3>1. CASE m = "unlock"
      <4>1. P = UserHandshake \o <<"UNLOCK">>
        BY <2>1, <3>1
      <4> QED BY <4>1
    <3>2. CASE m # "unlock"
      <4>1. P = UserHandshake \o <<"LOCK">>
        BY <2>1, <3>2
      <4> QED BY <4>1
    <3> QED BY <3>1, <3>2
  <2>3. /\ UserHandshake \in Seq(Commands) /\ Len(UserHandshake) = 1
        /\ UserHandshake[1] = "CHECK_USER_TIME"
    BY DEF UserHandshake, Commands, Handshakes
  <2>4. <<x>> \in Seq(Commands) /\ Len(<<x>>) = 1 /\ <<x>>[1] = x
    BY DEF Commands
  <2> DEFINE h == UserHandshake
             t == <<x>>
  <2> HIDE DEF h, t
  <2>5. P \in Seq(Commands) /\ Len(P) = 2 /\ P[1] = "CHECK_USER_TIME" /\ P[2] = x
    <3>1. /\ h \in Seq(Commands) /\ Len(h) = 1 /\ h[1] = "CHECK_USER_TIME"
          /\ t \in Seq(Commands) /\ Len(t) = 1 /\ t[1] = x /\ P = h \o t
      BY <2>2, <2>3, <2>4 DEF h, t
    <3>2. /\ P \in Seq(Commands) /\ Len(P) = Len(h) + Len(t)
          /\ \A i \in 1..Len(h) : P[i] = h[i]
          /\ \A i \in (Len(h) + 1)..(Len(h) + Len(t)) : P[i] = t[i - Len(h)]
      BY <3>1, Joined
    <3>3. P[1] = h[1]
      BY <3>1, <3>2
    <3>4. P[2] = t[2 - Len(h)]
      BY <3>1, <3>2
    <3> QED BY <3>1, <3>2, <3>3, <3>4
  <2>6. Todo(m, P) /\ P[1] \notin Jobs \cup Seconds
    BY <1>2, <2>5 DEF Todo, UserTodo, Jobs, Seconds
  <2> QED BY <2>5, <2>6 DEF P
<1>3. CASE m \in Sound \cup AutoLock \cup Passcodes
  <2>1. P = SettingProgram(m)
    BY <1>3 DEF Program, Bolt, Sound, AutoLock, Passcodes
  <2>2. PICK x \in {"SET_LOCK_SOUND", "AUTO_LOCK_MANAGE", "MANAGE_KEYBOARD_PASSWORD"} :
          P = AdminHandshake \o <<x>>
    <3>1. CASE m \in Sound
      BY <2>1, <3>1 DEF SettingProgram, Sound, AutoLock, Passcodes
    <3>2. CASE m \in AutoLock
      BY <2>1, <3>2 DEF SettingProgram, Sound, AutoLock, Passcodes
    <3>3. CASE m \in Passcodes
      BY <2>1, <3>3 DEF SettingProgram, Sound, AutoLock, Passcodes
    <3> QED BY <1>3, <3>1, <3>2, <3>3
  <2> DEFINE t == <<x>>
  <2>3. t \in Seq(Commands) /\ Len(t) = 1 /\ t[1] = x
    BY DEF Commands
  <2>4. P = AdminHandshake \o t
    BY <2>2
  <2> HIDE DEF P, t
  <2>5. /\ P \in Seq(Commands) /\ Len(P) = 2 + Len(t)
        /\ P[1] = "CHECK_ADMIN" /\ P[2] = "CHECK_RANDOM"
        /\ \A i \in 3..(2 + Len(t)) : P[i] = t[i - 2]
    BY <2>4, <2>3, AdminStarts
  <2>6. P \in Seq(Commands) /\ Len(P) = 3 /\ P[1] = "CHECK_ADMIN" /\ P[2] = "CHECK_RANDOM"
        /\ P[3] = x
    <3>1. 3 \in 3..(2 + Len(t)) /\ 3 - 2 = 1
      BY <2>3
    <3> QED BY <2>3, <2>5, <3>1
  <2>7. JobsFrom(m, P, 3)
    BY <1>3, <2>6 DEF JobsFrom, Jobs, Sound, AutoLock, Passcodes
  <2>8. m \in Gated \ Bolt
    BY <1>3 DEF Gated, Bolt, Sound, AutoLock, Passcodes
  <2>9. Todo(m, P) /\ P[1] \notin Jobs \cup Seconds
    BY <2>6, <2>7, <2>8 DEF Todo, AdminTodo, Jobs, Seconds
  <2> QED BY <2>6, <2>9 DEF P
<1>4. CASE m = "calibrate_time"
  <2>1. P = CalibrateProgram
    BY <1>4 DEF Program, Bolt, Sound, AutoLock, Passcodes
  <2> QED BY <1>4, <2>1, CalibrateStarts DEF Jobs, Seconds
<1>5. CASE m \in {"get_device_features", "get_device_properties"}
  <2> DEFINE n == IF m = "get_device_features" THEN 1 ELSE STEPS
  <2>1. P = DeviceProgram(m)
    BY <1>5 DEF Program, Bolt, Sound, AutoLock, Passcodes
  <2>2. n \in Nat /\ n >= 1
    BY SessionsAssumption
  <2>3. PICK x \in {"SEARCH_DEVICE_FEATURE", "GET_DEVICE_PROPERTIES"} :
          P = AdminHandshake \o [i \in 1..n |-> x]
    <3>1. CASE m = "get_device_features"
      <4>1. P = AdminHandshake \o <<"SEARCH_DEVICE_FEATURE">>
        BY <2>1, <3>1 DEF DeviceProgram
      <4>2. <<"SEARCH_DEVICE_FEATURE">> = [i \in 1..n |-> "SEARCH_DEVICE_FEATURE"]
        BY <3>1
      <4> QED BY <4>1, <4>2
    <3>2. CASE m # "get_device_features"
      BY <2>1, <3>2 DEF DeviceProgram
    <3> QED BY <3>1, <3>2
  <2> HIDE DEF n
  <2> DEFINE t == [i \in 1..n |-> x]
  <2>4. t \in Seq(Commands) /\ Len(t) = n /\ \A i \in 1..n : t[i] = x
    BY <2>2 DEF Commands
  <2>5. P = AdminHandshake \o t
    BY <2>3
  <2> HIDE DEF P, t
  <2>6. P \in Seq(Commands) /\ Len(P) = 2 + n /\ P[1] = "CHECK_ADMIN"
        /\ P[2] = "CHECK_RANDOM" /\ \A i \in 3..(2 + n) : P[i] = x
    <3>1. \A i \in 3..(2 + n) : i - 2 \in 1..n /\ i = 2 + (i - 2)
      BY <2>2
    <3> QED BY <2>4, <2>5, <3>1, AdminStarts
  <2>7. JobsFrom(m, P, 3)
    BY <1>5, <2>2, <2>6 DEF JobsFrom, Jobs
  <2>8. m \in Gated \ Bolt /\ m \notin Setters \cup {"sync_time"}
    BY <1>5 DEF Gated, Bolt, Setters, Passcodes
  <2>9. Todo(m, P) /\ P[1] \notin Jobs \cup Seconds
    BY <2>6, <2>7, <2>8 DEF Todo, AdminTodo, Jobs, Seconds
  <2> QED BY <2>6, <2>9 DEF P
<1>6. CASE m \in Open
  <2>1. P = <<IF m = "query_state" THEN "QUERY_STATE" ELSE "GET_LOCK_TIME">>
    BY <1>6 DEF Program, Open, Bolt, Sound, AutoLock, Passcodes
  <2>2. /\ P \in Seq(Commands) /\ Len(P) = 1
        /\ P[1] = IF m = "query_state" THEN "QUERY_STATE" ELSE "GET_LOCK_TIME"
    BY <2>1 DEF Commands
  <2> HIDE DEF P
  <2>3. Todo(m, P) /\ P[1] \notin Jobs \cup Seconds
    BY <1>6, <2>2 DEF Todo, OpenTodo, Jobs, Seconds
  <2> QED BY <2>2, <2>3 DEF P
<1> QED BY <1>1, <1>2, <1>3, <1>4, <1>5, <1>6 DEF Gated

----------------------------------------------------------------------------
(* Types, and what the frames and requests of a step are.                   *)
LEMMA AirTypes ==
  ASSUME TypeOK
  PROVE  /\ Len(air) \in Nat
         /\ \A i \in 1..Len(air) :
              /\ air[i] \in Frame
              /\ air[i].session \in Nat /\ air[i].left \in Nat /\ air[i].cmd \in Commands
              /\ air[i].ps \in 0..(TOKENS - 1) /\ air[i].ps \in Nat /\ air[i].time \in Int
         /\ air # <<>> =>
              /\ Len(air) >= 1 /\ Head(air) = air[1] /\ Tail(air) \in Seq(Frame)
              /\ Len(Tail(air)) = Len(air) - 1
              /\ \A i \in 1..(Len(air) - 1) : Tail(air)[i] = air[i + 1]
<1>1. air \in Seq(Frame)
  BY DEF TypeOK
<1>2. \A f \in Frame : /\ f.session \in Nat /\ f.left \in Nat /\ f.cmd \in Commands
                       /\ f.ps \in 0..(TOKENS - 1) /\ f.time \in Int
  BY DEF Frame
<1>3. \A n \in 0..(TOKENS - 1) : n \in Nat
  BY SessionsAssumption
<1>4. \A i \in 1..Len(air) : air[i] \in Frame
  BY <1>1
<1>5. air # <<>> =>
        /\ Len(air) >= 1 /\ Head(air) = air[1] /\ Tail(air) \in Seq(Frame)
        /\ Len(Tail(air)) = Len(air) - 1
        /\ \A i \in 1..(Len(air) - 1) : Tail(air)[i] = air[i + 1]
  BY <1>1
<1> QED BY <1>1, <1>2, <1>3, <1>4, <1>5

LEMMA WireTypes ==
  ASSUME TypeOK
  PROVE  /\ Len(wire) \in Nat
         /\ \A i \in 1..Len(wire) :
              /\ wire[i] \in Request
              /\ wire[i].session \in Nat /\ wire[i].left \in Nat /\ wire[i].cmd \in Commands
              /\ wire[i].sum \in 0..(TOKENS - 1) /\ wire[i].ref \in Nat
              /\ wire[i].method \in Methods
         /\ wire # <<>> =>
              /\ Len(wire) >= 1 /\ Head(wire) = wire[1] /\ Tail(wire) \in Seq(Request)
              /\ Len(Tail(wire)) = Len(wire) - 1
              /\ \A i \in 1..(Len(wire) - 1) : Tail(wire)[i] = wire[i + 1]
<1>1. wire \in Seq(Request)
  BY DEF TypeOK
<1>2. \A r \in Request : /\ r.session \in Nat /\ r.left \in Nat /\ r.cmd \in Commands
                         /\ r.sum \in 0..(TOKENS - 1) /\ r.ref \in Nat
                         /\ r.method \in Methods
  BY DEF Request
<1>3. \A i \in 1..Len(wire) : wire[i] \in Request
  BY <1>1
<1>4. wire # <<>> =>
        /\ Len(wire) >= 1 /\ Head(wire) = wire[1] /\ Tail(wire) \in Seq(Request)
        /\ Len(Tail(wire)) = Len(wire) - 1
        /\ \A i \in 1..(Len(wire) - 1) : Tail(wire)[i] = wire[i + 1]
  BY <1>1
<1> QED BY <1>1, <1>2, <1>3, <1>4

LEMMA CallTypes ==
  ASSUME TypeOK, NEW c \in Callers
  PROVE  /\ calls[c] \in [phase : {"idle", "queued", "waiting", "returned", "raised"},
                          method : Methods, todo : Seq(Commands), session : Nat,
                          ref : 0..MaxTime, own : BOOLEAN]
         /\ calls[c].method \in Methods /\ calls[c].todo \in Seq(Commands)
         /\ calls[c].session \in Nat /\ calls[c].ref \in 0..MaxTime
         /\ calls[c].ref \in Nat /\ calls[c].own \in BOOLEAN
         /\ Len(calls[c].todo) \in Nat
<1>1. calls \in [Callers -> [phase : {"idle", "queued", "waiting", "returned", "raised"},
                             method : Methods, todo : Seq(Commands), session : Nat,
                             ref : 0..MaxTime, own : BOOLEAN]]
  BY DEF TypeOK
<1>2. \A n \in 0..MaxTime : n \in Nat
  BY SessionsAssumption
<1> QED BY <1>1, <1>2

LEMMA LockTypes ==
  ASSUME TypeOK
  PROVE  /\ \A tok \in TokenCommands : Held(tok) \in 0..(TOKENS - 1) /\ Held(tok) \in Nat
         /\ lock.skew \in Int /\ lock.stored \in [Settings -> Nat]
         /\ issued \in 0..(TOKENS - 1) /\ issued \in Nat
         /\ sessions \in Nat /\ now \in 0..MaxTime /\ now \in Nat
         /\ made \in Nat /\ gaveUp \in Nat /\ drops \in Nat
<1>1. \A n \in 0..(TOKENS - 1) : n \in Nat
  BY SessionsAssumption
<1>2. \A n \in 0..MaxTime : n \in Nat
  BY SessionsAssumption
<1>3. /\ lock \in [stored : [Settings -> Nat], skew : Int, admitted : BOOLEAN,
                   userToken : 0..(TOKENS - 1), adminToken : 0..(TOKENS - 1)]
      /\ issued \in 0..(TOKENS - 1) /\ now \in 0..MaxTime
      /\ sessions \in Nat /\ made \in Nat /\ gaveUp \in Nat /\ drops \in Nat
  BY DEF TypeOK
<1>4. \A tok \in TokenCommands : Held(tok) \in 0..(TOKENS - 1)
  BY <1>3 DEF Held
<1> QED BY <1>1, <1>2, <1>3, <1>4

(* A method still to do: what it waits for, and what comes next.            *)
LEMMA TodoGoesOn ==
  ASSUME NEW m, NEW todo \in Seq(Commands), Todo(m, todo)
  PROVE  /\ Len(todo) >= 1 /\ todo # <<>> /\ Head(todo) = todo[1]
         /\ Tail(todo) \in Seq(Commands)
         /\ Tail(todo) # <<>> =>
              /\ Len(todo) >= 2
              /\ Len(Tail(todo)) = Len(todo) - 1
              /\ Tail(todo)[1] = todo[2]
              /\ Todo(m, Tail(todo))
              /\ m \notin Open \/ m = "sync_time"
              /\ \/ todo[1] = "CHECK_USER_TIME" /\ todo[2] \in {"UNLOCK", "LOCK"}
                 \/ todo[1] = "CHECK_ADMIN" /\ todo[2] = "CHECK_RANDOM"
                 \/ todo[1] \in Jobs \cup {"CHECK_RANDOM"} /\ todo[2] \in Jobs
         /\ Tail(todo) = <<>> => Len(todo) = 1
<1>1. Len(todo) >= 1
  BY DEF Todo, UserTodo, AdminTodo, OpenTodo, JobsFrom
<1> DEFINE rest == Tail(todo)
<1>2. /\ todo # <<>> /\ Head(todo) = todo[1] /\ rest \in Seq(Commands)
      /\ Len(rest) = Len(todo) - 1
      /\ \A i \in 1..(Len(todo) - 1) : rest[i] = todo[i + 1]
  BY <1>1
<1>3. Len(todo) \in Nat
  OBVIOUS
<1> HIDE DEF rest
<1>4. rest = <<>> <=> Len(todo) = 1
  BY <1>2, <1>3
<1>5. ASSUME rest # <<>>
      PROVE  /\ Todo(m, rest)
             /\ m \notin Open \/ m = "sync_time"
             /\ \/ todo[1] = "CHECK_USER_TIME" /\ todo[2] \in {"UNLOCK", "LOCK"}
                \/ todo[1] = "CHECK_ADMIN" /\ todo[2] = "CHECK_RANDOM"
                \/ todo[1] \in Jobs \cup {"CHECK_RANDOM"} /\ todo[2] \in Jobs
  <2>1. Len(todo) >= 2 /\ rest[1] = todo[2]
    BY <1>1, <1>2, <1>3, <1>4, <1>5
  <2>2. CASE UserTodo(m, todo)
    BY <1>2, <2>1, <2>2 DEF UserTodo, Todo, Open, Bolt
  <2>3. CASE AdminTodo(m, todo)
    <3>1. PICK k \in 1..3 :
            /\ JobsFrom(m, todo, k)
            /\ m \in Setters \cup {"sync_time"} => Len(todo) = k
            /\ k > 1 => todo[k - 1] = "CHECK_RANDOM"
            /\ k = 3 => todo[1] = "CHECK_ADMIN"
      BY <2>3 DEF AdminTodo
    <3>2. m \in (Gated \ Bolt) \cup {"sync_time"}
      BY <2>3 DEF AdminTodo
    <3>3. m \notin Open \/ m = "sync_time"
      BY <3>2 DEF Open, Gated, Bolt, Sound, AutoLock, Passcodes
    <3>4. CASE k = 1
      <4>1. JobsFrom(m, rest, 1)
        BY <1>2, <1>3, <2>1, <3>1, <3>4 DEF JobsFrom
      <4>2. m \notin Setters \cup {"sync_time"}
        BY <2>1, <3>1, <3>4
      <4>3. AdminTodo(m, rest)
        BY <3>2, <4>1, <4>2 DEF AdminTodo
      <4>4. todo[1] \in Jobs /\ todo[2] \in Jobs
        BY <1>3, <2>1, <3>1, <3>4 DEF JobsFrom
      <4> QED BY <3>3, <4>3, <4>4 DEF Todo
    <3>5. CASE k = 2
      <4>1. JobsFrom(m, rest, 1)
        BY <1>2, <1>3, <2>1, <3>1, <3>5 DEF JobsFrom
      <4>2. m \in Setters \cup {"sync_time"} => Len(rest) = 1
        BY <1>2, <3>1, <3>5
      <4>3. AdminTodo(m, rest)
        BY <3>2, <4>1, <4>2 DEF AdminTodo
      <4>4. todo[1] = "CHECK_RANDOM" /\ todo[2] \in Jobs
        BY <1>3, <2>1, <3>1, <3>5 DEF JobsFrom
      <4> QED BY <3>3, <4>3, <4>4 DEF Todo
    <3>6. CASE k = 3
      <4>1. JobsFrom(m, rest, 2)
        BY <1>2, <1>3, <2>1, <3>1, <3>6 DEF JobsFrom
      <4>2. m \in Setters \cup {"sync_time"} => Len(rest) = 2
        BY <1>2, <3>1, <3>6
      <4>3. todo[1] = "CHECK_ADMIN" /\ todo[2] = "CHECK_RANDOM"
        BY <3>1, <3>6
      <4>4. AdminTodo(m, rest)
        BY <2>1, <3>2, <4>1, <4>2, <4>3 DEF AdminTodo
      <4> QED BY <3>3, <4>4, <4>3 DEF Todo
    <3> QED BY <3>1, <3>4, <3>5, <3>6
  <2>4. CASE OpenTodo(m, todo)
    BY <2>1, <2>4, <1>3 DEF OpenTodo
  <2> QED BY <2>2, <2>3, <2>4 DEF Todo
<1> QED BY <1>1, <1>2, <1>3, <1>4, <1>5 DEF rest

(* The call that holds the command lock.                                    *)
LEMMA HolderWaits ==
  ASSUME TypeOK, CallInv, holder # NoOne
  PROVE  /\ holder \in Callers /\ calls[holder].phase = "waiting"
         /\ calls[holder].session = sessions /\ calls[holder].todo \in Seq(Commands)
         /\ Todo(calls[holder].method, calls[holder].todo)
         /\ calls[holder].ref \in Nat /\ calls[holder].ref <= now
         /\ calls[holder].method \in Methods
         /\ Len(calls[holder].todo) \in Nat
<1>1. holder \in Callers
  BY DEF TypeOK
<1> QED BY <1>1, CallTypes DEF CallInv

LEMMA SmallRemainder ==
  ASSUME NEW n \in Nat \ {0}, NEW a \in 0..(n - 1)
  PROVE  a % n = a
<1>1. PICK q \in Int : a = q * n + (a % n)
  <2>1. a = (a \div n) * n + (a % n)
    OBVIOUS
  <2>2. a \div n \in Int
    OBVIOUS
  <2> QED BY <2>1, <2>2
<1>2. a % n \in 0..(n - 1)
  OBVIOUS
<1>3. CASE q >= 1
  <2>1. q * n >= n
    BY <1>3
  <2> QED BY <1>1, <1>2, <2>1
<1>4. CASE q <= -1
  <2>1. q * n <= -n
    BY <1>4
  <2> QED BY <1>1, <1>2, <2>1
<1>5. CASE q = 0
  BY <1>1, <1>5
<1> QED BY <1>3, <1>4, <1>5

(* A token the lock gives is one it never gave.                             *)
LEMMA TokensAreNew ==
  ASSUME TypeOK, CountInv, wire # <<>>, wire[1].cmd \in TokenCommands
  PROVE  Token(issued) = issued + 1 /\ issued + 1 \in 1..(TOKENS - 1)
<1>1. 1 \in {j \in 1..Len(wire) : wire[j].cmd \in TokenCommands}
  BY WireTypes
<1>2. Asked # {}
  BY <1>1 DEF Asked
<1>3. Cardinality(Asked) \in Nat /\ Cardinality(Asked) # 0
  BY <1>2, FS_CardinalityType, FS_EmptySet DEF CountInv
<1>4. Cardinality(Owing) \in Nat
  BY FS_CardinalityType DEF CountInv
<1>5. issued + 1 <= TOKENS - 1
  <2>1. issued \in Nat /\ made \in Nat /\ MaxCalls \in Nat /\ TOKENS \in Nat /\ TOKENS > MaxCalls
    BY LockTypes, SessionsAssumption
  <2>2. issued + Cardinality(Asked) + Cardinality(Owing) <= made /\ made <= MaxCalls
    BY DEF CountInv
  <2> QED BY <1>3, <1>4, <2>1, <2>2
<1>6. issued \in 0..(TOKENS - 2) /\ TOKENS - 1 \in Nat \ {0}
  BY <1>5, LockTypes, SessionsAssumption
<1>7. issued % (TOKENS - 1) = issued
  <2> DEFINE n == TOKENS - 1
  <2>1. n \in Nat \ {0} /\ issued \in 0..(n - 1)
    BY <1>6, SessionsAssumption
  <2> HIDE DEF n
  <2>2. issued % n = issued
    BY <2>1, SmallRemainder
  <2> QED BY <2>2 DEF n
<1> QED BY <1>5, <1>6, <1>7, LockTypes DEF Token

----------------------------------------------------------------------------
(* Steps that only take from what is on the way.                            *)
AirShrinks ==
  \E d \in 0..Len(air) :
    /\ Len(air') <= Len(air) - d
    /\ \A i \in 1..Len(air') : i + d \in 1..Len(air) /\ air'[i] = air[i + d]

WireShrinks ==
  \E d \in 0..Len(wire) :
    /\ Len(wire') = Len(wire) - d
    /\ \A i \in 1..Len(wire') : i + d \in 1..Len(wire) /\ wire'[i] = wire[i + d]

SameCall ==
  /\ holder' = holder /\ sessions' = sessions
  /\ holder # NoOne => calls'[holder] = calls[holder]

LEMMA AirMayShrink ==
  ASSUME TypeOK
  PROVE  /\ air' = air => AirShrinks
         /\ air' = <<>> => AirShrinks
         /\ air # <<>> /\ air' = Tail(air) => AirShrinks
         /\ \A k \in 0..Len(air) : air' = SubSeq(air, 1, k) => AirShrinks
<1>1. ASSUME air' = air PROVE AirShrinks
  <2>1. 0 \in 0..Len(air) /\ Len(air') = Len(air) - 0
    BY <1>1, AirTypes
  <2>2. \A i \in 1..Len(air') : i + 0 \in 1..Len(air) /\ air'[i] = air[i + 0]
    BY <1>1, AirTypes
  <2> QED BY <2>1, <2>2 DEF AirShrinks
<1>2. ASSUME air' = <<>> PROVE AirShrinks
  <2>1. Len(air) \in 0..Len(air) /\ Len(air') = Len(air) - Len(air)
    BY <1>2, AirTypes
  <2>2. \A i \in 1..Len(air') : i + Len(air) \in 1..Len(air) /\ air'[i] = air[i + Len(air)]
    BY <1>2
  <2> QED BY <2>1, <2>2 DEF AirShrinks
<1>3. ASSUME air # <<>>, air' = Tail(air) PROVE AirShrinks
  <2>1. 1 \in 0..Len(air) /\ Len(air') = Len(air) - 1
    BY <1>3, AirTypes
  <2>2. \A i \in 1..Len(air') : i + 1 \in 1..Len(air) /\ air'[i] = air[i + 1]
    BY <1>3, <2>1, AirTypes
  <2> QED BY <2>1, <2>2 DEF AirShrinks
<1>4. ASSUME NEW k \in 0..Len(air), air' = SubSeq(air, 1, k) PROVE AirShrinks
  <2>1. air \in Seq(Frame) /\ Len(air) \in Nat
    BY AirTypes DEF TypeOK
  <2>2. Len(air') = k /\ \A i \in 1..k : air'[i] = air[i]
    BY <1>4, <2>1
  <2>3. 0 \in 0..Len(air) /\ Len(air') <= Len(air) - 0
    BY <2>1, <2>2
  <2>4. \A i \in 1..Len(air') : i + 0 \in 1..Len(air) /\ air'[i] = air[i + 0]
    BY <2>1, <2>2
  <2> QED BY <2>3, <2>4 DEF AirShrinks
<1> QED BY <1>1, <1>2, <1>3, <1>4

LEMMA WireMayShrink ==
  ASSUME TypeOK
  PROVE  /\ wire' = wire => WireShrinks
         /\ wire' = <<>> => WireShrinks
         /\ wire # <<>> /\ wire' = Tail(wire) => WireShrinks
<1>1. ASSUME wire' = wire PROVE WireShrinks
  <2>1. 0 \in 0..Len(wire) /\ Len(wire') = Len(wire) - 0
    BY <1>1, WireTypes
  <2>2. \A i \in 1..Len(wire') : i + 0 \in 1..Len(wire) /\ wire'[i] = wire[i + 0]
    BY <1>1, WireTypes
  <2> QED BY <2>1, <2>2 DEF WireShrinks
<1>2. ASSUME wire' = <<>> PROVE WireShrinks
  <2>1. Len(wire) \in 0..Len(wire) /\ Len(wire') = Len(wire) - Len(wire)
    BY <1>2, WireTypes
  <2>2. \A i \in 1..Len(wire') : i + Len(wire) \in 1..Len(wire) /\ wire'[i] = wire[i + Len(wire)]
    BY <1>2
  <2> QED BY <2>1, <2>2 DEF WireShrinks
<1>3. ASSUME wire # <<>>, wire' = Tail(wire) PROVE WireShrinks
  <2>1. 1 \in 0..Len(wire) /\ Len(wire') = Len(wire) - 1
    BY <1>3, WireTypes
  <2>2. \A i \in 1..Len(wire') : i + 1 \in 1..Len(wire) /\ wire'[i] = wire[i + 1]
    BY <1>3, <2>1, WireTypes
  <2> QED BY <2>1, <2>2 DEF WireShrinks
<1> QED BY <1>1, <1>2, <1>3

LEMMA OrderLoses ==
  ASSUME TypeOK, OrderInv, AirShrinks, WireShrinks, sessions' \in Nat, sessions <= sessions'
  PROVE  OrderInv'
<1>1. PICK d \in 0..Len(air) :
        /\ Len(air') <= Len(air) - d
        /\ \A i \in 1..Len(air') : i + d \in 1..Len(air) /\ air'[i] = air[i + d]
  BY DEF AirShrinks
<1>2. PICK e \in 0..Len(wire) :
        /\ Len(wire') = Len(wire) - e
        /\ \A i \in 1..Len(wire') : i + e \in 1..Len(wire) /\ wire'[i] = wire[i + e]
  BY DEF WireShrinks
<1>3. \A i, j \in 1..Len(air') : i < j => Before(air'[i], air'[j])
  <2> SUFFICES ASSUME NEW i \in 1..Len(air'), NEW j \in 1..Len(air'), i < j
               PROVE  Before(air'[i], air'[j])
    OBVIOUS
  <2>1. i + d < j + d
    OBVIOUS
  <2> QED BY <1>1, <2>1 DEF OrderInv
<1>4. \A i, j \in 1..Len(wire') : i < j => Before(wire'[i], wire'[j])
  <2> SUFFICES ASSUME NEW i \in 1..Len(wire'), NEW j \in 1..Len(wire'), i < j
               PROVE  Before(wire'[i], wire'[j])
    OBVIOUS
  <2>1. i + e < j + e
    OBVIOUS
  <2> QED BY <1>2, <2>1 DEF OrderInv
<1>5. \A i \in 1..Len(air'), j \in 1..Len(wire') : Before(air'[i], wire'[j])
  BY <1>1, <1>2 DEF OrderInv
<1>6. \A i \in 1..Len(air') : air'[i].session <= sessions'
  <2> SUFFICES ASSUME NEW i \in 1..Len(air')
               PROVE  air'[i].session <= sessions'
    OBVIOUS
  <2>1. PICK k \in 1..Len(air) : air'[i] = air[k]
    BY <1>1
  <2>2. air[k].session \in Nat /\ air[k].session <= sessions /\ sessions \in Nat
    BY AirTypes, LockTypes DEF OrderInv
  <2> QED BY <2>1, <2>2
<1>7. \A i \in 1..Len(wire') : wire'[i].session <= sessions'
  <2> SUFFICES ASSUME NEW i \in 1..Len(wire')
               PROVE  wire'[i].session <= sessions'
    OBVIOUS
  <2>1. PICK k \in 1..Len(wire) : wire'[i] = wire[k]
    BY <1>2
  <2>2. wire[k].session \in Nat /\ wire[k].session <= sessions /\ sessions \in Nat
    BY WireTypes, LockTypes DEF OrderInv
  <2> QED BY <2>1, <2>2
<1> QED BY <1>3, <1>4, <1>5, <1>6, <1>7 DEF OrderInv, Before

LEMMA CurrentLoses ==
  ASSUME CurrentInv, AirShrinks, WireShrinks, holder' = NoOne \/ SameCall
  PROVE  CurrentInv'
<1>1. CASE holder' = NoOne
  BY <1>1 DEF CurrentInv, Fits, Alone
<1>2. CASE SameCall /\ holder # NoOne
  <2>1. \A i \in 1..Len(air') : \E k \in 1..Len(air) : air'[i] = air[k]
    BY DEF AirShrinks
  <2>2. \A i \in 1..Len(wire') : \E k \in 1..Len(wire) : wire'[i] = wire[k]
    BY DEF WireShrinks
  <2>3. \A i \in 1..Len(air') : (Fits(air[i]))' /\ (Alone(air[i]))'
    BY <1>2, <2>1 DEF CurrentInv, Fits, Alone, SameCall
  <2>4. \A i \in 1..Len(wire') : (Fits(wire[i]))' /\ (Alone(wire[i]))'
    BY <1>2, <2>2 DEF CurrentInv, Fits, Alone, SameCall
  <2>5. \A i \in 1..Len(wire') :
          wire'[i].session = sessions /\ wire'[i].left = Len(calls[holder].todo) =>
            wire'[i].method = calls[holder].method /\ wire'[i].ref = calls[holder].ref
    BY <1>2, <2>2 DEF CurrentInv
  <2> QED BY <1>2, <2>3, <2>4, <2>5 DEF CurrentInv, SameCall
<1>3. CASE SameCall /\ holder = NoOne
  BY <1>1, <1>3 DEF SameCall
<1> QED BY <1>1, <1>2, <1>3

LEMMA TokenLoses ==
  ASSUME TypeOK, NEW tok \in TokenCommands, TokenInv(tok), AirShrinks, WireShrinks,
         issued' = issued, (Held(tok))' \in {Held(tok), NoToken}
  PROVE  TokenInv(tok)'
<1>1. PICK d \in 0..Len(air) :
        /\ Len(air') <= Len(air) - d
        /\ \A i \in 1..Len(air') : i + d \in 1..Len(air) /\ air'[i] = air[i + d]
  BY DEF AirShrinks
<1>2. \A i \in 1..Len(wire') : \E k \in 1..Len(wire) : wire'[i] = wire[k]
  BY DEF WireShrinks
<1>3. (Held(tok))' \in 0..issued'
  BY LockTypes DEF TokenInv, NoToken
<1>4. \A i \in 1..Len(air') : Carries(air'[i], tok) =>
        air'[i].ps \in 1..issued' /\ ((Held(tok))' = NoToken \/ air'[i].ps <= (Held(tok))')
  BY <1>1 DEF TokenInv
<1>5. \A i, j \in 1..Len(air') : i < j /\ Carries(air'[i], tok) =>
        ~Passed(air'[j], tok) /\ (Carries(air'[j], tok) => air'[i].ps < air'[j].ps)
  <2> SUFFICES ASSUME NEW i \in 1..Len(air'), NEW j \in 1..Len(air'), i < j,
                      Carries(air'[i], tok)
               PROVE  /\ ~Passed(air'[j], tok)
                      /\ Carries(air'[j], tok) => air'[i].ps < air'[j].ps
    OBVIOUS
  <2>1. i + d < j + d
    OBVIOUS
  <2> QED BY <1>1, <2>1 DEF TokenInv
<1>6. \A j \in 1..Len(wire') : wire'[j].cmd \in Guarded(tok) =>
        \E u \in 0..issued' :
          /\ wire'[j].sum = Sum(u)
          /\ \A i \in 1..Len(air') : Carries(air'[i], tok) => u < air'[i].ps
  <2> SUFFICES ASSUME NEW j \in 1..Len(wire'), wire'[j].cmd \in Guarded(tok)
               PROVE  \E u \in 0..issued' :
                        /\ wire'[j].sum = Sum(u)
                        /\ \A i \in 1..Len(air') : Carries(air'[i], tok) => u < air'[i].ps
    OBVIOUS
  <2>1. PICK k \in 1..Len(wire) : wire'[j] = wire[k]
    BY <1>2
  <2>2. PICK u \in 0..issued :
          /\ wire[k].sum = Sum(u)
          /\ \A i \in 1..Len(air) : Carries(air[i], tok) => u < air[i].ps
    BY <2>1 DEF TokenInv
  <2>3. \A i \in 1..Len(air') : Carries(air'[i], tok) => u < air'[i].ps
    BY <1>1, <2>2
  <2> QED BY <2>1, <2>2, <2>3
<1> QED BY <1>3, <1>4, <1>5, <1>6 DEF TokenInv, Carries, Passed, Guarded, Sum

LEMMA ShieldLoses ==
  ASSUME NEW tok \in TokenCommands, ShieldInv(tok), AirShrinks, WireShrinks,
         (Held(tok))' \in {Held(tok), NoToken}, holder' = NoOne \/ SameCall
  PROVE  ShieldInv(tok)'
<1>1. \A i \in 1..Len(air') : \E k \in 1..Len(air) : air'[i] = air[k]
  BY DEF AirShrinks
<1>2. \A i \in 1..Len(wire') : \E k \in 1..Len(wire) : wire'[i] = wire[k]
  BY DEF WireShrinks
<1>3. CASE holder' = NoOne
  BY <1>3 DEF ShieldInv
<1>4. CASE SameCall /\ holder # NoOne /\ calls[holder].todo[1] \in Guarded(tok)
  <2>1. \A i \in 1..Len(air') : Passed(air'[i], tok) => air'[i].session = sessions
    BY <1>1, <1>4 DEF ShieldInv
  <2>2. \A j \in 1..Len(wire') :
          wire'[j].cmd \in Guarded(tok) /\ wire'[j].session < sessions =>
            (Held(tok))' = NoToken \/ wire'[j].sum # Sum((Held(tok))')
    BY <1>2, <1>4 DEF ShieldInv
  <2> QED BY <1>4, <2>1, <2>2 DEF ShieldInv, SameCall, Passed, Guarded, Sum
<1>5. CASE SameCall /\ holder # NoOne /\ calls[holder].todo[1] \notin Guarded(tok)
  BY <1>5 DEF ShieldInv, SameCall, Guarded
<1> QED BY <1>3, <1>4, <1>5 DEF SameCall

LEMMA EffectLoses ==
  ASSUME TypeOK, CallInv, EffectInv, AirShrinks, holder' = NoOne \/ SameCall,
         lock'.stored = lock.stored, lock'.skew = lock.skew, now' \in Nat, now <= now'
  PROVE  EffectInv'
<1>1. \A i \in 1..Len(air') : \E k \in 1..Len(air) : air'[i] = air[k]
  BY DEF AirShrinks
<1>2. CASE holder' = NoOne
  BY <1>2 DEF EffectInv
<1>3. CASE SameCall /\ holder # NoOne
  <2>1. \A n \in calls[holder].ref..now : n \in calls[holder].ref..now'
    BY <1>3, HolderWaits, LockTypes
  <2>2. ASSUME NEW i \in 1..Len(air'), air'[i].session = sessions,
               air'[i].left = Len(calls[holder].todo), air'[i].status = "ok"
        PROVE  /\ calls[holder].method \in Setters /\ air'[i].cmd \notin Handshakes =>
                    lock.stored[Setting(calls[holder].method)] = sessions
               /\ air'[i].cmd = "GET_LOCK_TIME" =>
                    \E n \in calls[holder].ref..now' : air'[i].time = n + lock.skew
               /\ air'[i].cmd = "TIME_CALIBRATE" =>
                    \E n \in calls[holder].ref..now' : lock.skew = calls[holder].ref - n
    <3>1. PICK k \in 1..Len(air) : air'[i] = air[k]
      BY <1>1
    <3> QED BY <1>3, <2>1, <2>2, <3>1 DEF EffectInv
  <2> QED BY <1>3, <2>2 DEF EffectInv, SameCall
<1> QED BY <1>2, <1>3 DEF SameCall

----------------------------------------------------------------------------
(* What is on the way behind the reply that a session waits for.            *)
LEMMA NothingBehind ==
  ASSUME TypeOK, CallInv, OrderInv, CurrentInv, holder # NoOne, NEW i \in 1..Len(air),
         air[i].session = sessions, air[i].left = Len(calls[holder].todo)
  PROVE  i = Len(air) /\ Len(wire) = 0
<1>1. ASSUME NEW j \in 1..Len(air), i < j PROVE FALSE
  <2>1. Before(air[i], air[j]) /\ air[j].session <= sessions
    BY <1>1 DEF OrderInv
  <2>2. air[j].session = sessions => air[j].left >= Len(calls[holder].todo)
    BY DEF CurrentInv, Fits
  <2>3. /\ air[i].left \in Nat /\ air[j].left \in Nat
        /\ air[i].session \in Nat /\ air[j].session \in Nat
    BY AirTypes
  <2>4. air[j].session < air[i].session \/ air[j].left >= air[i].left
    BY <2>1, <2>2, <2>3
  <2> QED BY <2>1, <2>2, <2>3, <2>4 DEF Before
<1>2. ASSUME NEW j \in 1..Len(wire) PROVE FALSE
  <2>1. Before(air[i], wire[j]) /\ wire[j].session <= sessions
    BY DEF OrderInv
  <2>2. wire[j].session = sessions => wire[j].left >= Len(calls[holder].todo)
    BY DEF CurrentInv, Fits
  <2>3. /\ air[i].left \in Nat /\ wire[j].left \in Nat
        /\ air[i].session \in Nat /\ wire[j].session \in Nat
    BY AirTypes, WireTypes
  <2> QED BY <2>1, <2>2, <2>3 DEF Before
<1>3. Len(wire) = 0
  <2>1. Len(wire) \in Nat
    BY WireTypes
  <2> QED BY <1>2, <2>1
<1>4. i = Len(air)
  <2>1. Len(air) \in Nat
    BY AirTypes
  <2>2. Len(air) \in 1..Len(air)
    BY <2>1
  <2> QED BY <1>1, <2>1, <2>2
<1> QED BY <1>3, <1>4

(* A reply to the second command of a handshake, or to a command it admits, *)
(* is the session's own.                                                    *)
LEMMA OwnReply ==
  ASSUME TypeOK, CallInv, OrderInv, CurrentInv, holder # NoOne, air # <<>>,
         \A tok \in TokenCommands : ShieldInv(tok),
         air[1].status = "ok", air[1].cmd = calls[holder].todo[1],
         air[1].cmd \in Seconds \cup Jobs
  PROVE  /\ air[1].session = sessions /\ air[1].left = Len(calls[holder].todo)
         /\ Len(air) = 1 /\ Len(wire) = 0
<1>1. 1 \in 1..Len(air)
  BY AirTypes
<1>2. CASE air[1].cmd \in Seconds
  <2>1. PICK tok \in TokenCommands : air[1].cmd \in Guarded(tok)
    BY <1>2 DEF Seconds, TokenCommands, Guarded
  <2>2. air[1].session = sessions
    BY <1>1, <2>1 DEF ShieldInv, Passed
  <2>3. air[1].cmd \notin TokenCommands
    BY <1>2 DEF Seconds, TokenCommands
  <2>4. air[1].left = Len(calls[holder].todo)
    BY <1>1, <2>2, <2>3, AirTypes, HolderWaits DEF CurrentInv, Fits
  <2> QED BY <1>1, <2>2, <2>4, NothingBehind
<1>3. CASE air[1].cmd \in Jobs
  <2>1. air[1].session = sessions /\ air[1].left = Len(calls[holder].todo)
    BY <1>1, <1>3 DEF CurrentInv, Alone
  <2> QED BY <1>1, <2>1, NothingBehind
<1> QED BY <1>2, <1>3

----------------------------------------------------------------------------
(* Steps that send a request.                                               *)
LEMMA WireGrows ==
  ASSUME TypeOK, NEW r \in Request, wire' = Append(wire, r)
  PROVE  /\ Len(wire') = Len(wire) + 1 /\ wire'[Len(wire) + 1] = r
         /\ \A i \in 1..Len(wire) : wire'[i] = wire[i]
         /\ \A i \in 1..Len(wire') : i \in 1..Len(wire) \/ i = Len(wire) + 1
<1>1. wire \in Seq(Request)
  BY DEF TypeOK
<1> QED BY <1>1

LEMMA OrderSends ==
  ASSUME TypeOK, OrderInv, NEW r \in Request, AirShrinks, wire' = Append(wire, r),
         sessions' \in Nat, sessions <= sessions', r.session <= sessions',
         \A i \in 1..Len(air') : Before(air'[i], r),
         \A i \in 1..Len(wire) : Before(wire[i], r)
  PROVE  OrderInv'
<1>1. PICK d \in 0..Len(air) :
        /\ Len(air') <= Len(air) - d
        /\ \A i \in 1..Len(air') : i + d \in 1..Len(air) /\ air'[i] = air[i + d]
  BY DEF AirShrinks
<1>2. \A i, j \in 1..Len(air') : i < j => Before(air'[i], air'[j])
  <2> SUFFICES ASSUME NEW i \in 1..Len(air'), NEW j \in 1..Len(air'), i < j
               PROVE  Before(air'[i], air'[j])
    OBVIOUS
  <2>1. i + d < j + d
    OBVIOUS
  <2> QED BY <1>1, <2>1 DEF OrderInv
<1>3. \A i, j \in 1..Len(wire') : i < j => Before(wire'[i], wire'[j])
  <2> SUFFICES ASSUME NEW i \in 1..Len(wire'), NEW j \in 1..Len(wire'), i < j
               PROVE  Before(wire'[i], wire'[j])
    OBVIOUS
  <2>1. i \in 1..Len(wire) /\ wire'[i] = wire[i]
    BY WireGrows, WireTypes
  <2>2. CASE j \in 1..Len(wire)
    BY <2>1, <2>2, WireGrows DEF OrderInv
  <2>3. CASE j = Len(wire) + 1
    BY <2>1, <2>3, WireGrows
  <2> QED BY <2>2, <2>3, WireGrows
<1>4. \A i \in 1..Len(air'), j \in 1..Len(wire') : Before(air'[i], wire'[j])
  <2> SUFFICES ASSUME NEW i \in 1..Len(air'), NEW j \in 1..Len(wire')
               PROVE  Before(air'[i], wire'[j])
    OBVIOUS
  <2>1. CASE j \in 1..Len(wire)
    BY <1>1, <2>1, WireGrows DEF OrderInv
  <2>2. CASE j = Len(wire) + 1
    BY <2>2, WireGrows
  <2> QED BY <2>1, <2>2, WireGrows
<1>5. \A i \in 1..Len(air') : air'[i].session <= sessions'
  <2> SUFFICES ASSUME NEW i \in 1..Len(air')
               PROVE  air'[i].session <= sessions'
    OBVIOUS
  <2>1. PICK k \in 1..Len(air) : air'[i] = air[k]
    BY <1>1
  <2>2. air[k].session \in Nat /\ air[k].session <= sessions /\ sessions \in Nat
    BY AirTypes, LockTypes DEF OrderInv
  <2> QED BY <2>1, <2>2
<1>6. \A i \in 1..Len(wire') : wire'[i].session <= sessions'
  <2> SUFFICES ASSUME NEW i \in 1..Len(wire')
               PROVE  wire'[i].session <= sessions'
    OBVIOUS
  <2>1. CASE i \in 1..Len(wire)
    <3>1. wire[i].session \in Nat /\ wire[i].session <= sessions /\ sessions \in Nat
      BY <2>1, WireTypes, LockTypes DEF OrderInv
    <3> QED BY <2>1, <3>1, WireGrows
  <2>2. CASE i = Len(wire) + 1
    BY <2>2, WireGrows
  <2> QED BY <2>1, <2>2, WireGrows
<1> QED BY <1>2, <1>3, <1>4, <1>5, <1>6 DEF OrderInv, Before

LEMMA TokenSends ==
  ASSUME TypeOK, NEW tok \in TokenCommands, TokenInv(tok), AirShrinks,
         NEW r \in Request, wire' = Append(wire, r), issued' = issued, lock' = lock,
         r.cmd \in Guarded(tok) =>
           \E u \in 0..issued :
             /\ r.sum = Sum(u)
             /\ \A i \in 1..Len(air') : Carries(air'[i], tok) => u < air'[i].ps
  PROVE  TokenInv(tok)'
<1>1. PICK d \in 0..Len(air) :
        /\ Len(air') <= Len(air) - d
        /\ \A i \in 1..Len(air') : i + d \in 1..Len(air) /\ air'[i] = air[i + d]
  BY DEF AirShrinks
<1>2. (Held(tok))' = Held(tok)
  BY DEF Held
<1>3. (Held(tok))' \in 0..issued'
  BY <1>2 DEF TokenInv
<1>4. \A i \in 1..Len(air') : Carries(air'[i], tok) =>
        air'[i].ps \in 1..issued' /\ ((Held(tok))' = NoToken \/ air'[i].ps <= (Held(tok))')
  BY <1>1, <1>2 DEF TokenInv
<1>5. \A i, j \in 1..Len(air') : i < j /\ Carries(air'[i], tok) =>
        ~Passed(air'[j], tok) /\ (Carries(air'[j], tok) => air'[i].ps < air'[j].ps)
  <2> SUFFICES ASSUME NEW i \in 1..Len(air'), NEW j \in 1..Len(air'), i < j,
                      Carries(air'[i], tok)
               PROVE  /\ ~Passed(air'[j], tok)
                      /\ Carries(air'[j], tok) => air'[i].ps < air'[j].ps
    OBVIOUS
  <2>1. i + d < j + d
    OBVIOUS
  <2> QED BY <1>1, <2>1 DEF TokenInv
<1>6. \A j \in 1..Len(wire') : wire'[j].cmd \in Guarded(tok) =>
        \E v \in 0..issued' :
          /\ wire'[j].sum = Sum(v)
          /\ \A i \in 1..Len(air') : Carries(air'[i], tok) => v < air'[i].ps
  <2> SUFFICES ASSUME NEW j \in 1..Len(wire'), wire'[j].cmd \in Guarded(tok)
               PROVE  \E v \in 0..issued' :
                        /\ wire'[j].sum = Sum(v)
                        /\ \A i \in 1..Len(air') : Carries(air'[i], tok) => v < air'[i].ps
    OBVIOUS
  <2>1. CASE j \in 1..Len(wire)
    <3>1. wire'[j] = wire[j]
      BY <2>1, WireGrows
    <3>2. PICK v \in 0..issued :
            /\ wire[j].sum = Sum(v)
            /\ \A i \in 1..Len(air) : Carries(air[i], tok) => v < air[i].ps
      BY <2>1, <3>1 DEF TokenInv
    <3>3. \A i \in 1..Len(air') : Carries(air'[i], tok) => v < air'[i].ps
      BY <1>1, <3>2
    <3> QED BY <3>1, <3>2, <3>3
  <2>2. CASE j = Len(wire) + 1
    BY <2>2, WireGrows
  <2> QED BY <2>1, <2>2, WireGrows
<1> QED BY <1>3, <1>4, <1>5, <1>6 DEF TokenInv, Carries, Passed, Guarded, Sum

----------------------------------------------------------------------------
(* Counting the tokens.                                                     *)
LEMMA AskedLoses ==
  ASSUME WireShrinks
  PROVE  Asked' \subseteq Asked
<1>1. \A i \in 1..Len(wire') : \E k \in 1..Len(wire) : wire'[i] = wire[k]
  BY DEF WireShrinks
<1> QED BY <1>1 DEF Asked

LEMMA AskedSends ==
  ASSUME TypeOK, NEW r \in Request, wire' = Append(wire, r)
  PROVE  /\ Asked' \subseteq Asked \cup {<<r.session, r.left>>}
         /\ r.cmd \notin TokenCommands => Asked' \subseteq Asked
<1>1. ASSUME NEW x \in Asked'
      PROVE  x \in Asked \/ (x = <<r.session, r.left>> /\ r.cmd \in TokenCommands)
  <2>1. PICK i \in 1..Len(wire') : wire'[i].cmd \in TokenCommands
                                   /\ x = <<wire'[i].session, wire'[i].left>>
    BY <1>1 DEF Asked, TokenCommands
  <2>2. CASE i \in 1..Len(wire)
    BY <2>1, <2>2, WireGrows DEF Asked
  <2>3. CASE i = Len(wire) + 1
    BY <2>1, <2>3, WireGrows
  <2> QED BY <2>1, <2>2, <2>3, WireGrows
<1> QED BY <1>1

LEMMA AskedAnswers ==
  ASSUME TypeOK, OrderInv, wire # <<>>, wire' = Tail(wire)
  PROVE  wire[1].cmd \in TokenCommands =>
           /\ <<wire[1].session, wire[1].left>> \in Asked
           /\ Asked' \subseteq Asked \ {<<wire[1].session, wire[1].left>>}
<1> SUFFICES ASSUME wire[1].cmd \in TokenCommands
             PROVE  /\ <<wire[1].session, wire[1].left>> \in Asked
                    /\ Asked' \subseteq Asked \ {<<wire[1].session, wire[1].left>>}
  OBVIOUS
<1>1. 1 \in 1..Len(wire)
  BY WireTypes
<1>2. <<wire[1].session, wire[1].left>> \in Asked
  BY <1>1 DEF Asked
<1>3. ASSUME NEW x \in Asked' PROVE x \in Asked /\ x # <<wire[1].session, wire[1].left>>
  <2>1. PICK i \in 1..Len(wire') : wire'[i].cmd \in TokenCommands
                                   /\ x = <<wire'[i].session, wire'[i].left>>
    BY <1>3 DEF Asked, TokenCommands
  <2>2. i + 1 \in 1..Len(wire) /\ wire'[i] = wire[i + 1]
    BY WireTypes
  <2>3. Before(wire[1], wire[i + 1])
    BY <1>1, <2>2 DEF OrderInv
  <2>4. <<wire[i + 1].session, wire[i + 1].left>> # <<wire[1].session, wire[1].left>>
    BY <1>1, <2>2, <2>3, WireTypes DEF Before
  <2>5. x \in Asked
    BY <2>1, <2>2 DEF Asked
  <2> QED BY <2>1, <2>2, <2>4, <2>5
<1> QED BY <1>2, <1>3

LEMMA CountLoses ==
  ASSUME TypeOK, CountInv, Asked' \subseteq Asked, Owing' \subseteq Owing,
         issued' = issued, made' = made
  PROVE  CountInv'
<1>1. IsFiniteSet(Asked) /\ IsFiniteSet(Owing)
  BY DEF CountInv
<1>2. /\ IsFiniteSet(Asked') /\ Cardinality(Asked') <= Cardinality(Asked)
      /\ Cardinality(Asked') \in Nat /\ Cardinality(Asked) \in Nat
  BY <1>1, FS_Subset, FS_CardinalityType
<1>3. /\ IsFiniteSet(Owing') /\ Cardinality(Owing') <= Cardinality(Owing)
      /\ Cardinality(Owing') \in Nat /\ Cardinality(Owing) \in Nat
  BY <1>1, FS_Subset, FS_CardinalityType
<1>4. issued' + Cardinality(Asked') + Cardinality(Owing') <= made'
  BY <1>2, <1>3, LockTypes DEF CountInv
<1>5. made' <= MaxCalls
  BY DEF CountInv
<1> QED BY <1>2, <1>3, <1>4, <1>5 DEF CountInv

LEMMA OwingStays ==
  ASSUME calls' = calls
  PROVE  Owing' \subseteq Owing
BY DEF Owing

LEMMA OwingMoves ==
  ASSUME TypeOK, NEW c \in Callers, \A b \in Callers \ {c} : calls'[b] = calls[b]
  PROVE  /\ Owing' \subseteq Owing \cup {c}
         /\ calls'[c].phase \notin {"queued", "waiting"} => Owing' \subseteq Owing \ {c}
         /\ calls'[c].phase = "waiting" /\ calls'[c].todo[1] # "GET_LOCK_TIME" =>
              Owing' \subseteq Owing \ {c}
BY DEF Owing

----------------------------------------------------------------------------
(* The calls, one of which moves.                                           *)
LEMMA CallsStay ==
  ASSUME TypeOK, CallInv, calls' = calls, holder' = holder, sessions' = sessions,
         now' \in Nat, now <= now'
  PROVE  CallInv'
<1>1. \A c \in Callers : calls[c].phase \in {"queued", "waiting"} => calls[c].ref <= now'
  BY CallTypes, LockTypes DEF CallInv
<1> QED BY <1>1 DEF CallInv, Todo, UserTodo, AdminTodo, OpenTodo, JobsFrom

LEMMA OneCallMoves ==
  ASSUME TypeOK, CallInv, NEW c \in Callers,
         \A b \in Callers \ {c} : calls'[b] = calls[b],
         \A b \in Callers \ {c} : holder' = b <=> holder = b,
         calls'[c].phase = "waiting" <=> holder' = c,
         holder' # NoOne => calls'[holder'].session = sessions',
         calls'[c].phase \in {"queued", "waiting"} =>
           Todo(calls'[c].method, calls'[c].todo) /\ calls'[c].ref <= now,
         calls'[c].phase = "queued" => calls'[c].todo[1] \notin Jobs \cup Seconds,
         calls'[c].method \in Gated => calls'[c].own,
         now' = now
  PROVE  CallInv'
<1>1. \A b \in Callers : calls'[b].phase = "waiting" <=> holder' = b
  BY DEF CallInv
<1>2. \A b \in Callers : calls'[b].phase \in {"queued", "waiting"} =>
        /\ Todo(calls'[b].method, calls'[b].todo)
        /\ calls'[b].ref <= now'
  BY DEF CallInv
<1>3. \A b \in Callers : calls'[b].phase = "queued" =>
        calls'[b].todo[1] \notin Jobs \cup Seconds
  BY DEF CallInv
<1>4. \A b \in Callers : calls'[b].method \in Gated => calls'[b].own
  BY DEF CallInv
<1> QED BY <1>1, <1>2, <1>3, <1>4
        DEF CallInv, Todo, UserTodo, AdminTodo, OpenTodo, JobsFrom

(* A step that neither asks nor answers.                                    *)
LEMMA QuietKeeps ==
  ASSUME IInv, AirShrinks, WireShrinks, holder' = NoOne \/ SameCall, issued' = issued,
         sessions' \in Nat, sessions <= sessions', now' \in Nat, now <= now',
         \A tok \in TokenCommands : (Held(tok))' \in {Held(tok), NoToken},
         lock'.stored = lock.stored, lock'.skew = lock.skew
  PROVE  /\ OrderInv' /\ CurrentInv' /\ EffectInv'
         /\ \A tok \in TokenCommands : TokenInv(tok)' /\ ShieldInv(tok)'
<1>1. OrderInv'
  BY OrderLoses DEF IInv
<1>2. CurrentInv'
  BY CurrentLoses DEF IInv
<1>3. EffectInv'
  BY EffectLoses DEF IInv
<1>4. ASSUME NEW tok \in TokenCommands PROVE TokenInv(tok)' /\ ShieldInv(tok)'
  BY TokenLoses, ShieldLoses DEF IInv
<1> QED BY <1>1, <1>2, <1>3, <1>4

----------------------------------------------------------------------------
(* The client's steps that send nothing, and the losses.                    *)
CallType ==
  [phase : {"idle", "queued", "waiting", "returned", "raised"}, method : Methods,
   todo : Seq(Commands), session : Nat, ref : 0..MaxTime, own : BOOLEAN]

LEMMA CallChanges ==
  ASSUME TypeOK, NEW c \in Callers, NEW x \in CallType, calls' = [calls EXCEPT ![c] = x]
  PROVE  /\ calls' \in [Callers -> CallType] /\ calls'[c] = x
         /\ \A b \in Callers \ {c} : calls'[b] = calls[b]
<1>1. calls \in [Callers -> CallType]
  BY DEF TypeOK, CallType
<1> QED BY <1>1

LEMMA OverIsACall ==
  ASSUME NEW p \in {"idle", "returned", "raised"}, NEW m \in Methods, NEW o \in BOOLEAN
  PROVE  /\ Over(p, m, o) \in CallType
         /\ Over(p, m, o).phase = p /\ Over(p, m, o).method = m /\ Over(p, m, o).own = o
<1>1. <<>> \in Seq(Commands) /\ 0 \in 0..MaxTime
  BY SessionsAssumption
<1> QED BY <1>1 DEF Over, CallType

LEMMA LockStays ==
  ASSUME lock' = lock
  PROVE  \A tok \in TokenCommands : (Held(tok))' \in {Held(tok), NoToken}
BY DEF Held

LEMMA InitIInv == Init => IInv
<1> SUFFICES ASSUME Init PROVE IInv
  OBVIOUS
<1> DEFINE m0 == CHOOSE m \in Methods : TRUE
<1>1. m0 \in Methods
  BY SessionsAssumption
<1>2. /\ calls = [c \in Callers |-> Over("idle", m0, TRUE)]
      /\ holder = NoOne /\ wire = <<>> /\ air = <<>> /\ adminPs \in BOOLEAN /\ now = 0
      /\ issued = 0 /\ sessions = 0 /\ made = 0 /\ gaveUp = 0 /\ drops = 0
  BY DEF Init
<1> HIDE DEF m0
<1>3. /\ Over("idle", m0, TRUE) \in CallType
      /\ Over("idle", m0, TRUE).phase = "idle" /\ Over("idle", m0, TRUE).own = TRUE
  <2>1. <<>> \in Seq(Commands) /\ 0 \in 0..MaxTime /\ 0 \in Nat
    BY SessionsAssumption
  <2> QED BY <1>1, <2>1 DEF Over, CallType
<1>4. \A c \in Callers : calls[c].phase = "idle" /\ calls[c].own = TRUE
  BY <1>2, <1>3
<1>5. TypeOK
  <2>1. calls \in [Callers -> CallType]
    BY <1>2, <1>3
  <2>2. lock \in [stored : [Settings -> Nat], skew : Int, admitted : BOOLEAN,
                  userToken : 0..(TOKENS - 1), adminToken : 0..(TOKENS - 1)]
    <3>1. NoToken \in 0..(TOKENS - 1)
      BY SessionsAssumption DEF NoToken
    <3>2. PICK skew \in Skews :
            lock = [stored |-> [s \in Settings |-> 0], skew |-> skew,
                    admitted |-> FALSE, userToken |-> NoToken, adminToken |-> NoToken]
      BY DEF Init
    <3> QED BY <3>1, <3>2, SessionsAssumption
  <2>3. wire \in Seq(Request) /\ air \in Seq(Frame)
    BY <1>2
  <2>4. now \in 0..MaxTime /\ issued \in 0..(TOKENS - 1)
    BY <1>2, SessionsAssumption
  <2>5. \A n \in {sessions, made, gaveUp, drops} : n \in Nat
    BY <1>2
  <2>6. holder \in Callers \cup {NoOne} /\ adminPs \in BOOLEAN
    BY <1>2
  <2> QED BY <2>1, <2>2, <2>3, <2>4, <2>5, <2>6, Zenon DEF TypeOK, CallType
<1>6. CallInv
  BY <1>2, <1>4, SessionsAssumption DEF CallInv
<1>7. OrderInv /\ CurrentInv /\ EffectInv
  BY DEF Init, OrderInv, CurrentInv, EffectInv
<1>8. CountInv
  <2>1. Owing = {}
    BY <1>4 DEF Owing
  <2>2. Len(wire) = 0
    BY <1>2
  <2>3. Asked = {}
    BY <2>2 DEF Asked
  <2> QED BY <2>1, <2>3, FS_EmptySet, SessionsAssumption DEF Init, CountInv
<1>9. ASSUME NEW tok \in TokenCommands PROVE TokenInv(tok) /\ ShieldInv(tok)
  BY DEF Init, TokenInv, ShieldInv, Held, NoToken
<1> QED BY <1>5, <1>6, <1>7, <1>8, <1>9 DEF IInv

LEMMA CallKeeps ==
  ASSUME IInv, NEW c \in Callers, NEW m \in Methods, Call(c, m)
  PROVE  IInv'
<1> DEFINE x == [phase |-> "queued", method |-> m, todo |-> Program(m), session |-> 0,
                 ref |-> now, own |-> TRUE]
<1>1. TypeOK /\ CallInv /\ CountInv
  BY DEF IInv
<1>2. x \in CallType
  BY <1>1, ProgramStarts, LockTypes DEF CallType
<1>3. /\ calls[c].phase \in {"idle", "returned", "raised"} /\ made < MaxCalls
      /\ made' = made + 1 /\ calls' = [calls EXCEPT ![c] = x]
      /\ UNCHANGED <<holder, wire, air, lock, adminPs, now, issued, sessions, gaveUp, drops>>
  BY DEF Call
<1> HIDE DEF x
<1>4. /\ calls' \in [Callers -> CallType] /\ calls'[c] = x
      /\ \A b \in Callers \ {c} : calls'[b] = calls[b]
  BY <1>1, <1>2, <1>3, CallChanges
<1>5. holder # c
  BY <1>1, <1>3 DEF CallInv
<1>6. SameCall
  BY <1>1, <1>3, <1>4, <1>5, HolderWaits DEF SameCall
<1>7. TypeOK'
  <2>1. made' \in Nat
    BY <1>1, <1>3, LockTypes
  <2>2. TypeOK
    BY <1>1
  <2> QED BY <1>3, <1>4, <2>1, <2>2, SMTT(30) DEF TypeOK, CallType
<1>8. CallInv'
  <2>1. /\ x.phase = "queued" /\ x.own /\ x.ref = now
        /\ Todo(x.method, x.todo) /\ x.todo[1] \notin Jobs \cup Seconds
    BY ProgramStarts DEF x
  <2>2. now <= now
    BY <1>1, LockTypes
  <2>3. holder' # NoOne => calls'[holder'].session = sessions'
    BY <1>1, <1>3, <1>6 DEF SameCall, CallInv
  <2> QED BY <1>1, <1>3, <1>4, <1>5, <2>1, <2>2, <2>3, OneCallMoves
<1>9. CountInv'
  <2>1. IsFiniteSet(Owing) /\ IsFiniteSet(Asked)
    BY <1>1 DEF CountInv
  <2>2. /\ IsFiniteSet(Owing \cup {c}) /\ Cardinality(Owing \cup {c}) <= Cardinality(Owing) + 1
        /\ Cardinality(Owing) \in Nat /\ Cardinality(Owing \cup {c}) \in Nat
    <3>1. /\ IsFiniteSet(Owing \cup {c}) /\ Cardinality(Owing) \in Nat
          /\ \/ Cardinality(Owing \cup {c}) = Cardinality(Owing)
             \/ Cardinality(Owing \cup {c}) = Cardinality(Owing) + 1
      BY <2>1, FS_AddElement, FS_CardinalityType
    <3> QED BY <3>1
  <2>3. IsFiniteSet(Owing') /\ Cardinality(Owing') <= Cardinality(Owing \cup {c})
        /\ Cardinality(Owing') \in Nat
    BY <1>1, <1>4, <2>2, OwingMoves, FS_Subset, FS_CardinalityType
  <2>4. Asked' = Asked /\ Cardinality(Asked) \in Nat
    BY <1>3, <2>1, FS_CardinalityType DEF Asked
  <2>5. issued' + Cardinality(Asked') + Cardinality(Owing') <= made'
    BY <1>1, <1>3, <2>2, <2>3, <2>4, LockTypes DEF CountInv
  <2>6. made' <= MaxCalls
    BY <1>1, <1>3, LockTypes, SessionsAssumption
  <2> QED BY <2>1, <2>3, <2>4, <2>5, <2>6 DEF CountInv
<1>10. /\ OrderInv' /\ CurrentInv' /\ EffectInv'
       /\ \A tok \in TokenCommands : TokenInv(tok)' /\ ShieldInv(tok)'
  <2>1. AirShrinks /\ WireShrinks
    BY <1>1, <1>3, AirMayShrink, WireMayShrink
  <2>2. sessions' \in Nat /\ sessions <= sessions' /\ now' \in Nat /\ now <= now'
    BY <1>1, <1>3, LockTypes
  <2> QED BY <1>3, <1>6, <2>1, <2>2, LockStays, QuietKeeps
<1> QED BY <1>7, <1>8, <1>9, <1>10 DEF IInv

(* A call ends: one that held the command lock, or one that queued for it.  *)
LEMMA EndKeeps ==
  ASSUME IInv, NEW c \in Callers, NEW p \in {"returned", "raised"}, NEW m \in Methods,
         NEW o \in BOOLEAN, m \in Gated => o,
         calls' = [calls EXCEPT ![c] = Over(p, m, o)],
         \/ holder \in {c, NoOne} /\ holder' = NoOne
         \/ holder # c /\ holder' = holder /\ sessions' = sessions,
         AirShrinks, air' \in Seq(Frame), sessions' \in Nat, sessions <= sessions',
         UNCHANGED <<wire, lock, adminPs, now, issued, made, drops>>, gaveUp' \in Nat
  PROVE  IInv'
<1>1. TypeOK /\ CallInv /\ CountInv
  BY DEF IInv
<1>2. /\ Over(p, m, o) \in CallType
      /\ Over(p, m, o).phase = p /\ Over(p, m, o).method = m /\ Over(p, m, o).own = o
  BY OverIsACall
<1>3. /\ calls' \in [Callers -> CallType] /\ calls'[c] = Over(p, m, o)
      /\ \A b \in Callers \ {c} : calls'[b] = calls[b]
  BY <1>1, <1>2, CallChanges
<1>4. holder' = NoOne \/ SameCall
  BY <1>1, <1>3, HolderWaits DEF SameCall
<1>5. TypeOK'
  BY <1>1, <1>3, LockTypes DEF TypeOK, CallType
<1>6. CallInv'
  <2>1. \A b \in Callers \ {c} : holder' = b <=> holder = b
    BY SessionsAssumption
  <2>2. holder' # NoOne => calls'[holder'].session = sessions'
    BY <1>1, <1>4 DEF SameCall, CallInv
  <2>3. holder' # c
    BY SessionsAssumption
  <2> QED BY <1>1, <1>2, <1>3, <2>1, <2>2, <2>3, OneCallMoves
<1>7. WireShrinks
  BY <1>1, WireMayShrink
<1>8. CountInv'
  <2>1. Owing' \subseteq Owing
    BY <1>1, <1>2, <1>3, OwingMoves
  <2> QED BY <1>1, <1>7, <2>1, AskedLoses, CountLoses
<1>9. /\ OrderInv' /\ CurrentInv' /\ EffectInv'
      /\ \A tok \in TokenCommands : TokenInv(tok)' /\ ShieldInv(tok)'
  <2>1. now' \in Nat /\ now <= now'
    BY <1>1, LockTypes
  <2> QED BY <1>4, <1>7, <2>1, LockStays, QuietKeeps
<1> QED BY <1>5, <1>6, <1>8, <1>9 DEF IInv

LEMMA GiveUpKeeps ==
  ASSUME IInv, NEW c \in Callers, GiveUp(c)
  PROVE  IInv'
<1>1. TypeOK
  BY DEF IInv
<1>2. /\ calls' = [calls EXCEPT ![c] = Over("raised", calls[c].method, TRUE)]
      /\ holder = c /\ holder' = NoOne /\ gaveUp' = gaveUp + 1
      /\ UNCHANGED <<wire, air, lock, adminPs, now, issued, sessions, made, drops>>
  BY DEF GiveUp, Raise
<1>3. AirShrinks /\ air' \in Seq(Frame)
  BY <1>1, <1>2, AirMayShrink DEF TypeOK
<1>4. sessions' \in Nat /\ sessions <= sessions' /\ gaveUp' \in Nat
  BY <1>1, <1>2, LockTypes
<1> QED BY <1>1, <1>2, <1>3, <1>4, CallTypes, EndKeeps

LEMMA WithdrawKeeps ==
  ASSUME IInv, NEW c \in Callers, Withdraw(c)
  PROVE  IInv'
<1>1. TypeOK /\ CallInv
  BY DEF IInv
<1>2. /\ calls' = [calls EXCEPT ![c] = Over("raised", calls[c].method, TRUE)]
      /\ calls[c].phase = "queued" /\ holder' = holder
      /\ UNCHANGED <<wire, air, lock, adminPs, now, issued, sessions, made, drops, gaveUp>>
  BY DEF Withdraw, counts
<1>3. AirShrinks /\ air' \in Seq(Frame)
  BY <1>1, <1>2, AirMayShrink DEF TypeOK
<1>4. sessions' \in Nat /\ sessions <= sessions' /\ gaveUp' \in Nat
  BY <1>1, <1>2, LockTypes
<1>5. holder # c
  BY <1>1, <1>2 DEF CallInv
<1> QED BY <1>1, <1>2, <1>3, <1>4, <1>5, CallTypes, EndKeeps

(* A step that no call notices.                                             *)
LEMMA LossKeeps ==
  ASSUME IInv, AirShrinks, WireShrinks, air' \in Seq(Frame), wire' \in Seq(Request),
         UNCHANGED <<holder, calls, adminPs, issued, sessions, made, gaveUp>>,
         now' \in 0..MaxTime, now <= now', drops' \in Nat,
         lock' \in [stored : [Settings -> Nat], skew : Int, admitted : BOOLEAN,
                    userToken : 0..(TOKENS - 1), adminToken : 0..(TOKENS - 1)],
         \A tok \in TokenCommands : (Held(tok))' \in {Held(tok), NoToken},
         lock'.stored = lock.stored, lock'.skew = lock.skew
  PROVE  IInv'
<1>1. TypeOK /\ CallInv /\ CountInv
  BY DEF IInv
<1>2. now' \in Nat
  BY SessionsAssumption
<1>3. TypeOK'
  BY <1>1 DEF TypeOK
<1>4. CallInv'
  BY <1>1, <1>2, CallsStay
<1>5. CountInv'
  BY <1>1, AskedLoses, OwingStays, CountLoses
<1>6. /\ OrderInv' /\ CurrentInv' /\ EffectInv'
      /\ \A tok \in TokenCommands : TokenInv(tok)' /\ ShieldInv(tok)'
  <2>1. SameCall
    BY DEF SameCall
  <2>2. sessions' \in Nat /\ sessions <= sessions'
    BY <1>1, LockTypes
  <2> QED BY <1>2, <2>1, <2>2, QuietKeeps
<1> QED BY <1>3, <1>4, <1>5, <1>6 DEF IInv

LEMMA DispatchKeeps ==
  ASSUME IInv, Dispatch
  PROVE  IInv'
<1>1. TypeOK
  BY DEF IInv
<1>2. /\ air # <<>> /\ air' = Tail(air)
      /\ UNCHANGED <<holder, calls, wire, lock, adminPs, now, issued, sessions, made,
                     gaveUp, drops>>
  BY DEF Dispatch, counts
<1>3. AirShrinks /\ WireShrinks /\ air' \in Seq(Frame) /\ wire' \in Seq(Request)
  BY <1>1, <1>2, AirTypes, AirMayShrink, WireMayShrink DEF TypeOK
<1>4. now' \in 0..MaxTime /\ now <= now' /\ drops' \in Nat
  BY <1>1, <1>2, LockTypes
<1>5. lock' \in [stored : [Settings -> Nat], skew : Int, admitted : BOOLEAN,
                 userToken : 0..(TOKENS - 1), adminToken : 0..(TOKENS - 1)]
  BY <1>1, <1>2 DEF TypeOK
<1> QED BY <1>2, <1>3, <1>4, <1>5, LockStays, LossKeeps

LEMMA RequestLostKeeps ==
  ASSUME IInv, RequestLost
  PROVE  IInv'
<1>1. TypeOK
  BY DEF IInv
<1>2. /\ wire # <<>> /\ wire' = Tail(wire)
      /\ UNCHANGED <<holder, calls, air, lock, adminPs, now, issued, sessions, made,
                     gaveUp, drops>>
  BY DEF RequestLost, counts
<1>3. AirShrinks /\ WireShrinks /\ air' \in Seq(Frame) /\ wire' \in Seq(Request)
  BY <1>1, <1>2, WireTypes, AirMayShrink, WireMayShrink DEF TypeOK
<1>4. now' \in 0..MaxTime /\ now <= now' /\ drops' \in Nat
  BY <1>1, <1>2, LockTypes
<1>5. lock' \in [stored : [Settings -> Nat], skew : Int, admitted : BOOLEAN,
                 userToken : 0..(TOKENS - 1), adminToken : 0..(TOKENS - 1)]
  BY <1>1, <1>2 DEF TypeOK
<1> QED BY <1>2, <1>3, <1>4, <1>5, LockStays, LossKeeps

LEMMA LinkDropsKeeps ==
  ASSUME IInv, LinkDrops
  PROVE  IInv'
<1>1. TypeOK
  BY DEF IInv
<1>2. /\ wire' = <<>> /\ drops' = drops + 1
      /\ lock' = [lock EXCEPT !.admitted = FALSE, !.userToken = NoToken,
                              !.adminToken = NoToken]
      /\ UNCHANGED <<holder, calls, adminPs, now, issued, sessions, made, gaveUp>>
  BY DEF LinkDrops
<1>3. AirShrinks /\ WireShrinks /\ air' \in Seq(Frame) /\ wire' \in Seq(Request)
  <2>1. PICK k \in 0..Len(air) : air' = SubSeq(air, 1, k)
    BY DEF LinkDrops
  <2>2. AirShrinks /\ WireShrinks
    BY <1>1, <1>2, <2>1, AirMayShrink, WireMayShrink
  <2>3. air' \in Seq(Frame)
    BY <1>1, <2>1, AirTypes DEF TypeOK
  <2> QED BY <1>2, <2>2, <2>3
<1>4. now' \in 0..MaxTime /\ now <= now' /\ drops' \in Nat
  BY <1>1, <1>2, LockTypes
<1>5. lock' \in [stored : [Settings -> Nat], skew : Int, admitted : BOOLEAN,
                 userToken : 0..(TOKENS - 1), adminToken : 0..(TOKENS - 1)]
  <2>1. NoToken \in 0..(TOKENS - 1)
    BY SessionsAssumption DEF NoToken
  <2> QED BY <1>1, <1>2, <2>1 DEF TypeOK
<1>6. \A tok \in TokenCommands : (Held(tok))' \in {Held(tok), NoToken}
  BY <1>1, <1>2 DEF TypeOK, Held
<1>7. lock'.stored = lock.stored /\ lock'.skew = lock.skew
  BY <1>1, <1>2 DEF TypeOK
<1> QED BY <1>2, <1>3, <1>4, <1>5, <1>6, <1>7, LossKeeps

LEMMA TickKeeps ==
  ASSUME IInv, Tick
  PROVE  IInv'
<1>1. TypeOK
  BY DEF IInv
<1>2. /\ now < MaxTime /\ now' = now + 1
      /\ UNCHANGED <<holder, calls, wire, air, lock, adminPs, issued, sessions, made,
                     gaveUp, drops>>
  BY DEF Tick, counts
<1>3. AirShrinks /\ WireShrinks /\ air' \in Seq(Frame) /\ wire' \in Seq(Request)
  BY <1>1, <1>2, AirMayShrink, WireMayShrink DEF TypeOK
<1>4. now' \in 0..MaxTime /\ now <= now' /\ drops' \in Nat
  BY <1>1, <1>2, LockTypes, SessionsAssumption
<1>5. lock' \in [stored : [Settings -> Nat], skew : Int, admitted : BOOLEAN,
                 userToken : 0..(TOKENS - 1), adminToken : 0..(TOKENS - 1)]
  BY <1>1, <1>2 DEF TypeOK
<1> QED BY <1>2, <1>3, <1>4, <1>5, LockStays, LossKeeps

----------------------------------------------------------------------------
(* A session starts: the first request of a queued call.                    *)
LEMMA SendTypes ==
  ASSUME TypeOK, NEW c \in Callers, NEW x \in CallType, calls' = [calls EXCEPT ![c] = x],
         NEW r \in Request, wire' = Append(wire, r), holder' = c,
         air' \in Seq(Frame), sessions' \in Nat,
         UNCHANGED <<lock, adminPs, now, issued, made, gaveUp, drops>>
  PROVE  TypeOK'
<1>1. calls' \in [Callers -> CallType]
  BY CallChanges
<1>2. wire' \in Seq(Request)
  BY DEF TypeOK
<1> QED BY <1>1, <1>2 DEF TypeOK, CallType

LEMMA SessionStarts ==
  ASSUME IInv, NEW c \in Callers, NEW x \in CallType, NEW r \in Request,
         calls[c].phase = "queued", holder = NoOne, holder' = c, sessions' = sessions + 1,
         calls' = [calls EXCEPT ![c] = x], x.phase = "waiting", x.session = sessions + 1,
         x.method = calls[c].method, x.todo = calls[c].todo, x.ref = calls[c].ref,
         x.own = calls[c].own,
         r.session = sessions + 1, r.left = Len(x.todo), r.cmd = x.todo[1],
         r.method = x.method, r.ref = x.ref, r.sum = Sum(0), wire' = Append(wire, r),
         UNCHANGED <<air, lock, adminPs, now, issued, made, gaveUp, drops>>
  PROVE  IInv'
<1>1. TypeOK /\ CallInv /\ CountInv /\ OrderInv
  BY DEF IInv
<1>2. /\ calls'[c] = x
      /\ \A b \in Callers \ {c} : calls'[b] = calls[b]
  BY <1>1, CallChanges
<1>3. /\ Todo(x.method, x.todo) /\ x.ref <= now
      /\ x.todo[1] \notin Jobs \cup Seconds
      /\ x.method \in Gated => x.own
  BY <1>1 DEF CallInv
<1>4. sessions \in Nat /\ sessions' \in Nat /\ sessions < sessions' /\ sessions <= sessions'
  BY <1>1, LockTypes
<1>5. holder' # NoOne /\ calls'[holder'] = x
  BY <1>2, SessionsAssumption
<1>6. \A i \in 1..Len(air) : air[i].session < sessions'
  BY <1>1, <1>4, AirTypes DEF OrderInv
<1>7. \A i \in 1..Len(wire) : wire[i].session < sessions'
  BY <1>1, <1>4, WireTypes DEF OrderInv
<1>8. AirShrinks
  BY <1>1, AirMayShrink
<1>9. TypeOK'
  <2>1. air' \in Seq(Frame)
    BY <1>1 DEF TypeOK
  <2> QED BY <1>1, <1>4, <2>1, SendTypes
<1>10. CallInv'
  <2>1. \A b \in Callers \ {c} : holder' = b <=> holder = b
    BY SessionsAssumption
  <2> QED BY <1>1, <1>2, <1>3, <1>5, <2>1, OneCallMoves
<1>11. OrderInv'
  <2>1. \A i \in 1..Len(air') : Before(air'[i], r)
    BY <1>6 DEF Before
  <2>2. \A i \in 1..Len(wire) : Before(wire[i], r)
    BY <1>7 DEF Before
  <2>3. r.session <= sessions'
    BY <1>4
  <2> QED BY <1>1, <1>4, <1>8, <2>1, <2>2, <2>3, OrderSends
<1>12. CurrentInv'
  <2>1. x.todo[1] \notin Jobs
    BY <1>3
  <2>2. \A i \in 1..Len(air') : (Fits(air[i]))' /\ (Alone(air[i]))'
    BY <1>4, <1>5, <1>6, <2>1, AirTypes, <1>1 DEF Fits, Alone, Jobs
  <2>3. \A i \in 1..Len(wire') :
          \/ i \in 1..Len(wire) /\ wire'[i] = wire[i] /\ wire[i].session < sessions'
          \/ wire'[i] = r
    BY <1>1, <1>7, WireGrows
  <2>4. Len(x.todo) \in Nat
    BY DEF CallType
  <2>5. \A i \in 1..Len(wire') : (Fits(wire[i]))' /\ (Alone(wire[i]))'
    <3> SUFFICES ASSUME NEW i \in 1..Len(wire')
                 PROVE  (Fits(wire[i]))' /\ (Alone(wire[i]))'
      OBVIOUS
    <3>1. CASE wire'[i] = r
      BY <1>5, <2>1, <2>4, <3>1 DEF Fits, Alone, Jobs
    <3>2. CASE i \in 1..Len(wire) /\ wire'[i] = wire[i] /\ wire[i].session < sessions'
      <4>1. wire'[i].session # sessions'
        BY <1>1, <1>4, <3>2, WireTypes
      <4> QED BY <1>5, <2>1, <4>1 DEF Fits, Alone, Jobs
    <3> QED BY <2>3, <3>1, <3>2
  <2>6. \A i \in 1..Len(wire') :
          wire'[i].session = sessions' => wire'[i].method = x.method /\ wire'[i].ref = x.ref
    BY <1>1, <1>4, <2>3, WireTypes
  <2> QED BY <1>5, <2>2, <2>5, <2>6 DEF CurrentInv
<1>13. EffectInv'
  BY <1>1, <1>4, <1>6, AirTypes DEF EffectInv
<1>14. CountInv'
  <2>1. CASE r.cmd \notin TokenCommands
    <3>1. Asked' \subseteq Asked
      BY <1>1, <2>1, AskedSends
    <3>2. Owing' \subseteq Owing
      BY <1>2 DEF Owing
    <3> QED BY <1>1, <3>1, <3>2, CountLoses
  <2>2. CASE r.cmd \in TokenCommands
    <3> DEFINE pair == <<r.session, r.left>>
    <3>1. Asked' \subseteq Asked \cup {pair}
      BY <1>1, AskedSends
    <3>2. Owing' \subseteq Owing \ {c} /\ c \in Owing
      BY <1>1, <1>2, <2>2, OwingMoves DEF Owing, TokenCommands
    <3> HIDE DEF pair
    <3>3. IsFiniteSet(Owing) /\ IsFiniteSet(Asked)
      BY <1>1 DEF CountInv
    <3>4. /\ IsFiniteSet(Asked \cup {pair}) /\ Cardinality(Asked) \in Nat
          /\ \/ Cardinality(Asked \cup {pair}) = Cardinality(Asked)
             \/ Cardinality(Asked \cup {pair}) = Cardinality(Asked) + 1
      BY <3>3, FS_AddElement, FS_CardinalityType
    <3>5. /\ IsFiniteSet(Asked') /\ Cardinality(Asked') \in Nat
          /\ Cardinality(Asked') <= Cardinality(Asked \cup {pair})
      BY <3>1, <3>4, FS_Subset, FS_CardinalityType
    <3>6. /\ IsFiniteSet(Owing \ {c}) /\ Cardinality(Owing) \in Nat
          /\ Cardinality(Owing \ {c}) = Cardinality(Owing) - 1
      BY <3>2, <3>3, FS_RemoveElement, FS_CardinalityType
    <3>7. /\ IsFiniteSet(Owing') /\ Cardinality(Owing') \in Nat
          /\ Cardinality(Owing') <= Cardinality(Owing \ {c})
      BY <3>2, <3>6, FS_Subset, FS_CardinalityType
    <3>8. Cardinality(Asked') <= Cardinality(Asked) + 1
      BY <3>4, <3>5
    <3>9. Cardinality(Owing') <= Cardinality(Owing) - 1
      BY <3>6, <3>7
    <3>10. issued' + Cardinality(Asked') + Cardinality(Owing') <= made' /\ made' <= MaxCalls
      <4>1. /\ issued + Cardinality(Asked) + Cardinality(Owing) <= made /\ made <= MaxCalls
            /\ issued \in Nat /\ made \in Nat
        BY <1>1, LockTypes DEF CountInv
      <4> QED BY <4>1, <3>4, <3>5, <3>6, <3>7, <3>8, <3>9
    <3> QED BY <3>5, <3>7, <3>10 DEF CountInv
  <2> QED BY <2>1, <2>2
<1>15. ASSUME NEW tok \in TokenCommands PROVE TokenInv(tok)' /\ ShieldInv(tok)'
  <2>1. r.cmd \notin Guarded(tok) /\ x.todo[1] \notin Guarded(tok)
    BY <1>3 DEF Guarded, Seconds
  <2>2. TokenInv(tok)
    BY <1>1, <1>15 DEF IInv
  <2>3. TokenInv(tok)'
    BY <1>1, <1>8, <1>15, <2>1, <2>2, TokenSends
  <2>4. ShieldInv(tok)'
    BY <1>5, <2>1 DEF ShieldInv, Guarded
  <2> QED BY <2>3, <2>4
<1> QED BY <1>9, <1>10, <1>11, <1>12, <1>13, <1>14, <1>15 DEF IInv

LEMMA AcquireKeeps ==
  ASSUME IInv, NEW c \in Callers, Acquire(c)
  PROVE  IInv'
<1>1. TypeOK /\ CallInv
  BY DEF IInv
<1>2. /\ calls[c].phase = "queued" /\ holder = NoOne /\ sessions' = sessions + 1
      /\ UNCHANGED <<air, lock, adminPs, now, issued, made, gaveUp, drops>>
  BY DEF Acquire
<1>3. AirShrinks /\ air' \in Seq(Frame)
  BY <1>1, <1>2, AirMayShrink DEF TypeOK
<1>4. sessions' \in Nat /\ sessions <= sessions' /\ gaveUp' \in Nat
  BY <1>1, <1>2, LockTypes
<1>5. CASE Raise(c)
  BY <1>1, <1>2, <1>3, <1>4, <1>5, CallTypes, EndKeeps DEF Raise
<1>6. CASE holder' = c /\ Send(c, [calls[c] EXCEPT !.session = sessions + 1], NoToken)
  <2> DEFINE call == [calls[c] EXCEPT !.session = sessions + 1]
             x == [call EXCEPT !.phase = "waiting"]
             r == [method |-> call.method, session |-> call.session,
                   left |-> Len(call.todo), cmd |-> Head(call.todo),
                   sum |-> Sum(NoToken), ref |-> call.ref]
  <2>1. calls[c] \in CallType
    BY <1>1, CallTypes DEF CallType
  <2>2. /\ x \in CallType /\ x.phase = "waiting" /\ x.session = sessions + 1
        /\ x.method = calls[c].method /\ x.todo = calls[c].todo /\ x.ref = calls[c].ref
        /\ x.own = calls[c].own
    BY <1>2, <1>4, <2>1 DEF CallType
  <2>3. calls' = [calls EXCEPT ![c] = x] /\ wire' = Append(wire, r)
    BY <1>6 DEF Send
  <2>4. /\ call.method = calls[c].method /\ call.session = sessions + 1
        /\ call.todo = calls[c].todo /\ call.ref = calls[c].ref
    BY <2>1 DEF CallType
  <2>5. /\ calls[c].todo \in Seq(Commands) /\ calls[c].method \in Methods
        /\ calls[c].ref \in Nat /\ Todo(calls[c].method, calls[c].todo)
    BY <1>1, <1>2, CallTypes DEF CallInv
  <2>6. Head(calls[c].todo) = calls[c].todo[1] /\ calls[c].todo[1] \in Commands
        /\ Len(calls[c].todo) \in Nat
    <3>1. Head(calls[c].todo) = calls[c].todo[1] /\ Len(calls[c].todo) >= 1
      BY <2>5, TodoGoesOn
    <3> QED BY <2>5, <3>1
  <2>7. Sum(NoToken) \in 0..(TOKENS - 1) /\ Sum(NoToken) = Sum(0)
    BY SumIsASum DEF NoToken
  <2> HIDE DEF x, call
  <2>8. r \in Request
    BY <1>2, <1>4, <2>4, <2>5, <2>6, <2>7 DEF Request
  <2>9. /\ r.session = sessions + 1 /\ r.left = Len(x.todo) /\ r.cmd = x.todo[1]
        /\ r.method = x.method /\ r.ref = x.ref /\ r.sum = Sum(0)
    BY <2>2, <2>4, <2>6, <2>7
  <2> HIDE DEF r
  <2> QED BY <1>2, <1>6, <2>2, <2>3, <2>8, <2>9, SessionStarts
<1> QED BY <1>5, <1>6 DEF Acquire

----------------------------------------------------------------------------
(* A session goes on: a reply is taken and the next request sent.           *)
GoesOn(c, x, r) ==
  /\ holder = c /\ holder' = c /\ sessions' = sessions
  /\ air # <<>> /\ air' = Tail(air)
  /\ air[1].status = "ok" /\ air[1].cmd = calls[c].todo[1]
  /\ calls' = [calls EXCEPT ![c] = x]
  /\ x.phase = "waiting" /\ x.session = calls[c].session /\ x.method = calls[c].method
  /\ x.ref = calls[c].ref /\ x.todo = Tail(calls[c].todo) /\ x.todo # <<>>
  /\ x.method \in Gated => x.own
  /\ wire' = Append(wire, r)
  /\ r.session = sessions /\ r.left = Len(x.todo) /\ r.cmd = x.todo[1]
  /\ r.method = x.method /\ r.ref = x.ref /\ r.sum = Sum(air[1].ps)
  /\ UNCHANGED <<lock, adminPs, now, issued, made, gaveUp, drops>>

LEMMA SessionGoesOn ==
  ASSUME IInv, NEW c \in Callers, NEW x \in CallType, NEW r \in Request, GoesOn(c, x, r)
  PROVE  IInv'
<1>1. TypeOK /\ CallInv /\ CountInv /\ OrderInv /\ CurrentInv
  BY DEF IInv
<1>2. /\ holder = c /\ holder' = c /\ sessions' = sessions
      /\ air[1].status = "ok" /\ air[1].cmd = calls[c].todo[1]
      /\ now' = now /\ issued' = issued /\ made' = made /\ lock' = lock
  BY DEF GoesOn
<1>3. air # <<>> /\ air' = Tail(air)
  BY DEF GoesOn
<1>4. wire' = Append(wire, r)
  BY DEF GoesOn
<1>5. /\ x.phase = "waiting" /\ x.session = calls[c].session /\ x.method = calls[c].method
      /\ x.ref = calls[c].ref
      /\ x.method \in Gated => x.own
  BY DEF GoesOn
<1>6. /\ r.session = sessions /\ r.left = Len(x.todo) /\ r.cmd = x.todo[1]
      /\ r.method = x.method /\ r.ref = x.ref /\ r.sum = Sum(air[1].ps)
  BY DEF GoesOn
<1>7. /\ calls'[c] = x
      /\ \A b \in Callers \ {c} : calls'[b] = calls[b]
  BY <1>1, CallChanges DEF GoesOn
<1>8. /\ holder # NoOne /\ holder' # NoOne /\ calls'[holder'] = x /\ calls'[holder] = x
      /\ calls[c].session = sessions /\ calls[c].ref <= now /\ calls[c].phase = "waiting"
  BY <1>1, <1>7, <1>2, HolderWaits, SessionsAssumption
<1> DEFINE todo == calls[c].todo
<1>9. todo \in Seq(Commands) /\ Todo(calls[c].method, todo) /\ Len(todo) \in Nat
  BY <1>1, <1>8, <1>2, HolderWaits
<1>10. /\ Len(todo) >= 2 /\ Len(x.todo) = Len(todo) - 1 /\ x.todo[1] = todo[2]
      /\ Todo(x.method, x.todo)
      /\ \/ todo[1] = "CHECK_USER_TIME" /\ todo[2] \in {"UNLOCK", "LOCK"}
         \/ todo[1] = "CHECK_ADMIN" /\ todo[2] = "CHECK_RANDOM"
         \/ todo[1] \in Jobs \cup {"CHECK_RANDOM"} /\ todo[2] \in Jobs
  <2>1. x.todo = Tail(todo) /\ x.todo # <<>> /\ x.method = calls[c].method
    BY DEF GoesOn
  <2> HIDE DEF todo
  <2> QED BY <1>9, <2>1, TodoGoesOn
<1>11. sessions \in Nat /\ sessions' \in Nat /\ sessions <= sessions'
  BY <1>1, <1>2, LockTypes
<1>12. AirShrinks /\ air' \in Seq(Frame)
  BY <1>1, <1>3, AirMayShrink, AirTypes
<1>13. /\ Len(air) >= 1 /\ Len(air') = Len(air) - 1
      /\ \A i \in 1..Len(air') : i + 1 \in 1..Len(air) /\ air'[i] = air[i + 1]
  BY <1>1, <1>3, AirTypes
<1> DEFINE Older(f) == f.session < sessions
           Handshaking(f) == /\ f.session = sessions /\ f.left = Len(todo)
                             /\ f.cmd \in TokenCommands /\ todo[2] \in Seconds
<1>14. /\ \A i \in 1..Len(air') : Older(air'[i]) \/ Handshaking(air'[i])
       /\ \A i \in 1..Len(wire) : Older(wire[i]) \/ Handshaking(wire[i])
  <2>1. CASE todo[1] \notin TokenCommands
    <3>1. todo[1] \in Seconds \cup Jobs
      BY <1>10, <2>1 DEF TokenCommands, Seconds
    <3>2. Len(air) = 1 /\ Len(wire) = 0
      BY <1>1, <1>8, <1>2, <1>3, <3>1, OwnReply DEF IInv
    <3> QED BY <1>13, <3>2
  <2>2. CASE todo[1] \in TokenCommands
    <3>1. todo[1] \notin Seconds /\ todo[2] \in Seconds
      BY <1>10, <2>2 DEF TokenCommands, Seconds, Jobs
    <3>2. ASSUME NEW i \in 1..Len(air) PROVE Older(air[i]) \/ Handshaking(air[i])
      <4>1. Fits(air[i]) /\ air[i].session <= sessions
        BY <1>1 DEF CurrentInv, OrderInv
      <4> QED BY <1>1, <1>8, <1>9, <1>11, <1>2, <2>2, <3>1, <4>1, AirTypes DEF Fits
    <3>3. ASSUME NEW i \in 1..Len(wire) PROVE Older(wire[i]) \/ Handshaking(wire[i])
      <4>1. Fits(wire[i]) /\ wire[i].session <= sessions
        BY <1>1 DEF CurrentInv, OrderInv
      <4> QED BY <1>1, <1>8, <1>9, <1>11, <1>2, <2>2, <3>1, <4>1, WireTypes DEF Fits
    <3> QED BY <1>13, <3>2, <3>3
  <2> QED BY <2>1, <2>2
<1>15. TypeOK'
  BY <1>1, <1>11, <1>12, SendTypes DEF GoesOn
<1>16. CallInv'
  <2>1. \A b \in Callers \ {c} : holder' = b <=> holder = b
    BY <1>2
  <2>2. calls'[c].method \in Gated => calls'[c].own
    BY <1>7, <1>5
  <2>3. /\ calls'[c].phase = "waiting" /\ calls'[holder'].session = sessions'
        /\ Todo(calls'[c].method, calls'[c].todo) /\ calls'[c].ref <= now
    BY <1>7, <1>8, <1>10, <1>2, <1>5
  <2> QED BY <1>1, <1>7, <1>2, <2>1, <2>2, <2>3, OneCallMoves
<1>17. OrderInv'
  <2>1. \A i \in 1..Len(air') : Before(air'[i], r)
    BY <1>9, <1>10, <1>14, <1>6 DEF Before
  <2>2. \A i \in 1..Len(wire) : Before(wire[i], r)
    BY <1>9, <1>10, <1>14, <1>6 DEF Before
  <2>3. r.session <= sessions'
    BY <1>11, <1>2, <1>6
  <2> QED BY <1>1, <1>11, <1>12, <1>4, <2>1, <2>2, <2>3, OrderSends
<1>18. CurrentInv'
  <2>1. ASSUME NEW f, Older(f) \/ Handshaking(f), f.session \in Nat
        PROVE  /\ f.session = sessions' =>
                    /\ f.left >= Len(x.todo) /\ f.left # Len(x.todo)
                    /\ f.left > Len(x.todo) =>
                         x.todo[1] \in Seconds /\ f.cmd \in TokenCommands
    BY <1>9, <1>10, <1>11, <1>2, <2>1
  <2>2. x.todo[1] \in Jobs => Len(air') = 0 /\ Len(wire) = 0
    <3>1. ASSUME x.todo[1] \in Jobs PROVE Len(air') = 0 /\ Len(wire) = 0
      <4>1. todo[1] \in Seconds \cup Jobs
        BY <1>10, <3>1 DEF Jobs, Seconds
      <4>2. Len(air) = 1 /\ Len(wire) = 0
        BY <1>1, <1>8, <1>2, <1>3, <4>1, OwnReply DEF IInv
      <4> QED BY <1>13, <4>2
    <3> QED BY <3>1
  <2>3. \A i \in 1..Len(wire') :
          \/ i \in 1..Len(wire) /\ wire'[i] = wire[i]
          \/ wire'[i] = r
    BY <1>1, <1>4, WireGrows
  <2>4. \A i \in 1..Len(air') : (Fits(air[i]))' /\ (Alone(air[i]))'
    <3> SUFFICES ASSUME NEW i \in 1..Len(air') PROVE (Fits(air[i]))' /\ (Alone(air[i]))'
      OBVIOUS
    <3>1. air'[i].session \in Nat /\ (Older(air'[i]) \/ Handshaking(air'[i]))
      BY <1>1, <1>13, <1>14, AirTypes
    <3>2. x.todo[1] \notin Jobs
      BY <2>2
    <3>3. (Alone(air[i]))'
      BY <1>8, <3>2 DEF Alone, Jobs
    <3>4. (Fits(air[i]))'
      BY <1>8, <2>1, <3>1 DEF Fits, Seconds, TokenCommands
    <3> QED BY <3>3, <3>4
  <2>5. \A i \in 1..Len(wire') :
          /\ (Fits(wire[i]))' /\ (Alone(wire[i]))'
          /\ wire'[i].session = sessions' /\ wire'[i].left = Len(x.todo) =>
               wire'[i].method = x.method /\ wire'[i].ref = x.ref
    <3> SUFFICES ASSUME NEW i \in 1..Len(wire')
                 PROVE  /\ (Fits(wire[i]))' /\ (Alone(wire[i]))'
                        /\ wire'[i].session = sessions' /\ wire'[i].left = Len(x.todo) =>
                             wire'[i].method = x.method /\ wire'[i].ref = x.ref
      OBVIOUS
    <3>1. CASE wire'[i] = r
      BY <1>8, <1>9, <1>10, <1>2, <1>6, <3>1 DEF Fits, Alone
    <3>2. CASE i \in 1..Len(wire) /\ wire'[i] = wire[i]
      <4>1. wire'[i].session \in Nat /\ (Older(wire'[i]) \/ Handshaking(wire'[i]))
        BY <1>1, <1>14, <3>2, WireTypes
      <4>2. x.todo[1] \notin Jobs
        BY <2>2, <3>2
      <4>3. (Alone(wire[i]))'
        BY <1>8, <4>2 DEF Alone, Jobs
      <4>4. (Fits(wire[i]))'
        BY <1>8, <2>1, <4>1 DEF Fits, Seconds, TokenCommands
      <4> QED BY <2>1, <4>1, <4>3, <4>4
    <3> QED BY <2>3, <3>1, <3>2
  <2> QED BY <1>8, <2>4, <2>5 DEF CurrentInv
<1>19. EffectInv'
  <2>1. \A i \in 1..Len(air') :
          ~(air'[i].session = sessions' /\ air'[i].left = Len(x.todo))
    BY <1>9, <1>10, <1>11, <1>14, <1>2
  <2> QED BY <1>8, <2>1 DEF EffectInv
<1>20. x.todo[1] \in Seconds \cup Jobs
  BY <1>10 DEF Seconds
<1>21. CountInv'
  <2>1. Asked' \subseteq Asked
    BY <1>1, <1>20, <1>4, <1>6, AskedSends DEF Seconds, Jobs, TokenCommands
  <2>2. Owing' \subseteq Owing
    <3>1. x.todo[1] # "GET_LOCK_TIME"
      BY <1>20 DEF Seconds, Jobs
    <3> QED BY <1>1, <1>7, <1>5, <3>1, OwingMoves
  <2> QED BY <1>1, <1>2, <2>1, <2>2, CountLoses
<1>22. ASSUME NEW tok \in TokenCommands PROVE TokenInv(tok)' /\ ShieldInv(tok)'
  <2>1. TokenInv(tok)
    BY <1>22 DEF IInv
  <2>2. 1 \in 1..Len(air) /\ air[1].ps \in 0..(TOKENS - 1) /\ issued \in Nat
    <3>1. 1 \in 1..Len(air)
      BY <1>1, <1>13, <1>3, AirTypes
    <3> QED BY <1>1, <3>1, AirTypes, LockTypes
  <2>3. x.todo[1] \in Guarded(tok) => todo[1] = tok /\ Carries(air[1], tok)
    BY <1>10, <1>22, <1>2 DEF Guarded, TokenCommands, Carries, Jobs
  <2>4. CASE x.todo[1] \in Guarded(tok)
    <3>1. air[1].ps \in 1..issued /\ (Held(tok) = NoToken \/ air[1].ps <= Held(tok))
      BY <2>1, <2>2, <2>3, <2>4 DEF TokenInv
    <3>2. \A i \in 1..Len(air) : 1 < i =>
            ~Passed(air[i], tok) /\ (Carries(air[i], tok) => air[1].ps < air[i].ps)
      BY <2>1, <2>2, <2>3, <2>4 DEF TokenInv
    <3>3. \A i \in 1..Len(air') :
            ~Passed(air'[i], tok) /\ (Carries(air'[i], tok) => air[1].ps < air'[i].ps)
      <4> SUFFICES ASSUME NEW i \in 1..Len(air')
                   PROVE  /\ ~Passed(air'[i], tok)
                          /\ Carries(air'[i], tok) => air[1].ps < air'[i].ps
        OBVIOUS
      <4>1. i + 1 \in 1..Len(air) /\ 1 < i + 1 /\ air'[i] = air[i + 1]
        BY <1>13
      <4> QED BY <3>2, <4>1
    <3>4. TokenInv(tok)'
      <4>1. air[1].ps \in 0..issued
        BY <3>1, <2>2
      <4> QED BY <1>1, <1>12, <1>22, <1>2, <1>4, <1>6, <2>1, <3>3, <4>1, TokenSends
    <3>5. (Held(tok))' = Held(tok)
      BY <1>2 DEF Held
    <3>6. \A j \in 1..Len(wire') :
            wire'[j].cmd \in Guarded(tok) /\ wire'[j].session < sessions' =>
              Held(tok) = NoToken \/ wire'[j].sum # Sum(Held(tok))
      <4> SUFFICES ASSUME NEW j \in 1..Len(wire'), wire'[j].cmd \in Guarded(tok),
                          wire'[j].session < sessions', Held(tok) # NoToken
                   PROVE  wire'[j].sum # Sum(Held(tok))
        OBVIOUS
      <4>1. j \in 1..Len(wire) /\ wire'[j] = wire[j]
        BY <1>1, <1>11, <1>2, <1>4, <1>6, WireGrows
      <4>2. PICK u \in 0..issued : wire[j].sum = Sum(u) /\ u < air[1].ps
        BY <2>1, <2>2, <2>3, <2>4, <4>1 DEF TokenInv
      <4>3. u \in 0..(TOKENS - 1) /\ u # Held(tok)
        <5>1. issued \in 0..(TOKENS - 1) /\ Held(tok) \in Nat /\ TOKENS \in Nat
          BY <1>1, <1>22, LockTypes, SessionsAssumption
        <5> QED BY <3>1, <4>2, <5>1
      <4> QED BY <1>1, <1>22, <4>1, <4>2, <4>3, LockTypes, SumInjective
    <3>7. ShieldInv(tok)'
      BY <1>8, <1>2, <3>3, <3>5, <3>6 DEF ShieldInv, Passed, Guarded, Sum
    <3> QED BY <3>4, <3>7
  <2>5. CASE x.todo[1] \notin Guarded(tok)
    <3>1. TokenInv(tok)'
      BY <1>1, <1>12, <1>22, <1>2, <1>4, <1>6, <2>1, <2>5, TokenSends
    <3>2. ShieldInv(tok)'
      BY <1>8, <2>5 DEF ShieldInv, Guarded
    <3> QED BY <3>1, <3>2
  <2> QED BY <2>4, <2>5
<1> QED BY <1>15, <1>16, <1>17, <1>18, <1>19, <1>21, <1>22 DEF IInv

----------------------------------------------------------------------------
(* A reply is taken.                                                        *)
LEMMA GatedTodo ==
  ASSUME NEW m \in Gated, NEW todo \in Seq(Commands), Todo(m, todo)
  PROVE  todo[1] \in Handshakes \cup Seconds \cup Jobs
<1>1. ~OpenTodo(m, todo)
  BY DEF OpenTodo, Open, Gated, Bolt, Sound, AutoLock, Passcodes
<1>2. CASE UserTodo(m, todo)
  BY <1>2 DEF UserTodo, Handshakes, Seconds
<1>3. CASE AdminTodo(m, todo)
  <2>1. PICK k \in 1..3 :
          /\ JobsFrom(m, todo, k)
          /\ k > 1 => todo[k - 1] = "CHECK_RANDOM"
          /\ k = 3 => todo[1] = "CHECK_ADMIN"
    BY <1>3 DEF AdminTodo
  <2>2. CASE k = 1
    <3>1. Len(todo) \in Nat
      OBVIOUS
    <3> QED BY <2>1, <2>2, <3>1 DEF JobsFrom
  <2>3. CASE k = 2
    BY <2>1, <2>3 DEF Handshakes
  <2>4. CASE k = 3
    BY <2>1, <2>4 DEF Handshakes
  <2> QED BY <2>2, <2>3, <2>4
<1> QED BY <1>1, <1>2, <1>3 DEF Todo

LEMMA GatedReply ==
  ASSUME IInv, holder # NoOne, air # <<>>, air[1].status = "ok",
         air[1].cmd = calls[holder].todo[1], calls[holder].method \in Gated
  PROVE  air[1].cmd \in Handshakes \/ Answered(air[1], calls[holder])
<1>1. TypeOK /\ CallInv /\ OrderInv /\ CurrentInv /\ \A tok \in TokenCommands : ShieldInv(tok)
  BY DEF IInv
<1>2. air[1].cmd \in Handshakes \cup Seconds \cup Jobs
  BY <1>1, HolderWaits, GatedTodo
<1>3. CASE air[1].cmd \in Seconds \cup Jobs
  <2>1. air[1].session = sessions /\ air[1].left = Len(calls[holder].todo)
    BY <1>1, <1>3, OwnReply
  <2>2. calls[holder].session = sessions
    BY <1>1 DEF CallInv
  <2> QED BY <2>1, <2>2 DEF Answered
<1> QED BY <1>2, <1>3

(* sync_time queues again for calibrate_time.                               *)
LEMMA RecalibrateKeeps ==
  ASSUME IInv, NEW c \in Callers, NEW x \in CallType, holder = c, holder' = NoOne,
         air # <<>>, air' = Tail(air), calls' = [calls EXCEPT ![c] = x],
         calls[c].method = "sync_time", calls[c].todo[1] = "GET_LOCK_TIME",
         x.phase = "queued", x.method = "sync_time", x.todo = CalibrateProgram,
         x.ref = calls[c].ref,
         UNCHANGED <<wire, lock, adminPs, now, issued, sessions, made, gaveUp, drops>>
  PROVE  IInv'
<1>1. TypeOK /\ CallInv /\ CountInv
  BY DEF IInv
<1>2. /\ calls' \in [Callers -> CallType] /\ calls'[c] = x
      /\ \A b \in Callers \ {c} : calls'[b] = calls[b]
  BY <1>1, CallChanges
<1>3. calls[c].phase = "waiting" /\ calls[c].ref <= now
  BY <1>1, HolderWaits, SessionsAssumption
<1>4. AirShrinks /\ WireShrinks /\ air' \in Seq(Frame)
  BY <1>1, AirTypes, AirMayShrink, WireMayShrink
<1>5. TypeOK'
  BY <1>1, <1>2, <1>4 DEF TypeOK, CallType
<1>6. CallInv'
  <2>1. \A b \in Callers \ {c} : holder' = b <=> holder = b
    BY SessionsAssumption
  <2>2. /\ Todo(x.method, x.todo) /\ x.todo[1] \notin Jobs \cup Seconds
        /\ x.method \notin Gated /\ holder' # c
    BY CalibrateStarts, SessionsAssumption
       DEF Jobs, Seconds, Gated, Bolt, Sound, AutoLock, Passcodes
  <2> QED BY <1>1, <1>2, <1>3, <2>1, <2>2, OneCallMoves
<1>7. CountInv'
  <2>1. c \in Owing
    BY <1>3 DEF Owing
  <2>2. Owing' \subseteq Owing
    BY <1>1, <1>2, <2>1, OwingMoves
  <2> QED BY <1>1, <1>4, <2>2, AskedLoses, CountLoses
<1>8. /\ OrderInv' /\ CurrentInv' /\ EffectInv'
      /\ \A tok \in TokenCommands : TokenInv(tok)' /\ ShieldInv(tok)'
  <2>1. sessions' \in Nat /\ sessions <= sessions' /\ now' \in Nat /\ now <= now'
    BY <1>1, LockTypes
  <2> QED BY <1>4, <2>1, LockStays, QuietKeeps
<1> QED BY <1>5, <1>6, <1>7, <1>8 DEF IInv

LEMMA TakeReplyKeeps ==
  ASSUME IInv, NEW c \in Callers, TakeReply(c)
  PROVE  IInv'
<1> DEFINE frame == Head(air)
           o == calls[c].own /\ (frame.cmd \in Handshakes \/ Answered(frame, calls[c]))
           call == [calls[c] EXCEPT !.own = o]
<1>1. TypeOK /\ CallInv
  BY DEF IInv
<1>2. /\ holder = c /\ air # <<>> /\ air' = Tail(air) /\ Answers(frame, Head(call.todo))
      /\ UNCHANGED <<lock, adminPs, now, issued, sessions, made, gaveUp, drops>>
  BY DEF TakeReply
<1>3. IF ~Parses(call, frame) THEN Raise(c)
      ELSE IF Tail(call.todo) # <<>>
           THEN Send(c, [call EXCEPT !.todo = Tail(call.todo)], frame.ps) /\ UNCHANGED holder
      ELSE IF Drifts(call, frame) THEN Recalibrate(c, call)
      ELSE Return(c, call)
  BY DEF TakeReply
<1>4. frame = air[1]
  BY <1>1, <1>2, AirTypes
<1>5. /\ calls[c] \in CallType /\ calls[c].method \in Methods
      /\ calls[c].todo \in Seq(Commands) /\ calls[c].ref \in Nat
      /\ calls[c].session \in Nat /\ calls[c].own \in BOOLEAN
  BY <1>1, CallTypes DEF CallType
<1>6. o \in BOOLEAN
  BY <1>5
<1>7. holder # NoOne /\ calls[c].session = sessions /\ Todo(calls[c].method, calls[c].todo)
  BY <1>1, <1>2, HolderWaits, SessionsAssumption
<1>8. Head(calls[c].todo) = calls[c].todo[1] /\ Len(calls[c].todo) >= 1
  BY <1>5, <1>7, TodoGoesOn
<1>9. ASSUME Parses(call, frame), calls[c].method # "query_state"
      PROVE  /\ air[1].status = "ok" /\ air[1].cmd = calls[c].todo[1]
             /\ calls[c].method \in Gated => o
  <2>1. call.method = calls[c].method /\ call.todo = calls[c].todo
    BY <1>5 DEF CallType
  <2>2. frame.status = "ok"
    BY <1>9, <2>1 DEF Parses
  <2>3. frame.cmd = Head(calls[c].todo)
    BY <1>2, <2>1, <2>2 DEF Answers
  <2>4. air[1].status = "ok" /\ air[1].cmd = calls[c].todo[1]
    BY <1>4, <1>8, <2>2, <2>3
  <2>5. ASSUME calls[c].method \in Gated PROVE o
    <3>1. calls[c].own
      BY <1>1, <2>5 DEF CallInv
    <3>2. air[1].cmd \in Handshakes \/ Answered(air[1], calls[c])
      BY <1>2, <1>7, <2>4, <2>5, GatedReply
    <3> QED BY <1>4, <3>1, <3>2
  <2> QED BY <2>4, <2>5
<1> HIDE DEF o
<1>10. /\ call \in CallType /\ call.method = calls[c].method /\ call.todo = calls[c].todo
       /\ call.session = calls[c].session /\ call.ref = calls[c].ref /\ call.own = o
  BY <1>5, <1>6 DEF CallType
<1> HIDE DEF call
<1>11. AirShrinks /\ air' \in Seq(Frame)
  BY <1>1, <1>2, AirTypes, AirMayShrink
<1>12. sessions' \in Nat /\ sessions <= sessions' /\ gaveUp' \in Nat
  BY <1>1, <1>2, LockTypes
<1>13. "query_state" \notin Gated
  BY DEF Gated, Bolt, Sound, AutoLock, Passcodes
<1>14. CASE ~Parses(call, frame)
  <2>1. Raise(c)
    BY <1>3, <1>14
  <2> QED BY <1>2, <1>5, <1>11, <1>12, <2>1, EndKeeps DEF Raise
<1>15. CASE Parses(call, frame) /\ Tail(call.todo) # <<>>
  <2> DEFINE y == [call EXCEPT !.todo = Tail(call.todo)]
             x == [y EXCEPT !.phase = "waiting"]
             r == [method |-> y.method, session |-> y.session, left |-> Len(y.todo),
                   cmd |-> Head(y.todo), sum |-> Sum(frame.ps), ref |-> y.ref]
  <2>1. Send(c, y, frame.ps) /\ UNCHANGED holder
    BY <1>3, <1>15
  <2>2. /\ Tail(calls[c].todo) \in Seq(Commands) /\ calls[c].method # "query_state"
        /\ Todo(calls[c].method, Tail(calls[c].todo))
    BY <1>5, <1>7, <1>10, <1>15, TodoGoesOn DEF Open
  <2>3. /\ y \in CallType /\ y.method = calls[c].method /\ y.todo = Tail(calls[c].todo)
        /\ y.session = sessions /\ y.ref = calls[c].ref /\ y.own = o
    BY <1>7, <1>10, <2>2 DEF CallType
  <2> HIDE DEF y
  <2>4. /\ x \in CallType /\ x.phase = "waiting" /\ x.method = calls[c].method
        /\ x.todo = Tail(calls[c].todo) /\ x.session = sessions /\ x.ref = calls[c].ref
        /\ x.own = o
    BY <2>3 DEF CallType
  <2>5. calls' = [calls EXCEPT ![c] = x] /\ wire' = Append(wire, r)
    BY <2>1 DEF Send
  <2> HIDE DEF x
  <2>6. /\ Head(Tail(calls[c].todo)) = Tail(calls[c].todo)[1]
        /\ Tail(calls[c].todo)[1] \in Commands /\ Len(Tail(calls[c].todo)) \in Nat
    <3>1. Head(Tail(calls[c].todo)) = Tail(calls[c].todo)[1] /\ Len(Tail(calls[c].todo)) >= 1
      BY <2>2, TodoGoesOn
    <3> DEFINE rest == Tail(calls[c].todo)
    <3>2. rest \in Seq(Commands) /\ Len(rest) >= 1
      BY <2>2, <3>1
    <3> HIDE DEF rest
    <3>3. rest[1] \in Commands /\ Len(rest) \in Nat
      BY <3>2
    <3> QED BY <3>1, <3>3 DEF rest
  <2>7. Sum(frame.ps) \in 0..(TOKENS - 1)
    <3>1. air # <<>> /\ 1 \in 1..Len(air)
      BY <1>1, <1>2, AirTypes
    <3>2. air[1].ps \in Nat
      BY <1>1, <3>1, AirTypes
    <3>3. frame.ps \in Nat
      BY <1>4, <3>2
    <3> HIDE DEF frame
    <3> QED BY <3>3, SumIsASum
  <2>8. sessions \in Nat
    BY <1>1, LockTypes
  <2>9. r \in Request
    BY <1>5, <2>3, <2>6, <2>7, <2>8 DEF Request
  <2>10. /\ r.session = sessions /\ r.left = Len(x.todo) /\ r.cmd = x.todo[1]
         /\ r.method = x.method /\ r.ref = x.ref /\ r.sum = Sum(air[1].ps)
    BY <1>4, <2>3, <2>4, <2>6
  <2> HIDE DEF r
  <2>11. /\ air[1].status = "ok" /\ air[1].cmd = calls[c].todo[1]
         /\ x.method \in Gated => x.own
    BY <1>9, <1>15, <2>2, <2>4
  <2>12. GoesOn(c, x, r)
    <3>1. x.todo # <<>> /\ x.session = calls[c].session
      BY <1>7, <1>10, <1>15, <2>4
    <3> QED BY <1>2, <2>1, <2>4, <2>5, <2>10, <2>11, <3>1 DEF GoesOn
  <2> QED BY <2>4, <2>9, <2>12, SessionGoesOn
<1>16. CASE Parses(call, frame) /\ Tail(call.todo) = <<>> /\ Drifts(call, frame)
  <2> DEFINE x == [call EXCEPT !.phase = "queued", !.todo = CalibrateProgram]
  <2>1. Recalibrate(c, call)
    BY <1>3, <1>16
  <2>2. calls[c].method = "sync_time" /\ calls[c].todo[1] = "GET_LOCK_TIME"
    BY <1>8, <1>10, <1>16 DEF Drifts
  <2>3. /\ x \in CallType /\ x.phase = "queued" /\ x.method = "sync_time"
        /\ x.todo = CalibrateProgram /\ x.ref = calls[c].ref
    BY <1>10, <2>2, CalibrateStarts DEF CallType
  <2>4. calls' = [calls EXCEPT ![c] = x] /\ holder' = NoOne /\ wire' = wire
    BY <2>1 DEF Recalibrate
  <2> HIDE DEF x
  <2> QED BY <1>2, <2>2, <2>3, <2>4, RecalibrateKeeps
<1>17. CASE Parses(call, frame) /\ Tail(call.todo) = <<>> /\ ~Drifts(call, frame)
  <2>1. Return(c, call)
    BY <1>3, <1>17
  <2>2. /\ holder' = NoOne /\ wire' = wire
        /\ calls' = [calls EXCEPT ![c] = Over("returned", calls[c].method, o)]
    BY <1>10, <2>1 DEF Return
  <2>3. calls[c].method \in Gated => o
    BY <1>9, <1>13, <1>17
  <2> QED BY <1>2, <1>5, <1>6, <1>11, <1>12, <2>2, <2>3, EndKeeps
<1> QED BY <1>14, <1>15, <1>16, <1>17

----------------------------------------------------------------------------
(* The lock's steps.                                                        *)
(* The first request is done with; f, the reply to it, may get through.     *)
Responds(f) ==
  /\ wire # <<>> /\ wire' = Tail(wire) /\ air' \in {air, Append(air, f)}
  /\ f.session = wire[1].session /\ f.left = wire[1].left /\ f.cmd = wire[1].cmd

LEMMA AirGrows ==
  ASSUME TypeOK, NEW f \in Frame, Responds(f)
  PROVE  /\ \A i \in 1..Len(air') : i \in 1..Len(air) \/ i = Len(air) + 1
         /\ \A i \in 1..Len(air') : i \in 1..Len(air) => air'[i] = air[i]
         /\ \A i \in 1..Len(air') : i = Len(air) + 1 => air'[i] = f
<1>1. air \in Seq(Frame)
  BY DEF TypeOK
<1>2. CASE air' = air
  BY <1>1, <1>2
<1>3. CASE air' = Append(air, f)
  BY <1>1, <1>3
<1> QED BY <1>2, <1>3 DEF Responds

LEMMA OrderAnswers ==
  ASSUME TypeOK, OrderInv, NEW f \in Frame, Responds(f), sessions' = sessions
  PROVE  OrderInv'
<1>1. /\ 1 \in 1..Len(wire) /\ Len(wire') = Len(wire) - 1
      /\ \A i \in 1..Len(wire') : i + 1 \in 1..Len(wire) /\ wire'[i] = wire[i + 1]
  BY WireTypes DEF Responds
<1>2. /\ \A i \in 1..Len(air') : i \in 1..Len(air) \/ i = Len(air) + 1
      /\ \A i \in 1..Len(air') : i \in 1..Len(air) => air'[i] = air[i]
      /\ \A i \in 1..Len(air') : i = Len(air) + 1 => air'[i] = f
  BY AirGrows
<1>3. /\ f.session = wire[1].session /\ f.left = wire[1].left /\ f.cmd = wire[1].cmd
  BY DEF Responds
<1>4. \A i, j \in 1..Len(air') : i < j => Before(air'[i], air'[j])
  <2> SUFFICES ASSUME NEW i \in 1..Len(air'), NEW j \in 1..Len(air'), i < j
               PROVE  Before(air'[i], air'[j])
    OBVIOUS
  <2>1. i \in 1..Len(air) /\ air'[i] = air[i]
    BY <1>2, AirTypes
  <2>2. CASE j \in 1..Len(air)
    BY <1>2, <2>1, <2>2 DEF OrderInv
  <2>3. CASE j = Len(air) + 1
    <3>1. Before(air[i], wire[1])
      BY <1>1, <2>1 DEF OrderInv
    <3> QED BY <1>2, <1>3, <2>1, <2>3, <3>1 DEF Before
  <2> QED BY <1>2, <2>2, <2>3
<1>5. \A i, j \in 1..Len(wire') : i < j => Before(wire'[i], wire'[j])
  <2> SUFFICES ASSUME NEW i \in 1..Len(wire'), NEW j \in 1..Len(wire'), i < j
               PROVE  Before(wire'[i], wire'[j])
    OBVIOUS
  <2>1. i + 1 < j + 1
    OBVIOUS
  <2> QED BY <1>1, <2>1 DEF OrderInv
<1>6. \A i \in 1..Len(air'), j \in 1..Len(wire') : Before(air'[i], wire'[j])
  <2> SUFFICES ASSUME NEW i \in 1..Len(air'), NEW j \in 1..Len(wire')
               PROVE  Before(air'[i], wire'[j])
    OBVIOUS
  <2>1. CASE i \in 1..Len(air)
    BY <1>1, <1>2, <2>1 DEF OrderInv
  <2>2. CASE i = Len(air) + 1
    <3>1. j + 1 \in 1..Len(wire) /\ 1 < j + 1 /\ wire'[j] = wire[j + 1]
      BY <1>1
    <3>2. Before(wire[1], wire[j + 1])
      BY <1>1, <3>1 DEF OrderInv
    <3> QED BY <1>2, <1>3, <2>2, <3>1, <3>2 DEF Before
  <2> QED BY <1>2, <2>1, <2>2
<1>7. \A i \in 1..Len(air') : air'[i].session <= sessions'
  <2> SUFFICES ASSUME NEW i \in 1..Len(air') PROVE air'[i].session <= sessions
    OBVIOUS
  <2>1. CASE i \in 1..Len(air)
    BY <1>2, <2>1 DEF OrderInv
  <2>2. CASE i = Len(air) + 1
    BY <1>1, <1>2, <1>3, <2>2 DEF OrderInv
  <2> QED BY <1>2, <2>1, <2>2
<1>8. \A i \in 1..Len(wire') : wire'[i].session <= sessions'
  BY <1>1 DEF OrderInv
<1> QED BY <1>4, <1>5, <1>6, <1>7, <1>8 DEF OrderInv, Before

LEMMA CurrentAnswers ==
  ASSUME TypeOK, CurrentInv, NEW f \in Frame, Responds(f), calls' = calls, holder' = holder,
         sessions' = sessions
  PROVE  CurrentInv'
<1>1. /\ 1 \in 1..Len(wire)
      /\ \A i \in 1..Len(wire') : i + 1 \in 1..Len(wire) /\ wire'[i] = wire[i + 1]
  BY WireTypes DEF Responds
<1>2. /\ \A i \in 1..Len(air') : i \in 1..Len(air) => air'[i] = air[i]
      /\ \A i \in 1..Len(air') : i \in 1..Len(air) \/ air'[i] = f
  BY AirGrows
<1>3. f.session = wire[1].session /\ f.left = wire[1].left /\ f.cmd = wire[1].cmd
  BY DEF Responds
<1>4. \A i \in 1..Len(air') : (Fits(air[i]))' /\ (Alone(air[i]))'
  <2> SUFFICES ASSUME NEW i \in 1..Len(air') PROVE (Fits(air[i]))' /\ (Alone(air[i]))'
    OBVIOUS
  <2>1. CASE i \in 1..Len(air)
    <3>1. Fits(air[i]) /\ Alone(air[i]) /\ air'[i] = air[i]
      BY <1>2, <2>1 DEF CurrentInv
    <3> QED BY <3>1 DEF Fits, Alone
  <2>2. CASE air'[i] = f
    <3>1. Fits(wire[1]) /\ Alone(wire[1])
      BY <1>1 DEF CurrentInv
    <3> QED BY <1>3, <2>2, <3>1 DEF Fits, Alone
  <2> QED BY <1>2, <2>1, <2>2
<1>5. \A i \in 1..Len(wire') : (Fits(wire[i]))' /\ (Alone(wire[i]))'
  <2> SUFFICES ASSUME NEW i \in 1..Len(wire') PROVE (Fits(wire[i]))' /\ (Alone(wire[i]))'
    OBVIOUS
  <2>1. Fits(wire[i + 1]) /\ Alone(wire[i + 1]) /\ wire'[i] = wire[i + 1]
    BY <1>1 DEF CurrentInv
  <2> QED BY <2>1 DEF Fits, Alone
<1>6. \A i \in 1..Len(wire') :
        holder # NoOne /\ wire'[i].session = sessions
          /\ wire'[i].left = Len(calls[holder].todo) =>
        wire'[i].method = calls[holder].method /\ wire'[i].ref = calls[holder].ref
  BY <1>1 DEF CurrentInv
<1> QED BY <1>4, <1>5, <1>6 DEF CurrentInv

(* What the lock holds after it, for a token that was just given or not.    *)
LEMMA TokenAnswers ==
  ASSUME TypeOK, NEW tok \in TokenCommands, TokenInv(tok), NEW f \in Frame, Responds(f),
         issued <= issued', issued' \in 0..(TOKENS - 1),
         \/ (Held(tok))' = Held(tok)
         \/ (Held(tok))' = issued' /\ issued < issued',
         Carries(f, tok) => f.ps = issued' /\ issued < issued' /\ (Held(tok))' = issued',
         Passed(f, tok) => Held(tok) # NoToken /\ wire[1].sum = Sum(Held(tok))
  PROVE  TokenInv(tok)'
<1>1. /\ 1 \in 1..Len(wire)
      /\ \A i \in 1..Len(wire') : i + 1 \in 1..Len(wire) /\ wire'[i] = wire[i + 1]
  BY WireTypes DEF Responds
<1>2. /\ \A i \in 1..Len(air') : i \in 1..Len(air) \/ i = Len(air) + 1
      /\ \A i \in 1..Len(air') : i \in 1..Len(air) => air'[i] = air[i]
      /\ \A i \in 1..Len(air') : i = Len(air) + 1 => air'[i] = f
  BY AirGrows
<1>3. /\ issued \in Nat /\ issued' \in Nat /\ TOKENS \in Nat /\ Len(air) \in Nat
      /\ Held(tok) \in 0..(TOKENS - 1) /\ Held(tok) \in 0..issued /\ Held(tok) \in Nat
  BY LockTypes, AirTypes, SessionsAssumption DEF TokenInv
<1>4. (Held(tok))' \in 0..issued'
  BY <1>3
<1>5. \A i \in 1..Len(air') : Carries(air'[i], tok) =>
        air'[i].ps \in 1..issued' /\ ((Held(tok))' = NoToken \/ air'[i].ps <= (Held(tok))')
  <2> SUFFICES ASSUME NEW i \in 1..Len(air'), Carries(air'[i], tok)
               PROVE  /\ air'[i].ps \in 1..issued'
                      /\ (Held(tok))' = NoToken \/ air'[i].ps <= (Held(tok))'
    OBVIOUS
  <2>1. CASE i \in 1..Len(air)
    <3>1. air[i].ps \in 1..issued /\ (Held(tok) = NoToken \/ air[i].ps <= Held(tok))
      BY <1>2, <2>1 DEF TokenInv
    <3> QED BY <1>2, <1>3, <2>1, <3>1
  <2>2. CASE i = Len(air) + 1
    <3>1. Carries(f, tok)
      BY <1>2, <2>2
    <3> QED BY <1>2, <1>3, <2>2, <3>1
  <2> QED BY <1>2, <2>1, <2>2
<1>6. \A i, j \in 1..Len(air') : i < j /\ Carries(air'[i], tok) =>
        ~Passed(air'[j], tok) /\ (Carries(air'[j], tok) => air'[i].ps < air'[j].ps)
  <2> SUFFICES ASSUME NEW i \in 1..Len(air'), NEW j \in 1..Len(air'), i < j,
                      Carries(air'[i], tok)
               PROVE  /\ ~Passed(air'[j], tok)
                      /\ Carries(air'[j], tok) => air'[i].ps < air'[j].ps
    OBVIOUS
  <2>1. i \in 1..Len(air) /\ air'[i] = air[i]
    BY <1>2, <1>3
  <2>2. CASE j \in 1..Len(air)
    <3>1. air'[j] = air[j]
      BY <1>2, <2>2
    <3> QED BY <2>1, <2>2, <3>1 DEF TokenInv
  <2>3. CASE j = Len(air) + 1
    <3>1. air'[j] = f
      BY <1>2, <2>3
    <3>2. air[i].ps \in 1..issued /\ (Held(tok) = NoToken \/ air[i].ps <= Held(tok))
      BY <2>1 DEF TokenInv
    <3>3. ~Passed(f, tok)
      <4> SUFFICES ASSUME Passed(f, tok) PROVE FALSE
        OBVIOUS
      <4>1. wire[1].cmd \in Guarded(tok) /\ wire[1].sum = Sum(Held(tok)) /\ Held(tok) # NoToken
        BY DEF Passed, Responds
      <4>2. PICK u \in 0..issued : wire[1].sum = Sum(u) /\ u < air[i].ps
        BY <1>1, <2>1, <4>1 DEF TokenInv
      <4>3. u \in 0..(TOKENS - 1) /\ u # Held(tok)
        BY <1>3, <3>2, <4>1, <4>2
      <4> QED BY <1>3, <4>1, <4>2, <4>3, SumInjective
    <3>4. Carries(f, tok) => air[i].ps < f.ps
      BY <1>3, <3>2
    <3> QED BY <2>1, <3>1, <3>3, <3>4
  <2> QED BY <1>2, <2>2, <2>3
<1>7. \A j \in 1..Len(wire') : wire'[j].cmd \in Guarded(tok) =>
        \E u \in 0..issued' :
          /\ wire'[j].sum = Sum(u)
          /\ \A i \in 1..Len(air') : Carries(air'[i], tok) => u < air'[i].ps
  <2> SUFFICES ASSUME NEW j \in 1..Len(wire'), wire'[j].cmd \in Guarded(tok)
               PROVE  \E u \in 0..issued' :
                        /\ wire'[j].sum = Sum(u)
                        /\ \A i \in 1..Len(air') : Carries(air'[i], tok) => u < air'[i].ps
    OBVIOUS
  <2>1. PICK u \in 0..issued :
          /\ wire'[j].sum = Sum(u)
          /\ \A i \in 1..Len(air) : Carries(air[i], tok) => u < air[i].ps
    BY <1>1 DEF TokenInv
  <2>2. \A i \in 1..Len(air') : Carries(air'[i], tok) => u < air'[i].ps
    <3> SUFFICES ASSUME NEW i \in 1..Len(air'), Carries(air'[i], tok) PROVE u < air'[i].ps
      OBVIOUS
    <3>1. CASE i \in 1..Len(air)
      BY <1>2, <2>1, <3>1
    <3>2. CASE i = Len(air) + 1
      BY <1>2, <1>3, <2>1, <3>2
    <3> QED BY <1>2, <3>1, <3>2
  <2>3. u \in 0..issued'
    BY <1>3
  <2> QED BY <2>1, <2>2, <2>3
<1> QED BY <1>4, <1>5, <1>6, <1>7 DEF TokenInv, Carries, Passed, Guarded, Sum

LEMMA ShieldAnswers ==
  ASSUME TypeOK, OrderInv, NEW tok \in TokenCommands, TokenInv(tok), ShieldInv(tok),
         NEW f \in Frame, Responds(f), calls' = calls, holder' = holder,
         sessions' = sessions, issued' \in 0..(TOKENS - 1),
         \/ (Held(tok))' = Held(tok)
         \/ (Held(tok))' = issued' /\ issued < issued',
         Passed(f, tok) => Held(tok) # NoToken /\ wire[1].sum = Sum(Held(tok))
  PROVE  ShieldInv(tok)'
<1> SUFFICES ASSUME holder # NoOne, calls[holder].todo[1] \in Guarded(tok)
             PROVE  ShieldInv(tok)'
  BY DEF ShieldInv, Guarded
<1>1. /\ 1 \in 1..Len(wire)
      /\ \A i \in 1..Len(wire') : i + 1 \in 1..Len(wire) /\ wire'[i] = wire[i + 1]
  BY WireTypes DEF Responds
<1>2. /\ \A i \in 1..Len(air') : i \in 1..Len(air) => air'[i] = air[i]
      /\ \A i \in 1..Len(air') : i \in 1..Len(air) \/ air'[i] = f
  BY AirGrows
<1>3. issued \in Nat /\ issued' \in Nat /\ TOKENS \in Nat /\ issued \in 0..(TOKENS - 1)
  BY LockTypes, SessionsAssumption
<1>4. \A i \in 1..Len(air') : Passed(air'[i], tok) => air'[i].session = sessions
  <2> SUFFICES ASSUME NEW i \in 1..Len(air'), Passed(air'[i], tok)
               PROVE  air'[i].session = sessions
    OBVIOUS
  <2>1. CASE i \in 1..Len(air)
    BY <1>2, <2>1 DEF ShieldInv
  <2>2. CASE air'[i] = f
    <3>1. wire[1].cmd \in Guarded(tok) /\ wire[1].sum = Sum(Held(tok)) /\ Held(tok) # NoToken
      BY <2>2 DEF Passed, Responds
    <3>2. ~(wire[1].session < sessions) /\ wire[1].session <= sessions
      BY <1>1, <3>1 DEF ShieldInv, OrderInv
    <3>3. wire[1].session = sessions
      BY <1>1, <3>2, WireTypes, LockTypes
    <3> QED BY <2>2, <3>3 DEF Responds
  <2> QED BY <1>2, <2>1, <2>2
<1>5. \A j \in 1..Len(wire') :
        wire'[j].cmd \in Guarded(tok) /\ wire'[j].session < sessions =>
          (Held(tok))' = NoToken \/ wire'[j].sum # Sum((Held(tok))')
  <2> SUFFICES ASSUME NEW j \in 1..Len(wire'), wire'[j].cmd \in Guarded(tok),
                      wire'[j].session < sessions
               PROVE  (Held(tok))' = NoToken \/ wire'[j].sum # Sum((Held(tok))')
    OBVIOUS
  <2>1. CASE (Held(tok))' = Held(tok)
    BY <1>1, <2>1 DEF ShieldInv
  <2>2. CASE (Held(tok))' = issued' /\ issued < issued'
    <3>1. PICK u \in 0..issued : wire'[j].sum = Sum(u)
      BY <1>1 DEF TokenInv
    <3>2. u \in 0..(TOKENS - 1) /\ u # issued'
      BY <1>3, <2>2
    <3> QED BY <2>2, <3>1, <3>2, SumInjective
  <2> QED BY <2>1, <2>2
<1> QED BY <1>4, <1>5 DEF ShieldInv, Passed, Guarded, Sum

LEMMA EffectAnswers ==
  ASSUME TypeOK, CallInv, OrderInv, CurrentInv, NEW f \in Frame, Responds(f),
         calls' = calls, holder' = holder, sessions' = sessions, now' = now,
         f.status = "ok" => lock' = Performed(wire[1]),
         f.cmd = "GET_LOCK_TIME" => f.time = now + lock.skew
  PROVE  EffectInv'
<1>1. 1 \in 1..Len(wire) /\ Len(wire) # 0
  BY WireTypes DEF Responds
<1>2. \A i \in 1..Len(air') : air'[i] = f \/ \E k \in 1..Len(air) : air'[i] = air[k]
  BY AirGrows
<1>3. f.session = wire[1].session /\ f.left = wire[1].left /\ f.cmd = wire[1].cmd
  BY DEF Responds
<1> SUFFICES ASSUME holder # NoOne, NEW i \in 1..Len(air'), air'[i].session = sessions,
                    air'[i].left = Len(calls[holder].todo), air'[i].status = "ok"
             PROVE  /\ calls[holder].method \in Setters /\ air'[i].cmd \notin Handshakes =>
                         lock'.stored[Setting(calls[holder].method)] = sessions
                    /\ air'[i].cmd = "GET_LOCK_TIME" =>
                         \E n \in calls[holder].ref..now : air'[i].time = n + lock'.skew
                    /\ air'[i].cmd = "TIME_CALIBRATE" =>
                         \E n \in calls[holder].ref..now : lock'.skew = calls[holder].ref - n
  BY DEF EffectInv
<1>4. air'[i] = f
  <2>1. ASSUME NEW k \in 1..Len(air), air'[i] = air[k] PROVE FALSE
    BY <1>1, <2>1, NothingBehind
  <2> QED BY <1>2, <2>1
<1> DEFINE call == calls[holder]
<1>5. /\ f.status = "ok" /\ wire[1].session = sessions /\ wire[1].left = Len(call.todo)
      /\ wire[1].cmd = call.todo[1]
  BY <1>1, <1>3, <1>4 DEF CurrentInv, Fits
<1>6. wire[1].method = call.method /\ wire[1].ref = call.ref
  BY <1>1, <1>5 DEF CurrentInv
<1>7. lock' = Performed(wire[1])
  BY <1>5
<1>8. /\ Todo(call.method, call.todo) /\ call.todo \in Seq(Commands)
      /\ call.ref \in Nat /\ now \in Nat /\ call.ref <= now /\ Len(call.todo) >= 1
  BY HolderWaits, TodoGoesOn, LockTypes
<1>9. lock \in [stored : [Settings -> Nat], skew : Int, admitted : BOOLEAN,
                userToken : 0..(TOKENS - 1), adminToken : 0..(TOKENS - 1)]
  BY DEF TypeOK
<1> HIDE DEF call
<1>10. call.method \in Setters => wire[1].cmd # "TIME_CALIBRATE"
  <2>1. ASSUME call.method \in Setters, call.todo[1] = "TIME_CALIBRATE" PROVE FALSE
    <3>1. ~UserTodo(call.method, call.todo) /\ ~OpenTodo(call.method, call.todo)
      BY <2>1 DEF UserTodo, OpenTodo
    <3>2. PICK k \in 1..3 :
            /\ JobsFrom(call.method, call.todo, k)
            /\ k > 1 => call.todo[k - 1] = "CHECK_RANDOM"
            /\ k = 3 => call.todo[1] = "CHECK_ADMIN"
      BY <1>8, <3>1 DEF Todo, AdminTodo
    <3>3. k = 1
      BY <2>1, <3>2
    <3>4. call.method \in {"calibrate_time", "sync_time"}
      BY <1>8, <2>1, <3>2, <3>3 DEF JobsFrom
    <3> QED BY <2>1, <3>4 DEF Setters, Bolt, Passcodes
  <2> QED BY <1>5, <2>1
<1>11. ASSUME call.method \in Setters, f.cmd \notin Handshakes
       PROVE  lock'.stored[Setting(call.method)] = sessions
  <2>1. Setting(call.method) \in Settings
    BY <1>11 DEF Setting, Settings, Setters, Bolt, Sound, AutoLock, Passcodes
  <2>2. wire[1].cmd \notin {"CHECK_USER_TIME", "CHECK_ADMIN", "CHECK_RANDOM", "TIME_CALIBRATE"}
    BY <1>3, <1>10, <1>11 DEF Handshakes
  <2>3. lock' = [lock EXCEPT !.stored[Setting(call.method)] = sessions]
    BY <1>5, <1>6, <1>7, <1>11, <2>2 DEF Performed, Handshakes
  <2> QED BY <1>9, <2>1, <2>3
<1>12. ASSUME f.cmd = "GET_LOCK_TIME"
       PROVE  \E n \in call.ref..now : f.time = n + lock'.skew
  <2>1. lock'.skew = lock.skew
    <3>1. CASE wire[1].method \in Setters
      <4>1. lock' = [lock EXCEPT !.stored[Setting(wire[1].method)] = wire[1].session]
        BY <1>3, <1>7, <1>12, <3>1 DEF Performed, Handshakes
      <4> QED BY <1>9, <4>1
    <3>2. CASE wire[1].method \notin Setters
      <4>1. lock' = lock
        BY <1>3, <1>7, <1>12, <3>2 DEF Performed
      <4> QED BY <4>1
    <3> QED BY <3>1, <3>2
  <2>2. now \in call.ref..now /\ f.time = now + lock'.skew
    BY <1>8, <1>12, <2>1
  <2> QED BY <2>2
<1>13. ASSUME f.cmd = "TIME_CALIBRATE"
       PROVE  \E n \in call.ref..now : lock'.skew = call.ref - n
  <2>1. wire[1].method \notin Setters
    BY <1>3, <1>6, <1>10, <1>13
  <2>2. lock' = [lock EXCEPT !.skew = wire[1].ref - now]
    BY <1>3, <1>7, <1>13, <2>1 DEF Performed
  <2>3. now \in call.ref..now /\ lock'.skew = call.ref - now
    BY <1>6, <1>8, <1>9, <2>2
  <2> QED BY <2>3
<1> QED BY <1>4, <1>11, <1>12, <1>13 DEF call

(* What the lock does keeps its types, and gives a token to its handshake.  *)
LEMMA PerformedTypes ==
  ASSUME TypeOK, CountInv, wire # <<>>
  PROVE  LET lk == Performed(wire[1])
         IN  /\ lk \in [stored : [Settings -> Nat], skew : Int, admitted : BOOLEAN,
                        userToken : 0..(TOKENS - 1), adminToken : 0..(TOKENS - 1)]
             /\ wire[1].cmd = "CHECK_USER_TIME" =>
                  lk.userToken = issued + 1 /\ lk.adminToken = lock.adminToken
             /\ wire[1].cmd = "CHECK_ADMIN" =>
                  lk.adminToken = issued + 1 /\ lk.userToken = lock.userToken
             /\ wire[1].cmd \notin TokenCommands =>
                  lk.userToken = lock.userToken /\ lk.adminToken = lock.adminToken
<1> DEFINE Lk == [stored : [Settings -> Nat], skew : Int, admitted : BOOLEAN,
                  userToken : 0..(TOKENS - 1), adminToken : 0..(TOKENS - 1)]
           r == wire[1]
           lk == Performed(r)
<1>1. lock \in Lk
  BY DEF TypeOK
<1>2. r.session \in Nat /\ r.ref \in Nat /\ now \in Nat
  BY WireTypes, LockTypes
<1>3. CASE r.cmd = "CHECK_USER_TIME"
  <2>1. lk = [lock EXCEPT !.userToken = Token(issued)]
    BY <1>3 DEF Performed, Handshakes
  <2>2. Token(issued) = issued + 1 /\ issued + 1 \in 0..(TOKENS - 1)
    BY <1>3, TokensAreNew, LockTypes, SessionsAssumption DEF TokenCommands
  <2> QED BY <1>1, <1>3, <2>1, <2>2 DEF TokenCommands
<1>4. CASE r.cmd = "CHECK_ADMIN"
  <2>1. lk = [lock EXCEPT !.adminToken = Token(issued)]
    BY <1>4 DEF Performed, Handshakes
  <2>2. Token(issued) = issued + 1 /\ issued + 1 \in 0..(TOKENS - 1)
    BY <1>4, TokensAreNew, LockTypes, SessionsAssumption DEF TokenCommands
  <2> QED BY <1>1, <1>4, <2>1, <2>2 DEF TokenCommands
<1>5. CASE r.cmd \notin TokenCommands
  <2>1. \/ lk = [lock EXCEPT !.admitted = TRUE]
        \/ lk = [lock EXCEPT !.skew = r.ref - now]
        \/ lk = [lock EXCEPT !.stored[Setting(r.method)] = r.session]
        \/ lk = lock
    BY <1>5 DEF Performed, TokenCommands
  <2>2. CASE lk = [lock EXCEPT !.admitted = TRUE]
    BY <1>1, <1>5, <2>2 DEF TokenCommands
  <2>3. CASE lk = [lock EXCEPT !.skew = r.ref - now]
    BY <1>1, <1>2, <1>5, <2>3 DEF TokenCommands
  <2>4. CASE lk = [lock EXCEPT !.stored[Setting(r.method)] = r.session]
    <3>1. /\ lk.skew = lock.skew /\ lk.admitted = lock.admitted
          /\ lk.userToken = lock.userToken /\ lk.adminToken = lock.adminToken
      BY <1>1, <2>4
    <3>2. lk \in Lk
      BY <1>1, <1>2, <2>4, SMTT(30)
    <3> QED BY <1>5, <3>1, <3>2 DEF TokenCommands
  <2>5. CASE lk = lock
    BY <1>1, <1>5, <2>5 DEF TokenCommands
  <2> QED BY <2>1, <2>2, <2>3, <2>4, <2>5
<1> QED BY <1>3, <1>4, <1>5 DEF TokenCommands

LEMMA LockPerformsKeeps ==
  ASSUME IInv, LockPerforms
  PROVE  IInv'
<1>1. TypeOK /\ CallInv /\ CountInv /\ OrderInv /\ CurrentInv
  BY DEF IInv
<1>2. /\ wire # <<>> /\ wire' = Tail(wire) /\ Head(wire) = wire[1]
      /\ UNCHANGED <<holder, calls, adminPs, now, sessions, made, gaveUp, drops>>
  BY <1>1, WireTypes DEF LockPerforms
<1> DEFINE q == wire[1]
<1>3. /\ Authorised(q) /\ lock' = Performed(q)
      /\ issued' = IF q.cmd \in TokenCommands THEN issued + 1 ELSE issued
  BY <1>2 DEF LockPerforms, TokenCommands
<1>4. PICK s \in {"ok", "garbled"} : air' \in {air, Append(air, Reply(q, s))}
  <2>1. air' \in {air} \cup {Append(air, Reply(Head(wire), s)) : s \in {"ok", "garbled"}}
    BY DEF LockPerforms
  <2> QED BY <1>2, <2>1
<1> DEFINE f == Reply(q, s)
<1>5. /\ q \in Request /\ q.session \in Nat /\ q.left \in Nat /\ q.cmd \in Commands
      /\ 1 \in 1..Len(wire)
  BY <1>1, <1>2, WireTypes
<1>6. q.cmd \in TokenCommands =>
        Token(issued) = issued + 1 /\ issued + 1 \in 1..(TOKENS - 1)
  BY <1>1, <1>2, TokensAreNew
<1>7. issued \in Nat /\ issued \in 0..(TOKENS - 1) /\ now \in Nat /\ lock.skew \in Int
      /\ TOKENS \in Nat /\ TOKENS >= 1
  BY <1>1, LockTypes, SessionsAssumption
<1>8. /\ f.session = q.session /\ f.left = q.left /\ f.cmd = q.cmd /\ f.status = s
      /\ f.cmd \in TokenCommands /\ s = "ok" => f.ps = issued + 1
      /\ f.cmd = "GET_LOCK_TIME" => f.time = now + lock.skew
  BY <1>6 DEF Reply, TokenCommands
<1>9. f \in Frame
  <2>1. (IF s = "ok" /\ q.cmd \in {"CHECK_USER_TIME", "CHECK_ADMIN"}
         THEN Token(issued) ELSE NoToken) \in 0..(TOKENS - 1)
    BY <1>6, <1>7 DEF TokenCommands, NoToken
  <2>2. (IF q.cmd = "GET_LOCK_TIME" THEN now + lock.skew ELSE 0) \in Int
    BY <1>7
  <2> QED BY <1>5, <2>1, <2>2 DEF Reply, Frame
<1> HIDE DEF f
<1>10. Responds(f)
  BY <1>2, <1>4, <1>8 DEF Responds, f
<1>11. issued <= issued' /\ issued' \in 0..(TOKENS - 1)
  BY <1>3, <1>6, <1>7
<1>12. ASSUME NEW tok \in TokenCommands
       PROVE  /\ \/ (Held(tok))' = Held(tok)
                 \/ (Held(tok))' = issued' /\ issued < issued'
              /\ Carries(f, tok) => f.ps = issued' /\ issued < issued' /\ (Held(tok))' = issued'
              /\ Passed(f, tok) => Held(tok) # NoToken /\ q.sum = Sum(Held(tok))
  <2>1. CASE q.cmd = tok
    <3>1. (Held(tok))' = issued' /\ issued < issued'
      BY <1>1, <1>2, <1>3, <1>7, <1>12, <2>1, PerformedTypes DEF Held, TokenCommands
    <3>2. Carries(f, tok) => f.ps = issued'
      BY <1>3, <1>8, <1>12, <2>1 DEF Carries
    <3>3. ~Passed(f, tok)
      BY <1>8, <1>12, <2>1 DEF Passed, Guarded, TokenCommands
    <3> QED BY <3>1, <3>2, <3>3
  <2>2. CASE q.cmd # tok
    <3>1. (Held(tok))' = Held(tok)
      BY <1>1, <1>2, <1>3, <1>12, <2>2, PerformedTypes DEF Held, TokenCommands
    <3>2. ~Carries(f, tok)
      BY <1>8, <2>2 DEF Carries
    <3>3. Passed(f, tok) => Held(tok) # NoToken /\ q.sum = Sum(Held(tok))
      BY <1>3, <1>8, <1>12 DEF Passed, Guarded, Authorised, Held, TokenCommands
    <3> QED BY <3>1, <3>2, <3>3
  <2> QED BY <2>1, <2>2
<1>13. TypeOK'
  <2>1. wire' \in Seq(Request)
    BY <1>1, <1>2, WireTypes
  <2>2. air' \in Seq(Frame)
    <3>1. air \in Seq(Frame)
      BY <1>1 DEF TypeOK
    <3>2. Append(air, f) \in Seq(Frame)
      BY <1>9, <3>1
    <3> QED BY <1>4, <3>1, <3>2 DEF f
  <2>3. lock' \in [stored : [Settings -> Nat], skew : Int, admitted : BOOLEAN,
                   userToken : 0..(TOKENS - 1), adminToken : 0..(TOKENS - 1)]
    BY <1>1, <1>2, <1>3, PerformedTypes
  <2> QED BY <1>1, <1>2, <1>11, <2>1, <2>2, <2>3 DEF TypeOK
<1>14. CallInv'
  BY <1>1, <1>2, <1>7, CallsStay
<1>15. OrderInv' /\ CurrentInv'
  BY <1>1, <1>2, <1>9, <1>10, OrderAnswers, CurrentAnswers
<1>16. EffectInv'
  BY <1>1, <1>2, <1>3, <1>8, <1>9, <1>10, EffectAnswers
<1>17. CountInv'
  <2>1. Owing' \subseteq Owing
    BY <1>2, OwingStays
  <2>2. CASE q.cmd \notin TokenCommands
    <3>1. Asked' \subseteq Asked
      BY <1>1, <1>2, WireMayShrink, AskedLoses
    <3> QED BY <1>1, <1>2, <1>3, <2>1, <2>2, <3>1, CountLoses
  <2>3. CASE q.cmd \in TokenCommands
    <3> DEFINE pair == <<q.session, q.left>>
    <3>1. pair \in Asked /\ Asked' \subseteq Asked \ {pair}
      BY <1>1, <1>2, <2>3, AskedAnswers
    <3> HIDE DEF pair
    <3>2. IsFiniteSet(Owing) /\ IsFiniteSet(Asked)
      BY <1>1 DEF CountInv
    <3>3. /\ IsFiniteSet(Asked \ {pair}) /\ Cardinality(Asked) \in Nat
          /\ Cardinality(Asked \ {pair}) = Cardinality(Asked) - 1
      BY <3>1, <3>2, FS_RemoveElement, FS_CardinalityType
    <3>4. /\ IsFiniteSet(Asked') /\ Cardinality(Asked') \in Nat
          /\ Cardinality(Asked') <= Cardinality(Asked \ {pair})
      BY <3>1, <3>3, FS_Subset, FS_CardinalityType
    <3>5. /\ IsFiniteSet(Owing') /\ Cardinality(Owing') <= Cardinality(Owing)
          /\ Cardinality(Owing') \in Nat /\ Cardinality(Owing) \in Nat
      BY <2>1, <3>2, FS_Subset, FS_CardinalityType
    <3>6. issued + Cardinality(Asked) + Cardinality(Owing) <= made /\ made <= MaxCalls
          /\ made \in Nat /\ made' = made
      BY <1>1, <1>2, LockTypes DEF CountInv
    <3>7. issued' = issued + 1
      BY <1>3, <2>3
    <3>8. issued' + Cardinality(Asked') + Cardinality(Owing') <= made' /\ made' <= MaxCalls
      BY <1>7, <3>3, <3>4, <3>5, <3>6, <3>7
    <3> QED BY <3>4, <3>5, <3>8 DEF CountInv
  <2> QED BY <2>2, <2>3
<1>18. ASSUME NEW tok \in TokenCommands PROVE TokenInv(tok)' /\ ShieldInv(tok)'
  <2>1. TokenInv(tok) /\ ShieldInv(tok)
    BY <1>18 DEF IInv
  <2>2. TokenInv(tok)'
    BY <1>1, <1>9, <1>10, <1>11, <1>12, <1>18, <2>1, TokenAnswers
  <2>3. ShieldInv(tok)'
    BY <1>1, <1>2, <1>9, <1>10, <1>11, <1>12, <1>18, <2>1, ShieldAnswers
  <2> QED BY <2>2, <2>3
<1> QED BY <1>13, <1>14, <1>15, <1>16, <1>17, <1>18 DEF IInv

LEMMA LockRefusesKeeps ==
  ASSUME IInv, LockRefuses
  PROVE  IInv'
<1>1. TypeOK /\ CallInv /\ CountInv /\ OrderInv /\ CurrentInv
  BY DEF IInv
<1> DEFINE q == wire[1]
           f == Reply(q, "failed")
<1>2. /\ wire # <<>> /\ wire' = Tail(wire) /\ air' = Append(air, f)
      /\ UNCHANGED <<holder, calls, lock, adminPs, now, issued, sessions, made, gaveUp,
                     drops>>
  BY <1>1, WireTypes DEF LockRefuses, counts
<1>3. q \in Request /\ q.session \in Nat /\ q.left \in Nat /\ q.cmd \in Commands
  BY <1>1, <1>2, WireTypes
<1>4. /\ issued \in Nat /\ issued \in 0..(TOKENS - 1) /\ now \in Nat /\ lock.skew \in Int
      /\ NoToken \in 0..(TOKENS - 1)
  BY <1>1, LockTypes, SessionsAssumption DEF NoToken
<1>5. /\ f.session = q.session /\ f.left = q.left /\ f.cmd = q.cmd /\ f.status = "failed"
      /\ f.cmd = "GET_LOCK_TIME" => f.time = now + lock.skew
  BY DEF Reply
<1>6. f \in Frame
  <2>1. (IF q.cmd = "GET_LOCK_TIME" THEN now + lock.skew ELSE 0) \in Int
    BY <1>4
  <2> QED BY <1>3, <1>4, <2>1 DEF Reply, Frame
<1> HIDE DEF f
<1>7. Responds(f)
  BY <1>2, <1>5 DEF Responds
<1>8. ASSUME NEW tok \in TokenCommands
      PROVE  (Held(tok))' = Held(tok) /\ ~Carries(f, tok) /\ ~Passed(f, tok)
  BY <1>2, <1>5 DEF Held, Carries, Passed
<1>9. TypeOK'
  <2>1. wire' \in Seq(Request)
    BY <1>1, <1>2, WireTypes
  <2>2. air' \in Seq(Frame)
    BY <1>1, <1>2, <1>6 DEF TypeOK
  <2> QED BY <1>1, <1>2, <2>1, <2>2 DEF TypeOK
<1>10. CallInv'
  BY <1>1, <1>2, <1>4, CallsStay
<1>11. OrderInv' /\ CurrentInv'
  BY <1>1, <1>2, <1>6, <1>7, OrderAnswers, CurrentAnswers
<1>12. EffectInv'
  BY <1>1, <1>2, <1>5, <1>6, <1>7, EffectAnswers
<1>13. CountInv'
  BY <1>1, <1>2, OwingStays, WireMayShrink, AskedLoses, CountLoses
<1>14. ASSUME NEW tok \in TokenCommands PROVE TokenInv(tok)' /\ ShieldInv(tok)'
  <2>1. TokenInv(tok) /\ ShieldInv(tok)
    BY <1>14 DEF IInv
  <2>2. issued <= issued' /\ issued' \in 0..(TOKENS - 1)
    BY <1>2, <1>4
  <2>3. TokenInv(tok)'
    BY <1>1, <1>6, <1>7, <1>8, <1>14, <2>1, <2>2, TokenAnswers
  <2>4. ShieldInv(tok)'
    BY <1>1, <1>2, <1>6, <1>7, <1>8, <1>14, <2>1, <2>2, ShieldAnswers
  <2> QED BY <2>3, <2>4
<1> QED BY <1>9, <1>10, <1>11, <1>12, <1>13, <1>14 DEF IInv

----------------------------------------------------------------------------
(* The theorems.                                                            *)
LEMMA NextIInv == IInv /\ [Next]_vars => IInv'
<1> SUFFICES ASSUME IInv, [Next]_vars PROVE IInv'
  OBVIOUS
<1>1. ASSUME NEW c \in Callers, NEW m \in Methods, Call(c, m) PROVE IInv'
  BY <1>1, CallKeeps
<1>2. ASSUME NEW c \in Callers, Acquire(c) PROVE IInv'
  BY <1>2, AcquireKeeps
<1>3. ASSUME NEW c \in Callers, TakeReply(c) PROVE IInv'
  BY <1>3, TakeReplyKeeps
<1>4. ASSUME NEW c \in Callers, GiveUp(c) PROVE IInv'
  BY <1>4, GiveUpKeeps
<1>5. ASSUME NEW c \in Callers, Withdraw(c) PROVE IInv'
  BY <1>5, WithdrawKeeps
<1>6. CASE Dispatch
  BY <1>6, DispatchKeeps
<1>7. CASE LockPerforms
  BY <1>7, LockPerformsKeeps
<1>8. CASE LockRefuses
  BY <1>8, LockRefusesKeeps
<1>9. CASE RequestLost
  BY <1>9, RequestLostKeeps
<1>10. CASE LinkDrops
  BY <1>10, LinkDropsKeeps
<1>11. CASE Tick
  BY <1>11, TickKeeps
<1>12. CASE UNCHANGED vars
  <2>1. TypeOK
    BY DEF IInv
  <2>2. UNCHANGED <<holder, calls, wire, air, lock, adminPs, now, issued, sessions, made,
                    gaveUp, drops>>
    BY <1>12 DEF vars, counts
  <2>3. AirShrinks /\ WireShrinks /\ air' \in Seq(Frame) /\ wire' \in Seq(Request)
    BY <2>1, <2>2, AirMayShrink, WireMayShrink DEF TypeOK
  <2>4. now' \in 0..MaxTime /\ now <= now' /\ drops' \in Nat
    BY <2>1, <2>2, LockTypes
  <2>5. lock' \in [stored : [Settings -> Nat], skew : Int, admitted : BOOLEAN,
                   userToken : 0..(TOKENS - 1), adminToken : 0..(TOKENS - 1)]
    BY <2>1, <2>2 DEF TypeOK
  <2> QED BY <2>2, <2>3, <2>4, <2>5, LockStays, LossKeeps
<1> QED BY <1>1, <1>2, <1>3, <1>4, <1>5, <1>6, <1>7, <1>8, <1>9, <1>10, <1>11, <1>12
        DEF Next

(* IInv holds in every state, whatever gives up, is lost, refused or damaged *)
(* and however often the link drops.                                        *)
THEOREM Inductive == Spec => []IInv
BY InitIInv, NextIInv, PTL DEF Spec

(* The types of the calls, of the frames on the way and of what the lock     *)
(* stores; tokens stay below TOKENS.                                        *)
THEOREM TypeCorrect == Spec => []TypeOK
<1>1. IInv => TypeOK
  BY DEF IInv
<1> QED BY <1>1, Inductive, PTL

(* A method behind a handshake returns on the reply to its own command,      *)
(* whatever earlier calls left on the way (HandshakeShieldsTheReply).       *)
THEOREM RepliesAreShielded == Spec => []HandshakeShieldsTheReply
<1>1. IInv => HandshakeShieldsTheReply
  BY DEF IInv, CallInv, HandshakeShieldsTheReply
<1> QED BY <1>1, Inductive, PTL

(* The step on which a method returns is that of the reply to its last      *)
(* command.                                                                 *)
LEMMA ReturnsOnAReply ==
  ASSUME IInv, [Next]_vars, NEW c \in Callers, Returns(c), calls[c].method # "query_state"
  PROVE  /\ holder = c /\ air # <<>> /\ air[1].status = "ok"
         /\ air[1].cmd = calls[c].todo[1] /\ Len(calls[c].todo) = 1
         /\ calls[c].session = sessions /\ Todo(calls[c].method, calls[c].todo)
         /\ ~Drifts(calls[c], air[1])
         /\ calls'[c].own => air[1].cmd \in Handshakes \/ Answered(air[1], calls[c])
<1>1. TypeOK /\ CallInv
  BY DEF IInv
<1>2. calls[c].phase = "waiting" /\ calls'[c].phase = "returned"
  BY DEF Returns
<1>3. holder = c /\ holder # NoOne
  BY <1>1, <1>2, SessionsAssumption DEF CallInv
<1>4. calls[c].session = sessions /\ Todo(calls[c].method, calls[c].todo)
  BY <1>1, <1>3, HolderWaits
<1>5. /\ calls[c] \in CallType /\ calls[c].method \in Methods
      /\ calls[c].todo \in Seq(Commands) /\ calls[c].own \in BOOLEAN
  BY <1>1, CallTypes DEF CallType
<1>6. calls \in [Callers -> CallType]
  BY <1>1 DEF TypeOK, CallType
<1>7. TakeReply(c)
  <2>1. calls' # calls
    BY <1>2
  <2>2. ASSUME NEW b \in Callers, b # c,
               \/ \E m \in Methods : Call(b, m)
               \/ Acquire(b) \/ TakeReply(b) \/ GiveUp(b) \/ Withdraw(b)
        PROVE  FALSE
    <3>1. \E x : calls' = [calls EXCEPT ![b] = x]
      BY <2>2 DEF Call, Acquire, TakeReply, GiveUp, Withdraw, Raise, Send, Return, Recalibrate
    <3>2. calls'[c] = calls[c]
      BY <1>6, <2>2, <3>1
    <3> QED BY <1>2, <3>2
  <2>3. ASSUME \/ \E m \in Methods : Call(c, m)
               \/ Acquire(c) \/ Withdraw(c)
        PROVE  FALSE
    BY <1>2, <2>3 DEF Call, Acquire, Withdraw
  <2>4. ~GiveUp(c)
    <3>1. ASSUME GiveUp(c) PROVE FALSE
      <4>1. calls' = [calls EXCEPT ![c] = Over("raised", calls[c].method, TRUE)]
        BY <3>1 DEF GiveUp, Raise
      <4> QED BY <1>2, <1>6, <4>1 DEF Over
    <3> QED BY <3>1
  <2>5. ~(Dispatch \/ LockPerforms \/ LockRefuses \/ RequestLost \/ LinkDrops \/ Tick)
    BY <2>1 DEF Dispatch, LockPerforms, LockRefuses, RequestLost, LinkDrops, Tick
  <2>6. ~(UNCHANGED vars)
    BY <2>1 DEF vars
  <2> QED BY <2>2, <2>3, <2>4, <2>5, <2>6 DEF Next
<1> DEFINE frame == Head(air)
           o == calls[c].own /\ (frame.cmd \in Handshakes \/ Answered(frame, calls[c]))
           call == [calls[c] EXCEPT !.own = o]
<1>8. air # <<>> /\ Answers(frame, Head(call.todo))
  BY <1>7 DEF TakeReply
<1>9. IF ~Parses(call, frame) THEN Raise(c)
      ELSE IF Tail(call.todo) # <<>>
           THEN Send(c, [call EXCEPT !.todo = Tail(call.todo)], frame.ps) /\ UNCHANGED holder
      ELSE IF Drifts(call, frame) THEN Recalibrate(c, call)
      ELSE Return(c, call)
  BY <1>7 DEF TakeReply
<1>10. frame = air[1]
  BY <1>1, <1>8, AirTypes
<1>11. o \in BOOLEAN /\ (o => frame.cmd \in Handshakes \/ Answered(frame, calls[c]))
  BY <1>5
<1> HIDE DEF o
<1>12. /\ call \in CallType /\ call.method = calls[c].method /\ call.todo = calls[c].todo
       /\ call.session = calls[c].session /\ call.ref = calls[c].ref /\ call.own = o
  BY <1>5, <1>11 DEF CallType
<1> HIDE DEF call
<1>13. ~Raise(c)
  <2>1. ASSUME Raise(c) PROVE FALSE
    <3>1. calls' = [calls EXCEPT ![c] = Over("raised", calls[c].method, TRUE)]
      BY <2>1 DEF Raise
    <3> QED BY <1>2, <1>6, <3>1 DEF Over
  <2> QED BY <2>1
<1>14. ~Send(c, [call EXCEPT !.todo = Tail(call.todo)], frame.ps)
  <2>1. ASSUME Send(c, [call EXCEPT !.todo = Tail(call.todo)], frame.ps) PROVE FALSE
    <3> DEFINE y == [call EXCEPT !.todo = Tail(call.todo)]
               x == [y EXCEPT !.phase = "waiting"]
    <3>1. x.phase = "waiting"
      BY <1>12 DEF CallType
    <3>2. calls' = [calls EXCEPT ![c] = x]
      BY <2>1 DEF Send
    <3> HIDE DEF x
    <3> QED BY <1>2, <1>6, <3>1, <3>2
  <2> QED BY <2>1
<1>15. ~Recalibrate(c, call)
  <2>1. ASSUME Recalibrate(c, call) PROVE FALSE
    <3> DEFINE x == [call EXCEPT !.phase = "queued", !.todo = CalibrateProgram]
    <3>1. x.phase = "queued"
      BY <1>12 DEF CallType
    <3>2. calls' = [calls EXCEPT ![c] = x]
      BY <2>1 DEF Recalibrate
    <3> HIDE DEF x
    <3> QED BY <1>2, <1>6, <3>1, <3>2
  <2> QED BY <2>1
<1>16. /\ Parses(call, frame) /\ Tail(call.todo) = <<>> /\ ~Drifts(call, frame)
       /\ Return(c, call)
  BY <1>9, <1>13, <1>14, <1>15
<1>17. frame.status = "ok"
  BY <1>12, <1>16 DEF Parses
<1>18. Len(calls[c].todo) = 1 /\ Head(calls[c].todo) = calls[c].todo[1]
  <2> DEFINE todo == calls[c].todo
  <2>1. Tail(todo) = <<>>
    BY <1>12, <1>16
  <2>2. todo \in Seq(Commands) /\ Todo(calls[c].method, todo)
    BY <1>4, <1>5
  <2> HIDE DEF todo
  <2>3. Head(todo) = todo[1] /\ Len(todo) >= 1
    BY <2>2, TodoGoesOn
  <2>4. Len(todo) = 1
    BY <2>1, <2>2, TodoGoesOn
  <2> QED BY <2>3, <2>4 DEF todo
<1>19. frame.cmd = calls[c].todo[1]
  BY <1>8, <1>12, <1>17, <1>18 DEF Answers
<1>20. ~Drifts(calls[c], air[1])
  BY <1>10, <1>12, <1>16 DEF Drifts
<1>21. calls'[c].own => o
  <2>1. calls' = [calls EXCEPT ![c] = Over("returned", calls[c].method, o)]
    BY <1>12, <1>16 DEF Return
  <2>2. calls'[c] = Over("returned", calls[c].method, o)
    BY <1>6, <2>1
  <2>3. calls'[c].own = o
    BY <1>5, <1>11, <2>2, OverIsACall
  <2> QED BY <2>3
<1> QED BY <1>3, <1>4, <1>8, <1>10, <1>11, <1>17, <1>18, <1>19, <1>20, <1>21

(* When a method that sets something returns, the lock stores what this call *)
(* set (ReturnMeansStored).                                                 *)
THEOREM ReturnsAreStored == Spec => ReturnMeansStored
<1> DEFINE Stored(c) == Returns(c) /\ calls[c].method \in Setters =>
                          lock.stored[Setting(calls[c].method)] = calls[c].session
<1>1. IInv /\ [Next]_vars => [\A c \in Callers : Stored(c)]_vars
  <2> SUFFICES ASSUME IInv, [Next]_vars, NEW c \in Callers, Returns(c),
                      calls[c].method \in Setters
               PROVE  lock.stored[Setting(calls[c].method)] = calls[c].session
    OBVIOUS
  <2>1. TypeOK /\ CallInv /\ OrderInv /\ CurrentInv /\ EffectInv
        /\ \A tok \in TokenCommands : ShieldInv(tok)
    BY DEF IInv
  <2>2. calls[c].method # "query_state"
    BY DEF Setters, Bolt, Passcodes
  <2>3. /\ holder = c /\ air # <<>> /\ air[1].status = "ok"
        /\ air[1].cmd = calls[c].todo[1] /\ Len(calls[c].todo) = 1
        /\ calls[c].session = sessions /\ Todo(calls[c].method, calls[c].todo)
    BY <2>2, ReturnsOnAReply
  <2>4. holder # NoOne /\ 1 \in 1..Len(air)
    BY <2>1, <2>3, AirTypes, SessionsAssumption
  <2>5. air[1].cmd \in {"UNLOCK", "LOCK"} \cup Jobs
    <3>1. ~OpenTodo(calls[c].method, calls[c].todo)
      BY DEF OpenTodo, Open, Setters, Bolt, Passcodes
    <3>2. CASE UserTodo(calls[c].method, calls[c].todo)
      BY <2>3, <3>2 DEF UserTodo
    <3>3. CASE AdminTodo(calls[c].method, calls[c].todo)
      <4>1. PICK k \in 1..3 : JobsFrom(calls[c].method, calls[c].todo, k) /\ k = 1
        BY <2>3, <3>3 DEF AdminTodo
      <4>2. calls[c].todo[1] \in Jobs
        BY <2>3, <4>1 DEF JobsFrom
      <4> QED BY <2>3, <4>2
    <3> QED BY <2>3, <3>1, <3>2, <3>3 DEF Todo
  <2>6. air[1].cmd \in Seconds \cup Jobs /\ air[1].cmd \notin Handshakes
    BY <2>5 DEF Seconds, Jobs, Handshakes
  <2>7. air[1].session = sessions /\ air[1].left = Len(calls[holder].todo)
    BY <2>1, <2>3, <2>4, <2>6, OwnReply
  <2>8. lock.stored[Setting(calls[holder].method)] = sessions
    BY <2>1, <2>3, <2>4, <2>6, <2>7 DEF EffectInv
  <2> QED BY <2>3, <2>8
<1> QED BY <1>1, Inductive, PTL DEF Spec, ReturnMeansStored

(* A clock read n, between ref and now, within a threshold of ref.          *)
LEMMA ReadingIsRecent ==
  ASSUME NEW x \in Int, NEW t \in Int, NEW n \in Int, NEW ref \in Nat, NEW at \in Nat,
         NEW bound \in Nat, ref <= n, n <= at, t = n + x, t - ref <= bound, ref - t <= bound
  PROVE  x <= bound + (at - ref) /\ -x <= bound + (at - ref)
OBVIOUS

(* sync_time leaves the clock no further off than its threshold plus the     *)
(* time it took, whoever else sets the clock (SyncBoundsTheError).          *)
THEOREM ErrorIsBounded == Spec => SyncBoundsTheError
<1> DEFINE Bounded(c) == Returns(c) /\ calls[c].method = "sync_time" /\ calls'[c].own =>
                           Abs(lock.skew) <= THRESHOLD + (now - calls[c].ref)
<1>1. IInv /\ [Next]_vars => [\A c \in Callers : Bounded(c)]_vars
  <2> SUFFICES ASSUME IInv, [Next]_vars, NEW c \in Callers, Returns(c),
                      calls[c].method = "sync_time", calls'[c].own
               PROVE  Abs(lock.skew) <= THRESHOLD + (now - calls[c].ref)
    OBVIOUS
  <2>1. TypeOK /\ CallInv /\ OrderInv /\ CurrentInv /\ EffectInv
        /\ \A tok \in TokenCommands : ShieldInv(tok)
    BY DEF IInv
  <2>2. /\ holder = c /\ air # <<>> /\ air[1].status = "ok"
        /\ air[1].cmd = calls[c].todo[1] /\ Len(calls[c].todo) = 1
        /\ calls[c].session = sessions /\ Todo(calls[c].method, calls[c].todo)
        /\ ~Drifts(calls[c], air[1])
        /\ air[1].cmd \in Handshakes \/ Answered(air[1], calls[c])
    BY ReturnsOnAReply
  <2>3. holder # NoOne /\ 1 \in 1..Len(air) /\ air[1].time \in Int
    BY <2>1, <2>2, AirTypes, SessionsAssumption
  <2>4. /\ lock.skew \in Int /\ now \in Nat /\ calls[c].ref \in Nat /\ calls[c].ref <= now
        /\ THRESHOLD \in Nat /\ calls[c].todo \in Seq(Commands)
    BY <2>1, <2>2, <2>3, LockTypes, HolderWaits, SessionsAssumption
  <2>5. ~UserTodo(calls[c].method, calls[c].todo)
    BY DEF UserTodo, Bolt
  <2>6. CASE OpenTodo(calls[c].method, calls[c].todo)
    <3>1. air[1].cmd = "GET_LOCK_TIME"
      BY <2>2, <2>6 DEF OpenTodo
    <3>2. air[1].session = sessions /\ air[1].left = Len(calls[holder].todo)
      BY <2>2, <3>1 DEF Answered, Handshakes
    <3>3. PICK n \in calls[c].ref..now : air[1].time = n + lock.skew
      BY <2>1, <2>2, <2>3, <3>1, <3>2 DEF EffectInv
    <3>4. Head(calls[c].todo) = "GET_LOCK_TIME"
      <4>1. Head(calls[c].todo) = calls[c].todo[1]
        BY <2>2, <2>4, TodoGoesOn
      <4> QED BY <2>2, <3>1, <4>1
    <3>5. Abs(air[1].time - calls[c].ref) <= THRESHOLD
      <4>1. ~(Abs(air[1].time - calls[c].ref) > THRESHOLD)
        BY <2>2, <3>4 DEF Drifts
      <4> QED BY <2>3, <2>4, <4>1 DEF Abs
    <3>6. /\ air[1].time - calls[c].ref <= THRESHOLD
          /\ calls[c].ref - air[1].time <= THRESHOLD
      BY <2>3, <2>4, <3>5 DEF Abs
    <3>7. n \in Int /\ calls[c].ref <= n /\ n <= now
      BY <2>4, <3>3
    <3>8. /\ lock.skew <= THRESHOLD + (now - calls[c].ref)
          /\ -lock.skew <= THRESHOLD + (now - calls[c].ref)
      BY <2>3, <2>4, <3>3, <3>6, <3>7, ReadingIsRecent
    <3> QED BY <2>4, <3>8 DEF Abs
  <2>7. CASE AdminTodo(calls[c].method, calls[c].todo)
    <3>1. PICK k \in 1..3 : JobsFrom(calls[c].method, calls[c].todo, k) /\ k = 1
      BY <2>2, <2>7 DEF AdminTodo
    <3>2. calls[c].todo[1] \in Jobs /\ calls[c].todo[1] = "TIME_CALIBRATE"
      BY <2>2, <3>1 DEF JobsFrom
    <3>3. air[1].session = sessions /\ air[1].left = Len(calls[holder].todo)
      BY <2>1, <2>2, <2>3, <3>2, OwnReply
    <3>4. PICK n \in calls[c].ref..now : lock.skew = calls[c].ref - n
      BY <2>1, <2>2, <2>3, <3>2, <3>3 DEF EffectInv
    <3> QED BY <2>4, <3>4 DEF Abs
  <2> QED BY <2>2, <2>5, <2>6, <2>7 DEF Todo
<1> QED BY <1>1, Inductive, PTL DEF Spec, SyncBoundsTheError
=============================================================================
