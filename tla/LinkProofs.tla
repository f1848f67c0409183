------------------------------ MODULE LinkProofs ------------------------------
(***************************************************************************)
(* Proofs about the link to the lock: BleLink, for one task that connects   *)
(* and disconnects and whose disconnects are let finish, any commanders and *)
(* any bounds; KeepAlive, for any callers, window and interval; Reassembly, *)
(* for every layout, payload, noise and cut into chunks.                    *)
(***************************************************************************)
EXTENDS BleLink, KeepAlive, Reassembly,
        FiniteSetTheorems, SequenceTheorems, WellFoundedInduction, TLAPS

----------------------------------------------------------------------------
(* BleLink.                                                                 *)

(* The awaits that are on a client.                                         *)
OnAClient == {"subscribing"} \cup Teardown \cup Commanding

(* Owners and commanders run their own calls, and one of these under way    *)
(* has at least one write or read to finish.                                *)
CallsFit ==
  /\ \A t \in Owners : pc[t] \notin Commanding
  /\ \A t \in Commanders : pc[t] \notin Teardown \cup Setup
  /\ \A t \in Commanders : pc[t] \in Commanding => left[t] > 0
  /\ \A t \in Tasks : pc[t] \in OnAClient => cl[t] # 0

LinkInv == LinkTypeOK /\ CallsFit

LEMMA InitLinkInv == LinkInit => LinkInv
  BY LinkAssumption
  DEF LinkInit, LinkInv, LinkTypeOK, CallsFit, OnAClient, Outcomes, Clients, Tasks, Teardown,
      Setup, Commanding

(* Suspend and EndCall are the two ways an action leaves a task.                *)
LEMMA SuspendKeepsTypes ==
  ASSUME LinkTypeOK, NEW t \in Tasks, NEW w \in Teardown \cup Setup \cup Commanding,
         NEW c \in 0..MaxClients, Suspend(t, w, c)
  PROVE  /\ pc' \in [Tasks -> {"idle"} \cup Teardown \cup Setup \cup Commanding]
         /\ outcome' \in [Tasks -> Outcomes]
         /\ cl' \in [Tasks -> 0..MaxClients]
         /\ pc'[t] = w /\ cl'[t] = c
         /\ \A u \in Tasks : u # t => pc'[u] = pc[u] /\ cl'[u] = cl[u]
  BY DEF Suspend, LinkTypeOK, Outcomes

LEMMA EndKeepsTypes ==
  ASSUME LinkTypeOK, NEW t \in Tasks, NEW how \in Outcomes, EndCall(t, how)
  PROVE  /\ pc' \in [Tasks -> {"idle"} \cup Teardown \cup Setup \cup Commanding]
         /\ outcome' \in [Tasks -> Outcomes]
         /\ cl' \in [Tasks -> 0..MaxClients]
         /\ pc'[t] = "idle" /\ cl'[t] = 0
         /\ \A u \in Tasks : u # t => pc'[u] = pc[u] /\ cl'[u] = cl[u]
  BY LinkAssumption DEF EndCall, LinkTypeOK

(* What a step changes of a task: it is left idle or at one of the awaits   *)
(* in S, the other tasks where they were.                                   *)
Leaves(t, S) ==
  /\ pc' \in [Tasks -> {"idle"} \cup Teardown \cup Setup \cup Commanding]
  /\ outcome' \in [Tasks -> Outcomes]
  /\ cl' \in [Tasks -> 0..MaxClients]
  /\ pc'[t] \in {"idle"} \cup S
  /\ pc'[t] \in OnAClient => cl'[t] # 0
  /\ \A u \in Tasks : u # t => pc'[u] = pc[u] /\ cl'[u] = cl[u]

(* A step of an owner leaves it idle or at an await of connect or           *)
(* disconnect.                                                              *)
LEMMA OwnerLeaves ==
  ASSUME LinkInv, NEW t \in Owners, ConnectSteps(t) \/ DisconnectSteps(t)
  PROVE  Leaves(t, Teardown \cup Setup)
<1> USE LinkAssumption DEF LinkInv, Tasks, Clients
<1>1. t \in Tasks
  OBVIOUS
<1>e. \A how \in Outcomes : EndCall(t, how) => Leaves(t, Teardown \cup Setup)
  BY <1>1, EndKeepsTypes DEF Leaves, OnAClient, Teardown, Commanding
<1>s. \A w \in Teardown \cup Setup : \A c \in 0..MaxClients :
        (w \in OnAClient => c # 0) /\ Suspend(t, w, c) => Leaves(t, Teardown \cup Setup)
  <2> SUFFICES ASSUME NEW w \in Teardown \cup Setup, NEW c \in 0..MaxClients,
                      w \in OnAClient => c # 0, Suspend(t, w, c)
               PROVE  Leaves(t, Teardown \cup Setup)
    OBVIOUS
  <2>1. /\ pc' \in [Tasks -> {"idle"} \cup Teardown \cup Setup \cup Commanding]
        /\ outcome' \in [Tasks -> Outcomes]
        /\ cl' \in [Tasks -> 0..MaxClients]
        /\ pc'[t] = w /\ cl'[t] = c
        /\ \A u \in Tasks : u # t => pc'[u] = pc[u] /\ cl'[u] = cl[u]
    BY <1>1, SuspendKeepsTypes, Zenon
  <2> QED BY <2>1 DEF Leaves
<1>f. \A w \in {"scanning", "establishing", "settling", "waking"} :
        w \in Teardown \cup Setup /\ w \notin OnAClient
  BY DEF OnAClient, Teardown, Setup, Commanding
<1>r. Resolve(t) => Leaves(t, Teardown \cup Setup)
  BY <1>s, <1>f DEF Resolve
<1> HIDE DEF Tasks
<1>k. client \in 0..MaxClients /\ cl[t] \in 0..MaxClients
  BY <1>1 DEF LinkTypeOK
<1> DEFINE Goal == Leaves(t, Teardown \cup Setup)
<1> HIDE DEF Goal
<1>2. Connect(t) => Goal
  BY <1>e, <1>s, <1>r, <1>k DEF Goal, Connect, Outcomes, Teardown
<1>3. Disconnect(t) => Goal
  BY <1>e, <1>s, <1>k DEF Goal, Disconnect, IsConnected, Outcomes, Teardown
<1>4. StopNotifyEnds(t) => Goal
  BY <1>e, <1>s, <1>k DEF Goal, StopNotifyEnds, Outcomes, Teardown
<1>5. ReleaseEnds(t) \/ ReleaseRaises(t) => Goal
  BY <1>e, <1>r DEF Goal, ReleaseEnds, ReleaseRaises, Outcomes
<1>6. ScanEnds(t) => Goal
  BY <1>e, <1>s, <1>f DEF Goal, ScanEnds, Outcomes
<1>7. ASSUME NEW c \in Clients, Established(t, c) PROVE Goal
  BY <1>7, <1>e, <1>s DEF Goal, Established, Outcomes, Setup
<1>8. EstablishFails(t) \/ SubscribeFails(t) \/ WakeEnds(t) => Goal
  BY <1>e DEF Goal, EstablishFails, SubscribeFails, WakeEnds, Outcomes
<1>9. Subscribed(t) => Goal
  BY <1>s, <1>f, <1>k DEF Goal, Subscribed
<1>10. Settled(t) => Goal
  BY <1>e, <1>s, <1>f, <1>k DEF Goal, Settled, Outcomes
<1> QED
  BY <1>2, <1>3, <1>4, <1>5, <1>6, <1>7, <1>8, <1>9, <1>10
  DEF Goal, ConnectSteps, DisconnectSteps

(* What a step of an owner does to the rest of the state.                   *)
SharedStateFits(t) ==
  /\ client' \in 0..MaxClients
  /\ chars' \in 0..MaxClients
  /\ device' \in BOOLEAN
  /\ state' \in [Clients -> {"new", "up", "down", "released"}]
  /\ notifying' \subseteq Clients
  /\ raised' \subseteq Clients
  /\ op' \in [Tasks -> {"none", "connect", "disconnect", "send", "read"}]
  /\ left' \in [Tasks -> Nat]
  /\ \A u \in Tasks : u # t => left'[u] = left[u]

LEMMA OwnerKeepsState ==
  ASSUME LinkInv, NEW t \in Owners, ConnectSteps(t) \/ DisconnectSteps(t)
  PROVE  SharedStateFits(t)
<1> USE LinkAssumption DEF SharedStateFits, LinkInv, LinkTypeOK
<1>1. t \in Tasks
  BY DEF Tasks
<1>0. 0 \in 0..MaxClients /\ \A c \in Clients : c \in 0..MaxClients
  BY DEF Clients
<1>2. Connect(t) => SharedStateFits(t)
  BY <1>1 DEF Connect, Enter
<1>3. Disconnect(t) => SharedStateFits(t)
  BY <1>1 DEF Disconnect, Enter
<1>4. StopNotifyEnds(t) => SharedStateFits(t)
  BY DEF StopNotifyEnds
<1>5. ReleaseEnds(t) => SharedStateFits(t)
  BY <1>0 DEF ReleaseEnds, Released
<1>10. ReleaseRaises(t) => SharedStateFits(t)
  <2> SUFFICES ASSUME ReleaseRaises(t) PROVE SharedStateFits(t)
    OBVIOUS
  <2>1. cl[t] \in Clients
    BY <1>1 DEF ReleaseRaises, Clients, CallsFit, OnAClient, Teardown
  <2> QED BY <1>0, <2>1 DEF ReleaseRaises, Released
<1>6. ScanEnds(t) => SharedStateFits(t)
  BY DEF ScanEnds
<1>7. ASSUME NEW c \in Clients, Established(t, c) PROVE SharedStateFits(t)
  BY <1>7, <1>0 DEF Established
<1>8. EstablishFails(t) \/ SubscribeFails(t) \/ WakeEnds(t) \/ Settled(t) => SharedStateFits(t)
  BY DEF EstablishFails, SubscribeFails, WakeEnds, Settled
<1>9. Subscribed(t) => SharedStateFits(t)
  <2> SUFFICES ASSUME Subscribed(t) PROVE SharedStateFits(t)
    OBVIOUS
  <2>1. cl[t] \in Clients
    BY <1>1 DEF Subscribed, Clients, CallsFit, OnAClient
  <2> QED BY <2>1 DEF Subscribed
<1> QED
  BY <1>2, <1>3, <1>4, <1>5, <1>6, <1>7, <1>8, <1>9, <1>10
  DEF ConnectSteps, DisconnectSteps

(* A step of a commander leaves it idle, or writing or reading with         *)
(* something left.                                                          *)
LEMMA CommanderLeaves ==
  ASSUME LinkInv, NEW t \in Commanders, CommandSteps(t)
  PROVE  /\ Leaves(t, Commanding)
         /\ left' \in [Tasks -> Nat]
         /\ pc'[t] \in Commanding => left'[t] > 0
         /\ \A u \in Tasks : u # t => left'[u] = left[u]
<1> USE LinkAssumption DEF LinkInv
<1>1. t \in Tasks
  BY DEF Tasks
<1>e. \A how \in Outcomes : EndCall(t, how) => Leaves(t, Commanding) /\ pc'[t] \notin Commanding
  BY <1>1, EndKeepsTypes DEF Leaves, OnAClient, Teardown, Commanding
<1>s. \A w \in Commanding : client # 0 /\ Suspend(t, w, client) => Leaves(t, Commanding)
  <2> SUFFICES ASSUME NEW w \in Commanding, client # 0, Suspend(t, w, client)
               PROVE  Leaves(t, Commanding)
    OBVIOUS
  <2>1. client \in 0..MaxClients
    BY DEF LinkTypeOK
  <2>2. /\ pc' \in [Tasks -> {"idle"} \cup Teardown \cup Setup \cup Commanding]
        /\ outcome' \in [Tasks -> Outcomes]
        /\ cl' \in [Tasks -> 0..MaxClients]
        /\ pc'[t] = w /\ cl'[t] = client
        /\ \A u \in Tasks : u # t => pc'[u] = pc[u] /\ cl'[u] = cl[u]
    BY <1>1, <2>1, SuspendKeepsTypes, Zenon
  <2> QED BY <2>2 DEF Leaves
<1>2. CASE Send(t) \/ ReadChars(t)
  <2>1. Leaves(t, Commanding)
    BY <1>2, <1>e, <1>s DEF Send, ReadChars, Outcomes, Commanding
  <2>2. left' = [left EXCEPT ![t] = CHUNKS] \/ left' = [left EXCEPT ![t] = READS]
    BY <1>2 DEF Send, ReadChars, Enter
  <2> QED BY <1>1, <2>1, <2>2 DEF LinkTypeOK
<1>3. CASE WriteReturns(t) \/ ReadEnds(t)
  <2>1. left[t] \in Nat /\ left[t] > 0
    BY <1>1, <1>3 DEF WriteReturns, ReadEnds, CallsFit, LinkTypeOK, Commanding
  <2>2. left' = [left EXCEPT ![t] = left[t] - 1]
    BY <1>3 DEF WriteReturns, ReadEnds
  <2>3. Leaves(t, Commanding) /\ (pc'[t] \in Commanding => left[t] > 1)
    <3>1. CASE left[t] = 1
      <4>1. EndCall(t, "returned")
        BY <1>3, <3>1 DEF WriteReturns, ReadEnds
      <4> QED BY <4>1, <1>e DEF Outcomes
    <3>2. CASE left[t] > 1
      <4>1. \/ EndCall(t, "AttributeError") \/ EndCall(t, "AssertionError")
            \/ client # 0 /\ (Suspend(t, "writing", client) \/ Suspend(t, "reading", client))
        <5>1. left[t] # 1
          BY <2>1, <3>2
        <5>2. CASE WriteReturns(t)
          BY <5>1, <5>2, <3>2 DEF WriteReturns
        <5>3. CASE ReadEnds(t)
          BY <5>1, <5>3, <3>2 DEF ReadEnds
        <5> QED BY <1>3, <5>2, <5>3
      <4> QED BY <4>1, <3>2, <1>e, <1>s DEF Outcomes, Commanding
    <3> QED BY <2>1, <3>1, <3>2
  <2> QED BY <1>1, <2>1, <2>2, <2>3 DEF LinkTypeOK
<1>4. CASE WriteFails(t)
  BY <1>1, <1>4, <1>e DEF WriteFails, Outcomes, LinkTypeOK
<1> QED BY <1>2, <1>3, <1>4 DEF CommandSteps

LEMMA NextLinkInv == LinkInv /\ [LinkNext]_linkVars => LinkInv'
<1> SUFFICES ASSUME LinkInv, [LinkNext]_linkVars PROVE LinkInv'
  OBVIOUS
<1> USE LinkAssumption DEF LinkInv
<1>1. ASSUME NEW t \in Owners, ConnectSteps(t) \/ DisconnectSteps(t) PROVE LinkInv'
  <2>1. Leaves(t, Teardown \cup Setup)
    BY <1>1, OwnerLeaves
  <2>2. SharedStateFits(t)
    BY <1>1, OwnerKeepsState
  <2>3. \A u \in Commanders : left'[u] = left[u]
    BY <2>2, LinkAssumption DEF SharedStateFits, Tasks
  <2>7. LinkTypeOK'
    BY <2>1, <2>2 DEF Leaves, SharedStateFits, LinkTypeOK, Clients, Outcomes
  <2>8. CallsFit'
    BY <2>1, <2>3 DEF Leaves, CallsFit, OnAClient, Tasks, Teardown, Setup, Commanding
  <2> QED BY <2>7, <2>8
<1>2. ASSUME NEW t \in Commanders, CommandSteps(t) PROVE LinkInv'
  <2>1. /\ Leaves(t, Commanding)
        /\ left' \in [Tasks -> Nat]
        /\ pc'[t] \in Commanding => left'[t] > 0
        /\ \A u \in Tasks : u # t => left'[u] = left[u]
    BY <1>2, CommanderLeaves
  <2>2. /\ UNCHANGED <<client, chars, device, state, notifying, raised>>
        /\ op' \in [Tasks -> {"none", "connect", "disconnect", "send", "read"}]
    BY <1>2 DEF CommandSteps, Send, WriteReturns, WriteFails, ReadChars, ReadEnds,
      Enter, LinkTypeOK
  <2>3. LinkTypeOK'
    BY <2>1, <2>2 DEF Leaves, LinkTypeOK, Clients, Outcomes
  <2>4. CallsFit'
    BY <2>1 DEF Leaves, CallsFit, OnAClient, Tasks, Teardown, Setup, Commanding
  <2> QED BY <2>3, <2>4
<1>3. ASSUME NEW t \in Tasks, Cancel(t) PROVE LinkInv'
  <2>1. EndCall(t, "cancelled") /\ UNCHANGED <<chars, device, raised, op, left>>
    BY <1>3 DEF Cancel
  <2>2. client' \in 0..MaxClients
    BY <1>3 DEF Cancel, LinkTypeOK
  <2>3. state' \in [Clients -> {"new", "up", "down", "released"}]
    BY <1>3 DEF Cancel, Released, LinkTypeOK
  <2>4. notifying' \subseteq Clients
    <3>1. pc[t] = "subscribing" => cl[t] \in Clients
      BY DEF CallsFit, OnAClient, LinkTypeOK, Clients
    <3> QED BY <1>3, <3>1 DEF Cancel, Released, LinkTypeOK
  <2>5. LinkTypeOK'
    BY <2>1, <2>2, <2>3, <2>4, EndKeepsTypes DEF LinkTypeOK, Outcomes, Clients
  <2>6. CallsFit'
    BY <2>1, EndKeepsTypes DEF CallsFit, OnAClient, Tasks, Teardown, Setup, Commanding, Outcomes
  <2> QED BY <2>5, <2>6
<1>4. ASSUME NEW c \in Clients, ClientDrops(c) PROVE LinkInv'
  BY <1>4 DEF ClientDrops, LinkTypeOK, CallsFit, Clients, Outcomes
<1>5. CASE UNCHANGED linkVars
  BY <1>5 DEF linkVars, LinkTypeOK, CallsFit, Clients, Outcomes
<1> QED BY <1>1, <1>2, <1>3, <1>4, <1>5 DEF LinkNext

(* The state of the link keeps its types.                                   *)
THEOREM LinkTypeCorrect == LinkSpec => []LinkTypeOK
<1>1. LinkInv => LinkTypeOK
  BY DEF LinkInv
<1>2. LinkSpec => []LinkInv
  BY InitLinkInv, NextLinkInv, PTL DEF LinkSpec
<1> QED BY <1>1, <1>2, PTL

----------------------------------------------------------------------------
(* One owner, whose disconnects are let finish.                             *)

(* Beside those whose release raised, the client in use is the only one     *)
(* that can be open, it is the one a disconnect or a start_notify is on,    *)
(* and there is none while a new one is looked for.                         *)
OneClient(o) ==
  /\ OnlyTheClientInUseIsOpen
  /\ client # 0 => client \in Open
  /\ notifying \subseteq Open
  /\ pc[o] \in Teardown \cup {"subscribing"} => cl[o] = client /\ client # 0
  /\ pc[o] \in {"scanning", "establishing"} => client = 0

LEMMA OwnerKeepsOneClient ==
  ASSUME NEW o, Owners = {o}, LinkInv, LinkInv', OneClient(o),
         ConnectSteps(o) \/ DisconnectSteps(o)
  PROVE  OneClient(o)'
<1> USE DEF OneClient, OnlyTheClientInUseIsOpen, Open, LinkInv, LinkTypeOK, Tasks,
            Clients, Teardown
<1>1. CASE Connect(o)
  <2>1. UNCHANGED <<client, chars, device, state, notifying>> /\ pc[o] = "idle"
    BY <1>1 DEF Connect, Enter
  <2>2. CASE IsConnected
    BY <1>1, <2>1, <2>2 DEF Connect, EndCall
  <2>3. CASE ~IsConnected /\ client = 0
    BY <1>1, <2>1, <2>3 DEF Connect, Resolve, Suspend
  <2>4. CASE ~IsConnected /\ client # 0
    BY <1>1, <2>1, <2>4 DEF Connect, Suspend
  <2> QED BY <2>2, <2>3, <2>4
<1>2. CASE Disconnect(o)
  BY <1>2 DEF Disconnect, Enter, Suspend, EndCall, IsConnected
<1>3. CASE StopNotifyEnds(o)
  BY <1>3 DEF StopNotifyEnds, Suspend, EndCall
<1>4. CASE ReleaseEnds(o)
  BY <1>4 DEF ReleaseEnds, Released, Resolve, Suspend, EndCall
<1>10. CASE ReleaseRaises(o)
  BY <1>10 DEF ReleaseRaises, Released, EndCall
<1>5. CASE ScanEnds(o)
  BY <1>5 DEF ScanEnds, Suspend, EndCall
<1>6. ASSUME NEW c \in Clients, Established(o, c) PROVE OneClient(o)'
  BY <1>6 DEF Established, Suspend, EndCall
<1>7. CASE EstablishFails(o) \/ SubscribeFails(o) \/ WakeEnds(o)
  BY <1>7 DEF EstablishFails, SubscribeFails, WakeEnds, EndCall
<1>8. CASE Subscribed(o)
  BY <1>8 DEF Subscribed, Suspend
<1>9. CASE Settled(o)
  BY <1>9 DEF Settled, Suspend, EndCall
<1> QED
  BY <1>1, <1>2, <1>3, <1>4, <1>5, <1>6, <1>7, <1>8, <1>9, <1>10
  DEF ConnectSteps, DisconnectSteps

LEMMA NextOneClient ==
  ASSUME NEW o, Owners = {o}, Cancellable \cap Teardown = {},
         LinkInv, LinkInv', OneClient(o), [LinkNext]_linkVars
  PROVE  OneClient(o)'
<1>1. CASE ConnectSteps(o) \/ DisconnectSteps(o)
  BY <1>1, OwnerKeepsOneClient
<1>2. ASSUME NEW t \in Commanders, CommandSteps(t) PROVE OneClient(o)'
  <2>1. UNCHANGED <<client, state, notifying, raised>>
    BY <1>2 DEF CommandSteps, Send, WriteReturns, WriteFails, ReadChars, ReadEnds
  <2>2. t # o /\ o \in Tasks
    BY LinkAssumption DEF Tasks
  <2>3. pc'[o] = pc[o] /\ cl'[o] = cl[o]
    BY <1>2, <2>2, CommanderLeaves DEF Leaves
  <2> QED BY <2>1, <2>3 DEF OneClient, OnlyTheClientInUseIsOpen, Open
<1>3. ASSUME NEW t \in Tasks, Cancel(t) PROVE OneClient(o)'
  <2>1. pc[t] \notin Teardown /\ UNCHANGED <<client, state, raised>>
    BY <1>3 DEF Cancel, Teardown
  <2>2. pc[t] = "subscribing" => t = o
    BY DEF LinkInv, CallsFit, Tasks, Setup
  <2>3. \/ notifying' = notifying
        \/ pc[t] = "subscribing" /\ notifying' = notifying \cup {cl[t]}
    <3>1. pc[t] # "stopping" /\ pc[t] # "releasing"
      BY <2>1 DEF Teardown
    <3>2. \/ pc[t] = "subscribing" /\ notifying' = notifying \cup {cl[t]} /\ UNCHANGED state
          \/ UNCHANGED <<state, notifying>>
      BY <1>3, <3>1, Zenon DEF Cancel
    <3> QED BY <3>2
  <2>4. notifying' \subseteq Open
    BY <2>2, <2>3 DEF OneClient, Teardown
  <2>5. pc'[o] = "idle" \/ (pc'[o] = pc[o] /\ cl'[o] = cl[o])
    BY <1>3, EndKeepsTypes DEF Cancel, LinkInv, Tasks, Outcomes
  <2> QED BY <2>1, <2>4, <2>5 DEF OneClient, OnlyTheClientInUseIsOpen, Open, Teardown
<1>4. ASSUME NEW c \in Clients, ClientDrops(c) PROVE OneClient(o)'
  BY <1>4 DEF ClientDrops, OneClient, OnlyTheClientInUseIsOpen, Open, LinkInv, LinkTypeOK
<1>5. CASE UNCHANGED linkVars
  BY <1>5 DEF linkVars, OneClient, OnlyTheClientInUseIsOpen, Open
<1> QED BY <1>1, <1>2, <1>3, <1>4, <1>5 DEF LinkNext

LEMMA AlwaysOneClient ==
  ASSUME NEW o, Owners = {o}, Cancellable \cap Teardown = {}
  PROVE  LinkSpec => [](LinkInv /\ OneClient(o))
<1>1. LinkInit => LinkInv /\ OneClient(o)
  BY InitLinkInv
  DEF LinkInit, OneClient, OnlyTheClientInUseIsOpen, Open, Tasks, Teardown
<1>2. LinkInv /\ OneClient(o) /\ [LinkNext]_linkVars => (LinkInv /\ OneClient(o))'
  BY NextLinkInv, NextOneClient
<1> QED BY <1>1, <1>2, PTL DEF LinkSpec

(* With one owner whose disconnects are let finish, whatever else is        *)
(* cancelled, fails or drops, a bleak client left open unused is one whose  *)
(* own release raised.                                                      *)
THEOREM ClientsAreReleased ==
  ASSUME NEW o, Owners = {o}, Cancellable \cap Teardown = {}
  PROVE  LinkSpec => []OnlyTheClientInUseIsOpen
<1>1. LinkInv /\ OneClient(o) => OnlyTheClientInUseIsOpen
  BY DEF OneClient
<1> QED BY <1>1, AlwaysOneClient, PTL

(* ... so the lock's chunks come through one notify session, and those of   *)
(* such clients.                                                            *)
THEOREM NotifySessionIsUnique ==
  ASSUME NEW o, Owners = {o}, Cancellable \cap Teardown = {}
  PROVE  LinkSpec => []OneNotifySession
<1>1. LinkInv /\ OneClient(o) => OneNotifySession
  BY DEF OneClient, OnlyTheClientInUseIsOpen, OneNotifySession
<1> QED BY <1>1, AlwaysOneClient, PTL

(* ... and the chunks of a frame go out on two connections only if the      *)
(* release of the first one raised, and left it up.                         *)
THEOREM FramesAreNotSplit ==
  ASSUME NEW o, Owners = {o}, Cancellable \cap Teardown = {}
  PROVE  LinkSpec => FrameStaysOnItsLink
<1>1. ASSUME LinkInv, OneClient(o), [LinkNext]_linkVars,
             NEW t \in Tasks, pc[t] = "writing", pc'[t] = "writing"
      PROVE  cl'[t] = cl[t] \/ cl[t] \in raised
  <2>1. t \in Commanders /\ t \notin Owners
    BY <1>1, LinkAssumption DEF LinkInv, CallsFit, Tasks, Commanding
  <2>2. CASE WriteReturns(t)
    <3>1. cl[t] \in Clients /\ left[t] \in Nat
      BY <1>1 DEF LinkInv, CallsFit, OnAClient, LinkTypeOK, Commanding, Clients
    <3> SUFFICES ASSUME cl[t] \notin raised PROVE cl'[t] = cl[t]
      OBVIOUS
    <3>2. cl[t] = client
      BY <1>1, <2>2, <3>1 DEF WriteReturns, OneClient, OnlyTheClientInUseIsOpen, Open
    <3>3. client # 0
      BY <3>1, <3>2 DEF Clients
    <3>4. EndCall(t, "returned") \/ Suspend(t, "writing", client)
      <4>1. left[t] > 0
        BY <1>1, <2>1 DEF LinkInv, CallsFit, Commanding
      <4>2. CASE left[t] = 1
        BY <2>2, <4>2 DEF WriteReturns
      <4>3. CASE left[t] > 1
        <5>1. left[t] # 1
          BY <3>1, <4>3
        <5> QED BY <2>2, <3>3, <4>3, <5>1 DEF WriteReturns
      <4> QED BY <3>1, <4>1, <4>2, <4>3
    <3> QED BY <1>1, <3>2, <3>4 DEF EndCall, Suspend, LinkInv, LinkTypeOK
  <2>3. CASE WriteFails(t)
    BY <1>1, <2>3 DEF WriteFails, EndCall, LinkInv, LinkTypeOK
  <2>4. CASE Send(t) \/ ReadChars(t) \/ ReadEnds(t)
    BY <1>1, <2>4 DEF Send, ReadChars, ReadEnds, Enter
  <2>5. ASSUME NEW u \in Commanders, u # t, CommandSteps(u) PROVE cl'[t] = cl[t]
    BY <1>1, <2>5, CommanderLeaves DEF Leaves
  <2>6. CASE ConnectSteps(o) \/ DisconnectSteps(o)
    BY <1>1, <2>1, <2>6, OwnerLeaves DEF Leaves
  <2>7. ASSUME NEW u \in Tasks, Cancel(u) PROVE cl'[t] = cl[t]
    BY <1>1, <2>7 DEF Cancel, EndCall, LinkInv, LinkTypeOK
  <2>8. (\E c \in Clients : ClientDrops(c)) \/ UNCHANGED linkVars => cl'[t] = cl[t]
    BY DEF ClientDrops, linkVars
  <2> QED
    BY <1>1, <2>1, <2>2, <2>3, <2>4, <2>5, <2>6, <2>7, <2>8 DEF LinkNext, CommandSteps
<1>2. LinkInv /\ OneClient(o) /\ [LinkNext]_linkVars =>
        [\A t \in Tasks :
           pc[t] = "writing" /\ pc'[t] = "writing" =>
             cl'[t] = cl[t] \/ cl[t] \in raised]_linkVars
  BY <1>1
<1> QED BY <1>2, AlwaysOneClient, PTL DEF LinkSpec, FrameStaysOnItsLink

----------------------------------------------------------------------------
(* How far connect has come.                                               *)
Progress(o) ==
  /\ pc[o] = "subscribing" => chars = client
  /\ pc[o] \in {"settling", "waking"} => chars = client /\ client \in notifying

LEMMA OwnerKeepsProgress ==
  ASSUME NEW o, Owners = {o}, LinkInv, OneClient(o), Progress(o),
         ConnectSteps(o) \/ DisconnectSteps(o)
  PROVE  Progress(o)'
<1>0. o \in Tasks
  BY DEF Tasks
<1> USE <1>0 DEF Progress, LinkInv, LinkTypeOK
<1>1. CASE Connect(o) \/ Disconnect(o)
  BY <1>1 DEF Connect, Disconnect, Resolve, Suspend, EndCall
<1>2. CASE StopNotifyEnds(o) \/ ReleaseEnds(o) \/ ReleaseRaises(o)
  BY <1>2 DEF StopNotifyEnds, ReleaseEnds, ReleaseRaises, Resolve, Suspend, EndCall
<1>3. CASE ScanEnds(o) \/ EstablishFails(o) \/ SubscribeFails(o) \/ WakeEnds(o)
  BY <1>3 DEF ScanEnds, EstablishFails, SubscribeFails, WakeEnds, Suspend, EndCall
<1>4. ASSUME NEW c \in Clients, Established(o, c) PROVE Progress(o)'
  BY <1>4 DEF Established, Suspend, EndCall
<1>5. CASE Subscribed(o)
  BY <1>5 DEF Subscribed, Suspend, OneClient, Teardown
<1>6. CASE Settled(o)
  BY <1>6 DEF Settled, Suspend, EndCall
<1> QED
  BY <1>1, <1>2, <1>3, <1>4, <1>5, <1>6 DEF ConnectSteps, DisconnectSteps

LEMMA NextProgress ==
  ASSUME NEW o, Owners = {o}, Cancellable \cap Teardown = {},
         LinkInv, OneClient(o), Progress(o), [LinkNext]_linkVars
  PROVE  Progress(o)'
<1>0. o \in Tasks
  BY DEF Tasks
<1>1. CASE ConnectSteps(o) \/ DisconnectSteps(o)
  BY <1>1, OwnerKeepsProgress
<1>2. ASSUME NEW t \in Commanders, CommandSteps(t) PROVE Progress(o)'
  <2>1. UNCHANGED <<client, chars, notifying>>
    BY <1>2 DEF CommandSteps, Send, WriteReturns, WriteFails, ReadChars, ReadEnds
  <2>2. t # o
    BY LinkAssumption
  <2>3. pc'[o] = pc[o]
    BY <1>0, <1>2, <2>2, CommanderLeaves DEF Leaves
  <2> QED BY <2>1, <2>3 DEF Progress
<1>3. ASSUME NEW t \in Tasks, Cancel(t) PROVE Progress(o)'
  <2>1. pc[t] \notin Teardown /\ UNCHANGED <<client, chars>>
    BY <1>3 DEF Cancel, Teardown
  <2>2. notifying \subseteq notifying'
    BY <1>3, <2>1 DEF Cancel, Teardown
  <2>3. pc'[o] = "idle" \/ pc'[o] = pc[o]
    BY <1>0, <1>3, EndKeepsTypes DEF Cancel, LinkInv, Outcomes
  <2> QED BY <2>1, <2>2, <2>3 DEF Progress
<1>4. ASSUME NEW c \in Clients, ClientDrops(c) PROVE Progress(o)'
  BY <1>4 DEF ClientDrops, Progress
<1>5. CASE UNCHANGED linkVars
  BY <1>5 DEF linkVars, Progress
<1> QED BY <1>1, <1>2, <1>3, <1>4, <1>5 DEF LinkNext

(* ... and a connect that went all the way has subscribed the client in     *)
(* use, and holds its characteristics.                                      *)
THEOREM ConnectSubscribes ==
  ASSUME NEW o, Owners = {o}, Cancellable \cap Teardown = {}
  PROVE  LinkSpec => EstablishedMeansSubscribed
<1>1. LinkInit => Progress(o)
  BY DEF LinkInit, Progress, Tasks
<1>2. LinkInv /\ OneClient(o) /\ Progress(o) /\ [LinkNext]_linkVars => Progress(o)'
  BY NextProgress
<1>3. ASSUME LinkInv, Progress(o), NEW t \in Tasks, pc[t] = "waking"
      PROVE  client \in notifying /\ chars = client
  <2>1. t \notin Commanders
    BY <1>3 DEF LinkInv, CallsFit, Setup
  <2> QED BY <1>3, <2>1 DEF Progress, Tasks
<1>4. LinkInv /\ Progress(o) /\ [LinkNext]_linkVars =>
        [\A t \in Tasks :
           pc[t] = "waking" /\ outcome'[t] = "returned" /\ pc'[t] = "idle" =>
             client \in notifying /\ chars = client]_linkVars
  BY <1>3
<1> QED BY <1>1, <1>2, <1>4, AlwaysOneClient, PTL DEF LinkSpec, EstablishedMeansSubscribed

----------------------------------------------------------------------------
(* KeepAlive.                                                               *)

(* A sleeping window wakes before WINDOW + INTERVAL: it looked at the       *)
(* deadline when it lay down.                                               *)
WakesInTime ==
  \A w \in Windows : phase[w] = "sleeping" => age[w] + nap[w] < WINDOW + INTERVAL

TimeInv == KeepAliveTypeOK /\ WakesInTime

LEMMA InitTimeInv == KeepAliveInit => TimeInv
  BY KeepAliveAssumption DEF KeepAliveInit, TimeInv, KeepAliveTypeOK, WakesInTime, Windows, MaxAge

LEMMA LoopKeepsTimeInv ==
  ASSUME TimeInv, NEW w \in Windows, Loop(w),
         UNCHANGED <<task, cancelling, age, stopping, connected, overlapped>>
  PROVE  TimeInv'
<1>1. KeepAliveTypeOK'
  <2>1. CASE age[w] < WINDOW /\ connected
    <3>1. INTERVAL \in 0..INTERVAL
      BY KeepAliveAssumption
    <3>2. nap' \in [Windows -> 0..INTERVAL] /\ phase' \in [Windows -> {"new", "ready", "sleeping", "poking", "done"}]
      BY <2>1, <3>1 DEF TimeInv, KeepAliveTypeOK, Loop
    <3> QED BY <3>2 DEF TimeInv, KeepAliveTypeOK, Windows, MaxAge
  <2>2. CASE ~(age[w] < WINDOW /\ connected)
    BY <2>2 DEF TimeInv, KeepAliveTypeOK, Loop, Windows, MaxAge
  <2> QED BY <2>1, <2>2
<1>2. WakesInTime'
  BY KeepAliveAssumption DEF TimeInv, KeepAliveTypeOK, WakesInTime, Loop, Windows, MaxAge
<1> QED BY <1>1, <1>2 DEF TimeInv

LEMMA NextTimeInv == TimeInv /\ [KeepAliveNext]_keepAliveVars => TimeInv'
<1> SUFFICES ASSUME TimeInv, [KeepAliveNext]_keepAliveVars PROVE TimeInv'
  OBVIOUS
<1> USE KeepAliveAssumption
<1>1. ASSUME NEW t \in Callers, Restart(t) PROVE TimeInv'
  BY <1>1, SMTT(30) DEF Restart, TimeInv, KeepAliveTypeOK, WakesInTime, Windows, Running
<1>2. ASSUME NEW t \in Callers, Stop(t) PROVE TimeInv'
  BY <1>2 DEF Stop, TimeInv, KeepAliveTypeOK, WakesInTime, Windows, Running
<1>3. ASSUME NEW t \in Callers, StopReturns(t) PROVE TimeInv'
  BY <1>3 DEF StopReturns, TimeInv, KeepAliveTypeOK, WakesInTime, Windows
<1>4. ASSUME NEW w \in Windows, Begin(w) PROVE TimeInv'
  BY <1>4, LoopKeepsTimeInv DEF Begin
<1>5. ASSUME NEW w \in Windows, Wake(w) PROVE TimeInv'
  BY <1>5 DEF Wake, TimeInv, KeepAliveTypeOK, WakesInTime, Windows
<1>6. ASSUME NEW w \in Windows, PokeReturns(w) PROVE TimeInv'
  BY <1>6, LoopKeepsTimeInv DEF PokeReturns
<1>7. ASSUME NEW w \in Windows, PokeRaises(w) PROVE TimeInv'
  BY <1>7 DEF PokeRaises, TimeInv, KeepAliveTypeOK, WakesInTime, Windows
<1>8. ASSUME NEW w \in Windows, Unwind(w) PROVE TimeInv'
  BY <1>8 DEF Unwind, TimeInv, KeepAliveTypeOK, WakesInTime, Windows
<1>9. CASE Tick
  <2>1. \A w \in Windows : phase[w] = "sleeping" => nap[w] > 0
    BY <1>9 DEF Tick, Live
  <2>2. KeepAliveTypeOK'
    <3>1. age' \in [Windows -> 0..MaxAge]
      BY <1>9 DEF Tick, TimeInv, KeepAliveTypeOK, MaxAge
    <3>2. nap' \in [Windows -> 0..INTERVAL]
      BY <1>9, <2>1 DEF Tick, TimeInv, KeepAliveTypeOK
    <3> QED
      BY <1>9, <3>1, <3>2 DEF Tick, TimeInv, KeepAliveTypeOK, Windows, MaxAge
  <2>3. WakesInTime'
    BY <1>9, <2>1 DEF Tick, TimeInv, KeepAliveTypeOK, WakesInTime, MaxAge, Windows, Live
  <2> QED BY <2>2, <2>3 DEF TimeInv
<1>10. CASE LinkChanges
  BY <1>10 DEF LinkChanges, TimeInv, KeepAliveTypeOK, WakesInTime, Windows
<1>11. CASE UNCHANGED keepAliveVars
  BY <1>11 DEF keepAliveVars, TimeInv, KeepAliveTypeOK, WakesInTime, Windows
<1> QED
  BY <1>1, <1>2, <1>3, <1>4, <1>5, <1>6, <1>7, <1>8, <1>9, <1>10, <1>11
  DEF KeepAliveNext, Run

(* The state keeps its types, and a sleeping window always wakes in time.   *)
THEOREM TimeInvariant == KeepAliveSpec => []TimeInv
  BY InitTimeInv, NextTimeInv, PTL DEF KeepAliveSpec

(* KeepAlive.  Every variable has its type in every state.                  *)
THEOREM KeepAliveTypeCorrect == KeepAliveSpec => []KeepAliveTypeOK
<1>1. TimeInv => KeepAliveTypeOK
  BY DEF TimeInv
<1> QED BY <1>1, TimeInvariant, PTL

(* However many callers restart and stop, and however long pokes take, no   *)
(* poke starts in a cancelled window or WINDOW + INTERVAL into one.         *)
THEOREM PokesAreInTime == KeepAliveSpec => PokesStayInTheWindow
<1>1. ASSUME TimeInv, [KeepAliveNext]_keepAliveVars,
             NEW w \in Windows, phase[w] # "poking", phase'[w] = "poking"
      PROVE  age[w] < WINDOW + INTERVAL /\ w \notin cancelling
  <2>1. PICK v \in Windows : Wake(v)
    <3>1. \A v \in Windows : ~Begin(v) /\ ~PokeReturns(v) /\ ~PokeRaises(v) /\ ~Unwind(v)
      BY <1>1 DEF Begin, PokeReturns, PokeRaises, Unwind, Loop, TimeInv, KeepAliveTypeOK
    <3>2. \A t \in Callers : ~Restart(t) /\ ~Stop(t) /\ ~StopReturns(t)
      BY <1>1 DEF Restart, Stop, StopReturns, TimeInv, KeepAliveTypeOK
    <3>3. ~Tick /\ ~LinkChanges /\ ~UNCHANGED keepAliveVars
      BY <1>1 DEF Tick, LinkChanges, keepAliveVars
    <3> QED BY <1>1, <3>1, <3>2, <3>3 DEF KeepAliveNext, Run
  <2>2. v = w
    BY <1>1, <2>1 DEF Wake, TimeInv, KeepAliveTypeOK
  <2> QED
    BY <1>1, <2>1, <2>2, KeepAliveAssumption
    DEF Wake, TimeInv, KeepAliveTypeOK, WakesInTime, MaxAge
<1>2. TimeInv /\ [KeepAliveNext]_keepAliveVars =>
        [\A w \in Windows :
           phase[w] # "poking" /\ phase'[w] = "poking" =>
             age[w] < WINDOW + INTERVAL /\ w \notin cancelling]_keepAliveVars
  BY <1>1
<1> QED BY <1>2, TimeInvariant, PTL DEF KeepAliveSpec, PokesStayInTheWindow

----------------------------------------------------------------------------
(* What stop awaits is cancelled, and by the time _task holds another       *)
(* window, that one was scheduled during the stop.                          *)
StopAwaitsTask ==
  \A t \in Callers : stopping[t] # 0 =>
    \/ task = stopping[t] /\ task \in cancelling
    \/ task = 0
    \/ task \in overlapped

ReachInv == KeepAliveTypeOK /\ OnlyOverlapsAreOrphaned /\ StopAwaitsTask

LEMMA NextReachInv ==
  ASSUME ReachInv, KeepAliveTypeOK', [KeepAliveNext]_keepAliveVars
  PROVE  ReachInv'
<1> USE DEF ReachInv, KeepAliveTypeOK, OnlyOverlapsAreOrphaned, StopAwaitsTask, Live, Windows
<1>1. ASSUME NEW t \in Callers, Restart(t) PROVE ReachInv'
  BY <1>1 DEF Restart, Running
<1>2. ASSUME NEW t \in Callers, Stop(t) PROVE ReachInv'
  BY <1>2 DEF Stop, Running
<1>3. ASSUME NEW t \in Callers, StopReturns(t) PROVE ReachInv'
  BY <1>3 DEF StopReturns
<1>4. ASSUME NEW w \in Windows, Begin(w) PROVE ReachInv'
  BY <1>4 DEF Begin, Loop
<1>5. ASSUME NEW w \in Windows, Wake(w) PROVE ReachInv'
  BY <1>5 DEF Wake
<1>6. ASSUME NEW w \in Windows, PokeReturns(w) PROVE ReachInv'
  BY <1>6 DEF PokeReturns, Loop
<1>7. ASSUME NEW w \in Windows, PokeRaises(w) PROVE ReachInv'
  BY <1>7 DEF PokeRaises
<1>8. ASSUME NEW w \in Windows, Unwind(w) PROVE ReachInv'
  BY <1>8 DEF Unwind
<1>9. CASE Tick
  BY <1>9 DEF Tick
<1>10. CASE LinkChanges
  BY <1>10 DEF LinkChanges
<1>11. CASE UNCHANGED keepAliveVars
  BY <1>11 DEF keepAliveVars
<1> QED
  BY <1>1, <1>2, <1>3, <1>4, <1>5, <1>6, <1>7, <1>8, <1>9, <1>10, <1>11
  DEF KeepAliveNext, Run

(* However restarts and stops interleave, the only windows out of reach of  *)
(* restart and stop are those scheduled while a stop was under way.         *)
THEOREM WindowsAreReachable == KeepAliveSpec => []OnlyOverlapsAreOrphaned
<1>1. KeepAliveInit => ReachInv
  BY InitTimeInv DEF KeepAliveInit, TimeInv, ReachInv, OnlyOverlapsAreOrphaned, StopAwaitsTask, Live
<1>2. KeepAliveTypeOK' /\ ReachInv /\ [KeepAliveNext]_keepAliveVars => ReachInv'
  BY NextReachInv
<1>3. ReachInv => OnlyOverlapsAreOrphaned
  BY DEF ReachInv
<1> QED BY <1>1, <1>2, <1>3, KeepAliveTypeCorrect, PTL DEF KeepAliveSpec

----------------------------------------------------------------------------
(* Reassembly.                                                              *)

----------------------------------------------------------------------------
(* Induction over the numbers of a set, and the functions it defines.       *)
LEMMA LeastNumber ==
  ASSUME NEW T \in SUBSET Nat, T # {}
  PROVE  \E n \in T : \A m \in T : n <= m
<1> DEFINE less == {p \in Nat \X Nat : p[1] < p[2]}
<1>1. IsWellFoundedOn(less, Nat)
  BY NatLessThanWellFounded DEF OpToRel
<1>2. PICK n \in T : \A m \in T : ~(<<m, n>> \in less)
  <2> HIDE DEF less
  <2> QED BY <1>1, WFMin
<1>3. \A m \in T : ~(m < n)
  BY <1>2
<1> QED BY <1>3

(* A set of numbers that has 0 and the successor of each of its members is  *)
(* Nat.                                                                     *)
LEMMA SetInduction ==
  ASSUME NEW T \in SUBSET Nat, 0 \in T, \A n \in T : n + 1 \in T
  PROVE  T = Nat
<1> SUFFICES ASSUME Nat \ T # {} PROVE FALSE
  OBVIOUS
<1>1. PICK n \in Nat \ T : \A m \in Nat \ T : n <= m
  BY LeastNumber
<1>2. n - 1 \in T
  BY <1>1
<1> QED BY <1>1, <1>2

(* What a function is, whose definition calls it again on something of less *)
(* rank.                                                                    *)
Defines(f, D, rank, next, done, base, comb, n) ==
  \A x \in D : rank[x] < n =>
    f[x] = IF x \in done THEN base[x] ELSE comb[<<x, f[next[x]]>>]

(* A function defined by recursion exists up to every rank ...              *)
LEMMA RecursionTo ==
  ASSUME NEW D, NEW V, NEW rank \in [D -> Nat], NEW next \in [D -> D], NEW done,
         NEW base \in [D -> V], NEW comb \in [D \X V -> V],
         \A x \in D \ done : rank[next[x]] < rank[x],
         NEW n \in Nat
  PROVE  \E f \in [D -> V] : Defines(f, D, rank, next, done, base, comb, n)
<1> DEFINE T == {m \in Nat : \E f \in [D -> V] : Defines(f, D, rank, next, done, base, comb, m)}
<1>1. 0 \in T
  BY DEF Defines
<1>2. ASSUME NEW m \in T PROVE m + 1 \in T
  <2>1. PICK f \in [D -> V] : Defines(f, D, rank, next, done, base, comb, m)
    OBVIOUS
  <2> DEFINE value(x) == IF x \in done THEN base[x] ELSE comb[<<x, f[next[x]]>>]
             g == [x \in D |-> value(x)]
  <2>2. \A x \in D : value(x) \in V
    OBVIOUS
  <2> HIDE DEF value
  <2>3. g \in [D -> V] /\ \A x \in D : g[x] = value(x)
    BY <2>2
  <2> HIDE DEF g
  <2>4. \A x \in D : rank[x] < m => g[x] = f[x]
    BY <2>1, <2>3 DEF Defines, value
  <2>5. ASSUME NEW x \in D, rank[x] < m + 1
        PROVE  g[x] = IF x \in done THEN base[x] ELSE comb[<<x, g[next[x]]>>]
    <3>1. CASE x \in done
      BY <2>3, <3>1 DEF value
    <3>2. CASE x \notin done
      <4>1. next[x] \in D /\ rank[next[x]] < m
        BY <2>5, <3>2
      <4>2. g[next[x]] = f[next[x]]
        BY <2>4, <4>1
      <4> QED BY <2>3, <3>2, <4>2 DEF value
    <3> QED BY <3>1, <3>2
  <2>6. Defines(g, D, rank, next, done, base, comb, m + 1)
    BY <2>5 DEF Defines
  <2> QED BY <2>3, <2>6
<1> HIDE DEF T
<1>3. T = Nat
  <2>1. T \in SUBSET Nat
    BY DEF T
  <2> QED BY <1>1, <1>2, <2>1, SetInduction
<1> QED BY <1>3 DEF T

(* ... two of them agree where both are defined ...                         *)
LEMMA RecursionAgrees ==
  ASSUME NEW D, NEW rank \in [D -> Nat], NEW next \in [D -> D], NEW done, NEW base, NEW comb,
         \A x \in D \ done : rank[next[x]] < rank[x],
         NEW n \in Nat, NEW m \in Nat, n <= m,
         NEW f, Defines(f, D, rank, next, done, base, comb, n),
         NEW g, Defines(g, D, rank, next, done, base, comb, m)
  PROVE  \A x \in D : rank[x] < n => f[x] = g[x]
<1> DEFINE T == {k \in Nat : \A x \in D : rank[x] < k /\ rank[x] < n => f[x] = g[x]}
<1>1. 0 \in T
  OBVIOUS
<1>2. ASSUME NEW k \in T PROVE k + 1 \in T
  <2>1. SUFFICES ASSUME NEW x \in D, rank[x] < k + 1, rank[x] < n PROVE f[x] = g[x]
    OBVIOUS
  <2>2. /\ f[x] = IF x \in done THEN base[x] ELSE comb[<<x, f[next[x]]>>]
        /\ g[x] = IF x \in done THEN base[x] ELSE comb[<<x, g[next[x]]>>]
    BY <2>1 DEF Defines
  <2>3. x \notin done => f[next[x]] = g[next[x]]
    <3>1. SUFFICES ASSUME x \notin done PROVE f[next[x]] = g[next[x]]
      OBVIOUS
    <3>2. next[x] \in D /\ rank[next[x]] < k /\ rank[next[x]] < n
      BY <2>1, <3>1
    <3> QED BY <3>2
  <2> QED BY <2>2, <2>3
<1> HIDE DEF T
<1>3. T = Nat
  <2>1. T \in SUBSET Nat
    BY DEF T
  <2> QED BY <1>1, <1>2, <2>1, SetInduction
<1> QED BY <1>3 DEF T

Recursive(D, V, rank, next, done, base, comb) ==
  /\ rank \in [D -> Nat] /\ next \in [D -> D] /\ base \in [D -> V]
  /\ comb \in [D \X V -> V]
  /\ \A x \in D \ done : rank[next[x]] < rank[x]

(* ... so there is one that satisfies its recursion everywhere.             *)
LEMMA Recursion ==
  ASSUME NEW D, NEW V, NEW rank, NEW next, NEW done, NEW base, NEW comb,
         Recursive(D, V, rank, next, done, base, comb)
  PROVE  \E f \in [D -> V] :
           \A x \in D : f[x] = IF x \in done THEN base[x] ELSE comb[<<x, f[next[x]]>>]
<1> DEFINE good(f, n) == f \in [D -> V] /\ Defines(f, D, rank, next, done, base, comb, n)
           upto(n) == CHOOSE f : good(f, n)
           whole == [x \in D |-> upto(rank[x] + 1)[x]]
<1>1. /\ rank \in [D -> Nat] /\ next \in [D -> D] /\ base \in [D -> V]
      /\ comb \in [D \X V -> V]
      /\ \A x \in D \ done : rank[next[x]] < rank[x]
  BY DEF Recursive
<1>2. \A n \in Nat : good(upto(n), n)
  <2>1. \A n \in Nat : \E f : good(f, n)
    BY <1>1, RecursionTo
  <2> QED BY <2>1
<1>3. \A n \in Nat : upto(n) \in [D -> V] /\ Defines(upto(n), D, rank, next, done, base, comb, n)
  BY <1>2
<1> HIDE DEF upto
<1>4. whole \in [D -> V] /\ \A x \in D : whole[x] = upto(rank[x] + 1)[x]
  BY <1>1, <1>3
<1> HIDE DEF whole
<1>5. ASSUME NEW x \in D
      PROVE  whole[x] = IF x \in done THEN base[x] ELSE comb[<<x, whole[next[x]]>>]
  <2> DEFINE n == rank[x] + 1
             f == upto(n)
  <2>1. n \in Nat /\ rank[x] < n
    BY <1>1
  <2>2. Defines(f, D, rank, next, done, base, comb, n) /\ whole[x] = f[x]
    BY <1>3, <1>4, <2>1
  <2> HIDE DEF n, f
  <2>3. f[x] = IF x \in done THEN base[x] ELSE comb[<<x, f[next[x]]>>]
    BY <2>1, <2>2 DEF Defines
  <2>4. ASSUME x \notin done PROVE f[next[x]] = whole[next[x]]
    <3> DEFINE y == next[x]
               m == rank[y] + 1
               g == upto(m)
    <3>1. y \in D /\ m \in Nat /\ m <= n /\ rank[y] < m
      BY <1>1, <2>4 DEF n
    <3>2. Defines(g, D, rank, next, done, base, comb, m) /\ whole[y] = g[y]
      BY <1>3, <1>4, <3>1
    <3> HIDE DEF m, g, y
    <3>3. \A z \in D : rank[z] < m => g[z] = f[z]
      BY <2>1, <2>2, <3>1, <3>2, <1>1, RecursionAgrees
    <3> QED BY <3>1, <3>2, <3>3 DEF y
  <2> QED BY <2>2, <2>3, <2>4
<1> QED BY <1>4, <1>5

----------------------------------------------------------------------------
(* Bytes, and where they are in the stream.                                 *)
LEMMA Pair ==
  ASSUME NEW S, NEW pair \in S \X S
  PROVE  /\ pair = <<pair[1], pair[2]>> /\ Len(pair) = 2
         /\ pair \in Seq(S) /\ pair[1] \in S /\ pair[2] \in S
<1>1. PICK x \in S, y \in S : pair = <<x, y>>
  OBVIOUS
<1> DEFINE p == <<x, y>>
<1>2. p = <<p[1], p[2]>> /\ Len(p) = 2 /\ p \in Seq(S) /\ p[1] \in S /\ p[2] \in S
  OBVIOUS
<1> QED BY <1>1, <1>2, Zenon

(* The sizes and places of the two headers and of the trailer.              *)
LEMMA Layout ==
  /\ V3_LENGTH_INDEX \in Nat /\ V3_LENGTH_INDEX > 2 /\ V3_HEADER_LEN = V3_LENGTH_INDEX + 1
  /\ CRC_LEN = 1 /\ MIN_PROTOCOL_TYPE \in Nat
  /\ Len(HEADER) = 2 /\ Len(TRAILER) = 2 /\ HEADER[1] # HEADER[2]
  /\ HEADER = <<HEADER[1], HEADER[2]>> /\ TRAILER = <<TRAILER[1], TRAILER[2]>>
  /\ HEADER \in Seq(Byte) /\ TRAILER \in Seq(Byte)
<1>1. HEADER \in Byte \X Byte /\ TRAILER \in Byte \X Byte
  BY LayoutAssumption
<1>2. HEADER = <<HEADER[1], HEADER[2]>> /\ Len(HEADER) = 2 /\ HEADER \in Seq(Byte)
  BY <1>1, Pair, Zenon
<1>3. TRAILER = <<TRAILER[1], TRAILER[2]>> /\ Len(TRAILER) = 2 /\ TRAILER \in Seq(Byte)
  BY <1>1, Pair, Zenon
<1>4. /\ V3_LENGTH_INDEX \in Nat /\ V3_LENGTH_INDEX > 2 /\ V3_HEADER_LEN = V3_LENGTH_INDEX + 1
      /\ CRC_LEN = 1 /\ MIN_PROTOCOL_TYPE \in Nat /\ HEADER[1] # HEADER[2]
  BY LayoutAssumption
<1> QED BY <1>2, <1>3, <1>4, Zenon

(* What is left of a sequence without its first n elements.                 *)
LEMMA DropIs ==
  ASSUME NEW S, NEW s \in Seq(S), NEW n \in 0..Len(s)
  PROVE  /\ Drop(s, n) \in Seq(S) /\ Len(Drop(s, n)) = Len(s) - n
         /\ \A k \in 1..(Len(s) - n) : Drop(s, n)[k] = s[n + k]
  BY DEF Drop

(* Dropping twice is dropping the sum.                                      *)
LEMMA DropDrop ==
  ASSUME NEW S, NEW s \in Seq(S), NEW n \in 0..Len(s), NEW m \in 0..(Len(s) - n)
  PROVE  Drop(Drop(s, n), m) = Drop(s, n + m)
<1> DEFINE d == Drop(s, n)
           e == Drop(d, m)
           f == Drop(s, n + m)
<1>1. d \in Seq(S) /\ Len(d) = Len(s) - n /\ \A k \in 1..(Len(s) - n) : d[k] = s[n + k]
  BY DropIs
<1> HIDE DEF d
<1>2. e \in Seq(S) /\ Len(e) = Len(d) - m /\ \A k \in 1..(Len(d) - m) : e[k] = d[m + k]
  <2>1. m \in 0..Len(d)
    BY <1>1
  <2> HIDE DEF e
  <2>2. /\ Drop(d, m) \in Seq(S) /\ Len(Drop(d, m)) = Len(d) - m
        /\ \A k \in 1..(Len(d) - m) : Drop(d, m)[k] = d[m + k]
    BY <1>1, <2>1, DropIs, Zenon
  <2> QED BY <2>2 DEF e
<1>3. /\ f \in Seq(S) /\ Len(f) = Len(s) - (n + m)
      /\ \A k \in 1..(Len(s) - (n + m)) : f[k] = s[n + m + k]
  <2>1. n + m \in 0..Len(s)
    OBVIOUS
  <2> QED BY <2>1, DropIs
<1> HIDE DEF e, f
<1>4. Len(e) = Len(f)
  BY <1>1, <1>2, <1>3
<1>5. ASSUME NEW k \in 1..Len(e) PROVE e[k] = f[k]
  <2>1. k \in 1..(Len(d) - m) /\ m + k \in 1..(Len(s) - n) /\ k \in 1..(Len(s) - (n + m))
        /\ n + (m + k) = n + m + k
    BY <1>1, <1>2, <1>3
  <2> QED BY <1>1, <1>2, <1>3, <2>1
<1>6. e = f
  BY <1>2, <1>3, <1>4, <1>5, SeqEqual
<1> QED BY <1>6 DEF d, e, f

(* Two elements of a sequence, compared with a pair.                        *)
LEMMA PairAt ==
  ASSUME NEW S, NEW s \in Seq(S), NEW i \in Nat \ {0}, i < Len(s), NEW x, NEW y
  PROVE  (SubSeq(s, i, i + 1) = <<x, y>>) <=> (s[i] = x /\ s[i + 1] = y)
<1> DEFINE sub == SubSeq(s, i, i + 1)
<1>1. sub \in Seq(S) /\ Len(sub) = 2 /\ sub[1] = s[i] /\ sub[2] = s[i + 1]
  OBVIOUS
<1> HIDE DEF sub
<1>2. sub = <<sub[1], sub[2]>>
  BY <1>1
<1>3. sub = <<x, y>> <=> (sub[1] = x /\ sub[2] = y)
  BY <1>2
<1> QED BY <1>1, <1>3 DEF sub

(* A header is at a place when its two bytes are there ...                  *)
LEMMA HeaderIs ==
  ASSUME NEW s \in Seq(Byte), NEW i \in Nat \ {0}
  PROVE  HeaderAt(s, i) <=> i < Len(s) /\ s[i] = HEADER[1] /\ s[i + 1] = HEADER[2]
<1> DEFINE x == HEADER[1]
           y == HEADER[2]
<1>1. HEADER = <<x, y>>
  BY Layout
<1> HIDE DEF x, y
<1>2. CASE i < Len(s)
  <2>1. (SubSeq(s, i, i + 1) = <<x, y>>) <=> (s[i] = x /\ s[i + 1] = y)
    BY <1>2, PairAt
  <2>2. (SubSeq(s, i, i + 1) = HEADER) <=> (s[i] = x /\ s[i + 1] = y)
    BY <1>1, <2>1, Zenon
  <2>3. HeaderAt(s, i) <=> (s[i] = x /\ s[i + 1] = y)
    BY <1>2, <2>2, Zenon DEF HeaderAt
  <2> QED BY <1>2, <2>3, Zenon DEF x, y
<1>3. CASE ~(i < Len(s))
  BY <1>3, Zenon DEF HeaderAt
<1> QED BY <1>2, <1>3

(* ... and at the start of a sequence likewise.                             *)
LEMMA HeaderAtStart ==
  ASSUME NEW s \in Seq(Byte)
  PROVE  HeaderAt(s, 1) <=> Len(s) >= 2 /\ s[1] = HEADER[1] /\ s[2] = HEADER[2]
<1> DEFINE i == 1
<1>1. i \in Nat \ {0} /\ i = 1 /\ i + 1 = 2
  OBVIOUS
<1> HIDE DEF i
<1>2. HeaderAt(s, i) <=> i < Len(s) /\ s[i] = HEADER[1] /\ s[i + 1] = HEADER[2]
  BY <1>1, HeaderIs
<1>3. i < Len(s) <=> Len(s) >= 2
  BY <1>1
<1> QED BY <1>1, <1>2, <1>3

(* What SubSeq returns.                                                     *)
LEMMA SliceIs ==
  ASSUME NEW S, NEW s \in Seq(S), NEW a \in Nat, NEW n \in Nat, a + n <= Len(s)
  PROVE  /\ SubSeq(s, a + 1, a + n) \in Seq(S) /\ Len(SubSeq(s, a + 1, a + n)) = n
         /\ \A k \in 1..n : SubSeq(s, a + 1, a + n)[k] = s[a + k]
  OBVIOUS

(* Min of a set of numbers is its least member.                             *)
LEMMA LeastIs ==
  ASSUME NEW T \in SUBSET Nat, T # {}
  PROVE  Min(T) \in T /\ \A m \in T : Min(T) <= m
  BY LeastNumber DEF Min

(* More has come.                                                           *)
Extends(t, s) ==
  t \in Seq(Byte) /\ Len(s) <= Len(t) /\ \A k \in 1..Len(s) : t[k] = s[k]


(* Bytes are numbers.                                                       *)
LEMMA BytesAreNumbers ==
  ASSUME NEW s \in Seq(Byte), NEW k \in 1..Len(s)
  PROVE  s[k] \in Nat /\ s[k] < BYTE /\ s[k] \in Byte
<1>1. s[k] \in Byte
  OBVIOUS
<1> QED BY <1>1, LayoutAssumption DEF Byte
----------------------------------------------------------------------------
(* The stream read at once.                                                 *)
FrameType == [protocol : Byte, data : Seq(Byte)]

Yields == [at : Nat, frame : FrameType]

FrameOf(s, p) ==
  [protocol |-> s[p + 2],
   data |-> [k \in 1..s[p + V3_LENGTH_INDEX] |-> s[p + V3_HEADER_LEN + k - 1]]]

YieldOf(s, p) == [at |-> p, frame |-> FrameOf(s, p)]

Starts(s, i) == {p \in i..Len(s) : PossibleAt(s, p)}

(* Nothing, or nothing complete, starts from i on.                          *)
Waits(s, i) == Starts(s, i) = {} \/ ~CompleteAt(s, Min(Starts(s, i)))

Reads(from, s) ==
  from = [i \in 1..(Len(s) + 1) |->
            LET starts == {p \in i..Len(s) : PossibleAt(s, p)}
                p == Min(starts)
            IN  IF starts = {} \/ ~CompleteAt(s, p) THEN <<>>
                ELSE <<[at |-> p,
                        frame |->
                          [protocol |-> s[p + 2],
                           data |-> [k \in 1..s[p + V3_LENGTH_INDEX] |->
                                       s[p + V3_HEADER_LEN + k - 1]]]]>>
                     \o from[p + SizeAt(s, p)]]

Reading(s) == CHOOSE from : Reads(from, s)

(* The frames in a stream are its reading from the first byte on.           *)
LEMMA FramesAreRead == \A s : FramesIn(s) = Reading(s)[1]
  BY DEF FramesIn, Reading, Reads

(* The size a length byte declares, and its bounds.                         *)
LEMMA Sizes ==
  ASSUME NEW s \in Seq(Byte), NEW p \in Nat \ {0}, p + V3_LENGTH_INDEX <= Len(s)
  PROVE  /\ s[p + V3_LENGTH_INDEX] \in Nat /\ s[p + V3_LENGTH_INDEX] < BYTE
         /\ SizeAt(s, p) = V3_HEADER_LEN + s[p + V3_LENGTH_INDEX] + 3
         /\ SizeAt(s, p) \in Nat /\ SizeAt(s, p) > V3_LENGTH_INDEX
         /\ SizeAt(s, p) <= MaxFrame
<1>1. p + V3_LENGTH_INDEX \in 1..Len(s)
  BY Layout
<1>2. s[p + V3_LENGTH_INDEX] \in Byte
  BY <1>1
<1>3. s[p + V3_LENGTH_INDEX] \in Nat /\ s[p + V3_LENGTH_INDEX] < BYTE /\ BYTE \in Int
  BY <1>2, LayoutAssumption DEF Byte
<1>4. SizeAt(s, p) = V3_HEADER_LEN + s[p + V3_LENGTH_INDEX] + 3
  BY <1>3, Layout DEF SizeAt
<1>5. MaxFrame = V3_HEADER_LEN + (BYTE - 1) + 3
  BY <1>3, Layout DEF MaxFrame
<1>6. V3_HEADER_LEN \in Nat /\ V3_HEADER_LEN = V3_LENGTH_INDEX + 1 /\ V3_LENGTH_INDEX \in Nat
  BY Layout
<1>7. PICK n : n = s[p + V3_LENGTH_INDEX]
  OBVIOUS
<1>8. n \in Nat /\ n < BYTE /\ SizeAt(s, p) = V3_HEADER_LEN + n + 3 /\ BYTE \in Int
  BY <1>3, <1>4, <1>7
<1>9. SizeAt(s, p) \in Nat
  BY <1>6, <1>8
<1>10. SizeAt(s, p) > V3_LENGTH_INDEX
  BY <1>6, <1>8
<1>11. SizeAt(s, p) <= MaxFrame
  BY <1>5, <1>6, <1>8
<1> QED BY <1>3, <1>4, <1>9, <1>10, <1>11

(* A complete frame, as read, has numbers in its fields.                    *)
LEMMA FramesHaveType ==
  ASSUME NEW s \in Seq(Byte), NEW p \in Nat \ {0}, CompleteAt(s, p)
  PROVE  FrameOf(s, p) \in FrameType /\ YieldOf(s, p) \in Yields
<1>1. p + V3_LENGTH_INDEX <= Len(s) /\ p + SizeAt(s, p) - 1 <= Len(s)
  BY DEF CompleteAt
<1> DEFINE n == s[p + V3_LENGTH_INDEX]
           data == [k \in 1..n |-> s[p + V3_HEADER_LEN + k - 1]]
<1>2. n \in Nat /\ SizeAt(s, p) = V3_HEADER_LEN + n + 3
  BY <1>1, Sizes
<1> HIDE DEF n
<1>3. \A k \in 1..n : s[p + V3_HEADER_LEN + k - 1] \in Byte
  <2> TAKE k \in 1..n
  <2>1. PICK size : size = SizeAt(s, p)
    OBVIOUS
  <2>2. size = V3_HEADER_LEN + n + 3 /\ p + size - 1 <= Len(s) /\ V3_HEADER_LEN \in Nat
    BY <1>1, <1>2, <2>1, Layout
  <2>3. p + V3_HEADER_LEN + k - 1 \in 1..Len(s)
    BY <1>2, <2>2
  <2> QED BY <2>3
<1>4. data \in Seq(Byte)
  BY <1>2, <1>3
<1>5. s[p + 2] \in Byte
  <2>1. p + 2 \in 1..Len(s)
    BY <1>1, Layout
  <2> QED BY <2>1
<1> QED BY <1>4, <1>5 DEF FrameOf, YieldOf, FrameType, Yields, n

(* What it means that a frame may start at a place.                         *)
LEMMA StartsAre ==
  ASSUME NEW s \in Seq(Byte), NEW i \in Nat \ {0}, Starts(s, i) # {}
  PROVE  /\ Min(Starts(s, i)) \in i..Len(s) /\ PossibleAt(s, Min(Starts(s, i)))
         /\ \A p \in i..Len(s) : PossibleAt(s, p) => Min(Starts(s, i)) <= p
<1> DEFINE T == Starts(s, i)
<1>1. T \in SUBSET Nat /\ T # {} /\ \A p : p \in T <=> p \in i..Len(s) /\ PossibleAt(s, p)
  BY DEF Starts
<1> HIDE DEF T
<1>2. Min(T) \in T /\ \A m \in T : Min(T) <= m
  BY <1>1, LeastIs
<1> QED BY <1>1, <1>2 DEF T

(* A complete frame ends within the stream.                                 *)
LEMMA CompleteFits ==
  ASSUME NEW s \in Seq(Byte), NEW i \in 1..(Len(s) + 1), ~Waits(s, i)
  PROVE  LET p == Min(Starts(s, i))
         IN  /\ p \in i..Len(s) /\ p \in Nat \ {0} /\ PossibleAt(s, p) /\ CompleteAt(s, p)
             /\ p + SizeAt(s, p) \in 1..(Len(s) + 1) /\ i < p + SizeAt(s, p)
<1> DEFINE p == Min(Starts(s, i))
<1>1. Starts(s, i) # {} /\ CompleteAt(s, p) /\ i \in Nat \ {0}
  BY DEF Waits
<1>2. p \in i..Len(s) /\ PossibleAt(s, p)
  BY <1>1, StartsAre
<1> HIDE DEF p
<1>3. p + V3_LENGTH_INDEX <= Len(s) /\ p + SizeAt(s, p) - 1 <= Len(s) /\ p \in Nat \ {0}
  BY <1>1, <1>2 DEF CompleteAt
<1>4. SizeAt(s, p) \in Nat /\ SizeAt(s, p) > V3_LENGTH_INDEX
  BY <1>3, Sizes
<1>5. p + SizeAt(s, p) \in 1..(Len(s) + 1) /\ i < p + SizeAt(s, p)
  BY <1>1, <1>2, <1>3, <1>4, Layout
<1> QED BY <1>1, <1>2, <1>3, <1>5 DEF p

(* The function that reads a stream exists ...                              *)
LEMMA ReadingExists ==
  ASSUME NEW s \in Seq(Byte)
  PROVE  \E f \in [1..(Len(s) + 1) -> Seq(Yields)] :
           \A i \in 1..(Len(s) + 1) :
             f[i] = IF Waits(s, i) THEN <<>>
                    ELSE <<YieldOf(s, Min(Starts(s, i)))>>
                         \o f[Min(Starts(s, i)) + SizeAt(s, Min(Starts(s, i)))]
<1> DEFINE D == 1..(Len(s) + 1)
           V == Seq(Yields)
           min(i) == Min(Starts(s, i))
           done == {i \in D : Waits(s, i)}
           next == [i \in D |-> IF i \in done THEN i ELSE min(i) + SizeAt(s, min(i))]
           rank == [i \in D |-> Len(s) + 1 - i]
           base == [i \in D |-> <<>>]
           comb == [x \in D \X V |-> IF x[1] \in done THEN <<>> ELSE <<YieldOf(s, min(x[1]))>> \o x[2]]
<1>1. Len(s) \in Nat
  OBVIOUS
<1>2. ASSUME NEW i \in D, i \notin done
      PROVE  /\ min(i) \in Nat \ {0} /\ CompleteAt(s, min(i))
             /\ min(i) + SizeAt(s, min(i)) \in D /\ i < min(i) + SizeAt(s, min(i))
  BY <1>2, CompleteFits
<1>3. next \in [D -> D] /\ \A i \in D \ done : next[i] = min(i) + SizeAt(s, min(i))
  BY <1>2
<1>4. rank \in [D -> Nat] /\ \A i \in D : rank[i] = Len(s) + 1 - i
  BY <1>1
<1>5. base \in [D -> V] /\ \A i \in D : base[i] = <<>>
  OBVIOUS
<1>6. comb \in [D \X V -> V]
      /\ \A i \in D, v \in V : comb[<<i, v>>] = IF i \in done THEN <<>> ELSE <<YieldOf(s, min(i))>> \o v
  <2> HIDE DEF done, D
  <2>1. ASSUME NEW i \in D, NEW v \in V, i \notin done
        PROVE  <<YieldOf(s, min(i))>> \o v \in V
    <3>1. YieldOf(s, min(i)) \in Yields
      BY <1>2, <2>1, FramesHaveType
    <3> HIDE DEF min
    <3> QED BY <3>1
  <2> DEFINE value(x) == IF x[1] \in done THEN <<>> ELSE <<YieldOf(s, min(x[1]))>> \o x[2]
  <2>2. ASSUME NEW x \in D \X V PROVE value(x) \in V
    <3>1. x[1] \in D /\ x[2] \in V
      OBVIOUS
    <3>2. <<>> \in V
      OBVIOUS
    <3> HIDE DEF V, min
    <3> QED BY <2>1, <3>1, <3>2
  <2>3. comb = [x \in D \X V |-> value(x)]
    OBVIOUS
  <2> HIDE DEF comb, value, V
  <2>4. comb \in [D \X V -> V]
    BY <2>2, <2>3
  <2>5. ASSUME NEW i \in D, NEW v \in V
        PROVE  comb[<<i, v>>] = IF i \in done THEN <<>> ELSE <<YieldOf(s, min(i))>> \o v
    <3>1. comb[<<i, v>>] = value(<<i, v>>)
      BY <2>3
    <3> QED BY <3>1 DEF value
  <2> QED BY <2>4, <2>5
<1> HIDE DEF next, rank, base, comb, min, V
<1>7. \A i \in D \ done : rank[next[i]] < rank[i]
  <2> TAKE i \in D \ done
  <2>1. next[i] \in D /\ i < next[i]
    BY <1>2, <1>3
  <2> QED BY <1>1, <1>4, <2>1
<1> HIDE DEF D, done
<1>8. PICK f \in [D -> V] :
        \A i \in D : f[i] = IF i \in done THEN base[i] ELSE comb[<<i, f[next[i]]>>]
  <2>1. next \in [D -> D] /\ rank \in [D -> Nat] /\ base \in [D -> V] /\ comb \in [D \X V -> V]
    BY <1>3, <1>4, <1>5, <1>6
  <2>2. Recursive(D, V, rank, next, done, base, comb)
    BY <1>7, <2>1 DEF Recursive
  <2> QED BY <2>2, Recursion
<1>9. ASSUME NEW i \in D
      PROVE  f[i] = IF Waits(s, i) THEN <<>> ELSE <<YieldOf(s, min(i))>> \o f[min(i) + SizeAt(s, min(i))]
  <2>1. i \in done <=> Waits(s, i)
    BY DEF done
  <2>2. CASE i \in done
    BY <1>5, <1>8, <2>1, <2>2
  <2>3. CASE i \notin done
    <3>1. next[i] = min(i) + SizeAt(s, min(i)) /\ f[next[i]] \in V
      BY <1>3, <2>3
    <3>2. f[i] = comb[<<i, f[next[i]]>>]
      BY <1>8, <2>3
    <3> QED BY <1>6, <2>1, <2>3, <3>1, <3>2
  <2> QED BY <2>2, <2>3
<1> QED BY <1>9 DEF D, V, min

(* ... so CHOOSE finds it, and it satisfies its recursion.                  *)
LEMMA ReadingIs ==
  ASSUME NEW s \in Seq(Byte), NEW i \in 1..(Len(s) + 1)
  PROVE  /\ Reading(s)[i] \in Seq(Yields)
         /\ Reading(s)[i] = IF Waits(s, i) THEN <<>>
                            ELSE <<YieldOf(s, Min(Starts(s, i)))>>
                                 \o Reading(s)[Min(Starts(s, i)) + SizeAt(s, Min(Starts(s, i)))]
<1> DEFINE good(f) ==
             \A j \in 1..(Len(s) + 1) :
               f[j] = IF Waits(s, j) THEN <<>>
                      ELSE <<YieldOf(s, Min(Starts(s, j)))>>
                           \o f[Min(Starts(s, j)) + SizeAt(s, Min(Starts(s, j)))]
<1>1. \A f \in [1..(Len(s) + 1) -> Seq(Yields)] : good(f) => Reads(f, s)
  BY DEF Reads, Waits, Starts, YieldOf, FrameOf
<1>2. \A f : Reads(f, s) => good(f)
  BY DEF Reads, Waits, Starts, YieldOf, FrameOf
<1>3. PICK g \in [1..(Len(s) + 1) -> Seq(Yields)] : good(g)
  BY ReadingExists
<1>4. Reads(Reading(s), s)
  BY <1>1, <1>3 DEF Reading
<1> DEFINE f == Reading(s)
           D == 1..(Len(s) + 1)
           p(j) == Min(Starts(s, j))
           T == {n \in Nat : \A j \in D : Len(s) + 1 - j < n => f[j] \in Seq(Yields)}
<1>5. good(f)
  BY <1>2, <1>4
<1>6. ASSUME NEW j \in D, ~Waits(s, j)
      PROVE  /\ p(j) \in Nat \ {0} /\ CompleteAt(s, p(j))
             /\ p(j) + SizeAt(s, p(j)) \in D /\ j < p(j) + SizeAt(s, p(j))
  BY <1>6, CompleteFits
<1> HIDE DEF f, p
<1>7. 0 \in T
  OBVIOUS
<1>8. ASSUME NEW n \in T PROVE n + 1 \in T
  <2> SUFFICES ASSUME NEW j \in D, Len(s) + 1 - j < n + 1 PROVE f[j] \in Seq(Yields)
    OBVIOUS
  <2>1. CASE Waits(s, j)
    <3>1. f[j] = <<>>
      BY <1>5, <2>1
    <3> QED BY <3>1
  <2>2. CASE ~Waits(s, j)
    <3> DEFINE y == YieldOf(s, p(j))
               more == f[p(j) + SizeAt(s, p(j))]
    <3>1. f[j] = <<y>> \o more
      BY <1>5, <2>2 DEF p
    <3>2. y \in Yields
      BY <1>6, <2>2, FramesHaveType
    <3>3. more \in Seq(Yields)
      BY <1>6, <2>2
    <3> HIDE DEF y, more
    <3> QED BY <3>1, <3>2, <3>3
  <2> QED BY <2>1, <2>2
<1> HIDE DEF T
<1>9. T = Nat
  <2>1. T \in SUBSET Nat
    BY DEF T
  <2> QED BY <1>7, <1>8, <2>1, SetInduction
<1>10. f[i] \in Seq(Yields)
  <2>1. Len(s) + 1 - i \in Nat /\ Len(s) + 1 - i + 1 \in Nat /\ Len(s) + 1 - i < Len(s) + 1 - i + 1
    OBVIOUS
  <2> QED BY <1>9, <2>1 DEF T
<1> QED BY <1>5, <1>10 DEF f

----------------------------------------------------------------------------
(* The loop of feed.                                                        *)
AtHeader(b) == Drop(b, Min(Headers(b)) - 1)

ScanBody(scan, b) ==
  LET h == Drop(b, Min(Headers(b)) - 1)
      size == DeclaredLen(h)
      raw == SubSeq(h, 1, size - Len(TRAILER))
      more == scan[Drop(h, size)]
  IN  IF Headers(b) = {} THEN [rest |-> Kept(b), frames |-> <<>>]
      ELSE IF MisSynced(h) THEN scan[Resync(h)]
      ELSE IF size = 0 \/ Len(h) < size
           THEN [rest |-> h, frames |-> <<>>]
      ELSE IF SubSeq(h, size - Len(TRAILER) + 1, size) # TRAILER
           THEN scan[Resync(h)]
      ELSE IF Parse(raw) = {} THEN more
      ELSE [rest |-> more.rest,
            frames |-> <<[from |-> Len(h),
                          frame |-> CHOOSE f \in Parse(raw) : TRUE]>>
                       \o more.frames]

Scanner == CHOOSE scan : scan = [b \in Seq(Byte) |-> ScanBody(scan, b)]

(* The loop of feed is the scanner of its buffer.                           *)
LEMMA ScannerScans == \A b : Scan(b) = Scanner[b]
  BY DEF Scan, Scanner, ScanBody

(* What is at a header: nothing complete yet, a false header or a frame.    *)
Incomplete(h) == ~MisSynced(h) /\ ~CompleteAt(h, 1)

FoundIn(h) == [from |-> Len(h), frame |-> FrameOf(h, 1)]

Prepend(found, more) == [rest |-> more.rest, frames |-> <<found>> \o more.frames]

ScanStep(scan, b) ==
  IF Headers(b) = {} THEN [rest |-> Kept(b), frames |-> <<>>]
  ELSE IF Incomplete(AtHeader(b)) THEN [rest |-> AtHeader(b), frames |-> <<>>]
  ELSE IF ~PossibleAt(AtHeader(b), 1) THEN scan[Resync(AtHeader(b))]
  ELSE Prepend(FoundIn(AtHeader(b)), scan[Drop(AtHeader(b), SizeAt(AtHeader(b), 1))])

(* What find(HEADER) leaves at the front of the buffer.                     *)
LEMMA HeaderFirst ==
  ASSUME NEW b \in Seq(Byte), Headers(b) # {}
  PROVE  /\ Min(Headers(b)) \in 1..(Len(b) - 1) /\ HeaderAt(b, Min(Headers(b)))
         /\ \A q \in 1..Len(b) : HeaderAt(b, q) => Min(Headers(b)) <= q
         /\ AtHeader(b) \in Seq(Byte) /\ Len(AtHeader(b)) = Len(b) - Min(Headers(b)) + 1
         /\ \A k \in 1..Len(AtHeader(b)) : AtHeader(b)[k] = b[Min(Headers(b)) - 1 + k]
         /\ HeaderAt(AtHeader(b), 1) /\ Len(AtHeader(b)) >= 2
<1> DEFINE T == Headers(b)
           k == Min(T)
           h == AtHeader(b)
<1>1. T \in SUBSET Nat /\ T # {} /\ \A p : p \in T <=> p \in 1..Len(b) /\ HeaderAt(b, p)
  BY DEF Headers
<1> HIDE DEF T
<1>2. k \in T /\ \A m \in T : k <= m
  BY <1>1, LeastIs
<1> HIDE DEF k
<1>3. k \in 1..Len(b) /\ HeaderAt(b, k) /\ \A q \in 1..Len(b) : HeaderAt(b, q) => k <= q
  BY <1>1, <1>2
<1>4. k \in 1..(Len(b) - 1)
  BY <1>3 DEF HeaderAt
<1>5. h = Drop(b, k - 1)
  BY DEF AtHeader, k, T
<1>6. /\ h \in Seq(Byte) /\ Len(h) = Len(b) - (k - 1)
      /\ \A i \in 1..(Len(b) - (k - 1)) : h[i] = b[k - 1 + i]
  <2>1. PICK n : n = k - 1
    OBVIOUS
  <2>2. n \in 0..Len(b)
    BY <1>4, <2>1
  <2>3. /\ Drop(b, n) \in Seq(Byte) /\ Len(Drop(b, n)) = Len(b) - n
        /\ \A i \in 1..(Len(b) - n) : Drop(b, n)[i] = b[n + i]
    BY <2>2, DropIs
  <2>4. h = Drop(b, n)
    BY <1>5, <2>1
  <2> QED BY <2>1, <2>3, <2>4, Zenon
<1> HIDE DEF h
<1>7. Len(h) = Len(b) - k + 1 /\ Len(h) >= 2 /\ \A i \in 1..Len(h) : h[i] = b[k - 1 + i]
  BY <1>4, <1>6
<1>8. HeaderAt(h, 1)
  <2>1. b[k] = HEADER[1] /\ b[k + 1] = HEADER[2]
    BY <1>3, <1>4, HeaderIs
  <2>2. h[1] = b[k] /\ h[2] = b[k + 1]
    <3>1. 1 \in 1..Len(h) /\ 2 \in 1..Len(h) /\ k - 1 + 1 = k /\ k - 1 + 2 = k + 1
      BY <1>4, <1>7
    <3> QED BY <1>7, <3>1
  <2> QED BY <1>6, <1>7, <2>1, <2>2, HeaderAtStart
<1> QED BY <1>3, <1>4, <1>6, <1>7, <1>8 DEF k, T, h

(* _declared_frame_len of a complete frame is its size.                     *)
LEMMA CompleteSizes ==
  ASSUME NEW h \in Seq(Byte), CompleteAt(h, 1)
  PROVE  /\ DeclaredLen(h) = SizeAt(h, 1) /\ SizeAt(h, 1) \in Nat
         /\ SizeAt(h, 1) > V3_HEADER_LEN + 2 /\ SizeAt(h, 1) <= Len(h)
         /\ SizeAt(h, 1) = V3_HEADER_LEN + h[V3_HEADER_LEN] + 3
         /\ h[V3_HEADER_LEN] \in Nat /\ V3_HEADER_LEN \in Nat /\ V3_HEADER_LEN > 3
         /\ V3_HEADER_LEN = V3_LENGTH_INDEX + 1
<1>1. 1 + V3_LENGTH_INDEX <= Len(h) /\ 1 + SizeAt(h, 1) - 1 <= Len(h)
  BY DEF CompleteAt
<1>2. /\ V3_LENGTH_INDEX + 1 = V3_HEADER_LEN /\ 1 + V3_LENGTH_INDEX = V3_HEADER_LEN
      /\ V3_HEADER_LEN \in Nat /\ V3_HEADER_LEN > 3
  BY Layout
<1>3. /\ h[V3_HEADER_LEN] \in Nat /\ SizeAt(h, 1) = V3_HEADER_LEN + h[V3_HEADER_LEN] + 3
      /\ SizeAt(h, 1) \in Nat
  BY <1>1, <1>2, Sizes
<1>4. DeclaredLen(h) = V3_HEADER_LEN + h[V3_HEADER_LEN] + 3
  <2>1. ~(Len(h) <= V3_LENGTH_INDEX)
    BY <1>1, Layout
  <2>2. DeclaredLen(h) = V3_HEADER_LEN + h[V3_HEADER_LEN] + CRC_LEN + Len(TRAILER)
    BY <1>2, <2>1 DEF DeclaredLen
  <2> QED BY <1>2, <1>3, <2>2, Layout
<1>5. SizeAt(h, 1) <= Len(h) /\ SizeAt(h, 1) > V3_HEADER_LEN + 2
  BY <1>1, <1>2, <1>3
<1> QED BY <1>2, <1>3, <1>4, <1>5, Layout

(* feed waits exactly when the frame at the front is incomplete.            *)
LEMMA IncompleteSizes ==
  ASSUME NEW h \in Seq(Byte)
  PROVE  DeclaredLen(h) = 0 \/ Len(h) < DeclaredLen(h) <=> ~CompleteAt(h, 1)
<1>1. CASE CompleteAt(h, 1)
  BY <1>1, CompleteSizes
<1>2. CASE ~CompleteAt(h, 1)
  <2>1. CASE Len(h) <= V3_LENGTH_INDEX
    BY <1>2, <2>1 DEF DeclaredLen
  <2>2. CASE ~(Len(h) <= V3_LENGTH_INDEX)
    <3>1. 1 + V3_LENGTH_INDEX <= Len(h) /\ 1 + V3_LENGTH_INDEX = V3_LENGTH_INDEX + 1
      BY <2>2, Layout
    <3>2. SizeAt(h, 1) \in Nat
      BY <3>1, Sizes
    <3>3. DeclaredLen(h) = SizeAt(h, 1)
      BY <2>2, <3>1 DEF DeclaredLen, SizeAt
    <3>4. ~(1 + SizeAt(h, 1) - 1 <= Len(h))
      BY <1>2, <3>1 DEF CompleteAt
    <3> QED BY <1>2, <3>2, <3>3, <3>4
  <2> QED BY <2>1, <2>2
<1> QED BY <1>1, <1>2

(* Frame.parse finds the frame, since feed has looked at the length.        *)
LEMMA ParseFinds ==
  ASSUME NEW h \in Seq(Byte), HeaderAt(h, 1), CompleteAt(h, 1), ~MisSynced(h)
  PROVE  Parse(SubSeq(h, 1, DeclaredLen(h) - Len(TRAILER))) = {FrameOf(h, 1)}
<1> DEFINE n == h[V3_HEADER_LEN]
           size == SizeAt(h, 1)
           raw == SubSeq(h, 1, size - 2)
           V3 == V3_HEADER_LEN
           data == SubSeq(raw, V3 + 1, V3 + n)
           same == [k \in 1..n |-> h[1 + V3 + k - 1]]
<1>1. /\ size \in Nat /\ size = V3 + n + 3 /\ size <= Len(h) /\ n \in Nat /\ V3 \in Nat /\ V3 > 3
      /\ DeclaredLen(h) = size /\ V3 = V3_LENGTH_INDEX + 1
  BY CompleteSizes
<1> HIDE DEF size, n
<1>2. raw \in Seq(Byte) /\ Len(raw) = size - 2 /\ \A k \in 1..(size - 2) : raw[k] = h[k]
  BY <1>1
<1> HIDE DEF raw
<1>3. raw[1] = h[1] /\ raw[2] = h[2] /\ raw[3] = h[3] /\ raw[V3] = h[V3] /\ Len(raw) = V3 + n + 1
  <2>1. size - 2 = V3 + n + 1
    BY <1>1
  <2>2. 1 \in 1..(size - 2) /\ 2 \in 1..(size - 2) /\ 3 \in 1..(size - 2) /\ V3 \in 1..(size - 2)
    BY <1>1, <2>1
  <2> HIDE DEF V3
  <2> QED BY <1>2, <2>1, <2>2
<1>4. ~(raw[3] < MIN_PROTOCOL_TYPE)
  BY <1>1, <1>3 DEF MisSynced
<1>5. HeaderAt(raw, 1)
  <2>1. h[1] = HEADER[1] /\ h[2] = HEADER[2]
    BY HeaderAtStart
  <2>2. raw[1] = HEADER[1] /\ raw[2] = HEADER[2] /\ Len(raw) >= 2
    BY <1>1, <1>3, <2>1
  <2> QED BY <1>2, <2>2, HeaderAtStart
<1>6. LEGACY_HEADER_LEN + CRC_LEN <= V3 + 1 /\ LEGACY_HEADER_LEN \in Nat
  BY <1>1, LayoutAssumption
<1>7. data = same
  <2>1. data \in Seq(Byte) /\ Len(data) = n /\ \A k \in 1..n : data[k] = raw[V3 + k]
    <3>1. V3 \in Nat /\ n \in Nat /\ V3 + n <= Len(raw) /\ raw \in Seq(Byte)
      BY <1>1, <1>2, <1>3
    <3> QED BY <3>1, SliceIs, Zenon
  <2>2. \A k \in 1..n : raw[V3 + k] = h[V3 + k] /\ 1 + V3 + k - 1 = V3 + k /\ h[V3 + k] \in Byte
    BY <1>1, <1>2
  <2>3. same \in Seq(Byte) /\ Len(same) = n /\ \A k \in 1..n : same[k] = h[V3 + k]
    BY <1>1, <2>2
  <2> HIDE DEF data, same
  <2>4. \A k \in 1..Len(data) : data[k] = same[k]
    BY <2>1, <2>2, <2>3
  <2> QED BY <2>1, <2>3, <2>4, SeqEqual
<1> HIDE DEF data, same
<1>8. Parse(raw) = {[protocol |-> raw[3], data |-> data]}
  <2>1. raw[V3_LENGTH_INDEX + 1] = n
    BY <1>1, <1>3 DEF n
  <2>2. ~(Len(raw) < V3) /\ ~(Len(raw) < V3 + n) /\ ~(Len(raw) < LEGACY_HEADER_LEN + CRC_LEN)
    BY <1>1, <1>3, <1>6, LayoutAssumption
  <2>3. Parse(raw) = {[protocol |-> raw[3], data |-> SubSeq(raw, V3 + 1, V3 + raw[V3_LENGTH_INDEX + 1])]}
    BY <1>4, <1>5, <2>1, <2>2 DEF Parse
  <2> QED BY <2>1, <2>3 DEF data
<1>9. FrameOf(h, 1) = [protocol |-> h[3], data |-> same]
  <2>1. 1 + V3_LENGTH_INDEX = V3 /\ 1 + 2 = 3
    BY <1>1, Layout
  <2> QED BY <2>1 DEF FrameOf, same, n
<1>10. DeclaredLen(h) - Len(TRAILER) = size - 2
  BY <1>1, Layout
<1> QED BY <1>3, <1>7, <1>8, <1>9, <1>10 DEF raw
(* The last two bytes of a frame are the trailer.                           *)
LEMMA TrailerIs ==
  ASSUME NEW s \in Seq(Byte), NEW n \in Nat, n >= 2, n <= Len(s)
  PROVE  (SubSeq(s, n - Len(TRAILER) + 1, n) = TRAILER) <=> s[n - 1] = TRAILER[1] /\ s[n] = TRAILER[2]
<1> DEFINE x == TRAILER[1]
           y == TRAILER[2]
<1>1. TRAILER = <<x, y>> /\ Len(TRAILER) = 2
  BY Layout
<1> HIDE DEF x, y
<1>2. PICK i \in Nat : i = n - 1 /\ i # 0
  OBVIOUS
<1>3. i \in Nat \ {0} /\ i < Len(s)
  BY <1>2
<1>4. (SubSeq(s, i, i + 1) = <<x, y>>) <=> (s[i] = x /\ s[i + 1] = y)
  BY <1>3, PairAt
<1>5. n - Len(TRAILER) + 1 = i /\ n = i + 1 /\ n - 1 = i
  BY <1>1, <1>2
<1> QED BY <1>1, <1>4, <1>5 DEF x, y

(* One pass of the loop of feed, in the terms of the reading.               *)
LEMMA StepIs ==
  ASSUME NEW scan, NEW b \in Seq(Byte)
  PROVE  ScanBody(scan, b) = ScanStep(scan, b)
<1> DEFINE h == AtHeader(b)
           size == DeclaredLen(h)
           raw == SubSeq(h, 1, size - Len(TRAILER))
<1>1. ScanBody(scan, b) =
        IF Headers(b) = {} THEN [rest |-> Kept(b), frames |-> <<>>]
        ELSE IF MisSynced(h) THEN scan[Resync(h)]
        ELSE IF size = 0 \/ Len(h) < size
             THEN [rest |-> h, frames |-> <<>>]
        ELSE IF SubSeq(h, size - Len(TRAILER) + 1, size) # TRAILER
             THEN scan[Resync(h)]
        ELSE IF Parse(raw) = {} THEN scan[Drop(h, size)]
        ELSE Prepend([from |-> Len(h), frame |-> CHOOSE f \in Parse(raw) : TRUE], scan[Drop(h, size)])
  BY DEF ScanBody, AtHeader, Prepend
<1> HIDE DEF h
<1>2. ASSUME Headers(b) # {}
      PROVE  h \in Seq(Byte) /\ HeaderAt(h, 1) /\ Len(h) >= 2
  BY <1>2, HeaderFirst DEF h
<1>3. CASE Headers(b) = {}
  BY <1>1, <1>3 DEF ScanStep
<1>4. CASE Headers(b) # {} /\ MisSynced(h)
  <2>1. ~PossibleAt(h, 1)
    <3>1. 1 + 2 <= Len(h) /\ h[1 + 2] < MIN_PROTOCOL_TYPE /\ 1 + 2 = 3
      BY <1>2, <1>4 DEF MisSynced
    <3>2. 3 \in 1..Len(h)
      BY <1>2, <1>4, <3>1
    <3>3. h[3] \in Nat /\ MIN_PROTOCOL_TYPE \in Nat
      BY <1>2, <1>4, <3>2, BytesAreNumbers, Layout
    <3> QED BY <3>1, <3>3 DEF PossibleAt
  <2> QED BY <1>1, <1>4, <2>1 DEF ScanStep, Incomplete, h
<1>5. CASE Headers(b) # {} /\ ~MisSynced(h) /\ ~CompleteAt(h, 1)
  <2>1. size = 0 \/ Len(h) < size
    BY <1>2, <1>5, IncompleteSizes
  <2> QED BY <1>1, <1>5, <2>1 DEF ScanStep, Incomplete, h
<1>6. CASE Headers(b) # {} /\ ~MisSynced(h) /\ CompleteAt(h, 1)
  <2>1. ~(size = 0 \/ Len(h) < size)
    BY <1>2, <1>6, IncompleteSizes
  <2>2. /\ size = SizeAt(h, 1) /\ size \in Nat /\ size > 3 /\ size <= Len(h)
    BY <1>2, <1>6, CompleteSizes
  <2>3. Parse(raw) = {FrameOf(h, 1)}
    BY <1>2, <1>6, ParseFinds
  <2> HIDE DEF raw, size
  <2>4. (SubSeq(h, size - Len(TRAILER) + 1, size) = TRAILER) <=> h[size - 1] = TRAILER[1] /\ h[size] = TRAILER[2]
    <3>1. h \in Seq(Byte) /\ size \in Nat /\ size >= 2 /\ size <= Len(h)
      BY <1>2, <1>6, <2>2
    <3> QED BY <3>1, TrailerIs
  <2>5. PossibleAt(h, 1) <=> h[size - 1] = TRAILER[1] /\ h[size] = TRAILER[2]
    <3>1. 1 + size - 3 + 1 = size - 1 /\ 1 + size - 3 + 2 = size /\ 1 + 2 = 3
      BY <2>2
    <3>2. (\A k \in 1..2 : h[1 + size - 3 + k] = TRAILER[k])
            <=> h[1 + size - 3 + 1] = TRAILER[1] /\ h[1 + size - 3 + 2] = TRAILER[2]
      OBVIOUS
    <3>3. 1 + 2 <= Len(h) => h[1 + 2] >= MIN_PROTOCOL_TYPE
      <4>1. CASE 1 + 2 <= Len(h)
        <5>1. 3 \in 1..Len(h) /\ Len(h) >= 3
          BY <1>2, <1>6, <4>1
        <5>2. h[3] \in Nat /\ MIN_PROTOCOL_TYPE \in Nat
          BY <1>2, <1>6, <5>1, BytesAreNumbers, Layout
        <5> QED BY <1>6, <5>1, <5>2 DEF MisSynced
      <4> QED BY <4>1
    <3> QED BY <1>2, <1>6, <2>2, <3>1, <3>2, <3>3 DEF PossibleAt
  <2>6. CASE PossibleAt(h, 1)
    <3>1. ScanBody(scan, b) = Prepend([from |-> Len(h), frame |-> FrameOf(h, 1)], scan[Drop(h, size)])
      BY <1>1, <1>6, <2>1, <2>3, <2>4, <2>5, <2>6
    <3> QED BY <1>6, <2>2, <2>6, <3>1 DEF ScanStep, Incomplete, FoundIn, h
  <2>7. CASE ~PossibleAt(h, 1)
    <3>1. ScanBody(scan, b) = scan[Resync(h)]
      BY <1>1, <1>6, <2>1, <2>4, <2>5, <2>7
    <3> QED BY <1>6, <2>7, <3>1 DEF ScanStep, Incomplete, h
  <2> QED BY <2>6, <2>7
<1> QED BY <1>3, <1>4, <1>5, <1>6


(* Reassembler.  What the loop returns.                                     *)
Founds == [from : Nat, frame : FrameType]

Results == [rest : Seq(Byte), frames : Seq(Founds)]

(* After a frame feed goes on behind it ...                                 *)
LEMMA AtFrame ==
  ASSUME NEW b \in Seq(Byte), Headers(b) # {}, ~Incomplete(AtHeader(b)), PossibleAt(AtHeader(b), 1)
  PROVE  LET h == AtHeader(b)
         IN  /\ CompleteAt(h, 1) /\ FoundIn(h) \in Founds
             /\ SizeAt(h, 1) \in 1..Len(h) /\ Drop(h, SizeAt(h, 1)) \in Seq(Byte)
             /\ Len(Drop(h, SizeAt(h, 1))) = Len(h) - SizeAt(h, 1)
             /\ Len(Drop(h, SizeAt(h, 1))) < Len(b)
<1> DEFINE h == AtHeader(b)
           size == SizeAt(h, 1)
           k == Min(Headers(b))
<1>1. h \in Seq(Byte) /\ Len(h) = Len(b) - k + 1 /\ k \in 1..(Len(b) - 1) /\ Len(h) >= 2
  BY HeaderFirst
<1>2. ~Incomplete(h) /\ PossibleAt(h, 1)
  OBVIOUS
<1> HIDE DEF h, k
<1>3. CompleteAt(h, 1)
  <2> SUFFICES ASSUME MisSynced(h) PROVE FALSE
    BY <1>2 DEF Incomplete
  <2>1. 3 \in 1..Len(h) /\ h[3] < MIN_PROTOCOL_TYPE
    BY <1>1 DEF MisSynced
  <2>2. h[3] \in Nat /\ MIN_PROTOCOL_TYPE \in Nat
    BY <1>1, <2>1, BytesAreNumbers, Layout
  <2>3. 1 + 2 <= Len(h) /\ 1 + 2 = 3
    BY <2>1
  <2> QED BY <1>2, <2>1, <2>2, <2>3 DEF PossibleAt
<1>4. size \in Nat /\ size > 3 /\ size <= Len(h)
  BY <1>1, <1>3, CompleteSizes
<1>5. FoundIn(h) \in Founds
  <2>1. FrameOf(h, 1) \in FrameType
    BY <1>1, <1>3, FramesHaveType
  <2> QED BY <1>1, <2>1 DEF FoundIn, Founds
<1> HIDE DEF size
<1>6. Drop(h, size) \in Seq(Byte) /\ Len(Drop(h, size)) = Len(h) - size
  <2>1. h \in Seq(Byte)
    BY <1>1
  <2>2. size \in 0..Len(h)
    BY <1>4, <2>1
  <2> QED BY <2>1, <2>2, DropIs
<1> QED BY <1>1, <1>3, <1>4, <1>5, <1>6 DEF h, size

(* ... after a false header behind its two bytes ...                        *)
LEMMA AtFalseHeader ==
  ASSUME NEW b \in Seq(Byte), Headers(b) # {}
  PROVE  LET h == AtHeader(b)
         IN  /\ Resync(h) = Drop(h, 2) /\ Resync(h) \in Seq(Byte)
             /\ Len(Resync(h)) = Len(h) - 2 /\ Len(Resync(h)) < Len(b)
<1> DEFINE h == AtHeader(b)
           k == Min(Headers(b))
<1>1. h \in Seq(Byte) /\ Len(h) = Len(b) - k + 1 /\ k \in 1..(Len(b) - 1) /\ Len(h) >= 2
  BY HeaderFirst
<1> HIDE DEF h, k
<1>2. Resync(h) = Drop(h, 2)
  BY Layout DEF Resync
<1>3. Drop(h, 2) \in Seq(Byte) /\ Len(Drop(h, 2)) = Len(h) - 2
  BY <1>1, DropIs
<1> QED BY <1>1, <1>2, <1>3 DEF h

(* ... and without a header it keeps at most one byte.                      *)
LEMMA KeptIs ==
  ASSUME NEW b \in Seq(Byte)
  PROVE  Kept(b) \in Seq(Byte) /\ Len(Kept(b)) <= 1 /\ Len(Kept(b)) <= Len(b)
         /\ (Len(Kept(b)) = 1 \/ Len(b) = 0)
         /\ Kept(b) = Drop(b, Len(b) - Len(Kept(b)))
<1>1. CASE b = <<>>
  <2>1. Len(b) = 0 /\ Kept(b) = b
    BY <1>1 DEF Kept
  <2>2. Drop(b, 0) \in Seq(Byte) /\ Len(Drop(b, 0)) = 0
    <3>1. 0 \in 0..Len(b) /\ Len(b) - 0 = 0
      BY <2>1
    <3> QED BY <3>1, DropIs
  <2>3. Drop(b, 0) = b
    BY <2>1, <2>2, SeqEqual
  <2>4. Len(Kept(b)) = 0 /\ Len(b) - Len(Kept(b)) = 0
    <3>1. Len(Kept(b)) = Len(b)
      BY <2>1, Zenon
    <3>2. PICK m : m = Len(b) /\ m = Len(Kept(b)) /\ m = 0
      BY <2>1, <3>1, Zenon
    <3>3. m - m = 0
      BY <3>2
    <3> QED BY <3>2, <3>3, Zenon
  <2>5. Drop(b, Len(b) - Len(Kept(b))) = b
    BY <2>3, <2>4
  <2> QED BY <2>1, <2>4, <2>5
<1>2. CASE b # <<>>
  <2> DEFINE x == b[Len(b)]
             e == <<x>>
             d == Drop(b, Len(b) - 1)
  <2>1. Len(b) \in Nat /\ Len(b) >= 1 /\ x \in Byte
    BY <1>2
  <2>2. d \in Seq(Byte) /\ Len(d) = 1 /\ d[1] = x
    <3>1. Len(b) - 1 \in 0..Len(b) /\ Len(b) - (Len(b) - 1) = 1 /\ Len(b) - 1 + 1 = Len(b)
      BY <2>1
    <3>2. d \in Seq(Byte) /\ Len(d) = 1 /\ \A k \in 1..1 : d[k] = b[Len(b) - 1 + k]
      BY <3>1, DropIs
    <3> QED BY <3>1, <3>2
  <2> HIDE DEF x, d
  <2>3. e \in Seq(Byte) /\ Len(e) = 1 /\ e[1] = x
    BY <2>1
  <2> HIDE DEF e
  <2>4. d = e
    BY <2>2, <2>3, SeqEqual
  <2>5. Kept(b) = e
    BY <1>2 DEF Kept, e, x
  <2>6. Len(Kept(b)) = 1 /\ Kept(b) \in Seq(Byte)
    BY <2>3, <2>5
  <2>7. Kept(b) = Drop(b, Len(b) - Len(Kept(b)))
    BY <2>4, <2>5, <2>6 DEF d
  <2> QED BY <2>1, <2>6, <2>7
<1> QED BY <1>1, <1>2

(* The function that the loop of feed computes exists ...                   *)
LEMMA ScannerExists ==
  \E scan \in [Seq(Byte) -> Results] : \A b \in Seq(Byte) : scan[b] = ScanStep(scan, b)
<1> DEFINE D == Seq(Byte)
           V == Results
           done == {b \in D : Headers(b) = {} \/ Incomplete(AtHeader(b))}
           frame(b) == PossibleAt(AtHeader(b), 1)
           after(b) == IF frame(b) THEN Drop(AtHeader(b), SizeAt(AtHeader(b), 1)) ELSE Resync(AtHeader(b))
           next == [b \in D |-> IF b \in done THEN b ELSE after(b)]
           rank == [b \in D |-> Len(b)]
           base == [b \in D |-> IF Headers(b) = {} THEN [rest |-> Kept(b), frames |-> <<>>]
                                ELSE [rest |-> AtHeader(b), frames |-> <<>>]]
           comb == [x \in D \X V |-> IF x[1] \in done \/ ~frame(x[1]) THEN x[2]
                                     ELSE Prepend(FoundIn(AtHeader(x[1])), x[2])]
<1>1. ASSUME NEW b \in D, b \notin done PROVE after(b) \in D /\ Len(after(b)) < Len(b)
  <2>1. Headers(b) # {} /\ ~Incomplete(AtHeader(b))
    BY <1>1
  <2>2. CASE frame(b)
    BY <2>1, <2>2, AtFrame
  <2>3. CASE ~frame(b)
    BY <2>1, <2>3, AtFalseHeader
  <2> QED BY <2>2, <2>3
<1> HIDE DEF after
<1>2. next \in [D -> D] /\ \A b \in D \ done : next[b] = after(b)
  BY <1>1
<1>3. rank \in [D -> Nat] /\ \A b \in D : rank[b] = Len(b)
  OBVIOUS
<1>4. base \in [D -> V]
  <2>1. ASSUME NEW b \in D, Headers(b) = {}
        PROVE  [rest |-> Kept(b), frames |-> <<>>] \in V
    BY KeptIs DEF Results
  <2>2. ASSUME NEW b \in D, Headers(b) # {}
        PROVE  [rest |-> AtHeader(b), frames |-> <<>>] \in V
    <3>1. AtHeader(b) \in Seq(Byte)
      BY <2>2, HeaderFirst
    <3> QED BY <3>1 DEF Results
  <2> HIDE DEF D, V
  <2> QED BY <2>1, <2>2
<1>5. /\ comb \in [D \X V -> V]
      /\ \A b \in D, v \in V : comb[<<b, v>>] = IF b \in done \/ ~frame(b) THEN v
                                                ELSE Prepend(FoundIn(AtHeader(b)), v)
  <2>1. ASSUME NEW b \in D, NEW v \in V, ~(b \in done \/ ~frame(b))
        PROVE  Prepend(FoundIn(AtHeader(b)), v) \in V
    <3>1. Headers(b) # {} /\ ~Incomplete(AtHeader(b)) /\ PossibleAt(AtHeader(b), 1)
      BY <2>1
    <3>2. FoundIn(AtHeader(b)) \in Founds
      BY <3>1, AtFrame
    <3>3. v.rest \in Seq(Byte) /\ v.frames \in Seq(Founds)
      BY DEF Results
    <3> DEFINE f == FoundIn(AtHeader(b))
    <3> HIDE DEF f
    <3>4. <<f>> \o v.frames \in Seq(Founds)
      BY <3>2, <3>3 DEF f
    <3> QED BY <3>3, <3>4 DEF Prepend, Results, f
  <2> DEFINE value(x) == IF x[1] \in done \/ ~frame(x[1]) THEN x[2]
                         ELSE Prepend(FoundIn(AtHeader(x[1])), x[2])
  <2> HIDE DEF done, D, V, frame
  <2>2. ASSUME NEW x \in D \X V PROVE value(x) \in V
    <3>1. x[1] \in D /\ x[2] \in V
      OBVIOUS
    <3> QED BY <2>1, <3>1
  <2>3. comb = [x \in D \X V |-> value(x)]
    OBVIOUS
  <2> HIDE DEF comb, value
  <2>4. comb \in [D \X V -> V]
    BY <2>2, <2>3
  <2>5. ASSUME NEW b \in D, NEW v \in V
        PROVE  comb[<<b, v>>] = IF b \in done \/ ~frame(b) THEN v
                                ELSE Prepend(FoundIn(AtHeader(b)), v)
    <3>1. comb[<<b, v>>] = value(<<b, v>>)
      BY <2>3
    <3> QED BY <3>1 DEF value
  <2> QED BY <2>4, <2>5
<1> DEFINE first(b) == IF Headers(b) = {} THEN [rest |-> Kept(b), frames |-> <<>>]
                       ELSE [rest |-> AtHeader(b), frames |-> <<>>]
<1>6. \A b \in D : base[b] = first(b)
  OBVIOUS
<1> HIDE DEF next, rank, base, comb, V, first
<1>7. \A b \in D \ done : rank[next[b]] < rank[b]
  <2> TAKE b \in D \ done
  <2>1. next[b] = after(b) /\ after(b) \in D /\ Len(after(b)) < Len(b)
    BY <1>1, <1>2
  <2> QED BY <1>3, <2>1
<1> HIDE DEF D, done, frame
<1>8. PICK f \in [D -> V] :
        \A b \in D : f[b] = IF b \in done THEN base[b] ELSE comb[<<b, f[next[b]]>>]
  <2>1. Recursive(D, V, rank, next, done, base, comb)
    BY <1>2, <1>3, <1>4, <1>5, <1>7 DEF Recursive
  <2> QED BY <2>1, Recursion
<1>9. ASSUME NEW b \in D
      PROVE  f[b] = ScanStep(f, b)
  <2>1. b \in done <=> (Headers(b) = {} \/ Incomplete(AtHeader(b)))
    BY DEF done
  <2>2. CASE b \in done
    <3>1. f[b] = first(b)
      BY <1>6, <1>8, <2>2
    <3> QED BY <2>1, <2>2, <3>1 DEF ScanStep, first
  <2>3. CASE b \notin done
    <3>1. next[b] = after(b) /\ f[after(b)] \in V
      BY <1>1, <1>2, <2>3
    <3>2. f[b] = comb[<<b, f[after(b)]>>]
      BY <1>8, <2>3, <3>1
    <3>3. f[b] = IF ~frame(b) THEN f[after(b)] ELSE Prepend(FoundIn(AtHeader(b)), f[after(b)])
      BY <1>5, <2>3, <3>1, <3>2
    <3> QED BY <2>1, <2>3, <3>3 DEF ScanStep, frame, after
  <2> QED BY <2>2, <2>3
<1> QED BY <1>9 DEF D, V

(* ... so CHOOSE finds it, and it satisfies its recursion.                  *)
LEMMA ScannerIs ==
  ASSUME NEW b \in Seq(Byte)
  PROVE  Scanner[b] \in Results /\ Scanner[b] = ScanStep(Scanner, b)
<1> DEFINE D == Seq(Byte)
           good(scan) == scan = [a \in D |-> ScanBody(scan, a)]
           T == {n \in Nat : \A a \in D : Len(a) < n => Scanner[a] \in Results}
<1>1. PICK f \in [D -> Results] : \A a \in D : f[a] = ScanStep(f, a)
  BY ScannerExists
<1>2. \A scan, a : a \in D => ScanBody(scan, a) = ScanStep(scan, a)
  BY StepIs
<1>3. good(f)
  <2> HIDE DEF D
  <2>1. \A a \in D : f[a] = ScanBody(f, a)
    BY <1>1, <1>2
  <2> QED BY <2>1
<1>4. good(Scanner)
  BY <1>3 DEF Scanner
<1>5. \A a \in D : Scanner[a] = ScanStep(Scanner, a)
  <2> HIDE DEF D
  <2>1. \A a \in D : Scanner[a] = ScanBody(Scanner, a)
    BY <1>4
  <2> QED BY <1>2, <2>1
<1> HIDE DEF good
<1>6. 0 \in T
  OBVIOUS
<1>7. ASSUME NEW n \in T PROVE n + 1 \in T
  <2> SUFFICES ASSUME NEW a \in D, Len(a) < n + 1 PROVE Scanner[a] \in Results
    OBVIOUS
  <2>1. Scanner[a] = ScanStep(Scanner, a)
    BY <1>5
  <2>2. ASSUME NEW c \in D, Len(c) < Len(a) PROVE Scanner[c] \in Results
    BY <2>2
  <2> HIDE DEF T
  <2>3. CASE Headers(a) = {}
    <3>1. Scanner[a] = [rest |-> Kept(a), frames |-> <<>>]
      BY <2>1, <2>3 DEF ScanStep
    <3> QED BY <3>1, KeptIs DEF Results
  <2>4. CASE Headers(a) # {} /\ Incomplete(AtHeader(a))
    <3>1. Scanner[a] = [rest |-> AtHeader(a), frames |-> <<>>]
      BY <2>1, <2>4 DEF ScanStep
    <3>2. AtHeader(a) \in Seq(Byte)
      BY <2>4, HeaderFirst
    <3> QED BY <3>1, <3>2 DEF Results
  <2>5. CASE Headers(a) # {} /\ ~Incomplete(AtHeader(a)) /\ ~PossibleAt(AtHeader(a), 1)
    <3>1. Scanner[a] = Scanner[Resync(AtHeader(a))]
      BY <2>1, <2>5 DEF ScanStep
    <3>2. Resync(AtHeader(a)) \in Seq(Byte) /\ Len(Resync(AtHeader(a))) < Len(a)
      BY <2>5, AtFalseHeader
    <3> QED BY <2>2, <3>1, <3>2
  <2>6. CASE Headers(a) # {} /\ ~Incomplete(AtHeader(a)) /\ PossibleAt(AtHeader(a), 1)
    <3> DEFINE rest == Drop(AtHeader(a), SizeAt(AtHeader(a), 1))
               found == FoundIn(AtHeader(a))
               v == Scanner[rest]
    <3>1. Scanner[a] = Prepend(found, v)
      BY <2>1, <2>6 DEF ScanStep
    <3>2. rest \in Seq(Byte) /\ Len(rest) < Len(a) /\ found \in Founds
      BY <2>6, AtFrame
    <3>3. v \in Results
      BY <2>2, <3>2
    <3> HIDE DEF v, found
    <3>4. v.rest \in Seq(Byte) /\ v.frames \in Seq(Founds)
      BY <3>3 DEF Results
    <3>5. <<found>> \o v.frames \in Seq(Founds)
      BY <3>2, <3>4
    <3> QED BY <3>1, <3>4, <3>5 DEF Prepend, Results
  <2> QED BY <2>3, <2>4, <2>5, <2>6
<1>8. T = Nat
  <2>1. T \in SUBSET Nat
    OBVIOUS
  <2> HIDE DEF T
  <2> QED BY <1>6, <1>7, <2>1, SetInduction
<1>9. Scanner[b] \in Results
  <2>1. Len(b) + 1 \in T /\ Len(b) < Len(b) + 1
    BY <1>8
  <2> QED BY <2>1
<1> QED BY <1>5, <1>9

----------------------------------------------------------------------------
(* The loop of feed reads what the whole stream, however it goes on, says.  *)

(* The bytes h are those from p on.                                         *)
At(t, p, h) ==
  /\ t \in Seq(Byte) /\ h \in Seq(Byte) /\ p \in Nat \ {0}
  /\ p - 1 + Len(h) <= Len(t) /\ \A k \in 1..Len(h) : h[k] = t[p - 1 + k]

(* A header stays where it is when the stream continues ...                 *)
LEMMA HeadersSame ==
  ASSUME NEW t, NEW p, NEW h, At(t, p, h), NEW k \in 1..(Len(h) - 1)
  PROVE  HeaderAt(h, k) <=> HeaderAt(t, p - 1 + k)
<1>1. /\ t \in Seq(Byte) /\ h \in Seq(Byte) /\ p \in Nat \ {0}
      /\ p - 1 + Len(h) <= Len(t) /\ \A i \in 1..Len(h) : h[i] = t[p - 1 + i]
  BY DEF At
<1>2. PICK q \in Nat \ {0} : q = p - 1 + k
  BY <1>1
<1>3. k \in 1..Len(h) /\ k + 1 \in 1..Len(h) /\ k < Len(h) /\ q < Len(t) /\ p - 1 + (k + 1) = q + 1
      /\ k \in Nat \ {0}
  BY <1>1, <1>2
<1>4. h[k] = t[q] /\ h[k + 1] = t[q + 1]
  BY <1>1, <1>2, <1>3
<1>5. HeaderAt(h, k) <=> h[k] = HEADER[1] /\ h[k + 1] = HEADER[2]
  BY <1>1, <1>3, HeaderIs
<1>6. HeaderAt(t, q) <=> t[q] = HEADER[1] /\ t[q + 1] = HEADER[2]
  BY <1>1, <1>3, HeaderIs
<1> QED BY <1>2, <1>4, <1>5, <1>6

(* ... and so does a complete frame, with its size and data.                *)
LEMMA CompleteSame ==
  ASSUME NEW t, NEW p, NEW h, At(t, p, h), CompleteAt(h, 1)
  PROVE  /\ CompleteAt(t, p) /\ SizeAt(t, p) = SizeAt(h, 1) /\ SizeAt(h, 1) \in 4..Len(h)
         /\ PossibleAt(t, p) <=> PossibleAt(h, 1)
         /\ FrameOf(t, p) = FrameOf(h, 1)
<1>1. /\ t \in Seq(Byte) /\ h \in Seq(Byte) /\ p \in Nat \ {0}
      /\ p - 1 + Len(h) <= Len(t) /\ \A i \in 1..Len(h) : h[i] = t[p - 1 + i]
  BY DEF At
<1> DEFINE V3 == V3_HEADER_LEN
           size == SizeAt(h, 1)
           n == h[V3]
<1>2. /\ size \in Nat /\ size > V3 + 2 /\ size <= Len(h) /\ size = V3 + n + 3
      /\ n \in Nat /\ V3 \in Nat /\ V3 > 3 /\ V3 = V3_LENGTH_INDEX + 1 /\ V3_LENGTH_INDEX \in Nat
  BY <1>1, CompleteSizes, Layout
<1>3. p + V3_LENGTH_INDEX = p - 1 + V3 /\ V3 \in 1..Len(h) /\ t[p - 1 + V3] = n
  BY <1>1, <1>2
<1> HIDE DEF n, size
<1>4. SizeAt(t, p) = size /\ p + V3_LENGTH_INDEX <= Len(t)
  <2>1. p + V3_LENGTH_INDEX <= Len(t) /\ t[p + V3_LENGTH_INDEX] = n
    BY <1>1, <1>2, <1>3
  <2>2. SizeAt(t, p) = V3 + t[p + V3_LENGTH_INDEX] + 3
    BY <1>1, <2>1, Sizes
  <2> QED BY <1>2, <2>1, <2>2
<1>5. CompleteAt(t, p)
  BY <1>1, <1>2, <1>4 DEF CompleteAt
<1>6. PossibleAt(t, p) <=> PossibleAt(h, 1)
  <2>1. HeaderAt(h, 1) <=> HeaderAt(t, p)
    <3>1. 1 \in 1..(Len(h) - 1) /\ p - 1 + 1 = p
      BY <1>1, <1>2
    <3>2. PICK one : one = 1 /\ one \in 1..(Len(h) - 1) /\ p - 1 + one = p
      BY <3>1
    <3>3. HeaderAt(h, one) <=> HeaderAt(t, p - 1 + one)
      BY <3>2, HeadersSame
    <3> QED BY <3>2, <3>3
  <2>2. p + 2 <= Len(t) /\ 1 + 2 <= Len(h) /\ t[p + 2] = h[1 + 2]
    <3>1. 3 \in 1..Len(h) /\ p - 1 + 3 = p + 2 /\ 1 + 2 = 3 /\ p + 2 <= Len(t)
      BY <1>1, <1>2
    <3> QED BY <1>1, <3>1
  <2>3. \A k \in 1..2 : t[p + size - 3 + k] = h[1 + size - 3 + k]
    <3> TAKE k \in 1..2
    <3>1. 1 + size - 3 + k \in 1..Len(h) /\ p - 1 + (1 + size - 3 + k) = p + size - 3 + k
      BY <1>1, <1>2
    <3> QED BY <1>1, <3>1
  <2>4. PossibleAt(t, p) <=> /\ HeaderAt(t, p) /\ t[p + 2] >= MIN_PROTOCOL_TYPE
                             /\ \A k \in 1..2 : t[p + size - 3 + k] = TRAILER[k]
    BY <1>4, <1>5, <2>2 DEF PossibleAt
  <2>5. PossibleAt(h, 1) <=> /\ HeaderAt(h, 1) /\ h[1 + 2] >= MIN_PROTOCOL_TYPE
                             /\ \A k \in 1..2 : h[1 + size - 3 + k] = TRAILER[k]
    BY <2>2 DEF PossibleAt, size
  <2> QED BY <2>1, <2>2, <2>3, <2>4, <2>5
<1>7. FrameOf(t, p) = FrameOf(h, 1)
  <2>1. t[p + 2] = h[1 + 2]
    <3>1. 3 \in 1..Len(h) /\ p - 1 + 3 = p + 2 /\ 1 + 2 = 3
      BY <1>1, <1>2
    <3> QED BY <1>1, <3>1
  <2>2. t[p + V3_LENGTH_INDEX] = n /\ h[1 + V3_LENGTH_INDEX] = n
    <3>1. 1 + V3_LENGTH_INDEX = V3
      BY <1>2
    <3> QED BY <1>3, <3>1 DEF n
  <2>3. ASSUME NEW k \in 1..n PROVE t[p + V3 + k - 1] = h[1 + V3 + k - 1]
    <3>1. 1 + V3 + k - 1 \in 1..Len(h) /\ p - 1 + (1 + V3 + k - 1) = p + V3 + k - 1
      BY <1>1, <1>2
    <3> QED BY <1>1, <3>1
  <2>4. [k \in 1..n |-> t[p + V3 + k - 1]] = [k \in 1..n |-> h[1 + V3 + k - 1]]
    BY <2>3
  <2> QED BY <2>1, <2>2, <2>4 DEF FrameOf
<1>8. size \in 4..Len(h)
  BY <1>2
<1> QED BY <1>4, <1>5, <1>6, <1>7, <1>8 DEF size

(* Reading from a place is reading from the next possible start.            *)
LEMMA Skip ==
  ASSUME NEW t \in Seq(Byte), NEW i \in 1..(Len(t) + 1), NEW j \in i..(Len(t) + 1),
         \A q \in i..(j - 1) : ~PossibleAt(t, q)
  PROVE  Reading(t)[i] = Reading(t)[j]
<1>1. Starts(t, i) = Starts(t, j)
  <2>1. ASSUME NEW p \in i..Len(t), PossibleAt(t, p) PROVE p \in j..Len(t)
    <3>1. ~(p <= j - 1)
      BY <2>1
    <3> QED BY <3>1
  <2>2. ASSUME NEW p \in j..Len(t) PROVE p \in i..Len(t)
    OBVIOUS
  <2> QED BY <2>1, <2>2 DEF Starts
<1>2. Waits(t, i) <=> Waits(t, j)
  BY <1>1 DEF Waits
<1>3. j \in 1..(Len(t) + 1)
  OBVIOUS
<1>4. /\ Reading(t)[i] = IF Waits(t, i) THEN <<>>
                         ELSE <<YieldOf(t, Min(Starts(t, i)))>>
                              \o Reading(t)[Min(Starts(t, i)) + SizeAt(t, Min(Starts(t, i)))]
      /\ Reading(t)[j] = IF Waits(t, j) THEN <<>>
                         ELSE <<YieldOf(t, Min(Starts(t, j)))>>
                              \o Reading(t)[Min(Starts(t, j)) + SizeAt(t, Min(Starts(t, j)))]
  BY <1>3, ReadingIs
<1> QED BY <1>1, <1>2, <1>4

(* A frame that is there is the first one of the reading from it.           *)
LEMMA ReadFrame ==
  ASSUME NEW t \in Seq(Byte), NEW p \in 1..Len(t), PossibleAt(t, p), CompleteAt(t, p)
  PROVE  Reading(t)[p] = <<YieldOf(t, p)>> \o Reading(t)[p + SizeAt(t, p)]
<1> DEFINE T == Starts(t, p)
<1>1. p \in T /\ p \in Nat \ {0} /\ p \in 1..(Len(t) + 1) /\ T # {}
  BY DEF Starts
<1>2. Min(T) \in p..Len(t) /\ Min(T) <= p
  BY <1>1, StartsAre
<1>3. Min(T) = p
  BY <1>1, <1>2
<1>4. ~Waits(t, p)
  BY <1>1, <1>3 DEF Waits
<1> QED BY <1>1, <1>3, <1>4, ReadingIs

(* The frames found, placed in a stream of n bytes.                         *)
Placed(found, n) ==
  [k \in 1..Len(found) |-> [at |-> n - found[k].from + 1, frame |-> found[k].frame]]

(* The first frame found is the first one placed.                           *)
LEMMA PlacedFirst ==
  ASSUME NEW f \in Founds, NEW more \in Seq(Founds), NEW n \in Nat
  PROVE  Placed(<<f>> \o more, n) = <<[at |-> n - f.from + 1, frame |-> f.frame]>> \o Placed(more, n)
<1> DEFINE V == [at : Int, frame : FrameType]
           y == [at |-> n - f.from + 1, frame |-> f.frame]
           all == <<f>> \o more
           P == Placed(all, n)
           Q == Placed(more, n)
           R == <<y>> \o Q
<1>1. all \in Seq(Founds) /\ Len(all) = 1 + Len(more) /\ all[1] = f
      /\ \A k \in 2..Len(all) : all[k] = more[k - 1]
  OBVIOUS
<1>2. \A g \in Founds : [at |-> n - g.from + 1, frame |-> g.frame] \in V
  BY DEF Founds
<1> HIDE DEF all
<1>3. /\ P \in Seq(V) /\ Len(P) = Len(all)
      /\ \A k \in 1..Len(all) : P[k] = [at |-> n - all[k].from + 1, frame |-> all[k].frame]
  <2>1. \A k \in 1..Len(all) : [at |-> n - all[k].from + 1, frame |-> all[k].frame] \in V
    BY <1>1, <1>2
  <2> HIDE DEF V
  <2> QED BY <1>1, <2>1 DEF Placed
<1>4. /\ Q \in Seq(V) /\ Len(Q) = Len(more)
      /\ \A k \in 1..Len(more) : Q[k] = [at |-> n - more[k].from + 1, frame |-> more[k].frame]
  <2>1. \A k \in 1..Len(more) : [at |-> n - more[k].from + 1, frame |-> more[k].frame] \in V
    BY <1>2
  <2> HIDE DEF V
  <2> QED BY <2>1 DEF Placed
<1>5. y \in V
  BY <1>2
<1> HIDE DEF P, Q, V, y
<1>6. R \in Seq(V) /\ Len(R) = 1 + Len(Q) /\ R[1] = y /\ \A k \in 2..Len(R) : R[k] = Q[k - 1]
  BY <1>4, <1>5
<1> HIDE DEF R
<1>7. P[1] = y
  <2>1. 1 \in 1..Len(all)
    BY <1>1
  <2> QED BY <1>1, <1>3, <2>1 DEF y
<1>8. ASSUME NEW k \in 2..Len(all) PROVE P[k] = R[k]
  <2>1. k \in 1..Len(all) /\ k - 1 \in 1..Len(more) /\ k \in 2..Len(R) /\ all[k] = more[k - 1]
    BY <1>1, <1>4, <1>6
  <2>2. P[k] = [at |-> n - all[k].from + 1, frame |-> all[k].frame]
    BY <1>3, <2>1
  <2>3. Q[k - 1] = [at |-> n - more[k - 1].from + 1, frame |-> more[k - 1].frame]
    BY <1>4, <2>1
  <2>4. R[k] = Q[k - 1]
    BY <1>6, <2>1
  <2> QED BY <2>1, <2>2, <2>3, <2>4
<1>9. \A k \in 1..Len(P) : P[k] = R[k]
  <2> TAKE k \in 1..Len(P)
  <2>1. k = 1 \/ k \in 2..Len(all)
    BY <1>1, <1>3
  <2> QED BY <1>6, <1>7, <1>8, <2>1
<1>10. Len(P) = Len(R)
  BY <1>1, <1>3, <1>4, <1>6
<1>11. P = R
  BY <1>3, <1>6, <1>9, <1>10, SeqEqual
<1> QED BY <1>11 DEF P, R, Q, y, all

(* No frame found, none placed.                                             *)
LEMMA PlacedNone ==
  ASSUME NEW t \in Seq(Byte), NEW j \in 1..(Len(t) + 1), NEW n \in Nat
  PROVE  Placed(<<>>, n) \o Reading(t)[j] = Reading(t)[j]
<1> DEFINE s == Reading(t)[j]
<1>1. Placed(<<>>, n) = <<>>
  BY DEF Placed
<1>2. s \in Seq(Yields)
  BY ReadingIs
<1> HIDE DEF s
<1>3. <<>> \o s = s
  BY <1>2
<1> QED BY <1>1, <1>3 DEF s

(* Frames found that fit into the stream have places in it.                 *)
LEMMA PlacedType ==
  ASSUME NEW found \in Seq(Founds), NEW n \in Nat, \A k \in 1..Len(found) : found[k].from <= n
  PROVE  Placed(found, n) \in Seq(Yields)
<1>1. ASSUME NEW k \in 1..Len(found) PROVE [at |-> n - found[k].from + 1, frame |-> found[k].frame] \in Yields
  <2>1. found[k] \in Founds /\ found[k].from <= n
    OBVIOUS
  <2>2. n - found[k].from + 1 \in Nat /\ found[k].frame \in FrameType
    BY <2>1 DEF Founds
  <2> QED BY <2>2 DEF Yields
<1> QED BY <1>1 DEF Placed

(* What the loop has found from i on, and what it leaves, in a stream that  *)
(* has come up to s and goes on as t.                                       *)
Reached(s, t, i, r) ==
  /\ Len(r.rest) <= Len(s) + 1 - i
  /\ Len(r.rest) < MaxFrame
  /\ r.rest = Drop(s, Len(s) - Len(r.rest))
  /\ Waits(s, Len(s) - Len(r.rest) + 1)
  /\ \A k \in 1..Len(r.frames) : r.frames[k].from <= Len(s)
  /\ Reading(t)[i] = Placed(r.frames, Len(s)) \o Reading(t)[Len(s) - Len(r.rest) + 1]

(* The longest frame that a length byte can declare.                        *)
LEMMA LongestFrame == MaxFrame \in Nat /\ MaxFrame > 6 /\ MaxFrame > V3_LENGTH_INDEX
<1>1. HEADER[1] \in Byte /\ BYTE \in Nat
  BY LayoutAssumption
<1>2. BYTE >= 1
  BY <1>1 DEF Byte
<1> QED BY <1>1, <1>2, Layout DEF MaxFrame

(* Where the bytes of the buffer from the header on are.                    *)
LEMMA HeaderPlace ==
  ASSUME NEW s \in Seq(Byte), NEW t, Extends(t, s), NEW i \in 1..(Len(s) + 1),
         Headers(Drop(s, i - 1)) # {}
  PROVE  LET b == Drop(s, i - 1)
             h == AtHeader(b)
             p == i - 1 + Min(Headers(b))
         IN  /\ p \in i..(Len(s) - 1) /\ h \in Seq(Byte) /\ Len(h) = Len(s) - p + 1
             /\ h = Drop(s, p - 1) /\ At(s, p, h) /\ At(t, p, h) /\ HeaderAt(h, 1)
             /\ \A q \in i..(p - 1) : ~PossibleAt(t, q)
<1> DEFINE b == Drop(s, i - 1)
           h == AtHeader(b)
           m == Min(Headers(b))
           p == i - 1 + m
<1>1. t \in Seq(Byte) /\ Len(s) <= Len(t) /\ \A k \in 1..Len(s) : t[k] = s[k]
  BY DEF Extends
<1>2. /\ b \in Seq(Byte) /\ Len(b) = Len(s) - (i - 1)
      /\ \A k \in 1..(Len(s) - (i - 1)) : b[k] = s[i - 1 + k]
  <2>1. i - 1 \in 0..Len(s)
    OBVIOUS
  <2> QED BY <2>1, DropIs
<1>3. Headers(b) # {}
  OBVIOUS
<1>4. h = Drop(b, m - 1)
  BY DEF AtHeader
<1> HIDE DEF b
<1>5. /\ m \in 1..(Len(b) - 1) /\ HeaderAt(b, m)
      /\ \A q \in 1..Len(b) : HeaderAt(b, q) => m <= q
      /\ h \in Seq(Byte) /\ Len(h) = Len(b) - m + 1
      /\ \A k \in 1..Len(h) : h[k] = b[m - 1 + k]
      /\ HeaderAt(h, 1) /\ Len(h) >= 2
  BY <1>2, <1>3, HeaderFirst
<1> HIDE DEF h, m
<1>6. p \in i..(Len(s) - 1) /\ Len(h) = Len(s) - p + 1 /\ p \in Nat \ {0}
  BY <1>2, <1>5
<1>7. h = Drop(s, p - 1)
  <2>1. i - 1 \in 0..Len(s) /\ m - 1 \in 0..(Len(s) - (i - 1)) /\ i - 1 + (m - 1) = p - 1
    BY <1>2, <1>5
  <2>2. Drop(Drop(s, i - 1), m - 1) = Drop(s, i - 1 + (m - 1))
    BY <2>1, DropDrop
  <2> QED BY <1>4, <2>1, <2>2 DEF b
<1>8. ASSUME NEW k \in 1..Len(h) PROVE h[k] = s[p - 1 + k] /\ h[k] = t[p - 1 + k]
  <2>1. m - 1 + k \in 1..(Len(s) - (i - 1)) /\ i - 1 + (m - 1 + k) = p - 1 + k
        /\ p - 1 + k \in 1..Len(s)
    BY <1>2, <1>5, <1>6
  <2>2. h[k] = b[m - 1 + k] /\ b[m - 1 + k] = s[p - 1 + k]
    BY <1>2, <1>5, <2>1
  <2> QED BY <1>1, <2>1, <2>2
<1>9. At(s, p, h) /\ At(t, p, h)
  BY <1>1, <1>5, <1>6, <1>8 DEF At
<1>10. ASSUME NEW q \in i..(p - 1) PROVE ~PossibleAt(t, q)
  <2> SUFFICES ASSUME HeaderAt(t, q) PROVE FALSE
    BY DEF PossibleAt
  <2>1. PICK k \in 1..(Len(b) - 1) : i - 1 + k = q /\ k < m
    <3>1. q - i + 1 \in 1..(Len(b) - 1) /\ i - 1 + (q - i + 1) = q /\ q - i + 1 < m
      BY <1>2, <1>5
    <3> QED BY <3>1
  <2>2. At(t, i, b)
    <3>1. ASSUME NEW j \in 1..Len(b) PROVE b[j] = t[i - 1 + j]
      <4>1. j \in 1..(Len(s) - (i - 1)) /\ i - 1 + j \in 1..Len(s)
        BY <1>2
      <4> QED BY <1>1, <1>2, <4>1
    <3> QED BY <1>1, <1>2, <3>1 DEF At
  <2>3. HeaderAt(b, k)
    BY <2>1, <2>2, HeadersSame
  <2>4. k \in 1..Len(b)
    BY <1>2, <2>1
  <2>5. m <= k
    BY <1>5, <2>3, <2>4
  <2> QED BY <1>5, <2>1, <2>5
<1> QED BY <1>5, <1>6, <1>7, <1>9, <1>10 DEF b, h, m

(* The last byte of a stream, dropped down to.                              *)
LEMMA LastByte ==
  ASSUME NEW n \in Nat, NEW i \in 1..(n + 1), NEW m \in Nat, m <= 1, m = 1 \/ n + 1 - i = 0,
         m <= n + 1 - i, NEW j, j = n - m + 1
  PROVE  j \in i..(n + 1) /\ (j = n \/ i = n + 1) /\ j \in 1..(n + 1) /\ j - 1 <= n /\ j - 1 < n + 1
<1>1. CASE m = 0
  BY <1>1
<1>2. CASE m = 1
  BY <1>2
<1> QED BY <1>1, <1>2

(* ScanIsRead where no header is left.                                      *)
LEMMA ScanStops ==
  ASSUME NEW s \in Seq(Byte), NEW t, Extends(t, s), NEW i \in 1..(Len(s) + 1),
         Headers(Drop(s, i - 1)) = {}
  PROVE  Reached(s, t, i, Scanner[Drop(s, i - 1)])
<1> DEFINE b == Drop(s, i - 1)
           r == Scanner[b]
           kept == Kept(b)
           n == Len(s)
           j == n - Len(kept) + 1
<1>1. t \in Seq(Byte) /\ Len(s) <= Len(t) /\ \A k \in 1..Len(s) : t[k] = s[k]
  BY DEF Extends
<1>2. /\ b \in Seq(Byte) /\ Len(b) = n + 1 - i
      /\ \A k \in 1..(n + 1 - i) : b[k] = s[i - 1 + k]
  <2>1. i - 1 \in 0..Len(s) /\ Len(s) - (i - 1) = n + 1 - i
    OBVIOUS
  <2> QED BY <2>1, DropIs
<1>3. Headers(b) = {}
  OBVIOUS
<1>4. /\ kept \in Seq(Byte) /\ Len(kept) <= 1 /\ Len(kept) <= Len(b) /\ (Len(kept) = 1 \/ Len(b) = 0)
      /\ kept = Drop(b, Len(b) - Len(kept))
  BY <1>2, KeptIs
<1>5. r = [rest |-> kept, frames |-> <<>>]
  <2>1. r = ScanStep(Scanner, b)
    BY <1>2, ScannerIs
  <2> QED BY <1>3, <2>1 DEF ScanStep
<1> HIDE DEF r, kept
<1>6. kept = Drop(s, n - Len(kept))
  <2>1. i - 1 \in 0..n /\ Len(b) - Len(kept) \in 0..(n - (i - 1)) /\ i - 1 + (Len(b) - Len(kept)) = n - Len(kept)
    BY <1>2, <1>4
  <2>2. Drop(Drop(s, i - 1), Len(b) - Len(kept)) = Drop(s, i - 1 + (Len(b) - Len(kept)))
    BY <2>1, DropDrop
  <2>3. Drop(b, Len(b) - Len(kept)) = Drop(s, n - Len(kept))
    BY <2>1, <2>2
  <2> QED BY <1>4, <2>3
<1>7. ASSUME NEW q \in i..n, HeaderAt(s, q) PROVE FALSE
  <2>1. s[q] = HEADER[1] /\ s[q + 1] = HEADER[2] /\ q < n
    BY <1>7, HeaderIs
  <2>2. PICK k \in 1..(Len(b) - 1) : i - 1 + k = q
    <3>1. q - i + 1 \in 1..(Len(b) - 1) /\ i - 1 + (q - i + 1) = q
      BY <1>2, <2>1
    <3> QED BY <3>1
  <2>3. At(s, i, b)
    BY <1>2 DEF At
  <2>4. HeaderAt(b, k) /\ k \in 1..Len(b)
    <3>1. HeaderAt(b, k) <=> HeaderAt(s, i - 1 + k)
      BY <2>2, <2>3, HeadersSame
    <3>2. HeaderAt(b, k)
      BY <1>7, <2>2, <3>1
    <3>3. k \in 1..Len(b)
      BY <1>2, <2>2
    <3> QED BY <3>2, <3>3
  <2> QED BY <1>3, <2>4 DEF Headers
<1> HIDE DEF b
<1>8. j \in i..(n + 1) /\ (j = n \/ i = n + 1) /\ j \in 1..(n + 1) /\ j - 1 <= n /\ j - 1 < n + 1
  <2>1. n \in Nat /\ i \in 1..(n + 1) /\ Len(kept) \in Nat /\ j = n - Len(kept) + 1
    BY <1>4
  <2>2. Len(kept) <= 1 /\ (Len(kept) = 1 \/ n + 1 - i = 0) /\ Len(kept) <= n + 1 - i
    BY <1>2, <1>4
  <2>3. PICK l \in Nat, m \in Nat : l = n /\ m = Len(kept)
    BY <2>1
  <2>4. i \in 1..(l + 1) /\ m <= 1 /\ (m = 1 \/ l + 1 - i = 0) /\ m <= l + 1 - i /\ j = l - m + 1
    BY <2>1, <2>2, <2>3, Zenon
  <2> HIDE DEF n, j
  <2>5. j \in i..(l + 1) /\ (j = l \/ i = l + 1) /\ j \in 1..(l + 1) /\ j - 1 <= l /\ j - 1 < l + 1
    BY <2>4, LastByte
  <2> QED BY <2>3, <2>5, Zenon
<1>9. Waits(s, j)
  <2>1. ASSUME NEW p \in j..n, PossibleAt(s, p) PROVE FALSE
    <3>1. HeaderAt(s, p) /\ p \in i..n
      BY <1>8, <2>1 DEF PossibleAt
    <3> QED BY <1>7, <3>1
  <2> QED BY <2>1 DEF Waits, Starts
<1>10. Reading(t)[i] = Reading(t)[j]
  <2>1. ASSUME NEW q \in i..(j - 1), PossibleAt(t, q) PROVE FALSE
    <3>1. q \in i..n /\ q < n /\ q \in Nat \ {0}
      BY <1>8, <2>1
    <3>2. HeaderAt(t, q)
      BY <2>1 DEF PossibleAt
    <3>3. t[q] = HEADER[1] /\ t[q + 1] = HEADER[2]
      BY <1>1, <3>1, <3>2, HeaderIs
    <3>4. s[q] = HEADER[1] /\ s[q + 1] = HEADER[2]
      <4>1. q \in 1..Len(s) /\ q + 1 \in 1..Len(s)
        BY <3>1
      <4> QED BY <1>1, <3>3, <4>1
    <3>5. HeaderAt(s, q)
      BY <3>1, <3>4, HeaderIs
    <3> QED BY <1>7, <3>1, <3>5
  <2>2. i \in 1..(Len(t) + 1) /\ j \in i..(Len(t) + 1) /\ t \in Seq(Byte)
    BY <1>1, <1>8
  <2> HIDE DEF j
  <2> QED BY <2>1, <2>2, Skip
<1>11. t \in Seq(Byte) /\ j \in 1..(Len(t) + 1) /\ n \in Nat
  BY <1>1, <1>8
<1>12. Placed(<<>>, n) \o Reading(t)[j] = Reading(t)[j]
  BY <1>11, PlacedNone, Zenon
<1>13. r.rest = kept /\ r.frames = <<>> /\ Len(r.frames) = 0
  BY <1>5
<1>14. Len(kept) <= n + 1 - i /\ Len(kept) < MaxFrame
  BY <1>2, <1>4, LongestFrame
<1> HIDE DEF j
<1>15. Reached(s, t, i, r)
  <2>1. Reading(t)[i] = Placed(r.frames, n) \o Reading(t)[j]
    BY <1>10, <1>12, <1>13
  <2> QED BY <1>6, <1>9, <1>13, <1>14, <2>1 DEF Reached, j
<1> QED BY <1>15 DEF r, b

(* ScanIsRead where the frame at the front is incomplete.                   *)
LEMMA ScanWaits ==
  ASSUME NEW s \in Seq(Byte), NEW t, Extends(t, s), NEW i \in 1..(Len(s) + 1),
         Headers(Drop(s, i - 1)) # {}, Incomplete(AtHeader(Drop(s, i - 1)))
  PROVE  Reached(s, t, i, Scanner[Drop(s, i - 1)])
<1> DEFINE b == Drop(s, i - 1)
           h == AtHeader(b)
           p == i - 1 + Min(Headers(b))
           r == Scanner[b]
           n == Len(s)
<1>1. t \in Seq(Byte) /\ Len(s) <= Len(t)
  BY DEF Extends
<1>2. b \in Seq(Byte)
  <2>1. i - 1 \in 0..Len(s)
    OBVIOUS
  <2> QED BY <2>1, DropIs
<1>3. /\ p \in i..(n - 1) /\ h \in Seq(Byte) /\ Len(h) = n - p + 1
      /\ h = Drop(s, p - 1) /\ At(s, p, h) /\ HeaderAt(h, 1)
      /\ \A q \in i..(p - 1) : ~PossibleAt(t, q)
  BY HeaderPlace
<1>4. ~MisSynced(h) /\ ~CompleteAt(h, 1)
  BY DEF Incomplete
<1>5. r = [rest |-> h, frames |-> <<>>]
  <2>1. r = ScanStep(Scanner, b)
    BY <1>2, ScannerIs
  <2> QED BY <2>1 DEF ScanStep
<1> HIDE DEF r, h, p, b
<1>6. p \in Nat \ {0} /\ p \in 1..(n + 1) /\ Len(h) >= 2 /\ n - Len(h) + 1 = p /\ n - Len(h) = p - 1
      /\ Len(h) <= n + 1 - i
  BY <1>3
<1>7. p - 1 + Len(h) = n /\ \A k \in 1..Len(h) : h[k] = s[p - 1 + k]
  BY <1>3, <1>6 DEF At
<1>8. ~CompleteAt(s, p) /\ Len(h) < MaxFrame
  <2>1. CASE Len(h) <= V3_LENGTH_INDEX
    <3>1. ~(p + V3_LENGTH_INDEX <= n)
      BY <1>6, <1>7, <2>1, Layout
    <3> QED BY <1>3, <2>1, <3>1, LongestFrame, Layout DEF CompleteAt
  <2>2. CASE ~(Len(h) <= V3_LENGTH_INDEX)
    <3>1. 1 + V3_LENGTH_INDEX <= Len(h) /\ 1 + V3_LENGTH_INDEX \in 1..Len(h) /\ p + V3_LENGTH_INDEX <= n
          /\ p - 1 + (1 + V3_LENGTH_INDEX) = p + V3_LENGTH_INDEX
      <4>1. V3_LENGTH_INDEX \in Nat /\ Len(h) \in Nat /\ p \in Nat /\ n \in Nat
        BY <1>3, <1>6, Layout
      <4>2. Len(h) = n - p + 1 /\ ~(Len(h) <= V3_LENGTH_INDEX)
        BY <1>3, <2>2
      <4> HIDE DEF n
      <4> QED BY <4>1, <4>2
    <3>2. h[1 + V3_LENGTH_INDEX] = s[p + V3_LENGTH_INDEX]
      BY <1>7, <3>1
    <3>3. SizeAt(h, 1) = SizeAt(s, p)
      BY <3>2 DEF SizeAt
    <3>4. SizeAt(h, 1) \in Nat /\ SizeAt(h, 1) <= MaxFrame
      BY <1>3, <3>1, Sizes
    <3>5. ~(1 + SizeAt(h, 1) - 1 <= Len(h))
      BY <1>4, <3>1 DEF CompleteAt
    <3>6. Len(h) < SizeAt(h, 1) /\ Len(h) < MaxFrame
      BY <1>3, <3>4, <3>5, LongestFrame
    <3>7. ~(p + SizeAt(s, p) - 1 <= n)
      BY <1>6, <1>7, <3>3, <3>4, <3>6
    <3> QED BY <3>6, <3>7 DEF CompleteAt
  <2> QED BY <2>1, <2>2
<1>9. PossibleAt(s, p)
  <2>1. HeaderAt(s, p)
    <3>1. PICK one : one = 1 /\ one \in 1..(Len(h) - 1) /\ p - 1 + one = p
      BY <1>6
    <3> QED BY <1>3, <3>1, HeadersSame
  <2>2. ASSUME p + 2 <= Len(s) PROVE s[p + 2] >= MIN_PROTOCOL_TYPE
    <3>1. 3 \in 1..Len(h) /\ p - 1 + 3 = p + 2 /\ Len(h) >= 3
      BY <1>6, <1>7, <2>2
    <3>2. h[3] = s[p + 2]
      BY <1>7, <3>1
    <3>3. h[3] \in Nat /\ MIN_PROTOCOL_TYPE \in Nat
      BY <1>3, <3>1, BytesAreNumbers, Layout
    <3>4. ~(h[3] < MIN_PROTOCOL_TYPE)
      BY <1>4, <3>1 DEF MisSynced
    <3> QED BY <3>2, <3>3, <3>4
  <2> QED BY <1>8, <2>1, <2>2 DEF PossibleAt
<1>10. Waits(s, p)
  <2>1. p \in Starts(s, p)
    BY <1>3, <1>6, <1>9 DEF Starts
  <2>2. Min(Starts(s, p)) \in p..n /\ Min(Starts(s, p)) <= p
    BY <1>3, <1>6, <1>9, <2>1, StartsAre
  <2>3. Min(Starts(s, p)) = p
    BY <1>6, <2>2
  <2> QED BY <1>8, <2>3 DEF Waits
<1>11. Reading(t)[i] = Reading(t)[p]
  <2>1. i \in 1..(Len(t) + 1) /\ p \in i..(Len(t) + 1)
    BY <1>1, <1>3
  <2> QED BY <1>1, <1>3, <2>1, Skip
<1>12. t \in Seq(Byte) /\ p \in 1..(Len(t) + 1) /\ n \in Nat
  BY <1>1, <1>6
<1>13. Placed(<<>>, n) \o Reading(t)[p] = Reading(t)[p]
  BY <1>12, PlacedNone, Zenon
<1>14. r.rest = h /\ r.frames = <<>> /\ Len(r.frames) = 0
  BY <1>5
<1>15. Reached(s, t, i, r)
  <2>1. Reading(t)[i] = Placed(r.frames, n) \o Reading(t)[n - Len(r.rest) + 1]
    BY <1>6, <1>11, <1>13, <1>14
  <2>2. r.rest = Drop(s, n - Len(r.rest)) /\ Waits(s, n - Len(r.rest) + 1)
    BY <1>3, <1>6, <1>10, <1>14
  <2> QED BY <1>6, <1>8, <1>14, <2>1, <2>2 DEF Reached
<1> QED BY <1>15 DEF r, b

(* ScanIsRead where the header at the front is a false one.                 *)
LEMMA ScanSkips ==
  ASSUME NEW s \in Seq(Byte), NEW t, Extends(t, s), NEW i \in 1..(Len(s) + 1),
         Headers(Drop(s, i - 1)) # {}, ~Incomplete(AtHeader(Drop(s, i - 1))),
         ~PossibleAt(AtHeader(Drop(s, i - 1)), 1),
         \A k \in (i + 1)..(Len(s) + 1) : Reached(s, t, k, Scanner[Drop(s, k - 1)])
  PROVE  Reached(s, t, i, Scanner[Drop(s, i - 1)])
<1> DEFINE b == Drop(s, i - 1)
           h == AtHeader(b)
           p == i - 1 + Min(Headers(b))
           r == Scanner[b]
           n == Len(s)
           more == Scanner[Drop(s, p + 1)]
<1>1. t \in Seq(Byte) /\ Len(s) <= Len(t)
  BY DEF Extends
<1>2. b \in Seq(Byte)
  <2>1. i - 1 \in 0..Len(s)
    OBVIOUS
  <2> QED BY <2>1, DropIs
<1>3. /\ p \in i..(n - 1) /\ h \in Seq(Byte) /\ Len(h) = n - p + 1
      /\ h = Drop(s, p - 1) /\ At(s, p, h) /\ At(t, p, h) /\ HeaderAt(h, 1)
      /\ \A q \in i..(p - 1) : ~PossibleAt(t, q)
  BY HeaderPlace
<1>4. ~Incomplete(h) /\ ~PossibleAt(h, 1)
  OBVIOUS
<1>5. r = Scanner[Drop(h, 2)]
  <2>1. r = ScanStep(Scanner, b)
    BY <1>2, ScannerIs
  <2>2. Resync(h) = Drop(h, 2)
    BY <1>2, AtFalseHeader
  <2> QED BY <2>1, <2>2 DEF ScanStep
<1> HIDE DEF r, h, p, b
<1>6. p \in Nat \ {0} /\ Len(h) >= 2 /\ p + 2 \in (i + 1)..(n + 1) /\ p + 2 - 1 = p + 1
      /\ p + 1 < p + 2 /\ i <= p
  BY <1>3
<1>7. r = more
  <2>1. p - 1 \in 0..Len(s) /\ 2 \in 0..(Len(s) - (p - 1)) /\ p - 1 + 2 = p + 1
    BY <1>3, <1>6
  <2>2. Drop(Drop(s, p - 1), 2) = Drop(s, p - 1 + 2)
    BY <2>1, DropDrop
  <2> QED BY <1>3, <1>5, <2>1, <2>2
<1>8. Reached(s, t, p + 2, more)
  BY <1>6
<1>9. ~PossibleAt(t, p)
  <2>1. CASE CompleteAt(h, 1)
    BY <1>3, <1>4, <2>1, CompleteSame
  <2>2. CASE MisSynced(h)
    <3>1. 3 \in 1..Len(h) /\ h[3] < MIN_PROTOCOL_TYPE
      BY <1>3, <2>2 DEF MisSynced
    <3>2. p - 1 + 3 = p + 2 /\ p - 1 + Len(h) <= Len(t) /\ h[3] = t[p - 1 + 3]
      BY <1>3, <1>6, <3>1 DEF At
    <3>3. h[3] \in Nat /\ MIN_PROTOCOL_TYPE \in Nat
      BY <1>3, <3>1, BytesAreNumbers, Layout
    <3>4. p + 2 <= Len(t) /\ t[p + 2] = h[3]
      BY <1>1, <1>3, <1>6, <3>1, <3>2
    <3> QED BY <3>1, <3>3, <3>4 DEF PossibleAt
  <2> QED BY <1>4, <2>1, <2>2 DEF Incomplete
<1>10. ~PossibleAt(t, p + 1)
  <2>1. h[2] = HEADER[2]
    BY <1>3, HeaderAtStart
  <2>2. 2 \in 1..Len(h) /\ p - 1 + 2 = p + 1
    BY <1>3, <1>6
  <2>3. t[p + 1] = HEADER[2]
    BY <1>3, <2>1, <2>2 DEF At
  <2>4. PICK q \in Nat \ {0} : q = p + 1
    BY <1>6
  <2>5. ~HeaderAt(t, q)
    BY <1>1, <2>3, <2>4, HeaderIs, Layout
  <2> QED BY <2>4, <2>5 DEF PossibleAt
<1>11. Reading(t)[i] = Reading(t)[p + 2]
  <2>1. ASSUME NEW q \in i..(p + 2 - 1) PROVE ~PossibleAt(t, q)
    <3>1. q \in i..(p - 1) \/ q = p \/ q = p + 1
      BY <1>6
    <3> QED BY <1>3, <1>9, <1>10, <3>1
  <2>2. PICK j : j = p + 2
    OBVIOUS
  <2>3. i \in 1..(Len(t) + 1) /\ j \in i..(Len(t) + 1) /\ \A q \in i..(j - 1) : ~PossibleAt(t, q)
    BY <1>1, <1>3, <1>6, <2>1, <2>2
  <2> QED BY <1>1, <2>2, <2>3, Skip
<1>12. Reached(s, t, i, more)
  <2>1. Len(more.rest) <= n + 1 - (p + 2)
    BY <1>8 DEF Reached
  <2>2. n + 1 - (p + 2) \in Int /\ n + 1 - (p + 2) <= n + 1 - i
    BY <1>6
  <2>3. more \in Results
    <3>1. p + 1 \in 0..Len(s)
      BY <1>6
    <3> QED BY <3>1, DropIs, ScannerIs
  <2>4. Len(more.rest) \in Nat
    BY <2>3 DEF Results
  <2>5. Len(more.rest) <= n + 1 - i
    BY <2>1, <2>2, <2>4
  <2> QED BY <1>8, <1>11, <2>5 DEF Reached
<1> QED BY <1>7, <1>12 DEF r, b

(* ScanIsRead where a frame is at the front.                                *)
LEMMA ScanFinds ==
  ASSUME NEW s \in Seq(Byte), NEW t, Extends(t, s), NEW i \in 1..(Len(s) + 1),
         Headers(Drop(s, i - 1)) # {}, ~Incomplete(AtHeader(Drop(s, i - 1))),
         PossibleAt(AtHeader(Drop(s, i - 1)), 1),
         \A k \in (i + 1)..(Len(s) + 1) : Reached(s, t, k, Scanner[Drop(s, k - 1)])
  PROVE  Reached(s, t, i, Scanner[Drop(s, i - 1)])
<1> DEFINE b == Drop(s, i - 1)
           h == AtHeader(b)
           p == i - 1 + Min(Headers(b))
           r == Scanner[b]
           n == Len(s)
           size == SizeAt(h, 1)
           more == Scanner[Drop(s, p + size - 1)]
           f == FoundIn(h)
           j == n - Len(more.rest) + 1
<1>1. t \in Seq(Byte) /\ Len(s) <= Len(t)
  BY DEF Extends
<1>2. b \in Seq(Byte)
  <2>1. i - 1 \in 0..Len(s)
    OBVIOUS
  <2> QED BY <2>1, DropIs
<1>3. /\ p \in i..(n - 1) /\ h \in Seq(Byte) /\ Len(h) = n - p + 1
      /\ h = Drop(s, p - 1) /\ At(s, p, h) /\ At(t, p, h) /\ HeaderAt(h, 1)
      /\ \A q \in i..(p - 1) : ~PossibleAt(t, q)
  BY HeaderPlace
<1>4. ~Incomplete(h) /\ PossibleAt(h, 1)
  OBVIOUS
<1>5. r = Prepend(f, Scanner[Drop(h, size)])
  <2>1. r = ScanStep(Scanner, b)
    BY <1>2, ScannerIs
  <2> QED BY <2>1 DEF ScanStep
<1>6. CompleteAt(h, 1) /\ f \in Founds /\ size \in 1..Len(h)
  BY <1>2, AtFrame
<1>7. /\ CompleteAt(t, p) /\ SizeAt(t, p) = size /\ PossibleAt(t, p) /\ FrameOf(t, p) = FrameOf(h, 1)
  BY <1>3, <1>4, <1>6, CompleteSame
<1>8. f.from = Len(h) /\ f.frame = FrameOf(h, 1)
  BY DEF FoundIn
<1> HIDE DEF r, h, p, b, f, size
<1>9. p \in Nat \ {0} /\ p \in 1..Len(t) /\ p + size \in (i + 1)..(n + 1) /\ i <= p
      /\ p - 1 \in 0..n /\ size \in 0..(n - (p - 1)) /\ p - 1 + size = p + size - 1
      /\ p + size - 1 \in 0..n /\ n - Len(h) + 1 = p /\ Len(h) <= n /\ p + size \in 1..(Len(t) + 1)
  BY <1>1, <1>3, <1>6
<1>10. r = Prepend(f, more)
  <2>1. Drop(Drop(s, p - 1), size) = Drop(s, p - 1 + size)
    BY <1>9, DropDrop
  <2> QED BY <1>3, <1>5, <1>9, <2>1
<1>11. Reached(s, t, p + size, more)
  <2>1. PICK q : q = p + size
    OBVIOUS
  <2>2. q \in (i + 1)..(Len(s) + 1) /\ q - 1 = p + size - 1
    BY <1>9, <2>1
  <2>3. Reached(s, t, q, Scanner[Drop(s, q - 1)])
    BY <2>2
  <2>4. Scanner[Drop(s, q - 1)] = more
    BY <2>2
  <2> HIDE DEF more
  <2> QED BY <2>1, <2>3, <2>4
<1>12. more \in Results
  BY <1>9, DropIs, ScannerIs
<1>13. more.rest \in Seq(Byte) /\ more.frames \in Seq(Founds)
  BY <1>12 DEF Results
<1> HIDE DEF more
<1>14. /\ Len(more.rest) <= n + 1 - (p + size) /\ Len(more.rest) < MaxFrame
       /\ more.rest = Drop(s, n - Len(more.rest)) /\ Waits(s, j)
       /\ \A k \in 1..Len(more.frames) : more.frames[k].from <= n
       /\ Reading(t)[p + size] = Placed(more.frames, n) \o Reading(t)[j]
  BY <1>11 DEF Reached
<1>15. Reading(t)[i] = Reading(t)[p]
  <2>1. i \in 1..(Len(t) + 1) /\ p \in i..(Len(t) + 1)
    BY <1>1, <1>3
  <2> QED BY <1>1, <1>3, <2>1, Skip
<1>16. Reading(t)[p] = <<YieldOf(t, p)>> \o Reading(t)[p + size]
  BY <1>1, <1>7, <1>9, ReadFrame
<1>17. j \in 1..(n + 1) /\ j \in 1..(Len(t) + 1)
  <2>1. PICK m \in Nat : m = Len(more.rest)
    BY <1>13
  <2>2. m <= n + 1 - (p + size) /\ n \in Nat /\ Len(t) \in Nat /\ n <= Len(t) /\ p + size \in 1..(n + 1)
    BY <1>1, <1>9, <1>14, <2>1
  <2>3. n - m + 1 \in 1..(n + 1) /\ n - m + 1 \in 1..(Len(t) + 1)
    BY <2>2
  <2> QED BY <2>1, <2>3
<1> DEFINE y == YieldOf(t, p)
           P == Placed(more.frames, n)
           R == Reading(t)[j]
           all == <<f>> \o more.frames
<1>18. y \in Yields /\ P \in Seq(Yields) /\ R \in Seq(Yields)
  <2>1. y \in Yields
    BY <1>1, <1>7, <1>9, FramesHaveType
  <2>2. P \in Seq(Yields)
    <3>1. n \in Nat /\ \A k \in 1..Len(more.frames) : more.frames[k].from <= n
      BY <1>14
    <3> QED BY <1>13, <3>1, PlacedType
  <2>3. R \in Seq(Yields)
    BY <1>1, <1>17, ReadingIs
  <2> QED BY <2>1, <2>2, <2>3
<1>19. Placed(all, n) = <<y>> \o P
  <2>1. [at |-> n - f.from + 1, frame |-> f.frame] = y
    BY <1>7, <1>8, <1>9 DEF YieldOf
  <2>2. n \in Nat
    OBVIOUS
  <2>3. PICK z : z = more.frames
    OBVIOUS
  <2>4. f \in Founds /\ z \in Seq(Founds)
    BY <1>6, <1>13, <2>3
  <2>5. Placed(<<f>> \o z, n) = <<[at |-> n - f.from + 1, frame |-> f.frame]>> \o Placed(z, n)
    BY <2>2, <2>4, PlacedFirst
  <2> QED BY <2>1, <2>3, <2>5, Zenon
<1> HIDE DEF y, P, R
<1>20. <<y>> \o (P \o R) = (<<y>> \o P) \o R
  BY <1>18
<1>21. Reading(t)[i] = Placed(all, n) \o R
  BY <1>14, <1>15, <1>16, <1>19, <1>20 DEF y, P, R
<1>22. ASSUME NEW k \in 1..Len(all) PROVE all[k].from <= n
  <2>1. all \in Seq(Founds) /\ Len(all) = 1 + Len(more.frames) /\ all[1] = f
        /\ \A q \in 2..Len(all) : all[q] = more.frames[q - 1]
    BY <1>6, <1>13
  <2>2. CASE k = 1
    BY <1>8, <1>9, <2>1, <2>2
  <2>3. CASE k # 1
    <3>1. k \in 2..Len(all) /\ k - 1 \in 1..Len(more.frames)
      BY <2>1, <2>3
    <3> QED BY <1>14, <2>1, <3>1
  <2> QED BY <2>2, <2>3
<1>23. Len(more.rest) <= n + 1 - i
  <2>1. Len(more.rest) \in Nat
    BY <1>13
  <2> QED BY <1>9, <1>14, <2>1
<1> HIDE DEF all
<1>24. r.rest = more.rest /\ r.frames = all
  BY <1>10 DEF Prepend, all
<1>25. Reached(s, t, i, r)
  BY <1>14, <1>21, <1>22, <1>23, <1>24 DEF Reached, R
<1> QED BY <1>25 DEF r, b

(* What feed finds from a place on, followed by the reading of any          *)
(* continuation from where feed stops, is the reading from that place on.   *)
LEMMA ScanIsRead ==
  ASSUME NEW s \in Seq(Byte), NEW t, Extends(t, s), NEW i \in 1..(Len(s) + 1)
  PROVE  Reached(s, t, i, Scanner[Drop(s, i - 1)])
<1> DEFINE reached(j) == Reached(s, t, j, Scanner[Drop(s, j - 1)])
           T == {n \in Nat : \A j \in 1..(Len(s) + 1) : Len(s) + 1 - j < n => reached(j)}
<1>1. ASSUME NEW j \in 1..(Len(s) + 1), \A k \in (j + 1)..(Len(s) + 1) : reached(k)
      PROVE  reached(j)
  <2> DEFINE b == Drop(s, j - 1)
             h == AtHeader(b)
  <2>1. CASE Headers(b) = {}
    BY <2>1, ScanStops
  <2>2. CASE Headers(b) # {} /\ Incomplete(h)
    BY <2>2, ScanWaits
  <2>3. CASE Headers(b) # {} /\ ~Incomplete(h) /\ ~PossibleAt(h, 1)
    BY <1>1, <2>3, ScanSkips
  <2>4. CASE Headers(b) # {} /\ ~Incomplete(h) /\ PossibleAt(h, 1)
    BY <1>1, <2>4, ScanFinds
  <2> QED BY <2>1, <2>2, <2>3, <2>4
<1> HIDE DEF reached
<1>2. 0 \in T
  OBVIOUS
<1>3. ASSUME NEW n \in T PROVE n + 1 \in T
  <2> SUFFICES ASSUME NEW j \in 1..(Len(s) + 1), Len(s) + 1 - j < n + 1 PROVE reached(j)
    OBVIOUS
  <2>1. ASSUME NEW k \in (j + 1)..(Len(s) + 1) PROVE reached(k)
    <3>1. k \in 1..(Len(s) + 1) /\ Len(s) + 1 - k < n
      OBVIOUS
    <3> QED BY <3>1
  <2> QED BY <1>1, <2>1
<1>4. T = Nat
  <2>1. T \in SUBSET Nat
    OBVIOUS
  <2> HIDE DEF T
  <2> QED BY <1>2, <1>3, <2>1, SetInduction
<1>5. reached(i)
  <2>1. Len(s) + 1 - i + 1 \in Nat /\ Len(s) + 1 - i < Len(s) + 1 - i + 1
    OBVIOUS
  <2>2. Len(s) + 1 - i + 1 \in T
    BY <1>4, <2>1
  <2> QED BY <2>1, <2>2
<1> QED BY <1>5 DEF reached

----------------------------------------------------------------------------
(* The buffer is the end of the stream, no frame is complete in it, and the *)
(* frames returned are those that any continuation of the stream starts     *)
(* with.                                                                    *)
Bytes ==
  /\ buf \in Seq(Byte) /\ wire \in Seq(Byte) /\ stream \in Seq(Byte)
  /\ yielded \in Seq(Yields)

Unread == Len(stream) - Len(buf)

BufferInv ==
  /\ Len(buf) <= Len(stream) /\ Len(buf) < MaxFrame
  /\ buf = Drop(stream, Unread)
  /\ Waits(stream, Unread + 1)

ReadInv ==
  \A t : Extends(t, stream) => FramesIn(t) = yielded \o Reading(t)[Unread + 1]

FeedInv == Bytes /\ BufferInv /\ ReadInv

(* What a concatenation has at each place.                                  *)
LEMMA ConcatIs ==
  ASSUME NEW S, NEW a \in Seq(S), NEW c \in Seq(S), NEW e, e = a \o c
  PROVE  /\ e \in Seq(S) /\ Len(e) = Len(a) + Len(c)
         /\ \A k \in 1..Len(a) : e[k] = a[k]
         /\ \A k \in 1..Len(c) : e[Len(a) + k] = c[k]
  OBVIOUS

(* Dropping from the front and appending at the end commute.                *)
LEMMA DropAppends ==
  ASSUME NEW S, NEW s \in Seq(S), NEW c \in Seq(S), NEW n \in 0..Len(s)
  PROVE  Drop(s \o c, n) = Drop(s, n) \o c
<1>1. PICK w, d, b, e : w = s \o c /\ d = Drop(w, n) /\ b = Drop(s, n) /\ e = b \o c
  OBVIOUS
<1>2. /\ w \in Seq(S) /\ Len(w) = Len(s) + Len(c)
      /\ \A k \in 1..Len(s) : w[k] = s[k]
      /\ \A k \in 1..Len(c) : w[Len(s) + k] = c[k]
  BY <1>1, ConcatIs
<1>3. d \in Seq(S) /\ Len(d) = Len(w) - n /\ \A k \in 1..(Len(w) - n) : d[k] = w[n + k]
  <2>1. n \in 0..Len(w) /\ w \in Seq(S)
    BY <1>2
  <2>2. d = Drop(w, n)
    BY <1>1
  <2> QED BY <2>1, <2>2, DropIs
<1>4. b \in Seq(S) /\ Len(b) = Len(s) - n /\ \A k \in 1..(Len(s) - n) : b[k] = s[n + k]
  BY <1>1, DropIs
<1>5. /\ e \in Seq(S) /\ Len(e) = Len(b) + Len(c)
      /\ \A k \in 1..Len(b) : e[k] = b[k]
      /\ \A k \in 1..Len(c) : e[Len(b) + k] = c[k]
  <2>1. b \in Seq(S) /\ e = b \o c
    BY <1>1, <1>4
  <2> QED BY <2>1, ConcatIs
<1>6. Len(d) = Len(e)
  BY <1>2, <1>3, <1>4, <1>5
<1>7. ASSUME NEW k \in 1..Len(d) PROVE d[k] = e[k]
  <2>1. d[k] = w[n + k]
    BY <1>3
  <2>2. CASE k <= Len(b)
    <3>1. k \in 1..Len(b) /\ k \in 1..(Len(s) - n) /\ n + k \in 1..Len(s)
      BY <1>4, <2>2
    <3> QED BY <1>2, <1>4, <1>5, <2>1, <3>1
  <2>3. CASE ~(k <= Len(b))
    <3>1. PICK i \in 1..Len(c) : i = k - Len(b)
      <4>1. k - Len(b) \in 1..Len(c)
        BY <1>2, <1>3, <1>4, <2>3
      <4> QED BY <4>1
    <3>2. Len(b) + i = k /\ Len(s) + i = n + k
      BY <1>4, <3>1
    <3>3. w[Len(s) + i] = c[i] /\ e[Len(b) + i] = c[i]
      BY <1>2, <1>5
    <3> QED BY <2>1, <3>2, <3>3
  <2> QED BY <2>2, <2>3
<1>8. d = e
  BY <1>3, <1>5, <1>6, <1>7, SeqEqual
<1> QED BY <1>1, <1>8

(* A feed keeps BufferInv and ReadInv.                                      *)
LEMMA FeedKeeps ==
  ASSUME NEW chunk \in Seq(Byte), FeedInv, Feed(chunk), wire' \in Seq(Byte)
  PROVE  FeedInv'
<1> DEFINE s == stream'
           n == Len(s)
           i == Unread + 1
           r == Scan(buf \o chunk)
           found == r.frames
           j == Unread' + 1
<1>1. buf \in Seq(Byte) /\ stream \in Seq(Byte) /\ yielded \in Seq(Yields)
      /\ Len(buf) <= Len(stream) /\ buf = Drop(stream, Unread)
  BY DEF FeedInv, Bytes, BufferInv
<1>2. s = stream \o chunk /\ buf' = r.rest /\ yielded' = yielded \o Placed(found, n)
  BY DEF Feed, Placed
<1>3. s \in Seq(Byte) /\ n = Len(stream) + Len(chunk) /\ \A k \in 1..Len(stream) : s[k] = stream[k]
  BY <1>1, <1>2
<1> HIDE DEF s
<1>4. Unread \in 0..Len(stream) /\ i \in 1..(n + 1) /\ i - 1 = Unread /\ n \in Nat
  BY <1>1, <1>3 DEF Unread
<1>5. r = Scanner[Drop(s, i - 1)]
  <2>1. buf \o chunk = Drop(s, Unread)
    BY <1>1, <1>2, <1>4, DropAppends
  <2> QED BY <1>4, <2>1, ScannerScans
<1>6. r \in Results
  <2>1. i - 1 \in 0..Len(s)
    BY <1>4
  <2> QED BY <1>3, <1>5, <2>1, DropIs, ScannerIs
<1>7. r.rest \in Seq(Byte) /\ found \in Seq(Founds)
  BY <1>6 DEF Results
<1>8. \A t : Extends(t, s) => Reached(s, t, i, r)
  BY <1>3, <1>4, <1>5, ScanIsRead
<1> HIDE DEF r, i
<1>9. Extends(s, s)
  BY <1>3 DEF Extends
<1>10. Reached(s, s, i, r)
  BY <1>8, <1>9
<1>11. /\ Len(r.rest) <= n + 1 - i /\ Len(r.rest) < MaxFrame
       /\ r.rest = Drop(s, n - Len(r.rest)) /\ Waits(s, n - Len(r.rest) + 1)
       /\ \A k \in 1..Len(found) : found[k].from <= n
  BY <1>10 DEF Reached
<1>12. Placed(found, n) \in Seq(Yields)
  BY <1>4, <1>7, <1>11, PlacedType
<1>13. Unread' = n - Len(r.rest) /\ j = n - Len(r.rest) + 1
  BY <1>2 DEF Unread, s
<1>14. j \in 1..(n + 1) /\ Len(r.rest) <= n
  <2>1. PICK m \in Nat : m = Len(r.rest)
    BY <1>7
  <2>2. m <= n + 1 - i /\ j = n - m + 1
    BY <1>11, <1>13, <2>1
  <2> HIDE DEF n, j
  <2>3. j \in 1..(n + 1) /\ m <= n
    BY <1>4, <2>2
  <2> QED BY <2>1, <2>3
<1>15. Bytes'
  <2>1. yielded' \in Seq(Yields)
    BY <1>1, <1>2, <1>12
  <2> QED BY <1>2, <1>3, <1>7, <2>1 DEF Bytes, s
<1>16. BufferInv'
  BY <1>2, <1>11, <1>13, <1>14 DEF BufferInv, s
<1>17. ASSUME NEW t, Extends(t, s)
       PROVE  FramesIn(t) = yielded' \o Reading(t)[j]
  <2>1. t \in Seq(Byte) /\ n <= Len(t) /\ \A k \in 1..n : t[k] = s[k]
    BY <1>17 DEF Extends
  <2>2. Extends(t, stream)
    <3>1. \A k \in 1..Len(stream) : t[k] = stream[k]
      BY <1>3, <2>1
    <3>2. Len(stream) <= n
      <4>1. Len(stream) \in Nat /\ Len(chunk) \in Nat
        BY <1>1
      <4> HIDE DEF n
      <4> QED BY <1>3, <4>1
    <3>3. Len(stream) <= Len(t)
      <4>1. Len(stream) \in Nat /\ n \in Nat /\ Len(t) \in Nat
        BY <1>1, <1>4, <2>1
      <4> HIDE DEF n
      <4> QED BY <2>1, <3>2, <4>1
    <3> HIDE DEF n
    <3> QED BY <2>1, <3>1, <3>3 DEF Extends
  <2>3. FramesIn(t) = yielded \o Reading(t)[i]
    BY <2>2 DEF FeedInv, ReadInv, i
  <2>4. Reading(t)[i] = Placed(found, n) \o Reading(t)[j]
    BY <1>8, <1>13, <1>17 DEF Reached
  <2>5. Reading(t)[j] \in Seq(Yields)
    <3>1. j \in 1..(Len(t) + 1)
      BY <1>4, <1>14, <2>1
    <3> QED BY <2>1, <3>1, ReadingIs
  <2> DEFINE P == Placed(found, n)
             R == Reading(t)[j]
  <2>6. yielded \o (P \o R) = (yielded \o P) \o R
    <3>1. P \in Seq(Yields) /\ R \in Seq(Yields)
      BY <1>12, <2>5
    <3> HIDE DEF P, R
    <3> QED BY <1>1, <3>1
  <2> QED BY <1>2, <2>3, <2>4, <2>6
<1>18. ReadInv'
  BY <1>17 DEF ReadInv, s
<1> QED BY <1>15, <1>16, <1>18 DEF FeedInv

----------------------------------------------------------------------------
(* The frames of the lock.                                                  *)
Sends == [at : Nat \ {0}, data : Payloads]

End(f) == f.at + SizeOf(f.data)

(* The bytes of frame f are in the stream.                                  *)
Built(w, f) ==
  \E crc \in Crcs : \A k \in 1..SizeOf(f.data) : w[f.at - 1 + k] = Build(f.data, crc)[k]

Joins(a, c, e) ==
  /\ e \in Seq(Byte) /\ Len(e) = Len(a) + Len(c)
  /\ \A k \in 1..Len(a) : e[k] = a[k]
  /\ \A k \in 1..Len(c) : e[Len(a) + k] = c[k]

(* A concatenation joins its two halves.                                    *)
LEMMA JoinIs ==
  ASSUME NEW a \in Seq(Byte), NEW c \in Seq(Byte), NEW e, e = a \o c
  PROVE  Joins(a, c, e)
  BY DEF Joins

(* Every byte of a frame that the lock builds.                              *)
LEMMA BuildIs ==
  ASSUME NEW data \in Payloads, NEW crc \in Crcs, NEW w, w = Build(data, crc)
  PROVE  /\ w \in Seq(Byte) /\ Len(w) = SizeOf(data) /\ SizeOf(data) = V3_HEADER_LEN + Len(data) + 3
         /\ w[1] = HEADER[1] /\ w[2] = HEADER[2] /\ w[3] = PROTOCOL
         /\ w[V3_HEADER_LEN] = Len(data)
         /\ \A k \in 1..Len(data) : w[V3_HEADER_LEN + k] = data[k]
         /\ w[SizeOf(data) - 1] = TRAILER[1] /\ w[SizeOf(data)] = TRAILER[2]
<1> DEFINE V3 == V3_HEADER_LEN
<1>1. /\ data \in Seq(Byte) /\ Len(data) < BYTE /\ crc \in Byte /\ PROTOCOL \in Byte
      /\ V3_LENGTH_INDEX \in Nat /\ V3_LENGTH_INDEX > 2 /\ V3 = V3_LENGTH_INDEX + 1
  BY LayoutAssumption
<1>2. 0 \in Byte /\ Len(data) \in Byte /\ Len(data) \in Nat
  <2>1. Len(data) \in Nat /\ BYTE \in Nat
    BY <1>1, LayoutAssumption
  <2> QED BY <1>1, <2>1 DEF Byte
<1>3. PICK c, z, l, x : /\ c = <<PROTOCOL>> /\ z = [i \in 1..(V3_LENGTH_INDEX - 3) |-> 0]
                        /\ l = <<Len(data)>> /\ x = <<crc>>
  OBVIOUS
<1>4. c \in Seq(Byte) /\ Len(c) = 1 /\ c[1] = PROTOCOL
  BY <1>1, <1>3
<1>5. z \in Seq(Byte) /\ Len(z) = V3_LENGTH_INDEX - 3
  BY <1>1, <1>2, <1>3
<1>6. l \in Seq(Byte) /\ Len(l) = 1 /\ l[1] = Len(data)
  BY <1>2, <1>3
<1>7. x \in Seq(Byte) /\ Len(x) = 1
  BY <1>1, <1>3
<1>8. PICK a1, a2, a3, a4, a5 :
        /\ a1 = HEADER \o c /\ a2 = a1 \o z /\ a3 = a2 \o l /\ a4 = a3 \o data /\ a5 = a4 \o x
  OBVIOUS
<1>9. w = a5 \o TRAILER
  BY <1>3, <1>8 DEF Build
<1>10. a1 \in Seq(Byte) /\ Len(a1) = 3 /\ a1[1] = HEADER[1] /\ a1[2] = HEADER[2] /\ a1[3] = PROTOCOL
  <2>1. HEADER \in Seq(Byte) /\ Len(HEADER) = 2 /\ a1 = HEADER \o c
    BY <1>8, Layout
  <2>2. /\ a1 \in Seq(Byte) /\ Len(a1) = Len(HEADER) + Len(c)
        /\ \A k \in 1..Len(HEADER) : a1[k] = HEADER[k]
        /\ \A k \in 1..Len(c) : a1[Len(HEADER) + k] = c[k]
    <3>1. HEADER \in Seq(Byte) /\ c \in Seq(Byte) /\ a1 = HEADER \o c
      BY <1>4, <2>1
    <3>2. Joins(HEADER, c, a1)
      BY <3>1, JoinIs, Zenon
    <3> QED BY <3>2 DEF Joins
  <2>3. 1 \in 1..Len(HEADER) /\ 2 \in 1..Len(HEADER) /\ 1 \in 1..Len(c) /\ Len(HEADER) + 1 = 3
    BY <1>4, <2>1
  <2>4. a1[Len(HEADER) + 1] = c[1]
    BY <2>2, <2>3
  <2> QED BY <1>4, <2>1, <2>2, <2>3, <2>4
<1>11. /\ a2 \in Seq(Byte) /\ Len(a2) = V3_LENGTH_INDEX
       /\ \A k \in 1..3 : a2[k] = a1[k]
  <2>1. a2 = a1 \o z
    BY <1>8
  <2>2. /\ a2 \in Seq(Byte) /\ Len(a2) = Len(a1) + Len(z)
        /\ \A k \in 1..Len(a1) : a2[k] = a1[k]
    <3>1. a1 \in Seq(Byte) /\ z \in Seq(Byte) /\ a2 = a1 \o z
      BY <1>5, <1>10, <2>1
    <3>2. Joins(a1, z, a2)
      BY <3>1, JoinIs, Zenon
    <3> QED BY <3>2 DEF Joins
  <2> QED BY <1>1, <1>5, <1>10, <2>2
<1>12. /\ a3 \in Seq(Byte) /\ Len(a3) = V3
       /\ \A k \in 1..3 : a3[k] = a1[k]
       /\ a3[V3] = Len(data)
  <2>1. a3 = a2 \o l
    BY <1>8
  <2>2. /\ a3 \in Seq(Byte) /\ Len(a3) = Len(a2) + Len(l)
        /\ \A k \in 1..Len(a2) : a3[k] = a2[k]
        /\ \A k \in 1..Len(l) : a3[Len(a2) + k] = l[k]
    <3>1. a2 \in Seq(Byte) /\ l \in Seq(Byte) /\ a3 = a2 \o l
      BY <1>6, <1>11, <2>1
    <3>2. Joins(a2, l, a3)
      BY <3>1, JoinIs, Zenon
    <3> QED BY <3>2 DEF Joins
  <2>3. Len(a2) + 1 = V3 /\ 1 \in 1..Len(l)
    BY <1>1, <1>6, <1>11
  <2>4. a3[Len(a2) + 1] = l[1]
    BY <2>2, <2>3
  <2>5. \A k \in 1..3 : a3[k] = a1[k]
    BY <1>1, <1>11, <2>2
  <2> QED BY <1>6, <2>2, <2>3, <2>4, <2>5, <1>11
<1>13. /\ a4 \in Seq(Byte) /\ Len(a4) = V3 + Len(data)
       /\ \A k \in 1..V3 : a4[k] = a3[k]
       /\ \A k \in 1..Len(data) : a4[V3 + k] = data[k]
  <2>1. a4 = a3 \o data
    BY <1>8
  <2>2. /\ a4 \in Seq(Byte) /\ Len(a4) = Len(a3) + Len(data)
        /\ \A k \in 1..Len(a3) : a4[k] = a3[k]
        /\ \A k \in 1..Len(data) : a4[Len(a3) + k] = data[k]
    <3>1. a3 \in Seq(Byte) /\ data \in Seq(Byte) /\ a4 = a3 \o data
      BY <1>1, <1>12, <2>1
    <3>2. Joins(a3, data, a4)
      BY <3>1, JoinIs, Zenon
    <3> QED BY <3>2 DEF Joins
  <2> QED BY <1>12, <2>2
<1>14. /\ a5 \in Seq(Byte) /\ Len(a5) = V3 + Len(data) + 1
       /\ \A k \in 1..Len(a4) : a5[k] = a4[k]
  <2>1. a5 = a4 \o x
    BY <1>8
  <2>2. /\ a5 \in Seq(Byte) /\ Len(a5) = Len(a4) + Len(x)
        /\ \A k \in 1..Len(a4) : a5[k] = a4[k]
    <3>1. a4 \in Seq(Byte) /\ x \in Seq(Byte) /\ a5 = a4 \o x
      BY <1>7, <1>13, <2>1
    <3>2. Joins(a4, x, a5)
      BY <3>1, JoinIs, Zenon
    <3> QED BY <3>2 DEF Joins
  <2> QED BY <1>7, <1>13, <2>2
<1>15. /\ w \in Seq(Byte) /\ Len(w) = V3 + Len(data) + 3
       /\ \A k \in 1..Len(a5) : w[k] = a5[k]
       /\ w[V3 + Len(data) + 2] = TRAILER[1] /\ w[V3 + Len(data) + 3] = TRAILER[2]
  <2>1. TRAILER \in Seq(Byte) /\ Len(TRAILER) = 2
    BY Layout
  <2>2. /\ w \in Seq(Byte) /\ Len(w) = Len(a5) + Len(TRAILER)
        /\ \A k \in 1..Len(a5) : w[k] = a5[k]
        /\ \A k \in 1..Len(TRAILER) : w[Len(a5) + k] = TRAILER[k]
    <3>1. a5 \in Seq(Byte) /\ TRAILER \in Seq(Byte) /\ w = a5 \o TRAILER
      BY <1>9, <1>14, <2>1
    <3>2. Joins(a5, TRAILER, w)
      BY <3>1, JoinIs, Zenon
    <3> QED BY <3>2 DEF Joins
  <2>3. Len(a5) + 1 = V3 + Len(data) + 2 /\ Len(a5) + 2 = V3 + Len(data) + 3
        /\ Len(a5) + Len(TRAILER) = V3 + Len(data) + 3
    BY <1>1, <1>2, <1>14, <2>1
  <2>4. w[Len(a5) + 1] = TRAILER[1] /\ w[Len(a5) + 2] = TRAILER[2]
    BY <2>1, <2>2
  <2> QED BY <2>2, <2>3, <2>4
<1>16. ASSUME NEW k \in 1..V3 PROVE w[k] = a3[k]
  <2>1. k \in 1..Len(a4) /\ k \in 1..Len(a5)
    BY <1>1, <1>2, <1>13, <1>14
  <2> QED BY <1>13, <1>14, <1>15, <2>1
<1>17. ASSUME NEW k \in 1..Len(data) PROVE w[V3 + k] = data[k]
  <2>1. V3 + k \in 1..Len(a4) /\ V3 + k \in 1..Len(a5)
    BY <1>1, <1>2, <1>13, <1>14
  <2> QED BY <1>13, <1>14, <1>15, <2>1
<1>18. w[1] = HEADER[1] /\ w[2] = HEADER[2] /\ w[3] = PROTOCOL /\ w[V3] = Len(data)
  <2>1. V3 \in 1..V3 /\ 1 \in 1..V3 /\ 2 \in 1..V3 /\ 3 \in 1..V3
    BY <1>1
  <2> QED BY <1>10, <1>12, <1>16, <2>1
<1>19. SizeOf(data) = V3 + Len(data) + 3
  BY <1>1, <1>2, Layout DEF SizeOf
<1>20. SizeOf(data) - 1 = V3 + Len(data) + 2
  BY <1>1, <1>2, <1>19
<1> QED BY <1>15, <1>17, <1>18, <1>19, <1>20

(* Where the lock has written a frame one is read.                          *)
LEMMA FrameThere ==
  ASSUME NEW s \in Seq(Byte), NEW f \in Sends, End(f) - 1 <= Len(s), Built(s, f)
  PROVE  /\ f.at \in 1..Len(s) /\ PossibleAt(s, f.at) /\ CompleteAt(s, f.at)
         /\ SizeAt(s, f.at) = SizeOf(f.data) /\ SizeOf(f.data) \in Nat
         /\ YieldOf(s, f.at).at = f.at /\ YieldOf(s, f.at).frame.data = f.data
<1>1. PICK p, data : p = f.at /\ data = f.data /\ p \in Nat \ {0} /\ data \in Payloads
  BY DEF Sends
<1>0. PICK crc \in Crcs : \E w : w = Build(data, crc) /\ \A k \in 1..SizeOf(data) : s[p - 1 + k] = w[k]
  BY <1>1 DEF Built
<1>2. PICK w : w = Build(data, crc) /\ \A k \in 1..SizeOf(data) : s[p - 1 + k] = w[k]
  BY <1>0
<1>3. PICK size, V3 : size = SizeOf(data) /\ V3 = V3_HEADER_LEN
  OBVIOUS
<1>4. /\ w \in Seq(Byte) /\ Len(w) = size /\ size = V3 + Len(data) + 3
      /\ w[1] = HEADER[1] /\ w[2] = HEADER[2] /\ w[3] = PROTOCOL
      /\ w[V3] = Len(data)
      /\ \A k \in 1..Len(data) : w[V3 + k] = data[k]
      /\ w[size - 1] = TRAILER[1] /\ w[size] = TRAILER[2]
  <2>1. data \in Payloads /\ w = Build(data, crc)
    BY <1>1, <1>2
  <2>2. /\ w \in Seq(Byte) /\ Len(w) = SizeOf(data) /\ SizeOf(data) = V3_HEADER_LEN + Len(data) + 3
        /\ w[1] = HEADER[1] /\ w[2] = HEADER[2] /\ w[3] = PROTOCOL
        /\ w[V3_HEADER_LEN] = Len(data)
        /\ \A k \in 1..Len(data) : w[V3_HEADER_LEN + k] = data[k]
        /\ w[SizeOf(data) - 1] = TRAILER[1] /\ w[SizeOf(data)] = TRAILER[2]
    BY <2>1, BuildIs
  <2> QED BY <1>3, <2>2
<1>5. data \in Seq(Byte) /\ Len(data) \in Nat /\ V3 \in Nat /\ V3 > 3 /\ V3 = V3_LENGTH_INDEX + 1
      /\ V3_LENGTH_INDEX \in Nat /\ PROTOCOL \in Nat /\ MIN_PROTOCOL_TYPE \in Nat /\ PROTOCOL >= MIN_PROTOCOL_TYPE
  BY <1>1, <1>3, LayoutAssumption DEF Byte
<1>6. size \in Nat /\ size > 6 /\ p - 1 + size <= Len(s) /\ p + size - 1 <= Len(s)
  <2>1. size = V3 + Len(data) + 3 /\ V3 \in Nat /\ V3 > 3 /\ Len(data) \in Nat /\ p \in Nat
    BY <1>1, <1>4, <1>5
  <2>2. size \in Nat /\ size > 6
    BY <2>1
  <2>3. p + size - 1 <= Len(s) /\ Len(s) \in Nat
    <3>1. End(f) = p + size
      BY <1>1, <1>3, Zenon DEF End
    <3>2. End(f) \in Int
      BY <2>1, <2>2, <3>1
    <3> QED BY <2>1, <2>2, <3>1, <3>2
  <2> QED BY <2>1, <2>2, <2>3
<1>7. \A k \in 1..size : s[p - 1 + k] = w[k]
  BY <1>2, <1>3
<1>8. s[p] = HEADER[1] /\ s[p + 1] = HEADER[2] /\ s[p + 2] = PROTOCOL
  <2>1. 1 \in 1..size /\ 2 \in 1..size /\ 3 \in 1..size /\ p - 1 + 1 = p /\ p - 1 + 2 = p + 1 /\ p - 1 + 3 = p + 2
    BY <1>1, <1>6
  <2> QED BY <1>4, <1>7, <2>1
<1>9. s[p + V3_LENGTH_INDEX] = Len(data) /\ p + V3_LENGTH_INDEX <= Len(s)
  <2>1. size = V3 + Len(data) + 3 /\ V3 \in Nat /\ V3 > 3 /\ Len(data) \in Nat /\ p \in Nat
        /\ V3 = V3_LENGTH_INDEX + 1 /\ V3_LENGTH_INDEX \in Nat /\ p + size - 1 <= Len(s) /\ Len(s) \in Nat
    <3>1. size = V3 + Len(data) + 3 /\ p \in Nat
      BY <1>1, <1>4
    <3>2. p + size - 1 <= Len(s) /\ Len(s) \in Nat
      BY <1>6
    <3>3. V3 \in Nat /\ V3 > 3 /\ Len(data) \in Nat /\ V3 = V3_LENGTH_INDEX + 1 /\ V3_LENGTH_INDEX \in Nat
      BY <1>5
    <3> QED BY <3>1, <3>2, <3>3
  <2>2. V3 \in 1..size /\ p - 1 + V3 = p + V3_LENGTH_INDEX /\ p + V3_LENGTH_INDEX <= Len(s)
    BY <2>1
  <2> QED BY <1>4, <1>7, <2>2
<1>10. SizeAt(s, p) = size /\ CompleteAt(s, p)
  <2>1. SizeAt(s, p) = size
    BY <1>1, <1>3, <1>4, <1>9, Sizes
  <2> QED BY <1>6, <1>9, <2>1 DEF CompleteAt
<1>11. HeaderAt(s, p)
  <2>1. p < Len(s)
    BY <1>1, <1>6
  <2> QED BY <1>1, <1>8, <2>1, HeaderIs
<1>12. \A k \in 1..2 : s[p + size - 3 + k] = TRAILER[k]
  <2>1. size - 1 \in 1..size /\ size \in 1..size /\ p - 1 + (size - 1) = p + size - 3 + 1 /\ p - 1 + size = p + size - 3 + 2
    <3>1. PICK z : z = size
      OBVIOUS
    <3>2. z \in Nat /\ z > 6 /\ p \in Nat
      BY <1>1, <1>6, <3>1
    <3>3. z - 1 \in 1..z /\ z \in 1..z
      BY <3>2
    <3>4. p - 1 + (z - 1) = p + z - 3 + 1 /\ p - 1 + z = p + z - 3 + 2
      BY <3>2
    <3> QED BY <3>1, <3>3, <3>4, Zenon
  <2>2. s[p + size - 3 + 1] = TRAILER[1] /\ s[p + size - 3 + 2] = TRAILER[2]
    BY <1>4, <1>7, <2>1
  <2> QED BY <2>2
<1>13. PossibleAt(s, p)
  BY <1>5, <1>8, <1>10, <1>11, <1>12 DEF PossibleAt
<1>14. FrameOf(s, p).data = data
  <2>1. ASSUME NEW k \in 1..Len(data) PROVE s[p + V3_HEADER_LEN + k - 1] = data[k]
    <3>1. V3 + k \in 1..size /\ p - 1 + (V3 + k) = p + V3 + k - 1
      <4>1. size = V3 + Len(data) + 3 /\ V3 \in Nat /\ Len(data) \in Nat /\ p \in Nat
        BY <1>1, <1>4, <1>5
      <4> QED BY <4>1
    <3> QED BY <1>3, <1>4, <1>7, <3>1
  <2>2. FrameOf(s, p).data = [k \in 1..Len(data) |-> s[p + V3_HEADER_LEN + k - 1]]
    BY <1>9 DEF FrameOf
  <2>3. FrameOf(s, p).data = [k \in 1..Len(data) |-> data[k]]
    BY <2>1, <2>2
  <2>4. data = [k \in 1..Len(data) |-> data[k]]
    BY <1>5
  <2> QED BY <2>3, <2>4
<1>15. p \in 1..Len(s)
  BY <1>1, <1>6
<1> QED BY <1>1, <1>3, <1>6, <1>10, <1>13, <1>14, <1>15 DEF YieldOf

Said == stream \o wire

SaidInv ==
  /\ sent \subseteq Sends /\ noises \in Nat /\ drops \in Nat
  /\ \A f \in sent : End(f) - 1 <= Len(Said) /\ Built(Said, f)

(* Without noise and drops the stream is frames, one after the other.       *)
Boundary(a) == a = 1 \/ \E f \in sent : a = End(f)

Apart(f, g) == f = g \/ End(f) <= g.at \/ End(g) <= f.at

Tiled ==
  /\ \A f, g \in sent : Apart(f, g)
  /\ \A a : Boundary(a) => a = Len(Said) + 1 \/ \E g \in sent : g.at = a

TileInv == noises = 0 /\ drops = 0 => Tiled

(* A frame of the lock has the size its length byte declares.               *)
LEMMA SendSizes ==
  ASSUME NEW f \in Sends
  PROVE  /\ f.data \in Payloads /\ f.at \in Nat /\ f.at >= 1 /\ SizeOf(f.data) \in Nat
         /\ SizeOf(f.data) > 6 /\ SizeOf(f.data) <= MaxFrame
         /\ End(f) = f.at + SizeOf(f.data) /\ End(f) \in Nat /\ End(f) > f.at + 6
<1>1. f.data \in Payloads /\ f.at \in Nat /\ f.at >= 1
  BY DEF Sends
<1>2. Len(f.data) \in Nat /\ Len(f.data) < BYTE /\ BYTE \in Nat
  BY <1>1, LayoutAssumption
<1>3. SizeOf(f.data) = V3_HEADER_LEN + Len(f.data) + 3 /\ V3_HEADER_LEN \in Nat /\ V3_HEADER_LEN > 3
  BY <1>2, Layout DEF SizeOf
<1>4. MaxFrame = V3_HEADER_LEN + (BYTE - 1) + 3
  BY <1>2, Layout DEF MaxFrame
<1>5. SizeOf(f.data) \in Nat /\ SizeOf(f.data) > 6 /\ SizeOf(f.data) <= MaxFrame
  BY <1>2, <1>3, <1>4
<1> QED BY <1>1, <1>5 DEF End

(* A frame of the lock stays where the bytes before its end stay.           *)
LEMMA BuiltStays ==
  ASSUME NEW v, NEW w, NEW f \in Sends, Built(v, f), \A k \in 1..(End(f) - 1) : w[k] = v[k]
  PROVE  Built(w, f)
<1>1. f.at \in Nat /\ f.at >= 1 /\ SizeOf(f.data) \in Nat /\ End(f) = f.at + SizeOf(f.data)
  BY SendSizes
<1>2. PICK crc \in Crcs : \A k \in 1..SizeOf(f.data) : v[f.at - 1 + k] = Build(f.data, crc)[k]
  BY DEF Built
<1>3. ASSUME NEW k \in 1..SizeOf(f.data) PROVE w[f.at - 1 + k] = Build(f.data, crc)[k]
  <2>1. f.at - 1 + k \in 1..(End(f) - 1)
    BY <1>1
  <2> QED BY <1>2, <2>1
<1> QED BY <1>3 DEF Built

(* LockSends keeps SaidInv and TileInv.                                     *)
LEMMA SendKeeps ==
  ASSUME Bytes, SaidInv, TileInv, NEW data \in Payloads, NEW crc \in Crcs, LockSends(data, crc)
  PROVE  wire' \in Seq(Byte) /\ SaidInv' /\ TileInv'
<1> DEFINE new == [at |-> Len(stream) + 1, data |-> data]
<1>1. /\ wire = <<>> /\ sent' = sent \cup {new} /\ stream' = stream
      /\ noises' = noises /\ drops' = drops
  BY DEF LockSends
<1>2. PICK w : w = Build(data, crc) /\ wire' = w
  BY DEF LockSends
<1>3. w \in Seq(Byte) /\ Len(w) = SizeOf(data)
  BY <1>2, BuildIs
<1>4. stream \in Seq(Byte) /\ Len(stream) \in Nat
  BY DEF Bytes
<1>5. Said = stream
  BY <1>1, <1>4 DEF Said
<1>6. PICK v : v = Said' /\ v = stream \o w
  BY <1>1, <1>2 DEF Said
<1>7. /\ Len(v) = Len(stream) + Len(w)
      /\ \A k \in 1..Len(stream) : v[k] = stream[k]
      /\ \A k \in 1..Len(w) : v[Len(stream) + k] = w[k]
  <2>1. w \in Seq(Byte) /\ v = stream \o w /\ stream \in Seq(Byte)
    BY <1>3, <1>4, <1>6
  <2>2. Joins(stream, w, v)
    BY <2>1, JoinIs, Zenon
  <2> QED BY <2>2 DEF Joins
<1>8. new \in Sends /\ new.at = Len(stream) + 1 /\ new.data = data
  BY <1>4 DEF Sends
<1> HIDE DEF new
<1>9. End(new) = Len(v) + 1 /\ Len(v) \in Nat
  BY <1>3, <1>4, <1>7, <1>8, SendSizes
<1>10. Built(v, new)
  <2>1. ASSUME NEW k \in 1..SizeOf(new.data) PROVE v[new.at - 1 + k] = Build(new.data, crc)[k]
    <3>1. new.at - 1 + k = Len(stream) + k /\ k \in 1..Len(w)
      BY <1>3, <1>4, <1>8
    <3> QED BY <1>2, <1>7, <1>8, <3>1
  <2> QED BY <2>1 DEF Built
<1>11. ASSUME NEW f \in sent
       PROVE  /\ f \in Sends /\ End(f) \in Nat /\ End(f) <= Len(stream) + 1 /\ End(f) <= Len(v) + 1
              /\ Built(v, f)
  <2>1. f \in Sends /\ End(f) - 1 <= Len(stream) /\ Built(stream, f)
    BY <1>5 DEF SaidInv
  <2>2. End(f) \in Nat
    BY <2>1, SendSizes
  <2>3. \A k \in 1..(End(f) - 1) : v[k] = stream[k]
    BY <1>4, <1>7, <2>1, <2>2
  <2>4. Built(v, f)
    BY <2>1, <2>3, BuiltStays
  <2> QED BY <1>3, <1>4, <1>7, <2>1, <2>2, <2>4
<1>12. SaidInv'
  <2>1. sent' \subseteq Sends /\ noises' \in Nat /\ drops' \in Nat
    BY <1>1, <1>8 DEF SaidInv
  <2>2. ASSUME NEW f \in sent' PROVE End(f) - 1 <= Len(v) /\ Built(v, f)
    <3>1. CASE f = new
      BY <1>9, <1>10, <3>1
    <3>2. CASE f \in sent
      BY <1>9, <1>11, <3>2
    <3> QED BY <1>1, <3>1, <3>2
  <2> QED BY <1>6, <2>1, <2>2 DEF SaidInv
<1>13. TileInv'
  <2> SUFFICES ASSUME noises = 0, drops = 0 PROVE Tiled'
    BY <1>1 DEF TileInv
  <2>1. /\ \A f, g \in sent : Apart(f, g)
        /\ \A a : Boundary(a) => a = Len(stream) + 1 \/ \E g \in sent : g.at = a
    BY <1>5 DEF TileInv, Tiled
  <2>2. ASSUME NEW f \in sent', NEW g \in sent' PROVE Apart(f, g)
    <3>1. CASE f \in sent /\ g \in sent
      BY <2>1, <3>1
    <3>2. CASE f \in sent /\ g = new
      <4>1. End(f) <= g.at
        BY <1>8, <1>11, <3>2
      <4> QED BY <4>1 DEF Apart
    <3>3. CASE f = new /\ g \in sent
      <4>1. End(g) <= f.at
        BY <1>8, <1>11, <3>3
      <4> QED BY <4>1 DEF Apart
    <3>4. CASE f = new /\ g = new
      BY <3>4 DEF Apart
    <3> QED BY <1>1, <3>1, <3>2, <3>3, <3>4
  <2>3. ASSUME NEW a, Boundary(a)' PROVE a = Len(v) + 1 \/ \E g \in sent' : g.at = a
    <3>1. a = 1 \/ \E f \in sent' : a = End(f)
      BY <2>3 DEF Boundary
    <3>2. CASE a = End(new)
      BY <1>9, <3>2
    <3>3. CASE a = 1 \/ \E f \in sent : a = End(f)
      <4>1. Boundary(a)
        BY <3>3 DEF Boundary
      <4>2. a = new.at \/ \E g \in sent : g.at = a
        BY <1>8, <2>1, <4>1
      <4> QED BY <1>1, <4>2
    <3> QED BY <1>1, <3>1, <3>2, <3>3
  <2> QED BY <1>6, <2>2, <2>3 DEF Tiled
<1> QED BY <1>2, <1>3, <1>12, <1>13

(* NoiseComes keeps SaidInv and TileInv.                                    *)
LEMMA NoiseKeeps ==
  ASSUME Bytes, SaidInv, TileInv, NEW junk \in Noise, NoiseComes(junk)
  PROVE  wire' \in Seq(Byte) /\ SaidInv' /\ TileInv'
<1>1. /\ wire = <<>> /\ sent' = sent /\ stream' = stream /\ wire' = junk
      /\ noises' = noises + 1 /\ drops' = drops
  BY DEF NoiseComes
<1>2. junk \in Seq(Byte) /\ stream \in Seq(Byte)
  BY LayoutAssumption DEF Bytes
<1>3. Said = stream
  BY <1>1, <1>2 DEF Said
<1>4. PICK v : v = Said' /\ v = stream \o junk
  BY <1>1 DEF Said
<1>5. /\ Len(v) = Len(stream) + Len(junk)
      /\ \A k \in 1..Len(stream) : v[k] = stream[k]
  BY <1>2, <1>4, JoinIs DEF Joins
<1>6. ASSUME NEW f \in sent PROVE End(f) - 1 <= Len(v) /\ Built(v, f)
  <2>1. f \in Sends /\ End(f) - 1 <= Len(stream) /\ Built(stream, f)
    BY <1>3 DEF SaidInv
  <2>2. End(f) \in Nat
    BY <2>1, SendSizes
  <2>3. \A k \in 1..(End(f) - 1) : v[k] = stream[k]
    BY <1>2, <1>5, <2>1, <2>2
  <2>4. Built(v, f)
    BY <2>1, <2>3, BuiltStays
  <2> QED BY <1>2, <1>5, <2>1, <2>2, <2>4
<1>7. SaidInv'
  BY <1>1, <1>4, <1>6 DEF SaidInv
<1>8. TileInv'
  <2>1. noises' # 0
    BY <1>1 DEF SaidInv
  <2> QED BY <2>1 DEF TileInv
<1> QED BY <1>1, <1>2, <1>7, <1>8

(* LinkDrops keeps SaidInv and TileInv.                                     *)
LEMMA DropsKeep ==
  ASSUME Bytes, SaidInv, LinkDrops
  PROVE  wire' \in Seq(Byte) /\ SaidInv' /\ TileInv'
<1>1. /\ sent' = {f \in sent : f.at + SizeOf(f.data) - 1 <= Len(stream)}
      /\ stream' = stream /\ wire' = <<>> /\ noises' = noises /\ drops' = drops + 1
  BY DEF LinkDrops
<1>2. stream \in Seq(Byte) /\ wire \in Seq(Byte) /\ wire' \in Seq(Byte)
  BY <1>1 DEF Bytes
<1>3. Said' = stream
  BY <1>1, <1>2 DEF Said
<1>4. \A k \in 1..Len(stream) : Said[k] = stream[k]
  BY <1>2, JoinIs DEF Joins, Said
<1>5. ASSUME NEW f \in sent' PROVE End(f) - 1 <= Len(stream) /\ Built(stream, f)
  <2>1. f \in Sends /\ Built(Said, f) /\ f \in sent
    BY <1>1 DEF SaidInv
  <2>2. End(f) - 1 <= Len(stream)
    <3>1. f.at + SizeOf(f.data) - 1 <= Len(stream)
      BY <1>1
    <3>2. /\ f.at \in Nat /\ SizeOf(f.data) \in Nat /\ End(f) = f.at + SizeOf(f.data)
          /\ End(f) \in Nat
      BY <2>1, SendSizes
    <3>3. f.at + SizeOf(f.data) - 1 = End(f) - 1
      BY <3>2
    <3> QED BY <3>1, <3>3, Zenon
  <2>3. End(f) \in Nat
    BY <2>1, SendSizes
  <2>4. \A k \in 1..(End(f) - 1) : stream[k] = Said[k]
    BY <1>2, <1>4, <2>2, <2>3
  <2> QED BY <2>1, <2>2, <2>4, BuiltStays
<1>6. SaidInv'
  BY <1>1, <1>3, <1>5 DEF SaidInv
<1>7. TileInv'
  <2>1. drops' # 0
    BY <1>1 DEF SaidInv
  <2> QED BY <2>1 DEF TileInv
<1> QED BY <1>2, <1>6, <1>7

(* Notify keeps SaidInv and TileInv.                                        *)
LEMMA NotifyKeeps ==
  ASSUME Bytes, SaidInv, TileInv, NEW n \in ChunkSizes, Notify(n)
  PROVE  /\ SubSeq(wire, 1, n) \in Seq(Byte) /\ wire' \in Seq(Byte) /\ SaidInv' /\ TileInv'
<1>1. /\ n <= Len(wire) /\ stream' = stream \o SubSeq(wire, 1, n) /\ wire' = Drop(wire, n)
      /\ sent' = sent /\ noises' = noises /\ drops' = drops
  BY DEF Notify, Feed
<1>2. stream \in Seq(Byte) /\ wire \in Seq(Byte) /\ n \in Nat
  BY LayoutAssumption DEF Bytes
<1>3. PICK c, d : c = SubSeq(wire, 1, n) /\ d = Drop(wire, n)
  OBVIOUS
<1>4. /\ c \in Seq(Byte) /\ Len(c) = n
      /\ \A k \in 1..n : c[k] = wire[k]
  BY <1>1, <1>2, <1>3
<1>5. /\ d \in Seq(Byte) /\ Len(d) = Len(wire) - n
      /\ \A k \in 1..(Len(wire) - n) : d[k] = wire[n + k]
  <2>1. n \in 0..Len(wire) /\ d = Drop(wire, n)
    BY <1>1, <1>2, <1>3
  <2> QED BY <1>2, <2>1, DropIs
<1>6. c \o d = wire
  <2>1. PICK e : e = c \o d
    OBVIOUS
  <2>2. /\ e \in Seq(Byte) /\ Len(e) = n + Len(d)
        /\ \A k \in 1..n : e[k] = c[k]
        /\ \A k \in 1..Len(d) : e[n + k] = d[k]
    <3>1. c \in Seq(Byte) /\ d \in Seq(Byte) /\ Len(c) = n
      BY <1>4, <1>5
    <3>2. Joins(c, d, e)
      BY <2>1, <3>1, JoinIs, Zenon
    <3> QED BY <3>1, <3>2 DEF Joins
  <2>3. Len(e) = Len(wire) /\ Len(wire) \in Nat
    BY <1>2, <1>5, <2>2
  <2>4. ASSUME NEW k \in 1..Len(e) PROVE e[k] = wire[k]
    <3>1. CASE k <= n
      <4>1. k \in 1..n
        BY <3>1
      <4> QED BY <1>4, <2>2, <4>1
    <3>2. CASE ~(k <= n)
      <4>1. k - n \in 1..(Len(wire) - n) /\ n + (k - n) = k /\ k - n \in 1..Len(d)
        BY <1>2, <1>5, <2>3, <3>2
      <4>2. PICK i : i = k - n
        OBVIOUS
      <4>3. e[n + i] = d[i] /\ d[i] = wire[n + i] /\ n + i = k
        BY <1>5, <2>2, <4>1, <4>2
      <4> QED BY <4>3
    <3> QED BY <3>1, <3>2
  <2>5. e = wire
    BY <1>2, <2>2, <2>3, <2>4, SeqEqual
  <2> QED BY <2>1, <2>5
<1>7. Said' = Said
  <2>1. (stream \o c) \o d = stream \o (c \o d)
    BY <1>2, <1>4, <1>5
  <2> QED BY <1>1, <1>3, <1>6, <2>1 DEF Said
<1>8. SaidInv'
  BY <1>1, <1>7 DEF SaidInv
<1>9. TileInv'
  BY <1>1, <1>7 DEF TileInv, Tiled, Boundary
<1> QED BY <1>1, <1>3, <1>4, <1>5, <1>8, <1>9

----------------------------------------------------------------------------
(* What the whole stream says of the frames of the lock.                    *)
Covers(y, f) ==
  y.at = f.at \/ (y.at < f.at /\ f.at < y.at + SizeOf(y.frame.data))

(* A sequence that is not empty is its head and its tail.                   *)
LEMMA HeadTail ==
  ASSUME NEW S, NEW y \in S, NEW R \in Seq(S), NEW W, W = <<y>> \o R
  PROVE  /\ Len(W) = Len(R) + 1 /\ W[1] = y
         /\ \A k \in 1..Len(R) : W[k + 1] = R[k]
  OBVIOUS

(* A frame, as read, has the size its length byte declares.                 *)
LEMMA YieldSize ==
  ASSUME NEW s \in Seq(Byte), NEW p \in Nat \ {0}, CompleteAt(s, p)
  PROVE  YieldOf(s, p).at = p /\ SizeOf(YieldOf(s, p).frame.data) = SizeAt(s, p)
<1> DEFINE n == s[p + V3_LENGTH_INDEX]
           data == [k \in 1..n |-> s[p + V3_HEADER_LEN + k - 1]]
<1>1. p + V3_LENGTH_INDEX <= Len(s)
  BY DEF CompleteAt
<1>2. n \in Nat
  BY <1>1, Sizes
<1>3. YieldOf(s, p).at = p /\ YieldOf(s, p).frame.data = data
  BY DEF YieldOf, FrameOf
<1> HIDE DEF n
<1>4. Len(data) = n
  BY <1>2
<1> HIDE DEF data
<1>5. SizeOf(data) = SizeAt(s, p)
  BY <1>4 DEF SizeOf, SizeAt, n
<1> QED BY <1>3, <1>5

(* Once the longest frame would fit from its first byte on, the reading     *)
(* from any place before a frame of the lock has a frame that covers it.    *)
LEMMA LateRead ==
  ASSUME NEW s \in Seq(Byte), NEW f \in Sends, End(f) - 1 <= Len(s), Built(s, f),
         Len(s) >= f.at + MaxFrame - 1, NEW i \in 1..f.at
  PROVE  \E k \in 1..Len(Reading(s)[i]) : Covers(Reading(s)[i][k], f)
<1> DEFINE covered(j) == \E k \in 1..Len(Reading(s)[j]) : Covers(Reading(s)[j][k], f)
           T == {n \in Nat : \A j \in 1..f.at : f.at - j < n => covered(j)}
<1>1. /\ f.at \in Nat /\ f.at >= 1 /\ f.at \in 1..Len(s) /\ PossibleAt(s, f.at)
  BY SendSizes, FrameThere
<1>2. ASSUME NEW j \in 1..f.at, \A k \in (j + 1)..f.at : covered(k)
      PROVE  covered(j)
  <2>1. j \in Nat \ {0} /\ j \in 1..(Len(s) + 1) /\ f.at \in j..Len(s)
    BY <1>1
  <2>2. f.at \in Starts(s, j) /\ Starts(s, j) # {}
    BY <1>1, <2>1 DEF Starts
  <2>3. PICK p : p = Min(Starts(s, j))
    OBVIOUS
  <2>4. p \in j..Len(s) /\ p <= f.at
    BY <1>1, <2>1, <2>2, <2>3, StartsAre
  <2>5. p \in Nat \ {0} /\ p \in 1..Len(s) /\ p + MaxFrame - 1 <= Len(s)
    BY <1>1, <2>1, <2>4, LongestFrame
  <2>6. p + V3_LENGTH_INDEX <= Len(s)
    BY <2>5, LongestFrame, Layout
  <2>7. SizeAt(s, p) \in Nat /\ SizeAt(s, p) <= MaxFrame /\ SizeAt(s, p) > 0
    BY <2>5, <2>6, Sizes, Layout
  <2>8. CompleteAt(s, p)
    BY <2>5, <2>6, <2>7, LongestFrame DEF CompleteAt
  <2>9. PICK y, q, R, W : /\ y = YieldOf(s, p) /\ q = p + SizeAt(s, p)
                          /\ R = Reading(s)[q] /\ W = Reading(s)[j]
    OBVIOUS
  <2>10. W = <<y>> \o R
    <3>1. ~Waits(s, j)
      BY <2>2, <2>3, <2>8 DEF Waits
    <3> QED BY <2>1, <2>3, <2>9, <3>1, ReadingIs
  <2>11. q \in 1..(Len(s) + 1) /\ q > j /\ q > p
    BY <2>4, <2>5, <2>7, <2>8, <2>9 DEF CompleteAt
  <2>12. y \in Yields /\ R \in Seq(Yields) /\ y.at = p /\ p + SizeOf(y.frame.data) = q
    BY <2>5, <2>8, <2>9, <2>11, FramesHaveType, ReadingIs, YieldSize
  <2>13. /\ Len(W) = Len(R) + 1 /\ W[1] = y
         /\ \A k \in 1..Len(R) : W[k + 1] = R[k]
    BY <2>10, <2>12, HeadTail
  <2>14. Len(R) \in Nat
    BY <2>12
  <2>15. CASE f.at < q
    <3>1. Covers(y, f)
      BY <1>1, <2>4, <2>5, <2>12, <2>15 DEF Covers
    <3>2. 1 \in 1..Len(W)
      BY <2>13, <2>14
    <3> QED BY <2>9, <2>13, <3>1, <3>2
  <2>16. CASE ~(f.at < q)
    <3>1. q \in (j + 1)..f.at
      BY <1>1, <2>1, <2>11, <2>16
    <3>2. covered(q)
      BY <1>2, <3>1
    <3>3. PICK k \in 1..Len(R) : Covers(R[k], f)
      BY <2>9, <3>2
    <3>4. k + 1 \in 1..Len(W) /\ W[k + 1] = R[k]
      BY <2>13, <2>14
    <3> QED BY <2>9, <3>3, <3>4
  <2> QED BY <2>15, <2>16
<1> HIDE DEF covered
<1>3. 0 \in T
  BY <1>1
<1>4. ASSUME NEW n \in T PROVE n + 1 \in T
  <2> SUFFICES ASSUME NEW j \in 1..f.at, f.at - j < n + 1 PROVE covered(j)
    OBVIOUS
  <2>1. ASSUME NEW k \in (j + 1)..f.at PROVE covered(k)
    <3>1. k \in 1..f.at /\ f.at - k < n
      BY <1>1
    <3> QED BY <3>1
  <2> QED BY <1>2, <2>1
<1>5. T = Nat
  <2>1. T \in SUBSET Nat
    OBVIOUS
  <2> HIDE DEF T
  <2> QED BY <1>3, <1>4, <2>1, SetInduction
<1>6. covered(i)
  <2>1. f.at - i + 1 \in Nat /\ f.at - i < f.at - i + 1
    BY <1>1
  <2>2. f.at - i + 1 \in T
    BY <1>5, <2>1
  <2> QED BY <2>1, <2>2
<1> QED BY <1>6 DEF covered

(* Reading waits at a frame that only the continuation of the stream ends.  *)
LEMMA WaitsThere ==
  ASSUME NEW s \in Seq(Byte), NEW w, Extends(w, s), NEW a \in 1..(Len(s) + 1),
         PossibleAt(w, a), CompleteAt(w, a), ~(a + SizeAt(w, a) - 1 <= Len(s))
  PROVE  Waits(s, a)
<1>1. w \in Seq(Byte) /\ Len(s) <= Len(w) /\ \A k \in 1..Len(s) : w[k] = s[k]
  BY DEF Extends
<1>2. a \in Nat \ {0} /\ HeaderAt(w, a) /\ a + V3_LENGTH_INDEX <= Len(w)
  BY DEF PossibleAt, CompleteAt
<1>3. w[a] = HEADER[1] /\ w[a + 1] = HEADER[2]
  BY <1>1, <1>2, HeaderIs
<1>4. CASE ~(a < Len(s))
  <2>1. ASSUME NEW p \in a..Len(s), PossibleAt(s, p) PROVE FALSE
    <3>1. p < Len(s)
      BY <2>1 DEF PossibleAt, HeaderAt
    <3> QED BY <1>4, <3>1
  <2> QED BY <2>1 DEF Waits, Starts
<1>5. CASE a < Len(s)
  <2>1. HeaderAt(s, a)
    <3>1. a \in 1..Len(s) /\ a + 1 \in 1..Len(s)
      BY <1>5
    <3>2. s[a] = HEADER[1] /\ s[a + 1] = HEADER[2]
      BY <1>1, <1>3, <3>1
    <3> QED BY <1>2, <1>5, <3>2, HeaderIs
  <2>2. ~CompleteAt(s, a)
    <3> SUFFICES ASSUME CompleteAt(s, a) PROVE FALSE
      OBVIOUS
    <3>1. a + V3_LENGTH_INDEX <= Len(s) /\ a + SizeAt(s, a) - 1 <= Len(s)
      BY DEF CompleteAt
    <3>2. a + V3_LENGTH_INDEX \in 1..Len(s)
      BY <3>1, Layout
    <3>3. s[a + V3_LENGTH_INDEX] = w[a + V3_LENGTH_INDEX]
      BY <1>1, <3>2
    <3>4. SizeAt(s, a) = SizeAt(w, a)
      BY <3>3 DEF SizeAt
    <3> QED BY <3>1, <3>4
  <2>3. ASSUME a + 2 <= Len(s) PROVE s[a + 2] >= MIN_PROTOCOL_TYPE
    <3>1. a + 2 \in 1..Len(s) /\ a + 2 <= Len(w)
      BY <1>1, <2>3
    <3>2. w[a + 2] >= MIN_PROTOCOL_TYPE
      BY <3>1 DEF PossibleAt
    <3> QED BY <1>1, <3>1, <3>2
  <2>4. PossibleAt(s, a)
    BY <2>1, <2>2, <2>3 DEF PossibleAt
  <2>5. a \in Starts(s, a) /\ Starts(s, a) # {}
    BY <1>5, <2>4 DEF Starts
  <2>6. Min(Starts(s, a)) \in a..Len(s) /\ Min(Starts(s, a)) <= a
    BY <1>2, <1>5, <2>4, <2>5, StartsAre
  <2>7. Min(Starts(s, a)) = a
    BY <2>6
  <2> QED BY <2>2, <2>7 DEF Waits
<1> QED BY <1>4, <1>5

(* The frames of the lock from a on, and nothing else, are read from a on.  *)
OnlySent(R, a) ==
  \A k \in 1..Len(R) :
    \E f \in sent : Arrived(f) /\ f.at >= a /\ R[k].at = f.at /\ R[k].frame.data = f.data

AllSent(R, a) ==
  \A f \in sent : Arrived(f) /\ f.at >= a =>
    \E k \in 1..Len(R) : R[k].at = f.at /\ R[k].frame.data = f.data

Rising(R) == \A k \in 1..(Len(R) - 1) : R[k].at < R[k + 1].at

ReadsSent(a) ==
  LET R == Reading(stream)[a] IN OnlySent(R, a) /\ AllSent(R, a) /\ Rising(R)

(* What the lock has said continues the stream that has arrived.            *)
LEMMA StreamOfSaid ==
  ASSUME Bytes
  PROVE  Extends(Said, stream) /\ Said \in Seq(Byte) /\ Len(stream) <= Len(Said)
<1>1. stream \in Seq(Byte) /\ wire \in Seq(Byte)
  BY DEF Bytes
<1>2. PICK w : w = Said /\ w = stream \o wire
  BY DEF Said
<1>3. Joins(stream, wire, w)
  BY <1>1, <1>2, JoinIs, Zenon
<1> QED BY <1>1, <1>2, <1>3 DEF Joins, Extends

(* A frame of the lock that has arrived is in the stream.                   *)
LEMMA SentThere ==
  ASSUME Bytes, SaidInv, NEW f \in sent, Arrived(f)
  PROVE  f \in Sends /\ End(f) - 1 <= Len(stream) /\ Built(stream, f)
<1>1. f \in Sends /\ Built(Said, f)
  BY DEF SaidInv
<1>2. /\ f.at \in Nat /\ SizeOf(f.data) \in Nat /\ End(f) = f.at + SizeOf(f.data)
      /\ End(f) \in Nat
  BY <1>1, SendSizes
<1>3. f.at + SizeOf(f.data) - 1 <= Len(stream) /\ f.at + SizeOf(f.data) - 1 = End(f) - 1
  BY <1>2 DEF Arrived
<1>4. End(f) - 1 <= Len(stream)
  BY <1>3
<1>5. \A k \in 1..(End(f) - 1) : stream[k] = Said[k]
  <2> TAKE k \in 1..(End(f) - 1)
  <2>1. k \in 1..Len(stream)
    <3>1. Len(stream) \in Nat
      BY DEF Bytes
    <3> QED BY <1>2, <1>4, <3>1
  <2> QED BY <2>1, StreamOfSaid DEF Extends
<1> QED BY <1>1, <1>4, <1>5, BuiltStays

(* Where no frame of the lock has arrived, nothing read is all that was     *)
(* sent.                                                                    *)
LEMMA NoneFrom ==
  ASSUME NEW a, Reading(stream)[a] = <<>>, \A f \in sent : Arrived(f) => ~(f.at >= a)
  PROVE  ReadsSent(a)
<1> DEFINE R == Reading(stream)[a]
<1>1. R = <<>> /\ Len(R) = 0
  OBVIOUS
<1> HIDE DEF R
<1>2. OnlySent(R, a) /\ Rising(R)
  BY <1>1 DEF OnlySent, Rising
<1>3. AllSent(R, a)
  BY DEF AllSent
<1> QED BY <1>2, <1>3 DEF ReadsSent, R

(* Without noise, the reading from a frame of the lock is that frame and    *)
(* then the reading behind it ...                                           *)
LEMMA ReadFromFrame ==
  ASSUME Bytes, SaidInv, Tiled, NEW g \in sent, Arrived(g),
         g.at \in 1..(Len(stream) + 1), ReadsSent(End(g))
  PROVE  ReadsSent(g.at)
<1>1. stream \in Seq(Byte)
  BY DEF Bytes
<1>2. g \in Sends /\ End(g) - 1 <= Len(stream) /\ Built(stream, g)
  BY SentThere
<1>3. PICK a, q, y, R, W : /\ a = g.at /\ q = End(g) /\ y = YieldOf(stream, a)
                           /\ R = Reading(stream)[q] /\ W = Reading(stream)[a]
  OBVIOUS
<1>4. /\ a \in 1..Len(stream) /\ PossibleAt(stream, a) /\ CompleteAt(stream, a)
      /\ a + SizeAt(stream, a) = q /\ y.at = a /\ y.frame.data = g.data
  BY <1>1, <1>2, <1>3, FrameThere, SendSizes
<1>5. q \in Nat /\ q > a + 6 /\ a \in Nat \ {0} /\ q \in 1..(Len(stream) + 1)
  BY <1>1, <1>2, <1>3, SendSizes
<1>6. W = <<y>> \o R
  BY <1>1, <1>3, <1>4, ReadFrame
<1>7. y \in Yields /\ R \in Seq(Yields)
  BY <1>1, <1>3, <1>4, <1>5, FramesHaveType, ReadingIs
<1>8. /\ Len(W) = Len(R) + 1 /\ W[1] = y /\ Len(R) \in Nat
      /\ \A k \in 1..Len(R) : W[k + 1] = R[k]
  BY <1>6, <1>7, HeadTail
<1>9. OnlySent(R, q) /\ AllSent(R, q) /\ Rising(R)
  BY <1>3 DEF ReadsSent
<1>10. \A f \in sent : f.at \in Nat
  BY SendSizes DEF SaidInv
<1>11. ASSUME NEW k \in 1..Len(W), k # 1
       PROVE  k - 1 \in 1..Len(R) /\ W[k] = R[k - 1]
  <2>1. k - 1 \in 1..Len(R) /\ k - 1 + 1 = k
    BY <1>8, <1>11
  <2> QED BY <1>8, <2>1
<1>12. OnlySent(W, a)
  <2> SUFFICES ASSUME NEW k \in 1..Len(W)
               PROVE  \E f \in sent : Arrived(f) /\ f.at >= a /\ W[k].at = f.at /\ W[k].frame.data = f.data
    BY DEF OnlySent
  <2>1. CASE k = 1
    BY <1>3, <1>4, <1>5, <1>8, <2>1
  <2>2. CASE k # 1
    <3>1. PICK f \in sent : /\ Arrived(f) /\ f.at >= q
                            /\ R[k - 1].at = f.at /\ R[k - 1].frame.data = f.data
      BY <1>9, <1>11, <2>2 DEF OnlySent
    <3>2. f.at >= a
      BY <1>5, <1>10, <3>1
    <3> QED BY <1>11, <2>2, <3>1, <3>2
  <2> QED BY <2>1, <2>2
<1>13. AllSent(W, a)
  <2> SUFFICES ASSUME NEW f \in sent, Arrived(f), f.at >= a
               PROVE  \E k \in 1..Len(W) : W[k].at = f.at /\ W[k].frame.data = f.data
    BY DEF AllSent
  <2>1. CASE f = g
    <3>1. 1 \in 1..Len(W)
      BY <1>8
    <3> QED BY <1>3, <1>4, <1>8, <2>1, <3>1
  <2>2. CASE f # g
    <3>1. f.at >= q
      <4>1. End(f) <= g.at \/ End(g) <= f.at
        BY <2>2 DEF Tiled, Apart
      <4>2. End(f) \in Nat /\ End(f) > f.at + 6 /\ f.at \in Nat
        BY SendSizes DEF SaidInv
      <4> QED BY <1>3, <1>5, <4>1, <4>2
    <3>2. PICK k \in 1..Len(R) : R[k].at = f.at /\ R[k].frame.data = f.data
      BY <1>9, <3>1 DEF AllSent
    <3>3. k + 1 \in 1..Len(W) /\ W[k + 1] = R[k]
      BY <1>8
    <3> QED BY <3>2, <3>3
  <2> QED BY <2>1, <2>2
<1>14. Rising(W)
  <2> SUFFICES ASSUME NEW k \in 1..(Len(W) - 1) PROVE W[k].at < W[k + 1].at
    BY DEF Rising
  <2>1. k \in 1..Len(R) /\ W[k + 1] = R[k] /\ k \in 1..Len(W)
    BY <1>8
  <2>2. CASE k = 1
    <3>1. PICK f \in sent : f.at >= q /\ R[1].at = f.at
      BY <1>9, <2>1, <2>2 DEF OnlySent
    <3> QED BY <1>4, <1>5, <1>8, <1>10, <2>1, <2>2, <3>1
  <2>3. CASE k # 1
    <3>1. W[k] = R[k - 1] /\ k - 1 \in 1..(Len(R) - 1) /\ k - 1 + 1 = k
      BY <1>8, <1>11, <2>1, <2>3
    <3>2. R[k - 1].at < R[k - 1 + 1].at
      BY <1>9, <3>1 DEF Rising
    <3> QED BY <2>1, <3>1, <3>2
  <2> QED BY <2>2, <2>3
<1> QED BY <1>3, <1>12, <1>13, <1>14 DEF ReadsSent

(* ... so from any boundary it is the frames of the lock from there.        *)
LEMMA ReadFromBoundary ==
  ASSUME Bytes, SaidInv, Tiled, NEW i \in 1..(Len(stream) + 1), Boundary(i)
  PROVE  ReadsSent(i)
<1> DEFINE n == Len(stream) + 1
           T == {m \in Nat : \A a \in 1..n : Boundary(a) /\ n - a < m => ReadsSent(a)}
<1>1. stream \in Seq(Byte) /\ n \in Nat
  BY DEF Bytes
<1>2. \A f \in sent : /\ f \in Sends /\ End(f) \in Nat /\ f.at \in Nat /\ End(f) > f.at + 6
                      /\ (Arrived(f) <=> End(f) - 1 <= Len(stream))
  <2> TAKE f \in sent
  <2>1. f \in Sends
    BY DEF SaidInv
  <2>2. /\ f.at \in Nat /\ SizeOf(f.data) \in Nat /\ End(f) = f.at + SizeOf(f.data)
        /\ End(f) \in Nat /\ End(f) > f.at + 6
    BY <2>1, SendSizes
  <2>3. f.at + SizeOf(f.data) - 1 = End(f) - 1
    BY <2>2
  <2>4. Arrived(f) <=> End(f) - 1 <= Len(stream)
    BY <2>3, Zenon DEF Arrived
  <2> QED BY <2>1, <2>2, <2>4
<1>3. ASSUME NEW a \in 1..n, Boundary(a), \A q \in (a + 1)..n : Boundary(q) => ReadsSent(q)
      PROVE  ReadsSent(a)
  <2>1. CASE a = Len(Said) + 1
    <3>1. a = Len(stream) + 1
      BY <1>1, <2>1, StreamOfSaid
    <3>2. Starts(stream, a) = {}
      BY <1>1, <3>1 DEF Starts
    <3>3. Reading(stream)[a] = <<>>
      BY <1>1, <3>2, ReadingIs DEF Waits
    <3>4. ASSUME NEW f \in sent, Arrived(f) PROVE ~(f.at >= a)
      BY <1>1, <1>2, <3>1, <3>4
    <3> QED BY <3>3, <3>4, NoneFrom
  <2>2. CASE \E g \in sent : g.at = a
    <3>1. PICK g \in sent : g.at = a
      BY <2>2
    <3>2. CASE Arrived(g)
      <4>1. Boundary(End(g))
        BY DEF Boundary
      <4>2. End(g) \in (a + 1)..n
        BY <1>1, <1>2, <3>1, <3>2
      <4>3. ReadsSent(End(g))
        BY <1>3, <4>1, <4>2
      <4> QED BY <1>3, <3>1, <3>2, <4>3, ReadFromFrame
    <3>3. CASE ~Arrived(g)
      <4>1. Extends(Said, stream) /\ Said \in Seq(Byte)
        BY StreamOfSaid
      <4>2. End(g) - 1 <= Len(Said) /\ Built(Said, g) /\ g \in Sends
        BY DEF SaidInv
      <4>3. /\ PossibleAt(Said, a) /\ CompleteAt(Said, a) /\ SizeAt(Said, a) = SizeOf(g.data)
        BY <3>1, <4>1, <4>2, FrameThere
      <4>4. ~(a + SizeAt(Said, a) - 1 <= Len(stream))
        BY <3>1, <3>3, <4>3 DEF Arrived
      <4>5. Waits(stream, a)
        <5>1. a \in 1..(Len(stream) + 1)
          OBVIOUS
        <5> HIDE DEF n
        <5> QED BY <1>1, <4>1, <4>3, <4>4, <5>1, WaitsThere
      <4>6. Reading(stream)[a] = <<>>
        BY <1>1, <4>5, ReadingIs
      <4>7. ASSUME NEW f \in sent, Arrived(f) PROVE ~(f.at >= a)
        <5>1. End(f) <= g.at \/ End(g) <= f.at
          BY <3>3, <4>7 DEF Tiled, Apart
        <5>2. Len(stream) \in Nat /\ ~(End(g) - 1 <= Len(stream)) /\ End(f) - 1 <= Len(stream)
          BY <1>1, <1>2, <3>3, <4>7
        <5> QED BY <1>2, <3>1, <5>1, <5>2
      <4> QED BY <4>6, <4>7, NoneFrom
    <3> QED BY <3>2, <3>3
  <2> QED BY <1>3, <2>1, <2>2 DEF Tiled
<1>4. 0 \in T
  BY <1>1
<1>5. ASSUME NEW m \in T PROVE m + 1 \in T
  <2> SUFFICES ASSUME NEW a \in 1..n, Boundary(a), n - a < m + 1 PROVE ReadsSent(a)
    OBVIOUS
  <2>1. ASSUME NEW q \in (a + 1)..n, Boundary(q) PROVE ReadsSent(q)
    <3>1. q \in 1..n /\ n - q < m
      BY <1>1
    <3> QED BY <2>1, <3>1
  <2> QED BY <1>3, <2>1
<1>6. T = Nat
  <2>1. T \in SUBSET Nat
    OBVIOUS
  <2> HIDE DEF T
  <2> QED BY <1>4, <1>5, <2>1, SetInduction
<1>7. n - i + 1 \in T /\ n - i < n - i + 1
  BY <1>1, <1>6
<1> QED BY <1>7

----------------------------------------------------------------------------
IInv == FeedInv /\ SaidInv /\ TileInv

(* The initial states satisfy the inductive invariant ...                   *)
LEMMA FirstInv == Init => IInv
<1> SUFFICES ASSUME Init PROVE IInv
  OBVIOUS
<1> DEFINE e == <<>>
<1>1. buf = e /\ wire = e /\ stream = e /\ yielded = e /\ sent = {} /\ noises = 0 /\ drops = 0
  BY DEF Init
<1>2. e \in Seq(Byte) /\ e \in Seq(Yields) /\ Len(e) = 0 /\ e \o e = e
  OBVIOUS
<1> HIDE DEF e
<1>3. Bytes
  BY <1>1, <1>2 DEF Bytes
<1>4. Unread = 0
  BY <1>1, <1>2 DEF Unread
<1>5. Waits(stream, 1)
  BY <1>1, <1>2 DEF Waits, Starts
<1>6. BufferInv
  <2>1. Drop(stream, 0) \in Seq(Byte) /\ Len(Drop(stream, 0)) = 0
    <3>1. 0 \in 0..Len(stream) /\ Len(stream) - 0 = 0
      BY <1>1, <1>2
    <3> QED BY <1>1, <1>2, <3>1, DropIs
  <2>2. Drop(stream, 0) = e
    BY <1>2, <2>1, SeqEqual
  <2> QED BY <1>1, <1>2, <1>4, <1>5, <2>2, LongestFrame DEF BufferInv
<1>7. ReadInv
  <2> SUFFICES ASSUME NEW t, Extends(t, stream) PROVE FramesIn(t) = yielded \o Reading(t)[Unread + 1]
    BY DEF ReadInv
  <2>1. t \in Seq(Byte)
    BY DEF Extends
  <2>2. PICK R : R = Reading(t)[1]
    OBVIOUS
  <2>3. R \in Seq(Yields)
    <3>1. 1 \in 1..(Len(t) + 1)
      BY <2>1
    <3> QED BY <2>1, <2>2, <3>1, ReadingIs
  <2>4. e \o R = R
    BY <2>3 DEF e
  <2> QED BY <1>1, <1>4, <2>2, <2>4, FramesAreRead
<1>8. SaidInv
  BY <1>1 DEF SaidInv
<1>9. TileInv
  <2>1. Said = e
    BY <1>1, <1>2 DEF Said
  <2>2. Len(Said) + 1 = 1
    BY <1>2, <2>1
  <2> QED BY <1>1, <2>2 DEF TileInv, Tiled, Boundary
<1> QED BY <1>3, <1>6, <1>7, <1>8, <1>9 DEF IInv, FeedInv

(* The invariant of feed where neither stream nor buffer changes.           *)
LEMMA FeedStays ==
  ASSUME FeedInv, wire' \in Seq(Byte), UNCHANGED <<buf, stream, yielded>>
  PROVE  FeedInv'
<1>1. Bytes'
  BY DEF FeedInv, Bytes
<1>2. Unread' = Unread
  BY DEF Unread
<1>3. BufferInv'
  BY <1>2 DEF FeedInv, BufferInv
<1>4. ReadInv'
  BY <1>2 DEF FeedInv, ReadInv
<1> QED BY <1>1, <1>3, <1>4 DEF FeedInv

(* ... and every step keeps it.                                             *)
LEMMA StepInv == IInv /\ [Next]_vars => IInv'
<1> SUFFICES ASSUME IInv, [Next]_vars PROVE IInv'
  OBVIOUS
<1>1. FeedInv /\ Bytes /\ SaidInv /\ TileInv
  BY DEF IInv, FeedInv
<1>2. ASSUME NEW data \in Payloads, NEW crc \in Crcs, LockSends(data, crc) PROVE IInv'
  <2>1. wire' \in Seq(Byte) /\ SaidInv' /\ TileInv'
    BY <1>1, <1>2, SendKeeps
  <2>2. UNCHANGED <<buf, stream, yielded>>
    BY <1>2 DEF LockSends
  <2> QED BY <1>1, <2>1, <2>2, FeedStays DEF IInv
<1>3. ASSUME NEW junk \in Noise, NoiseComes(junk) PROVE IInv'
  <2>1. wire' \in Seq(Byte) /\ SaidInv' /\ TileInv'
    BY <1>1, <1>3, NoiseKeeps
  <2>2. UNCHANGED <<buf, stream, yielded>>
    BY <1>3 DEF NoiseComes
  <2> QED BY <1>1, <2>1, <2>2, FeedStays DEF IInv
<1>4. ASSUME NEW n \in ChunkSizes, Notify(n) PROVE IInv'
  <2>1. /\ SubSeq(wire, 1, n) \in Seq(Byte) /\ wire' \in Seq(Byte) /\ SaidInv' /\ TileInv'
    BY <1>1, <1>4, NotifyKeeps
  <2>2. Feed(SubSeq(wire, 1, n))
    BY <1>4 DEF Notify
  <2>3. FeedInv'
    BY <1>1, <2>1, <2>2, FeedKeeps
  <2> QED BY <2>1, <2>3 DEF IInv
<1>5. CASE LinkDrops
  <2>1. wire' \in Seq(Byte) /\ SaidInv' /\ TileInv'
    BY <1>1, <1>5, DropsKeep
  <2>2. UNCHANGED <<buf, stream, yielded>>
    BY <1>5 DEF LinkDrops
  <2> QED BY <1>1, <2>1, <2>2, FeedStays DEF IInv
<1>6. CASE UNCHANGED vars
  <2>1. FeedInv'
    <3>1. wire' \in Seq(Byte) /\ UNCHANGED <<buf, stream, yielded>>
      BY <1>1, <1>6 DEF vars, Bytes
    <3> QED BY <1>1, <3>1, FeedStays
  <2>2. Said' = Said /\ sent' = sent /\ noises' = noises /\ drops' = drops
    BY <1>6 DEF vars, Said
  <2>3. SaidInv'
    BY <1>1, <2>2 DEF SaidInv
  <2>4. TileInv'
    BY <1>1, <2>2 DEF TileInv, Tiled, Boundary
  <2> QED BY <2>1, <2>3, <2>4 DEF IInv
<1> QED BY <1>2, <1>3, <1>4, <1>5, <1>6 DEF Next

(* FrameReassembler.  The buffer is the unread end of the stream, and what  *)
(* feed has returned is what any continuation of the stream starts with.    *)
THEOREM ReassemblyInductive == Spec => []IInv
<1> QED BY FirstInv, StepInv, PTL DEF Spec

(* FrameReassembler.feed.  However the radio cuts the bytes into chunks,    *)
(* and whatever noise is among them, the frames returned are those that the *)
(* whole stream, read at once, contains.                                    *)
THEOREM ChunksAreImmaterial == Spec => []ChunksDoNotMatter
<1>1. IInv => ChunksDoNotMatter
  <2> SUFFICES ASSUME IInv PROVE yielded = FramesIn(stream)
    BY DEF ChunksDoNotMatter
  <2>1. /\ stream \in Seq(Byte) /\ buf \in Seq(Byte) /\ yielded \in Seq(Yields)
        /\ Len(buf) <= Len(stream) /\ Waits(stream, Unread + 1)
    BY DEF IInv, FeedInv, Bytes, BufferInv
  <2>2. Extends(stream, stream)
    BY <2>1 DEF Extends
  <2>3. FramesIn(stream) = yielded \o Reading(stream)[Unread + 1]
    BY <2>2 DEF IInv, FeedInv, ReadInv
  <2>4. Unread + 1 \in 1..(Len(stream) + 1)
    BY <2>1 DEF Unread
  <2>5. Reading(stream)[Unread + 1] = <<>>
    BY <2>1, <2>4, ReadingIs
  <2>6. yielded \o <<>> = yielded
    BY <2>1
  <2> QED BY <2>3, <2>5, <2>6
<1> QED BY <1>1, ReassemblyInductive, PTL

(* FrameReassembler._buf.  Between two feeds the buffer is shorter than the *)
(* longest frame a length byte can declare, whatever the radio brings.      *)
THEOREM BufferStaysShort == Spec => []BufferIsBounded
<1>1. IInv => BufferIsBounded
  BY DEF IInv, FeedInv, BufferInv, BufferIsBounded
<1> QED BY <1>1, ReassemblyInductive, PTL

(* FrameReassembler.feed.  Without noise and drops every frame of the lock  *)
(* is returned with its last byte, once and in order, whatever its payload. *)
THEOREM FramesComeWhole == Spec => []FramesArriveWhole
<1>1. IInv /\ ChunksDoNotMatter => FramesArriveWhole
  <2> SUFFICES ASSUME IInv, ChunksDoNotMatter, noises = 0, drops = 0
               PROVE  /\ {[at |-> y.at, data |-> y.frame.data] :
                            y \in {yielded[i] : i \in 1..Len(yielded)}}
                           = {f \in sent : Arrived(f)}
                      /\ \A i \in 1..(Len(yielded) - 1) : yielded[i].at < yielded[i + 1].at
    BY DEF FramesArriveWhole
  <2>1. Bytes /\ SaidInv /\ Tiled /\ stream \in Seq(Byte)
    BY DEF IInv, FeedInv, TileInv, Bytes
  <2>2. ReadsSent(1)
    <3>1. PICK one : one = 1
      OBVIOUS
    <3>2. one \in 1..(Len(stream) + 1) /\ Boundary(one)
      BY <2>1, <3>1 DEF Boundary
    <3>3. ReadsSent(one)
      BY <2>1, <3>2, ReadFromBoundary
    <3> QED BY <3>1, <3>3
  <2>3. PICK R : R = Reading(stream)[1]
    OBVIOUS
  <2>4. yielded = R
    BY <2>3, FramesAreRead DEF ChunksDoNotMatter
  <2>5. OnlySent(R, 1) /\ AllSent(R, 1) /\ Rising(R)
    BY <2>2, <2>3 DEF ReadsSent
  <2>6. \A f \in sent : f \in Sends /\ f.at >= 1 /\ f = [at |-> f.at, data |-> f.data]
    BY DEF Sends, IInv, SaidInv
  <2>7. ASSUME NEW k \in 1..Len(R)
        PROVE  [at |-> R[k].at, data |-> R[k].frame.data] \in {f \in sent : Arrived(f)}
    <3>1. PICK f \in sent : Arrived(f) /\ R[k].at = f.at /\ R[k].frame.data = f.data
      BY <2>5 DEF OnlySent
    <3> QED BY <2>6, <3>1
  <2>8. ASSUME NEW f \in sent, Arrived(f)
        PROVE  \E k \in 1..Len(R) : f = [at |-> R[k].at, data |-> R[k].frame.data]
    <3>1. PICK k \in 1..Len(R) : R[k].at = f.at /\ R[k].frame.data = f.data
      BY <2>5, <2>6, <2>8 DEF AllSent
    <3> QED BY <2>6, <3>1
  <2>9. {[at |-> y.at, data |-> y.frame.data] : y \in {R[i] : i \in 1..Len(R)}}
          = {f \in sent : Arrived(f)}
    BY <2>7, <2>8
  <2>10. \A i \in 1..(Len(R) - 1) : R[i].at < R[i + 1].at
    BY <2>5 DEF Rising
  <2> QED BY <2>4, <2>9, <2>10
<1> QED BY <1>1, ReassemblyInductive, ChunksAreImmaterial, PTL

(* FrameReassembler.feed after noise or a drop.  A frame of the lock is     *)
(* returned at the latest when the longest frame would have fitted from its *)
(* first byte on, unless a false frame that reaches into it was.            *)
THEOREM FramesAreLateByOne == Spec => []LateByOneFrameAtMost
<1>1. IInv /\ ChunksDoNotMatter => LateByOneFrameAtMost
  <2> SUFFICES ASSUME IInv, ChunksDoNotMatter,
                      NEW f \in sent, Arrived(f), Len(stream) >= f.at + MaxFrame - 1
               PROVE  \E i \in 1..Len(yielded) :
                        \/ yielded[i].at = f.at
                        \/ /\ yielded[i].at < f.at
                           /\ f.at < yielded[i].at + SizeOf(yielded[i].frame.data)
    BY DEF LateByOneFrameAtMost
  <2>1. Bytes /\ SaidInv /\ stream \in Seq(Byte)
    BY DEF IInv, FeedInv, Bytes
  <2>2. f \in Sends /\ End(f) - 1 <= Len(stream) /\ Built(stream, f)
    BY <2>1, SentThere
  <2>3. PICK R : R = Reading(stream)[1]
    OBVIOUS
  <2>4. yielded = R
    BY <2>3, FramesAreRead DEF ChunksDoNotMatter
  <2>5. \E k \in 1..Len(R) : Covers(R[k], f)
    <3>1. PICK one : one = 1
      OBVIOUS
    <3>2. one \in 1..f.at
      BY <2>2, <3>1, SendSizes
    <3>3. \E k \in 1..Len(Reading(stream)[one]) : Covers(Reading(stream)[one][k], f)
      BY <2>1, <2>2, <3>2, LateRead
    <3> QED BY <2>3, <3>1, <3>3
  <2> QED BY <2>4, <2>5 DEF Covers
<1> QED BY <1>1, ReassemblyInductive, ChunksAreImmaterial, PTL
=============================================================================
