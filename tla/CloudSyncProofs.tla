-------------------------- MODULE CloudSyncProofs --------------------------
(* Proofs about CloudSync, for any processes, keys and page size, and any   *)
(* number of commands, kills and changes of the cloud.                     *)
EXTENDS CloudSync, FiniteSetTheorems, WellFoundedInduction, TLAPS

(* A file that was there stays there.                                       *)
TypeInv == TypeOK /\ \A p \in Processes : pc[p] = "reading" => idFile # Absent

Creating(p) == pc[p] \in {"creating", "writing"}

(* While no file of an identifier was spoilt: who makes it is alone, nobody *)
(* reads an empty one, and there is one identifier, which the cloud knows   *)
(* if it knows any.                                                        *)
OneMaker ==
  \A p, q \in Processes : Creating(p) /\ (Creating(q) \/ pc[q] = "reading") => p = q

FileIsBeingMade ==
  /\ \A p \in Processes : pc[p] = "creating" => idFile = Absent
  /\ \A p \in Processes : pc[p] = "writing" => idFile = Empty
  /\ \A p \in Processes : pc[p] = "reading" => idFile # Absent /\ idFile # Empty
  /\ idFile = Empty => \E p \in Processes : pc[p] = "writing"

OneId ==
  /\ \A p \in Processes : id[p] # NoId => idFile = Whole(id[p])
  /\ \A i \in validated : idFile = Whole(i)

Identified ==
  \A p \in Processes :
    pc[p] \in {"discovering", "loggingIn", "asking", "validating"} => id[p] # NoId

IdInv ==
  /\ TypeInv
  /\ "uniqueid" \notin torn => OneMaker /\ FileIsBeingMade /\ OneId /\ Identified

(* While no key store was spoilt: who writes it is alone, and finds it as   *)
(* empty as it has left it.                                                *)
OneWriter ==
  \A p, q \in Processes : pc[p] = "saving" /\ pc[q] = "saving" => p = q

StoreIsBeingMade ==
  /\ \A p \in Processes : pc[p] = "saving" => keyFile = Empty
  /\ keyFile \in {Empty, Broken} => \E p \in Processes : pc[p] = "saving"

StoreInv == TypeInv /\ ("keys" \notin torn => OneWriter /\ StoreIsBeingMade)

----------------------------------------------------------------------------
(* The states of a file are different from one another.                     *)
LEMMA Contents ==
  /\ \A x, y : Whole(x) = Whole(y) => x = y
  /\ \A x : Whole(x) # Absent /\ Whole(x) # Empty /\ Whole(x) # Broken
  /\ \A x : Whole(x).content = x /\ Whole(x).state = "whole"
  /\ Absent # Empty /\ Empty # Broken /\ Absent # Broken
<1>1. \A x : Whole(x).content = x /\ Whole(x).state = "whole"
  BY DEF Whole
<1>2. \A x, y : Whole(x) = Whole(y) => x = y
  BY <1>1
<1>3. Absent.state = "absent" /\ Empty.state = "empty" /\ Broken.state = "broken"
  BY DEF Absent, Empty, Broken
<1>4. \A x : Whole(x) # Absent /\ Whole(x) # Empty /\ Whole(x) # Broken
  BY <1>1, <1>3
<1> QED
  BY <1>1, <1>2, <1>3, <1>4

(* The initial states are typed ...                                         *)
LEMMA InitType == Init => TypeInv
  BY CloudAssumption DEF Init, TypeInv, TypeOK, PC, Ended, NoId

(* Nothing is made or written yet.                                          *)
LEMMA InitInvs == Init => IdInv /\ StoreInv
  BY InitType, Contents
     DEF Init, IdInv, StoreInv, OneMaker, Creating, FileIsBeingMade, OneId, Identified,
         OneWriter, StoreIsBeingMade, NoId

(* ... and every step keeps the types.                                      *)
LEMMA NextType == TypeInv /\ [Next]_vars => TypeInv'
<1> SUFFICES ASSUME TypeInv, [Next]_vars PROVE TypeInv'
  OBVIOUS
<1> USE CloudAssumption DEF TypeInv, TypeOK, Goto, PC, Ended, process, cloud, counts
<1>1. ASSUME NEW p \in Processes, NEW c \in {"sync", "verify", "list"}, Run(p, c) PROVE TypeInv'
  <2>1. page' \in [Processes -> Nat \ {0}] /\ id' \in [Processes -> Nat]
    BY <1>1 DEF Run, NoId
  <2>2. pc' \in [Processes -> PC] /\ cmd' \in [Processes -> {"sync", "verify", "list"}]
    BY <1>1 DEF Run
  <2>3. runs' \in 0..MaxRuns /\ cut' \subseteq Processes
    BY <1>1 DEF Run
  <2> QED
    BY <1>1, <2>1, <2>2, <2>3 DEF Run
<1>2. ASSUME NEW p \in Processes, Look(p) PROVE TypeInv'
  BY <1>2, Contents DEF Look
<1>3. ASSUME NEW p \in Processes, ReadId(p) PROVE TypeInv'
  <2>1. (IF idFile = Empty THEN Blank ELSE idFile.content) \in Nat
    BY <1>3, Contents DEF ReadId, Blank, NoId
  <2>2. id' \in [Processes -> Nat]
    BY <1>3, <2>1 DEF ReadId
  <2> QED
    BY <1>3, <2>2 DEF ReadId
<1>4. ASSUME NEW p \in Processes, CreateId(p) PROVE TypeInv'
  BY <1>4, Contents DEF CreateId
<1>5. ASSUME NEW p \in Processes, WriteId(p) PROVE TypeInv'
  BY <1>5, Contents DEF WriteId, NoId
<1>6. ASSUME NEW p \in Processes, DiscoverSite(p) PROVE TypeInv'
  BY <1>6, Contents DEF DiscoverSite
<1>7. ASSUME NEW p \in Processes, Login(p) PROVE TypeInv'
  BY <1>7, Contents DEF Login
<1>8. ASSUME NEW p \in Processes, AskForCode(p) PROVE TypeInv'
  BY <1>8, Contents DEF AskForCode
<1>9. ASSUME NEW p \in Processes, ValidateNewDevice(p) PROVE TypeInv'
  <2>1. validated' \subseteq Nat
    <3>1. id[p] \in Nat /\ validated \subseteq Nat
      OBVIOUS
    <3>2. validated' = validated \/ validated' = validated \cup {id[p]}
      BY <1>9 DEF ValidateNewDevice
    <3> QED
      BY <3>1, <3>2, Zenon
  <2>2. pc' \in [Processes -> PC] /\ \A q \in Processes : pc'[q] = "reading" => pc[q] = "reading"
    BY <1>9 DEF ValidateNewDevice
  <2>3. UNCHANGED <<idFile, keyFile, cmd, id, page, minted, runs, kills, changes, cut, torn>>
    BY <1>9 DEF ValidateNewDevice
  <2> QED
    BY <2>1, <2>2, <2>3
<1>10. ASSUME NEW p \in Processes, ListPage(p) PROVE TypeInv'
  <2>1. pc' \in [Processes -> PC] /\ page' \in [Processes -> Nat \ {0}]
    <3>1. pc' = pc \/ pc' = [pc EXCEPT ![p] = "storing"]
      BY <1>10 DEF ListPage
    <3>2. page' = page \/ page' = [page EXCEPT ![p] = @ + 1]
      BY <1>10 DEF ListPage
    <3>3. pc' \in [Processes -> PC]
      BY <3>1
    <3>4. page[p] + 1 \in Nat \ {0}
      OBVIOUS
    <3> QED
      BY <3>2, <3>3, <3>4
  <2>2. \A q \in Processes : pc'[q] = "reading" => pc[q] = "reading"
    BY <1>10 DEF ListPage
  <2>3. UNCHANGED <<idFile, keyFile, cmd, id, validated, minted, runs, kills, changes, cut, torn>>
    BY <1>10 DEF ListPage
  <2> QED
    BY <2>1, <2>2, <2>3
<1>11. ASSUME NEW p \in Processes, ListFails(p) PROVE TypeInv'
  BY <1>11, Contents DEF ListFails
<1>12. ASSUME NEW p \in Processes, ListIsCut(p) PROVE TypeInv'
  BY <1>12, Contents DEF ListIsCut
<1>13. ASSUME NEW p \in Processes, OpenStore(p) PROVE TypeInv'
  BY <1>13, Contents DEF OpenStore
<1>14. ASSUME NEW p \in Processes, SaveStore(p) PROVE TypeInv'
  BY <1>14, Contents DEF SaveStore
<1>15. ASSUME NEW p \in Processes, LoadKeys(p) PROVE TypeInv'
  BY <1>15, Contents DEF LoadKeys
<1>16. ASSUME NEW p \in Processes, Kill(p) PROVE TypeInv'
  BY <1>16 DEF Kill
<1>17. CASE ListChanges
  BY <1>17 DEF ListChanges
<1>18. CASE UNCHANGED vars
  BY <1>18 DEF vars
<1> QED
  BY <1>1, <1>2, <1>3, <1>4, <1>5, <1>6, <1>7, <1>8, <1>9, <1>10, <1>11, <1>12, <1>13, <1>14, <1>15, <1>16, <1>17, <1>18
     DEF Next, Step

----------------------------------------------------------------------------
(* The install identifier.                                                 *)

Online == {"discovering", "loggingIn", "asking", "validating"}

(* A step that has nothing to do with the file of the identifier.           *)
LEMMA ElsewhereKeepsIds ==
  ASSUME IdInv, TypeInv', NEW p \in Processes,
         UNCHANGED <<idFile, validated>>, "uniqueid" \in torn => "uniqueid" \in torn',
         ~Creating(p), pc'[p] \notin {"creating", "writing", "reading"},
         id'[p] \in {id[p], NoId}, pc'[p] \in Online => id'[p] # NoId,
         \A q \in Processes : q # p => pc'[q] = pc[q] /\ id'[q] = id[q]
  PROVE  IdInv'
<1> SUFFICES ASSUME "uniqueid" \notin torn' PROVE (OneMaker /\ FileIsBeingMade /\ OneId /\ Identified)'
  BY DEF IdInv
<1>1. OneMaker /\ FileIsBeingMade /\ OneId /\ Identified
  BY DEF IdInv
<1>2. OneMaker'
  BY <1>1 DEF OneMaker, Creating
<1>3. FileIsBeingMade'
  BY <1>1 DEF FileIsBeingMade, Creating
<1>4. OneId' /\ Identified'
  BY <1>1 DEF OneId, Identified, Online
<1> QED
  BY <1>2, <1>3, <1>4

(* The steps that have nothing to do with it.                               *)
LEMMA RestKeepsIds ==
  ASSUME IdInv, TypeInv', NEW p \in Processes,
         \/ \E c \in {"sync", "verify", "list"} : Run(p, c)
         \/ DiscoverSite(p) \/ Login(p) \/ AskForCode(p)
         \/ ListPage(p) \/ ListFails(p) \/ ListIsCut(p)
         \/ OpenStore(p) \/ SaveStore(p) \/ LoadKeys(p)
  PROVE  IdInv'
<1>0. TypeOK /\ ("uniqueid" \notin torn => Identified)
  BY DEF IdInv, TypeInv
<1> USE DEF TypeOK, Goto, cloud, counts
<1> DEFINE Elsewhere ==
      /\ UNCHANGED <<idFile, validated>> /\ ("uniqueid" \in torn => "uniqueid" \in torn')
      /\ ~Creating(p) /\ pc'[p] \notin {"creating", "writing", "reading"}
      /\ id'[p] \in {id[p], NoId}
      /\ pc'[p] \in Online => pc[p] \in Online /\ id' = id
      /\ \A q \in Processes : q # p => pc'[q] = pc[q] /\ id'[q] = id[q]
<1>1. ASSUME NEW c \in {"sync", "verify", "list"}, Run(p, c) PROVE Elsewhere
  BY <1>0, <1>1 DEF Run, Creating, Online, Ended
<1>2. ASSUME DiscoverSite(p) PROVE Elsewhere
  BY <1>0, <1>2 DEF DiscoverSite, Creating, Online, Ended
<1>3. ASSUME Login(p) PROVE Elsewhere
  BY <1>0, <1>3 DEF Login, Creating, Online, Ended
<1>4. ASSUME AskForCode(p) PROVE Elsewhere
  BY <1>0, <1>4 DEF AskForCode, Creating, Online, Ended
<1>5. ASSUME ListPage(p) PROVE Elsewhere
  BY <1>0, <1>5 DEF ListPage, Creating, Online, Ended
<1>6. ASSUME ListFails(p) PROVE Elsewhere
  BY <1>0, <1>6 DEF ListFails, Creating, Online, Ended
<1>7. ASSUME ListIsCut(p) PROVE Elsewhere
  BY <1>0, <1>7 DEF ListIsCut, Creating, Online, Ended
<1>8. ASSUME OpenStore(p) PROVE Elsewhere
  BY <1>0, <1>8 DEF OpenStore, Creating, Online, Ended
<1>9. ASSUME SaveStore(p) PROVE Elsewhere
  BY <1>0, <1>9 DEF SaveStore, Creating, Online, Ended
<1>10. ASSUME LoadKeys(p) PROVE Elsewhere
  BY <1>0, <1>10 DEF LoadKeys, Creating, Online, Ended
<1>11. Elsewhere
  BY <1>1, <1>2, <1>3, <1>4, <1>5, <1>6, <1>7, <1>8, <1>9, <1>10
<1>12. "uniqueid" \notin torn => (pc'[p] \in Online => id'[p] # NoId)
  BY <1>0, <1>11 DEF Identified, Online
<1>13. CASE "uniqueid" \in torn
  BY <1>11, <1>13 DEF IdInv
<1>14. CASE "uniqueid" \notin torn
  BY <1>11, <1>12, <1>14, ElsewhereKeepsIds
<1> QED
  BY <1>13, <1>14

(* Every step keeps what is known of the identifiers.                       *)
LEMMA NextId == IdInv /\ [Next]_vars => IdInv'
<1> SUFFICES ASSUME IdInv, [Next]_vars PROVE IdInv'
  OBVIOUS
<1>0. TypeInv' /\ TypeOK
  BY NextType DEF IdInv, TypeInv
<1>1. CASE "uniqueid" \in torn'
  BY <1>0, <1>1 DEF IdInv
<1>2. CASE "uniqueid" \notin torn' /\ "uniqueid" \in torn
  BY <1>2 DEF Next, Step, Run, Look, ReadId, CreateId, WriteId, DiscoverSite, Login, AskForCode,
       ValidateNewDevice, ListPage, ListFails, ListIsCut, OpenStore, SaveStore, LoadKeys, Kill,
       ListChanges, vars
<1>3. CASE "uniqueid" \notin torn /\ "uniqueid" \notin torn'
  <2>0. OneMaker /\ FileIsBeingMade /\ OneId /\ Identified
    BY <1>3 DEF IdInv
  <2> SUFFICES (OneMaker /\ FileIsBeingMade /\ OneId /\ Identified)' \/ IdInv'
    BY <1>0 DEF IdInv
  <2> USE DEF TypeOK, Goto
  <2>1. ASSUME NEW p \in Processes, Look(p) PROVE IdInv'
    <3>1. ~Others(p, {"creating", "writing"})
      BY <1>3, <2>1 DEF Look
    <3>2. OneMaker'
      BY <1>0, <2>0, <2>1, <3>1 DEF Look, OneMaker, Creating, Others, FileIsBeingMade
    <3>3. FileIsBeingMade'
      BY <1>0, <2>0, <2>1, <3>1 DEF Look, FileIsBeingMade, Others
    <3>4. OneId' /\ Identified'
      BY <1>0, <2>0, <2>1 DEF Look, OneId, Identified, cloud
    <3> QED
      BY <1>0, <3>2, <3>3, <3>4 DEF IdInv
  <2>2. ASSUME NEW p \in Processes, ReadId(p) PROVE IdInv'
    <3>1. idFile # Empty /\ idFile = Whole(idFile.content) /\ idFile.content # NoId
      BY <1>0, <2>0, <2>2, Contents DEF ReadId, FileIsBeingMade
    <3>2. OneMaker'
      BY <1>0, <2>0, <2>2 DEF ReadId, OneMaker, Creating
    <3>3. FileIsBeingMade'
      BY <1>0, <2>0, <2>2 DEF ReadId, FileIsBeingMade
    <3>4. OneId' /\ Identified'
      BY <1>0, <2>0, <2>2, <3>1 DEF ReadId, OneId, Identified, cloud
    <3> QED
      BY <1>0, <3>2, <3>3, <3>4 DEF IdInv
  <2>3. ASSUME NEW p \in Processes, CreateId(p) PROVE IdInv'
    <3>1. idFile = Absent /\ idFile' = Empty
      BY <2>0, <2>3 DEF CreateId, FileIsBeingMade
    <3>2. OneMaker'
      BY <1>0, <2>0, <2>3 DEF CreateId, OneMaker, Creating
    <3>3. \A q \in Processes : q # p => pc[q] \notin {"creating", "writing", "reading"}
      BY <2>0, <2>3 DEF CreateId, OneMaker, Creating
    <3>4. FileIsBeingMade'
      BY <1>0, <2>3, <3>1, <3>3, Contents DEF CreateId, FileIsBeingMade
    <3>5. OneId' /\ Identified'
      BY <1>0, <2>0, <2>3, <3>1, Contents DEF CreateId, OneId, Identified, cloud
    <3> QED
      BY <1>0, <3>2, <3>4, <3>5 DEF IdInv
  <2>4. ASSUME NEW p \in Processes, WriteId(p) PROVE IdInv'
    <3>1. idFile = Empty /\ idFile' = Whole(minted + 1) /\ minted + 1 # NoId
      BY <1>0, <2>0, <2>4 DEF WriteId, FileIsBeingMade, NoId
    <3>2. OneMaker'
      BY <1>0, <2>0, <2>4 DEF WriteId, OneMaker, Creating
    <3>3. \A q \in Processes : q # p => pc[q] \notin {"creating", "writing", "reading"}
      BY <2>0, <2>4 DEF WriteId, OneMaker, Creating
    <3>4. FileIsBeingMade'
      BY <1>0, <2>4, <3>1, <3>3, Contents DEF WriteId, FileIsBeingMade
    <3>5. OneId' /\ Identified'
      BY <1>0, <2>0, <2>4, <3>1, Contents DEF WriteId, OneId, Identified, cloud
    <3> QED
      BY <1>0, <3>2, <3>4, <3>5 DEF IdInv
  <2>5. ASSUME NEW p \in Processes, ValidateNewDevice(p) PROVE IdInv'
    <3>1. OneMaker' /\ FileIsBeingMade'
      BY <1>0, <2>0, <2>5 DEF ValidateNewDevice, OneMaker, Creating, FileIsBeingMade
    <3>2. id[p] # NoId
      BY <2>0, <2>5 DEF ValidateNewDevice, Identified
    <3>3. OneId' /\ Identified'
      BY <1>0, <2>0, <2>5, <3>2 DEF ValidateNewDevice, OneId, Identified
    <3> QED
      BY <1>0, <3>1, <3>3 DEF IdInv
  <2>6. ASSUME NEW p \in Processes, Kill(p) PROVE IdInv'
    <3>1. pc[p] # "writing"
      BY <1>3, <2>6 DEF Kill
    <3>2. OneMaker' /\ FileIsBeingMade'
      BY <1>0, <2>0, <2>6, <3>1 DEF Kill, OneMaker, Creating, FileIsBeingMade
    <3>3. OneId' /\ Identified'
      BY <1>0, <2>0, <2>6 DEF Kill, OneId, Identified, cloud
    <3> QED
      BY <1>0, <3>2, <3>3 DEF IdInv
  <2>7. CASE ListChanges \/ UNCHANGED vars
    <3>1. UNCHANGED <<idFile, pc, id, validated>>
      BY <2>7 DEF ListChanges, vars, process, cloud
    <3> QED
      BY <1>0, <2>0, <3>1 DEF IdInv, OneMaker, Creating, FileIsBeingMade, OneId, Identified
  <2> QED
    BY <1>0, <2>1, <2>2, <2>3, <2>4, <2>5, <2>6, <2>7, RestKeepsIds DEF Next, Step
<1> QED
  BY <1>1, <1>2, <1>3

----------------------------------------------------------------------------
(* The key store.                                                         *)

(* A step that has nothing to do with the file of the keys.                 *)
LEMMA ElsewhereKeepsStore ==
  ASSUME StoreInv, TypeInv',
         keyFile' = keyFile, "keys" \in torn => "keys" \in torn',
         \A q \in Processes : pc'[q] = "saving" <=> pc[q] = "saving"
  PROVE  StoreInv'
  BY DEF StoreInv, OneWriter, StoreIsBeingMade

(* Every step keeps what is known of the key store.                         *)
LEMMA NextStore == StoreInv /\ [Next]_vars => StoreInv'
<1> SUFFICES ASSUME StoreInv, [Next]_vars PROVE StoreInv'
  OBVIOUS
<1>0. TypeInv' /\ TypeOK
  BY NextType DEF StoreInv, TypeInv
<1> USE DEF TypeOK, Goto
<1> DEFINE Elsewhere ==
      /\ keyFile' = keyFile /\ ("keys" \in torn => "keys" \in torn')
      /\ \A q \in Processes : pc'[q] = "saving" <=> pc[q] = "saving"
<1>1. ASSUME NEW p \in Processes, NEW c \in {"sync", "verify", "list"}, Run(p, c) PROVE Elsewhere
  BY <1>0, <1>1 DEF Run, Ended
<1>2. ASSUME NEW p \in Processes, Look(p) PROVE Elsewhere
  BY <1>0, <1>2 DEF Look
<1>3. ASSUME NEW p \in Processes, ReadId(p) PROVE Elsewhere
  BY <1>0, <1>3 DEF ReadId
<1>4. ASSUME NEW p \in Processes, CreateId(p) PROVE Elsewhere
  BY <1>0, <1>4 DEF CreateId
<1>5. ASSUME NEW p \in Processes, WriteId(p) PROVE Elsewhere
  BY <1>0, <1>5 DEF WriteId
<1>6. ASSUME NEW p \in Processes, DiscoverSite(p) PROVE Elsewhere
  BY <1>0, <1>6 DEF DiscoverSite
<1>7. ASSUME NEW p \in Processes, Login(p) PROVE Elsewhere
  BY <1>0, <1>7 DEF Login
<1>8. ASSUME NEW p \in Processes, AskForCode(p) PROVE Elsewhere
  BY <1>0, <1>8 DEF AskForCode
<1>9. ASSUME NEW p \in Processes, ValidateNewDevice(p) PROVE Elsewhere
  BY <1>0, <1>9 DEF ValidateNewDevice
<1>10. ASSUME NEW p \in Processes, ListPage(p) PROVE Elsewhere
  BY <1>0, <1>10 DEF ListPage
<1>11. ASSUME NEW p \in Processes, ListFails(p) PROVE Elsewhere
  BY <1>0, <1>11 DEF ListFails
<1>12. ASSUME NEW p \in Processes, ListIsCut(p) PROVE Elsewhere
  BY <1>0, <1>12 DEF ListIsCut
<1>13. ASSUME NEW p \in Processes, LoadKeys(p) PROVE Elsewhere
  BY <1>0, <1>13 DEF LoadKeys
<1>14. CASE ListChanges \/ UNCHANGED vars
  BY <1>14, <1>0, ElsewhereKeepsStore DEF ListChanges, vars, process
<1>15. ASSUME NEW p \in Processes, OpenStore(p) PROVE StoreInv'
  <2>1. SUFFICES ASSUME "keys" \notin torn' PROVE (OneWriter /\ StoreIsBeingMade)'
    BY <1>0 DEF StoreInv
  <2>2. ~Others(p, {"saving"})
    BY <2>1, <1>15 DEF OpenStore
  <2>3. \A q \in Processes : pc'[q] = "saving" => q = p
    BY <1>0, <1>15, <2>2 DEF OpenStore, Others
  <2> QED
    BY <1>0, <1>15, <2>3 DEF OpenStore, OneWriter, StoreIsBeingMade
<1>16. ASSUME NEW p \in Processes, SaveStore(p) PROVE StoreInv'
  <2>1. SUFFICES ASSUME "keys" \notin torn' PROVE (OneWriter /\ StoreIsBeingMade)'
    BY <1>0 DEF StoreInv
  <2>2. keyFile = Empty /\ ~Others(p, {"saving"})
    <3>1. CASE "keys" \in torn
      BY <2>1, <3>1, <1>16 DEF SaveStore
    <3>2. CASE "keys" \notin torn
      BY <3>2, <1>16 DEF StoreInv, OneWriter, StoreIsBeingMade, SaveStore, Others
    <3> QED
      BY <3>1, <3>2
  <2>3. \A q \in Processes : pc'[q] # "saving"
    BY <1>0, <1>16, <2>2 DEF SaveStore, Others
  <2>4. keyFile' \notin {Empty, Broken}
    BY <1>16, <2>2, Contents DEF SaveStore
  <2> QED
    BY <2>3, <2>4 DEF OneWriter, StoreIsBeingMade
<1>17. ASSUME NEW p \in Processes, Kill(p) PROVE StoreInv'
  <2>1. CASE pc[p] = "saving"
    BY <1>0, <1>17, <2>1 DEF Kill, StoreInv
  <2>2. CASE pc[p] # "saving"
    <3>1. Elsewhere
      BY <1>0, <1>17, <2>2 DEF Kill
    <3> QED
      BY <1>0, <3>1, ElsewhereKeepsStore
  <2> QED
    BY <2>1, <2>2
<1>18. Elsewhere => StoreInv'
  BY <1>0, ElsewhereKeepsStore
<1> HIDE DEF Elsewhere
<1> QED
  BY <1>1, <1>2, <1>3, <1>4, <1>5, <1>6, <1>7, <1>8, <1>9, <1>10, <1>11, <1>12, <1>13, <1>14, <1>15, <1>16, <1>17, <1>18
     DEF Next, Step

(* Both hold in every state.                                                *)
LEMMA AlwaysInvs == Spec => [](IdInv /\ StoreInv)
  BY InitInvs, NextId, NextStore, PTL DEF Spec

----------------------------------------------------------------------------
(* What is left out of a list.  Induction is over a set of numbers.         *)
LEMMA LeastNumber ==
  ASSUME NEW T \in SUBSET Nat, T # {}
  PROVE  \E n \in T : \A m \in T : n <= m
<1> DEFINE less == {p \in Nat \X Nat : p[1] < p[2]}
<1>1. IsWellFoundedOn(less, Nat)
  BY NatLessThanWellFounded DEF OpToRel
<1>2. PICK n \in T : \A m \in T : ~(<<m, n>> \in less)
  <2> HIDE DEF less
  <2> QED BY <1>1, WFMin
<1>3. \A m \in T : ~(m < n)
  BY <1>2
<1> QED BY <1>3

(* ... so one that has 0 and each successor is Nat.                         *)
LEMMA SetInduction ==
  ASSUME NEW T \in SUBSET Nat, 0 \in T, \A n \in T : n + 1 \in T
  PROVE  T = Nat
<1> SUFFICES ASSUME Nat \ T # {} PROVE FALSE
  OBVIOUS
<1>1. PICK n \in Nat \ T : \A m \in Nat \ T : n <= m
  BY LeastNumber
<1>2. n - 1 \in T
  BY <1>1
<1> QED BY <1>1, <1>2

(* The function that Without defines.                                       *)
Keeps(kept, list, out, n) ==
  kept = [i \in 0..n |->
            IF i = 0 THEN <<>>
            ELSE IF list[i] \in out THEN kept[i - 1] ELSE Append(kept[i - 1], list[i])]

(* The function that Without defines exists for every list ...              *)
LEMMA KeepsExists ==
  ASSUME NEW list, NEW out, NEW n \in Nat
  PROVE  \E kept : Keeps(kept, list, out, n)
<1> DEFINE T == {k \in Nat : \E kept : Keeps(kept, list, out, k)}
<1>1. 0 \in T
  <2> DEFINE kept == [i \in 0..0 |-> <<>>]
  <2>1. Keeps(kept, list, out, 0)
    BY DEF Keeps
  <2> HIDE DEF kept
  <2> QED BY <2>1
<1>2. ASSUME NEW k \in T PROVE k + 1 \in T
  <2>1. PICK kept : Keeps(kept, list, out, k)
    OBVIOUS
  <2> DEFINE next == IF list[k + 1] \in out THEN kept[k] ELSE Append(kept[k], list[k + 1])
             more == [i \in 0..(k + 1) |-> IF i = k + 1 THEN next ELSE kept[i]]
             step(i) == IF i = 0 THEN <<>>
                        ELSE IF list[i] \in out THEN more[i - 1]
                        ELSE Append(more[i - 1], list[i])
  <2>2. \A i \in 0..k : kept[i] = IF i = 0 THEN <<>>
                                  ELSE IF list[i] \in out THEN kept[i - 1]
                                  ELSE Append(kept[i - 1], list[i])
    BY <2>1 DEF Keeps
  <2>3. \A i \in 0..k : more[i] = kept[i]
    OBVIOUS
  <2>4. more[k + 1] = next
    OBVIOUS
  <2>5. more = [i \in 0..(k + 1) |-> more[i]]
    OBVIOUS
  <2> HIDE DEF more
  <2>6. ASSUME NEW i \in 0..(k + 1) PROVE more[i] = step(i)
    <3>1. CASE i = k + 1
      <4>1. i # 0 /\ i - 1 = k /\ k \in 0..k
        BY <3>1
      <4> QED BY <2>3, <2>4, <3>1, <4>1
    <3>2. CASE i = 0
      BY <2>2, <2>3, <3>2
    <3>3. CASE i \in 1..k
      <4>1. i \in 0..k /\ i - 1 \in 0..k /\ i # 0
        BY <3>3
      <4> QED BY <2>2, <2>3, <4>1
    <3> QED BY <3>1, <3>2, <3>3
  <2>7. Keeps(more, list, out, k + 1)
    BY <2>5, <2>6 DEF Keeps
  <2> QED BY <2>7
<1> HIDE DEF T
<1>3. T \in SUBSET Nat
  BY DEF T
<1>4. T = Nat
  BY <1>1, <1>2, <1>3, SetInduction
<1> QED BY <1>4 DEF T

(* ... so Without satisfies its recursion.                                  *)
LEMMA WithoutKeeps ==
  ASSUME NEW S, NEW list \in Seq(S), NEW out
  PROVE  \E kept :
           /\ kept[0] = <<>>
           /\ \A i \in 1..Len(list) :
                kept[i] = IF list[i] \in out THEN kept[i - 1]
                          ELSE Append(kept[i - 1], list[i])
           /\ Without(list, out) = kept[Len(list)]
<1> DEFINE n == Len(list)
           kept == CHOOSE k : Keeps(k, list, out, n)
<1>1. n \in Nat
  OBVIOUS
<1>2. Without(list, out) = kept[n]
  BY DEF Without, Keeps
<1> HIDE DEF n
<1>3. Keeps(kept, list, out, n)
  BY <1>1, KeepsExists
<1> HIDE DEF kept
<1>4. \A i \in 0..n : kept[i] = IF i = 0 THEN <<>>
                               ELSE IF list[i] \in out THEN kept[i - 1]
                               ELSE Append(kept[i - 1], list[i])
  BY <1>3 DEF Keeps
<1>5. kept[0] = <<>>
  BY <1>1, <1>4
<1>6. \A i \in 1..n : kept[i] = IF list[i] \in out THEN kept[i - 1]
                               ELSE Append(kept[i - 1], list[i])
  BY <1>1, <1>4
<1> QED BY <1>2, <1>5, <1>6 DEF n

(* Nothing is left of nothing.                                              *)
LEMMA WithoutNothing ==
  ASSUME NEW out
  PROVE  Without(<<>>, out) = <<>>
<1> DEFINE list == <<>>
<1>1. list \in Seq({}) /\ Len(list) = 0
  OBVIOUS
<1> HIDE DEF list
<1>2. PICK kept :
        /\ kept[0] = <<>>
        /\ \A i \in 1..Len(list) :
             kept[i] = IF list[i] \in out THEN kept[i - 1] ELSE Append(kept[i - 1], list[i])
        /\ Without(list, out) = kept[Len(list)]
  BY <1>1, WithoutKeeps
<1>3. Without(list, out) = <<>>
  BY <1>1, <1>2
<1> QED BY <1>3 DEF list

(* Without of a list and one more.                                          *)
LEMMA WithoutAppend ==
  ASSUME NEW S, NEW list \in Seq(S), NEW x \in S, NEW out
  PROVE  Without(Append(list, x), out) =
           IF x \in out THEN Without(list, out) ELSE Append(Without(list, out), x)
<1> DEFINE more == Append(list, x)
           n == Len(list)
<1>1. more \in Seq(S) /\ Len(more) = n + 1 /\ more[n + 1] = x /\ n \in Nat
      /\ \A i \in 1..n : more[i] = list[i]
  OBVIOUS
<1> HIDE DEF more, n
<1>2. PICK f : /\ f[0] = <<>>
               /\ \A i \in 1..n : f[i] = IF list[i] \in out THEN f[i - 1]
                                         ELSE Append(f[i - 1], list[i])
               /\ Without(list, out) = f[n]
  BY WithoutKeeps DEF n
<1>3. PICK g : /\ g[0] = <<>>
               /\ \A i \in 1..(n + 1) : g[i] = IF more[i] \in out THEN g[i - 1]
                                               ELSE Append(g[i - 1], more[i])
               /\ Without(more, out) = g[n + 1]
  BY <1>1, WithoutKeeps
<1> DEFINE T == {i \in Nat : i <= n => g[i] = f[i]}
<1>4. 0 \in T
  BY <1>2, <1>3
<1>5. ASSUME NEW i \in T PROVE i + 1 \in T
  <2>1. SUFFICES ASSUME i + 1 <= n PROVE g[i + 1] = f[i + 1]
    OBVIOUS
  <2>2. i \in Nat /\ i + 1 \in 1..n /\ i + 1 \in 1..(n + 1) /\ (i + 1) - 1 = i /\ g[i] = f[i]
    BY <1>1, <2>1
  <2>3. more[i + 1] = list[i + 1]
    BY <1>1, <2>2
  <2> QED BY <1>2, <1>3, <2>2, <2>3
<1> HIDE DEF T
<1>6. T = Nat
  <2>1. T \in SUBSET Nat
    BY DEF T
  <2> QED BY <1>4, <1>5, <2>1, SetInduction
<1>7. g[n] = f[n]
  BY <1>1, <1>6 DEF T
<1>8. g[n + 1] = IF x \in out THEN g[n] ELSE Append(g[n], x)
  <2>1. n + 1 \in 1..(n + 1) /\ (n + 1) - 1 = n
    BY <1>1
  <2> QED BY <1>1, <1>3, <2>1
<1> QED BY <1>2, <1>3, <1>7, <1>8 DEF more

(* A list that is not empty is its front and its last element.              *)
LEMMA FrontAndLast ==
  ASSUME NEW S, NEW n \in Nat, NEW list \in Seq(S), Len(list) = n + 1
  PROVE  \E front \in Seq(S), x \in S :
           /\ list = Append(front, x) /\ Len(front) = n
           /\ \A i \in 1..n : front[i] = list[i]
<1> DEFINE front == [i \in 1..n |-> list[i]]
<1>1. front \in Seq(S) /\ Len(front) = n /\ list[n + 1] \in S
  OBVIOUS
<1>2. list = Append(front, list[n + 1])
  OBVIOUS
<1> QED BY <1>1, <1>2

(* What is left of two lists, one behind the other.                         *)
Parted(front, back, out, S) ==
  /\ Without(back, out) \in Seq(S)
  /\ Without(front \o back, out) = Without(front, out) \o Without(back, out)

(* Without works on each part of a list for itself.                         *)
LEMMA WithoutParts ==
  ASSUME NEW S, NEW out, NEW front \in Seq(S), NEW back \in Seq(S),
         Without(front, out) \in Seq(S)
  PROVE  Parted(front, back, out, S)
<1> DEFINE T == {n \in Nat : \A l \in Seq(S) : Len(l) = n => Parted(front, l, out, S)}
<1>1. 0 \in T
  <2> SUFFICES ASSUME NEW l \in Seq(S), Len(l) = 0 PROVE Parted(front, l, out, S)
    OBVIOUS
  <2>1. l = <<>>
    OBVIOUS
  <2>2. Without(l, out) = l
    BY <2>1, WithoutNothing, Zenon
  <2>3. PICK u : u = Without(front, out)
    OBVIOUS
  <2>4. front \o l = front /\ u \o l = u
    BY <2>1, <2>3
  <2>5. Without(l, out) \in Seq(S)
    BY <2>2
  <2>6. Without(front \o l, out) = Without(front, out) \o Without(l, out)
    BY <2>2, <2>3, <2>4
  <2> QED BY <2>5, <2>6 DEF Parted
<1>2. ASSUME NEW n \in T PROVE n + 1 \in T
  <2> SUFFICES ASSUME NEW l \in Seq(S), Len(l) = n + 1 PROVE Parted(front, l, out, S)
    OBVIOUS
  <2>1. PICK most \in Seq(S), x \in S :
          /\ l = Append(most, x) /\ Len(most) = n
          /\ \A i \in 1..n : most[i] = l[i]
    BY FrontAndLast
  <2>2. PICK v : v = Without(most, out)
    OBVIOUS
  <2>3. PICK u : u = Without(front, out)
    OBVIOUS
  <2>4. u \in Seq(S) /\ v \in Seq(S) /\ Without(front \o most, out) = u \o v
    <3>1. Parted(front, most, out, S)
      BY <2>1
    <3> QED BY <2>2, <2>3, <3>1 DEF Parted
  <2>5. Without(l, out) = IF x \in out THEN v ELSE Append(v, x)
    BY <2>1, <2>2, WithoutAppend
  <2>6. PICK w : w = front \o most
    OBVIOUS
  <2>7. Without(front \o l, out) = IF x \in out THEN u \o v ELSE Append(u \o v, x)
    <3>1. front \o l = Append(w, x) /\ w \in Seq(S)
      BY <2>1, <2>6
    <3>2. Without(w, out) = u \o v
      BY <2>4, <2>6
    <3>3. Without(Append(w, x), out) = IF x \in out THEN Without(w, out) ELSE Append(Without(w, out), x)
      BY <2>1, <3>1, WithoutAppend
    <3> QED BY <3>1, <3>2, <3>3
  <2>8. u \o Append(v, x) = Append(u \o v, x) /\ Append(v, x) \in Seq(S)
    BY <2>4
  <2> QED BY <2>3, <2>4, <2>5, <2>7, <2>8 DEF Parted
<1> HIDE DEF T
<1>3. T \in SUBSET Nat
  BY DEF T
<1>4. T = Nat
  BY <1>1, <1>2, <1>3, SetInduction
<1> QED BY <1>4 DEF T

(* What is left of a list of rows is a list of rows.                        *)
LEMMA WithoutType ==
  ASSUME NEW S, NEW out, NEW list \in Seq(S)
  PROVE  Without(list, out) \in Seq(S)
<1> DEFINE none == <<>>
<1>1. none \in Seq(S) /\ Without(none, out) = none
  BY WithoutNothing
<1> HIDE DEF none
<1> QED BY <1>1, WithoutParts DEF Parted

----------------------------------------------------------------------------
(* The listing: what a process has read is what parses of the pages before  *)
(* the one it asks for.                                                     *)
Starting == {"looking", "reading", "creating", "writing", "discovering", "loggingIn"}

ListedOk == listed \in Seq(Rows) /\ keys \in [Processes -> Seq(Rows)]

ReadSoFar(p) ==
  /\ pc[p] \in Starting => keys[p] = <<>> /\ page[p] = 1
  /\ pc[p] = "listing" /\ p \notin cut =>
       /\ (page[p] - 1) * PAGE <= Len(listed)
       /\ keys[p] = WellFormed(SubSeq(listed, 1, (page[p] - 1) * PAGE))

ListInv == TypeInv /\ ListedOk /\ \A p \in Processes : ReadSoFar(p)

(* Nothing is read yet.                                                     *)
LEMMA InitList == Init => ListInv
<1> SUFFICES ASSUME Init PROVE ListInv
  OBVIOUS
<1>1. TypeInv
  BY InitType
<1>2. listed \in Seq(Rows)
  <2>1. PICK rows \in SUBSET Rows : listed \in [1..Cardinality(rows) -> rows]
    BY DEF Init
  <2>2. Cardinality(rows) \in Nat
    BY CloudAssumption, FS_Subset, FS_CardinalityType
  <2> QED BY <2>1, <2>2
<1>3. keys = [p \in Processes |-> <<>>] /\ pc = [p \in Processes |-> "idle"]
  BY DEF Init
<1>4. keys \in [Processes -> Seq(Rows)]
  <2>1. <<>> \in Seq(Rows)
    OBVIOUS
  <2> QED BY <1>3, <2>1
<1>5. \A p \in Processes : ReadSoFar(p)
  BY <1>3 DEF ReadSoFar, Starting
<1> QED BY <1>1, <1>2, <1>4, <1>5 DEF ListInv, ListedOk

(* The quotient of a number, times its divisor, and the number.             *)
LEMMA Divided ==
  ASSUME NEW m \in Nat, NEW d \in Nat \ {0}
  PROVE  m \div d \in Nat /\ (m \div d) * d <= m /\ m < (m \div d) * d + d
<1> DEFINE q == m \div d
<1>1. q \in Int /\ q * d <= m /\ m < (q + 1) * d
  BY Z3
<1>2. (q + 1) * d = q * d + d
  BY <1>1, Z3
<1>3. q \in Nat
  BY <1>1, Z3
<1> QED BY <1>1, <1>2, <1>3

(* A page goes on where those before it end, and the last one ends with the *)
(* list.                                                                    *)
LEMMA PageIs ==
  ASSUME listed \in Seq(Rows), NEW n \in Nat \ {0}, (n - 1) * PAGE <= Len(listed)
  PROVE  \E b \in Nat :
           /\ (n - 1) * PAGE <= b /\ b <= Len(listed)
           /\ Page(n) = SubSeq(listed, (n - 1) * PAGE + 1, b)
           /\ b = IF IsLast(n, Page(n)) THEN Len(listed) ELSE n * PAGE
<1>1. PICK a \in Nat : a = (n - 1) * PAGE
  BY CloudAssumption
<1>2. PICK c \in Nat : c = n * PAGE
  BY CloudAssumption
<1>3. PICK length \in Nat : length = Len(listed)
  OBVIOUS
<1>4. PAGE \in Nat \ {0} /\ c = a + PAGE /\ a <= length
  BY <1>1, <1>2, <1>3, CloudAssumption
<1>5. PICK b \in Nat : b = IF c > length THEN length ELSE c
  BY <1>2, <1>3
<1>6. a <= b /\ b <= length
  BY <1>2, <1>3, <1>4, <1>5
<1>7. Page(n) = SubSeq(listed, a + 1, b)
  BY <1>1, <1>2, <1>3, <1>5 DEF Page
<1>8. Page(n) = <<>> => b = a
  <2>1. Len(SubSeq(listed, a + 1, b)) = b - a
    BY <1>1, <1>3, <1>5, <1>6
  <2>2. SUFFICES ASSUME SubSeq(listed, a + 1, b) = <<>> PROVE b = a
    BY <1>7
  <2>3. b - a = 0
    BY <2>1, <2>2
  <2> QED BY <2>3
<1>9. n >= Pages <=> c >= length
  <2>1. CASE listed = <<>>
    <3>1. length = 0
      BY <1>3, <2>1
    <3>2. Pages = 1
      BY <2>1 DEF Pages
    <3> QED BY <1>2, <3>1, <3>2
  <2>2. CASE listed # <<>>
    <3>1. length > 0
      BY <1>3, <2>2
    <3>2. PICK q \in Nat : /\ q = (length + PAGE - 1) \div PAGE
                           /\ q * PAGE <= length + PAGE - 1 /\ length + PAGE - 1 < q * PAGE + PAGE
      <4>1. length + PAGE - 1 \in Nat
        BY <1>4
      <4> QED BY <1>4, <4>1, Divided
    <3>3. Pages = q
      BY <1>3, <2>2, <3>2 DEF Pages
    <3>4. PICK e \in Nat : e = q * PAGE
      BY <1>4
    <3>5. ASSUME n >= q PROVE c >= length
      <4>1. n * PAGE >= q * PAGE
        BY <1>4, <3>5
      <4> QED BY <1>2, <1>4, <3>2, <3>4, <4>1
    <3>6. ASSUME ~(n >= q) PROVE ~(c >= length)
      <4>1. (n + 1) * PAGE <= q * PAGE /\ (n + 1) * PAGE = n * PAGE + PAGE
        BY <1>4, <3>6
      <4> QED BY <1>2, <1>4, <3>2, <3>4, <4>1
    <3> QED BY <3>3, <3>5, <3>6
  <2> QED BY <2>1, <2>2
<1>10. b = IF IsLast(n, Page(n)) THEN length ELSE c
  <2>1. CASE c >= length
    <3>1. IsLast(n, Page(n))
      BY <1>9, <2>1 DEF IsLast
    <3> QED BY <1>2, <1>3, <1>5, <2>1, <3>1
  <2>2. CASE ~(c >= length)
    <3>1. b = c
      BY <1>2, <1>3, <1>5, <2>2
    <3>2. Page(n) # <<>>
      BY <1>2, <1>4, <1>8, <3>1
    <3>3. ~IsLast(n, Page(n))
      BY <1>9, <2>2, <3>2 DEF IsLast
    <3> QED BY <3>1, <3>3
  <2> QED BY <2>1, <2>2
<1> QED BY <1>1, <1>2, <1>3, <1>5, <1>6, <1>7, <1>10

(* The front of a list is a shorter front and what follows it.              *)
LEMMA Pieces ==
  ASSUME NEW S, NEW s \in Seq(S), NEW a \in Nat, NEW b \in Nat, a <= b, b <= Len(s)
  PROVE  /\ SubSeq(s, 1, a) \in Seq(S) /\ SubSeq(s, a + 1, b) \in Seq(S)
         /\ SubSeq(s, 1, b) = SubSeq(s, 1, a) \o SubSeq(s, a + 1, b)
<1>1. PICK u : u = SubSeq(s, 1, a)
  OBVIOUS
<1>2. PICK v : v = SubSeq(s, a + 1, b)
  OBVIOUS
<1>3. PICK w : w = SubSeq(s, 1, b)
  OBVIOUS
<1>4. u \in Seq(S) /\ Len(u) = a /\ \A k \in 1..a : u[k] = s[k]
  BY <1>1
<1>5. v \in Seq(S) /\ Len(v) = b - a /\ \A k \in 1..(b - a) : v[k] = s[a + k]
  BY <1>2
<1>6. w \in Seq(S) /\ Len(w) = b /\ \A k \in 1..b : w[k] = s[k]
  BY <1>3
<1>7. PICK j : j = u \o v
  OBVIOUS
<1>8. /\ j \in Seq(S) /\ Len(j) = Len(u) + Len(v)
      /\ \A k \in 1..Len(u) : j[k] = u[k]
      /\ \A k \in 1..Len(v) : j[Len(u) + k] = v[k]
  <2>1. u \in Seq(S) /\ v \in Seq(S)
    BY <1>4, <1>5
  <2> QED BY <1>7, <2>1
<1>9. Len(j) = b
  BY <1>4, <1>5, <1>8
<1>10. ASSUME NEW k \in 1..b PROVE j[k] = w[k]
  <2>1. CASE k <= a
    <3>1. k \in 1..a
      BY <2>1
    <3> QED BY <1>4, <1>6, <1>8, <3>1
  <2>2. CASE k > a
    <3>1. k - a \in 1..(b - a) /\ a + (k - a) = k
      BY <2>2
    <3>2. j[k] = v[k - a]
      BY <1>4, <1>5, <1>8, <3>1
    <3>3. v[k - a] = s[k]
      BY <1>5, <3>1
    <3> QED BY <1>6, <3>2, <3>3
  <2> QED BY <2>1, <2>2
<1>11. j = w
  BY <1>6, <1>8, <1>9, <1>10
<1> QED BY <1>1, <1>2, <1>3, <1>4, <1>5, <1>7, <1>11

(* A page read behind those before it.                                      *)
LEMMA PageRead ==
  ASSUME TypeInv, ListedOk, NEW p \in Processes, ReadSoFar(p), ListPage(p), p \notin cut
  PROVE  /\ keys'[p] \in Seq(Rows)
         /\ IsLast(page[p], Page(page[p])) => keys'[p] = WellFormed(listed)
         /\ ~IsLast(page[p], Page(page[p])) =>
              /\ page[p] * PAGE <= Len(listed)
              /\ keys'[p] = WellFormed(SubSeq(listed, 1, page[p] * PAGE))
<1>1. PICK n \in Nat \ {0} : n = page[p]
  BY DEF TypeInv, TypeOK
<1>2. listed \in Seq(Rows)
  BY DEF ListedOk
<1>3. PICK a \in Nat : a = (n - 1) * PAGE
  BY CloudAssumption
<1>4. a <= Len(listed) /\ keys[p] = WellFormed(SubSeq(listed, 1, a)) /\ p \in DOMAIN keys
  BY <1>1, <1>3 DEF ReadSoFar, ListPage, ListedOk
<1>5. PICK b \in Nat :
        /\ a <= b /\ b <= Len(listed) /\ Page(n) = SubSeq(listed, a + 1, b)
        /\ b = IF IsLast(n, Page(n)) THEN Len(listed) ELSE n * PAGE
  BY <1>1, <1>2, <1>3, <1>4, PageIs
<1>6. PICK front : front = SubSeq(listed, 1, a)
  OBVIOUS
<1>7. PICK rows : rows = Page(n)
  OBVIOUS
<1>8. front \in Seq(Rows) /\ rows \in Seq(Rows) /\ SubSeq(listed, 1, b) = front \o rows
  <2>1. /\ SubSeq(listed, 1, a) \in Seq(Rows) /\ SubSeq(listed, a + 1, b) \in Seq(Rows)
        /\ SubSeq(listed, 1, b) = SubSeq(listed, 1, a) \o SubSeq(listed, a + 1, b)
    <3>1. a <= b /\ b <= Len(listed)
      BY <1>5
    <3> QED BY <1>2, <3>1, Pieces
  <2> QED BY <1>5, <1>6, <1>7, <2>1, Zenon
<1>9. /\ Without(rows, Malformed) \in Seq(Rows) /\ Without(front, Malformed) \in Seq(Rows)
      /\ Without(front \o rows, Malformed) = Without(front, Malformed) \o Without(rows, Malformed)
  <2>1. Without(front, Malformed) \in Seq(Rows)
    BY <1>8, WithoutType
  <2>2. Parted(front, rows, Malformed, Rows)
    BY <1>8, <2>1, WithoutParts
  <2> QED BY <2>1, <2>2 DEF Parted
<1>10. keys'[p] = keys[p] \o WellFormed(rows)
  BY <1>1, <1>4, <1>7 DEF ListPage
<1>11. keys'[p] = WellFormed(SubSeq(listed, 1, b))
  BY <1>4, <1>6, <1>8, <1>9, <1>10, Zenon DEF WellFormed
<1>12. keys'[p] \in Seq(Rows)
  BY <1>4, <1>6, <1>9, <1>10 DEF WellFormed
<1>13. SubSeq(listed, 1, Len(listed)) = listed
  BY <1>2
<1>14. ASSUME IsLast(n, Page(n)) PROVE keys'[p] = WellFormed(listed)
  BY <1>5, <1>11, <1>13, <1>14
<1>15. ASSUME ~IsLast(n, Page(n))
       PROVE  n * PAGE <= Len(listed) /\ keys'[p] = WellFormed(SubSeq(listed, 1, n * PAGE))
  BY <1>5, <1>11, <1>15
<1> QED BY <1>1, <1>12, <1>14, <1>15

(* A step of one process that does not change the list.                     *)
LEMMA OthersRead ==
  ASSUME ListInv, TypeInv', NEW p \in Processes, listed' = listed,
         \A q \in Processes : q # p =>
           pc'[q] = pc[q] /\ keys'[q] = keys[q] /\ page'[q] = page[q] /\ (q \in cut => q \in cut'),
         keys' \in [Processes -> Seq(Rows)], ReadSoFar(p)'
  PROVE  ListInv'
<1>1. ListedOk'
  BY DEF ListInv, ListedOk
<1>2. ASSUME NEW q \in Processes, q # p PROVE ReadSoFar(q)'
  <2>1. ReadSoFar(q) /\ pc'[q] = pc[q] /\ keys'[q] = keys[q] /\ page'[q] = page[q] /\ (q \in cut => q \in cut')
    BY <1>2 DEF ListInv
  <2> QED BY <2>1 DEF ReadSoFar
<1> QED BY <1>1, <1>2 DEF ListInv

(* Every step keeps what is known of the rows read ...                      *)
LEMMA NextList == ListInv /\ [Next]_vars => ListInv'
<1> SUFFICES ASSUME ListInv, [Next]_vars PROVE ListInv'
  OBVIOUS
<1>0. TypeInv' /\ TypeInv /\ TypeOK /\ ListedOk
  BY NextType DEF ListInv, TypeInv
<1>1. ASSUME NEW p \in Processes, UNCHANGED <<listed, keys, page>>, pc'[p] # "listing",
             pc'[p] \in Starting => pc[p] \in Starting,
             \A q \in Processes : q # p => pc'[q] = pc[q] /\ (q \in cut => q \in cut')
      PROVE  ListInv'
  <2>1. ReadSoFar(p)'
    <3>1. ReadSoFar(p)
      BY DEF ListInv
    <3> QED BY <1>1, <3>1 DEF ReadSoFar
  <2> QED BY <1>0, <1>1, <2>1, OthersRead DEF ListedOk
<1>2. ASSUME NEW p \in Processes, NEW c \in {"sync", "verify", "list"}, Run(p, c) PROVE ListInv'
  <2>1. /\ keys' = [keys EXCEPT ![p] = <<>>] /\ page' = [page EXCEPT ![p] = 1] /\ listed' = listed
        /\ cut' = cut \ {p} /\ pc' = [pc EXCEPT ![p] = IF c = "list" THEN "loading" ELSE "looking"]
    BY <1>2 DEF Run, Goto, cloud
  <2>2. keys' \in [Processes -> Seq(Rows)]
    BY <1>0, <2>1 DEF ListedOk
  <2>3. ReadSoFar(p)'
    BY <1>0, <2>1 DEF ReadSoFar, TypeOK, ListedOk
  <2>4. \A q \in Processes : q # p =>
          pc'[q] = pc[q] /\ keys'[q] = keys[q] /\ page'[q] = page[q] /\ (q \in cut => q \in cut')
    BY <1>0, <2>1 DEF TypeOK, ListedOk
  <2> QED BY <1>0, <2>1, <2>2, <2>3, <2>4, OthersRead
<1>3. ASSUME NEW p \in Processes, Login(p) PROVE ListInv'
  <2>1. UNCHANGED <<listed, keys, page, cut>> /\ pc[p] = "loggingIn"
        /\ \E where \in {"listing", "asking", "failed"} : pc' = [pc EXCEPT ![p] = where]
    BY <1>3 DEF Login, Goto, cloud
  <2>2. keys[p] = <<>> /\ page[p] = 1
    BY <2>1 DEF ListInv, ReadSoFar, Starting
  <2>3. (page[p] - 1) * PAGE = 0 /\ SubSeq(listed, 1, (page[p] - 1) * PAGE) = <<>>
    BY <1>0, <2>2, CloudAssumption DEF ListedOk
  <2>4. WellFormed(SubSeq(listed, 1, (page[p] - 1) * PAGE)) = keys[p]
    BY <2>2, <2>3, WithoutNothing, Zenon DEF WellFormed
  <2>5. 0 <= Len(listed)
    BY <1>0 DEF ListedOk
  <2>6. ReadSoFar(p)'
    BY <1>0, <2>1, <2>2, <2>3, <2>4, <2>5 DEF ReadSoFar, TypeOK, Starting
  <2>7. \A q \in Processes : q # p => pc'[q] = pc[q]
    BY <1>0, <2>1 DEF TypeOK
  <2> QED BY <1>0, <2>1, <2>6, <2>7, OthersRead DEF ListedOk
<1>4. ASSUME NEW p \in Processes, ListPage(p) PROVE ListInv'
  <2>1. /\ pc[p] = "listing" /\ UNCHANGED <<listed, cut>>
        /\ keys' = [keys EXCEPT ![p] = @ \o WellFormed(Page(page[p]))]
        /\ IF IsLast(page[p], Page(page[p]))
           THEN pc' = [pc EXCEPT ![p] = "storing"] /\ page' = page
           ELSE page' = [page EXCEPT ![p] = @ + 1] /\ pc' = pc
    BY <1>4 DEF ListPage, Goto, cloud
  <2>2. keys'[p] \in Seq(Rows)
    <3>1. PICK rows : rows = Page(page[p])
      OBVIOUS
    <3>2. rows \in Seq(Rows)
      <4>1. listed \in Seq(Rows) /\ page[p] \in Nat \ {0}
        BY <1>0 DEF ListedOk, TypeOK
      <4>2. PICK i \in Nat : i = (page[p] - 1) * PAGE + 1
        BY <4>1, CloudAssumption
      <4>3. PICK j \in Nat : j = page[p] * PAGE
        BY <4>1, CloudAssumption
      <4>4. rows = SubSeq(listed, i, IF j > Len(listed) THEN Len(listed) ELSE j)
        BY <3>1, <4>2, <4>3 DEF Page
      <4>5. i >= 1
        BY <4>1, <4>2, CloudAssumption
      <4> QED BY <4>1, <4>2, <4>3, <4>4, <4>5
    <3>3. Without(rows, Malformed) \in Seq(Rows)
      BY <3>2, WithoutType
    <3>4. keys[p] \in Seq(Rows)
      BY <1>0 DEF ListedOk
    <3>5. keys'[p] = keys[p] \o Without(rows, Malformed)
      BY <1>0, <2>1, <3>1 DEF ListedOk, WellFormed
    <3> QED BY <3>3, <3>4, <3>5
  <2>3. keys' \in [Processes -> Seq(Rows)] /\ \A q \in Processes : q # p => keys'[q] = keys[q]
    <3>1. PICK k : k = keys[p] \o WellFormed(Page(page[p]))
      OBVIOUS
    <3>2. keys' = [keys EXCEPT ![p] = k] /\ keys \in [Processes -> Seq(Rows)]
      BY <1>0, <2>1, <3>1 DEF ListedOk
    <3>3. k \in Seq(Rows)
      BY <2>2, <3>2
    <3> QED BY <3>2, <3>3
  <2>4. \A q \in Processes : q # p => pc'[q] = pc[q] /\ page'[q] = page[q]
    BY <1>0, <2>1 DEF TypeOK
  <2>5. ReadSoFar(p)'
    <3>1. CASE IsLast(page[p], Page(page[p]))
      <4>1. pc'[p] = "storing"
        BY <1>0, <2>1, <3>1 DEF TypeOK
      <4> QED BY <4>1 DEF ReadSoFar, Starting
    <3>2. CASE ~IsLast(page[p], Page(page[p]))
      <4>1. pc'[p] = "listing" /\ page'[p] = page[p] + 1 /\ page[p] \in Nat
        BY <1>0, <2>1, <3>2 DEF TypeOK
      <4>2. (page'[p] - 1) * PAGE = page[p] * PAGE
        BY <4>1
      <4>3. ASSUME p \notin cut
            PROVE  page[p] * PAGE <= Len(listed) /\ keys'[p] = WellFormed(SubSeq(listed, 1, page[p] * PAGE))
        <5>1. ReadSoFar(p)
          BY DEF ListInv
        <5> QED BY <1>0, <1>4, <3>2, <4>3, <5>1, PageRead
      <4> QED BY <2>1, <4>1, <4>2, <4>3 DEF ReadSoFar, Starting
    <3> QED BY <3>1, <3>2
  <2> QED BY <1>0, <2>1, <2>3, <2>4, <2>5, OthersRead
<1>5. ASSUME ListChanges PROVE ListInv'
  <2>1. /\ UNCHANGED <<pc, keys, page>> /\ cut' = cut \cup {p \in Processes : pc[p] = "listing"}
        /\ \E row \in Rows : listed' = Append(listed, row) \/ listed' = Without(listed, {row})
    BY <1>5 DEF ListChanges, process
  <2>2. listed' \in Seq(Rows)
    <3>1. PICK row \in Rows : listed' = Append(listed, row) \/ listed' = Without(listed, {row})
      BY <2>1
    <3>2. listed \in Seq(Rows)
      BY <1>0 DEF ListedOk
    <3>3. Without(listed, {row}) \in Seq(Rows)
      BY <3>2, WithoutType
    <3> QED BY <3>1, <3>2, <3>3
  <2>3. \A p \in Processes : ReadSoFar(p)'
    BY <2>1 DEF ListInv, ReadSoFar
  <2> QED BY <1>0, <2>1, <2>2, <2>3 DEF ListInv, ListedOk
<1>6. CASE UNCHANGED vars
  <2>1. UNCHANGED <<listed, pc, keys, page, cut>>
    BY <1>6 DEF vars, process, cloud
  <2>2. \A p \in Processes : ReadSoFar(p)'
    BY <2>1 DEF ListInv, ReadSoFar
  <2> QED BY <1>0, <2>1, <2>2 DEF ListInv, ListedOk
<1> USE DEF Goto, cloud, counts, Starting
<1>7. ASSUME NEW p \in Processes,
             Look(p) \/ ReadId(p) \/ CreateId(p) \/ WriteId(p) \/ DiscoverSite(p) \/ AskForCode(p)
      PROVE  ListInv'
  <2>1. UNCHANGED <<listed, keys, page, cut>> /\ pc[p] \in Starting \cup {"asking"}
    BY <1>7 DEF Look, ReadId, CreateId, WriteId, DiscoverSite, AskForCode
  <2>2. \E where \in PC \ {"listing"} :
          pc' = [pc EXCEPT ![p] = where] /\ (where \in Starting => pc[p] \in Starting)
    BY <1>7 DEF Look, ReadId, CreateId, WriteId, DiscoverSite, AskForCode, PC, Ended
  <2> QED BY <1>0, <1>1, <2>1, <2>2 DEF TypeOK
<1>8. ASSUME NEW p \in Processes,
             ValidateNewDevice(p) \/ ListFails(p) \/ ListIsCut(p) \/ OpenStore(p) \/ SaveStore(p)
               \/ LoadKeys(p) \/ Kill(p)
      PROVE  ListInv'
  <2>1. UNCHANGED <<listed, keys, page>> /\ cut \subseteq cut'
    BY <1>8 DEF ValidateNewDevice, ListFails, ListIsCut, OpenStore, SaveStore, LoadKeys, Kill
  <2>2. \E where \in {"done", "failed", "storing", "saving"} : pc' = [pc EXCEPT ![p] = where]
    BY <1>8 DEF ValidateNewDevice, ListFails, ListIsCut, OpenStore, SaveStore, LoadKeys, Kill
  <2> QED BY <1>0, <1>1, <2>1, <2>2 DEF TypeOK
<1> QED BY <1>2, <1>3, <1>4, <1>5, <1>6, <1>7, <1>8 DEF Next, Step

(* ... so it holds in every state.                                          *)
LEMMA AlwaysList == Spec => []ListInv
  BY InitList, NextList, PTL DEF Spec

----------------------------------------------------------------------------
(* The theorems.                                                           *)

(* Types: every process is at a step of its command, and the files hold     *)
(* what a process wrote or what a write that is under way has left.         *)
THEOREM TypeCorrect == Spec => []TypeOK
<1>1. IdInv => TypeOK
  BY DEF IdInv, TypeInv
<1> QED
  BY <1>1, AlwaysInvs, PTL

(* All processes use the identifier on disk, however many run at once, as   *)
(* long as none was killed or overtaken while it wrote one (load_uniqueid). *)
THEOREM InstallIdIsOne == Spec => []OneInstallId
<1>1. IdInv => OneInstallId
  BY DEF IdInv, OneId, OneInstallId
<1> QED
  BY <1>1, AlwaysInvs, PTL

(* Once a device was validated no login of it is turned away, with the same *)
(* exception (TTLockCloud.login, validate_new_device).                      *)
THEOREM ValidationLasts == Spec => ValidatedOnce
<1> DEFINE Kept ==
      \A p \in Processes :
        pc[p] = "loggingIn" /\ pc'[p] = "asking" => validated = {} \/ "uniqueid" \in torn
<1>1. ASSUME IdInv, [Next]_vars, NEW p \in Processes,
             pc[p] = "loggingIn", pc'[p] = "asking", "uniqueid" \notin torn
      PROVE  validated = {}
  <2>1. TypeOK /\ OneId /\ Identified
    BY <1>1 DEF IdInv, TypeInv
  <2>2. id[p] \notin validated
    <3>1. Login(p)
      <4>1. ASSUME NEW q \in Processes, q # p,
                   Step(q) \/ Kill(q) \/ \E c \in {"sync", "verify", "list"} : Run(q, c)
            PROVE  pc'[p] = pc[p]
        BY <2>1, <4>1
           DEF TypeOK, Goto, Step, Run, Look, ReadId, CreateId, WriteId, DiscoverSite, Login, AskForCode,
               ValidateNewDevice, ListPage, ListFails, ListIsCut, OpenStore, SaveStore, LoadKeys, Kill
      <4>2. ASSUME Step(p) \/ Kill(p) \/ \E c \in {"sync", "verify", "list"} : Run(p, c)
            PROVE  Login(p)
        BY <1>1, <2>1, <4>2
           DEF TypeOK, Goto, Step, Run, Look, ReadId, CreateId, WriteId, DiscoverSite, Login, AskForCode,
               ValidateNewDevice, ListPage, ListFails, ListIsCut, OpenStore, SaveStore, LoadKeys, Kill, Ended
      <4>3. ~(ListChanges \/ UNCHANGED vars)
        BY <1>1 DEF ListChanges, vars, process
      <4> QED
        BY <1>1, <4>1, <4>2, <4>3 DEF Next
    <3> QED
      BY <1>1, <2>1, <3>1 DEF TypeOK, Login, Goto
  <2>3. idFile = Whole(id[p])
    BY <1>1, <2>1 DEF OneId, Identified
  <2>4. \A i \in validated : i = id[p]
    BY <2>1, <2>3, Contents DEF OneId
  <2> QED
    BY <2>2, <2>4
<1>2. IdInv /\ [Next]_vars => [Kept]_vars
  BY <1>1
<1> QED
  BY <1>2, AlwaysInvs, PTL DEF Spec, ValidatedOnce

(* The key store is readable but while a sync writes it or after one was    *)
(* spoilt, and a later sync repairs it (sync in cli.py, Path.write_text).   *)
THEOREM KeyStoreStaysReadable == Spec => []KeyStoreIsReadable
<1>1. StoreInv => KeyStoreIsReadable
  BY DEF StoreInv, StoreIsBeingMade, KeyStoreIsReadable
<1> QED
  BY <1>1, AlwaysInvs, PTL

(* What a sync is about to save is what parses of the cloud's list, however *)
(* many pages it has, if the list did not change meanwhile                  *)
(* (TTLockCloud.list_keys, sync in cli.py).                                 *)
THEOREM SyncsAreComplete == Spec => SyncIsComplete
<1> DEFINE Complete ==
      \A p \in Processes :
        pc[p] = "listing" /\ pc'[p] = "storing" /\ p \notin cut' => keys'[p] = WellFormed(listed)
<1>1. ASSUME ListInv, [Next]_vars, NEW p \in Processes,
             pc[p] = "listing", pc'[p] = "storing", p \notin cut'
      PROVE  keys'[p] = WellFormed(listed)
  <2>1. TypeInv /\ TypeOK /\ ListedOk /\ ReadSoFar(p)
    BY <1>1 DEF ListInv, TypeInv
  <2>2. ListPage(p)
    <3> USE DEF TypeOK, Goto
    <3>1. ASSUME NEW q \in Processes, q # p,
                 Step(q) \/ Kill(q) \/ \E c \in {"sync", "verify", "list"} : Run(q, c)
          PROVE  pc'[p] = pc[p]
      BY <2>1, <3>1
         DEF Step, Run, Look, ReadId, CreateId, WriteId, DiscoverSite, Login, AskForCode,
             ValidateNewDevice, ListPage, ListFails, ListIsCut, OpenStore, SaveStore, LoadKeys, Kill
    <3>2. ASSUME Step(p) \/ Kill(p) \/ \E c \in {"sync", "verify", "list"} : Run(p, c)
          PROVE  ListPage(p)
      BY <1>1, <2>1, <3>2
         DEF Step, Run, Look, ReadId, CreateId, WriteId, DiscoverSite, Login, AskForCode, ListFails,
             ValidateNewDevice, ListIsCut, OpenStore, SaveStore, LoadKeys, Kill, Ended
    <3>3. ~(ListChanges \/ UNCHANGED vars)
      BY <1>1 DEF ListChanges, vars, process
    <3> QED BY <1>1, <3>1, <3>2, <3>3 DEF Next
  <2>3. p \notin cut /\ IsLast(page[p], Page(page[p]))
    BY <1>1, <2>1, <2>2 DEF ListPage, Goto, TypeOK
  <2> QED BY <2>1, <2>2, <2>3, PageRead
<1>2. ListInv /\ [Next]_vars => [Complete]_vars
  BY <1>1
<1> QED BY <1>2, AlwaysList, PTL DEF Spec, SyncIsComplete
=============================================================================
