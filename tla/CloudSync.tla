------------------------------ MODULE CloudSync ------------------------------
(***************************************************************************)
(* `ttlock sync`, `ttlock verify` and the commands that read the key store, *)
(* each a process of its own: TTLockCloud against the cloud, and the two   *)
(* files under ~/.ttlock, the install identifier and the cached keys.      *)
(*                                                                         *)
(* Processes interleave between the file system calls and the requests     *)
(* they make, and may be killed at any point.  Path.write_text opens the   *)
(* file, which empties it, and then writes.  The cloud and its list of     *)
(* keys are the environment.                                               *)
(***************************************************************************)
EXTENDS Naturals, FiniteSets, Lists

CONSTANTS
  Processes,   \* processes of one user
  Rows,        \* keys the cloud can list
  Malformed,   \* those of them that do not parse
  PAGE,        \* rows in a page of the cloud
  MaxRuns,     \* bound: commands run
  MaxKills,    \* bound: processes killed
  MaxChanges   \* bound: changes of the cloud's list

ASSUME CloudAssumption ==
  /\ IsFiniteSet(Rows) /\ Malformed \subseteq Rows
  /\ PAGE \in Nat \ {0}
  /\ MaxRuns \in Nat /\ MaxKills \in Nat /\ MaxChanges \in Nat

VARIABLES
  idFile,     \* ~/.ttlock/uniqueid
  keyFile,    \* KEY_STORE
  pc,         \* the step each process is at
  cmd,        \* the command it runs, or ran last
  id,         \* _uniqueid
  keys,       \* keys: the rows read so far
  page,       \* page_no
  listed,     \* the cloud's list of keys
  validated,  \* the install identifiers the cloud knows
  minted,     \* history: identifiers made
  runs,       \* history: commands run
  kills,      \* history: processes killed
  changes,    \* history: changes of the list
  cut,        \* history: processes whose listing the cloud changed or cut
  torn        \* history: the files a kill or an overlap of processes spoilt

process == <<pc, cmd, id, keys, page>>
cloud == <<listed, validated>>
counts == <<minted, runs, kills, changes>>
vars == <<idFile, keyFile, process, cloud, counts, cut, torn>>

Absent == [state |-> "absent"]

Empty == [state |-> "empty"]

(* Writes of two processes over one another: not JSON.                      *)
Broken == [state |-> "broken"]

Whole(content) == [state |-> "whole", content |-> content]

(* The identifier not loaded yet, and the one read from an empty file.      *)
NoId == 0

Blank == MaxRuns + 1

Ended == {"idle", "done", "failed"}

PC == Ended \cup
      {"looking", "reading", "creating", "writing", "discovering", "loggingIn",
       "asking", "validating", "listing", "storing", "saving", "loading"}

TypeOK ==
  /\ idFile \in {Absent, Empty} \cup {Whole(i) : i \in Nat \ {NoId}}
  /\ keyFile \in {Absent, Empty, Broken} \/ keyFile.state = "whole"
  /\ pc \in [Processes -> PC]
  /\ cmd \in [Processes -> {"sync", "verify", "list"}]
  /\ id \in [Processes -> Nat]
  /\ page \in [Processes -> Nat \ {0}]
  /\ validated \subseteq Nat
  /\ minted \in Nat
  /\ runs \in 0..MaxRuns
  /\ kills \in 0..MaxKills
  /\ changes \in 0..MaxChanges
  /\ cut \subseteq Processes
  /\ torn \subseteq {"uniqueid", "keys"}

Init ==
  /\ idFile = Absent
  /\ keyFile = Absent
  /\ pc = [p \in Processes |-> "idle"]
  /\ cmd = [p \in Processes |-> "sync"]
  /\ id = [p \in Processes |-> NoId]
  /\ keys = [p \in Processes |-> <<>>]
  /\ page = [p \in Processes |-> 1]
  /\ \E rows \in SUBSET Rows :
       /\ listed \in [1..Cardinality(rows) -> rows]
       /\ \A i, j \in 1..Len(listed) : listed[i] = listed[j] => i = j
  /\ validated = {}
  /\ minted = 0 /\ runs = 0 /\ kills = 0 /\ changes = 0 /\ cut = {} /\ torn = {}

Goto(p, where) == pc' = [pc EXCEPT ![p] = where]

Others(p, where) == \E q \in Processes \ {p} : pc[q] \in where

----------------------------------------------------------------------------
(* The install identifier: load_uniqueid.                                  *)

(* sync and verify load it for their first request, discover_site; the      *)
(* other commands only read the key store.                                  *)
Run(p, c) ==
  /\ pc[p] \in Ended
  /\ runs < MaxRuns
  /\ runs' = runs + 1
  /\ cmd' = [cmd EXCEPT ![p] = c]
  /\ Goto(p, IF c = "list" THEN "loading" ELSE "looking")
  /\ id' = [id EXCEPT ![p] = NoId]
  /\ keys' = [keys EXCEPT ![p] = <<>>]
  /\ page' = [page EXCEPT ![p] = 1]
  /\ cut' = cut \ {p}
  /\ UNCHANGED <<idFile, keyFile, cloud, minted, kills, changes, torn>>

(* Fault: the identifier is made anew on every run.                         *)
LookForgetting(p) ==
  /\ pc[p] = "looking"
  /\ Goto(p, "creating")
  /\ UNCHANGED <<idFile, keyFile, cmd, id, keys, page, cloud, counts, cut, torn>>

(* f.exists().  A process that looks while another makes the file makes     *)
(* another identifier, or reads an empty file.                              *)
Look(p) ==
  /\ pc[p] = "looking"
  /\ Goto(p, IF idFile = Absent THEN "creating" ELSE "reading")
  /\ torn' = IF Others(p, {"creating", "writing"})
             THEN torn \cup {"uniqueid"} ELSE torn
  /\ UNCHANGED <<idFile, keyFile, cmd, id, keys, page, cloud, counts, cut>>

ReadId(p) ==
  /\ pc[p] = "reading"
  /\ id' = [id EXCEPT ![p] = IF idFile = Empty THEN Blank ELSE idFile.content]
  /\ Goto(p, "discovering")
  /\ UNCHANGED <<idFile, keyFile, cmd, keys, page, cloud, counts, cut, torn>>

(* write_text opens the file ...                                            *)
CreateId(p) ==
  /\ pc[p] = "creating"
  /\ idFile' = Empty
  /\ Goto(p, "writing")
  /\ UNCHANGED <<keyFile, cmd, id, keys, page, cloud, counts, cut, torn>>

(* ... and writes the identifier; all of them have the same length.         *)
WriteId(p) ==
  /\ pc[p] = "writing"
  /\ minted' = minted + 1
  /\ idFile' = Whole(minted + 1)
  /\ id' = [id EXCEPT ![p] = minted + 1]
  /\ Goto(p, "discovering")
  /\ UNCHANGED <<keyFile, cmd, keys, page, cloud, runs, kills, changes, cut, torn>>

----------------------------------------------------------------------------
(* The requests.                                                           *)

(* A CloudError is reported or suppressed and the default site used; any    *)
(* other exception ends the process.                                        *)
DiscoverSite(p) ==
  /\ pc[p] = "discovering"
  /\ \/ cmd[p] = "sync" /\ Goto(p, "loggingIn")
     \/ cmd[p] = "verify" /\ Goto(p, "validating")
     \/ Goto(p, "failed")
  /\ UNCHANGED <<idFile, keyFile, cmd, id, keys, page, cloud, counts, cut, torn>>

(* The cloud logs in the devices it knows, ERR_NEW_DEVICE_LOGIN otherwise.  *)
Login(p) ==
  /\ pc[p] = "loggingIn"
  /\ \/ Goto(p, IF id[p] \in validated THEN "listing" ELSE "asking")
     \/ Goto(p, "failed")
  /\ UNCHANGED <<idFile, keyFile, cmd, id, keys, page, cloud, counts, cut, torn>>

(* Fault: sync logs in again instead of exiting.                            *)
AskForCodeAndRetry(p) ==
  /\ pc[p] = "asking"
  /\ Goto(p, "loggingIn")
  /\ UNCHANGED <<idFile, keyFile, cmd, id, keys, page, cloud, counts, cut, torn>>

(* request_login_verification_code; the command exits either way.           *)
AskForCode(p) ==
  /\ pc[p] = "asking"
  /\ Goto(p, "failed")
  /\ UNCHANGED <<idFile, keyFile, cmd, id, keys, page, cloud, counts, cut, torn>>

ValidateNewDevice(p) ==
  /\ pc[p] = "validating"
  /\ \/ Goto(p, "done") /\ validated' = validated \cup {id[p]}
     \/ Goto(p, "failed") /\ UNCHANGED validated
  /\ UNCHANGED <<idFile, keyFile, cmd, id, keys, page, listed, counts, cut, torn>>

(* A page of the cloud, and the number of pages, at least 1.                *)
Page(n) ==
  SubSeq(listed, (n - 1) * PAGE + 1,
         IF n * PAGE > Len(listed) THEN Len(listed) ELSE n * PAGE)

Pages == IF listed = <<>> THEN 1 ELSE (Len(listed) + PAGE - 1) \div PAGE

(* Fault: the last page is never asked for.                                 *)
IsLastEarly(n, rows) == n + 1 >= Pages \/ rows = <<>>

(* page_no >= pages or not page.                                            *)
IsLast(n, rows) == n >= Pages \/ rows = <<>>

WellFormed(rows) == Without(rows, Malformed)

ListPage(p) ==
  LET rows == Page(page[p])
  IN  /\ pc[p] = "listing"
      /\ keys' = [keys EXCEPT ![p] = @ \o WellFormed(rows)]
      /\ IF IsLast(page[p], rows)
         THEN Goto(p, "storing") /\ UNCHANGED page
         ELSE page' = [page EXCEPT ![p] = @ + 1] /\ UNCHANGED pc
      /\ UNCHANGED <<idFile, keyFile, cmd, id, cloud, counts, cut, torn>>

ListFails(p) ==
  /\ pc[p] = "listing"
  /\ Goto(p, "failed")
  /\ UNCHANGED <<idFile, keyFile, cmd, id, keys, page, cloud, counts, cut, torn>>

(* A reply without a list of rows ends the listing, and sync saves what     *)
(* there is.                                                                *)
ListIsCut(p) ==
  /\ pc[p] = "listing"
  /\ Goto(p, "storing")
  /\ cut' = cut \cup {p}
  /\ UNCHANGED <<idFile, keyFile, cmd, id, keys, page, cloud, counts, torn>>

----------------------------------------------------------------------------
(* The key store.                                                          *)

(* Fault: the file is opened without being emptied.                         *)
OpenStoreInPlace(p) ==
  /\ pc[p] = "storing"
  /\ Goto(p, "saving")
  /\ UNCHANGED <<idFile, keyFile, cmd, id, keys, page, cloud, counts, cut, torn>>

(* write_text opens the file ...                                            *)
OpenStore(p) ==
  /\ pc[p] = "storing"
  /\ keyFile' = Empty
  /\ Goto(p, "saving")
  /\ torn' = IF Others(p, {"saving"}) THEN torn \cup {"keys"} ELSE torn
  /\ UNCHANGED <<idFile, cmd, id, keys, page, cloud, counts, cut>>

(* ... and writes; on top of what another process has written since.        *)
SaveStore(p) ==
  /\ pc[p] = "saving"
  /\ keyFile' \in {Whole(keys[p])} \cup (IF keyFile = Empty THEN {} ELSE {Broken})
  /\ torn' = IF keyFile = Empty /\ ~Others(p, {"saving"})
             THEN torn \ {"keys"} ELSE torn
  /\ Goto(p, "done")
  /\ UNCHANGED <<idFile, cmd, id, keys, page, cloud, counts, cut>>

(* _load_keys: a missing file is a usage error, one that does not parse     *)
(* raises JSONDecodeError.                                                  *)
LoadKeys(p) ==
  /\ pc[p] = "loading"
  /\ Goto(p, IF keyFile \in {Absent, Empty, Broken} THEN "failed" ELSE "done")
  /\ UNCHANGED <<idFile, keyFile, cmd, id, keys, page, cloud, counts, cut, torn>>

----------------------------------------------------------------------------
(* The environment.                                                        *)

Kill(p) ==
  /\ pc[p] \notin Ended
  /\ kills < MaxKills
  /\ kills' = kills + 1
  /\ Goto(p, "failed")
  /\ torn' = torn \cup
       CASE pc[p] = "writing" -> {"uniqueid"}
         [] pc[p] = "saving"  -> {"keys"}
         [] OTHER             -> {}
  /\ UNCHANGED <<idFile, keyFile, cmd, id, keys, page, cloud, minted, runs,
                 changes, cut>>

(* A key is shared with the account, or one is revoked.                     *)
ListChanges ==
  /\ changes < MaxChanges
  /\ changes' = changes + 1
  /\ \/ \E row \in Rows :
          /\ \A i \in 1..Len(listed) : listed[i] # row
          /\ listed' = Append(listed, row)
     \/ \E row \in Rows :
          /\ \E i \in 1..Len(listed) : listed[i] = row
          /\ listed' = Without(listed, {row})
  /\ cut' = cut \cup {p \in Processes : pc[p] = "listing"}
  /\ UNCHANGED <<idFile, keyFile, process, validated, minted, runs, kills, torn>>

Step(p) ==
  \/ Look(p) \/ ReadId(p) \/ CreateId(p) \/ WriteId(p)
  \/ DiscoverSite(p) \/ Login(p) \/ AskForCode(p) \/ ValidateNewDevice(p)
  \/ ListPage(p) \/ ListFails(p) \/ ListIsCut(p)
  \/ OpenStore(p) \/ SaveStore(p) \/ LoadKeys(p)

Next ==
  \/ \E p \in Processes :
        \/ \E c \in {"sync", "verify", "list"} : Run(p, c)
        \/ Step(p)
        \/ Kill(p)
  \/ ListChanges

Spec == Init /\ [][Next]_vars

(* The processes run, and a request is answered or times out (httpx).       *)
FairSpec == Spec /\ \A p \in Processes : WF_vars(Step(p))

----------------------------------------------------------------------------
(* Properties.                                                             *)

(* load_uniqueid: "the persistent install identifier".  All processes use   *)
(* the one on disk, unless one was killed or another looked while it was    *)
(* being made.                                                              *)
OneInstallId ==
  "uniqueid" \notin torn =>
    \A p \in Processes : id[p] # NoId => idFile = Whole(id[p])

(* "Persisted across runs so the cloud doesn't trigger new-device           *)
(* validation on every login": once a verify has gone through, no login is  *)
(* turned away, with the same exception.                                    *)
ValidatedOnce ==
  [][\A p \in Processes :
       pc[p] = "loggingIn" /\ pc'[p] = "asking" =>
         validated = {} \/ "uniqueid" \in torn]_vars

(* The key store can be read at any time but while a sync writes it, after  *)
(* one was killed there, or after two wrote at once; and the next sync      *)
(* repairs it.                                                              *)
KeyStoreIsReadable ==
  \/ keyFile \notin {Empty, Broken}
  \/ \E p \in Processes : pc[p] = "saving"
  \/ "keys" \in torn

(* What sync is about to save is every key of the account that parses, in   *)
(* order and once, if the list did not change while it was read.            *)
SyncIsComplete ==
  [][\A p \in Processes :
       pc[p] = "listing" /\ pc'[p] = "storing" /\ p \notin cut' =>
         keys'[p] = WellFormed(listed)]_vars

(* Every command ends, also when the list changes while it is read.         *)
CommandsEnd == \A p \in Processes : pc[p] \notin Ended ~> pc[p] \in Ended
=============================================================================
