------------------------------ MODULE Listings ------------------------------
(***************************************************************************)
(* The methods of TTLockClient that read a list from the lock one command  *)
(* at a time: get_cards and get_fingerprints by index, get_passcodes by    *)
(* the lock's cursor with a cap on the commands, get_operation_log by the  *)
(* lock's sequence numbers.                                                *)
(*                                                                         *)
(* The command path (CommandExchange) runs one such call at a time.  Its   *)
(* exchange fails, or returns the reply to the command, or to an earlier   *)
(* command of the same opcode whose exchange had given up.  The lock is    *)
(* either a proper one or one that answers whatever it likes.              *)
(***************************************************************************)
EXTENDS Integers, FiniteSets, Lists

CONSTANTS
  MAX_ENTRIES,  \* _MAX_CARD_ENTRIES, _MAX_PASSCODE_ENTRIES, ...
  SEQUENCES,    \* sequence numbers are below it, 2^16 in the code
  MaxStored,    \* bound: entries on a proper lock
  MaxNext,      \* bound: sequence numbers of a lock that is not
  MaxCalls      \* bound: calls made

ASSUME ListingsAssumption ==
  /\ MAX_ENTRIES \in Nat \ {0}
  /\ SEQUENCES \in Nat
  /\ MaxStored \in Nat /\ MaxStored < SEQUENCES - 2
  /\ MaxNext \in Nat /\ MaxNext < SEQUENCES
  /\ MaxCalls \in Nat

VARIABLES
  method,    \* the listing that runs, or ran last
  phase,     \* "idle", "running", or how the last one ended
  cursor,    \* index, sequence or next_seq: what the next command asks for
  limit,     \* max_entries
  attempt,   \* how far the for loop over its range is
  entries,   \* entries, all_entries
  seen,      \* seen: record numbers
  late,      \* replies to commands whose exchange had given up
  calls,     \* history: calls made
  proper,    \* the lock keeps to the protocol
  stored,    \* a proper lock's entries are 1..stored
  unread,    \* its first record after the last sync
  unlisted,  \* its passcodes of a type with no known layout
  start,     \* history: what the listing began with
  trouble    \* history: an exchange of this listing failed, or the lock
             \* refused, or a reply did not parse, or was a late one

client == <<method, phase, cursor, limit, attempt, entries, seen>>
lock == <<proper, stored, unread, unlisted>>
vars == <<client, lock, late, calls, start, trouble>>

Indexed == {"get_cards", "get_fingerprints"}

Methods == Indexed \cup {"get_passcodes", "get_operation_log"}

(* 0xFFFF: what I have not seen since the last sync.                        *)
SinceLastSync == SEQUENCES - 1

(* max_entries is None.                                                     *)
Unlimited == 3 * SEQUENCES

Numbers == -2..(SEQUENCES - 1)

(* What a reply parses to: the entries in it and the sequence number.  No   *)
(* entry is the end of the list, an empty page, or an entry that is skipped. *)
Reply == [status : {"ok", "failed", "garbled"}, items : Seq(Numbers),
          next : 0..(SEQUENCES - 1)]

TypeOK ==
  /\ method \in Methods
  /\ phase \in {"idle", "running", "returned", "raised"}
  /\ cursor \in 0..(SEQUENCES - 1) \cup 0..MAX_ENTRIES
  /\ limit \in Nat
  /\ attempt \in 0..MAX_ENTRIES
  /\ entries \in Seq(Numbers)
  /\ seen \subseteq Numbers
  /\ late \in Seq(Reply)
  /\ calls \in 0..MaxCalls
  /\ proper \in BOOLEAN
  /\ stored \in 0..MaxStored
  /\ unread \in 1..(MaxStored + 1)
  /\ unlisted \subseteq 1..MaxStored
  /\ start \in [stored : 0..MaxStored, cursor : 0..(SEQUENCES - 1)]
  /\ trouble \in BOOLEAN

Init ==
  /\ method = "get_cards"
  /\ phase = "idle"
  /\ cursor = 0
  /\ limit = Unlimited
  /\ attempt = 0
  /\ entries = <<>>
  /\ seen = {}
  /\ late = <<>>
  /\ calls = 0
  /\ proper \in BOOLEAN
  /\ stored \in IF proper THEN 0..MaxStored ELSE {0}
  /\ unread \in 1..(stored + 1)
  /\ unlisted \in SUBSET (1..stored)
  /\ start = [stored |-> 0, cursor |-> 0]
  /\ trouble = FALSE

----------------------------------------------------------------------------
(* The lock.                                                               *)

ItemAt(n) == IF n \in 1..stored THEN <<n>> ELSE <<>>

(* A proper lock answers an index with the entry there, a passcode cursor   *)
(* with the entry after it and the next cursor, a sequence number with that *)
(* record and the number after it.                                          *)
ProperItems ==
  CASE method \in Indexed -> ItemAt(cursor + 1)
    [] method = "get_passcodes" ->
         IF cursor + 1 \in unlisted THEN <<>> ELSE ItemAt(cursor + 1)
    [] method = "get_operation_log" ->
         ItemAt(IF cursor = SinceLastSync THEN unread ELSE cursor)

ProperNext ==
  CASE method \in Indexed -> 0
    [] method = "get_passcodes" -> IF cursor + 1 < stored THEN cursor + 1 ELSE 0
    [] method = "get_operation_log" ->
         IF ProperItems = <<>> THEN 0 ELSE ProperItems[1] + 1

(* A page of the log numbers its records down from the sequence number.     *)
Page(next, size) == [i \in 1..size |-> next - i]

Refusals ==
  {[status |-> s, items |-> <<>>, next |-> 0] : s \in {"failed", "garbled"}}

ProperReplies ==
  Refusals \cup {[status |-> "ok", items |-> ProperItems, next |-> ProperNext]}

AnyReplies ==
  Refusals \cup
  {[status |-> "ok",
    items |-> IF method = "get_operation_log" THEN Page(n, size)
              ELSE [i \in 1..(size % 2) |-> n],
    next |-> n] : n \in 0..MaxNext, size \in 0..2}

LockReplies == IF proper THEN ProperReplies ELSE AnyReplies

(* A card is enrolled, a passcode is added, the door is opened: at the end. *)
Grows ==
  /\ proper
  /\ stored < MaxStored
  /\ stored' = stored + 1
  /\ UNCHANGED <<client, proper, unread, unlisted, late, calls, start, trouble>>

----------------------------------------------------------------------------
(* The client.                                                             *)

(* The call enters its loop.  Replies that were late have come meanwhile,   *)
(* and went elsewhere, or are still to come and find a command of the same  *)
(* opcode waiting.                                                          *)
Begin(m, from, max) ==
  /\ phase # "running"
  /\ calls < MaxCalls
  /\ calls' = calls + 1
  /\ phase' = "running"
  /\ method' = m
  /\ cursor' = from
  /\ limit' = max
  /\ attempt' = 0
  /\ entries' = <<>>
  /\ seen' = {}
  /\ late' \in IF m = method THEN {late, <<>>} ELSE {<<>>}
  /\ start' = [stored |-> stored, cursor |-> from]
  /\ trouble' = (late' # <<>>)
  /\ UNCHANGED lock

Return(list) ==
  /\ phase' = "returned"
  /\ entries' = list
  /\ UNCHANGED cursor

Raise ==
  /\ phase' = "raised"
  /\ UNCHANGED <<cursor, entries>>

(* Fault: the last command allowed is not sent.                             *)
CappedEarly(n) == n >= MAX_ENTRIES - 1

(* Fault: nothing bounds the number of commands.                            *)
CappedNever(n) == FALSE

(* The range of the for loop is used up: its else clause raises.            *)
Capped(n) == n >= MAX_ENTRIES

(* get_cards, get_fingerprints.                                             *)
TakeIndexed(reply) ==
  /\ method \in Indexed
  /\ IF reply.status # "ok" THEN Raise
     ELSE IF reply.items = <<>> THEN Return(entries)
     ELSE IF Capped(attempt + 1)
          THEN phase' = "raised" /\ entries' = entries \o reply.items
               /\ UNCHANGED cursor
     ELSE /\ entries' = entries \o reply.items
          /\ cursor' = cursor + 1
          /\ UNCHANGED phase
  /\ attempt' = attempt + 1
  /\ UNCHANGED seen

(* Fault: an entry that is skipped is taken for the end of the list.        *)
TakePasscodeEnding(reply) ==
  /\ method = "get_passcodes"
  /\ IF reply.status # "ok" THEN Raise
     ELSE IF reply.next = 0 \/ reply.items = <<>>
          THEN Return(entries \o reply.items)
     ELSE IF Capped(attempt + 1)
          THEN phase' = "raised" /\ entries' = entries \o reply.items
               /\ UNCHANGED cursor
     ELSE /\ entries' = entries \o reply.items
          /\ cursor' = reply.next
          /\ UNCHANGED phase
  /\ attempt' = attempt + 1
  /\ UNCHANGED seen

(* get_passcodes: the entry is kept, if it is one, before the cursor is     *)
(* looked at.                                                               *)
TakePasscode(reply) ==
  /\ method = "get_passcodes"
  /\ IF reply.status # "ok" THEN Raise
     ELSE IF reply.next = 0 THEN Return(entries \o reply.items)
     ELSE IF Capped(attempt + 1)
          THEN phase' = "raised" /\ entries' = entries \o reply.items
               /\ UNCHANGED cursor
     ELSE /\ entries' = entries \o reply.items
          /\ cursor' = reply.next
          /\ UNCHANGED phase
  /\ attempt' = attempt + 1
  /\ UNCHANGED seen

(* Fault: records already seen are kept again.                              *)
UnseenAll(items) == items

(* new_entries.                                                             *)
Unseen(items) == Without(items, seen)

(* Fault: a page with nothing new does not end the listing.                 *)
EndsAtStuckCursorOnly(reply, new) == reply.next \in {0, cursor}

(* An empty page, nothing new, sequence 0 or a cursor that stands still.    *)
Ends(reply, new) == new = <<>> \/ reply.next \in {0, cursor}

(* Fault: the sequence number is taken for the last record's own.           *)
NextSeqAfter(reply) == (reply.next + 1) % SEQUENCES

NextSeq(reply) == reply.next

(* get_operation_log: a refusal parses to an empty page.                    *)
TakePage(reply) ==
  LET new == Unseen(reply.items)
      all == entries \o new
  IN  /\ method = "get_operation_log"
      /\ IF reply.status = "garbled"
         THEN Raise /\ UNCHANGED seen
         ELSE /\ seen' = seen \cup {new[i] : i \in 1..Len(new)}
              /\ IF new # <<>> /\ Len(all) >= limit
                 THEN Return(SubSeq(all, 1, limit))
                 ELSE IF Ends(reply, new) THEN Return(all)
                 ELSE /\ entries' = all
                      /\ cursor' = NextSeq(reply)
                      /\ UNCHANGED phase
      /\ UNCHANGED attempt

Take(reply) == TakeIndexed(reply) \/ TakePasscode(reply) \/ TakePage(reply)

(* One command: the lock answers it, and exchange returns the first reply   *)
(* to come.                                                                 *)
RoundTrip ==
  /\ phase = "running"
  /\ \E answer \in LockReplies :
       LET replies == Append(late, answer)
       IN  /\ Take(Head(replies))
           /\ late' = Tail(replies)
           /\ trouble' = (trouble \/ Head(replies).status # "ok")
  /\ UNCHANGED <<method, limit, lock, calls, start>>

(* exchange raises or is cancelled; the reply may still come.               *)
ExchangeFails ==
  /\ phase = "running"
  /\ Raise
  /\ \E answer \in LockReplies : late' \in {late, Append(late, answer)}
  /\ trouble' = TRUE
  /\ UNCHANGED <<method, limit, attempt, seen, lock, calls, start>>

Froms(m) ==
  IF m = "get_operation_log" THEN (1..MaxStored) \cup {SinceLastSync} ELSE {0}

Limits(m) ==
  IF m = "get_operation_log" THEN {2, Unlimited} ELSE {Unlimited}

Next ==
  \/ \E m \in Methods : \E from \in Froms(m), max \in Limits(m) :
       Begin(m, from, max)
  \/ RoundTrip
  \/ ExchangeFails
  \/ Grows

Spec == Init /\ [][Next]_vars

(* An exchange ends (CommandExchange: EveryCallReturns), one way or other.  *)
FairSpec == Spec /\ WF_vars(RoundTrip \/ ExchangeFails)

----------------------------------------------------------------------------
(* Properties.                                                             *)

Undisturbed == proper /\ ~trouble

Upto(n) == [i \in 1..n |-> i]

(* A list that is returned is the whole list: every entry the lock had when *)
(* the listing began, in order and once, those added meanwhile up to some   *)
(* point, and none left out but passcodes that no layout is known for.      *)
ListsAreWhole ==
  Undisturbed /\ phase = "returned" /\ method # "get_operation_log" =>
    \E n \in start.stored..stored :
      entries = IF method = "get_passcodes"
                THEN Without(Upto(n), unlisted)
                ELSE Upto(n)

(* A listing that met no trouble raises only because the list is longer     *)
(* than the cap lets it see the end of.                                     *)
RaisesOnlyAtTheCap ==
  Undisturbed /\ phase = "raised" =>
    \/ method \in Indexed /\ stored >= MAX_ENTRIES
    \/ method = "get_passcodes" /\ stored > MAX_ENTRIES

(* The log comes without a gap from the record asked for, and reaches the   *)
(* last record there was when the call was made, or max_entries.            *)
LogIsGapless ==
  Undisturbed /\ phase = "returned" /\ method = "get_operation_log" =>
    LET first == IF start.cursor = SinceLastSync THEN unread ELSE start.cursor
    IN  /\ \A i \in 1..Len(entries) : entries[i] = first + i - 1
        /\ first + Len(entries) - 1 >= start.stored \/ Len(entries) = limit

(* No record is returned twice, whatever the lock answers, late or not.     *)
NoRecordTwice ==
  method = "get_operation_log" =>
    \A i, j \in 1..Len(entries) : entries[i] = entries[j] => i = j

(* Every listing ends, on any lock.                                         *)
ListingsEnd == phase = "running" ~> phase # "running"
=============================================================================
