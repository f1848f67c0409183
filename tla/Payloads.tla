------------------------------ MODULE Payloads ------------------------------
(***************************************************************************)
(* What lock and client make of each other's bytes.  One of them means      *)
(* something and writes it down; other firmware may write less of the       *)
(* layout, or more behind it; the other one reads what arrives.  No layout  *)
(* carries a version, so the readers tell what they have from lengths.      *)
(* A behaviour is the fate of one message.                                 *)
(***************************************************************************)
EXTENDS Layouts

CONSTANT Suffixes   \* what newer firmware writes behind what is known

(* Short enough for the one-byte lengths of the records of a page.         *)
ASSUME PayloadsAssumption ==
  \A suffix \in Suffixes : suffix \in Seq(Byte) /\ suffix # <<>> /\ Len(suffix) <= 100

VARIABLES
  message,   \* what is meant: a kind and its fields
  wire,      \* the bytes
  form,      \* how the writer's layout differs from the reader's
  outcome    \* what the reader makes of the bytes

vars == <<message, wire, form, outcome>>

kind == message.kind
meant == message.meant

Pending == Raises("pending")

Form(how, nr) == [how |-> how, nr |-> nr]

Messages == Reports \cup Advertisements \cup Credentials \cup LogPages \cup LockFrames \cup Asked

(* A key from the cloud, stored whole or not at all.                        *)
KeyKinds == {"featureValue", "specialValue"}

Varies == kind \notin RequestKinds \cup KeyKinds

(* The kinds that come in the envelope with a status.                      *)
ReplyKinds == {"state", "token", "autoLock", "limits", "sound", "features", "clock",
               "text", "mac", "card", "fingerprint", "passcode", "page"}

Init ==
  /\ message \in Messages
  /\ wire = Bytes(kind, meant)
  /\ form = Form("whole", 0)
  /\ outcome = Pending

----------------------------------------------------------------------------
(* The writer.                                                             *)
Writes(bytes, how, nr) ==
  /\ outcome = Pending
  /\ form.how = "whole"
  /\ wire' = bytes
  /\ form' = Form(how, nr)
  /\ UNCHANGED <<message, outcome>>

EndsEarly ==
  /\ Varies
  /\ \E n \in 0..Len(wire) - 1 : Writes(SubSeq(wire, 1, n), "cut", 0)

GoesOn ==
  /\ Varies
  /\ \E suffix \in Suffixes : Writes(wire \o suffix, "extended", 0)

Refuses ==
  /\ kind \in ReplyKinds
  /\ Writes(<<0, 0, 3>>, "refused", 0)

(* A record within a page, shorter or longer than the reader knows it.      *)
RecordEndsEarly ==
  /\ kind = "page"
  /\ LET bodies == Bodies(meant)
     IN  \E k \in DOMAIN bodies : \E n \in 0..Len(bodies[k]) - 1 :
           Writes(Page(meant.sequence, [bodies EXCEPT ![k] = SubSeq(@, 1, n)]), "shorter", k)

RecordGoesOn ==
  /\ kind = "page"
  /\ LET bodies == Bodies(meant)
     IN  \E k \in DOMAIN bodies, suffix \in Suffixes :
           Writes(Page(meant.sequence, [bodies EXCEPT ![k] = @ \o suffix]), "longer", k)

----------------------------------------------------------------------------
(* The reader.                                                             *)

(* _dispatch_event: the envelope, then LockEvent.                           *)
Push(raw) ==
  LET envelope == Envelope(raw)
  IN  IF ~Returned(envelope) THEN envelope
      ELSE Returns(LockEvent(envelope.value.echo, envelope.value.data))

Decode(raw) ==
  CASE kind = "state" -> QueriedState(raw)
    [] kind = "token" -> Token(raw)
    [] kind = "autoLock" -> AutoLock(raw)
    [] kind = "limits" -> AutoLockLimits(raw)
    [] kind = "sound" -> LockSound(raw)
    [] kind = "features" -> DeviceFeatures(raw)
    [] kind \in KeyKinds -> Returns([mask |-> FeatureMask(raw, meant.mask)])
    [] kind = "clock" -> ClockTime(raw)
    [] kind = "text" -> PropertyString(raw)
    [] kind = "mac" -> PropertyMac(raw)
    [] kind \in {"statePush", "logPush"} -> Push(raw)
    [] kind = "card" -> Card(raw)
    [] kind = "fingerprint" -> Fingerprint(raw)
    [] kind = "passcode" -> Passcode(raw)
    [] kind = "page" -> OperateLogPage(raw)
    [] kind = "frame" -> Parse(raw)
    [] kind = "advertisement" ->
         LET advertisement == LockAdvertisement(raw)
         IN  IF advertisement = None THEN Raises("nothing to report")
             ELSE Returns(advertisement[1])

(* The except clauses around the decoders: what they turn into TTLockError. *)
Caught ==
  CASE kind \in {"state", "page"} -> {"ValueError"}
    [] kind \in ReplyKinds -> {"ValueError", "RuntimeError"}
    [] OTHER -> {}

Reported(result) == IF result.raises \in Caught THEN Raises("TTLockError") ELSE result

Receive ==
  /\ outcome = Pending
  /\ kind \notin RequestKinds
  /\ outcome' = Reported(Decode(wire))
  /\ UNCHANGED <<message, wire, form>>

(* A request is built, or its builder raises before anything is sent.       *)
Request ==
  /\ outcome = Pending
  /\ kind \in RequestKinds
  /\ LET built == Built(kind, meant)
     IN  outcome' = IF Returned(built) THEN Returns(LockReads(kind, meant, built.value))
                    ELSE built
  /\ UNCHANGED <<message, wire, form>>

Next == \/ EndsEarly \/ GoesOn \/ Refuses \/ RecordEndsEarly \/ RecordGoesOn
        \/ Receive \/ Request

Spec == Init /\ [][Next]_vars

----------------------------------------------------------------------------
read == outcome.value

Has(how) == form.how = how /\ outcome # Pending

(* A date that is none reads as None, in a credential too, where None says   *)
(* "permanent" or "never set".                                             *)
Legible(date) == IF date = None \/ IsDate(date[1]) THEN date ELSE None

Dated(entry) == [entry EXCEPT !.start = Legible(entry.start), !.end = Legible(entry.end)]

(* Before protocol type 5 a frame has no place for the rest of the version.  *)
Carried(f) ==
  IF IsV3(f.protocol) THEN f
  ELSE ForLock([protocol |-> f.protocol, version |-> 0, scene |-> 0, group |-> 0, org |-> 0],
               f.command, f.data)

(* The best a reader can make of a message: a dormant lock does not tell     *)
(* where its bolt is, of a flag position three bytes are sent, specialValue  *)
(* has 32 bits, and add_passcode says that PERMANENT ignores end_date; the   *)
(* builder's docstring says otherwise (PermanentCarriesBothWindows).        *)
Understood ==
  CASE kind \in {"card", "fingerprint"} ->
         [meant EXCEPT !.entry = Some(Dated(meant.entry[1]))]
    [] kind = "frame" -> Carried(meant)
    [] kind = "specialValue" -> [mask |-> {bit \in meant.mask : bit < 32}]
    [] kind = "advertisement" -> [meant EXCEPT !.bolt = IF meant.dormant THEN None ELSE @]
    [] kind = "passcodeAdd" -> [meant EXCEPT !.end = IF meant.type = PERMANENT THEN <<>> ELSE @]
    [] kind \in {"checkUserTime", "checkAdmin"} ->
         [meant EXCEPT !.flag = Number(LowThree(@))]
    [] OTHER -> meant

(* What is refused rather than sent or reported: numbers and passcodes       *)
(* without a place in their layout, and passcodes with an impossible date.  *)
Sayable ==
  CASE kind = "passcode" -> \A i \in DOMAIN meant.entry[1].dates : IsDate(meant.entry[1].dates[i])
    [] kind = "checkUserTime" -> Len(meant.uid) <= 4
    [] kind = "checkAdmin" -> Len(meant.uid) <= 4 /\ Len(meant.adminPs) <= 4
    [] kind = "unlock" -> Len(meant.epoch) <= 4
    [] kind = "autoLockSet" -> meant.seconds \in Field16
    [] kind = "volume" -> meant.level \in LockVolume
    [] kind \in {"passcodeAdd", "passcodeDelete"} -> meant.code \in Codes
    [] kind = "cursor" -> Len(meant.number) <= 2
    [] OTHER -> TRUE

(* What longer data changes: an address is the last six bytes, or all of     *)
(* them; a state push is one of exactly three bytes; four more bytes make    *)
(* a short card entry a long one.                                          *)
Outgrown(f) ==
  \/ kind \in {"mac", "advertisement"} /\ f = "mac"
  \/ kind = "statePush" /\ f # "battery"
  \/ kind = "card" /\ Len(wire) = 2 + 22

(* What a field may read as when newer firmware writes more behind it.      *)
Withstands(f, value) ==
  \/ Outgrown(f)
  \/ CASE kind = "features" /\ f # "battery" -> {bit \in value : bit < 32 * WORDS} = meant[f]
       [] kind = "page" /\ f = "entries" -> SubSeq(value, 1, Len(meant[f])) = meant[f]
       [] kind = "sound" /\ f = "volume" -> meant[f] \in {None, value}
       [] OTHER -> value = Understood[f]

(* What is sent is what is read: every message in the reader's own layout    *)
(* arrives with every field as it was meant, or is refused because it has    *)
(* no place there, in both directions; and what newer firmware writes        *)
(* behind it changes no field but those of Outgrown (the parsers of          *)
(* commands/ and models/, the payload_ builders, Frame.build and parse).    *)
ReadAsSent ==
  /\ Has("whole") =>
       /\ Returned(outcome) <=> Sayable
       /\ Returned(outcome) => read = Understood
  /\ Has("extended") /\ Returned(outcome) => \A f \in DOMAIN meant : Withstands(f, read[f])

(* The fields that may be missing from what a reader returns.               *)
MayLack(f) ==
  \/ kind \in {"state", "statePush", "logPush"}
  \/ kind \in {"card", "fingerprint", "passcode"} /\ f = "entry"
  \/ kind \in {"sound", "advertisement"} /\ f \in {"volume", "bolt"}

(* What a field may read as when the message ends early.  Excepted are the   *)
(* texts and addresses that are as long as the data, a log push cut to the   *)
(* three bytes of a state push, whose user id then stands for the bolt, and  *)
(* a long card entry cut to the length of a short one.                      *)
SentOrMissing(f, value) ==
  CASE kind = "features" /\ f # "battery" -> value \subseteq meant[f]
    [] kind \in {"text", "mac", "advertisement"} /\ f \in {"text", "mac"} -> TRUE
    [] kind = "logPush" /\ f = "bolt" /\ Len(wire) = 2 + 3 -> TRUE
    [] kind = "card" /\ Len(wire) = 2 + 18 -> TRUE
    [] kind = "passcode" /\ f = "next" -> value \in {0, meant[f]}
    [] OTHER -> value = Understood[f] \/ (MayLack(f) /\ value = None)

(* A page that ends early is read as far as its records go.                 *)
FirstEntries(page) ==
  /\ Len(page.entries) <= Len(meant.entries)
  /\ page.entries = SubSeq(meant.entries, 1, Len(page.entries))
  /\ page.entries # <<>> => page.sequence = meant.sequence

(* Nothing is made up: from a message that ends early a reader takes fields  *)
(* that were sent, says that they are missing, or raises; it never fills     *)
(* one from other bytes, but for those of SentOrMissing.  A refusal carries  *)
(* no field (the length guards of commands/, LockEvent, LockAdvertisement). *)
NothingIsMadeUp ==
  /\ Has("refused") /\ Returned(outcome) =>
       IF kind = "page" THEN read.entries = <<>>
       ELSE \A f \in DOMAIN meant : MayLack(f) /\ read[f] = None
  /\ Has("cut") /\ Returned(outcome) =>
       IF kind = "page" THEN FirstEntries(read)
       ELSE \A f \in DOMAIN meant : SentOrMissing(f, read[f])

(* A number without a length of its own takes all of the body; a new         *)
(* password is not held against its length.                                *)
Stretches(type, f) ==
  \/ type \in CardTypes /\ f = "password"
  \/ type \in PasscodeTypes /\ f = "newPassword"

(* The records of a page do not run together: when one is written shorter or *)
(* longer than the reader knows its type, the others keep every field and    *)
(* their numbers, and its own fields are those that were sent or, when it     *)
(* is shorter, missing.  Excepted is a record without room for the header,    *)
(* which is filled from the bytes behind it (parse_operate_log_response and  *)
(* the tail decoders).                                                     *)
RecordsDoNotRunTogether ==
  (Has("shorter") \/ Has("longer")) /\ Returned(outcome) =>
    LET k == form.nr
        was == meant.entries[k]
        is == read.entries[k]
        room == Len(Split(From(wire, 2))) = Len(meant.entries)
                /\ Split(From(wire, 2))[k].end - Split(From(wire, 2))[k].start >= HEADER_LENGTH
    IN  /\ Len(read.entries) = Len(meant.entries)
        /\ \A j \in DOMAIN meant.entries \ {k} : read.entries[j] = meant.entries[j]
        /\ room =>
             /\ [is EXCEPT !.tail = was.tail] = was
             /\ \A f \in DOMAIN was.tail :
                  \/ Stretches(was.type, f)
                  \/ is.tail[f] = was.tail[f]
                  \/ IF form.how = "shorter" THEN is.tail[f] = None ELSE was.tail[f] = None

(* What the documentation promises: whatever a lock answers, a method of     *)
(* the client raises TTLockError and nothing else (client.py:918).          *)
OnlyTTLockErrors ==
  kind \in ReplyKinds /\ outcome # Pending => outcome.raises \in {"nothing", "TTLockError"}

(* What payload_passcode_add documents (commands/passcode.py:23):           *)
(* "Permanent passcodes carry both 5-byte windows; non-permanent ones omit  *)
(* the trailing end-date block".                                           *)
PermanentCarriesBothWindows ==
  kind = "passcodeAdd" /\ Has("whole") /\ Returned(outcome) =>
    read.end = IF meant.type = PERMANENT THEN meant.end ELSE <<>>
=============================================================================
