----------------------------- MODULE LogRecords -----------------------------
(***************************************************************************)
(* A page of the operation log: commands/operate_log.py splits it into     *)
(* records and reads their header, commands/log_record.py reads the tail   *)
(* behind the header, whose layout depends on the type of the record.      *)
(***************************************************************************)
EXTENDS Encoding

(* _RecordTail: every field defaults to None.                              *)
EmptyTail ==
  [uid |-> None, recordId |-> None, password |-> None, newPassword |-> None,
   deleteDate |-> None, keyId |-> None, accessoryBattery |-> None,
   startDate |-> None, endDate |-> None]

(* _decode_pwd_pair.  The first length must fit into the body; the new      *)
(* password is what there is of it.                                        *)
PwdPair(body) ==
  IF body = <<>> \/ 1 + body[1] > Len(body)
  THEN EmptyTail
  ELSE LET consumed == 1 + body[1]
       IN  [EmptyTail EXCEPT
              !.password = Some(Text(Slice(body, 1, consumed))),
              !.newPassword =
                IF consumed >= Len(body) THEN None
                ELSE Some(Text(Slice(body, consumed + 1,
                                     consumed + 1 + At(body, consumed))))]

AppUidRecordId(body) ==
  [EmptyTail EXCEPT !.uid = Some(Number(Slice(body, 0, 4))),
                    !.recordId = Some(Number(Slice(body, 4, 8)))]

RemoteControlKey(body) ==
  [AppUidRecordId(body) EXCEPT !.keyId = Some(At(body, 8))]

PasscodeOnly(body) ==
  [EmptyTail EXCEPT !.password = PwdPair(body).password]

(* _decode_clear_all_passcodes: a date, then perhaps a passcode.           *)
ClearAllPasscodes(body) ==
  [EmptyTail EXCEPT !.deleteDate = Date(5, body),
                    !.password = PwdPair(From(body, 5)).password]

(* _decode_card_number takes all of the body, the other two the first n.   *)
CredentialId(body) == [EmptyTail EXCEPT !.password = Some(Number(body))]

AccessoryBattery(body) ==
  [EmptyTail EXCEPT !.accessoryBattery = Some(At(body, 0))]

(* _decode_mac_only, _decode_key_fob and _decode_wireless_keypad: an        *)
(* address, and behind it what the body still holds.                       *)
Optional(body, i) == IF Len(body) > i THEN Some(At(body, i)) ELSE None

MacOnly(body) == [EmptyTail EXCEPT !.password = Some(Mac(Slice(body, 0, 6)))]

KeyFob(body) ==
  [MacOnly(body) EXCEPT !.keyId = Optional(body, 6),
                        !.accessoryBattery = Optional(body, 7)]

WirelessKeypad(body) ==
  [MacOnly(body) EXCEPT !.accessoryBattery = Optional(body, 6)]

(* Fault: the dates are read from one byte too far.                         *)
AddedPasscodeOffByOne(body) ==
  LET consumed == 1 + body[1]
  IN  IF 1 + body[1] > Len(body) THEN EmptyTail
      ELSE [EmptyTail EXCEPT
              !.password = Some(Text(Slice(body, 1, consumed))),
              !.startDate = Date(5, From(body, consumed + 1)),
              !.endDate = Date(5, From(body, consumed + 6))]

(* _decode_added_passcode: the passcode, then the window it is valid in.   *)
AddedPasscode(body) ==
  IF body = <<>> \/ 1 + body[1] > Len(body)
  THEN EmptyTail
  ELSE LET consumed == 1 + body[1]
       IN  [EmptyTail EXCEPT
              !.password = Some(Text(Slice(body, 1, consumed))),
              !.startDate = Date(5, From(body, consumed)),
              !.endDate = Date(5, From(body, consumed + 5))]

(* _TAIL_DECODERS_BY_BUCKET.                                               *)
AppTypes == {1, 26, 28, 41, 52, 75, 76, 77}
PasscodeTypes == {4, 5, 6, 9, 10, 11, 12, 13, 34, 38, 78, 92}
CardTypes == {15, 17, 18, 25, 35, 39, 51, 74, 80, 91}
SixByteIdTypes == (20..23) \cup {33, 40, 79} \cup (67..72) \cup {81} \cup (83..89)
ShortIdTypes == {57, 58, 61, 62}
MacTypes == {19} \cup (94..100)
FobTypes == {55, 82}

(* Fault: an application's record is read when its uid is there.            *)
LeastHalf(type) ==
  CASE type \in AppTypes -> 4
    [] type = 37 -> 9
    [] type = 8 -> 5
    [] type \in ShortIdTypes -> 2
    [] type \in SixByteIdTypes \cup MacTypes \cup FobTypes \cup {56} -> 6
    [] OTHER -> 1

(* The length guards of the decoders: a shorter body is an empty tail.      *)
Least(type) ==
  CASE type \in AppTypes -> 8
    [] type = 37 -> 9
    [] type = 8 -> 5
    [] type \in ShortIdTypes -> 2
    [] type \in SixByteIdTypes \cup MacTypes \cup FobTypes \cup {56} -> 6
    [] OTHER -> 1

(* decode_log_record: the decoder of the type, if it has one.              *)
RecordTail(type, body) ==
  IF Len(body) < Least(type) THEN EmptyTail
  ELSE CASE type \in AppTypes -> AppUidRecordId(body)
         [] type \in PasscodeTypes -> PwdPair(body)
         [] type = 7 -> PasscodeOnly(body)
         [] type = 8 -> ClearAllPasscodes(body)
         [] type \in CardTypes -> CredentialId(body)
         [] type \in SixByteIdTypes -> CredentialId(Slice(body, 0, 6))
         [] type \in ShortIdTypes -> CredentialId(Slice(body, 0, 2))
         [] type \in MacTypes -> MacOnly(body)
         [] type \in {30, 31} -> AccessoryBattery(body)
         [] type = 37 -> RemoteControlKey(body)
         [] type \in FobTypes -> KeyFob(body)
         [] type = 56 -> WirelessKeypad(body)
         [] type = 93 -> AddedPasscode(body)
         [] OTHER -> EmptyTail

----------------------------------------------------------------------------
(* A record on the page is a length and that many bytes: type, date,        *)
(* battery, tail.  The loop stops at a record that overruns the page.       *)
HEADER_LENGTH == 8

Split(data) ==
  LET from[idx \in 0..Len(data)] ==
        IF idx = Len(data) \/ idx + 1 + At(data, idx) > Len(data)
        THEN <<>>
        ELSE LET end == idx + 1 + At(data, idx)
             IN  <<[start |-> idx + 1, end |-> end]>> \o from[end]
  IN  IF Len(data) < 4 THEN <<>> ELSE from[4]

(* The fields are read at fixed places, however short the record says it is. *)
Entry(data, record, number) ==
  [number |-> number,
   type |-> At(data, record.start),
   date |-> Date(6, Slice(data, record.start + 1, record.start + 7)),
   battery |-> At(data, record.start + 7),
   tail |-> RecordTail(At(data, record.start),
                       Slice(data, record.start + HEADER_LENGTH, record.end))]

(* parse_operate_log_response: an empty page for anything but SUCCESS.     *)
OperateLogPage(plain) ==
  LET envelope == Envelope(plain)
      data == envelope.value.data
      sequence == Uint16(Slice(data, 2, 4))
      records == Split(data)
  IN  IF ~Returned(envelope) THEN envelope
      ELSE IF \/ envelope.value.status # SUCCESS
              \/ Len(data) < 2 \/ Uint16(Slice(data, 0, 2)) = 0
           THEN Returns([entries |-> <<>>, sequence |-> 0])
      ELSE IF \E k \in DOMAIN records : records[k].start + 7 >= Len(data)
           THEN Raises("IndexError")
      ELSE Returns([entries |-> [k \in DOMAIN records |->
                                   Entry(data, records[k], sequence - k)],
                    sequence |-> sequence])
=============================================================================
