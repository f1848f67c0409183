--------------------------- MODULE CredentialLists ---------------------------
(***************************************************************************)
(* One entry of a listing of credentials: commands/passcode_list.py,       *)
(* commands/card.py and commands/fingerprint.py.  Each decoder returns an   *)
(* entry, or None at the end of the list.                                  *)
(***************************************************************************)
EXTENDS Encoding

(* Cards and fingerprints.  The two sentinels stand for "never set" and     *)
(* "permanent"; both are None on the entry, and so is a date that is none.  *)
START_DATE_SENTINEL == <<0, 1, 1, 0, 0>>

END_DATE_SENTINEL == <<99, 1, 1, 0, 0>>

Unless(sentinel, raw) == IF raw = sentinel THEN None ELSE Date(5, raw)

IsEndOfList(operation, data) ==
  Len(data) = 4 /\ From(data, 1) = <<operation, 255, 255>>

(* Fault: a reply of any length in between is a short entry.                *)
CardIdLengthAtLeast(data) ==
  CASE Len(data) >= 22 -> 8 [] Len(data) \in 18..21 -> 4 [] OTHER -> 0

(* The length of a card's id is told from the length of the reply.         *)
CardIdLength(data) == CASE Len(data) = 22 -> 8 [] Len(data) = 18 -> 4 [] OTHER -> 0

Card(plain) ==
  LET envelope == Envelope(plain)
      data == envelope.value.data
      end == 4 + CardIdLength(data)
  IN  IF ~Succeeds(envelope) THEN Fails(envelope)
      ELSE IF IsEndOfList(1, data) THEN Returns([entry |-> None])
      ELSE IF CardIdLength(data) = 0 THEN Raises("ValueError")
      ELSE Returns([entry |-> Some(
             [id |-> Slice(data, 4, end),
              start |-> Unless(START_DATE_SENTINEL, Slice(data, end, end + 5)),
              end |-> Unless(END_DATE_SENTINEL, Slice(data, end + 5, end + 10))])])

Fingerprint(plain) ==
  LET envelope == Envelope(plain)
      data == envelope.value.data
  IN  IF ~Succeeds(envelope) THEN Fails(envelope)
      ELSE IF IsEndOfList(6, data) THEN Returns([entry |-> None])
      ELSE IF Len(data) < 20 THEN Raises("ValueError")
      ELSE Returns([entry |-> Some(
             [id |-> Slice(data, 4, 8),
              slot |-> Uint16(Slice(data, 8, 10)),
              start |-> Unless(START_DATE_SENTINEL, Slice(data, 10, 15)),
              end |-> Unless(END_DATE_SENTINEL, Slice(data, 15, 20))])])

----------------------------------------------------------------------------
(* Passcodes.  The day and the duration of a cyclic one share a byte: the   *)
(* day is the largest selector that is not above it.                        *)
Selectors == {0, 24, 48, 72, 96, 120, 144, 168, 192, 232}

Selector(low) == CHOOSE base \in Selectors :
                   base <= low /\ \A other \in Selectors : other <= low => other <= base

Schedule(trailer) ==
  [selector |-> Selector(At(trailer, 6)),
   startHour |-> At(trailer, 3), startMinute |-> At(trailer, 4),
   duration |-> At(trailer, 6) - Selector(At(trailer, 6)) + 1]

PERMANENT == 1
COUNT == 2
PERIOD == 3
CIRCLE == 4

(* _TRAILER_LENGTH_BY_TYPE.                                                *)
TrailerLengths == [type \in {PERMANENT, PERIOD, CIRCLE} |->
                     CASE type = PERMANENT -> 5 [] type = PERIOD -> 10 [] OTHER -> 7]

(* The dates of the trailer, by the type of the passcode.                  *)
Dates(type, trailer) ==
  CASE type = PERMANENT -> <<Slice(trailer, 0, 5)>>
    [] type = PERIOD -> <<Slice(trailer, 0, 5), Slice(trailer, 5, 10)>>
    [] OTHER -> <<>>

PasscodeItem(item) ==
  LET type == At(item, 1)
      pwdLength == 3 + At(item, 2)     \* where it is
      trailerAt == pwdLength + 1 + At(item, pwdLength)
      trailer == Slice(item, trailerAt, trailerAt + TrailerLengths[type])
      dates == Dates(type, trailer)
      passcode == Slice(item, 3, pwdLength)
  IN  IF \/ pwdLength >= Len(item)
         \/ Len(trailer) < TrailerLengths[type]
         \/ \E i \in DOMAIN dates : ~IsDate(dates[i])
         \/ ~IsAscii(passcode)
      THEN Raises("ValueError")
      ELSE Returns(Some(
             [passcode |-> passcode, type |-> type, dates |-> dates,
              schedule |-> IF type = CIRCLE THEN Some(Schedule(trailer)) ELSE None]))

(* parse_passcode_list_response: the entry and next_sequence.  A type       *)
(* without a layout is skipped.                                            *)
Passcode(plain) ==
  LET envelope == Envelope(plain)
      data == envelope.value.data
      item == From(data, 4)
      parsed == PasscodeItem(item)
      next == Uint16(Slice(data, 2, 4))
  IN  IF ~Succeeds(envelope) THEN Fails(envelope)
      ELSE IF Len(data) < 4 THEN Returns([entry |-> None, next |-> 0])
      ELSE IF Len(item) < 4 \/ At(item, 1) \notin DOMAIN TrailerLengths
           THEN Returns([entry |-> None, next |-> next])
      ELSE IF ~Returned(parsed) THEN parsed
      ELSE Returns([entry |-> parsed.value, next |-> next])
=============================================================================
