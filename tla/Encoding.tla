------------------------------ MODULE Encoding ------------------------------
(***************************************************************************)
(* The byte-level reading that the decoders share: commands/encoding.py,   *)
(* commands/envelope.py and Python's slices.  A payload is a sequence of   *)
(* bytes; positions are counted from 0 as in the code.                     *)
(***************************************************************************)
EXTENDS Integers, Sequences

Byte == 0..255

(* A field that may be None.                                               *)
None == <<>>

Some(value) == <<value>>

(* What a decoder ends with: a value, or the exception it raises.          *)
Returns(value) == [raises |-> "nothing", value |-> value]

Raises(error) == [raises |-> error]

Returned(outcome) == outcome.raises = "nothing"

(* raw[i], raw[a:b] and raw[a:]; a slice is cut at the end of raw.         *)
At(raw, i) == raw[i + 1]

Slice(raw, a, b) == SubSeq(raw, a + 1, IF b <= Len(raw) THEN b ELSE Len(raw))

From(raw, a) == SubSeq(raw, a + 1, Len(raw))

(* int.from_bytes(raw, "big") of at most two bytes ...                     *)
Uint16(raw) ==
  CASE raw = <<>> -> 0
    [] Len(raw) = 1 -> At(raw, 0)
    [] OTHER -> 256 * At(raw, 0) + At(raw, 1)

(* ... and of any number of them: the digits of the number in base 256.    *)
Number(raw) ==
  From(raw, CHOOSE zeros \in 0..Len(raw) :
              /\ \A i \in 1..zeros : raw[i] = 0
              /\ zeros = Len(raw) \/ raw[zeros + 1] # 0)

(* raw.decode("ascii", errors="replace").                                  *)
Replacement == 65533

Text(raw) == [i \in DOMAIN raw |-> IF raw[i] < 128 THEN raw[i] ELSE Replacement]

IsAscii(raw) == \A i \in DOMAIN raw : raw[i] < 128

(* decode_mac6.                                                            *)
Mac(raw) == [i \in DOMAIN raw |-> raw[Len(raw) + 1 - i]]

(* datetime(2000 + yy, mm, dd, ...) accepts the date.                      *)
DaysIn(mm, yy) ==
  CASE mm \in {4, 6, 9, 11} -> 30
    [] mm = 2 -> IF yy % 4 = 0 /\ yy \notin {100, 200} THEN 29 ELSE 28
    [] OTHER -> 31

IsDate(raw) ==
  /\ raw[2] \in 1..12
  /\ raw[3] \in 1..DaysIn(raw[2], raw[1])
  /\ raw[4] < 24
  /\ \A i \in 5..Len(raw) : raw[i] < 60

(* decode_date5 and decode_date6: the first n bytes, one per field.        *)
Date(n, raw) ==
  IF Len(raw) >= n /\ IsDate(Slice(raw, 0, n)) THEN Some(Slice(raw, 0, n)) ELSE None

(* decode_null_terminated_ascii.                                           *)
UntilZero(raw) ==
  Slice(raw, 0, CHOOSE n \in 0..Len(raw) :
                  /\ \A i \in 1..n : raw[i] # 0
                  /\ n = Len(raw) \/ raw[n + 1] = 0)

(* parse_response_status: [cmd_echo][status][data].                        *)
SUCCESS == 1

Envelope(plain) ==
  IF Len(plain) < 2 THEN Raises("ValueError")
  ELSE Returns([echo |-> At(plain, 0), status |-> At(plain, 1), data |-> From(plain, 2)])

(* The start of most decoders: what is too short to be a reply is a        *)
(* ValueError, a refusal is a RuntimeError, and data that is shorter than   *)
(* the least the decoder can read is a ValueError.                         *)
Succeeds(envelope) == Returned(envelope) /\ envelope.value.status = SUCCESS

Fails(envelope) == IF Returned(envelope) THEN Raises("RuntimeError") ELSE envelope

Parsed(plain, least, Read(_)) ==
  LET envelope == Envelope(plain)
  IN  IF ~Succeeds(envelope) THEN Fails(envelope)
      ELSE IF Len(envelope.value.data) < least THEN Raises("ValueError")
      ELSE Read(envelope.value.data)
=============================================================================
