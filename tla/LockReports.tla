----------------------------- MODULE LockReports -----------------------------
(***************************************************************************)
(* What a lock says about itself: the replies about its bolt, clock,        *)
(* auto-lock, sound, features and properties, the tokens of the handshakes, *)
(* the frames it pushes (models/lock_event.py) and the advertisements it    *)
(* broadcasts (models/lock_advertisement.py).                              *)
(***************************************************************************)
EXTENDS Encoding

(* LockState(byte), or None for a byte the enumeration does not have.       *)
LOCKED == 0
UNLOCKED == 1

Bolt(byte) == IF byte \in {LOCKED, UNLOCKED} THEN Some(byte) ELSE None

(* parse_lock_status and parse_state_battery: a refusal is None too.        *)
QueriedState(plain) ==
  LET envelope == Envelope(plain)
      data == envelope.value.data
      Carried(n) == envelope.value.status = SUCCESS /\ Len(data) >= n
  IN  IF ~Returned(envelope) THEN envelope
      ELSE Returns([bolt |-> IF Carried(2) THEN Bolt(At(data, 1)) ELSE None,
                    battery |-> IF Carried(1) THEN Some(At(data, 0)) ELSE None])

(* parse_check_user_time_response and parse_check_admin_response: four      *)
(* bytes, left as they are.                                                *)
Token(plain) == Parsed(plain, 4, LAMBDA data : Returns([token |-> Slice(data, 0, 4)]))

----------------------------------------------------------------------------
(* The auto-lock delay, told only by a reply that echoes SEARCH.            *)
SEARCH == 1
UNKNOWN == -1

AutoLock(plain) ==
  Parsed(plain, 2, LAMBDA data :
    IF At(data, 1) # SEARCH THEN Returns([seconds |-> UNKNOWN, battery |-> At(data, 0)])
    ELSE IF Len(data) < 4 THEN Raises("ValueError")
    ELSE Returns([seconds |-> Uint16(Slice(data, 2, 4)), battery |-> At(data, 0)]))

AutoLockLimits(plain) ==
  Parsed(plain, 2, LAMBDA data :
    IF At(data, 1) # SEARCH \/ Len(data) < 8 THEN Raises("ValueError")
    ELSE Returns([min |-> Uint16(Slice(data, 4, 6)), max |-> Uint16(Slice(data, 6, 8))]))

LockVolume == 1..5

LockSound(plain) ==
  Parsed(plain, 3, LAMBDA data :
    IF At(data, 1) # SEARCH THEN Raises("ValueError")
    ELSE Returns([enabled |-> At(data, 2) # 0,
                  volume |-> IF Len(data) > 3 /\ At(data, 3) \in LockVolume
                             THEN Some(At(data, 3)) ELSE None]))

----------------------------------------------------------------------------
(* The bit n of a byte, the least significant one first.                    *)
Bit(byte, n) == (byte \div <<1, 2, 4, 8, 16, 32, 64, 128>>[n + 1]) % 2 = 1

(* The feature value, as the set of its set bits: whole big-endian words    *)
(* of four bytes, the least significant word first.                        *)
BitsOf(words) ==
  {bit \in 0..(32 * (Len(words) \div 4) - 1) :
     Bit(At(words, 4 * (bit \div 32) + 3 - (bit % 32) \div 8), bit % 8)}

(* The bits with a name.                                                   *)
LockFeature ==
  (0..16) \cup (18..25) \cup (28..30) \cup {32, 34} \cup (36..56) \cup {58, 60}
    \cup (63..70) \cup (75..90) \cup (92..93) \cup (95..100) \cup {102, 103, 106}
    \cup (108..110) \cup {112, 114, 117, 119, 126}

UnnamedBits(mask) == mask \ LockFeature

DeviceFeatures(plain) ==
  Parsed(plain, 5, LAMBDA data :
    LET mask == BitsOf(From(data, 1))
    IN  Returns([mask |-> mask, unnamed |-> UnnamedBits(mask), battery |-> At(data, 0)]))

(* VirtualKey.feature_mask: the hexadecimal featureValue of the key, its     *)
(* digits most significant first, or else the low 32 bits of specialValue.  *)
FeatureMask(featureValue, specialValue) ==
  IF featureValue = <<>> THEN {bit \in specialValue : bit < 32}
  ELSE {bit \in 0..(4 * Len(featureValue) - 1) :
          Bit(featureValue[Len(featureValue) - bit \div 4], bit % 4)}

----------------------------------------------------------------------------
(* The six device properties, and the clock.                               *)
PropertyString(plain) ==
  Parsed(plain, 0, LAMBDA data :
    IF IsAscii(UntilZero(data)) THEN Returns([text |-> UntilZero(data)]) ELSE Raises("ValueError"))

PropertyMac(plain) == Parsed(plain, 0, LAMBDA data : Returns([mac |-> Mac(data)]))

ClockTime(plain) ==
  Parsed(plain, 0, LAMBDA data :
    IF Date(6, data) = None THEN Raises("ValueError")
    ELSE Returns([time |-> Date(6, data)[1]]))

----------------------------------------------------------------------------
(* LockEvent.from_payload, of the data behind the envelope: the layout is    *)
(* told from the length of the data alone.                                 *)
STATE_PUSH == 20

NoEvent == [battery |-> None, bolt |-> None, uid |-> None, recordId |-> None,
            timestamp |-> None]

LockEvent(echo, data) ==
  IF echo # STATE_PUSH \/ data = <<>> THEN NoEvent
  ELSE IF Len(data) = 3
  THEN [NoEvent EXCEPT !.battery = Some(At(data, 0)), !.bolt = Bolt(At(data, 1))]
  ELSE IF Len(data) >= 15
  THEN [NoEvent EXCEPT !.battery = Some(At(data, 0)),
                       !.uid = Some(Number(Slice(data, 1, 5))),
                       !.recordId = Some(Number(Slice(data, 5, 9))),
                       !.timestamp = Date(6, Slice(data, 9, 15))]
  ELSE [NoEvent EXCEPT !.battery = Some(At(data, 0))]

----------------------------------------------------------------------------
(* LockVersion.lock_type: the first row that matches, and 5 otherwise.      *)
LockType(protocol, version, scene) ==
  CASE protocol = 5 /\ version = 3 -> IF scene = 7 THEN 8 ELSE 5
    [] protocol = 10 /\ version = 1 -> 6
    [] protocol = 5 /\ version = 4 -> 4
    [] protocol = 5 /\ version = 1 -> 3
    [] protocol = 11 /\ version = 1 -> 7
    [] OTHER -> 5

V2S == 3

(* LockAdvertisement.from_manufacturer_data, of the company identifier       *)
(* joined to the data; None unless it is an advertisement with a state.     *)
LockAdvertisement(raw) ==
  LET v3 == Slice(raw, 0, 2) = <<5, 3>>
      protocol == IF v3 THEN 5 ELSE At(raw, 4)
      version == IF v3 THEN 3 ELSE At(raw, 5)
      scene == IF v3 THEN At(raw, 2) ELSE At(raw, 7)
      offset == IF v3 THEN 3 ELSE 8
      flags == At(raw, offset)
      dormant == Bit(flags, 4)
  IN  IF \/ Len(raw) < 15
         \/ Slice(raw, 0, 2) \in {<<18, 25>>, <<255, 255>>}
         \/ protocol < 5
         \/ LockType(protocol, version, scene) = V2S
      THEN None
      ELSE Some([protocol |-> <<protocol, version, scene>>,
                 bolt |-> IF dormant THEN None
                          ELSE Some(IF Bit(flags, 0) THEN UNLOCKED ELSE LOCKED),
                 newRecords |-> Bit(flags, 1),
                 settingMode |-> Bit(flags, 2),
                 dormant |-> dormant,
                 battery |-> At(raw, offset + 1),
                 mac |-> Mac(From(raw, Len(raw) - 6))])
=============================================================================
