------------------------------- MODULE Layouts -------------------------------
(***************************************************************************)
(* The other end of the decoders and builders: what the lock firmware       *)
(* writes and how it reads a request, from the layouts that the docstrings  *)
(* of commands/ and models/ give; where two of them disagree, on the dates  *)
(* of a passcode, from that of the client's method.  External to the code:  *)
(* the reference that Payloads holds the code against.                      *)
(***************************************************************************)
EXTENDS LogRecords, CredentialLists, LockReports, Requests, Frames

CONSTANTS
  Levels,     \* battery levels, volumes and other bytes
  Ids,        \* numbers of at most four bytes
  LongIds,    \* numbers that need more than that
  Codes,      \* passcodes, in ASCII
  BadCodes,   \* texts that are no passcodes
  Days,       \* dates to the minute, valid ones and others
  Stamps,     \* valid dates to the second
  Versions,   \* lock versions
  Types       \* the types of the log records that are written

(* A number is its digits in base 256, without leading zeros.              *)
IsNumber(id) == id \in Seq(Byte) /\ (id = <<>> \/ id[1] # 0)

Field16 == 0..65535

LockVersion ==
  [protocol : Byte, version : Byte, scene : Byte, group : Field16, org : Field16]

ASSUME LayoutsAssumption ==
  /\ Levels \cup Types \subseteq Byte
  /\ \A id \in Ids : IsNumber(id) /\ Len(id) <= 4
  /\ \A id \in LongIds : IsNumber(id) /\ Len(id) > 4
  /\ \A code \in Codes : code \in Seq(Byte) /\ IsPasscode(code)
  /\ \A code \in BadCodes : code \in Seq(Byte) /\ ~IsPasscode(code)
  /\ \A day \in Days : day \in Seq(Byte) /\ Len(day) = 5
                        /\ day \notin {START_DATE_SENTINEL, END_DATE_SENTINEL}
  /\ \A stamp \in Stamps : stamp \in Seq(0..99) /\ Len(stamp) = 6 /\ IsDate(stamp)
  /\ Versions \subseteq LockVersion

----------------------------------------------------------------------------
(* The envelope of a reply that succeeds, and that of a push.               *)
Reply(data) == <<0, SUCCESS>> \o data

Pushed(data) == <<STATE_PUSH, SUCCESS>> \o data

(* The records of the log, written field after field.                       *)
Field(name, how) == [name |-> name, how |-> how]

Layout(type) ==
  CASE type \in AppTypes -> <<Field("uid", "four"), Field("recordId", "four")>>
    [] type = 37 -> <<Field("uid", "four"), Field("recordId", "four"), Field("keyId", "one")>>
    [] type \in PasscodeTypes -> <<Field("password", "text"), Field("newPassword", "text")>>
    [] type = 7 -> <<Field("password", "text")>>
    [] type = 8 -> <<Field("deleteDate", "date"), Field("password", "text")>>
    [] type \in CardTypes -> <<Field("password", "four")>>
    [] type \in SixByteIdTypes -> <<Field("password", "six")>>
    [] type \in ShortIdTypes -> <<Field("password", "two")>>
    [] type \in MacTypes -> <<Field("password", "mac")>>
    [] type \in {30, 31} -> <<Field("accessoryBattery", "one")>>
    [] type \in FobTypes -> <<Field("password", "mac"), Field("keyId", "one"),
                              Field("accessoryBattery", "one")>>
    [] type = 56 -> <<Field("password", "mac"), Field("accessoryBattery", "one")>>
    [] type = 93 -> <<Field("password", "text"), Field("startDate", "date"),
                      Field("endDate", "date")>>
    [] OTHER -> <<>>

(* The fields that a record of the type always has.                        *)
Required(type) ==
  CASE type = 37 -> 3
    [] type \in AppTypes -> 2
    [] OTHER -> IF Layout(type) = <<>> THEN 0 ELSE 1

Values(how) ==
  CASE how = "one" -> Levels
    [] how = "two" -> {id \in Ids : Len(id) <= 2}
    [] how \in {"four", "six"} -> Ids
    [] how = "text" -> Codes
    [] how = "mac" -> {<<1, 2, 3, 4, 5, 6>>}
    [] how = "date" -> {day \in Days : IsDate(day)}

Written(how, value) ==
  CASE how = "one" -> <<value>>
    [] how = "two" -> Padded(2, value)
    [] how = "four" -> Padded(4, value)
    [] how = "six" -> Padded(6, value)
    [] how = "text" -> <<Len(value)>> \o value
    [] how = "mac" -> Mac(value)
    [] how = "date" -> value

(* Each of these tails, with each value of one more field.                  *)
With(tails, field) ==
  {[tail EXCEPT ![field.name] = Some(value)] : tail \in tails, value \in Values(field.how)}

(* A record holds the required fields, and of the others the first few.     *)
Tails(type) ==
  LET fields == Layout(type)
      one == With({EmptyTail}, fields[1])
      two == With(one, fields[2])
      upTo == [n \in 0..Len(fields) |->
                 CASE n = 0 -> {EmptyTail} [] n = 1 -> one [] n = 2 -> two
                   [] OTHER -> With(two, fields[3])]
  IN  UNION {upTo[n] : n \in Required(type)..Len(fields)}

(* The n-th field of a record, if it has one.                               *)
FieldBytes(entry, n) ==
  LET fields == Layout(entry.type)
  IN  IF n > Len(fields) \/ entry.tail[fields[n].name] = None THEN <<>>
      ELSE Written(fields[n].how, entry.tail[fields[n].name][1])

RecordBody(entry) ==
  <<entry.type>> \o entry.date[1] \o <<entry.battery>>
    \o FieldBytes(entry, 1) \o FieldBytes(entry, 2) \o FieldBytes(entry, 3)

Counted(body) == <<Len(body)>> \o body

(* A page of two records.                                                  *)
Page(sequence, bodies) ==
  LET records == Counted(bodies[1]) \o Counted(bodies[2])
  IN  Reply(Padded(2, <<Len(records) + 2>>) \o Padded(2, <<sequence>>) \o records)

Bodies(meant) == [k \in DOMAIN meant.entries |-> RecordBody(meant.entries[k])]

----------------------------------------------------------------------------
(* The other things the lock writes.                                       *)
Flag(condition, value) == IF condition THEN value ELSE 0

(* The four bits of a mask from the lowest on, as a digit.                  *)
Nibble(mask, lowest) ==
  Flag(lowest \in mask, 1) + Flag(lowest + 1 \in mask, 2)
    + Flag(lowest + 2 \in mask, 4) + Flag(lowest + 3 \in mask, 8)

BytesOf(mask, words) ==
  [i \in 1..4 * words |->
     LET lowest == 32 * ((i - 1) \div 4) + 8 * (3 - ((i - 1) % 4))
     IN  16 * Nibble(mask, lowest + 4) + Nibble(mask, lowest)]

WORDS == 2

(* The cloud's hexadecimal featureValue, without leading zeros.             *)
HexOf(mask) ==
  LET digits == IF mask = {} THEN 1
                ELSE 1 + (CHOOSE top \in mask : \A bit \in mask : bit <= top) \div 4
  IN  [i \in 1..digits |-> Nibble(mask, 4 * (digits - i))]

Flags(a) == Flag(a.bolt = Some(UNLOCKED) /\ ~a.dormant, 1) + Flag(a.newRecords, 2)
            + Flag(a.settingMode, 4) + Flag(a.dormant, 16)

Advertised(a) ==
  (IF SubSeq(a.protocol, 1, 2) = <<5, 3>>
   THEN a.protocol \o <<Flags(a), a.battery, 0, 0, 0, 0>>
   ELSE <<1, 2, 3, 4>> \o SubSeq(a.protocol, 1, 2) \o <<0>> \o <<a.protocol[3]>>
        \o <<Flags(a), a.battery>>)
  \o Mac(a.mac)

OrSentinel(date, sentinel) == IF date = None THEN sentinel ELSE date[1]

Trailer(entry) ==
  IF entry.type = CIRCLE
  THEN LET schedule == entry.schedule[1]
       IN  <<0, 1, 1, schedule.startHour, schedule.startMinute, 3,
             schedule.selector + schedule.duration - 1>>
  ELSE IF entry.type = PERMANENT THEN entry.dates[1] ELSE entry.dates[1] \o entry.dates[2]

PasscodeReply(entry, next) ==
  LET item == <<entry.type>> \o Written("text", entry.passcode) \o <<2, 55, 55>> \o Trailer(entry)
  IN  Reply(<<0, 1>> \o Padded(2, <<next>>) \o <<Len(item)>> \o item)

Bytes(kind, meant) ==
  CASE kind = "state" -> Reply(<<meant.battery[1], meant.bolt[1], 0>>)
    [] kind = "token" -> Reply(meant.token)
    [] kind = "autoLock" ->
         Reply(<<meant.battery, SEARCH, meant.seconds \div 256, meant.seconds % 256>>)
    [] kind = "limits" ->
         Reply(<<0, SEARCH, 0, 5>> \o <<meant.min \div 256, meant.min % 256,
                                       meant.max \div 256, meant.max % 256>>)
    [] kind = "sound" -> Reply(<<0, SEARCH, Flag(meant.enabled, 1)>> \o meant.volume)
    [] kind = "features" -> Reply(<<meant.battery>> \o BytesOf(meant.mask, WORDS))
    [] kind = "featureValue" -> HexOf(meant.mask)
    [] kind = "clock" -> Reply(meant.time)
    [] kind = "text" -> Reply(meant.text \o <<0>>)
    [] kind = "mac" -> Reply(Mac(meant.mac))
    [] kind = "statePush" -> Pushed(<<meant.battery[1], meant.bolt[1], 0>>)
    [] kind = "logPush" ->
         Pushed(<<meant.battery[1]>> \o Padded(4, meant.uid[1])
                \o Padded(4, meant.recordId[1]) \o meant.timestamp[1])
    [] kind = "card" ->
         LET card == meant.entry[1]
         IN  Reply(<<90, 1, 0, 1>> \o card.id \o OrSentinel(card.start, START_DATE_SENTINEL)
                   \o OrSentinel(card.end, END_DATE_SENTINEL))
    [] kind = "fingerprint" ->
         LET finger == meant.entry[1]
         IN  Reply(<<90, 6, 0, 1>> \o finger.id \o Padded(2, <<finger.slot>>)
                   \o OrSentinel(finger.start, START_DATE_SENTINEL)
                   \o OrSentinel(finger.end, END_DATE_SENTINEL))
    [] kind = "passcode" -> PasscodeReply(meant.entry[1], meant.next)
    [] kind = "page" -> Page(meant.sequence, Bodies(meant))
    [] kind = "frame" -> Build(meant, 0)
    [] kind = "advertisement" -> Advertised(meant)
    [] OTHER -> <<>>   \* a key without featureValue; a request, see Built

----------------------------------------------------------------------------
(* What a lock has to say.                                                 *)
Means(kind, meant) == [kind |-> kind, meant |-> meant]

Sometimes(values) == {None} \cup {Some(value) : value \in values}

Featured(mask, battery) == [mask |-> mask, unnamed |-> mask \cap {62}, battery |-> battery]

Reports ==
  {Means("state", [battery |-> Some(b), bolt |-> Some(s)]) : b \in Levels, s \in {0, 1}}
  \cup {Means("statePush", [battery |-> Some(b), bolt |-> Some(s), uid |-> None,
                            recordId |-> None, timestamp |-> None]) :
          b \in Levels, s \in {0, 1}}
  \cup {Means("logPush", [battery |-> Some(b), bolt |-> None, uid |-> Some(u),
                          recordId |-> Some(r), timestamp |-> Some(t)]) :
          b \in Levels, u \in Ids, r \in Ids, t \in Stamps}
  \cup {Means("token", [token |-> Padded(4, i)]) : i \in Ids}
  \cup {Means("autoLock", [seconds |-> s, battery |-> b]) : s \in {0, 5, 65535}, b \in Levels}
  \cup {Means("limits", [min |-> l, max |-> h]) : l \in {0, 5}, h \in {900, 65535}}
  \cup {Means("sound", [enabled |-> e, volume |-> v]) :
          e \in BOOLEAN, v \in Sometimes(LockVolume)}
  \cup {Means("features", Featured(mask, b)) :
          mask \in SUBSET {0, 13, 30, 32, 43, 62}, b \in Levels}
  \cup {Means("featureValue", [mask |-> mask]) : mask \in SUBSET {0, 3, 31, 32, 62}}
  \cup {Means("specialValue", [mask |-> mask]) : mask \in SUBSET {0, 3, 31, 32, 62}}
  \cup {Means("clock", [time |-> t]) : t \in Stamps}
  \cup {Means("text", [text |-> c]) : c \in Codes}
  \cup {Means("mac", [mac |-> <<1, 2, 3, 4, 5, 6>>])}

(* A dormant lock clears the bit of the bolt, wherever the bolt is.         *)
Broadcast(protocol, bolt, newRecords, settingMode, dormant, battery) ==
  [protocol |-> protocol, bolt |-> Some(bolt), newRecords |-> newRecords,
   settingMode |-> settingMode, dormant |-> dormant, battery |-> battery,
   mac |-> <<1, 2, 3, 4, 5, 6>>]

Protocols == {<<5, 3, 7>>, <<5, 3, 2>>, <<5, 4, 1>>, <<10, 1, 1>>}

Advertisements ==
  {Means("advertisement", Broadcast(p, s, n, m, d, b)) :
     p \in Protocols, s \in {0, 1}, n \in BOOLEAN, m \in BOOLEAN, d \in BOOLEAN, b \in Levels}

Windows == [start : Sometimes(Days), end : Sometimes(Days)]

OnCard(id, window) == [id |-> id, start |-> window.start, end |-> window.end]

Cards == {Means("card", [entry |-> Some(OnCard(Padded(n, i), w))]) :
            n \in {4, 8}, i \in Ids, w \in Windows}

OfFinger(id, window) == [id |-> id, slot |-> 3, start |-> window.start, end |-> window.end]

Fingerprints == {Means("fingerprint", [entry |-> Some(OfFinger(Padded(4, i), w))]) :
                   i \in Ids, w \in Windows}

Entered(code, type, dates, schedule) ==
  [passcode |-> code, type |-> type, dates |-> dates, schedule |-> schedule]

Lasting(code, day) == Entered(code, PERMANENT, <<day>>, None)

Between(code, first, last) == Entered(code, PERIOD, <<first, last>>, None)

Weekly(code, selector, hour, duration) ==
  Entered(code, CIRCLE, <<>>, Some([selector |-> selector, startHour |-> hour,
                                    startMinute |-> 0, duration |-> duration]))

Passcodes ==
  {Means("passcode", [entry |-> Some(Lasting(c, d)), next |-> n]) :
     c \in Codes, d \in Days, n \in {0, 9}}
  \cup {Means("passcode", [entry |-> Some(Between(c, d, e)), next |-> n]) :
          c \in Codes, d \in Days, e \in Days, n \in {0, 9}}
  \cup {Means("passcode", [entry |-> Some(Weekly(c, s, h, d)), next |-> 9]) :
          c \in Codes, s \in Selectors, h \in {0, 23}, d \in {1, 2, 24}}

Credentials == Cards \cup Fingerprints \cup Passcodes

(* A page of two records, one of any type and one that is always the same.  *)
Plain == [type |-> 14, date |-> Some(<<25, 12, 31, 23, 59, 59>>), battery |-> 88,
          tail |-> EmptyTail]

Records ==
  UNION {{[type |-> type, date |-> Some(t), battery |-> b, tail |-> tail] :
            t \in Stamps, b \in Levels, tail \in Tails(type)} : type \in Types}

Numbered(sequence, records) ==
  [sequence |-> sequence,
   entries |-> [k \in DOMAIN records |->
                  [number |-> sequence - k, type |-> records[k].type,
                   date |-> records[k].date, battery |-> records[k].battery,
                   tail |-> records[k].tail]]]

LogPages ==
  {Means("page", Numbered(40, <<r, Plain>>)) : r \in Records}
  \cup {Means("page", Numbered(40, <<Plain, r>>)) : r \in Records}

LockFrames ==
  {Means("frame", ForLock(v, 84, data)) : v \in Versions, data \in Codes \cup {<<>>}}

----------------------------------------------------------------------------
(* What a client has to say, and what the lock reads.                       *)
RequestKinds ==
  {"checkUserTime", "checkAdmin", "checkRandom", "unlock", "autoLockSet", "setSound", "volume",
   "passcodeAdd", "passcodeDelete", "cursor", "calibrate"}

(* Delays with and without a place in two bytes.                            *)
Delays == {-1, 0, 5, 256, 65535, 65536}

Asked ==
  {Means("checkUserTime", [uid |-> u, flag |-> f]) : u \in Ids \cup LongIds, f \in Ids}
  \cup {Means("checkAdmin", [uid |-> u, adminPs |-> a, flag |-> f]) :
          u \in Ids, a \in Ids \cup LongIds, f \in Ids}
  \cup {Means("checkRandom", [token |-> Padded(4, t), key |-> Padded(4, k)]) :
          t \in Ids, k \in Ids}
  \cup {Means("setSound", [enabled |-> e]) : e \in BOOLEAN}
  \cup {Means("unlock", [token |-> Padded(4, t), key |-> Padded(4, k), epoch |-> e]) :
          t \in Ids, k \in Ids, e \in Ids \cup LongIds}
  \cup {Means("autoLockSet", [seconds |-> s]) : s \in Delays}
  \cup {Means("volume", [level |-> l]) : l \in 0..6}
  \cup {Means("passcodeAdd", [type |-> t, code |-> c, start |-> <<25, 1, 1, 0, 0>>,
                              end |-> <<26, 12, 31, 0, 0>>]) :
          t \in {PERMANENT, PERIOD}, c \in Codes \cup BadCodes}
  \cup {Means("passcodeDelete", [type |-> PERMANENT, code |-> c]) : c \in Codes \cup BadCodes}
  \cup {Means("cursor", [operation |-> o, number |-> n]) :
          o \in {<<>>, <<1>>, <<6>>}, n \in Ids \cup LongIds}
  \cup {Means("calibrate", [time |-> t]) : t \in Stamps}

(* The decimal digits of a date, two for every field.                       *)
Digits(date) ==
  [i \in 1..2 * Len(date) |-> IF i % 2 = 1 THEN date[(i + 1) \div 2] \div 10
                              ELSE date[i \div 2] % 10]

Built(kind, meant) ==
  CASE kind = "checkUserTime" -> CheckUserTime(meant.uid, meant.flag)
    [] kind = "checkAdmin" -> CheckAdmin(meant.uid, meant.adminPs, meant.flag)
    [] kind = "unlock" -> Unlock(meant.token, meant.key, meant.epoch)
    [] kind = "checkRandom" -> CheckRandom(meant.token, meant.key)
    [] kind = "setSound" -> SetLockSound(meant.enabled)
    [] kind = "autoLockSet" -> AutoLockSet(meant.seconds)
    [] kind = "volume" -> SetLockVolume(meant.level)
    [] kind = "passcodeAdd" ->
         PasscodeAdd(meant.type, meant.code, Digits(meant.start), Digits(meant.end))
    [] kind = "passcodeDelete" -> PasscodeDelete(meant.type, meant.code)
    [] kind = "cursor" -> Cursor(meant.operation, meant.number)
    [] kind = "calibrate" -> TimeCalibrate(Digits(meant.time))

(* The lock takes its key off the sum, to see whether its token is left.    *)
Minus(sum, key) ==
  LET borrow[i \in 1..5] == IF i >= 4 THEN 0
                            ELSE IF sum[i + 1] - key[i + 1] - borrow[i + 1] < 0 THEN 1 ELSE 0
  IN  [i \in 1..4 |-> (sum[i] - key[i] - borrow[i] + 256) % 256]

(* The fields of a request at the places the lock knows.                    *)
LockReads(kind, meant, raw) ==
  CASE kind = "checkUserTime" -> [flag |-> Number(Slice(raw, 10, 13)),
                                  uid |-> Number(Slice(raw, 13, 17))]
    [] kind = "checkAdmin" -> [adminPs |-> Number(Slice(raw, 0, 4)),
                               flag |-> Number(Slice(raw, 4, 7)),
                               uid |-> Number(Slice(raw, 7, 11))]
    [] kind = "unlock" -> [token |-> Minus(Slice(raw, 0, 4), meant.key), key |-> meant.key,
                           epoch |-> Number(Slice(raw, 4, 8))]
    [] kind = "checkRandom" -> [token |-> Minus(raw, meant.key), key |-> meant.key]
    [] kind = "setSound" -> [enabled |-> At(raw, 1) # 0]
    [] kind = "autoLockSet" -> [seconds |-> Uint16(Slice(raw, 1, 3))]
    [] kind = "volume" -> [level |-> At(raw, 2)]
    [] kind = "passcodeAdd" ->
         LET behind == 3 + At(raw, 2)
         IN  [type |-> At(raw, 1), code |-> Slice(raw, 3, behind),
              start |-> Slice(raw, behind, behind + 5), end |-> From(raw, behind + 5)]
    [] kind = "passcodeDelete" -> [type |-> At(raw, 1), code |-> From(raw, 3)]
    [] kind = "cursor" -> [operation |-> Slice(raw, 0, Len(raw) - 2),
                           number |-> Number(From(raw, Len(raw) - 2))]
    [] kind = "calibrate" -> [time |-> raw]
=============================================================================
