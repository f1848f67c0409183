--------------------------- MODULE PayloadsProofs ---------------------------

(***************************************************************************)
(* Proofs about Payloads: the inductive invariant of a message's fate, and  *)
(* that every kind of message but the pages of the log arrives as the three *)
(* properties ask.  The pages, and the theorems, are in LogPageProofs.      *)
(*                                                                         *)
(* A message is followed from its fields to the bytes and back.  Within and *)
(* FieldAt say where a field is in the bytes, Came what has come of them,   *)
(* and then each reader is run on what has come.                            *)
(***************************************************************************)
EXTENDS Payloads, SequenceTheorems, TLAPS

----------------------------------------------------------------------------
(* Sequences, and where one of them is in another.                          *)

(* Where the elements of two sequences are when they are joined.            *)
LEMMA Joined ==
  ASSUME NEW s \in Seq(Byte), NEW t \in Seq(Byte)
  PROVE  /\ s \o t \in Seq(Byte) /\ Len(s \o t) = Len(s) + Len(t)
         /\ \A i \in 1..Len(s) : (s \o t)[i] = s[i]
         /\ \A i \in 1..Len(t) : (s \o t)[Len(s) + i] = t[i]
<1> DEFINE u == s \o t
<1>1. /\ u \in Seq(Byte) /\ Len(u) = Len(s) + Len(t)
      /\ \A i \in 1..Len(s) + Len(t) : u[i] = IF i <= Len(s) THEN s[i] ELSE t[i - Len(s)]
  BY ConcatProperties
<1> HIDE DEF u
<1>2. Len(s) \in Nat /\ Len(t) \in Nat
  OBVIOUS
<1>3. \A i \in 1..Len(s) : u[i] = s[i]
  BY <1>1, <1>2
<1>4. ASSUME NEW i \in 1..Len(t) PROVE u[Len(s) + i] = t[i]
  <2>1. Len(s) + i \in 1..Len(s) + Len(t) /\ ~(Len(s) + i <= Len(s))
        /\ Len(s) + i - Len(s) = i
    BY <1>2
  <2> QED
    BY <2>1, <1>1
<1> QED
  BY <1>1, <1>3, <1>4 DEF u

(* The elements of a body are in data, behind the first p.                  *)
Within(body, data, p) ==
  p + Len(body) <= Len(data) /\ \A i \in 1..Len(body) : data[p + i] = body[i]

(* A sequence of bytes has a length, and is defined on it.                  *)
LEMMA LengthIs ==
  ASSUME NEW s \in Seq(Byte)
  PROVE  Len(s) \in Nat /\ DOMAIN s = 1..Len(s) /\ \A i \in 1..Len(s) : s[i] \in Byte
  OBVIOUS

(* Both parts of a whole are in it, and nothing else.                      *)
MadeOf(u, s, t, p, n) ==
  /\ u \in Seq(Byte) /\ Len(u) = n /\ Within(s, u, 0) /\ Within(t, u, p)
  /\ n = p + Len(t)

LEMMA Parts ==
  ASSUME NEW s \in Seq(Byte), NEW t \in Seq(Byte), NEW p \in Nat, p = Len(s), NEW u, u = s \o t,
         NEW n \in Nat, n = p + Len(t)
  PROVE  MadeOf(u, s, t, p, n)
<1>1. /\ u \in Seq(Byte) /\ Len(u) = Len(s) + Len(t)
      /\ \A i \in 1..Len(s) : u[i] = s[i]
      /\ \A i \in 1..Len(t) : u[Len(s) + i] = t[i]
  BY Joined
<1>2. Len(s) \in Nat /\ Len(t) \in Nat
  BY LengthIs
<1>3. \A i \in 1..Len(s) : u[0 + i] = s[i]
  BY <1>1, <1>2
<1>4. 0 + Len(s) <= Len(u) /\ p + Len(t) <= Len(u)
  BY <1>1, <1>2
<1> QED BY <1>1, <1>3, <1>4 DEF Within, MadeOf

(* A part of a part.                                                       *)
LEMMA PartOfPart ==
  ASSUME NEW s \in Seq(Byte), NEW t \in Seq(Byte), NEW u \in Seq(Byte), NEW p \in Nat, NEW q \in Nat,
         Within(s, t, p), Within(t, u, q), NEW r, r = q + p
  PROVE  Within(s, u, r)
<1>1. Len(s) \in Nat /\ Len(t) \in Nat /\ Len(u) \in Nat
  BY LengthIs
<1>2. p + Len(s) <= Len(t) /\ q + Len(t) <= Len(u)
  BY DEF Within
<1>3. ASSUME NEW i \in 1..Len(s) PROVE u[r + i] = s[i]
  <2>1. p + i \in 1..Len(t) /\ q + (p + i) = r + i
    BY <1>1, <1>2
  <2>2. u[q + (p + i)] = t[p + i]
    BY <2>1 DEF Within
  <2>3. t[p + i] = s[i]
    BY DEF Within
  <2> QED BY <2>1, <2>2, <2>3
<1> QED BY <1>1, <1>2, <1>3 DEF Within

(* What SubSeq returns.                                                     *)
LEMMA SubSeqIs ==
  ASSUME NEW s \in Seq(Byte), NEW a \in Nat, NEW b \in Nat, a <= b, b <= Len(s)
  PROVE  /\ SubSeq(s, a + 1, b) \in Seq(Byte) /\ Len(SubSeq(s, a + 1, b)) = b - a
         /\ \A k \in 1..(b - a) : SubSeq(s, a + 1, b)[k] = s[a + k]
<1>1. PICK n \in Nat : n = b - a
  OBVIOUS
<1>2. PICK f \in Nat : f = a + 1
  OBVIOUS
<1>3. b <= Len(s) /\ f <= b + 1 /\ n = b + 1 - f /\ f # 0 
  BY <1>1, <1>2
<1>4. SubSeq(s, f, b) \in Seq(Byte) /\ Len(SubSeq(s, f, b)) = n /\ \A i \in 1..n : SubSeq(s, f, b)[i] = s[f + i - 1]
  BY <1>3
<1>5. \A i \in 1..n : f + i - 1 = a + i
  BY <1>2
<1> QED BY <1>1, <1>2, <1>4, <1>5

(* The slice where a body is is the body.                                   *)
LEMMA SliceIsBody ==
  ASSUME NEW raw \in Seq(Byte), NEW body \in Seq(Byte), NEW p \in Nat, Within(body, raw, p),
         NEW q, q = p + Len(body)
  PROVE  Slice(raw, p, q) = body
<1>1. Len(raw) \in Nat /\ Len(body) \in Nat /\ q <= Len(raw) /\ q \in Nat /\ p <= q /\ q - p = Len(body)
  BY LengthIs DEF Within
<1>2. PICK u : u = SubSeq(raw, p + 1, q)
  OBVIOUS
<1>3. u \in Seq(Byte) /\ Len(u) = q - p /\ \A k \in 1..(q - p) : u[k] = raw[p + k]
  BY <1>1, <1>2, SubSeqIs
<1>4. \A k \in 1..Len(u) : u[k] = body[k]
  BY <1>1, <1>3 DEF Within
<1>5. u = body
  BY <1>1, <1>3, <1>4, SeqEqual
<1> QED BY <1>1, <1>2, <1>5 DEF Slice

(* What From and Slice return.                                             *)
LEMMA FromIs ==
  ASSUME NEW raw \in Seq(Byte), NEW p \in Nat, p <= Len(raw), NEW rest, rest = From(raw, p),
         NEW n \in Nat, n = Len(raw) - p
  PROVE  rest \in Seq(Byte) /\ Len(rest) = n /\ Within(rest, raw, p)
<1>1. PICK m \in Nat : m = Len(raw)
  BY LengthIs
<1>2. rest = SubSeq(raw, p + 1, m)
  BY <1>1 DEF From
<1>3. rest \in Seq(Byte) /\ Len(rest) = m - p /\ \A k \in 1..(m - p) : rest[k] = raw[p + k]
  BY <1>1, <1>2, SubSeqIs
<1>4. p + Len(rest) <= Len(raw) /\ \A k \in 1..Len(rest) : raw[p + k] = rest[k]
  BY <1>1, <1>3
<1> QED BY <1>1, <1>3, <1>4 DEF Within

(* What a reader is given agrees with what was meant to be sent as far as    *)
(* both go.                                                                *)
Agrees(raw, whole) ==
  \A i \in 1..Len(raw) : i <= Len(whole) => raw[i] = whole[i]

(* A part that lies in the whole lies in what came, as far as it came.      *)
LEMMA WithinAgreed ==
  ASSUME NEW raw \in Seq(Byte), NEW whole \in Seq(Byte), Agrees(raw, whole),
         NEW body \in Seq(Byte), NEW p \in Nat, Within(body, whole, p), p + Len(body) <= Len(raw)
  PROVE  Within(body, raw, p)
<1>1. Len(raw) \in Nat /\ Len(whole) \in Nat /\ Len(body) \in Nat
  BY LengthIs
<1>2. p + Len(body) <= Len(whole)
  BY DEF Within
<1>3. ASSUME NEW i \in 1..Len(body) PROVE raw[p + i] = body[i]
  <2>1. p + i \in 1..Len(raw) /\ p + i <= Len(whole)
    BY <1>1, <1>2
  <2>2. whole[p + i] = body[i]
    BY DEF Within
  <2> QED BY <2>1, <2>2 DEF Agrees
<1> QED BY <1>3 DEF Within

(* The bytes of a short tuple.                                             *)
LEMMA OneByte ==
  ASSUME NEW a \in Byte, NEW t, t = <<a>>
  PROVE  t \in Seq(Byte) /\ Len(t) = 1 /\ t[1] = a
  OBVIOUS

(* What a pair of bytes is: its length and its members. The next two say it *)
(* of three and four.                                                       *)
LEMMA TwoBytes ==
  ASSUME NEW a \in Byte, NEW b \in Byte, NEW t, t = <<a, b>>
  PROVE  t \in Seq(Byte) /\ Len(t) = 2 /\ t[1] = a /\ t[2] = b
  OBVIOUS

LEMMA ThreeBytes ==
  ASSUME NEW a \in Byte, NEW b \in Byte, NEW c \in Byte, NEW t, t = <<a, b, c>>
  PROVE  t \in Seq(Byte) /\ Len(t) = 3 /\ t[1] = a /\ t[2] = b /\ t[3] = c
  OBVIOUS

LEMMA FourBytes ==
  ASSUME NEW a \in Byte, NEW b \in Byte, NEW c \in Byte, NEW d \in Byte, NEW t, t = <<a, b, c, d>>
  PROVE  t \in Seq(Byte) /\ Len(t) = 4 /\ t[1] = a /\ t[2] = b /\ t[3] = c /\ t[4] = d
  OBVIOUS

----------------------------------------------------------------------------

(* The envelope of a reply that succeeds, as far as it has come.            *)
IsReply(whole, echo, data) == echo \in Byte /\ whole = <<echo, SUCCESS>> \o data

(* What came is no envelope: parse_command_payload raises.                  *)
TooShort(raw) == Len(raw) < 2 /\ Envelope(raw) = Raises("ValueError")

(* parse_command_payload has taken the echoed command and the status off; d *)
(* is the rest, which agrees with the data as far as both go.               *)
Opened(raw, echo, data, d) ==
  /\ Envelope(raw) = Returns([echo |-> echo, status |-> SUCCESS, data |-> d])
  /\ d \in Seq(Byte) /\ Len(raw) = Len(d) + 2 /\ Agrees(d, data)

(* A reply is its echo, SUCCESS, and the data behind them.                  *)
LEMMA ReplyIs ==
  ASSUME NEW data \in Seq(Byte), NEW whole, NEW echo, IsReply(whole, echo, data), NEW n \in Nat, n = Len(data) + 2
  PROVE  whole \in Seq(Byte) /\ Len(whole) = n /\ Within(data, whole, 2) /\ whole[1] = echo /\ whole[2] = SUCCESS
<1>1. PICK front : front = <<echo, SUCCESS>>
  OBVIOUS
<1>2. front \in Seq(Byte) /\ Len(front) = 2 /\ front[1] = echo /\ front[2] = SUCCESS
  BY <1>1 DEF IsReply, Byte, SUCCESS
<1>3. PICK p \in Nat : p = Len(front)
  BY <1>2, LengthIs
<1>4. whole = front \o data
  BY <1>1 DEF IsReply
<1>5. n = p + Len(data)
  BY <1>2, <1>3
<1>6. whole \in Seq(Byte) /\ Len(whole) = n /\ Within(front, whole, 0) /\ Within(data, whole, p)
  <2>1. MadeOf(whole, front, data, p, n)
    BY <1>2, <1>3, <1>4, <1>5, Parts
  <2> QED BY <2>1 DEF MadeOf
<1>7. whole[1] = echo /\ whole[2] = SUCCESS
  BY <1>2, <1>6 DEF Within
<1>8. p = 2
  BY <1>2, <1>3
<1> QED BY <1>6, <1>7, <1>8

(* What came of a reply is too short for an envelope, or opens as one.      *)
LEMMA ReplyOpens ==
  ASSUME NEW data \in Seq(Byte), NEW whole, NEW echo, IsReply(whole, echo, data), NEW raw \in Seq(Byte), Agrees(raw, whole)
  PROVE  TooShort(raw) \/ \E d : Opened(raw, echo, data, d)
<1>1. PICK n \in Nat : n = Len(data) + 2
  OBVIOUS
<1>2. whole \in Seq(Byte) /\ Len(whole) = n /\ Within(data, whole, 2) /\ whole[1] = echo /\ whole[2] = SUCCESS
  BY <1>1, ReplyIs
<1>3. CASE Len(raw) < 2
  BY <1>3 DEF TooShort, Envelope
<1>4. CASE ~(Len(raw) < 2)
  <2>1. PICK two \in Nat : two = 2
    OBVIOUS
  <2>2. PICK m \in Nat : m = Len(raw) - two
    BY <1>4, <2>1
  <2>3. PICK d : d = From(raw, two)
    OBVIOUS
  <2>4. two <= Len(raw) /\ Len(raw) = m + 2
    BY <1>4, <2>1, <2>2
  <2>5. d \in Seq(Byte) /\ Len(d) = m /\ Within(d, raw, two)
    BY <2>2, <2>3, <2>4, FromIs
  <2>6. raw[1] = echo /\ raw[2] = SUCCESS
    BY <1>1, <1>2, <1>4 DEF Agrees
  <2>7. Agrees(d, data)
    <3>1. ASSUME NEW i \in 1..Len(d), i <= Len(data) PROVE d[i] = data[i]
      <4>1. two + i \in 1..Len(raw) /\ two + i <= Len(whole) /\ i \in 1..Len(data)
        BY <1>1, <1>2, <2>1, <2>4, <2>5, <3>1
      <4>2. raw[two + i] = d[i] /\ whole[two + i] = data[i]
        BY <1>2, <2>1, <2>5, <4>1 DEF Within
      <4> QED BY <4>1, <4>2 DEF Agrees
    <3> QED BY <3>1 DEF Agrees
  <2>8. Envelope(raw) = Returns([echo |-> echo, status |-> SUCCESS, data |-> d])
    BY <1>4, <2>1, <2>3, <2>6 DEF Envelope, At
  <2>9. Len(raw) = Len(d) + 2
    BY <2>4, <2>5
  <2> QED BY <2>5, <2>7, <2>8, <2>9 DEF Opened
<1> QED BY <1>3, <1>4

LEMMA EnvelopeOf ==
  ASSUME NEW raw, NEW echo, NEW data, NEW d, Opened(raw, echo, data, d), NEW e, e = Envelope(raw)
  PROVE  Succeeds(e) /\ e.value.data = d /\ e.value.echo = echo
BY DEF Opened, Succeeds, Returned, Returns

LEMMA NoEnvelope ==
  ASSUME NEW raw, TooShort(raw), NEW e, e = Envelope(raw)
  PROVE  ~Succeeds(e) /\ Fails(e) = Raises("ValueError") /\ ~Returned(Raises("ValueError"))
BY DEF TooShort, Succeeds, Fails, Returned, Raises

LEMMA ReplyLength ==
  ASSUME NEW data \in Seq(Byte), NEW whole, NEW echo, IsReply(whole, echo, data)
  PROVE  whole \in Seq(Byte) /\ Len(whole) = Len(data) + 2
<1>1. PICK n \in Nat : n = Len(data) + 2
  OBVIOUS
<1> QED BY <1>1, ReplyIs

(* A field of the data that has come whole is what its slice holds.         *)
FieldAt(field, data, p, q) == Within(field, data, p) /\ q = p + Len(field)

(* A slice of what came is the field that was written there, when it came   *)
(* that far.                                                                *)
LEMMA FieldRead ==
  ASSUME NEW data \in Seq(Byte), NEW d \in Seq(Byte), Agrees(d, data), NEW field \in Seq(Byte), NEW p \in Nat,
         NEW q, FieldAt(field, data, p, q), q <= Len(d)
  PROVE  Slice(d, p, q) = field
<1>1. Within(field, data, p) /\ q = p + Len(field)
  BY DEF FieldAt
<1>2. Within(field, d, p)
  BY <1>1, WithinAgreed
<1> QED BY <1>1, <1>2, SliceIsBody

(* And so is a byte.                                                       *)
LEMMA ByteRead ==
  ASSUME NEW data \in Seq(Byte), NEW d \in Seq(Byte), Agrees(d, data), NEW p \in Nat, NEW q, q = p + 1,
         q <= Len(d), q <= Len(data)
  PROVE  At(d, p) = data[q] /\ At(d, p) \in Byte
<1>1. Len(d) \in Nat /\ q \in 1..Len(d)
  BY LengthIs
<1>2. d[q] \in Byte
  BY <1>1, LengthIs
<1> QED BY <1>1, <1>2 DEF At, Agrees

(* A message that has come whole is understood, and one that has not is     *)
(* not taken for one.                                                      *)
Understands(raw, whole, decoded, value) ==
  /\ Len(raw) >= Len(whole) => decoded = Returns(value)
  /\ Len(raw) < Len(whole) => ~Returned(decoded)

(* What has come of a token is read as the token or as a failure.           *)
LEMMA TokenRead ==
  ASSUME NEW token \in Seq(Byte), Len(token) = 4,
         NEW raw \in Seq(Byte), NEW whole, NEW echo, IsReply(whole, 0, token), Agrees(raw, whole)
  PROVE  Understands(raw, whole, Token(raw), [token |-> token])
<1>1. Len(whole) = 6 /\ Len(raw) \in Nat
  <2>1. PICK n \in Nat : n = 6 /\ n = Len(token) + 2
    OBVIOUS
  <2>2. Len(whole) = n
    BY <2>1, ReplyIs
  <2> QED BY <2>1, <2>2
<1>2. CASE TooShort(raw)
  BY <1>1, <1>2 DEF TooShort, Token, Parsed, Succeeds, Fails, Returned, Raises, Understands
<1>3. ASSUME NEW d, Opened(raw, 0, token, d) PROVE Understands(raw, whole, Token(raw), [token |-> token])
  <2>1. d \in Seq(Byte) /\ Len(raw) = Len(d) + 2 /\ Agrees(d, token)
    BY <1>3 DEF Opened
  <2>2. Token(raw) = IF Len(d) < 4 THEN Raises("ValueError") ELSE Returns([token |-> Slice(d, 0, 4)])
    BY <1>3 DEF Opened, Token, Parsed, Succeeds, Fails, Returned, Raises, Returns
  <2>3. Len(d) \in Nat
    BY <2>1
  <2>4. ASSUME Len(d) >= 4 PROVE Slice(d, 0, 4) = token
    <3>1. PICK z \in Nat : z = 0
      OBVIOUS
    <3>2. FieldAt(token, token, z, 4)
      BY <3>1 DEF Within, FieldAt
    <3>3. Slice(d, z, 4) = token
      BY <2>1, <2>4, <3>2, FieldRead
    <3> QED BY <3>1, <3>3
  <2>5. CASE Len(d) < 4
    BY <1>1, <2>1, <2>2, <2>3, <2>5 DEF Understands, Returned, Raises
  <2>6. CASE Len(d) >= 4
    BY <1>1, <2>1, <2>2, <2>3, <2>4, <2>6 DEF Understands
  <2> QED BY <2>3, <2>5, <2>6
<1> QED BY <1>2, <1>3, ReplyOpens

(* And one that ends early lacks fields, but has no others.                *)
Lacks(raw, whole, decoded, value) ==
  /\ Len(raw) >= Len(whole) => decoded = Returns(value)
  /\ Returned(decoded) => \A f \in DOMAIN value : decoded.value[f] = value[f] \/ decoded.value[f] = None

(* The two fields of a bolt's state, each of them missing when it did not   *)
(* come.                                                                    *)
LEMMA StateRead ==
  ASSUME NEW data \in Seq(Byte), Len(data) = 3, NEW b, b = data[1], NEW s, s = data[2], s \in {LOCKED, UNLOCKED},
         NEW raw \in Seq(Byte), NEW whole, NEW echo, IsReply(whole, echo, data), Agrees(raw, whole)
  PROVE  Lacks(raw, whole, QueriedState(raw), [battery |-> Some(b), bolt |-> Some(s)])
<1>1. Len(whole) = 5 /\ Len(raw) \in Nat
  <2>1. Len(whole) = Len(data) + 2
    BY ReplyLength
  <2>2. Len(raw) \in Nat
    BY LengthIs
  <2> QED BY <2>1, <2>2
<1>2. CASE TooShort(raw)
  <2>1. ~Returned(QueriedState(raw))
    BY <1>2 DEF TooShort, QueriedState, Returned, Raises
  <2>3. Len(raw) < Len(whole)
    BY <1>1, <1>2 DEF TooShort
  <2> QED BY <1>1, <2>1, <2>3 DEF Lacks
<1>3. ASSUME NEW d, Opened(raw, echo, data, d)
      PROVE  Lacks(raw, whole, QueriedState(raw), [battery |-> Some(b), bolt |-> Some(s)])
  <2>1. d \in Seq(Byte) /\ Len(raw) = Len(d) + 2 /\ Agrees(d, data) /\ Len(d) \in Nat
    BY <1>3 DEF Opened
  <2>2. QueriedState(raw) = Returns([bolt |-> IF Len(d) >= 2 THEN Bolt(At(d, 1)) ELSE None,
                                     battery |-> IF Len(d) >= 1 THEN Some(At(d, 0)) ELSE None])
    BY <1>3 DEF Opened, QueriedState, Returned, Returns
  <2>3. Len(d) >= 1 => d[1] = b
    BY <2>1 DEF Agrees
  <2>4. Len(d) >= 2 => d[2] = s
    BY <2>1 DEF Agrees
  <2>5. Bolt(s) = Some(s)
    BY DEF Bolt
  <2>6. Len(d) >= 2 => Bolt(At(d, 1)) = Some(s)
    BY <2>4, <2>5 DEF At
  <2>7. Len(d) >= 1 => At(d, 0) = b
    BY <2>3 DEF At
  <2>8. Len(raw) >= Len(whole) => Len(d) >= 1 /\ Len(d) >= 2
    BY <1>1, <2>1
  <2> QED BY <2>2, <2>6, <2>7, <2>8 DEF Lacks, Returns
<1> QED BY <1>2, <1>3, ReplyOpens

(* A number of two bytes.                                                   *)
TwoByte(n) == n \in 0..65535

(* Two bytes hold a two-byte number, high byte first.                       *)
LEMMA Halves ==
  ASSUME NEW n \in Nat, TwoByte(n), NEW a, a = n \div 256, NEW b, b = n % 256
  PROVE  a \in Byte /\ b \in Byte /\ 256 * a + b = n
BY DEF Byte, TwoByte

(* Uint16 puts the two bytes together again.                                *)
LEMMA Uint16Is ==
  ASSUME NEW a \in Byte, NEW b \in Byte, NEW field, field = <<a, b>>, NEW n, n = 256 * a + b
  PROVE  field \in Seq(Byte) /\ Len(field) = 2 /\ Uint16(field) = n
<1>1. field \in Seq(Byte) /\ Len(field) = 2 /\ field[1] = a /\ field[2] = b
  BY TwoBytes
<1>2. field # <<>> /\ Len(field) # 1
  BY <1>1
<1>3. Uint16(field) = 256 * At(field, 0) + At(field, 1)
  BY <1>2, Zenon DEF Uint16
<1>4. At(field, 0) = a /\ At(field, 1) = b
  BY <1>1 DEF At
<1>5. Uint16(field) = n
  BY <1>3, <1>4, Zenon
<1> QED BY <1>1, <1>5

(* The reader of the automatic lock as one conditional over its opened      *)
(* envelope. The lemmas called ...Is of the other readers say the same of   *)
(* them: they are what a proof unfolds, instead of a nest of local          *)
(* definitions.                                                             *)
LEMMA AutoLockIs ==
  ASSUME NEW raw, NEW e, e = Envelope(raw)
  PROVE  AutoLock(raw) =
           IF ~Succeeds(e) THEN Fails(e)
           ELSE IF Len(e.value.data) < 2 THEN Raises("ValueError")
           ELSE IF At(e.value.data, 1) # SEARCH THEN Returns([seconds |-> UNKNOWN, battery |-> At(e.value.data, 0)])
           ELSE IF Len(e.value.data) < 4 THEN Raises("ValueError")
           ELSE Returns([seconds |-> Uint16(Slice(e.value.data, 2, 4)), battery |-> At(e.value.data, 0)])
BY Zenon DEF AutoLock, Parsed

(* The delay of the automatic lock, wherever its reply was cut.             *)
LEMMA AutoLockRead ==
  ASSUME NEW data \in Seq(Byte), Len(data) = 4, NEW b, b = data[1], data[2] = SEARCH,
         NEW n, NEW field \in Seq(Byte), Len(field) = 2, Uint16(field) = n, FieldAt(field, data, 2, 4),
         NEW raw \in Seq(Byte), NEW whole, NEW echo, IsReply(whole, echo, data), Agrees(raw, whole)
  PROVE  Understands(raw, whole, AutoLock(raw), [seconds |-> n, battery |-> b])
<1>1. Len(whole) = 6 /\ Len(raw) \in Nat
  <2>1. Len(whole) = Len(data) + 2
    BY ReplyLength
  <2>2. Len(raw) \in Nat
    BY LengthIs
  <2> QED BY <2>1, <2>2
<1>2. CASE TooShort(raw)
  <2>1. PICK e : e = Envelope(raw)
    OBVIOUS
  <2>2. ~Returned(AutoLock(raw))
    BY <1>2, <2>1, NoEnvelope, AutoLockIs
  <2>3. Len(raw) < Len(whole)
    BY <1>1, <1>2 DEF TooShort
  <2> QED BY <1>1, <2>2, <2>3 DEF Understands
<1>3. ASSUME NEW d, Opened(raw, echo, data, d)
      PROVE  Understands(raw, whole, AutoLock(raw), [seconds |-> n, battery |-> b])
  <2>1. d \in Seq(Byte) /\ Len(raw) = Len(d) + 2 /\ Agrees(d, data) /\ Len(d) \in Nat
    BY <1>3 DEF Opened
  <2>2. AutoLock(raw) = IF Len(d) < 2 THEN Raises("ValueError")
                        ELSE IF At(d, 1) # SEARCH THEN Returns([seconds |-> UNKNOWN, battery |-> At(d, 0)])
                        ELSE IF Len(d) < 4 THEN Raises("ValueError")
                        ELSE Returns([seconds |-> Uint16(Slice(d, 2, 4)), battery |-> At(d, 0)])
    <3>1. PICK e : e = Envelope(raw)
      OBVIOUS
    <3>2. Succeeds(e) /\ e.value.data = d
      BY <1>3, <3>1, EnvelopeOf
    <3> QED BY <3>1, <3>2, AutoLockIs, Zenon
  <2>3. Len(d) >= 2 => At(d, 0) = b /\ At(d, 1) = SEARCH
    BY <2>1 DEF Agrees, At
  <2>4. ASSUME Len(d) >= 4 PROVE Slice(d, 2, 4) = field
    BY <2>1, <2>4, FieldRead
  <2>5. CASE Len(d) < 4
    BY <1>1, <2>1, <2>2, <2>3, <2>5 DEF Understands, Returned, Raises
  <2>6. CASE Len(d) >= 4
    BY <1>1, <2>1, <2>2, <2>3, <2>4, <2>6 DEF Understands
  <2> QED BY <2>1, <2>5, <2>6
<1> QED BY <1>2, <1>3, ReplyOpens

LEMMA AutoLockLimitsIs ==
  ASSUME NEW raw, NEW e, e = Envelope(raw)
  PROVE  AutoLockLimits(raw) =
           IF ~Succeeds(e) THEN Fails(e)
           ELSE IF Len(e.value.data) < 2 THEN Raises("ValueError")
           ELSE IF At(e.value.data, 1) # SEARCH \/ Len(e.value.data) < 8 THEN Raises("ValueError")
           ELSE Returns([min |-> Uint16(Slice(e.value.data, 4, 6)), max |-> Uint16(Slice(e.value.data, 6, 8))])
BY Zenon DEF AutoLockLimits, Parsed

(* The two limits of the automatic lock.                                    *)
LEMMA LimitsRead ==
  ASSUME NEW data \in Seq(Byte), Len(data) = 8, data[2] = SEARCH,
         NEW l, NEW low \in Seq(Byte), Len(low) = 2, Uint16(low) = l, FieldAt(low, data, 4, 6),
         NEW h, NEW high \in Seq(Byte), Len(high) = 2, Uint16(high) = h, FieldAt(high, data, 6, 8),
         NEW raw \in Seq(Byte), NEW whole, NEW echo, IsReply(whole, echo, data), Agrees(raw, whole)
  PROVE  Understands(raw, whole, AutoLockLimits(raw), [min |-> l, max |-> h])
<1>1. Len(whole) = 10 /\ Len(raw) \in Nat
  <2>1. Len(whole) = Len(data) + 2
    BY ReplyLength
  <2>2. Len(raw) \in Nat
    BY LengthIs
  <2> QED BY <2>1, <2>2
<1>2. CASE TooShort(raw)
  <2>1. PICK e : e = Envelope(raw)
    OBVIOUS
  <2>2. ~Returned(AutoLockLimits(raw))
    BY <1>2, <2>1, NoEnvelope, AutoLockLimitsIs
  <2>3. Len(raw) < Len(whole)
    BY <1>1, <1>2 DEF TooShort
  <2> QED BY <1>1, <2>2, <2>3 DEF Understands
<1>3. ASSUME NEW d, Opened(raw, echo, data, d)
      PROVE  Understands(raw, whole, AutoLockLimits(raw), [min |-> l, max |-> h])
  <2>1. d \in Seq(Byte) /\ Len(raw) = Len(d) + 2 /\ Agrees(d, data) /\ Len(d) \in Nat
    BY <1>3 DEF Opened
  <2>2. AutoLockLimits(raw) = IF Len(d) < 2 THEN Raises("ValueError")
                        ELSE IF At(d, 1) # SEARCH \/ Len(d) < 8 THEN Raises("ValueError")
                        ELSE Returns([min |-> Uint16(Slice(d, 4, 6)), max |-> Uint16(Slice(d, 6, 8))])
    <3>1. PICK e : e = Envelope(raw)
      OBVIOUS
    <3>2. Succeeds(e) /\ e.value.data = d
      BY <1>3, <3>1, EnvelopeOf
    <3> QED BY <3>1, <3>2, AutoLockLimitsIs, Zenon
  <2>3. Len(d) >= 2 => At(d, 1) = SEARCH
    BY <2>1 DEF Agrees, At
  <2>4. ASSUME Len(d) >= 8 PROVE Slice(d, 4, 6) = low /\ Slice(d, 6, 8) = high
    <3>1. Slice(d, 4, 6) = low
      BY <2>1, <2>4, FieldRead
    <3>2. Slice(d, 6, 8) = high
      BY <2>1, <2>4, FieldRead
    <3> QED BY <3>1, <3>2
  <2>5. CASE Len(d) < 8
    BY <1>1, <2>1, <2>2, <2>3, <2>5 DEF Understands, Returned, Raises
  <2>6. CASE Len(d) >= 8
    BY <1>1, <2>1, <2>2, <2>3, <2>4, <2>6 DEF Understands
  <2> QED BY <2>1, <2>5, <2>6
<1> QED BY <1>2, <1>3, ReplyOpens

LEMMA ClockTimeIs ==
  ASSUME NEW raw, NEW e, e = Envelope(raw)
  PROVE  ClockTime(raw) =
           IF ~Succeeds(e) THEN Fails(e)
           ELSE IF Len(e.value.data) < 0 THEN Raises("ValueError")
           ELSE IF Date(6, e.value.data) = None THEN Raises("ValueError")
           ELSE Returns([time |-> Date(6, e.value.data)[1]])
BY Zenon DEF ClockTime, Parsed

(* The clock of the lock.                                                   *)
LEMMA ClockRead ==
  ASSUME NEW time \in Seq(Byte), Len(time) = 6, IsDate(time),
         NEW raw \in Seq(Byte), NEW whole, NEW echo, IsReply(whole, echo, time), Agrees(raw, whole)
  PROVE  Understands(raw, whole, ClockTime(raw), [time |-> time])
<1>1. Len(whole) = 8 /\ Len(raw) \in Nat
  <2>1. Len(whole) = Len(time) + 2
    BY ReplyLength
  <2>2. Len(raw) \in Nat
    BY LengthIs
  <2> QED BY <2>1, <2>2
<1>2. CASE TooShort(raw)
  <2>1. PICK e : e = Envelope(raw)
    OBVIOUS
  <2>2. ~Returned(ClockTime(raw))
    BY <1>2, <2>1, NoEnvelope, ClockTimeIs
  <2>3. Len(raw) < Len(whole)
    BY <1>1, <1>2 DEF TooShort
  <2> QED BY <1>1, <2>2, <2>3 DEF Understands
<1>3. ASSUME NEW d, Opened(raw, echo, time, d)
      PROVE  Understands(raw, whole, ClockTime(raw), [time |-> time])
  <2>1. d \in Seq(Byte) /\ Len(raw) = Len(d) + 2 /\ Agrees(d, time) /\ Len(d) \in Nat
    BY <1>3 DEF Opened
  <2>2. ClockTime(raw) = IF Len(d) < 0 THEN Raises("ValueError") ELSE IF Date(6, d) = None THEN Raises("ValueError") ELSE Returns([time |-> Date(6, d)[1]])
    <3>1. PICK e : e = Envelope(raw)
      OBVIOUS
    <3>2. Succeeds(e) /\ e.value.data = d
      BY <1>3, <3>1, EnvelopeOf
    <3> QED BY <3>1, <3>2, ClockTimeIs, Zenon
  <2>3. CASE Len(d) < 6
    <3>1. Date(6, d) = None
      BY <2>3, <2>1 DEF Date
    <3> QED BY <1>1, <2>1, <2>2, <2>3, <3>1 DEF Understands, Returned, Raises
  <2>4. CASE Len(d) >= 6
    <3>1. PICK z \in Nat : z = 0
      OBVIOUS
    <3>2. FieldAt(time, time, z, 6)
      BY <3>1 DEF Within, FieldAt
    <3>3. Slice(d, z, 6) = time
      BY <2>1, <2>4, <3>2, FieldRead
    <3>4. Slice(d, 0, 6) = time
      BY <3>1, <3>3
    <3>5. Date(6, d) = Some(time)
      BY <2>1, <2>4, <3>4 DEF Date
    <3>6. Some(time) # None /\ Some(time)[1] = time
      BY DEF Some, None
    <3> QED BY <1>1, <2>1, <2>2, <2>4, <3>5, <3>6 DEF Understands
  <2> QED BY <2>1, <2>3, <2>4
<1> QED BY <1>2, <1>3, ReplyOpens

----------------------------------------------------------------------------
(* The messages: what is on the wire, and what the reader has made of it.   *)

(* What is on the wire, by how the writer's layout differs.                *)
Whole == Bytes(kind, meant)

(* The first bytes of the message, not all of them.                         *)
CutWire == Varies /\ \E n \in 0..Len(Whole) - 1 : wire = SubSeq(Whole, 1, n)

(* The message with something behind it.                                    *)
ExtendedWire == Varies /\ \E suffix \in Suffixes : wire = Whole \o suffix

(* The refusal of a command.                                                *)
RefusedWire == kind \in ReplyKinds /\ wire = <<0, 0, 3>>

(* A page in which one record lost its end, and its length byte says so.    *)
ShorterWire ==
  /\ kind = "page"
  /\ LET bodies == Bodies(meant)
     IN  \E k \in DOMAIN bodies : \E n \in 0..Len(bodies[k]) - 1 :
           /\ form.nr = k
           /\ wire = Page(meant.sequence, [bodies EXCEPT ![k] = SubSeq(@, 1, n)])

(* A page in which one record was written with more behind it.              *)
LongerWire ==
  /\ kind = "page"
  /\ LET bodies == Bodies(meant)
     IN  \E k \in DOMAIN bodies, suffix \in Suffixes :
           /\ form.nr = k
           /\ wire = Page(meant.sequence, [bodies EXCEPT ![k] = @ \o suffix])

(* What is on the wire is what the form says was done to the message.       *)
WireInv ==
  \/ form.how = "whole" /\ wire = Whole
  \/ form.how = "cut" /\ CutWire
  \/ form.how = "extended" /\ ExtendedWire
  \/ form.how = "refused" /\ RefusedWire
  \/ form.how = "shorter" /\ ShorterWire
  \/ form.how = "longer" /\ LongerWire

(* The client has read a message of the lock.                               *)
Heard == kind \notin RequestKinds /\ outcome = Reported(Decode(wire))

(* The lock has read a request of the client, or the client could not build *)
(* it.                                                                      *)
Answered ==
  /\ kind \in RequestKinds
  /\ LET built == Built(kind, meant)
     IN  outcome = IF Returned(built) THEN Returns(LockReads(kind, meant, built.value)) ELSE built

(* Nothing has been read yet, or what the reader makes of the bytes on the  *)
(* wire.                                                                    *)
OutcomeInv == outcome = Pending \/ Heard \/ Answered

(* The inductive invariant: a message of the model, its bytes as the form   *)
(* says, and the outcome of reading those.                                  *)
IInv == message \in Messages /\ WireInv /\ OutcomeInv

LEMMA FirstInv == Init => IInv
BY DEF Init, IInv, WireInv, OutcomeInv, Whole, kind, meant, Form, Pending

LEMMA StepInv == IInv /\ [Next]_vars => IInv'
<1> SUFFICES ASSUME IInv, [Next]_vars PROVE IInv'
  OBVIOUS
<1>1. ASSUME NEW bytes, NEW how, NEW nr, Writes(bytes, how, nr)
      PROVE  /\ message' = message /\ kind' = kind /\ meant' = meant /\ Whole' = Whole /\ Varies' = Varies
             /\ message' \in Messages /\ OutcomeInv'
             /\ wire' = bytes /\ form'.how = how /\ form'.nr = nr
  BY <1>1 DEF Writes, IInv, OutcomeInv, kind, meant, Whole, Varies, Form, Pending
<1>2. CASE EndsEarly
  <2>1. PICK n \in 0..Len(wire) - 1 : Varies /\ Writes(SubSeq(wire, 1, n), "cut", 0)
    BY <1>2 DEF EndsEarly
  <2>2. wire = Whole
    BY <2>1 DEF Writes, IInv, WireInv
  <2>3. wire' = SubSeq(Whole', 1, n) /\ Varies' /\ n \in 0..Len(Whole') - 1
    BY <1>1, <2>1, <2>2, Zenon
  <2>4. CutWire'
    BY <2>3, Zenon DEF CutWire
  <2> QED BY <1>1, <2>1, <2>4 DEF IInv, WireInv
<1>3. CASE GoesOn
  <2>1. PICK suffix \in Suffixes : Varies /\ Writes(wire \o suffix, "extended", 0)
    BY <1>3 DEF GoesOn
  <2>2. wire = Whole
    BY <2>1 DEF Writes, IInv, WireInv
  <2>3. wire' = Whole' \o suffix /\ Varies'
    BY <1>1, <2>1, <2>2, Zenon
  <2>4. ExtendedWire'
    BY <2>3, Zenon DEF ExtendedWire
  <2> QED BY <1>1, <2>1, <2>4 DEF IInv, WireInv
<1>4. CASE Refuses
  <2>1. RefusedWire'
    BY <1>1, <1>4 DEF Refuses, RefusedWire
  <2> QED BY <1>1, <1>4, <2>1 DEF Refuses, IInv, WireInv
<1>5. CASE RecordEndsEarly
  <2>1. PICK bodies : bodies = Bodies(meant)
    OBVIOUS
  <2>2. kind = "page" /\ \E k \in DOMAIN bodies : \E n \in 0..Len(bodies[k]) - 1 :
           Writes(Page(meant.sequence, [bodies EXCEPT ![k] = SubSeq(@, 1, n)]), "shorter", k)
    BY <1>5, <2>1 DEF RecordEndsEarly
  <2>30. PICK k \in DOMAIN bodies : \E n \in 0..Len(bodies[k]) - 1 :
           Writes(Page(meant.sequence, [bodies EXCEPT ![k] = SubSeq(@, 1, n)]), "shorter", k)
    BY <2>2
  <2>3. PICK n \in 0..Len(bodies[k]) - 1 :
           Writes(Page(meant.sequence, [bodies EXCEPT ![k] = SubSeq(@, 1, n)]), "shorter", k)
    BY <2>30
  <2>5. /\ kind' = "page" /\ bodies = Bodies(meant') /\ form'.nr = k
        /\ wire' = Page(meant'.sequence, [bodies EXCEPT ![k] = SubSeq(@, 1, n)])
    <3>1. kind' = "page" /\ bodies = Bodies(meant') /\ form'.nr = k
      BY <1>1, <2>1, <2>2, <2>3
    <3>2. wire' = Page(meant.sequence, [bodies EXCEPT ![k] = SubSeq(@, 1, n)]) /\ meant' = meant
      BY <1>1, <2>3, Zenon
    <3> QED BY <3>1, <3>2, Zenon
  <2>4. ShorterWire'
    BY <2>5, Zenon DEF ShorterWire
  <2> QED BY <1>1, <2>3, <2>4 DEF IInv, WireInv
<1>6. CASE RecordGoesOn
  <2>1. PICK bodies : bodies = Bodies(meant)
    OBVIOUS
  <2>2. kind = "page" /\ \E k \in DOMAIN bodies, suffix \in Suffixes :
           Writes(Page(meant.sequence, [bodies EXCEPT ![k] = @ \o suffix]), "longer", k)
    BY <1>6, <2>1 DEF RecordGoesOn
  <2>3. PICK k \in DOMAIN bodies, suffix \in Suffixes :
           Writes(Page(meant.sequence, [bodies EXCEPT ![k] = @ \o suffix]), "longer", k)
    BY <2>2
  <2>5. /\ kind' = "page" /\ bodies = Bodies(meant') /\ form'.nr = k
        /\ wire' = Page(meant'.sequence, [bodies EXCEPT ![k] = @ \o suffix])
    <3>1. kind' = "page" /\ bodies = Bodies(meant') /\ form'.nr = k
      BY <1>1, <2>1, <2>2, <2>3
    <3>2. wire' = Page(meant.sequence, [bodies EXCEPT ![k] = @ \o suffix]) /\ meant' = meant
      BY <1>1, <2>3, Zenon
    <3> QED BY <3>1, <3>2, Zenon
  <2>4. LongerWire'
    BY <2>5, Zenon DEF LongerWire
  <2> QED BY <1>1, <2>3, <2>4 DEF IInv, WireInv
<1>7. ASSUME UNCHANGED <<message, wire, form>>
      PROVE  /\ message' \in Messages /\ WireInv' /\ kind' = kind /\ meant' = meant
  BY <1>7 DEF IInv, WireInv, kind, meant, Whole, CutWire, ExtendedWire, RefusedWire, ShorterWire, LongerWire, Varies
<1>8. CASE Receive
  <2>1. message' = message /\ wire' = wire /\ kind \notin RequestKinds /\ outcome' = Reported(Decode(wire))
    BY <1>8 DEF Receive
  <2>2. Reported(Decode(wire))' = Reported(Decode(wire))
    <3>1. UNCHANGED <<message, wire>>
      BY <2>1
    <3> QED BY <3>1 DEF Reported, Caught, Decode, kind, meant, Push
  <2>3. Heard'
    BY <2>1, <2>2, <1>7, <1>8 DEF Heard, Receive
  <2> QED BY <1>7, <1>8, <2>3 DEF Receive, IInv, OutcomeInv
<1>9. CASE Request
  <2>1. Answered'
    BY <1>7, <1>9, Zenon DEF Request, Answered
  <2> QED BY <1>7, <1>9, <2>1 DEF Request, IInv, OutcomeInv
<1>10. CASE UNCHANGED vars
  BY <1>10 DEF vars, IInv, WireInv, OutcomeInv, Heard, Answered, kind, meant, Whole, CutWire, ExtendedWire, RefusedWire, ShorterWire, LongerWire, Varies,
     Reported, Caught, Decode, Push, Pending
<1> QED BY <1>2, <1>3, <1>4, <1>5, <1>6, <1>8, <1>9, <1>10 DEF Next

(* Every state of a message satisfies the inductive invariant: what is on   *)
(* the wire is the message as its form says, and the outcome, once there is *)
(* one, is what the reader of this kind (Decode, or the lock) makes of      *)
(* exactly those bytes.                                                     *)
THEOREM MessagesInductive == Spec => []IInv
BY FirstInv, StepInv, PTL DEF Spec

----------------------------------------------------------------------------
(* What may have come of a message, and what the properties ask of it.      *)

(* What has come of a message, by how its layout differs.                  *)
Came(how, raw, whole) ==
  /\ raw \in Seq(Byte) /\ Agrees(raw, whole) /\ Len(raw) \in Nat /\ Len(whole) \in Nat
  /\ how = "whole" => raw = whole
  /\ how = "cut" => Len(raw) < Len(whole)
  /\ how = "extended" => Len(raw) > Len(whole)

(* A cut message came cut.                                                  *)
LEMMA CutCame ==
  ASSUME NEW whole \in Seq(Byte), NEW n \in 0..Len(whole) - 1, NEW raw, raw = SubSeq(whole, 1, n)
  PROVE  Came("cut", raw, whole)
<1>1. PICK z \in Nat : z = 0
  OBVIOUS
<1>2. n \in Nat /\ z <= n /\ n <= Len(whole) /\ raw = SubSeq(whole, z + 1, n) /\ n < Len(whole)
  BY <1>1
<1>3. raw \in Seq(Byte) /\ Len(raw) = n - z /\ \A k \in 1..(n - z) : raw[k] = whole[z + k]
  BY <1>2, SubSeqIs
<1>4. Len(raw) = n /\ \A k \in 1..n : raw[k] = whole[k]
  BY <1>1, <1>2, <1>3
<1> QED BY <1>2, <1>3, <1>4 DEF Came, Agrees

(* An extended message came extended.                                       *)
LEMMA ExtendedCame ==
  ASSUME NEW whole \in Seq(Byte), NEW suffix \in Suffixes, NEW raw, raw = whole \o suffix
  PROVE  Came("extended", raw, whole)
<1>1. suffix \in Seq(Byte) /\ suffix # <<>>
  BY PayloadsAssumption
<1>2. Len(suffix) \in Nat /\ Len(suffix) > 0 /\ Len(whole) \in Nat
  BY <1>1
<1>3. /\ raw \in Seq(Byte) /\ Len(raw) = Len(whole) + Len(suffix)
      /\ \A i \in 1..Len(whole) : raw[i] = whole[i]
  BY <1>1, Joined
<1> QED BY <1>2, <1>3 DEF Came, Agrees

(* In every form but a refusal and a rewritten record, the wire is what     *)
(* came of the message.                                                     *)
LEMMA Arrival ==
  ASSUME IInv, Whole \in Seq(Byte), form.how \in {"whole", "cut", "extended"}
  PROVE  Came(form.how, wire, Whole)
<1>1. PICK whole \in Seq(Byte) : whole = Whole
  OBVIOUS
<1>2. CASE form.how = "whole"
  <2>1. wire = whole
    BY <1>1, <1>2 DEF IInv, WireInv
  <2> QED BY <1>1, <1>2, <2>1 DEF Came, Agrees
<1>3. CASE form.how = "cut"
  <2>1. CutWire
    BY <1>3 DEF IInv, WireInv
  <2>2. PICK n \in 0..Len(whole) - 1 : wire = SubSeq(whole, 1, n)
    BY <1>1, <2>1, Zenon DEF CutWire
  <2>3. Came("cut", wire, whole)
    BY <2>2, CutCame
  <2> QED BY <1>1, <1>3, <2>3
<1>4. CASE form.how = "extended"
  <2>1. ExtendedWire
    BY <1>4 DEF IInv, WireInv
  <2>2. PICK suffix \in Suffixes : wire = whole \o suffix
    BY <1>1, <2>1, Zenon DEF ExtendedWire
  <2>3. Came("extended", wire, whole)
    BY <2>2, ExtendedCame
  <2> QED BY <1>1, <1>4, <2>3
<1> QED BY <1>2, <1>3, <1>4

(* What a reader ends with is what its decoder returns, if it returns.      *)
LEMMA Outcome ==
  ASSUME IInv, kind \notin RequestKinds, outcome # Pending
  PROVE  /\ Returned(outcome) <=> Returned(Decode(wire))
         /\ Returned(outcome) => outcome = Decode(wire)
<1>1. outcome = Reported(Decode(wire))
  BY DEF IInv, OutcomeInv, Heard, Answered
<1>2. PICK decoded : decoded = Decode(wire)
  OBVIOUS
<1>3. outcome = IF decoded.raises \in Caught THEN Raises("TTLockError") ELSE decoded
  BY <1>1, <1>2 DEF Reported
<1>4. "nothing" \notin Caught
  BY DEF Caught
<1> QED BY <1>2, <1>3, <1>4 DEF Returned, Raises

(* A message in one layout is in no other.                                 *)
LEMMA ReadKinds ==
  ASSUME IInv
  PROVE  /\ form.how \in {"cut", "extended"} => kind \notin RequestKinds
         /\ form.how \in {"shorter", "longer"} => kind = "page"
         /\ form.how = "refused" => kind \in ReplyKinds /\ wire = <<0, 0, 3>>
BY DEF IInv, WireInv, CutWire, ExtendedWire, ShorterWire, LongerWire, RefusedWire, Varies

(* The three properties of the runs, at once.                               *)
Kept == ReadAsSent /\ NothingIsMadeUp /\ RecordsDoNotRunTogether

(* Records run together in pages only.                                      *)
LEMMA NotAPage ==
  ASSUME IInv, kind # "page"
  PROVE  RecordsDoNotRunTogether
BY ReadKinds DEF RecordsDoNotRunTogether, Has

(* A reader that understands a message or fails, and does not fail on all   *)
(* of it.                                                                   *)
Reads(raw, whole, decoded, value) ==
  /\ Returned(decoded) => decoded.value = value
  /\ Len(raw) >= Len(whole) => Returned(decoded)

(* The two properties of what is read, from the decoder alone.              *)
LEMMA Clauses ==
  ASSUME IInv, kind \notin RequestKinds, NEW decoded, decoded = Decode(wire),
         form.how = "whole" => /\ Returned(decoded) <=> Sayable
                               /\ Returned(decoded) => decoded.value = Understood,
         form.how = "extended" /\ Returned(decoded) => \A f \in DOMAIN meant : Withstands(f, decoded.value[f]),
         form.how = "cut" /\ Returned(decoded) =>
           IF kind = "page" THEN FirstEntries(decoded.value)
           ELSE \A f \in DOMAIN meant : SentOrMissing(f, decoded.value[f]),
         form.how = "refused" /\ Returned(decoded) =>
           IF kind = "page" THEN decoded.value.entries = <<>>
           ELSE \A f \in DOMAIN meant : MayLack(f) /\ decoded.value[f] = None
  PROVE  ReadAsSent /\ NothingIsMadeUp
<1>1. ASSUME outcome # Pending
      PROVE  /\ Returned(outcome) <=> Returned(decoded)
             /\ Returned(outcome) => read = decoded.value
  BY <1>1, Outcome DEF read
<1>2. ReadAsSent
  BY <1>1 DEF ReadAsSent, Has
<1>3. NothingIsMadeUp
  BY <1>1 DEF NothingIsMadeUp, Has
<1> QED BY <1>2, <1>3

(* The properties of a message whose reader returns all of it or nothing.   *)
LEMMA PlainKept ==
  ASSUME IInv, kind \notin RequestKinds, kind \notin {"features", "page"},
         Whole \in Seq(Byte), Sayable,
         Came(form.how, wire, Whole) => Reads(wire, Whole, Decode(wire), Understood),
         form.how = "refused" => ~Returned(Decode(wire))
  PROVE  Kept
<1>1. RecordsDoNotRunTogether
  BY NotAPage
<1>2. PICK decoded : decoded = Decode(wire)
  OBVIOUS
<1>3. form.how \in {"whole", "extended", "cut"} => Came(form.how, wire, Whole)
  BY Arrival
<1>4. form.how = "whole" => Returned(decoded) /\ decoded.value = Understood
  BY <1>2, <1>3 DEF Reads, Came
<1>5. form.how = "extended" => decoded.value = Understood
  BY <1>2, <1>3 DEF Reads, Came
<1>6. form.how = "cut" /\ Returned(decoded) => decoded.value = Understood
  BY <1>2, <1>3 DEF Reads
<1>7. kind \in {"sound", "passcode"} => Understood = meant
  BY DEF Understood
<1>8. ASSUME NEW f PROVE Withstands(f, Understood[f])
  BY <1>7 DEF Withstands
<1>9. ASSUME NEW f PROVE SentOrMissing(f, Understood[f])
  BY <1>7 DEF SentOrMissing
<1>10. ReadAsSent /\ NothingIsMadeUp
  BY <1>2, <1>4, <1>5, <1>6, <1>8, <1>9, Clauses
<1> QED BY <1>1, <1>10 DEF Kept

----------------------------------------------------------------------------
(* What the messages of the model are made of.                              *)

(* A number, padded.                                                       *)
LEMMA ZerosAre ==
  ASSUME NEW m \in Nat, NEW z, z = Zeros(m)
  PROVE  z \in Seq(Byte) /\ Len(z) = m /\ \A i \in 1..m : z[i] = 0
<1>1. z = [i \in 1..m |-> 0] /\ 0 \in Byte
  BY DEF Zeros, Byte
<1> QED BY <1>1

(* A number in n bytes: zeros, then its bytes from m on.                    *)
PaddedTo(n, id, u, m) ==
  /\ u \in Seq(Byte) /\ Len(u) = n /\ m \in Nat /\ Within(id, u, m)
  /\ m + Len(id) = n /\ \A i \in 1..m : u[i] = 0

(* What Padded returns.                                                     *)
LEMMA PaddedIs ==
  ASSUME NEW n \in Nat, NEW id \in Seq(Byte), Len(id) <= n, NEW u, u = Padded(n, id), NEW m, m = n - Len(id)
  PROVE  PaddedTo(n, id, u, m)
<1>1. PICK z : z = Zeros(m)
  OBVIOUS
<1>2. Len(id) \in Nat /\ m \in Nat /\ n = m + Len(id)
  BY LengthIs
<1>4. z \in Seq(Byte) /\ Len(z) = m /\ \A i \in 1..m : z[i] = 0
  BY <1>1, <1>2, ZerosAre
<1>5. u = z \o id
  BY <1>1 DEF Padded
<1>6. MadeOf(u, z, id, m, n)
  BY <1>2, <1>4, <1>5, Parts
<1>7. u \in Seq(Byte) /\ Len(u) = n /\ Within(z, u, 0) /\ Within(id, u, m)
  BY <1>6 DEF MadeOf
<1>8. \A i \in 1..m : u[i] = 0
  <2> TAKE i \in 1..m
  <2>1. u[0 + i] = z[i]
    BY <1>4, <1>7 DEF Within
  <2> QED BY <1>2, <1>4, <2>1
<1> QED BY <1>2, <1>7, <1>8 DEF PaddedTo

(* An identifier is a number of at most four bytes.                         *)
LEMMA IdsAre ==
  ASSUME NEW id \in Ids
  PROVE  id \in Seq(Byte) /\ Len(id) \in Nat /\ Len(id) <= 4 /\ IsNumber(id)
<1>1. IsNumber(id) /\ Len(id) <= 4
  BY LayoutsAssumption, Zenon
<1> QED BY <1>1 DEF IsNumber

(* The groups a message is of.                                             *)
ReportKinds ==
  {"state", "statePush", "logPush", "token", "autoLock", "limits", "sound", "features",
   "featureValue", "specialValue", "clock", "text", "mac"}

CredentialKinds == {"card", "fingerprint", "passcode"}

LEMMA KindIs == \A k, m : Means(k, m).kind = k /\ Means(k, m).meant = m
BY DEF Means

(* The kinds of the messages of each group.                                 *)
LEMMA GroupsAre ==
  /\ \A m \in Reports : m.kind \in ReportKinds
  /\ \A m \in Advertisements : m.kind = "advertisement"
  /\ \A m \in Credentials : m.kind \in CredentialKinds
  /\ \A m \in LogPages : m.kind = "page"
  /\ \A m \in LockFrames : m.kind = "frame"
  /\ \A m \in Asked : m.kind \in RequestKinds
<1>1. \A m \in Reports : m.kind \in ReportKinds
  BY SMT DEF Reports, Means, ReportKinds
<1>2. \A m \in Advertisements : m.kind = "advertisement"
  BY SMT DEF Advertisements, Means
<1>3. \A m \in Credentials : m.kind \in CredentialKinds
  <2>1. \A m \in Cards : m.kind = "card"
    BY SMT DEF Cards, Means
  <2>2. \A m \in Fingerprints : m.kind = "fingerprint"
    BY SMT DEF Fingerprints, Means
  <2>3. \A m \in Passcodes : m.kind = "passcode"
    BY SMT DEF Passcodes, Means
  <2> QED BY <2>1, <2>2, <2>3 DEF CredentialKinds, Credentials
<1>4. \A m \in LogPages : m.kind = "page"
  <2>1. \A m \in LogPages : \E x : m = Means("page", x)
    BY Zenon DEF LogPages
  <2> QED BY <2>1, KindIs
<1>5. \A m \in LockFrames : m.kind = "frame"
  BY SMT DEF LockFrames, Means
<1>6. \A m \in Asked : m.kind \in RequestKinds
  BY SMT DEF Asked, Means, RequestKinds
<1> QED BY <1>1, <1>2, <1>3, <1>4, <1>5, <1>6

(* The kind of a message says which group it is of.                         *)
LEMMA GroupOf ==
  ASSUME message \in Messages
  PROVE  /\ kind \in ReportKinds => message \in Reports
         /\ kind = "advertisement" => message \in Advertisements
         /\ kind \in CredentialKinds => message \in Credentials
         /\ kind = "page" => message \in LogPages
         /\ kind = "frame" => message \in LockFrames
         /\ kind \in RequestKinds => message \in Asked
         /\ kind \in ReportKinds \cup CredentialKinds \cup RequestKinds \cup {"advertisement", "page", "frame"}
<1>1. \/ message \in Reports \/ message \in Advertisements \/ message \in Credentials
      \/ message \in LogPages \/ message \in LockFrames \/ message \in Asked
  BY DEF Messages
<1>2. \/ kind \in ReportKinds /\ message \in Reports
      \/ kind = "advertisement" /\ message \in Advertisements
      \/ kind \in CredentialKinds /\ message \in Credentials
      \/ kind = "page" /\ message \in LogPages
      \/ kind = "frame" /\ message \in LockFrames
      \/ kind \in RequestKinds /\ message \in Asked
  BY <1>1, GroupsAre DEF kind
<1> QED BY <1>2 DEF ReportKinds, CredentialKinds, RequestKinds

(* What the reports mean, kind by kind.                                     *)
LEMMA ReportsSay ==
  ASSUME message \in Reports
  PROVE  /\ kind = "state" => \E b \in Levels, s \in {0, 1} : meant = [battery |-> Some(b), bolt |-> Some(s)]
         /\ kind = "token" => \E i \in Ids : meant = [token |-> Padded(4, i)]
         /\ kind = "autoLock" => \E s \in Nat, b \in Levels : TwoByte(s) /\ meant = [seconds |-> s, battery |-> b]
         /\ kind = "limits" => \E l \in Nat, h \in Nat : TwoByte(l) /\ TwoByte(h) /\ meant = [min |-> l, max |-> h]
         /\ kind = "sound" => \E e \in BOOLEAN, v \in Sometimes(LockVolume) : meant = [enabled |-> e, volume |-> v]
         /\ kind = "clock" => \E t \in Stamps : meant = [time |-> t]
         /\ kind = "text" => \E c \in Codes : meant = [text |-> c]
         /\ kind = "mac" => meant = [mac |-> <<1, 2, 3, 4, 5, 6>>]
<1>1. kind = "state" => \E b \in Levels, s \in {0, 1} : meant = [battery |-> Some(b), bolt |-> Some(s)]
  BY DEF Reports, Means, kind, meant
<1>2. kind = "token" => \E i \in Ids : meant = [token |-> Padded(4, i)]
  BY DEF Reports, Means, kind, meant
<1>3. kind = "autoLock" => \E s \in Nat, b \in Levels : TwoByte(s) /\ meant = [seconds |-> s, battery |-> b]
  <2>1. kind = "autoLock" => \E s \in {0, 5, 65535}, b \in Levels : meant = [seconds |-> s, battery |-> b]
    BY DEF Reports, Means, kind, meant
  <2>2. \A n \in {0, 5, 65535} : n \in Nat /\ TwoByte(n)
    BY DEF TwoByte
  <2> QED BY <2>1, <2>2
<1>4. kind = "limits" => \E l \in Nat, h \in Nat : TwoByte(l) /\ TwoByte(h) /\ meant = [min |-> l, max |-> h]
  <2>1. kind = "limits" => \E l \in {0, 5}, h \in {900, 65535} : meant = [min |-> l, max |-> h]
    BY DEF Reports, Means, kind, meant
  <2>2. \A n \in {0, 5} : n \in Nat /\ TwoByte(n)
    BY DEF TwoByte
  <2>3. \A n \in {900, 65535} : n \in Nat /\ TwoByte(n)
    BY DEF TwoByte
  <2> QED BY <2>1, <2>2, <2>3
<1>5. kind = "sound" => \E e \in BOOLEAN, v \in Sometimes(LockVolume) : meant = [enabled |-> e, volume |-> v]
  BY DEF Reports, Means, kind, meant
<1>6. kind = "clock" => \E t \in Stamps : meant = [time |-> t]
  BY DEF Reports, Means, kind, meant
<1>7. kind = "text" => \E c \in Codes : meant = [text |-> c]
  BY DEF Reports, Means, kind, meant
<1>8. kind = "mac" => meant = [mac |-> <<1, 2, 3, 4, 5, 6>>]
  BY DEF Reports, Means, kind, meant
<1> QED BY <1>1, <1>2, <1>3, <1>4, <1>5, <1>6, <1>7, <1>8

(* What the credentials mean, kind by kind.                                 *)
LEMMA CredentialsSay ==
  ASSUME message \in Credentials
  PROVE  /\ kind = "card" => \E n \in {4, 8}, i \in Ids, w \in Windows : meant = [entry |-> Some(OnCard(Padded(n, i), w))]
         /\ kind = "fingerprint" => \E i \in Ids, w \in Windows : meant = [entry |-> Some(OfFinger(Padded(4, i), w))]
         /\ kind = "passcode" =>
              \/ \E c \in Codes, d \in Days, n \in {0, 9} : meant = [entry |-> Some(Lasting(c, d)), next |-> n]
              \/ \E c \in Codes, d \in Days, e \in Days, n \in {0, 9} : meant = [entry |-> Some(Between(c, d, e)), next |-> n]
              \/ \E c \in Codes, s \in Selectors, h \in {0, 23}, d \in {1, 2, 24} :
                   meant = [entry |-> Some(Weekly(c, s, h, d)), next |-> 9]
<1>1. \A m \in Cards : m.kind = "card" /\
        \E n \in {4, 8}, i \in Ids, w \in Windows : m.meant = [entry |-> Some(OnCard(Padded(n, i), w))]
  BY SMT DEF Cards, Means
<1>2. \A m \in Fingerprints : m.kind = "fingerprint" /\
        \E i \in Ids, w \in Windows : m.meant = [entry |-> Some(OfFinger(Padded(4, i), w))]
  BY SMT DEF Fingerprints, Means
<1>3. \A m \in Passcodes :
        /\ m.kind = "passcode"
        /\ \/ \E c \in Codes, d \in Days, n \in {0, 9} : m.meant = [entry |-> Some(Lasting(c, d)), next |-> n]
           \/ \E c \in Codes, d \in Days, e \in Days, n \in {0, 9} : m.meant = [entry |-> Some(Between(c, d, e)), next |-> n]
           \/ \E c \in Codes, s \in Selectors, h \in {0, 23}, d \in {1, 2, 24} :
                m.meant = [entry |-> Some(Weekly(c, s, h, d)), next |-> 9]
  BY SMT DEF Passcodes, Means
<1>4. message \in Cards \/ message \in Fingerprints \/ message \in Passcodes
  BY DEF Credentials
<1>5. CASE message \in Cards
  BY <1>1, <1>5 DEF kind, meant
<1>6. CASE message \in Fingerprints
  BY <1>2, <1>6 DEF kind, meant
<1>7. CASE message \in Passcodes
  BY <1>3, <1>7 DEF kind, meant
<1> QED BY <1>4, <1>5, <1>6, <1>7

----------------------------------------------------------------------------
(* The replies that are numbers: token, automatic lock, limits, clock.      *)

(* Which reader reads which kind.                                           *)
LEMMA Decoders ==
  /\ kind = "state" => Decode(wire) = QueriedState(wire)
  /\ kind = "token" => Decode(wire) = Token(wire)
  /\ kind = "autoLock" => Decode(wire) = AutoLock(wire)
  /\ kind = "limits" => Decode(wire) = AutoLockLimits(wire)
  /\ kind = "sound" => Decode(wire) = LockSound(wire)
  /\ kind = "features" => Decode(wire) = DeviceFeatures(wire)
  /\ kind \in KeyKinds => Decode(wire) = Returns([mask |-> FeatureMask(wire, meant.mask)])
  /\ kind = "clock" => Decode(wire) = ClockTime(wire)
  /\ kind = "text" => Decode(wire) = PropertyString(wire)
  /\ kind = "mac" => Decode(wire) = PropertyMac(wire)
  /\ kind \in {"statePush", "logPush"} => Decode(wire) = Push(wire)
  /\ kind = "card" => Decode(wire) = Card(wire)
  /\ kind = "fingerprint" => Decode(wire) = Fingerprint(wire)
  /\ kind = "passcode" => Decode(wire) = Passcode(wire)
  /\ kind = "page" => Decode(wire) = OperateLogPage(wire)
  /\ kind = "frame" => Decode(wire) = Parse(wire)
BY DEF Decode, KeyKinds

(* The bytes of the replies.                                                *)
LEMMA Writers ==
  /\ kind = "state" => Whole = Reply(<<meant.battery[1], meant.bolt[1], 0>>)
  /\ kind = "token" => Whole = Reply(meant.token)
  /\ kind = "autoLock" => Whole = Reply(<<meant.battery, SEARCH, meant.seconds \div 256, meant.seconds % 256>>)
  /\ kind = "sound" => Whole = Reply(<<0, SEARCH, Flag(meant.enabled, 1)>> \o meant.volume)
  /\ kind = "clock" => Whole = Reply(meant.time)
BY DEF Whole, Bytes

(* A refusal opens as a failure of the command.                             *)
LEMMA RefusedRaises ==
  ASSUME NEW raw, raw = <<0, 0, 3>>, NEW e, e = Envelope(raw)
  PROVE  ~Succeeds(e) /\ Fails(e) = Raises("RuntimeError") /\ ~Returned(Fails(e))
BY DEF Envelope, Succeeds, Fails, Returned, Raises, Returns, At, SUCCESS

LEMMA TokenIs ==
  ASSUME NEW raw, NEW e, e = Envelope(raw)
  PROVE  Token(raw) =
           IF ~Succeeds(e) THEN Fails(e)
           ELSE IF Len(e.value.data) < 4 THEN Raises("ValueError")
           ELSE Returns([token |-> Slice(e.value.data, 0, 4)])
BY Zenon DEF Token, Parsed

(* The readers of these replies return nothing for a refusal.               *)
LEMMA RefusedReplies ==
  ASSUME kind \in {"token", "autoLock", "limits", "clock"}, wire = <<0, 0, 3>>
  PROVE  ~Returned(Decode(wire))
<1>1. PICK e : e = Envelope(wire)
  OBVIOUS
<1>2. ~Succeeds(e) /\ ~Returned(Fails(e))
  BY <1>1, RefusedRaises
<1>3. kind = "token" => Decode(wire) = Fails(e)
  BY <1>1, <1>2, TokenIs, Decoders
<1>4. kind = "autoLock" => Decode(wire) = Fails(e)
  BY <1>1, <1>2, AutoLockIs, Decoders
<1>5. kind = "limits" => Decode(wire) = Fails(e)
  BY <1>1, <1>2, AutoLockLimitsIs, Decoders
<1>6. kind = "clock" => Decode(wire) = Fails(e)
  BY <1>1, <1>2, ClockTimeIs, Decoders
<1> QED BY <1>2, <1>3, <1>4, <1>5, <1>6

(* A message that is understood as the lemmas above say is read.            *)
LEMMA UnderstandsReads ==
  ASSUME NEW raw, NEW whole, NEW decoded, NEW value, Understands(raw, whole, decoded, value),
    Len(raw) \in Nat, Len(whole) \in Nat
  PROVE  Reads(raw, whole, decoded, value)
BY DEF Understands, Reads, Returned, Returns

(* The three properties hold of a token, in every form and once it was      *)
(* read.                                                                    *)
LEMMA TokenKept == IInv /\ kind = "token" => Kept
<1> SUFFICES ASSUME IInv, kind = "token" PROVE Kept
  OBVIOUS
<1>1. PICK i \in Ids : meant = [token |-> Padded(4, i)]
  BY GroupOf, ReportsSay DEF IInv, ReportKinds
<1>2. PICK token : token = meant.token
  OBVIOUS
<1>3. token \in Seq(Byte) /\ Len(token) = 4
  <2>1. PICK n \in Nat : n = 4
    OBVIOUS
  <2>2. PICK m : m = n - Len(i)
    OBVIOUS
  <2>3. i \in Seq(Byte) /\ Len(i) <= n
    BY <2>1, IdsAre
  <2>4. token = Padded(n, i)
    BY <1>1, <1>2, <2>1
  <2>5. PaddedTo(n, i, token, m)
    BY <2>2, <2>3, <2>4, PaddedIs
  <2> QED BY <2>1, <2>5 DEF PaddedTo
<1>4. IsReply(Whole, 0, token)
  BY <1>2, Writers DEF Reply, IsReply, Byte
<1>5. Whole \in Seq(Byte) /\ Len(Whole) \in Nat
  BY <1>3, <1>4, ReplyLength
<1>6. Understood = [token |-> token]
  BY <1>1, <1>2 DEF Understood
<1>7. Sayable
  BY DEF Sayable
<1>8. ASSUME Came(form.how, wire, Whole) PROVE Reads(wire, Whole, Decode(wire), Understood)
  <2>1. Understands(wire, Whole, Token(wire), [token |-> token])
    BY <1>3, <1>4, <1>8, TokenRead DEF Came
  <2> QED BY <1>5, <1>6, <1>8, <2>1, UnderstandsReads, Decoders DEF Came
<1>9. form.how = "refused" => ~Returned(Decode(wire))
  BY ReadKinds, RefusedReplies
<1>10. kind \notin RequestKinds /\ kind \notin {"features", "page"}
  BY DEF RequestKinds
<1> QED BY <1>5, <1>7, <1>8, <1>9, <1>10, PlainKept

(* Two bytes at a place are a field there.                                  *)
LEMMA TwoAt ==
  ASSUME NEW data \in Seq(Byte), NEW c \in Byte, NEW d \in Byte, NEW field, field = <<c, d>>,
         NEW p \in Nat, NEW q, q = p + 2, q <= Len(data), data[p + 1] = c, data[q] = d
  PROVE  FieldAt(field, data, p, q)
<1>1. Len(field) = 2 /\ field[1] = c /\ field[2] = d
  BY TwoBytes
<1>2. \A i \in 1..2 : data[p + i] = field[i]
  <2> TAKE i \in 1..2
  <2>1. i = 1 \/ i = 2
    OBVIOUS
  <2> QED BY <2>1, <1>1
<1> QED BY <1>1, <1>2 DEF FieldAt, Within

LEMMA LevelsAre == \A b \in Levels : b \in Byte
BY LayoutsAssumption, Zenon

(* A stamp of a record is a date of six bytes.                              *)
LEMMA StampsAre ==
  ASSUME NEW t \in Stamps
  PROVE  t \in Seq(0..99) /\ t \in Seq(Byte) /\ Len(t) = 6 /\ IsDate(t)
<1>1. t \in Seq(0..99) /\ Len(t) = 6 /\ IsDate(t)
  BY LayoutsAssumption, Zenon
<1>2. t \in Seq(Byte)
  BY <1>1 DEF Byte
<1> QED BY <1>1, <1>2

(* A passcode is one the client would send.                                 *)
LEMMA CodesAre ==
  ASSUME NEW c \in Codes
  PROVE  c \in Seq(Byte) /\ IsPasscode(c)
BY LayoutsAssumption, Zenon

(* A day is five bytes, a date or not.                                      *)
LEMMA DaysAre ==
  ASSUME NEW d \in Days
  PROVE  d \in Seq(Byte) /\ Len(d) = 5
BY LayoutsAssumption, Zenon

(* The three properties hold of a delay of the automatic lock, in every     *)
(* form and once it was read.                                               *)
LEMMA AutoLockKept == IInv /\ kind = "autoLock" => Kept
<1> SUFFICES ASSUME IInv, kind = "autoLock" PROVE Kept
  OBVIOUS
<1>1. PICK n \in Nat, b \in Levels : TwoByte(n) /\ meant = [seconds |-> n, battery |-> b]
  BY GroupOf, ReportsSay DEF IInv, ReportKinds
<1>2. PICK high : high = n \div 256
  OBVIOUS
<1>3. PICK low : low = n % 256
  OBVIOUS
<1>4. high \in Byte /\ low \in Byte /\ 256 * high + low = n
  BY <1>1, <1>2, <1>3, Halves
<1>5. PICK data : data = <<b, SEARCH, high, low>>
  OBVIOUS
<1>6. b \in Byte /\ SEARCH \in Byte
  BY LevelsAre DEF SEARCH, Byte
<1>7. data \in Seq(Byte) /\ Len(data) = 4 /\ data[1] = b /\ data[2] = SEARCH /\ data[3] = high /\ data[4] = low
  BY <1>4, <1>5, <1>6, FourBytes
<1>8. IsReply(Whole, 0, data)
  BY <1>1, <1>2, <1>3, <1>5, Writers DEF Reply, IsReply, Byte
<1>9. PICK field : field = <<high, low>>
  OBVIOUS
<1>10. field \in Seq(Byte) /\ Len(field) = 2 /\ Uint16(field) = n
  BY <1>4, <1>9, Uint16Is
<1>11. FieldAt(field, data, 2, 4)
  BY <1>4, <1>7, <1>9, TwoAt
<1>12. Whole \in Seq(Byte) /\ Len(Whole) \in Nat
  BY <1>7, <1>8, ReplyLength
<1>13. Understood = [seconds |-> n, battery |-> b]
  BY <1>1 DEF Understood
<1>14. Sayable
  BY DEF Sayable
<1>15. ASSUME Came(form.how, wire, Whole) PROVE Reads(wire, Whole, Decode(wire), Understood)
  <2>1. Understands(wire, Whole, AutoLock(wire), [seconds |-> n, battery |-> b])
    BY <1>7, <1>8, <1>10, <1>11, <1>15, AutoLockRead DEF Came
  <2> QED BY <1>12, <1>13, <1>15, <2>1, UnderstandsReads, Decoders DEF Came
<1>16. form.how = "refused" => ~Returned(Decode(wire))
  BY ReadKinds, RefusedReplies
<1>17. kind \notin RequestKinds /\ kind \notin {"features", "page"}
  BY DEF RequestKinds
<1> QED BY <1>12, <1>14, <1>15, <1>16, <1>17, PlainKept

LEMMA LimitsWritten ==
  kind = "limits" =>
    Whole = Reply(<<0, SEARCH, 0, 5>> \o <<meant.min \div 256, meant.min % 256, meant.max \div 256, meant.max % 256>>)
BY DEF Whole, Bytes

(* The three properties hold of a limits of the automatic lock, in every    *)
(* form and once it was read.                                               *)
LEMMA LimitsKept == IInv /\ kind = "limits" => Kept
<1> SUFFICES ASSUME IInv, kind = "limits" PROVE Kept
  OBVIOUS
<1>1. PICK l \in Nat, h \in Nat : TwoByte(l) /\ TwoByte(h) /\ meant = [min |-> l, max |-> h]
  BY GroupOf, ReportsSay DEF IInv, ReportKinds
<1>2. PICK a : a = l \div 256
  OBVIOUS
<1>3. PICK b : b = l % 256
  OBVIOUS
<1>4. PICK c : c = h \div 256
  OBVIOUS
<1>5. PICK d : d = h % 256
  OBVIOUS
<1>6. a \in Byte /\ b \in Byte /\ 256 * a + b = l
  BY <1>1, <1>2, <1>3, Halves
<1>7. c \in Byte /\ d \in Byte /\ 256 * c + d = h
  BY <1>1, <1>4, <1>5, Halves
<1>8. PICK front : front = <<0, SEARCH, 0, 5>>
  BY Zenon
<1>9. PICK back : back = <<a, b, c, d>>
  BY Zenon
<1>10. PICK data : data = front \o back
  BY Zenon
<1>11. front \in Seq(Byte) /\ Len(front) = 4 /\ front[2] = SEARCH
  <2>1. 0 \in Byte /\ 5 \in Byte /\ SEARCH \in Byte
    BY DEF SEARCH, Byte
  <2> QED BY <1>8, <2>1, FourBytes
<1>12. back \in Seq(Byte) /\ Len(back) = 4 /\ back[1] = a /\ back[2] = b /\ back[3] = c /\ back[4] = d
  BY <1>6, <1>7, <1>9, FourBytes
<1>13. data \in Seq(Byte) /\ Len(data) = 8 /\ data[2] = SEARCH
       /\ data[5] = a /\ data[6] = b /\ data[7] = c /\ data[8] = d
  <2>1. /\ data \in Seq(Byte) /\ Len(data) = Len(front) + Len(back)
        /\ \A i \in 1..Len(front) : data[i] = front[i]
        /\ \A i \in 1..Len(back) : data[Len(front) + i] = back[i]
    BY <1>10, <1>11, <1>12, Joined
  <2>2. data[4 + 1] = a /\ data[4 + 2] = b /\ data[4 + 3] = c /\ data[4 + 4] = d
    BY <2>1, <1>11, <1>12
  <2> QED BY <2>1, <2>2, <1>11, <1>12
<1>14. PICK low : low = <<a, b>>
  OBVIOUS
<1>15. PICK high : high = <<c, d>>
  OBVIOUS
<1>16. low \in Seq(Byte) /\ Len(low) = 2 /\ Uint16(low) = l
  BY <1>6, <1>14, Uint16Is
<1>17. high \in Seq(Byte) /\ Len(high) = 2 /\ Uint16(high) = h
  BY <1>7, <1>15, Uint16Is
<1>18. FieldAt(low, data, 4, 6)
  BY <1>6, <1>13, <1>14, TwoAt
<1>19. FieldAt(high, data, 6, 8)
  BY <1>7, <1>13, <1>15, TwoAt
<1>20. IsReply(Whole, 0, data)
  BY <1>1, <1>2, <1>3, <1>4, <1>5, <1>8, <1>9, <1>10, LimitsWritten DEF Reply, IsReply, Byte
<1>21. Whole \in Seq(Byte) /\ Len(Whole) \in Nat
  BY <1>13, <1>20, ReplyLength
<1>22. Understood = [min |-> l, max |-> h]
  BY <1>1 DEF Understood
<1>23. Sayable
  BY DEF Sayable
<1>24. ASSUME Came(form.how, wire, Whole) PROVE Reads(wire, Whole, Decode(wire), Understood)
  <2>1. Understands(wire, Whole, AutoLockLimits(wire), [min |-> l, max |-> h])
    BY <1>13, <1>16, <1>17, <1>18, <1>19, <1>20, <1>24, LimitsRead DEF Came
  <2> QED BY <1>21, <1>22, <1>24, <2>1, UnderstandsReads, Decoders DEF Came
<1>25. form.how = "refused" => ~Returned(Decode(wire))
  BY ReadKinds, RefusedReplies
<1>26. kind \notin RequestKinds /\ kind \notin {"features", "page"}
  BY DEF RequestKinds
<1> QED BY <1>21, <1>23, <1>24, <1>25, <1>26, PlainKept

(* The three properties hold of a clock, in every form and once it was      *)
(* read.                                                                    *)
LEMMA ClockKept == IInv /\ kind = "clock" => Kept
<1> SUFFICES ASSUME IInv, kind = "clock" PROVE Kept
  OBVIOUS
<1>1. PICK t \in Stamps : meant = [time |-> t]
  BY GroupOf, ReportsSay DEF IInv, ReportKinds
<1>2. t \in Seq(Byte) /\ Len(t) = 6 /\ IsDate(t)
  BY StampsAre
<1>3. IsReply(Whole, 0, t)
  BY <1>1, Writers DEF Reply, IsReply, Byte
<1>4. Whole \in Seq(Byte) /\ Len(Whole) \in Nat
  BY <1>2, <1>3, ReplyLength
<1>5. Understood = [time |-> t]
  BY <1>1 DEF Understood
<1>6. Sayable
  BY DEF Sayable
<1>7. ASSUME Came(form.how, wire, Whole) PROVE Reads(wire, Whole, Decode(wire), Understood)
  <2>1. Understands(wire, Whole, ClockTime(wire), [time |-> t])
    BY <1>2, <1>3, <1>7, ClockRead DEF Came
  <2> QED BY <1>4, <1>5, <1>7, <2>1, UnderstandsReads, Decoders DEF Came
<1>8. form.how = "refused" => ~Returned(Decode(wire))
  BY ReadKinds, RefusedReplies
<1>9. kind \notin RequestKinds /\ kind \notin {"features", "page"}
  BY DEF RequestKinds
<1> QED BY <1>4, <1>6, <1>7, <1>8, <1>9, PlainKept

----------------------------------------------------------------------------
(* The state of the bolt, asked for.                                        *)

(* The leading zeros of a padded number.                                   *)
LEMMA NumberPadded ==
  ASSUME NEW n \in Nat, NEW id \in Seq(Byte), IsNumber(id), NEW u, NEW m, PaddedTo(n, id, u, m)
  PROVE  Number(u) = id
<1>1. /\ u \in Seq(Byte) /\ Len(u) = n /\ m \in Nat /\ Within(id, u, m)
      /\ m + Len(id) = n /\ (\A i \in 1..m : u[i] = 0) /\ Len(id) \in Nat
  BY LengthIs DEF PaddedTo
<1>2. id = <<>> \/ id[1] # 0
  BY DEF IsNumber
<1>3. m \in 0..Len(u)
  BY <1>1
<1>4. m = Len(u) \/ u[m + 1] # 0
  <2>1. CASE id = <<>>
    BY <1>1, <2>1
  <2>2. CASE id # <<>>
    <3>1. 1 \in 1..Len(id)
      BY <2>2
    <3>2. u[m + 1] = id[1]
      BY <1>1, <3>1 DEF Within
    <3> QED BY <1>2, <2>2, <3>2
  <2> QED BY <2>1, <2>2
<1>5. ASSUME NEW z \in 0..Len(u), \A i \in 1..z : u[i] = 0, z = Len(u) \/ u[z + 1] # 0
      PROVE  z = m
  <2>1. CASE z < m
    <3>1. z + 1 \in 1..m /\ z # Len(u)
      BY <1>1, <2>1
    <3> QED BY <1>1, <1>5, <3>1
  <2>2. CASE m < z
    <3>1. m + 1 \in 1..z /\ m # Len(u)
      BY <1>1, <2>2
    <3> QED BY <1>4, <1>5, <3>1
  <2> QED BY <1>1, <2>1, <2>2
<1>6. (CHOOSE zeros \in 0..Len(u) : /\ \A i \in 1..zeros : u[i] = 0
                                    /\ zeros = Len(u) \/ u[zeros + 1] # 0) = m
  BY <1>1, <1>3, <1>4, <1>5
<1>7. From(u, m) = id
  <2>1. From(u, m) = SubSeq(u, m + 1, n)
    BY <1>1 DEF From
  <2>2. Slice(u, m, n) = SubSeq(u, m + 1, n)
    BY <1>1 DEF Slice
  <2>3. Slice(u, m, n) = id
    BY <1>1, SliceIsBody
  <2> QED BY <2>1, <2>2, <2>3
<1> QED BY <1>6, <1>7 DEF Number

(* A number that was padded is read back as the number.                     *)
LEMMA IdPadded ==
  ASSUME NEW id \in Ids, NEW n \in Nat, n >= 4, NEW u, u = Padded(n, id)
  PROVE  u \in Seq(Byte) /\ Len(u) = n /\ Number(u) = id
<1>1. PICK m : m = n - Len(id)
  OBVIOUS
<1>2. id \in Seq(Byte) /\ Len(id) \in Nat /\ Len(id) <= n /\ IsNumber(id)
  BY IdsAre
<1>3. PaddedTo(n, id, u, m)
  BY <1>1, <1>2, PaddedIs
<1>4. Number(u) = id
  BY <1>2, <1>3, NumberPadded
<1> QED BY <1>3, <1>4 DEF PaddedTo

(* In these kinds a field that may be missing is as sent or None.           *)
LEMMA SentOrMissingOf ==
  ASSUME kind \in {"state", "statePush", "logPush", "sound"}, NEW f, NEW value, value = Understood[f] \/ (MayLack(f) /\ value = None)
  PROVE  SentOrMissing(f, value)
BY DEF SentOrMissing

(* The three properties hold of a state of the bolt, in every form and once *)
(* it was read.                                                             *)
LEMMA StateKept == IInv /\ kind = "state" => Kept
<1> SUFFICES ASSUME IInv, kind = "state" PROVE Kept
  OBVIOUS
<1>1. PICK b \in Levels, s \in {0, 1} : meant = [battery |-> Some(b), bolt |-> Some(s)]
  BY GroupOf, ReportsSay DEF IInv, ReportKinds
<1>2. PICK data : data = <<b, s, 0>>
  OBVIOUS
<1>3. b \in Byte /\ s \in Byte /\ 0 \in Byte /\ s \in {LOCKED, UNLOCKED}
  BY LevelsAre DEF Byte, LOCKED, UNLOCKED
<1>4. data \in Seq(Byte) /\ Len(data) = 3 /\ data[1] = b /\ data[2] = s
  BY <1>2, <1>3, ThreeBytes
<1>5. meant.battery[1] = b /\ meant.bolt[1] = s
  BY <1>1 DEF Some
<1>6. IsReply(Whole, 0, data)
  BY <1>2, <1>5, Writers DEF Reply, IsReply, Byte
<1>7. Whole \in Seq(Byte) /\ Len(Whole) \in Nat
  BY <1>4, <1>6, ReplyLength
<1>8. Understood = meant /\ Sayable
  BY DEF Understood, Sayable
<1>9. PICK decoded : decoded = Decode(wire)
  OBVIOUS
<1>10. decoded = QueriedState(wire)
  BY <1>9, Decoders
<1>11. ASSUME Came(form.how, wire, Whole) PROVE Lacks(wire, Whole, decoded, meant)
  <2>1. Lacks(wire, Whole, QueriedState(wire), [battery |-> Some(b), bolt |-> Some(s)])
    BY <1>3, <1>4, <1>6, <1>11, StateRead DEF Came
  <2> QED BY <1>1, <1>10, <2>1
<1>12. form.how \in {"whole", "extended"} => Returned(decoded) /\ decoded.value = Understood
  <2>1. form.how \in {"whole", "extended"} => decoded = Returns(meant)
    BY <1>7, <1>11, Arrival DEF Lacks, Came
  <2> QED BY <1>8, <2>1 DEF Returned, Returns
<1>13. form.how = "cut" /\ Returned(decoded) => \A f \in DOMAIN meant : SentOrMissing(f, decoded.value[f])
  <2>1. \A f : MayLack(f)
    BY DEF MayLack
  <2> QED BY <1>7, <1>8, <1>11, <2>1, Arrival, SentOrMissingOf DEF Lacks
<1>14. form.how = "refused" /\ Returned(decoded) => \A f \in DOMAIN meant : MayLack(f) /\ decoded.value[f] = None
  <2>1. ASSUME wire = <<0, 0, 3>> PROVE QueriedState(wire) = Returns([bolt |-> None, battery |-> None])
    <3>1. Envelope(wire).value.status = 0 /\ Returned(Envelope(wire))
      BY <2>1 DEF Envelope, Returned, Returns, At
    <3> QED BY <3>1 DEF QueriedState, SUCCESS
  <2>2. \A f : MayLack(f)
    BY DEF MayLack
  <2>3. DOMAIN meant = {"battery", "bolt"}
    BY <1>1
  <2> QED BY <1>10, <2>1, <2>2, <2>3, ReadKinds DEF Returns
<1>15. ASSUME NEW f PROVE Withstands(f, Understood[f])
  BY DEF Withstands
<1>16. kind \notin RequestKinds
  BY DEF RequestKinds
<1>17. ReadAsSent /\ NothingIsMadeUp
  BY <1>8, <1>9, <1>12, <1>13, <1>14, <1>15, <1>16, Clauses
<1> QED BY <1>17, NotAPage DEF Kept

----------------------------------------------------------------------------
(* The sound of the lock.                                                   *)

(* The data of a reply has come as far as the reply has.                    *)
LEMMA ReplyCame ==
  ASSUME NEW data \in Seq(Byte), NEW whole, NEW echo, IsReply(whole, echo, data),
         NEW raw, NEW how, Came(how, raw, whole), how \in {"whole", "cut", "extended"}
  PROVE  \/ how = "cut" /\ TooShort(raw)
         \/ \E d : Opened(raw, echo, data, d) /\ Came(how, d, data)
<1>1. Len(whole) = Len(data) + 2 /\ Len(data) \in Nat
  BY ReplyLength, LengthIs
<1>2. raw \in Seq(Byte) /\ Agrees(raw, whole) /\ Len(raw) \in Nat
  BY DEF Came
<1>3. CASE TooShort(raw)
  <2>1. Len(raw) < Len(whole)
    BY <1>1, <1>2, <1>3 DEF TooShort
  <2> QED BY <1>1, <1>2, <1>3, <2>1 DEF Came
<1>4. ASSUME NEW d, Opened(raw, echo, data, d) PROVE Came(how, d, data)
  <2>1. d \in Seq(Byte) /\ Len(raw) = Len(d) + 2 /\ Agrees(d, data) /\ Len(d) \in Nat
    BY <1>4, LengthIs DEF Opened
  <2>2. ASSUME how = "whole" PROVE d = data
    <3>1. Len(d) = Len(data)
      BY <1>1, <2>1, <2>2 DEF Came
    <3>2. \A i \in 1..Len(d) : d[i] = data[i]
      BY <2>1, <3>1 DEF Agrees
    <3> QED BY <2>1, <3>1, <3>2, SeqEqual
  <2>3. ASSUME how = "cut" PROVE Len(d) < Len(data)
    BY <1>1, <1>2, <2>1, <2>3 DEF Came
  <2>4. ASSUME how = "extended" PROVE Len(d) > Len(data)
    BY <1>1, <1>2, <2>1, <2>4 DEF Came
  <2> QED BY <1>1, <2>1, <2>2, <2>3, <2>4 DEF Came
<1>5. TooShort(raw) \/ \E d : Opened(raw, echo, data, d)
  BY <1>2, ReplyOpens
<1> QED BY <1>3, <1>4, <1>5

(* A byte of the data, once it has come.                                    *)
LEMMA ByteCame ==
  ASSUME NEW data \in Seq(Byte), NEW how, NEW d, Came(how, d, data),
         NEW p \in Nat, NEW q, q = p + 1, q <= Len(d), q <= Len(data), NEW b, data[q] = b
  PROVE  At(d, p) = b
BY ByteRead DEF Came

LEMMA LockSoundIs ==
  ASSUME NEW raw, NEW e, e = Envelope(raw), NEW d, d = e.value.data
  PROVE  LockSound(raw) =
           IF ~Succeeds(e) THEN Fails(e)
           ELSE IF Len(d) < 3 THEN Raises("ValueError")
           ELSE IF At(d, 1) # SEARCH THEN Raises("ValueError")
           ELSE Returns([enabled |-> At(d, 2) # 0,
                         volume |-> IF Len(d) > 3 /\ At(d, 3) \in LockVolume
                                    THEN Some(At(d, 3)) ELSE None])
BY Zenon DEF LockSound, Parsed

(* The sound reply without its volume.                                     *)
SoundData(data, flag, v) ==
  /\ data \in Seq(Byte) /\ Len(data) = 3 + Len(v) /\ Len(v) \in Nat
  /\ data[2] = SEARCH /\ data[3] = flag
  /\ (v = None /\ Len(data) = 3) \/ (v = Some(data[4]) /\ data[4] \in LockVolume /\ Len(data) = 4)

LEMMA SoundWritten ==
  kind = "sound" => Whole = Reply(<<0, SEARCH, Flag(meant.enabled, 1)>> \o meant.volume)
BY DEF Whole, Bytes

(* Where the fields of a sound are.                                         *)
LEMMA SoundBytes ==
  ASSUME NEW flag \in {0, 1}, NEW v \in Sometimes(LockVolume), NEW data, data = <<0, SEARCH, flag>> \o v
  PROVE  SoundData(data, flag, v)
<1>1. PICK front : front = <<0, SEARCH, flag>>
  BY Zenon
<1>2. 0 \in Byte /\ SEARCH \in Byte /\ flag \in Byte
  BY DEF SEARCH, Byte
<1>3. front \in Seq(Byte) /\ Len(front) = 3 /\ front[2] = SEARCH /\ front[3] = flag
  BY <1>1, <1>2, ThreeBytes
<1>4. v = None \/ \E n \in LockVolume : v = Some(n)
  BY DEF Sometimes
<1>5. CASE v = None
  <2>1. v \in Seq(Byte) /\ Len(v) = 0
    BY <1>5 DEF None
  <2>2. data = front \o v
    BY <1>1
  <2>3. /\ data \in Seq(Byte) /\ Len(data) = Len(front) + Len(v)
        /\ \A i \in 1..Len(front) : data[i] = front[i]
    BY <1>3, <2>1, <2>2, Joined
  <2> QED BY <1>3, <1>5, <2>1, <2>3 DEF SoundData
<1>6. CASE \E n \in LockVolume : v = Some(n)
  <2>0. PICK n \in LockVolume : v = Some(n)
    BY <1>6
  <2>1. v \in Seq(Byte) /\ Len(v) = 1 /\ v[1] = n
    BY <2>0 DEF Some, LockVolume, Byte
  <2>2. data = front \o v
    BY <1>1
  <2>5. PICK w \in Seq(Byte) : w = v
    BY <2>1
  <2>6. /\ front \o w \in Seq(Byte) /\ Len(front \o w) = Len(front) + Len(w)
        /\ \A i \in 1..Len(front) : (front \o w)[i] = front[i]
        /\ \A i \in 1..Len(w) : (front \o w)[Len(front) + i] = w[i]
    BY <1>3, Joined
  <2>3. /\ data \in Seq(Byte) /\ Len(data) = Len(front) + Len(v)
        /\ \A i \in 1..Len(front) : data[i] = front[i]
        /\ \A i \in 1..Len(v) : data[Len(front) + i] = v[i]
    BY <2>2, <2>5, <2>6, Zenon
  <2>4. data[3 + 1] = n
    BY <1>3, <2>1, <2>3
  <2> QED BY <1>3, <2>0, <2>1, <2>3, <2>4 DEF SoundData
<1> QED BY <1>4, <1>5, <1>6

(* The three properties hold of a sound, in every form and once it was      *)
(* read.                                                                    *)
LEMMA SoundKept == IInv /\ kind = "sound" => Kept
<1> SUFFICES ASSUME IInv, kind = "sound" PROVE Kept
  OBVIOUS
<1>1. PICK e \in BOOLEAN, v \in Sometimes(LockVolume) : meant = [enabled |-> e, volume |-> v]
  BY GroupOf, ReportsSay DEF IInv, ReportKinds
<1>2. PICK flag : flag = Flag(e, 1)
  OBVIOUS
<1>3. flag \in {0, 1} /\ (flag # 0) = e
  <2>1. e = TRUE \/ e = FALSE
    OBVIOUS
  <2> QED BY <1>2, <2>1 DEF Flag
<1>4. PICK data : data = <<0, SEARCH, flag>> \o v
  BY Zenon
<1>5. SoundData(data, flag, v)
  BY <1>3, <1>4, SoundBytes
<1>6. data \in Seq(Byte) /\ Len(data) \in Nat /\ Len(data) = 3 + Len(v) /\ Len(v) \in Nat
      /\ data[2] = SEARCH /\ data[3] = flag /\ ((v = None /\ Len(data) = 3) \/ (v = Some(data[4]) /\ data[4] \in LockVolume /\ Len(data) = 4))
  BY <1>5, LengthIs DEF SoundData
<1>7. IsReply(Whole, 0, data)
  <2>1. meant.enabled = e /\ meant.volume = v
    BY <1>1
  <2>2. Whole = Reply(data)
    BY <1>2, <1>4, <2>1, SoundWritten, Zenon
  <2> QED BY <2>2 DEF Reply, IsReply, Byte
<1>8. Whole \in Seq(Byte) /\ Len(Whole) \in Nat
  BY <1>6, <1>7, ReplyLength
<1>9. Understood = meant /\ Sayable
  BY DEF Understood, Sayable
<1>10. PICK decoded : decoded = Decode(wire)
  OBVIOUS
<1>11. decoded = LockSound(wire)
  BY <1>10, Decoders
<1>12. ASSUME form.how = "refused" PROVE ~Returned(decoded)
  <2>1. PICK x : x = Envelope(wire)
    OBVIOUS
  <2>2. ~Succeeds(x) /\ ~Returned(Fails(x))
    BY <1>12, <2>1, RefusedRaises, ReadKinds
  <2> QED BY <1>11, <2>1, <2>2, LockSoundIs
<1>13. ASSUME NEW d, Opened(wire, 0, data, d), Came(form.how, d, data)
       PROVE  /\ Len(d) < 3 => ~Returned(decoded)
              /\ Len(d) >= 3 => /\ Returned(decoded) /\ decoded.value.enabled = e
                                /\ \E w : decoded.value = [enabled |-> e, volume |-> w]
                                /\ Len(d) <= Len(data) => decoded.value.volume \in {v, None}
                                /\ Len(d) >= Len(data) /\ v # None => decoded.value.volume = v
                                /\ Len(d) = 3 => decoded.value.volume = None
  <2>1. PICK x : x = Envelope(wire)
    OBVIOUS
  <2>2. Succeeds(x) /\ x.value.data = d
    BY <1>13, <2>1, EnvelopeOf
  <2>3. decoded = IF Len(d) < 3 THEN Raises("ValueError")
           ELSE IF At(d, 1) # SEARCH THEN Raises("ValueError")
           ELSE Returns([enabled |-> At(d, 2) # 0,
                         volume |-> IF Len(d) > 3 /\ At(d, 3) \in LockVolume
                                    THEN Some(At(d, 3)) ELSE None])
    BY <1>11, <2>1, <2>2, LockSoundIs
  <2>4. d \in Seq(Byte) /\ Len(d) \in Nat
    BY <1>13 DEF Came
  <2>5. Len(d) >= 3 => At(d, 1) = SEARCH /\ At(d, 2) = flag
    BY <1>6, <1>13, <2>4, ByteCame
  <2>6. Len(d) >= 4 /\ Len(data) >= 4 => At(d, 3) = data[4]
    BY <1>6, <1>13, <2>4, ByteCame
  <2>7. v # None => Len(data) = 4
    BY <1>6, Zenon
  <2>8. v = None => Len(data) = 3
    BY <1>6 DEF None
  <2>9. CASE Len(d) < 3
    BY <2>3, <2>9 DEF Returned, Raises
  <2>10. CASE Len(d) >= 3
    <3>1. PICK value : value = [enabled |-> At(d, 2) # 0,
                         volume |-> IF Len(d) > 3 /\ At(d, 3) \in LockVolume
                                    THEN Some(At(d, 3)) ELSE None]
      BY Zenon
    <3>2. decoded = Returns(value)
      <4>1. ~(Len(d) < 3) /\ At(d, 1) = SEARCH
        BY <2>4, <2>5, <2>10
      <4> QED BY <2>3, <3>1, <4>1, Zenon
    <3>3. value.enabled = (At(d, 2) # 0) /\ value.volume = (IF Len(d) > 3 /\ At(d, 3) \in LockVolume
                                    THEN Some(At(d, 3)) ELSE None)
      BY <3>1
    <3>4. value.enabled = e
      BY <1>3, <2>5, <2>10, <3>3, Zenon
    <3>5. Len(d) = 3 => value.volume = None
      BY <3>3
    <3>6. Len(d) <= Len(data) => value.volume \in {v, None}
      BY <1>6, <2>4, <2>6, <2>7, <2>8, <3>3
    <3>7. Len(d) >= Len(data) /\ v # None => value.volume = v
      BY <1>6, <2>4, <2>6, <2>7, <2>8, <3>3
    <3>8. Returned(decoded) /\ decoded.value = value
      BY <3>2 DEF Returned, Returns
    <3>9. \E w : value = [enabled |-> e, volume |-> w]
      BY <3>1, <3>3, <3>4, Zenon
    <3>10. decoded.value.enabled = e /\ \E w : decoded.value = [enabled |-> e, volume |-> w]
      BY <3>4, <3>8, <3>9, Zenon
    <3>11. ~(Len(d) < 3)
      BY <2>4, <2>10
    <3> QED BY <3>5, <3>6, <3>7, <3>8, <3>10, <3>11, Zenon
  <2> QED BY <2>4, <2>9, <2>10
<1>14. form.how \in {"whole", "cut", "extended"} => Came(form.how, wire, Whole)
  BY <1>8, Arrival
<1>15. form.how \in {"whole", "cut", "extended"} =>
          \/ form.how = "cut" /\ TooShort(wire)
          \/ \E d : Opened(wire, 0, data, d) /\ Came(form.how, d, data)
  BY <1>6, <1>7, <1>14, ReplyCame
<1>16. TooShort(wire) => ~Returned(decoded)
  <2>1. PICK x : x = Envelope(wire)
    OBVIOUS
  <2> QED BY <1>11, <2>1, NoEnvelope, LockSoundIs
<1>17. DOMAIN meant = {"enabled", "volume"} /\ meant.enabled = e /\ meant.volume = v
  BY <1>1
<1>18. v = None => Len(data) = 3
  BY <1>6 DEF Some, None
<1>19. form.how = "whole" => Returned(decoded) /\ decoded.value = Understood
  <2> SUFFICES ASSUME form.how = "whole" PROVE Returned(decoded) /\ decoded.value = Understood
    OBVIOUS
  <2>1. PICK d : Opened(wire, 0, data, d) /\ Came("whole", d, data)
    BY <1>15
  <2>2. Len(d) = Len(data) /\ Len(d) >= 3
    BY <1>6, <2>1 DEF Came
  <2>3. Returned(decoded) /\ (\E w : decoded.value = [enabled |-> e, volume |-> w])
        /\ decoded.value.volume = v
    <3>1. Came(form.how, d, data) /\ Len(d) <= Len(data) /\ Len(d) >= Len(data)
      BY <1>6, <2>1, <2>2
    <3>2. Returned(decoded) /\ \E w : decoded.value = [enabled |-> e, volume |-> w]
      BY <1>13, <2>1, <2>2, <3>1, Zenon
    <3>3. decoded.value.volume \in {v, None} /\ (v # None => decoded.value.volume = v)
      BY <1>13, <2>1, <2>2, <3>1, Zenon
    <3> QED BY <3>2, <3>3, Zenon
  <2>4. decoded.value = [enabled |-> e, volume |-> v]
    BY <2>3
  <2> QED BY <1>1, <1>9, <2>3, <2>4
<1>20. form.how = "extended" /\ Returned(decoded) => \A f \in DOMAIN meant : Withstands(f, decoded.value[f])
  <2> SUFFICES ASSUME form.how = "extended" PROVE \A f \in DOMAIN meant : Withstands(f, decoded.value[f])
    OBVIOUS
  <2>1. PICK d : Opened(wire, 0, data, d) /\ Came("extended", d, data)
    BY <1>15
  <2>2. Len(d) > Len(data) /\ Len(d) >= 3 /\ Len(d) \in Nat
    BY <1>6, <2>1 DEF Came
  <2>3. decoded.value.enabled = e /\ (v # None => decoded.value.volume = v)
    BY <1>6, <1>13, <2>1, <2>2
  <2>4. Withstands("enabled", decoded.value["enabled"])
    BY <1>9, <1>17, <2>3 DEF Withstands
  <2>5. Withstands("volume", decoded.value["volume"])
    BY <1>9, <1>17, <2>3 DEF Withstands
  <2> QED BY <1>17, <2>4, <2>5
<1>21. form.how = "cut" /\ Returned(decoded) => \A f \in DOMAIN meant : SentOrMissing(f, decoded.value[f])
  <2> SUFFICES ASSUME form.how = "cut", Returned(decoded) PROVE \A f \in DOMAIN meant : SentOrMissing(f, decoded.value[f])
    OBVIOUS
  <2>1. PICK d : Opened(wire, 0, data, d) /\ Came("cut", d, data)
    BY <1>15, <1>16
  <2>2. Len(d) < Len(data) /\ Len(d) \in Nat
    BY <2>1 DEF Came
  <2>3. decoded.value.enabled = e /\ decoded.value.volume \in {v, None}
    BY <1>6, <1>13, <2>1, <2>2
  <2>4. SentOrMissing("enabled", decoded.value["enabled"])
    BY <1>9, <1>17, <2>3 DEF SentOrMissing
  <2>5. MayLack("volume")
    BY DEF MayLack
  <2>6. SentOrMissing("volume", decoded.value["volume"])
    BY <1>9, <1>17, <2>3, <2>5, SentOrMissingOf
  <2> QED BY <1>17, <2>4, <2>6
<1>22. kind \notin RequestKinds
  BY DEF RequestKinds
<1>23. ReadAsSent /\ NothingIsMadeUp
  BY <1>9, <1>10, <1>12, <1>19, <1>20, <1>21, <1>22, Clauses
<1> QED BY <1>23, NotAPage DEF Kept

----------------------------------------------------------------------------
(* Addresses and texts.                                                     *)

(* The four clauses of the two properties, by how a message differs.        *)
WholeClause(decoded) ==
  /\ Returned(decoded) <=> Sayable
  /\ Returned(decoded) => decoded.value = Understood

(* What is asked of a message with something behind it.                     *)
ExtendedClause(decoded) ==
  Returned(decoded) => \A f \in DOMAIN meant : Withstands(f, decoded.value[f])

(* What is asked of a message that lost its end.                            *)
CutClause(decoded) ==
  Returned(decoded) => \A f \in DOMAIN meant : SentOrMissing(f, decoded.value[f])

(* What is asked of a refusal.                                              *)
RefusedClause(decoded) ==
  Returned(decoded) => \A f \in DOMAIN meant : MayLack(f) /\ decoded.value[f] = None

(* A reply, from what its decoder makes of its data.                        *)
LEMMA ReplyKept ==
  ASSUME IInv, kind \notin RequestKinds, kind # "page", NEW decoded, decoded = Decode(wire),
         NEW echo, NEW data \in Seq(Byte), IsReply(Whole, echo, data),
         TooShort(wire) => ~Returned(decoded),
         \A d : Opened(wire, echo, data, d) /\ Came("whole", d, data) => WholeClause(decoded),
         \A d : Opened(wire, echo, data, d) /\ Came("extended", d, data) => ExtendedClause(decoded),
         \A d : Opened(wire, echo, data, d) /\ Came("cut", d, data) => CutClause(decoded),
         form.how = "refused" => RefusedClause(decoded)
  PROVE  Kept
<1>1. Whole \in Seq(Byte)
  BY ReplyLength
<1>2. form.how \in {"whole", "cut", "extended"} =>
        \/ form.how = "cut" /\ TooShort(wire)
        \/ \E d : Opened(wire, echo, data, d) /\ Came(form.how, d, data)
  BY <1>1, Arrival, ReplyCame
<1>3. form.how = "whole" => WholeClause(decoded)
  BY <1>2
<1>4. form.how = "extended" => ExtendedClause(decoded)
  BY <1>2
<1>5. form.how = "cut" => CutClause(decoded)
  BY <1>2 DEF CutClause
<1>6. ReadAsSent /\ NothingIsMadeUp
  BY <1>3, <1>4, <1>5, Clauses DEF WholeClause, ExtendedClause, CutClause, RefusedClause
<1> QED BY <1>6, NotAPage DEF Kept

LEMMA PropertyMacIs ==
  ASSUME NEW raw, NEW e, e = Envelope(raw), NEW d, d = e.value.data
  PROVE  PropertyMac(raw) =
           IF ~Succeeds(e) THEN Fails(e)
           ELSE IF Len(d) < 0 THEN Raises("ValueError")
           ELSE Returns([mac |-> Mac(d)])
BY Zenon DEF PropertyMac, Parsed

LEMMA PropertyStringIs ==
  ASSUME NEW raw, NEW e, e = Envelope(raw), NEW d, d = e.value.data
  PROVE  PropertyString(raw) =
           IF ~Succeeds(e) THEN Fails(e)
           ELSE IF Len(d) < 0 THEN Raises("ValueError")
           ELSE IF IsAscii(UntilZero(d)) THEN Returns([text |-> UntilZero(d)]) ELSE Raises("ValueError")
BY Zenon DEF PropertyString, Parsed

LEMMA MacWritten ==
  /\ kind = "mac" => Whole = Reply(Mac(meant.mac))
  /\ kind = "text" => Whole = Reply(meant.text \o <<0>>)
BY DEF Whole, Bytes

(* An address is its bytes, turned round.                                   *)
LEMMA MacIs ==
  ASSUME NEW raw \in Seq(Byte), NEW mac, mac = Mac(raw)
  PROVE  /\ mac \in Seq(Byte) /\ Len(mac) = Len(raw)
         /\ \A i \in 1..Len(raw) : mac[i] = raw[Len(raw) + 1 - i]
<1>1. Len(raw) \in Nat /\ DOMAIN raw = 1..Len(raw)
  BY LengthIs
<1>2. PICK n \in Nat : n = Len(raw)
  BY <1>1
<1>3. mac = [i \in 1..n |-> raw[n + 1 - i]]
  BY <1>1, <1>2 DEF Mac
<1>4. \A i \in 1..n : n + 1 - i \in 1..n
  OBVIOUS
<1>5. \A i \in 1..n : raw[n + 1 - i] \in Byte
  BY <1>2, <1>4, LengthIs
<1>6. mac \in [1..n -> Byte]
  BY <1>3, <1>5
<1> QED BY <1>2, <1>3, <1>6

(* Turned round twice, an address is itself.                                *)
LEMMA MacBack ==
  ASSUME NEW raw \in Seq(Byte)
  PROVE  Mac(Mac(raw)) = raw
<1>1. PICK mac : mac = Mac(raw)
  OBVIOUS
<1>2. /\ mac \in Seq(Byte) /\ Len(mac) = Len(raw)
      /\ \A i \in 1..Len(raw) : mac[i] = raw[Len(raw) + 1 - i]
  BY <1>1, MacIs
<1>3. PICK back : back = Mac(mac)
  OBVIOUS
<1>4. /\ back \in Seq(Byte) /\ Len(back) = Len(mac)
      /\ \A i \in 1..Len(mac) : back[i] = mac[Len(mac) + 1 - i]
  BY <1>2, <1>3, MacIs
<1>5. PICK n \in Nat : n = Len(raw)
  BY LengthIs
<1>6. ASSUME NEW i \in 1..n PROVE back[i] = raw[i]
  <2>1. n + 1 - i \in 1..n /\ n + 1 - (n + 1 - i) = i
    OBVIOUS
  <2> QED BY <1>2, <1>4, <1>5, <2>1
<1>7. back = raw
  BY <1>2, <1>4, <1>5, <1>6, SeqEqual
<1> QED BY <1>1, <1>3, <1>7

LEMMA TheMac ==
  ASSUME NEW mac, mac = <<1, 2, 3, 4, 5, 6>>
  PROVE  mac \in Seq(Byte) /\ Len(mac) = 6
BY DEF Byte

(* The three properties hold of a address, in every form and once it was    *)
(* read.                                                                    *)
LEMMA MacKept == IInv /\ kind = "mac" => Kept
<1> SUFFICES ASSUME IInv, kind = "mac" PROVE Kept
  OBVIOUS
<1>1. PICK mac : mac = <<1, 2, 3, 4, 5, 6>>
  BY Zenon
<1>2. meant = [mac |-> mac]
  BY <1>1, GroupOf, ReportsSay DEF IInv, ReportKinds
<1>3. mac \in Seq(Byte)
  BY <1>1, TheMac
<1>4. PICK data : data = Mac(mac)
  OBVIOUS
<1>5. data \in Seq(Byte) /\ Mac(data) = mac
  BY <1>3, <1>4, MacIs, MacBack
<1>6. IsReply(Whole, 0, data)
  BY <1>2, <1>4, MacWritten DEF Reply, IsReply, Byte
<1>7. PICK decoded : decoded = Decode(wire)
  OBVIOUS
<1>8. PICK e : e = Envelope(wire)
  OBVIOUS
<1>9. decoded = PropertyMac(wire)
  BY <1>7, Decoders
<1>10. TooShort(wire) => ~Returned(decoded)
  BY <1>8, <1>9, NoEnvelope, PropertyMacIs
<1>11. form.how = "refused" => RefusedClause(decoded)
  <2>1. form.how = "refused" => ~Returned(decoded)
    BY <1>8, <1>9, RefusedRaises, ReadKinds, PropertyMacIs
  <2> QED BY <2>1 DEF RefusedClause
<1>12. ASSUME NEW d, Opened(wire, 0, data, d), Came("whole", d, data) PROVE WholeClause(decoded)
  <2>1. d = data /\ Len(d) \in Nat
    BY <1>12 DEF Came
  <2>2. Succeeds(e) /\ e.value.data = d
    BY <1>8, <1>12, EnvelopeOf
  <2>3. decoded = Returns([mac |-> Mac(d)])
    BY <1>8, <1>9, <2>1, <2>2, PropertyMacIs
  <2>4. Understood = meant /\ Sayable
    BY DEF Understood, Sayable
  <2> QED BY <1>2, <1>5, <2>1, <2>3, <2>4 DEF WholeClause, Returned, Returns
<1>13. ExtendedClause(decoded)
  BY <1>2 DEF ExtendedClause, Withstands, Outgrown
<1>14. CutClause(decoded)
  BY <1>2 DEF CutClause, SentOrMissing
<1>15. kind \notin RequestKinds
  BY DEF RequestKinds
<1> QED BY <1>5, <1>6, <1>7, <1>10, <1>11, <1>12, <1>13, <1>14, <1>15, ReplyKept

(* The text before the first zero.                                         *)
LEMMA UntilZeroIs ==
  ASSUME NEW raw \in Seq(Byte), NEW text \in Seq(Byte), Within(text, raw, 0),
         \A i \in 1..Len(text) : text[i] # 0, NEW m, m = Len(text) + 1, m <= Len(raw), raw[m] = 0
  PROVE  UntilZero(raw) = text
<1>1. PICK n \in Nat : n = Len(text)
  BY LengthIs
<1>2. /\ n \in 0..Len(raw) /\ (\A i \in 1..n : raw[i] # 0) /\ raw[n + 1] = 0 /\ Len(raw) \in Nat /\ n < Len(raw)
  <2>1. \A i \in 1..n : raw[0 + i] = text[i]
    BY <1>1 DEF Within
  <2> QED BY <1>1, <2>1, LengthIs
<1>3. ASSUME NEW z \in 0..Len(raw), \A i \in 1..z : raw[i] # 0, z = Len(raw) \/ raw[z + 1] = 0
      PROVE  z = n
  <2>1. CASE z < n
    <3>1. z + 1 \in 1..n /\ z # Len(raw)
      BY <1>2, <2>1
    <3> QED BY <1>2, <1>3, <3>1
  <2>2. CASE n < z
    <3>1. n + 1 \in 1..z
      BY <1>2, <2>2
    <3> QED BY <1>2, <1>3, <3>1
  <2> QED BY <1>2, <2>1, <2>2
<1>4. (CHOOSE k \in 0..Len(raw) : /\ \A i \in 1..k : raw[i] # 0
                                  /\ k = Len(raw) \/ raw[k + 1] = 0) = n
  BY <1>2, <1>3
<1>5. PICK z \in Nat : z = 0
  OBVIOUS
<1>6. Slice(raw, z, n) = text
  BY <1>1, <1>5, SliceIsBody
<1> QED BY <1>4, <1>5, <1>6 DEF UntilZero

(* The three properties hold of a text, in every form and once it was read. *)
LEMMA TextKept == IInv /\ kind = "text" => Kept
<1> SUFFICES ASSUME IInv, kind = "text" PROVE Kept
  OBVIOUS
<1>1. PICK text \in Codes : meant = [text |-> text]
  BY GroupOf, ReportsSay DEF IInv, ReportKinds
<1>2. text \in Seq(Byte) /\ \A i \in 1..Len(text) : text[i] # 0 /\ text[i] < 128
  <2>1. text \in Seq(Byte) /\ IsPasscode(text)
    BY CodesAre
  <2> QED BY <2>1 DEF IsPasscode
<1>3. PICK zero : zero = <<0>>
  BY Zenon
<1>4. zero \in Seq(Byte) /\ Len(zero) = 1 /\ zero[1] = 0
  <2>1. PICK z \in Byte : z = 0
    BY DEF Byte
  <2>2. zero = <<z>>
    BY <1>3, <2>1
  <2> QED BY <2>1, <2>2, OneByte
<1>5. PICK data : data = text \o zero
  OBVIOUS
<1>6. /\ data \in Seq(Byte) /\ Len(data) = Len(text) + 1
      /\ \A i \in 1..Len(text) : data[i] = text[i]
      /\ data[Len(text) + 1] = 0
  <2>1. /\ data \in Seq(Byte) /\ Len(data) = Len(text) + Len(zero)
        /\ \A i \in 1..Len(text) : data[i] = text[i]
        /\ \A i \in 1..Len(zero) : data[Len(text) + i] = zero[i]
    BY <1>2, <1>4, <1>5, Joined
  <2> QED BY <1>4, <2>1
<1>7. IsReply(Whole, 0, data)
  BY <1>1, <1>3, <1>5, MacWritten DEF Reply, IsReply, Byte
<1>8. PICK decoded : decoded = Decode(wire)
  OBVIOUS
<1>9. PICK e : e = Envelope(wire)
  OBVIOUS
<1>10. decoded = PropertyString(wire)
  BY <1>8, Decoders
<1>11. TooShort(wire) => ~Returned(decoded)
  BY <1>9, <1>10, NoEnvelope, PropertyStringIs
<1>12. form.how = "refused" => RefusedClause(decoded)
  <2>1. form.how = "refused" => ~Returned(decoded)
    BY <1>9, <1>10, RefusedRaises, ReadKinds, PropertyStringIs
  <2> QED BY <2>1 DEF RefusedClause
<1>13. Understood = meant /\ Sayable
  BY DEF Understood, Sayable
<1>14. ASSUME NEW d, NEW how, Opened(wire, 0, data, d), Came(how, d, data), how \in {"whole", "extended"}
       PROVE  decoded = Returns(meant)
  <2>1. d \in Seq(Byte) /\ Agrees(d, data) /\ Len(d) >= Len(data) /\ Len(d) \in Nat /\ Len(text) \in Nat
    BY <1>2, <1>6, <1>14, LengthIs DEF Came
  <2>2. \A i \in 1..Len(data) : d[i] = data[i]
    BY <1>6, <2>1 DEF Agrees
  <2>3. Within(text, d, 0)
    BY <1>6, <2>1, <2>2 DEF Within
  <2>4. d[Len(text) + 1] = 0 /\ Len(text) + 1 <= Len(d)
    BY <1>6, <2>1, <2>2
  <2>5. UntilZero(d) = text
    BY <1>2, <2>1, <2>3, <2>4, UntilZeroIs
  <2>6. Succeeds(e) /\ e.value.data = d
    BY <1>9, <1>14, EnvelopeOf
  <2>7. IsAscii(text)
    BY <1>2 DEF IsAscii
  <2> QED BY <1>1, <1>9, <1>10, <2>1, <2>5, <2>6, <2>7, PropertyStringIs
<1>15. ASSUME NEW d, Opened(wire, 0, data, d), Came("whole", d, data) PROVE WholeClause(decoded)
  <2>1. decoded = Returns(meant)
    BY <1>14, <1>15
  <2> QED BY <1>13, <2>1 DEF WholeClause, Returned, Returns
<1>16. ASSUME NEW d, Opened(wire, 0, data, d), Came("extended", d, data) PROVE ExtendedClause(decoded)
  <2>1. decoded = Returns(meant)
    BY <1>14, <1>16
  <2> QED BY <1>13, <2>1 DEF ExtendedClause, Returned, Returns, Withstands
<1>17. CutClause(decoded)
  BY <1>1 DEF CutClause, SentOrMissing
<1>18. kind \notin RequestKinds
  BY DEF RequestKinds
<1> QED BY <1>6, <1>7, <1>8, <1>11, <1>12, <1>15, <1>16, <1>17, <1>18, ReplyKept

----------------------------------------------------------------------------
(* The pushes: a state, and a record of the log.                            *)

(* The pushes a lock sends.                                                *)
LEMMA PushesSay ==
  ASSUME message \in Reports
  PROVE  /\ kind = "statePush" => \E b \in Levels, s \in {0, 1} :
              meant = [battery |-> Some(b), bolt |-> Some(s), uid |-> None,
                       recordId |-> None, timestamp |-> None]
         /\ kind = "logPush" => \E b \in Levels, u \in Ids, r \in Ids, t \in Stamps :
              meant = [battery |-> Some(b), bolt |-> None, uid |-> Some(u),
                       recordId |-> Some(r), timestamp |-> Some(t)]
<1>1. kind = "statePush" => \E b \in Levels, s \in {0, 1} :
              meant = [battery |-> Some(b), bolt |-> Some(s), uid |-> None,
                       recordId |-> None, timestamp |-> None]
  BY DEF Reports, Means, kind, meant
<1>2. kind = "logPush" => \E b \in Levels, u \in Ids, r \in Ids, t \in Stamps :
              meant = [battery |-> Some(b), bolt |-> None, uid |-> Some(u),
                       recordId |-> Some(r), timestamp |-> Some(t)]
  BY DEF Reports, Means, kind, meant
<1> QED BY <1>1, <1>2

LEMMA PushesWritten ==
  /\ kind = "statePush" => Whole = Pushed(<<meant.battery[1], meant.bolt[1], 0>>)
  /\ kind = "logPush" =>
       Whole = Pushed(<<meant.battery[1]>> \o Padded(4, meant.uid[1])
                        \o Padded(4, meant.recordId[1]) \o meant.timestamp[1])
BY DEF Whole, Bytes

(* What a push is read as.                                                 *)
LEMMA PushIs ==
  ASSUME NEW raw, NEW echo, NEW data, NEW d, Opened(raw, echo, data, d)
  PROVE  Push(raw) = Returns(LockEvent(echo, d))
<1>1. PICK e : e = Envelope(raw)
  OBVIOUS
<1>2. Returned(e) /\ e.value.echo = echo /\ e.value.data = d
  BY <1>1 DEF Opened, Returned, Returns
<1> QED BY <1>1, <1>2 DEF Push

LEMMA PushTooShort ==
  ASSUME NEW raw, TooShort(raw)
  PROVE  ~Returned(Push(raw))
BY DEF TooShort, Push, Returned, Raises

(* A LockEvent by its fields.                                               *)
EventOf(battery, bolt, uid, record, stamp) ==
  [battery |-> battery, bolt |-> bolt, uid |-> uid, recordId |-> record, timestamp |-> stamp]

(* What LockEvent takes from a push of n bytes: nothing, a state (three     *)
(* bytes exactly), a record (fifteen or more), or the battery alone.        *)
LEMMA EventIs ==
  ASSUME NEW data \in Seq(Byte), NEW n \in Nat, n = Len(data)
  PROVE  /\ n = 0 => LockEvent(STATE_PUSH, data) = EventOf(None, None, None, None, None)
         /\ n = 3 =>
              LockEvent(STATE_PUSH, data) = EventOf(Some(At(data, 0)), Bolt(At(data, 1)), None, None, None)
         /\ n >= 15 =>
              LockEvent(STATE_PUSH, data) =
                EventOf(Some(At(data, 0)), None, Some(Number(Slice(data, 1, 5))),
                        Some(Number(Slice(data, 5, 9))), Date(6, Slice(data, 9, 15)))
         /\ 0 < n /\ n < 15 /\ n # 3 =>
              LockEvent(STATE_PUSH, data) = EventOf(Some(At(data, 0)), None, None, None, None)
<1>1. data = <<>> <=> n = 0
  OBVIOUS
<1>2. ASSUME n = 0
      PROVE  LockEvent(STATE_PUSH, data) = EventOf(None, None, None, None, None)
  <2>1. LockEvent(STATE_PUSH, data) = NoEvent
    BY <1>1, <1>2 DEF LockEvent
  <2> QED BY <2>1 DEF NoEvent, EventOf
<1>3. ASSUME n = 3
      PROVE  LockEvent(STATE_PUSH, data) = EventOf(Some(At(data, 0)), Bolt(At(data, 1)), None, None, None)
  <2>1. data # <<>> /\ Len(data) = 3
    BY <1>1, <1>3
  <2>2. LockEvent(STATE_PUSH, data) = [NoEvent EXCEPT !.battery = Some(At(data, 0)), !.bolt = Bolt(At(data, 1))]
    BY <2>1 DEF LockEvent
  <2> QED BY <2>2 DEF NoEvent, EventOf
<1>4. ASSUME n >= 15
      PROVE  LockEvent(STATE_PUSH, data) =
               EventOf(Some(At(data, 0)), None, Some(Number(Slice(data, 1, 5))),
                       Some(Number(Slice(data, 5, 9))), Date(6, Slice(data, 9, 15)))
  <2>1. data # <<>> /\ Len(data) # 3 /\ Len(data) >= 15
    BY <1>1, <1>4
  <2>2. LockEvent(STATE_PUSH, data) =
          [NoEvent EXCEPT !.battery = Some(At(data, 0)),
                         !.uid = Some(Number(Slice(data, 1, 5))),
                         !.recordId = Some(Number(Slice(data, 5, 9))),
                         !.timestamp = Date(6, Slice(data, 9, 15))]
    BY <2>1 DEF LockEvent
  <2> QED BY <2>2 DEF NoEvent, EventOf
<1>5. ASSUME 0 < n, n < 15, n # 3
      PROVE  LockEvent(STATE_PUSH, data) = EventOf(Some(At(data, 0)), None, None, None, None)
  <2>1. data # <<>> /\ Len(data) # 3 /\ ~(Len(data) >= 15)
    BY <1>1, <1>5
  <2>2. LockEvent(STATE_PUSH, data) = [NoEvent EXCEPT !.battery = Some(At(data, 0))]
    BY <2>1 DEF LockEvent
  <2> QED BY <2>2 DEF NoEvent, EventOf
<1> QED BY <1>2, <1>3, <1>4, <1>5

LEMMA EventFields ==
  ASSUME NEW v, NEW a, NEW b, NEW c, NEW d, NEW e, v = EventOf(a, b, c, d, e)
  PROVE  /\ v.battery = a /\ v.bolt = b /\ v.uid = c /\ v.recordId = d /\ v.timestamp = e
         /\ DOMAIN v = {"battery", "bolt", "uid", "recordId", "timestamp"}
BY DEF EventOf

(* What is meant reads as meant.                                           *)
LEMMA PushMeans ==
  ASSUME kind \in {"statePush", "logPush"}
  PROVE  /\ Understood = meant /\ Sayable /\ kind \notin RequestKinds /\ kind # "page"
         /\ \A f : MayLack(f)
         /\ \A f : Withstands(f, meant[f])
         /\ \A f : SentOrMissing(f, meant[f]) /\ SentOrMissing(f, None)
         /\ kind = "statePush" => \A f, x : f # "battery" => Withstands(f, x)
         /\ form.how # "refused" \/ ~IInv
<1>1. Understood = meant /\ Sayable /\ kind \notin RequestKinds /\ kind # "page" /\ kind \notin ReplyKinds
  <2>1. Understood = meant
    BY DEF Understood
  <2>2. Sayable
    <3>1. CASE kind = "statePush"
      BY <3>1 DEF Sayable
    <3>2. CASE kind = "logPush"
      BY <3>2 DEF Sayable
    <3> QED BY <3>1, <3>2
  <2>3. kind \notin RequestKinds /\ kind # "page" /\ kind \notin ReplyKinds
    BY DEF RequestKinds, ReplyKinds
  <2> QED BY <2>1, <2>2, <2>3
<1>2. \A f : MayLack(f)
  BY DEF MayLack
<1>3. \A f : Withstands(f, meant[f])
  BY <1>1 DEF Withstands
<1>4. \A f : SentOrMissing(f, meant[f]) /\ SentOrMissing(f, None)
  BY <1>1, <1>2, SentOrMissingOf
<1>5. kind = "statePush" => \A f, x : f # "battery" => Withstands(f, x)
  BY DEF Withstands, Outgrown
<1>6. form.how # "refused" \/ ~IInv
  BY <1>1, ReadKinds
<1> QED BY <1>1, <1>2, <1>3, <1>4, <1>5, <1>6

(* The three properties hold of a state the lock pushes, in every form and  *)
(* once it was read.                                                        *)
LEMMA StatePushKept == IInv /\ kind = "statePush" => Kept
<1> SUFFICES ASSUME IInv, kind = "statePush" PROVE Kept
  OBVIOUS
<1>1. PICK b \in Levels, s \in {0, 1} :
         meant = [battery |-> Some(b), bolt |-> Some(s), uid |-> None, recordId |-> None, timestamp |-> None]
  BY GroupOf, PushesSay DEF IInv, ReportKinds
<1>2. meant = EventOf(Some(b), Some(s), None, None, None)
  BY <1>1 DEF EventOf
<1>3. PICK data : data = <<b, s, 0>>
  OBVIOUS
<1>4. b \in Byte /\ s \in Byte /\ 0 \in Byte /\ s \in {LOCKED, UNLOCKED}
  BY LevelsAre DEF Byte, LOCKED, UNLOCKED
<1>5. data \in Seq(Byte) /\ Len(data) = 3 /\ data[1] = b /\ data[2] = s
  BY <1>3, <1>4, ThreeBytes
<1>6. meant.battery[1] = b /\ meant.bolt[1] = s
  BY <1>1 DEF Some
<1>7. IsReply(Whole, STATE_PUSH, data)
  BY <1>3, <1>6, PushesWritten DEF Pushed, IsReply, Byte, STATE_PUSH
<1>8. PICK decoded : decoded = Decode(wire)
  OBVIOUS
<1>9. decoded = Push(wire)
  BY <1>8, Decoders
<1>10. TooShort(wire) => ~Returned(decoded)
  BY <1>9, PushTooShort
<1>11. ASSUME NEW d, NEW how, Opened(wire, STATE_PUSH, data, d), Came(how, d, data)
       PROVE  /\ decoded = Returns(LockEvent(STATE_PUSH, d)) /\ d \in Seq(Byte) /\ Len(d) \in Nat
              /\ Len(d) >= 1 => At(d, 0) = b
              /\ Len(d) >= 3 => At(d, 1) = s
  <2>1. decoded = Returns(LockEvent(STATE_PUSH, d))
    BY <1>9, <1>11, PushIs
  <2>2. d \in Seq(Byte) /\ Len(d) \in Nat
    BY <1>11 DEF Came
  <2>3. ASSUME Len(d) >= 1 PROVE At(d, 0) = b
    BY <1>5, <1>11, <2>2, <2>3, ByteCame
  <2>4. ASSUME Len(d) >= 3 PROVE At(d, 1) = s
    <3>1. 2 <= Len(d)
      BY <2>2, <2>4
    <3> QED BY <1>5, <1>11, <2>2, <3>1, ByteCame
  <2> QED BY <2>1, <2>2, <2>3, <2>4
<1>12. ASSUME NEW d, Opened(wire, STATE_PUSH, data, d), Came("whole", d, data) PROVE WholeClause(decoded)
  <2>1. Len(d) = 3
    BY <1>5, <1>12 DEF Came
  <2>2. LockEvent(STATE_PUSH, d) = EventOf(Some(b), Bolt(s), None, None, None)
    <3>1. d \in Seq(Byte) /\ At(d, 0) = b /\ At(d, 1) = s
      <4>1. d \in Seq(Byte) /\ (Len(d) >= 1 => At(d, 0) = b) /\ (Len(d) >= 3 => At(d, 1) = s)
        BY <1>11, <1>12, Zenon
      <4>2. Len(d) >= 1 /\ Len(d) >= 3
        BY <2>1
      <4> QED BY <4>1, <4>2
    <3> QED BY <2>1, <3>1, EventIs
  <2>3. Bolt(s) = Some(s)
    BY <1>4 DEF Bolt
  <2>4. decoded = Returns(meant)
    BY <1>2, <1>11, <1>12, <2>2, <2>3
  <2> QED BY <2>4, PushMeans DEF WholeClause, Returned, Returns
<1>13. ASSUME NEW d, Opened(wire, STATE_PUSH, data, d), Came("extended", d, data) PROVE ExtendedClause(decoded)
  <2>1. Len(d) > 3 /\ Len(d) \in Nat
    BY <1>5, <1>13 DEF Came
  <2>2. PICK v : v = LockEvent(STATE_PUSH, d)
    OBVIOUS
  <2>3. PICK n \in Nat : n = Len(d) /\ (n >= 15 \/ (0 < n /\ n < 15 /\ n # 3))
    BY <2>1
  <2>4. \E x, y, z : v = EventOf(Some(At(d, 0)), None, x, y, z)
    <3>1. d \in Seq(Byte)
      BY <1>11, <1>13
    <3> QED BY <3>1, <2>2, <2>3, EventIs
  <2>5. v.battery = Some(b)
    BY <1>11, <1>13, <2>1, <2>4, EventFields
  <2>6. meant.battery = Some(b)
    BY <1>1
  <2>7. ASSUME NEW f \in DOMAIN meant PROVE Withstands(f, v[f])
    <3>1. CASE f = "battery"
      <4>1. v[f] = meant[f]
        BY <2>5, <2>6, <3>1
      <4> QED BY <4>1, PushMeans
    <3>2. CASE f # "battery"
      BY <3>2, PushMeans
    <3> QED BY <3>1, <3>2
  <2>8. decoded = Returns(v)
    BY <1>11, <1>13, <2>2
  <2> QED BY <2>7, <2>8 DEF ExtendedClause, Returns
<1>14. ASSUME NEW d, Opened(wire, STATE_PUSH, data, d), Came("cut", d, data) PROVE CutClause(decoded)
  <2>1. Len(d) < 3 /\ Len(d) \in Nat
    BY <1>5, <1>14 DEF Came
  <2>2. PICK v : v = LockEvent(STATE_PUSH, d)
    OBVIOUS
  <2>3. v = EventOf(None, None, None, None, None) \/ v = EventOf(Some(b), None, None, None, None)
    <3>0. d \in Seq(Byte) /\ (Len(d) >= 1 => At(d, 0) = b)
      BY <1>11, <1>14
    <3>1. CASE Len(d) = 0
      <4>1. PICK n \in Nat : n = Len(d) /\ n = 0
        BY <3>1
      <4> QED BY <2>2, <3>0, <4>1, EventIs
    <3>2. CASE Len(d) # 0
      <4>1. PICK n \in Nat : n = Len(d) /\ 0 < n /\ n < 15 /\ n # 3 /\ n >= 1
        BY <2>1, <3>2
      <4> QED BY <2>2, <3>0, <4>1, EventIs
    <3> QED BY <3>1, <3>2
  <2>4. ASSUME NEW f \in DOMAIN meant PROVE v[f] = meant[f] \/ v[f] = None
    <3>1. f \in {"battery", "bolt", "uid", "recordId", "timestamp"} /\ meant.battery = Some(b)
      BY <1>2, EventFields
    <3>2. v.bolt = None /\ v.uid = None /\ v.recordId = None /\ v.timestamp = None /\ (v.battery = None \/ v.battery = Some(b))
      BY <2>3, EventFields
    <3> QED BY <3>1, <3>2
  <2>5. decoded = Returns(v)
    BY <1>11, <1>14, <2>2
  <2> QED BY <2>4, <2>5, PushMeans DEF CutClause, Returns
<1>15. form.how = "refused" => RefusedClause(decoded)
  BY PushMeans
<1>16. kind \notin RequestKinds /\ kind # "page"
  BY PushMeans
<1> QED BY <1>5, <1>7, <1>8, <1>10, <1>12, <1>13, <1>14, <1>15, <1>16, ReplyKept

(* A field written behind what is there.                                   *)
LEMMA Behind ==
  ASSUME NEW s, NEW t, NEW p, NEW n, NEW u, MadeOf(u, s, t, p, n)
  PROVE  u \in Seq(Byte) /\ Len(u) = n /\ FieldAt(t, u, p, n)
BY DEF MadeOf, FieldAt

(* A field of the first part is a field of both.                            *)
LEMMA StillThere ==
  ASSUME NEW s \in Seq(Byte), NEW t, NEW a, NEW n, NEW u, MadeOf(u, s, t, a, n),
         NEW field \in Seq(Byte), NEW p \in Nat, NEW q, FieldAt(field, s, p, q)
  PROVE  FieldAt(field, u, p, q)
<1>4. u \in Seq(Byte) /\ Within(s, u, 0)
  BY DEF MadeOf
<1>5. PICK z \in Nat : z = 0
  OBVIOUS
<1>6. Within(field, s, p) /\ q = p + Len(field)
  BY DEF FieldAt
<1>7. Within(s, u, z) /\ p = z + p
  BY <1>4, <1>5
<1>8. Within(field, u, p)
  BY <1>4, <1>5, <1>6, <1>7, PartOfPart
<1> QED BY <1>6, <1>8 DEF FieldAt

(* The first bytes stay where they are.                                    *)
LEMMA FirstStays ==
  ASSUME NEW s \in Seq(Byte), NEW t, NEW a, NEW n, NEW u, MadeOf(u, s, t, a, n),
         NEW i \in Nat, 1 <= i, i <= Len(s)
  PROVE  u[i] = s[i]
BY LengthIs DEF MadeOf, Within

LogPushBytes(data, b, u, r, t) == data = <<b>> \o u \o r \o t

Single(t, a) == t = <<a>>

LEMMA SingleIs ==
  ASSUME NEW a \in Byte, NEW t, Single(t, a)
  PROVE  t \in Seq(Byte) /\ Len(t) = 1 /\ t[1] = a
BY DEF Single

(* Where the fields of a pushed record are.                                 *)
LEMMA LogPushData ==
  ASSUME NEW b \in Byte, NEW u \in Seq(Byte), Len(u) = 4, NEW r \in Seq(Byte), Len(r) = 4,
         NEW t \in Seq(Byte), Len(t) = 6, NEW data, LogPushBytes(data, b, u, r, t)
  PROVE  /\ data \in Seq(Byte) /\ Len(data) = 15 /\ data[1] = b
         /\ FieldAt(u, data, 1, 5) /\ FieldAt(r, data, 5, 9) /\ FieldAt(t, data, 9, 15)
<1>1. PICK first : Single(first, b) /\ data = ((first \o u) \o r) \o t
  BY Zenon DEF LogPushBytes, Single
<1>2. first \in Seq(Byte) /\ Len(first) = 1 /\ first[1] = b
  BY <1>1, SingleIs
<1>3. PICK p1 \in Nat, p5 \in Nat, p9 \in Nat, p15 \in Nat : p1 = 1 /\ p5 = 5 /\ p9 = 9 /\ p15 = 15
  OBVIOUS
<1>31. p1 \in Nat /\ p5 \in Nat /\ p9 \in Nat /\ p15 \in Nat
       /\ p1 = Len(first) /\ p5 = p1 + Len(u) /\ p9 = p5 + Len(r) /\ p15 = p9 + Len(t)
  BY <1>2, <1>3
<1>4. PICK x : x = first \o u
  OBVIOUS
<1>5. PICK y : y = x \o r
  OBVIOUS
<1>6. data = y \o t
  BY <1>1, <1>4, <1>5
<1>70. MadeOf(x, first, u, p1, p5)
  BY <1>2, <1>31, <1>4, Parts
<1>7. x \in Seq(Byte) /\ Len(x) = p5 /\ FieldAt(u, x, p1, p5)
  BY <1>70, Behind
<1>80. MadeOf(y, x, r, p5, p9)
  BY <1>7, <1>31, <1>5, Parts
<1>8. y \in Seq(Byte) /\ Len(y) = p9 /\ FieldAt(r, y, p5, p9)
  BY <1>80, Behind
<1>90. MadeOf(data, y, t, p9, p15)
  BY <1>8, <1>31, <1>6, Parts
<1>9. data \in Seq(Byte) /\ Len(data) = p15 /\ FieldAt(t, data, p9, p15)
  BY <1>90, Behind
<1>10. FieldAt(u, y, p1, p5)
  BY <1>31, <1>7, <1>80, StillThere
<1>11. FieldAt(u, data, p1, p5) /\ FieldAt(r, data, p5, p9)
  BY <1>31, <1>8, <1>90, <1>10, StillThere
<1>12. PICK i \in Nat : i = 1 /\ 1 <= i /\ i <= p1 /\ i <= p5 /\ i <= p9
  BY <1>3
<1>14. first \in Seq(Byte) /\ first[i] = b /\ i <= Len(first) /\ 1 <= i /\ i \in Nat
  BY <1>2, <1>12
<1>13. data[i] = b
  <2>1. x[i] = b
    BY <1>70, <1>14, FirstStays
  <2>2. y[i] = b
    BY <1>80, <1>7, <1>12, <2>1, FirstStays
  <2> QED BY <1>90, <1>8, <1>12, <2>2, FirstStays
<1> QED BY <1>3, <1>9, <1>11, <1>12, <1>13

(* The three properties hold of a record the lock pushes, in every form and *)
(* once it was read.                                                        *)
LEMMA LogPushKept == IInv /\ kind = "logPush" => Kept
<1> SUFFICES ASSUME IInv, kind = "logPush" PROVE Kept
  OBVIOUS
<1>1. PICK b \in Levels, u \in Ids, r \in Ids, t \in Stamps :
              meant = [battery |-> Some(b), bolt |-> None, uid |-> Some(u),
                       recordId |-> Some(r), timestamp |-> Some(t)]
  BY GroupOf, PushesSay DEF IInv, ReportKinds
<1>2. meant = EventOf(Some(b), None, Some(u), Some(r), Some(t))
  BY <1>1 DEF EventOf
<1>3. PICK uid : uid = Padded(4, u)
  OBVIOUS
<1>4. PICK record : record = Padded(4, r)
  OBVIOUS
<1>5. /\ uid \in Seq(Byte) /\ Len(uid) = 4 /\ Number(uid) = u
      /\ record \in Seq(Byte) /\ Len(record) = 4 /\ Number(record) = r
  <2>1. PICK n \in Nat : n = 4
    OBVIOUS
  <2>2. uid = Padded(n, u) /\ record = Padded(n, r) /\ n >= 4
    BY <1>3, <1>4, <2>1
  <2>3. uid \in Seq(Byte) /\ Len(uid) = n /\ Number(uid) = u
    BY <2>2, IdPadded
  <2>4. record \in Seq(Byte) /\ Len(record) = n /\ Number(record) = r
    BY <2>2, IdPadded
  <2> QED BY <2>1, <2>3, <2>4
<1>6. t \in Seq(Byte) /\ Len(t) = 6 /\ IsDate(t) /\ b \in Byte
  BY StampsAre, LevelsAre
<1>7. PICK data : LogPushBytes(data, b, uid, record, t)
  BY Zenon DEF LogPushBytes
<1>8. /\ data \in Seq(Byte) /\ Len(data) = 15 /\ data[1] = b
      /\ FieldAt(uid, data, 1, 5) /\ FieldAt(record, data, 5, 9) /\ FieldAt(t, data, 9, 15)
  BY <1>5, <1>6, <1>7, LogPushData
<1>9. meant.battery[1] = b /\ meant.uid[1] = u /\ meant.recordId[1] = r /\ meant.timestamp[1] = t
  BY <1>1 DEF Some
<1>10. IsReply(Whole, STATE_PUSH, data)
  <2>1. Whole = Pushed(data)
    BY <1>3, <1>4, <1>7, <1>9, PushesWritten, Zenon DEF LogPushBytes
  <2> QED BY <2>1 DEF Pushed, IsReply, Byte, STATE_PUSH
<1>11. PICK decoded : decoded = Decode(wire)
  OBVIOUS
<1>12. decoded = Push(wire)
  BY <1>11, Decoders
<1>13. TooShort(wire) => ~Returned(decoded)
  BY <1>12, PushTooShort
<1>14. ASSUME NEW d, NEW how, Opened(wire, STATE_PUSH, data, d), Came(how, d, data)
       PROVE  /\ decoded = Returns(LockEvent(STATE_PUSH, d)) /\ d \in Seq(Byte) /\ Len(d) \in Nat
              /\ Len(d) >= 1 => At(d, 0) = b
              /\ Len(d) >= 15 => LockEvent(STATE_PUSH, d) = meant
              /\ Len(wire) = Len(d) + 2
  <2>1. decoded = Returns(LockEvent(STATE_PUSH, d)) /\ Len(wire) = Len(d) + 2
    BY <1>12, <1>14, PushIs DEF Opened
  <2>2. d \in Seq(Byte) /\ Len(d) \in Nat /\ Agrees(d, data)
    BY <1>14 DEF Came
  <2>3. ASSUME Len(d) >= 1 PROVE At(d, 0) = b
    BY <1>8, <1>14, <2>2, <2>3, ByteCame
  <2>4. ASSUME Len(d) >= 15 PROVE LockEvent(STATE_PUSH, d) = meant
    <3>1. 5 <= Len(d) /\ 9 <= Len(d) /\ Len(d) >= 1
      BY <2>2, <2>4
    <3>2. Slice(d, 1, 5) = uid
      BY <1>5, <1>8, <2>2, <3>1, FieldRead
    <3>3. Slice(d, 5, 9) = record
      BY <1>5, <1>8, <2>2, <3>1, FieldRead
    <3>4. Slice(d, 9, 15) = t
      BY <1>6, <1>8, <2>2, <2>4, FieldRead
    <3>5. Date(6, t) = Some(t)
      <4>1. Slice(t, 0, 6) = t
        <5>1. PICK z \in Nat : z = 0
          OBVIOUS
        <5>2. PICK q : q = z + Len(t)
          OBVIOUS
        <5>5. z \in Nat
          BY <5>1
        <5>3. Within(t, t, z)
          BY <1>6, <5>1 DEF Within
        <5>6. t \in Seq(Byte) /\ FieldAt(t, t, z, q) /\ Agrees(t, t) /\ q <= Len(t)
          BY <1>6, <5>1, <5>2, <5>3 DEF FieldAt, Agrees
        <5>4. Slice(t, z, q) = t
          BY <5>5, <5>6, FieldRead
        <5>7. q = 6
          BY <1>6, <5>1, <5>2
        <5> QED BY <5>1, <5>7, <5>4
      <4> QED BY <1>6, <4>1 DEF Date
    <3>6. PICK n \in Nat : n = Len(d) /\ n >= 15
      BY <2>2, <2>4
    <3>7. LockEvent(STATE_PUSH, d) = EventOf(Some(At(d, 0)), None, Some(Number(Slice(d, 1, 5))),
                        Some(Number(Slice(d, 5, 9))), Date(6, Slice(d, 9, 15)))
      BY <2>2, <3>6, EventIs
    <3> QED BY <1>2, <1>5, <2>3, <3>1, <3>2, <3>3, <3>4, <3>5, <3>7
  <2> QED BY <2>1, <2>2, <2>3, <2>4
<1>15. ASSUME NEW d, Opened(wire, STATE_PUSH, data, d), Came("whole", d, data) PROVE WholeClause(decoded)
  <2>1. Len(d) >= 15
    <3>1. d = data
      BY <1>15 DEF Came
    <3>2. Len(data) >= 15
      BY <1>8
    <3> QED BY <3>1, <3>2
  <2>2. decoded = Returns(meant)
    BY <1>14, <1>15, <2>1
  <2> QED BY <2>2, PushMeans DEF WholeClause, Returned, Returns
<1>16. ASSUME NEW d, Opened(wire, STATE_PUSH, data, d), Came("extended", d, data) PROVE ExtendedClause(decoded)
  <2>1. Len(d) >= 15
    BY <1>8, <1>16 DEF Came
  <2>2. decoded = Returns(meant)
    BY <1>14, <1>16, <2>1
  <2> QED BY <2>2, PushMeans DEF ExtendedClause, Returned, Returns
<1>17. ASSUME NEW d, Opened(wire, STATE_PUSH, data, d), Came("cut", d, data) PROVE CutClause(decoded)
  <2>1. PICK n \in Nat : n = Len(d) /\ n < 15
    BY <1>8, <1>17 DEF Came
  <2>2. PICK v : v = LockEvent(STATE_PUSH, d)
    OBVIOUS
  <2>3. /\ d \in Seq(Byte) /\ (n >= 1 => At(d, 0) = b) /\ decoded = Returns(v) /\ Len(wire) = n + 2
    BY <1>14, <1>17, <2>1, <2>2
  <2>4. \/ v = EventOf(None, None, None, None, None)
        \/ \E bolt : v = EventOf(Some(b), bolt, None, None, None) /\ (bolt = None \/ n = 3)
    <3>1. CASE n = 0
      BY <2>1, <2>2, <2>3, <3>1, EventIs
    <3>2. CASE n = 3
      <4>1. v = EventOf(Some(At(d, 0)), Bolt(At(d, 1)), None, None, None)
        BY <2>1, <2>2, <2>3, <3>2, EventIs
      <4>2. At(d, 0) = b
        BY <2>3, <3>2
      <4> QED BY <3>2, <4>1, <4>2
    <3>3. CASE 0 < n /\ n # 3
      BY <2>1, <2>2, <2>3, <3>3, EventIs
    <3> QED BY <2>1, <3>1, <3>2, <3>3
  <2>5. ASSUME NEW f \in DOMAIN meant PROVE SentOrMissing(f, v[f])
    <3>1. f \in {"battery", "bolt", "uid", "recordId", "timestamp"} /\ meant.battery = Some(b) /\ meant.bolt = None
      BY <1>2, EventFields
    <3>2. v.uid = None /\ v.recordId = None /\ v.timestamp = None /\ (v.battery = None \/ v.battery = Some(b))
          /\ (v.bolt = None \/ n = 3)
      BY <2>4, EventFields
    <3>3. CASE v[f] = meant[f] \/ v[f] = None
      BY <3>3, PushMeans
    <3>4. CASE f = "bolt" /\ n = 3
      BY <2>3, <3>4 DEF SentOrMissing
    <3> QED BY <3>1, <3>2, <3>3, <3>4
  <2> QED BY <2>3, <2>5 DEF CutClause, Returns
<1>18. form.how = "refused" => RefusedClause(decoded)
  BY PushMeans
<1>19. kind \notin RequestKinds /\ kind # "page"
  BY PushMeans
<1> QED BY <1>8, <1>10, <1>11, <1>13, <1>15, <1>16, <1>17, <1>18, <1>19, ReplyKept

----------------------------------------------------------------------------
(* Sets of features, as bits.                                               *)

(* The bits of a byte.                                                     *)
LEMMA BitIs ==
  ASSUME NEW byte
  PROVE  /\ Bit(byte, 0) <=> (byte \div 1) % 2 = 1
         /\ Bit(byte, 1) <=> (byte \div 2) % 2 = 1
         /\ Bit(byte, 2) <=> (byte \div 4) % 2 = 1
         /\ Bit(byte, 3) <=> (byte \div 8) % 2 = 1
         /\ Bit(byte, 4) <=> (byte \div 16) % 2 = 1
         /\ Bit(byte, 5) <=> (byte \div 32) % 2 = 1
         /\ Bit(byte, 6) <=> (byte \div 64) % 2 = 1
         /\ Bit(byte, 7) <=> (byte \div 128) % 2 = 1
BY DEF Bit

(* A nibble is its four bits.                                               *)
LEMMA NibbleIs ==
  ASSUME NEW mask, NEW low \in Nat
  PROVE  \E a \in {0, 1}, b \in {0, 1}, c \in {0, 1}, d \in {0, 1} :
           /\ Nibble(mask, low) = a + 2 * b + 4 * c + 8 * d
           /\ a = 1 <=> low \in mask
           /\ b = 1 <=> low + 1 \in mask
           /\ c = 1 <=> low + 2 \in mask
           /\ d = 1 <=> low + 3 \in mask
<1>1. ASSUME NEW n PROVE \A w : Flag(n \in mask, w) = IF n \in mask THEN w ELSE 0
  BY DEF Flag
<1>2. PICK a \in {0, 1} : a = 1 <=> low \in mask
  OBVIOUS
<1>3. PICK b \in {0, 1} : b = 1 <=> low + 1 \in mask
  OBVIOUS
<1>4. PICK c \in {0, 1} : c = 1 <=> low + 2 \in mask
  OBVIOUS
<1>5. PICK d \in {0, 1} : d = 1 <=> low + 3 \in mask
  OBVIOUS
<1>6. Flag(low \in mask, 1) = a
  BY <1>2 DEF Flag
<1>7. Flag(low + 1 \in mask, 2) = 2 * b
  BY <1>3 DEF Flag
<1>8. Flag(low + 2 \in mask, 4) = 4 * c
  BY <1>4 DEF Flag
<1>9. Flag(low + 3 \in mask, 8) = 8 * d
  BY <1>5 DEF Flag
<1>10. Nibble(mask, low) = a + 2 * b + 4 * c + 8 * d
  BY <1>6, <1>7, <1>8, <1>9 DEF Nibble
<1> QED BY <1>2, <1>3, <1>4, <1>5, <1>10

(* Bit k of a nibble is a member of the set.                                *)
LEMMA NibbleBit ==
  ASSUME NEW mask, NEW low \in Nat, NEW k \in 0..3
  PROVE  Bit(Nibble(mask, low), k) <=> low + k \in mask
<1>1. PICK a \in {0, 1}, b \in {0, 1}, c \in {0, 1}, d \in {0, 1} :
           /\ Nibble(mask, low) = a + 2 * b + 4 * c + 8 * d
           /\ a = 1 <=> low \in mask
           /\ b = 1 <=> low + 1 \in mask
           /\ c = 1 <=> low + 2 \in mask
           /\ d = 1 <=> low + 3 \in mask
  BY NibbleIs
<1>2. PICK n : n = Nibble(mask, low)
  OBVIOUS
<1>3. (n \div 1) % 2 = a /\ (n \div 2) % 2 = b /\ (n \div 4) % 2 = c /\ (n \div 8) % 2 = d
  BY <1>1, <1>2
<1>4. k = 0 \/ k = 1 \/ k = 2 \/ k = 3
  OBVIOUS
<1> QED BY <1>1, <1>2, <1>3, <1>4, BitIs

(* The byte that holds the members low to low + 7 of a set.                 *)
ByteOf(mask, low) == 16 * Nibble(mask, low + 4) + Nibble(mask, low)

(* Bit k of that byte is a member of the set.                               *)
LEMMA ByteBit ==
  ASSUME NEW mask, NEW low \in Nat, NEW k \in 0..7
  PROVE  /\ Bit(ByteOf(mask, low), k) <=> low + k \in mask
         /\ ByteOf(mask, low) \in Byte
<1>1. PICK a \in {0, 1}, b \in {0, 1}, c \in {0, 1}, d \in {0, 1} :
           /\ Nibble(mask, low) = a + 2 * b + 4 * c + 8 * d
           /\ a = 1 <=> low \in mask
           /\ b = 1 <=> low + 1 \in mask
           /\ c = 1 <=> low + 2 \in mask
           /\ d = 1 <=> low + 3 \in mask
  BY NibbleIs
<1>2. PICK high \in Nat : high = low + 4
  OBVIOUS
<1>3. PICK e \in {0, 1}, f \in {0, 1}, g \in {0, 1}, h \in {0, 1} :
           /\ Nibble(mask, high) = e + 2 * f + 4 * g + 8 * h
           /\ e = 1 <=> high \in mask
           /\ f = 1 <=> high + 1 \in mask
           /\ g = 1 <=> high + 2 \in mask
           /\ h = 1 <=> high + 3 \in mask
  BY NibbleIs
<1>4. /\ e = 1 <=> low + 4 \in mask
      /\ f = 1 <=> low + 5 \in mask
      /\ g = 1 <=> low + 6 \in mask
      /\ h = 1 <=> low + 7 \in mask
  <2>1. high + 1 = low + 5 /\ high + 2 = low + 6 /\ high + 3 = low + 7
    BY <1>2
  <2> QED BY <1>2, <1>3, <2>1
<1>5. PICK n : n = ByteOf(mask, low)
  OBVIOUS
<1>6. n = 16 * (e + 2 * f + 4 * g + 8 * h) + (a + 2 * b + 4 * c + 8 * d)
  BY <1>1, <1>2, <1>3, <1>5 DEF ByteOf
<1>7. n \in Byte
  BY <1>6 DEF Byte
<1>8. (n \div 1) % 2 = a /\ (n \div 2) % 2 = b /\ (n \div 4) % 2 = c /\ (n \div 8) % 2 = d
  BY <1>6
<1>9. (n \div 16) % 2 = e /\ (n \div 32) % 2 = f /\ (n \div 64) % 2 = g /\ (n \div 128) % 2 = h
  BY <1>6
<1>10. k = 0 \/ k = 1 \/ k = 2 \/ k = 3 \/ k = 4 \/ k = 5 \/ k = 6 \/ k = 7
  OBVIOUS
<1>11. Bit(n, k) <=> low + k \in mask
  <2>1. CASE k \in {0, 1, 2, 3}
    BY <1>1, <1>8, <2>1, BitIs
  <2>2. CASE k \in {4, 5, 6, 7}
    BY <1>4, <1>9, <2>2, BitIs
  <2> QED BY <1>10, <2>1, <2>2
<1> QED BY <1>5, <1>7, <1>11

(* The eight bytes of a mask.                                              *)
LEMMA BytesOfAre ==
  ASSUME NEW mask, NEW bytes, bytes = BytesOf(mask, WORDS)
  PROVE  /\ bytes \in Seq(Byte) /\ Len(bytes) = 8
         /\ \A i \in 1..8 : bytes[i] = ByteOf(mask, 32 * ((i - 1) \div 4) + 8 * (3 - ((i - 1) % 4)))
<1>1. bytes = [i \in 1..8 |-> ByteOf(mask, 32 * ((i - 1) \div 4) + 8 * (3 - ((i - 1) % 4)))]
  BY DEF BytesOf, WORDS, ByteOf
<1>2. ASSUME NEW i \in 1..8
      PROVE  ByteOf(mask, 32 * ((i - 1) \div 4) + 8 * (3 - ((i - 1) % 4))) \in Byte
  <2>1. PICK low \in Nat : low = 32 * ((i - 1) \div 4) + 8 * (3 - ((i - 1) % 4))
    OBVIOUS
  <2>2. PICK k \in 0..7 : k = 0
    OBVIOUS
  <2>3. ByteOf(mask, low) \in Byte
    BY <2>2, ByteBit
  <2> QED BY <2>1, <2>3
<1>3. bytes \in [1..8 -> Byte]
  BY <1>1, <1>2
<1> QED BY <1>1, <1>3

(* The bits of as many words as have come are those of the mask.            *)
LEMMA BitsAre ==
  ASSUME NEW mask, NEW w \in Seq(Byte), NEW n \in Nat, n = Len(w), Agrees(w, BytesOf(mask, WORDS)),
         NEW bit \in Nat, bit < 64, bit < 32 * (n \div 4)
  PROVE  bit \in BitsOf(w) <=> bit \in mask
<1>1. PICK bytes : bytes = BytesOf(mask, WORDS)
  OBVIOUS
<1>2. /\ bytes \in Seq(Byte) /\ Len(bytes) = 8
      /\ \A i \in 1..8 : bytes[i] = ByteOf(mask, 32 * ((i - 1) \div 4) + 8 * (3 - ((i - 1) % 4)))
  BY <1>1, BytesOfAre
<1>3. PICK word \in 0..1, octet \in 0..3, k \in 0..7 :
        /\ bit = 32 * word + 8 * octet + k
        /\ word = bit \div 32 /\ octet = (bit % 32) \div 8 /\ k = bit % 8
  <2>1. PICK word \in Nat, rest \in Nat : word = bit \div 32 /\ rest = bit % 32
    OBVIOUS
  <2>2. word \in 0..1 /\ rest \in 0..31 /\ bit = 32 * word + rest
    BY <2>1
  <2>3. PICK octet \in Nat, k \in Nat : octet = rest \div 8 /\ k = rest % 8
    OBVIOUS
  <2>4. octet \in 0..3 /\ k \in 0..7 /\ rest = 8 * octet + k
    BY <2>2, <2>3
  <2>5. bit % 8 = k
    BY <2>2, <2>4
  <2> QED BY <2>1, <2>2, <2>3, <2>4, <2>5
<1>4. PICK j \in Nat : j = 4 * word + 3 - octet
  OBVIOUS
<1>5. j + 1 \in 1..8 /\ j + 1 <= n /\ j \div 4 = word /\ j % 4 = 3 - octet
  <2>1. PICK rest \in 0..3 : rest = 3 - octet /\ j = 4 * word + rest
    BY <1>4
  <2>2. j \div 4 = word /\ j % 4 = rest
    BY <2>1
  <2>3. word < n \div 4
    BY <1>3
  <2>4. 4 * (n \div 4) <= n /\ n \div 4 \in Nat
    OBVIOUS
  <2>5. j + 1 <= n
    BY <2>1, <2>3, <2>4
  <2>6. j + 1 \in 1..8
    BY <2>1
  <2> QED BY <2>1, <2>2, <2>5, <2>6
<1>6. PICK low \in Nat : low = 32 * word + 8 * octet
  BY <1>3
<1>7. bytes[j + 1] = ByteOf(mask, low)
  <2>1. j + 1 - 1 = j /\ 32 * (j \div 4) + 8 * (3 - (j % 4)) = low
    BY <1>4, <1>5, <1>6
  <2> QED BY <1>2, <1>5, <2>1
<1>8. w[j + 1] = bytes[j + 1]
  <2>1. j + 1 \in 1..Len(w) /\ j + 1 <= Len(bytes)
    BY <1>2, <1>5
  <2> QED BY <1>1, <2>1 DEF Agrees
<1>9. Bit(w[j + 1], k) <=> bit \in mask
  <2>1. low + k = bit
    BY <1>3, <1>6
  <2>2. Bit(ByteOf(mask, low), k) <=> low + k \in mask
    BY ByteBit
  <2> QED BY <1>7, <1>8, <2>1, <2>2
<1>10. bit \in BitsOf(w) <=> Bit(w[j + 1], k)
  <2>1. bit \in 0..(32 * (Len(w) \div 4) - 1)
    OBVIOUS
  <2>2. 4 * (bit \div 32) + 3 - (bit % 32) \div 8 = j /\ bit % 8 = k
    BY <1>3, <1>4
  <2>3. bit \in BitsOf(w) <=> Bit(At(w, 4 * (bit \div 32) + 3 - (bit % 32) \div 8), bit % 8)
    BY <2>1 DEF BitsOf
  <2> QED BY <2>2, <2>3 DEF At
<1> QED BY <1>9, <1>10

(* And there are no others.                                                *)
LEMMA BitsWithin ==
  ASSUME NEW w \in Seq(Byte), NEW n \in Nat, n = Len(w), NEW bit, bit \in BitsOf(w)
  PROVE  bit \in Nat /\ bit < 32 * (n \div 4)
<1>1. bit \in 0..(32 * (n \div 4) - 1)
  BY DEF BitsOf
<1> QED BY <1>1

(* What the sets of features mean.                                          *)
LEMMA FeaturesSay ==
  ASSUME message \in Reports
  PROVE  /\ kind = "features" => \E mask \in SUBSET {0, 13, 30, 32, 43, 62}, b \in Levels :
              meant = Featured(mask, b)
         /\ kind = "featureValue" => \E mask \in SUBSET {0, 3, 31, 32, 62} : meant = [mask |-> mask]
         /\ kind = "specialValue" => \E mask \in SUBSET {0, 3, 31, 32, 62} : meant = [mask |-> mask]
<1>1. kind = "features" => \E mask \in SUBSET {0, 13, 30, 32, 43, 62}, b \in Levels :
              meant = Featured(mask, b)
  BY DEF Reports, Means, kind, meant
<1>2. kind = "featureValue" => \E mask \in SUBSET {0, 3, 31, 32, 62} : meant = [mask |-> mask]
  BY DEF Reports, Means, kind, meant
<1>3. kind = "specialValue" => \E mask \in SUBSET {0, 3, 31, 32, 62} : meant = [mask |-> mask]
  BY DEF Reports, Means, kind, meant
<1> QED BY <1>1, <1>2, <1>3

LEMMA FeaturesWritten ==
  /\ kind = "features" => Whole = Reply(<<meant.battery>> \o BytesOf(meant.mask, WORDS))
  /\ kind = "featureValue" => Whole = HexOf(meant.mask)
BY DEF Whole, Bytes

LEMMA DeviceFeaturesIs ==
  ASSUME NEW raw, NEW e, e = Envelope(raw), NEW d, d = e.value.data
  PROVE  DeviceFeatures(raw) =
           IF ~Succeeds(e) THEN Fails(e)
           ELSE IF Len(d) < 5 THEN Raises("ValueError")
           ELSE Returns([mask |-> BitsOf(From(d, 1)), unnamed |-> UnnamedBits(BitsOf(From(d, 1))),
                         battery |-> At(d, 0)])
BY Zenon DEF DeviceFeatures, Parsed

FeatureMasks(mask) == mask \in SUBSET {0, 13, 30, 32, 43, 62}

(* The sets of features the model sends.                                    *)
LEMMA FeatureMasksAre ==
  ASSUME NEW mask, FeatureMasks(mask)
  PROVE  /\ \A bit \in mask : bit \in Nat /\ bit < 64
         /\ UnnamedBits(mask) = mask \cap {62}
<1>1. \A bit \in mask : bit \in {0, 13, 30, 32, 43, 62}
  BY DEF FeatureMasks
<1>2. \A bit \in mask : bit \in Nat /\ bit < 64
  BY <1>1
<1>3. 0 \in LockFeature /\ 13 \in LockFeature /\ 30 \in LockFeature /\ 32 \in LockFeature /\ 43 \in LockFeature
  BY DEF LockFeature
<1>4. 62 \notin LockFeature
  BY DEF LockFeature
<1>5. \A bit \in mask : bit \notin LockFeature <=> bit = 62
  BY <1>1, <1>3, <1>4
<1> QED BY <1>2, <1>5 DEF UnnamedBits

FeatureBytes(data, b, bytes) == data = <<b>> \o bytes

(* The words that have come.                                               *)
LEMMA WordsCame ==
  ASSUME NEW b \in Byte, NEW bytes \in Seq(Byte), NEW data, FeatureBytes(data, b, bytes),
         NEW how, NEW d, Came(how, d, data), 1 <= Len(d), NEW w, w = From(d, 1)
  PROVE  /\ data \in Seq(Byte) /\ Len(data) = Len(bytes) + 1 /\ At(d, 0) = b
         /\ w \in Seq(Byte) /\ Len(w) = Len(d) - 1 /\ Agrees(w, bytes)
<1>1. PICK first : Single(first, b) /\ data = first \o bytes
  BY Zenon DEF FeatureBytes, Single
<1>2. first \in Seq(Byte) /\ Len(first) = 1 /\ first[1] = b
  BY <1>1, SingleIs
<1>3. /\ data \in Seq(Byte) /\ Len(data) = Len(first) + Len(bytes)
      /\ \A i \in 1..Len(first) : data[i] = first[i]
      /\ \A i \in 1..Len(bytes) : data[Len(first) + i] = bytes[i]
  BY <1>1, <1>2, Joined
<1>4. d \in Seq(Byte) /\ Agrees(d, data) /\ Len(d) \in Nat /\ Len(bytes) \in Nat
  BY LengthIs DEF Came
<1>5. d[1] = b
  BY <1>2, <1>3, <1>4 DEF Agrees
<1>6. PICK one \in Nat : one = 1
  OBVIOUS
<1>7. PICK m \in Nat : m = Len(d) - one
  BY <1>4, <1>6
<1>8. w = From(d, one) /\ one <= Len(d)
  BY <1>6
<1>9. w \in Seq(Byte) /\ Len(w) = m /\ Within(w, d, one)
  BY <1>4, <1>6, <1>7, <1>8, FromIs
<1>10. Agrees(w, bytes)
  <2>1. ASSUME NEW i \in 1..Len(w), i <= Len(bytes) PROVE w[i] = bytes[i]
    <3>1. d[one + i] = w[i]
      BY <1>9 DEF Within
    <3>2. one + i \in 1..Len(d) /\ one + i <= Len(data) /\ i \in 1..Len(bytes)
      BY <1>2, <1>3, <1>4, <1>6, <1>7, <1>9, <2>1
    <3>3. data[one + i] = bytes[i]
      BY <1>2, <1>3, <1>6, <3>2
    <3> QED BY <1>4, <3>1, <3>2, <3>3 DEF Agrees
  <2> QED BY <2>1 DEF Agrees
<1> QED BY <1>2, <1>3, <1>4, <1>5, <1>6, <1>7, <1>9, <1>10 DEF At

(* What the bits of n bytes say of a set sent in eight: all, all that       *)
(* matter, or some.                                                         *)
BitsKept(mask, w, bits, n) ==
  /\ n = 8 => bits = mask
  /\ n > 8 => {bit \in bits : bit < 64} = mask
  /\ n < 8 => bits \subseteq mask

(* What is made of them.                                                   *)
LEMMA BitsCame ==
  ASSUME NEW mask, FeatureMasks(mask), NEW w \in Seq(Byte), Agrees(w, BytesOf(mask, WORDS)),
         NEW bits, bits = BitsOf(w), NEW n \in Nat, n = Len(w)
  PROVE  BitsKept(mask, w, bits, n)
<1>1. \A bit \in mask : bit \in Nat /\ bit < 64
  BY FeatureMasksAre
<1>2. \A bit \in bits : bit \in Nat /\ bit < 32 * (n \div 4)
  BY BitsWithin
<1>3. \A bit \in Nat : bit < 64 /\ bit < 32 * (n \div 4) => (bit \in bits <=> bit \in mask)
  BY BitsAre
<1>4. ASSUME n >= 8, NEW bit, bit \in Nat, bit < 64 PROVE bit \in bits <=> bit \in mask
  <2>1. bit < 32 * (n \div 4)
    BY <1>4
  <2> QED BY <1>3, <1>4, <2>1
<1>5. ASSUME n = 8 PROVE bits = mask
  <2>1. n >= 8 /\ 32 * (n \div 4) = 64
    BY <1>5
  <2>2. \A bit \in bits : bit \in Nat /\ bit < 64
    BY <1>2, <2>1
  <2>3. \A bit : bit \in bits <=> bit \in mask
    BY <1>1, <1>4, <2>1, <2>2
  <2> QED BY <2>3
<1>6. ASSUME n > 8 PROVE {bit \in bits : bit < 64} = mask
  <2>1. n >= 8
    BY <1>6
  <2> QED BY <1>1, <1>2, <1>4, <2>1
<1>7. ASSUME n < 8 PROVE bits \subseteq mask
  <2>1. ASSUME NEW bit \in bits PROVE bit \in mask
    <3>1. bit \in Nat /\ bit < 32 * (n \div 4)
      BY <1>2
    <3>2. bit < 64
      BY <1>7, <3>1
    <3> QED BY <1>3, <3>1, <3>2
  <2> QED BY <2>1
<1> QED BY <1>5, <1>6, <1>7 DEF BitsKept

(* The three properties hold of a set of features, in every form and once   *)
(* it was read.                                                             *)
LEMMA FeaturesKept == IInv /\ kind = "features" => Kept
<1> SUFFICES ASSUME IInv, kind = "features" PROVE Kept
  OBVIOUS
<1>1. PICK mask \in SUBSET {0, 13, 30, 32, 43, 62}, b \in Levels : FeatureMasks(mask) /\ meant = Featured(mask, b)
  BY GroupOf, FeaturesSay DEF IInv, ReportKinds, FeatureMasks
<1>2. PICK rest : rest = mask \cap {62}
  OBVIOUS
<1>3. meant = [mask |-> mask, unnamed |-> rest, battery |-> b] /\ UnnamedBits(mask) = rest
  BY <1>1, <1>2, FeatureMasksAre DEF Featured
<1>4. PICK bytes : bytes = BytesOf(mask, WORDS)
  OBVIOUS
<1>5. bytes \in Seq(Byte) /\ Len(bytes) = 8
  BY <1>4, BytesOfAre
<1>6. b \in Byte
  BY LevelsAre
<1>7. PICK data : FeatureBytes(data, b, bytes)
  BY DEF FeatureBytes
<1>8. data \in Seq(Byte) /\ Len(data) = 9
  <2>1. PICK first : Single(first, b) /\ data = first \o bytes
    BY <1>7, Zenon DEF FeatureBytes, Single
  <2>2. first \in Seq(Byte) /\ Len(first) = 1
    BY <1>6, <2>1, SingleIs
  <2>3. data \in Seq(Byte) /\ Len(data) = Len(first) + Len(bytes)
    BY <1>5, <2>1, <2>2, Joined
  <2> QED BY <1>5, <2>2, <2>3
<1>9. IsReply(Whole, 0, data)
  <2>1. Whole = Reply(data)
    BY <1>3, <1>4, <1>7, FeaturesWritten DEF FeatureBytes
  <2> QED BY <2>1 DEF Reply, IsReply, Byte
<1>10. PICK decoded : decoded = Decode(wire)
  OBVIOUS
<1>11. PICK e : e = Envelope(wire)
  OBVIOUS
<1>12. decoded = DeviceFeatures(wire)
  BY <1>10, Decoders
<1>13. TooShort(wire) => ~Returned(decoded)
  BY <1>11, <1>12, NoEnvelope, DeviceFeaturesIs
<1>14. form.how = "refused" => RefusedClause(decoded)
  <2>1. form.how = "refused" => ~Returned(decoded)
    BY <1>11, <1>12, RefusedRaises, ReadKinds, DeviceFeaturesIs
  <2> QED BY <2>1 DEF RefusedClause
<1>15. ASSUME NEW d, NEW how, Opened(wire, 0, data, d), Came(how, d, data)
       PROVE  /\ Len(d) \in Nat
              /\ Len(d) < 5 => ~Returned(decoded)
              /\ Len(d) >= 5 => \E bits :
                   /\ decoded = Returns([mask |-> bits, unnamed |-> UnnamedBits(bits), battery |-> b])
                   /\ Len(d) = 9 => bits = mask
                   /\ Len(d) > 9 => {bit \in bits : bit < 64} = mask
                   /\ Len(d) < 9 => bits \subseteq mask
  <2>1. Succeeds(e) /\ e.value.data = d
    BY <1>11, <1>15, EnvelopeOf
  <2>2. Len(d) \in Nat
    BY <1>15 DEF Came
  <2>3. CASE Len(d) < 5
    <3>1. decoded = Raises("ValueError")
      BY <1>11, <1>12, <2>1, <2>3, DeviceFeaturesIs
    <3> QED BY <2>2, <2>3, <3>1 DEF Returned, Raises
  <2>4. CASE Len(d) >= 5
    <3>1. PICK w : w = From(d, 1)
      OBVIOUS
    <3>2. At(d, 0) = b /\ w \in Seq(Byte) /\ Len(w) = Len(d) - 1 /\ Agrees(w, bytes)
      <4>1. 1 <= Len(d)
        BY <2>2, <2>4
      <4> QED BY <1>5, <1>6, <1>7, <1>15, <3>1, <4>1, WordsCame
    <3>3. PICK bits : bits = BitsOf(w)
      OBVIOUS
    <3>4. PICK n \in Nat : n = Len(w) /\ Len(d) = n + 1
      BY <2>2, <2>4, <3>2
    <3>5. /\ n = 8 => bits = mask
          /\ n > 8 => {bit \in bits : bit < 64} = mask
          /\ n < 8 => bits \subseteq mask
      <4>1. FeatureMasks(mask) /\ Agrees(w, BytesOf(mask, WORDS)) /\ w \in Seq(Byte)
        BY <1>1, <1>4, <3>2
      <4>2. n \in Nat /\ n = Len(w) /\ bits = BitsOf(w)
        BY <3>3, <3>4
      <4>3. BitsKept(mask, w, bits, n)
        BY <4>1, <4>2, BitsCame
      <4> QED BY <4>3 DEF BitsKept
    <3>6. decoded = Returns([mask |-> bits, unnamed |-> UnnamedBits(bits), battery |-> b])
      <4>1. ~(Len(d) < 5)
        BY <2>2, <2>4
      <4> QED BY <1>11, <1>12, <2>1, <3>1, <3>2, <3>3, <4>1, DeviceFeaturesIs, Zenon
    <3>7. /\ Len(d) = 9 => bits = mask
          /\ Len(d) > 9 => {bit \in bits : bit < 64} = mask
          /\ Len(d) < 9 => bits \subseteq mask
      BY <3>4, <3>5
    <3> QED BY <2>2, <2>4, <3>6, <3>7
  <2> QED BY <2>2, <2>3, <2>4
<1>16. Understood = meant /\ Sayable
  BY DEF Understood, Sayable
<1>17. ASSUME NEW d, Opened(wire, 0, data, d), Came("whole", d, data) PROVE WholeClause(decoded)
  <2>1. Len(d) = 9
    BY <1>8, <1>17 DEF Came
  <2>2. Len(d) >= 5
    BY <2>1
  <2>3. PICK bits : decoded = Returns([mask |-> bits, unnamed |-> UnnamedBits(bits), battery |-> b]) /\ bits = mask
    BY <1>15, <1>17, <2>1, <2>2
  <2> QED BY <1>3, <1>16, <2>3 DEF WholeClause, Returned, Returns
<1>18. DOMAIN meant = {"mask", "unnamed", "battery"} /\ meant.mask = mask /\ meant.unnamed = rest /\ meant.battery = b
  BY <1>3
<1>19. ASSUME NEW d, Opened(wire, 0, data, d), Came("extended", d, data) PROVE ExtendedClause(decoded)
  <2>1. Len(d) > 9 /\ Len(d) >= 5
    <3>1. Len(d) > Len(data) /\ Len(d) \in Nat
      BY <1>19 DEF Came
    <3> QED BY <1>8, <3>1
  <2>2. PICK bits : decoded = Returns([mask |-> bits, unnamed |-> UnnamedBits(bits), battery |-> b]) /\ {bit \in bits : bit < 64} = mask
    BY <1>15, <1>19, <2>1
  <2>3. {bit \in UnnamedBits(bits) : bit < 64} = rest
    <3>1. {bit \in UnnamedBits(bits) : bit < 64} = UnnamedBits({bit \in bits : bit < 64})
      BY DEF UnnamedBits
    <3> QED BY <1>3, <2>2, <3>1
  <2>4. decoded.value.mask = bits /\ decoded.value.unnamed = UnnamedBits(bits) /\ decoded.value.battery = b
    BY <2>2 DEF Returns
  <2>5. 32 * WORDS = 64
    BY DEF WORDS
  <2>6. Withstands("mask", decoded.value["mask"])
    BY <1>18, <2>2, <2>4, <2>5 DEF Withstands
  <2>7. Withstands("unnamed", decoded.value["unnamed"])
    BY <1>18, <2>3, <2>4, <2>5 DEF Withstands
  <2>8. Withstands("battery", decoded.value["battery"])
    BY <1>16, <1>18, <2>4 DEF Withstands
  <2> QED BY <1>18, <2>6, <2>7, <2>8 DEF ExtendedClause
<1>20. ASSUME NEW d, Opened(wire, 0, data, d), Came("cut", d, data) PROVE CutClause(decoded)
  <2> SUFFICES ASSUME Returned(decoded) PROVE \A f \in DOMAIN meant : SentOrMissing(f, decoded.value[f])
    BY DEF CutClause
  <2>1. Len(d) < 9 /\ Len(d) \in Nat
    <3>1. Len(d) < Len(data) /\ Len(d) \in Nat
      BY <1>20 DEF Came
    <3> QED BY <1>8, <3>1
  <2>2. Len(d) >= 5
    BY <1>15, <1>20, <2>1
  <2>3. PICK bits : decoded = Returns([mask |-> bits, unnamed |-> UnnamedBits(bits), battery |-> b]) /\ bits \subseteq mask
    BY <1>15, <1>20, <2>1, <2>2
  <2>4. decoded.value.mask = bits /\ decoded.value.unnamed = UnnamedBits(bits) /\ decoded.value.battery = b
    BY <2>3 DEF Returns
  <2>5. UnnamedBits(bits) \subseteq rest
    BY <1>3, <2>3 DEF UnnamedBits
  <2>6. SentOrMissing("mask", decoded.value["mask"])
    BY <1>18, <2>3, <2>4 DEF SentOrMissing
  <2>7. SentOrMissing("unnamed", decoded.value["unnamed"])
    BY <1>18, <2>4, <2>5 DEF SentOrMissing
  <2>8. SentOrMissing("battery", decoded.value["battery"])
    BY <1>16, <1>18, <2>4 DEF SentOrMissing
  <2> QED BY <1>18, <2>6, <2>7, <2>8
<1>21. kind \notin RequestKinds /\ kind # "page"
  BY DEF RequestKinds
<1> QED BY <1>8, <1>9, <1>10, <1>13, <1>14, <1>17, <1>19, <1>20, <1>21, ReplyKept

(* The features of a key come whole.                                       *)
LEMMA KeysWhole ==
  ASSUME IInv, kind \in KeyKinds
  PROVE  form.how = "whole" /\ wire = Whole /\ kind \notin RequestKinds /\ kind # "page" /\ Sayable
<1>1. ~Varies /\ kind # "page" /\ kind \notin ReplyKinds /\ kind \notin RequestKinds
  BY DEF Varies, KeyKinds, ReplyKinds, RequestKinds
<1>2. form.how = "whole" /\ wire = Whole
  BY <1>1 DEF IInv, WireInv, CutWire, ExtendedWire, RefusedWire, ShorterWire, LongerWire
<1>3. Sayable
  <2>1. CASE kind = "featureValue"
    BY <2>1 DEF Sayable
  <2>2. CASE kind = "specialValue"
    BY <2>2 DEF Sayable
  <2> QED BY <2>1, <2>2 DEF KeyKinds
<1> QED BY <1>1, <1>2, <1>3

(* The properties of a value that the key file holds: there is no wire that *)
(* could cut it.                                                            *)
LEMMA KeyKept ==
  ASSUME IInv, kind \in KeyKinds, Decode(Whole) = Returns(Understood)
  PROVE  Kept
<1>1. PICK decoded : decoded = Decode(wire)
  OBVIOUS
<1>2. form.how = "whole" /\ wire = Whole /\ kind \notin RequestKinds /\ kind # "page" /\ Sayable
  BY KeysWhole
<1>3. Returned(decoded) /\ decoded.value = Understood
  BY <1>1, <1>2 DEF Returned, Returns
<1>4. ReadAsSent /\ NothingIsMadeUp
  BY <1>1, <1>2, <1>3, Clauses
<1> QED BY <1>2, <1>4, NotAPage DEF Kept

(* The three properties hold of a special value of a key.                   *)
LEMMA SpecialValueKept == IInv /\ kind = "specialValue" => Kept
<1> SUFFICES ASSUME IInv, kind = "specialValue" PROVE Kept
  OBVIOUS
<1>1. Whole = <<>>
  BY DEF Whole, Bytes
<1>2. Understood = [mask |-> {bit \in meant.mask : bit < 32}]
  BY DEF Understood
<1>3. FeatureMask(<<>>, meant.mask) = {bit \in meant.mask : bit < 32}
  BY DEF FeatureMask
<1>4. kind \in KeyKinds
  BY DEF KeyKinds
<1>5. wire = Whole
  BY <1>4, KeysWhole
<1>6. Decode(Whole) = Returns([mask |-> FeatureMask(Whole, meant.mask)])
  BY <1>4, <1>5, Decoders
<1> QED BY <1>1, <1>2, <1>3, <1>4, <1>6, KeyKept

KeyMask(mask) == mask \in SUBSET {0, 3, 31, 32, 62}

(* The digits of a mask.                                                   *)
LEMMA DigitsOf ==
  ASSUME NEW mask, KeyMask(mask)
  PROVE  \E n \in Nat : /\ n >= 1 /\ \A bit \in mask : bit \in Nat /\ bit < 4 * n
                        /\ HexOf(mask) = [i \in 1..n |-> Nibble(mask, 4 * (n - i))]
<1>1. CASE mask = {}
  <2>1. PICK n \in Nat : n = 1
    OBVIOUS
  <2>2. HexOf(mask) = [i \in 1..n |-> Nibble(mask, 4 * (n - i))]
    BY <1>1, <2>1 DEF HexOf
  <2>3. n >= 1 /\ \A bit \in mask : bit \in Nat /\ bit < 4 * n
    BY <1>1, <2>1
  <2> QED BY <2>2, <2>3
<1>2. CASE mask # {}
  <2>1. \A bit \in mask : bit \in {0, 3, 31, 32, 62}
    BY DEF KeyMask
  <2>2. \E top \in mask : \A bit \in mask : bit <= top
    <3>1. CASE 62 \in mask
      BY <2>1, <3>1
    <3>2. CASE 62 \notin mask /\ 32 \in mask
      BY <2>1, <3>2
    <3>3. CASE 62 \notin mask /\ 32 \notin mask /\ 31 \in mask
      BY <2>1, <3>3
    <3>4. CASE 62 \notin mask /\ 32 \notin mask /\ 31 \notin mask /\ 3 \in mask
      BY <2>1, <3>4
    <3>5. CASE 62 \notin mask /\ 32 \notin mask /\ 31 \notin mask /\ 3 \notin mask
      BY <1>2, <2>1, <3>5
    <3> QED BY <3>1, <3>2, <3>3, <3>4, <3>5
  <2>3. PICK top : top = CHOOSE most \in mask : \A bit \in mask : bit <= most
    OBVIOUS
  <2>4. top \in mask /\ \A bit \in mask : bit <= top
    BY <2>2, <2>3
  <2>5. top \in Nat
    BY <2>1, <2>4
  <2>6. PICK n \in Nat : n = 1 + top \div 4
    BY <2>5
  <2>7. n >= 1 /\ top < 4 * n
    BY <2>5, <2>6
  <2>8. \A bit \in mask : bit \in Nat /\ bit < 4 * n
    <3>1. ASSUME NEW bit \in mask PROVE bit \in Nat /\ bit < 4 * n
      <4>1. bit \in Nat /\ bit <= top
        BY <2>1, <2>4
      <4> QED BY <2>5, <2>7, <4>1
    <3> QED BY <3>1
  <2>9. HexOf(mask) = [i \in 1..n |-> Nibble(mask, 4 * (n - i))]
    BY <1>2, <2>3, <2>6 DEF HexOf
  <2> QED BY <2>7, <2>8, <2>9
<1> QED BY <1>1, <1>2

(* A set of features written in hexadecimal is read back as itself.         *)
LEMMA HexBack ==
  ASSUME NEW mask, KeyMask(mask), NEW special
  PROVE  FeatureMask(HexOf(mask), special) = mask
<1>1. PICK n \in Nat : /\ n >= 1 /\ \A bit \in mask : bit \in Nat /\ bit < 4 * n
                       /\ HexOf(mask) = [i \in 1..n |-> Nibble(mask, 4 * (n - i))]
  BY DigitsOf
<1>2. PICK hex : hex = HexOf(mask)
  OBVIOUS
<1>3. hex = [i \in 1..n |-> Nibble(mask, 4 * (n - i))]
  BY <1>1, <1>2
<1>4. hex \in Seq(Int) /\ Len(hex) = n
  <2>1. \A i \in 1..n : Nibble(mask, 4 * (n - i)) \in Int
    <3>1. ASSUME NEW i \in 1..n PROVE Nibble(mask, 4 * (n - i)) \in Int
      <4>1. PICK low \in Nat : low = 4 * (n - i)
        OBVIOUS
      <4>2. Nibble(mask, low) \in Int
        BY NibbleIs
      <4> QED BY <4>1, <4>2
    <3> QED BY <3>1
  <2>2. hex \in [1..n -> Int]
    BY <1>3, <2>1
  <2> QED BY <2>2
<1>5. hex # <<>>
  BY <1>1, <1>4
<1>6. ASSUME NEW bit \in Nat, bit < 4 * n
      PROVE  Bit(hex[n - bit \div 4], bit % 4) <=> bit \in mask
  <2>1. PICK octet \in Nat, k \in 0..3 : octet = bit \div 4 /\ k = bit % 4 /\ bit = 4 * octet + k
    OBVIOUS
  <2>2. n - octet \in 1..n /\ 4 * (n - (n - octet)) = 4 * octet
    BY <1>6, <2>1
  <2>3. hex[n - octet] = Nibble(mask, 4 * octet)
    BY <1>3, <2>2
  <2>4. PICK low \in Nat : low = 4 * octet
    OBVIOUS
  <2>5. Bit(Nibble(mask, low), k) <=> low + k \in mask
    BY NibbleBit
  <2> QED BY <2>1, <2>3, <2>4, <2>5
<1>7. FeatureMask(hex, special) = {bit \in 0..(4 * n - 1) : Bit(hex[n - bit \div 4], bit % 4)}
  BY <1>4, <1>5 DEF FeatureMask
<1>8. \A bit : bit \in 0..(4 * n - 1) <=> bit \in Nat /\ bit < 4 * n
  OBVIOUS
<1>9. \A bit : bit \in FeatureMask(hex, special) <=> bit \in mask
  BY <1>1, <1>6, <1>7, <1>8
<1>10. FeatureMask(hex, special) \subseteq mask /\ mask \subseteq FeatureMask(hex, special)
  BY <1>9
<1> QED BY <1>2, <1>10

(* The three properties hold of a feature value of a key.                   *)
LEMMA FeatureValueKept == IInv /\ kind = "featureValue" => Kept
<1> SUFFICES ASSUME IInv, kind = "featureValue" PROVE Kept
  OBVIOUS
<1>1. PICK mask \in SUBSET {0, 3, 31, 32, 62} : KeyMask(mask) /\ meant = [mask |-> mask]
  BY GroupOf, FeaturesSay DEF IInv, ReportKinds, KeyMask
<1>2. Whole = HexOf(mask)
  BY <1>1, FeaturesWritten
<1>3. Understood = [mask |-> mask]
  BY <1>1 DEF Understood
<1>4. kind \in KeyKinds
  BY DEF KeyKinds
<1>5. wire = Whole
  BY <1>4, KeysWhole
<1>6. Decode(Whole) = Returns([mask |-> FeatureMask(Whole, meant.mask)])
  BY <1>4, <1>5, Decoders
<1> QED BY <1>1, <1>2, <1>3, <1>4, <1>6, KeyKept, HexBack

----------------------------------------------------------------------------
(* Cards, fingerprints and passcodes: where their fields are.               *)

(* The fields of four parts, one behind the other.                         *)
FourFields(data, a, b, c, d, p, q, r, s) ==
  /\ data \in Seq(Byte) /\ Len(data) = s
  /\ FieldAt(a, data, 0, p) /\ FieldAt(b, data, p, q) /\ FieldAt(c, data, q, r) /\ FieldAt(d, data, r, s)

FourJoined(data, a, b, c, d) == data = ((a \o b) \o c) \o d

(* The first part is a field of the whole.                                  *)
LEMMA FirstField ==
  ASSUME NEW a, NEW b, NEW p \in Nat, p = Len(a), NEW n, NEW data, MadeOf(data, a, b, p, n)
  PROVE  FieldAt(a, data, 0, p)
BY DEF MadeOf, FieldAt

(* Four parts one behind the other, and where each is.                      *)
LEMMA FourParts ==
  ASSUME NEW a \in Seq(Byte), NEW b \in Seq(Byte), NEW c \in Seq(Byte), NEW d \in Seq(Byte),
         NEW p \in Nat, NEW q \in Nat, NEW r \in Nat, NEW s \in Nat,
         p = Len(a), q = p + Len(b), r = q + Len(c), s = r + Len(d),
         NEW data, FourJoined(data, a, b, c, d)
  PROVE  FourFields(data, a, b, c, d, p, q, r, s)
<1>0. PICK z \in Nat : z = 0
  OBVIOUS
<1>1. PICK x : x = a \o b
  OBVIOUS
<1>2. PICK y : y = x \o c
  OBVIOUS
<1>3. data = y \o d
  BY <1>1, <1>2 DEF FourJoined
<1>4. MadeOf(x, a, b, p, q)
  BY <1>1, Parts
<1>5. x \in Seq(Byte) /\ Len(x) = q /\ FieldAt(a, x, z, p) /\ FieldAt(b, x, p, q)
  BY <1>0, <1>4, Behind, FirstField
<1>6. MadeOf(y, x, c, q, r)
  BY <1>2, <1>5, Parts
<1>7. y \in Seq(Byte) /\ Len(y) = r /\ FieldAt(a, y, z, p) /\ FieldAt(b, y, p, q) /\ FieldAt(c, y, q, r)
  <2>1. y \in Seq(Byte) /\ Len(y) = r /\ FieldAt(c, y, q, r)
    BY <1>6, Behind
  <2>2. FieldAt(a, y, z, p)
    BY <1>0, <1>5, <1>6, StillThere
  <2>3. FieldAt(b, y, p, q)
    BY <1>5, <1>6, StillThere
  <2> QED BY <2>1, <2>2, <2>3
<1>8. MadeOf(data, y, d, r, s)
  BY <1>3, <1>7, Parts
<1>9. data \in Seq(Byte) /\ Len(data) = s /\ FieldAt(d, data, r, s)
  BY <1>8, Behind
<1>10. FieldAt(a, data, z, p)
  BY <1>0, <1>7, <1>8, StillThere
<1>11. FieldAt(b, data, p, q)
  BY <1>7, <1>8, StillThere
<1>12. FieldAt(c, data, q, r)
  BY <1>7, <1>8, StillThere
<1> QED BY <1>0, <1>9, <1>10, <1>11, <1>12 DEF FourFields

(* A date of a credential, and its sentinel.                               *)
Sentinel(s) == s \in Seq(Byte) /\ Len(s) = 5 /\ s \in {START_DATE_SENTINEL, END_DATE_SENTINEL}

(* The two sentinels are no dates of the model.                             *)
LEMMA SentinelsAre ==
  Sentinel(START_DATE_SENTINEL) /\ Sentinel(END_DATE_SENTINEL)
<1>1. START_DATE_SENTINEL \in Seq(Byte) /\ Len(START_DATE_SENTINEL) = 5
  BY DEF START_DATE_SENTINEL, Byte
<1>2. END_DATE_SENTINEL \in Seq(Byte) /\ Len(END_DATE_SENTINEL) = 5
  BY DEF END_DATE_SENTINEL, Byte
<1> QED BY <1>1, <1>2 DEF Sentinel

LEMMA SliceOfAll ==
  ASSUME NEW t \in Seq(Byte), NEW q, q = Len(t)
  PROVE  Slice(t, 0, q) = t
<1>1. PICK z \in Nat : z = 0
  OBVIOUS
<1>2. q = z + Len(t)
  BY <1>1, LengthIs
<1>3. Within(t, t, z)
  BY <1>1, LengthIs DEF Within
<1>4. Slice(t, z, q) = t
  BY <1>2, <1>3, SliceIsBody
<1> QED BY <1>1, <1>4

(* A date of a window, or the sentinel for none, is read back as the date,  *)
(* or as None.                                                              *)
LEMMA WindowDate ==
  ASSUME NEW s, Sentinel(s), NEW date \in Sometimes(Days), NEW raw, raw = OrSentinel(date, s)
  PROVE  raw \in Seq(Byte) /\ Len(raw) = 5 /\ Unless(s, raw) = Legible(date)
<1>1. CASE date = None
  BY <1>1 DEF Sentinel, OrSentinel, Unless, Legible
<1>2. CASE date # None
  <2>1. PICK day \in Days : date = Some(day)
    BY <1>2 DEF Sometimes
  <2>2. raw = day /\ date[1] = day
    BY <1>2, <2>1 DEF OrSentinel, Some
  <2>3. day \in Seq(Byte) /\ Len(day) = 5 /\ day \notin {START_DATE_SENTINEL, END_DATE_SENTINEL}
    BY LayoutsAssumption, Zenon
  <2>4. day # s
    BY <2>3 DEF Sentinel
  <2>5. Slice(day, 0, 5) = day
    BY <2>3, SliceOfAll
  <2>6. Date(5, day) = IF IsDate(day) THEN Some(day) ELSE None
    BY <2>3, <2>5 DEF Date
  <2>7. Unless(s, raw) = IF IsDate(day) THEN Some(day) ELSE None
    BY <2>2, <2>4, <2>6 DEF Unless
  <2>8. Legible(date) = IF IsDate(day) THEN Some(day) ELSE None
    BY <1>2, <2>1, <2>2 DEF Legible
  <2> QED BY <2>2, <2>3, <2>7, <2>8
<1> QED BY <1>1, <1>2

LEMMA WindowsAre ==
  ASSUME NEW w \in Windows
  PROVE  w.start \in Sometimes(Days) /\ w.end \in Sometimes(Days)
BY DEF Windows

LEMMA FingerprintIs ==
  ASSUME NEW raw, NEW e, e = Envelope(raw), NEW d, d = e.value.data
  PROVE  Fingerprint(raw) =
           IF ~Succeeds(e) THEN Fails(e)
           ELSE IF IsEndOfList(6, d) THEN Returns([entry |-> None])
           ELSE IF Len(d) < 20 THEN Raises("ValueError")
           ELSE Returns([entry |-> Some(
             [id |-> Slice(d, 4, 8),
              slot |-> Uint16(Slice(d, 8, 10)),
              start |-> Unless(START_DATE_SENTINEL, Slice(d, 10, 15)),
              end |-> Unless(END_DATE_SENTINEL, Slice(d, 15, 20))])])
BY Zenon DEF Fingerprint

LEMMA CardIs ==
  ASSUME NEW raw, NEW e, e = Envelope(raw), NEW d, d = e.value.data, NEW end, end = 4 + CardIdLength(d)
  PROVE  Card(raw) =
           IF ~Succeeds(e) THEN Fails(e)
           ELSE IF IsEndOfList(1, d) THEN Returns([entry |-> None])
           ELSE IF CardIdLength(d) = 0 THEN Raises("ValueError")
           ELSE Returns([entry |-> Some(
             [id |-> Slice(d, 4, end),
              start |-> Unless(START_DATE_SENTINEL, Slice(d, end, end + 5)),
              end |-> Unless(END_DATE_SENTINEL, Slice(d, end + 5, end + 10))])])
BY Zenon DEF Card

(* What is written of a card and of a fingerprint.                         *)
LEMMA EntriesWritten ==
  /\ kind = "card" =>
       Whole = Reply(((<<90, 1, 0, 1>> \o meant.entry[1].id)
                        \o OrSentinel(meant.entry[1].start, START_DATE_SENTINEL))
                        \o OrSentinel(meant.entry[1].end, END_DATE_SENTINEL))
  /\ kind = "fingerprint" =>
       Whole = Reply((((<<90, 6, 0, 1>> \o meant.entry[1].id) \o Padded(2, <<meant.entry[1].slot>>))
                        \o OrSentinel(meant.entry[1].start, START_DATE_SENTINEL))
                        \o OrSentinel(meant.entry[1].end, END_DATE_SENTINEL))
BY DEF Whole, Bytes

(* Where the reader looks for the end of a list.                            *)
LEMMA NotTheEnd ==
  ASSUME NEW data \in Seq(Byte), NEW d \in Seq(Byte), Agrees(d, data), Len(data) >= 4,
         NEW operation, data[3] = 0
  PROVE  ~IsEndOfList(operation, d)
<1> SUFFICES ASSUME IsEndOfList(operation, d) PROVE FALSE
  OBVIOUS
<1>1. Len(d) = 4 /\ From(d, 1) = <<operation, 255, 255>>
  BY DEF IsEndOfList
<1>2. d[3] = 0
  BY <1>1 DEF Agrees
<1>3. PICK p \in Nat, n \in Nat : p = 1 /\ n = 3
  OBVIOUS
<1>4. PICK rest : rest = From(d, p)
  OBVIOUS
<1>5. Within(rest, d, p) /\ Len(rest) = n
  <2>1. n = Len(d) - p /\ p <= Len(d) /\ p \in Nat /\ n \in Nat
    BY <1>1, <1>3
  <2> QED BY <1>4, <2>1, FromIs
<1>6. rest[2] = d[3]
  BY <1>3, <1>5 DEF Within
<1>7. rest[2] = 255
  BY <1>1, <1>3, <1>4
<1> QED BY <1>2, <1>6, <1>7

(* A record with two new dates.                                            *)
NewDates(f, x, y) == [f EXCEPT !.start = x, !.end = y]

LEMMA CardDated ==
  ASSUME NEW i, NEW a, NEW b, NEW f, f = [id |-> i, start |-> a, end |-> b], NEW x, NEW y
  PROVE  NewDates(f, x, y) = [id |-> i, start |-> x, end |-> y]
<1>1. PICK g : g = [f EXCEPT !.start = x]
  OBVIOUS
<1>2. g = [id |-> i, start |-> x, end |-> b]
  BY <1>1
<1>3. [g EXCEPT !.end = y] = [id |-> i, start |-> x, end |-> y]
  BY <1>2
<1>4. [f EXCEPT !.start = x, !.end = y] = [g EXCEPT !.end = y]
  BY <1>1
<1> QED BY <1>3, <1>4 DEF NewDates

LEMMA FingerDated ==
  ASSUME NEW i, NEW n, NEW a, NEW b, NEW f, f = [id |-> i, slot |-> n, start |-> a, end |-> b], NEW x, NEW y
  PROVE  NewDates(f, x, y) = [id |-> i, slot |-> n, start |-> x, end |-> y]
<1>1. PICK g : g = [f EXCEPT !.start = x]
  OBVIOUS
<1>2. g = [id |-> i, slot |-> n, start |-> x, end |-> b]
  BY <1>1
<1>3. [g EXCEPT !.end = y] = [id |-> i, slot |-> n, start |-> x, end |-> y]
  BY <1>2
<1>4. [f EXCEPT !.start = x, !.end = y] = [g EXCEPT !.end = y]
  BY <1>1
<1> QED BY <1>3, <1>4 DEF NewDates

(* An entry without its illegible dates.                                   *)
LEMMA FingerprintMeans ==
  ASSUME NEW i, NEW w \in Windows, kind = "fingerprint", meant = [entry |-> Some(OfFinger(i, w))]
  PROVE  Understood = [entry |-> Some([id |-> i, slot |-> 3, start |-> Legible(w.start), end |-> Legible(w.end)])]
<1>1. PICK f : f = OfFinger(i, w)
  OBVIOUS
<1>2. meant.entry[1] = f /\ meant = [entry |-> Some(f)]
  BY <1>1 DEF Some
<1>3. Understood = [entry |-> Some(Dated(f))]
  <2>1. Understood = [meant EXCEPT !.entry = Some(Dated(meant.entry[1]))]
    BY DEF Understood
  <2> QED BY <1>2, <2>1
<1>4. f.start = w.start /\ f.end = w.end
  BY <1>1 DEF OfFinger
<1>5. PICK x : x = Legible(w.start)
  OBVIOUS
<1>6. PICK y : y = Legible(w.end)
  OBVIOUS
<1>7. Dated(f) = NewDates(f, x, y)
  BY <1>4, <1>5, <1>6 DEF Dated, NewDates
<1>8. NewDates(f, x, y) = [id |-> i, slot |-> 3, start |-> x, end |-> y]
  <2>1. PICK a : a = w.start
    OBVIOUS
  <2>2. PICK b : b = w.end
    OBVIOUS
  <2>3. f = [id |-> i, slot |-> 3, start |-> a, end |-> b]
    BY <1>1, <2>1, <2>2 DEF OfFinger
  <2> QED BY <2>3, FingerDated
<1> QED BY <1>3, <1>5, <1>6, <1>7, <1>8

(* What a card is understood as.                                            *)
LEMMA CardMeans ==
  ASSUME NEW i, NEW w \in Windows, kind = "card", meant = [entry |-> Some(OnCard(i, w))]
  PROVE  Understood = [entry |-> Some([id |-> i, start |-> Legible(w.start), end |-> Legible(w.end)])]
<1>1. PICK f : f = OnCard(i, w)
  OBVIOUS
<1>2. meant.entry[1] = f /\ meant = [entry |-> Some(f)]
  BY <1>1 DEF Some
<1>3. Understood = [entry |-> Some(Dated(f))]
  <2>1. Understood = [meant EXCEPT !.entry = Some(Dated(meant.entry[1]))]
    BY DEF Understood
  <2> QED BY <1>2, <2>1
<1>4. f.start = w.start /\ f.end = w.end
  BY <1>1 DEF OnCard
<1>5. PICK x : x = Legible(w.start)
  OBVIOUS
<1>6. PICK y : y = Legible(w.end)
  OBVIOUS
<1>7. Dated(f) = NewDates(f, x, y)
  BY <1>4, <1>5, <1>6 DEF Dated, NewDates
<1>8. NewDates(f, x, y) = [id |-> i, start |-> x, end |-> y]
  <2>1. PICK a : a = w.start
    OBVIOUS
  <2>2. PICK b : b = w.end
    OBVIOUS
  <2>3. f = [id |-> i, start |-> a, end |-> b]
    BY <1>1, <2>1, <2>2 DEF OnCard
  <2> QED BY <2>3, CardDated
<1> QED BY <1>3, <1>5, <1>6, <1>7, <1>8

(* The two bytes of a small number.                                        *)
LEMMA SmallPadded ==
  ASSUME NEW b \in Byte, NEW t, t = Padded(2, <<b>>)
  PROVE  t \in Seq(Byte) /\ Len(t) = 2 /\ t = <<0, b>> /\ Uint16(t) = b
<1>1. Zeros(2 - Len(<<b>>)) = <<0>>
  BY DEF Zeros
<1>2. t = <<0, b>>
  <2>1. t = <<0>> \o <<b>>
    BY <1>1, Zenon DEF Padded
  <2> QED BY <2>1
<1>3. PICK z \in Byte : z = 0
  BY DEF Byte
<1>4. b = 256 * z + b /\ t = <<z, b>>
  BY <1>2, <1>3 DEF Byte
<1>5. t \in Seq(Byte) /\ Len(t) = 2 /\ Uint16(t) = b
  BY <1>3, <1>4, Uint16Is
<1> QED BY <1>2, <1>5

(* The fields of five parts.                                               *)
FiveJoined(data, a, b, c, d, e) == data = (((a \o b) \o c) \o d) \o e

FiveFields(data, a, b, c, d, e, p, q, r, s, t) ==
  /\ data \in Seq(Byte) /\ Len(data) = t
  /\ FieldAt(a, data, 0, p) /\ FieldAt(b, data, p, q) /\ FieldAt(c, data, q, r)
  /\ FieldAt(d, data, r, s) /\ FieldAt(e, data, s, t)

(* Five parts one behind the other, and where each is.                      *)
LEMMA FiveParts ==
  ASSUME NEW a \in Seq(Byte), NEW b \in Seq(Byte), NEW c \in Seq(Byte), NEW d \in Seq(Byte), NEW e \in Seq(Byte),
         NEW p \in Nat, NEW q \in Nat, NEW r \in Nat, NEW s \in Nat, NEW t \in Nat,
         p = Len(a), q = p + Len(b), r = q + Len(c), s = r + Len(d), t = s + Len(e),
         NEW data, FiveJoined(data, a, b, c, d, e)
  PROVE  FiveFields(data, a, b, c, d, e, p, q, r, s, t)
<1>10. PICK front : FourJoined(front, a, b, c, d) /\ data = front \o e
  BY DEF FourJoined, FiveJoined
<1>0. PICK z \in Nat : z = 0
  OBVIOUS
<1>1. FourFields(front, a, b, c, d, p, q, r, s)
  BY <1>10, FourParts
<1>2. /\ front \in Seq(Byte) /\ Len(front) = s
      /\ FieldAt(a, front, z, p) /\ FieldAt(b, front, p, q) /\ FieldAt(c, front, q, r) /\ FieldAt(d, front, r, s)
  BY <1>0, <1>1 DEF FourFields
<1>3. MadeOf(data, front, e, s, t)
  BY <1>2, <1>10, Parts
<1>4. data \in Seq(Byte) /\ Len(data) = t /\ FieldAt(e, data, s, t)
  <2>1. MadeOf(data, front, e, s, t)
    BY <1>3
  <2> QED BY ONLY <2>1, Behind
<1>5. FieldAt(a, data, z, p)
  BY <1>0, <1>2, <1>3, StillThere
<1>6. FieldAt(b, data, p, q)
  BY <1>2, <1>3, StillThere
<1>7. FieldAt(c, data, q, r)
  BY <1>2, <1>3, StillThere
<1>8. FieldAt(d, data, r, s)
  BY <1>2, <1>3, StillThere
<1> QED BY <1>0, <1>4, <1>5, <1>6, <1>7, <1>8 DEF FiveFields

FrontBytes(front, a, b, c, d) == front = <<a, b, c, d>>

(* What comes first in the reply of a listing.                             *)
LEMMA FrontIs ==
  ASSUME NEW operation \in {1, 6}, NEW front, FrontBytes(front, 90, operation, 0, 1)
  PROVE  front \in Seq(Byte) /\ Len(front) = 4 /\ front[3] = 0
<1>1. 90 \in Byte /\ operation \in Byte /\ 0 \in Byte /\ 1 \in Byte
  BY DEF Byte
<1> QED BY <1>1, FourBytes DEF FrontBytes

(* A byte of a field that comes first.                                     *)
LEMMA ByteOfFirst ==
  ASSUME NEW a \in Seq(Byte), NEW data, NEW p, FieldAt(a, data, 0, p), NEW i \in Nat, 1 <= i, i <= Len(a)
  PROVE  data[i] = a[i]
<1>1. i \in 1..Len(a)
  BY LengthIs
<1>2. data[0 + i] = a[i]
  BY <1>1 DEF FieldAt, Within
<1> QED BY <1>2

(* Where the fields of a fingerprint are.                                   *)
FingerData(data, id, slot, from, to) ==
  /\ data \in Seq(Byte) /\ Len(data) = 20 /\ data[3] = 0
  /\ FieldAt(id, data, 4, 8) /\ FieldAt(slot, data, 8, 10)
  /\ FieldAt(from, data, 10, 15) /\ FieldAt(to, data, 15, 20)

LEMMA FingerIs ==
  ASSUME NEW front, FrontBytes(front, 90, 6, 0, 1), NEW id \in Seq(Byte), Len(id) = 4,
         NEW slot \in Seq(Byte), Len(slot) = 2,
         NEW from \in Seq(Byte), Len(from) = 5, NEW to \in Seq(Byte), Len(to) = 5,
         NEW data, FiveJoined(data, front, id, slot, from, to)
  PROVE  FingerData(data, id, slot, from, to)
<1>1. front \in Seq(Byte) /\ Len(front) = 4 /\ front[3] = 0
  BY FrontIs
<1>2. PICK p \in Nat, q \in Nat, r \in Nat, s \in Nat, t \in Nat : p = 4 /\ q = 8 /\ r = 10 /\ s = 15 /\ t = 20
  OBVIOUS
<1>3. /\ p \in Nat /\ q \in Nat /\ r \in Nat /\ s \in Nat /\ t \in Nat
      /\ p = Len(front) /\ q = p + Len(id) /\ r = q + Len(slot) /\ s = r + Len(from) /\ t = s + Len(to)
  BY <1>1, <1>2
<1>4. FiveFields(data, front, id, slot, from, to, p, q, r, s, t)
  BY <1>1, <1>3, FiveParts
<1>6. /\ data \in Seq(Byte) /\ Len(data) = t
      /\ FieldAt(front, data, 0, p) /\ FieldAt(id, data, p, q) /\ FieldAt(slot, data, q, r)
      /\ FieldAt(from, data, r, s) /\ FieldAt(to, data, s, t)
  BY <1>4 DEF FiveFields
<1>7. PICK i \in Nat : i = 3
  OBVIOUS
<1>8. 1 <= i /\ i <= Len(front) /\ i \in Nat
  BY <1>1, <1>7
<1>9. data[i] = front[i]
  BY <1>1, <1>6, <1>8, ByteOfFirst
<1> QED BY <1>1, <1>2, <1>6, <1>7, <1>9 DEF FingerData

(* What is made of a fingerprint's reply.                                  *)
FingerMeant(id, n, from, to) ==
  [entry |-> Some([id |-> id, slot |-> n, start |-> Unless(START_DATE_SENTINEL, from),
                   end |-> Unless(END_DATE_SENTINEL, to)])]

(* What has come of a fingerprint.                                          *)
LEMMA FingerRead ==
  ASSUME NEW id \in Seq(Byte), Len(id) = 4, NEW slot \in Seq(Byte), Len(slot) = 2, NEW n, Uint16(slot) = n,
         NEW from \in Seq(Byte), Len(from) = 5, NEW to \in Seq(Byte), Len(to) = 5,
         NEW data, FingerData(data, id, slot, from, to),
         NEW raw \in Seq(Byte), NEW whole, NEW echo, IsReply(whole, echo, data), Agrees(raw, whole)
  PROVE  Understands(raw, whole, Fingerprint(raw), FingerMeant(id, n, from, to))
<1>0. /\ data \in Seq(Byte) /\ Len(data) = 20 /\ data[3] = 0
      /\ FieldAt(id, data, 4, 8) /\ FieldAt(slot, data, 8, 10)
      /\ FieldAt(from, data, 10, 15) /\ FieldAt(to, data, 15, 20)
  BY DEF FingerData
<1>1. Len(whole) = 22 /\ Len(raw) \in Nat
  <2>1. Len(whole) = Len(data) + 2
    BY <1>0, ReplyLength
  <2>2. Len(raw) \in Nat
    BY LengthIs
  <2> QED BY <1>0, <2>1, <2>2
<1>2. CASE TooShort(raw)
  <2>1. PICK e : e = Envelope(raw)
    OBVIOUS
  <2>2. ~Returned(Fingerprint(raw))
    BY <1>2, <2>1, NoEnvelope, FingerprintIs
  <2>3. Len(raw) < Len(whole)
    BY <1>1, <1>2 DEF TooShort
  <2> QED BY <1>1, <2>2, <2>3 DEF Understands
<1>3. ASSUME NEW d, Opened(raw, echo, data, d)
      PROVE  Understands(raw, whole, Fingerprint(raw), FingerMeant(id, n, from, to))
  <2>1. d \in Seq(Byte) /\ Len(raw) = Len(d) + 2 /\ Agrees(d, data) /\ Len(d) \in Nat
    BY <1>3 DEF Opened
  <2>2. PICK e : e = Envelope(raw)
    OBVIOUS
  <2>3. Succeeds(e) /\ e.value.data = d
    BY <1>3, <2>2, EnvelopeOf
  <2>4. ~IsEndOfList(6, d)
    <3>1. Len(data) >= 4
      BY <1>0
    <3> QED BY <1>0, <2>1, <3>1, NotTheEnd
  <2>5. CASE Len(d) < 20
    <3>1. Fingerprint(raw) = Raises("ValueError")
      BY <2>2, <2>3, <2>4, <2>5, FingerprintIs
    <3>2. Len(raw) < Len(whole)
      BY <1>1, <2>1, <2>5
    <3> QED BY <1>1, <3>1, <3>2 DEF Understands, Returned, Raises
  <2>6. CASE ~(Len(d) < 20)
    <3>1. Fingerprint(raw) = Returns([entry |-> Some(
             [id |-> Slice(d, 4, 8),
              slot |-> Uint16(Slice(d, 8, 10)),
              start |-> Unless(START_DATE_SENTINEL, Slice(d, 10, 15)),
              end |-> Unless(END_DATE_SENTINEL, Slice(d, 15, 20))])])
      BY <2>2, <2>3, <2>4, <2>6, FingerprintIs, Zenon
    <3>2. 8 <= Len(d) /\ 10 <= Len(d) /\ 15 <= Len(d) /\ 20 <= Len(d)
      BY <2>1, <2>6
    <3>3. Slice(d, 4, 8) = id
      BY <1>0, <2>1, <3>2, FieldRead
    <3>4. Slice(d, 8, 10) = slot
      BY <1>0, <2>1, <3>2, FieldRead
    <3>5. Slice(d, 10, 15) = from
      BY <1>0, <2>1, <3>2, FieldRead
    <3>6. Slice(d, 15, 20) = to
      BY <1>0, <2>1, <3>2, FieldRead
    <3>7. Fingerprint(raw) = Returns(FingerMeant(id, n, from, to))
      BY <3>1, <3>3, <3>4, <3>5, <3>6, Zenon DEF FingerMeant
    <3>8. ~(Len(raw) < Len(whole))
      BY <1>1, <2>1, <2>6
    <3> QED BY <3>7, <3>8 DEF Understands
  <2> QED BY <2>5, <2>6
<1> QED BY <1>0, <1>2, <1>3, ReplyOpens

(* The three properties hold of a fingerprint, in every form and once it    *)
(* was read.                                                                *)
LEMMA FingerprintKept == IInv /\ kind = "fingerprint" => Kept
<1> SUFFICES ASSUME IInv, kind = "fingerprint" PROVE Kept
  OBVIOUS
<1>1. PICK i \in Ids, w \in Windows : meant = [entry |-> Some(OfFinger(Padded(4, i), w))]
  BY GroupOf, CredentialsSay DEF IInv, CredentialKinds
<1>2. PICK id : id = Padded(4, i)
  OBVIOUS
<1>3. id \in Seq(Byte) /\ Len(id) = 4
  <2>1. PICK n \in Nat : n = 4
    OBVIOUS
  <2>2. id = Padded(n, i) /\ n >= 4
    BY <1>2, <2>1
  <2>3. id \in Seq(Byte) /\ Len(id) = n
    BY <2>2, IdPadded
  <2> QED BY <2>1, <2>3
<1>4. PICK n \in Byte : n = 3
  BY DEF Byte
<1>5. PICK slot : slot = Padded(2, <<n>>)
  OBVIOUS
<1>6. slot \in Seq(Byte) /\ Len(slot) = 2 /\ Uint16(slot) = n
  BY <1>5, SmallPadded
<1>7. PICK from : from = OrSentinel(w.start, START_DATE_SENTINEL)
  OBVIOUS
<1>8. PICK to : to = OrSentinel(w.end, END_DATE_SENTINEL)
  OBVIOUS
<1>9. from \in Seq(Byte) /\ Len(from) = 5 /\ Unless(START_DATE_SENTINEL, from) = Legible(w.start)
  BY <1>7, WindowDate, WindowsAre, SentinelsAre
<1>10. to \in Seq(Byte) /\ Len(to) = 5 /\ Unless(END_DATE_SENTINEL, to) = Legible(w.end)
  BY <1>8, WindowDate, WindowsAre, SentinelsAre
<1>11. PICK front : FrontBytes(front, 90, 6, 0, 1)
  BY Zenon DEF FrontBytes
<1>12. PICK data : FiveJoined(data, front, id, slot, from, to)
  BY DEF FiveJoined
<1>13. FingerData(data, id, slot, from, to) /\ data \in Seq(Byte)
  BY <1>3, <1>6, <1>9, <1>10, <1>11, <1>12, FingerIs DEF FingerData
<1>14. IsReply(Whole, 0, data)
  <2>1. meant.entry[1] = OfFinger(id, w)
    BY <1>1, <1>2 DEF Some
  <2>2. /\ meant.entry[1].id = id /\ meant.entry[1].slot = n
        /\ meant.entry[1].start = w.start /\ meant.entry[1].end = w.end
    BY <1>4, <2>1 DEF OfFinger
  <2>3. Whole = Reply((((front \o id) \o slot) \o from) \o to)
    BY <1>5, <1>7, <1>8, <1>11, <2>2, EntriesWritten, Zenon DEF FrontBytes
  <2>4. Whole = Reply(data)
    BY <1>12, <2>3, Zenon DEF FiveJoined
  <2> QED BY <2>4 DEF Reply, IsReply, Byte
<1>15. Whole \in Seq(Byte) /\ Len(Whole) \in Nat
  BY <1>13, <1>14, ReplyLength, LengthIs
<1>16. Understood = FingerMeant(id, n, from, to)
  BY <1>1, <1>2, <1>4, <1>9, <1>10, FingerprintMeans, Zenon DEF FingerMeant
<1>17. Sayable
  BY DEF Sayable
<1>18. ASSUME Came(form.how, wire, Whole) PROVE Reads(wire, Whole, Decode(wire), Understood)
  <2>1. Understands(wire, Whole, Fingerprint(wire), FingerMeant(id, n, from, to))
    BY <1>3, <1>6, <1>9, <1>10, <1>13, <1>14, <1>18, FingerRead DEF Came
  <2> QED BY <1>15, <1>16, <1>18, <2>1, UnderstandsReads, Decoders DEF Came
<1>19. form.how = "refused" => ~Returned(Decode(wire))
  <2>1. PICK e : e = Envelope(wire)
    OBVIOUS
  <2>2. ASSUME form.how = "refused" PROVE ~Succeeds(e) /\ ~Returned(Fails(e))
    BY <2>1, <2>2, RefusedRaises, ReadKinds
  <2>3. ~Succeeds(e) => Fingerprint(wire) = Fails(e)
    BY <2>1, FingerprintIs
  <2> QED BY <2>2, <2>3, Decoders
<1>20. kind \notin RequestKinds /\ kind \notin {"features", "page"}
  BY DEF RequestKinds
<1> QED BY <1>15, <1>17, <1>18, <1>19, <1>20, PlainKept

(* What is made of a card's reply.                                         *)
LEMMA CardIdLengthIs ==
  ASSUME NEW d
  PROVE  /\ Len(d) = 22 => CardIdLength(d) = 8
         /\ Len(d) = 18 => CardIdLength(d) = 4
         /\ Len(d) # 22 /\ Len(d) # 18 => CardIdLength(d) = 0
BY DEF CardIdLength

(* A card by what is on the wire.                                           *)
CardMeant(id, from, to) ==
  [entry |-> Some([id |-> id, start |-> Unless(START_DATE_SENTINEL, from),
                   end |-> Unless(END_DATE_SENTINEL, to)])]

(* A card's reply, and where the id ends in it.                            *)
CardData(data, id, from, to, end) ==
  /\ data \in Seq(Byte) /\ data[3] = 0
  /\ end \in {8, 12} /\ Len(data) = end + 10
  /\ FieldAt(id, data, 4, end) /\ FieldAt(from, data, end, end + 5)
  /\ FieldAt(to, data, end + 5, end + 10)

(* Where the fields of a card are: its number has four or eight bytes.      *)
LEMMA CardDataIs ==
  ASSUME NEW front, FrontBytes(front, 90, 1, 0, 1), NEW id \in Seq(Byte),
         NEW end \in Nat, end = 4 + Len(id), end \in {8, 12},
         NEW from \in Seq(Byte), Len(from) = 5, NEW to \in Seq(Byte), Len(to) = 5,
         NEW data, FourJoined(data, front, id, from, to)
  PROVE  CardData(data, id, from, to, end)
<1>1. front \in Seq(Byte) /\ Len(front) = 4 /\ front[3] = 0
  BY FrontIs
<1>2. PICK p \in Nat, r \in Nat, s \in Nat : p = 4 /\ r = end + 5 /\ s = end + 10
  OBVIOUS
<1>3. /\ p \in Nat /\ r \in Nat /\ s \in Nat
      /\ p = Len(front) /\ end = p + Len(id) /\ r = end + Len(from) /\ s = r + Len(to)
  BY <1>1, <1>2
<1>4. FourFields(data, front, id, from, to, p, end, r, s)
  BY <1>1, <1>3, FourParts
<1>5. /\ data \in Seq(Byte) /\ Len(data) = s
      /\ FieldAt(front, data, 0, p) /\ FieldAt(id, data, p, end)
      /\ FieldAt(from, data, end, r) /\ FieldAt(to, data, r, s)
  BY <1>4 DEF FourFields
<1>6. PICK i \in Nat : i = 3
  OBVIOUS
<1>7. 1 <= i /\ i <= Len(front) /\ i \in Nat
  BY <1>1, <1>6
<1>8. data[i] = front[i]
  BY <1>1, <1>5, <1>7, ByteOfFirst
<1> QED BY <1>1, <1>2, <1>5, <1>6, <1>8 DEF CardData

(* A card is read from exactly as many bytes as a card of four or of eight  *)
(* has: the length of the reply decides the length of the number, and no    *)
(* other length returns.                                                    *)
LEMMA CardRead ==
  ASSUME NEW id \in Seq(Byte), NEW from \in Seq(Byte), NEW to \in Seq(Byte), NEW end,
         NEW data, CardData(data, id, from, to, end),
         NEW raw, NEW echo, NEW d, Opened(raw, echo, data, d)
  PROVE  /\ Len(d) = end + 10 => Card(raw) = Returns(CardMeant(id, from, to))
         /\ Len(d) # 18 /\ Len(d) # 22 => ~Returned(Card(raw))
<1>0. /\ data \in Seq(Byte) /\ data[3] = 0 /\ end \in Nat /\ end \in {8, 12} /\ Len(data) = end + 10
      /\ FieldAt(id, data, 4, end) /\ FieldAt(from, data, end, end + 5)
      /\ FieldAt(to, data, end + 5, end + 10)
  BY DEF CardData
<1>1. d \in Seq(Byte) /\ Agrees(d, data) /\ Len(d) \in Nat
  BY DEF Opened
<1>2. PICK e : e = Envelope(raw)
  OBVIOUS
<1>3. Succeeds(e) /\ e.value.data = d
  BY <1>2, EnvelopeOf
<1>4. ~IsEndOfList(1, d)
  <2>1. Len(data) >= 4
    BY <1>0
  <2> QED BY <1>0, <1>1, <2>1, NotTheEnd
<1>5. PICK stop : stop = 4 + CardIdLength(d)
  OBVIOUS
<1>6. Card(raw) = IF CardIdLength(d) = 0 THEN Raises("ValueError")
           ELSE Returns([entry |-> Some(
             [id |-> Slice(d, 4, stop),
              start |-> Unless(START_DATE_SENTINEL, Slice(d, stop, stop + 5)),
              end |-> Unless(END_DATE_SENTINEL, Slice(d, stop + 5, stop + 10))])])
  <2>1. Card(raw) =
          IF ~Succeeds(e) THEN Fails(e)
          ELSE IF IsEndOfList(1, d) THEN Returns([entry |-> None])
          ELSE IF CardIdLength(d) = 0 THEN Raises("ValueError")
          ELSE Returns([entry |-> Some(
             [id |-> Slice(d, 4, stop),
              start |-> Unless(START_DATE_SENTINEL, Slice(d, stop, stop + 5)),
              end |-> Unless(END_DATE_SENTINEL, Slice(d, stop + 5, stop + 10))])])
    <3>1. d = e.value.data
      BY <1>3
    <3> QED BY <1>2, <1>5, <3>1, CardIs
  <2> QED BY <1>3, <1>4, <2>1, Zenon
<1>7. ASSUME Len(d) # 18, Len(d) # 22 PROVE ~Returned(Card(raw))
  <2>1. CardIdLength(d) = 0
    BY <1>7, CardIdLengthIs
  <2> QED BY <1>6, <2>1 DEF Returned, Raises
<1>8. ASSUME Len(d) = end + 10 PROVE Card(raw) = Returns(CardMeant(id, from, to))
  <2>1. CardIdLength(d) # 0 /\ stop = end
    <3>1. CASE end = 8
      <4>1. Len(d) = 18
        BY <1>8, <3>1
      <4>2. CardIdLength(d) = 4
        BY <4>1, CardIdLengthIs
      <4> QED BY <1>5, <3>1, <4>2
    <3>2. CASE end = 12
      <4>1. Len(d) = 22
        BY <1>8, <3>2
      <4>2. CardIdLength(d) = 8
        BY <4>1, CardIdLengthIs
      <4> QED BY <1>5, <3>2, <4>2
    <3> QED BY <1>0, <3>1, <3>2
  <2>2. PICK m \in Nat, n \in Nat : m = end + 5 /\ n = end + 10
    BY <1>0
  <2>3. m \in Nat /\ n \in Nat /\ end <= Len(d) /\ m <= Len(d) /\ n <= Len(d)
    BY <1>0, <1>8, <2>2
  <2>4. FieldAt(id, data, 4, end) /\ FieldAt(from, data, end, m) /\ FieldAt(to, data, m, n)
    BY <1>0, <2>2
  <2>5. Slice(d, 4, end) = id
    BY <1>0, <1>1, <2>3, <2>4, FieldRead
  <2>6. Slice(d, end, m) = from
    BY <1>0, <1>1, <2>3, <2>4, FieldRead
  <2>7. Slice(d, m, n) = to
    BY <1>0, <1>1, <2>3, <2>4, FieldRead
  <2>8. Card(raw) = Returns([entry |-> Some(
             [id |-> Slice(d, 4, end),
              start |-> Unless(START_DATE_SENTINEL, Slice(d, end, m)),
              end |-> Unless(END_DATE_SENTINEL, Slice(d, m, n))])])
    BY <1>6, <2>1, <2>2, Zenon
  <2> QED BY <2>5, <2>6, <2>7, <2>8, Zenon DEF CardMeant
<1> QED BY <1>7, <1>8

(* The lengths of a card's reply that are neither.                         *)
LEMMA OtherLength ==
  ASSUME NEW n \in Nat, NEW end \in Nat, end \in {8, 12}
  PROVE  /\ n > end + 10 /\ n # 22 => n # 18
         /\ n < end + 10 /\ n # 18 => n # 22
OBVIOUS

(* The three properties hold of a card, in every form and once it was read. *)
LEMMA CardKept == IInv /\ kind = "card" => Kept
<1> SUFFICES ASSUME IInv, kind = "card" PROVE Kept
  OBVIOUS
<1>1. PICK k \in {4, 8}, i \in Ids, w \in Windows : meant = [entry |-> Some(OnCard(Padded(k, i), w))]
  BY GroupOf, CredentialsSay DEF IInv, CredentialKinds
<1>2. PICK id : id = Padded(k, i)
  OBVIOUS
<1>3. id \in Seq(Byte) /\ Len(id) = k
  <2>1. PICK n \in Nat : n = k
    OBVIOUS
  <2>2. id = Padded(n, i) /\ n >= 4
    BY <1>2, <2>1
  <2>3. id \in Seq(Byte) /\ Len(id) = n
    BY <2>2, IdPadded
  <2> QED BY <2>1, <2>3
<1>4. PICK end \in Nat : end = 4 + Len(id) /\ end \in {8, 12}
  BY <1>3
<1>7. PICK from : from = OrSentinel(w.start, START_DATE_SENTINEL)
  OBVIOUS
<1>8. PICK to : to = OrSentinel(w.end, END_DATE_SENTINEL)
  OBVIOUS
<1>9. from \in Seq(Byte) /\ Len(from) = 5 /\ Unless(START_DATE_SENTINEL, from) = Legible(w.start)
  BY <1>7, WindowDate, WindowsAre, SentinelsAre
<1>10. to \in Seq(Byte) /\ Len(to) = 5 /\ Unless(END_DATE_SENTINEL, to) = Legible(w.end)
  BY <1>8, WindowDate, WindowsAre, SentinelsAre
<1>11. PICK front : FrontBytes(front, 90, 1, 0, 1)
  BY Zenon DEF FrontBytes
<1>12. PICK data : FourJoined(data, front, id, from, to)
  BY DEF FourJoined
<1>13. CardData(data, id, from, to, end)
  BY <1>3, <1>4, <1>9, <1>10, <1>11, <1>12, CardDataIs
<1>14. data \in Seq(Byte) /\ Len(data) = end + 10
  BY <1>13 DEF CardData
<1>15. IsReply(Whole, 0, data)
  <2>1. meant.entry[1] = OnCard(id, w)
    BY <1>1, <1>2 DEF Some
  <2>2. meant.entry[1].id = id /\ meant.entry[1].start = w.start /\ meant.entry[1].end = w.end
    BY <2>1 DEF OnCard
  <2>3. Whole = Reply(((front \o id) \o from) \o to)
    BY <1>7, <1>8, <1>11, <2>2, EntriesWritten, Zenon DEF FrontBytes
  <2>4. Whole = Reply(data)
    BY <1>12, <2>3, Zenon DEF FourJoined
  <2> QED BY <2>4 DEF Reply, IsReply, Byte
<1>16. PICK decoded : decoded = Decode(wire)
  OBVIOUS
<1>17. decoded = Card(wire)
  BY <1>16, Decoders
<1>18. Understood = CardMeant(id, from, to)
  BY <1>1, <1>2, <1>9, <1>10, CardMeans, Zenon DEF CardMeant
<1>19. Sayable
  BY DEF Sayable
<1>20. TooShort(wire) => ~Returned(decoded)
  <2>1. PICK e : e = Envelope(wire)
    OBVIOUS
  <2>2. PICK stop : stop = 4 + CardIdLength(e.value.data)
    OBVIOUS
  <2> QED BY <1>17, <2>1, <2>2, NoEnvelope, CardIs
<1>21. form.how = "refused" => RefusedClause(decoded)
  <2>1. PICK e : e = Envelope(wire)
    OBVIOUS
  <2>2. PICK stop : stop = 4 + CardIdLength(e.value.data)
    OBVIOUS
  <2>3. form.how = "refused" => ~Returned(decoded)
    BY <1>17, <2>1, <2>2, RefusedRaises, ReadKinds, CardIs
  <2> QED BY <2>3 DEF RefusedClause
<1>22. ASSUME NEW d, NEW how, Opened(wire, 0, data, d), Came(how, d, data)
       PROVE  /\ Len(d) = end + 10 => decoded = Returns(Understood)
              /\ Len(d) # 18 /\ Len(d) # 22 => ~Returned(decoded)
              /\ Len(d) \in Nat /\ Len(wire) = 2 + Len(d)
  <2>1. /\ Len(d) = end + 10 => Card(wire) = Returns(CardMeant(id, from, to))
        /\ Len(d) # 18 /\ Len(d) # 22 => ~Returned(Card(wire))
    BY <1>3, <1>9, <1>10, <1>13, <1>22, CardRead
  <2>2. Len(d) \in Nat /\ Len(wire) = Len(d) + 2
    BY <1>22 DEF Opened, Came
  <2> QED BY <1>17, <1>18, <2>1, <2>2
<1>23. ASSUME NEW d, Opened(wire, 0, data, d), Came("whole", d, data) PROVE WholeClause(decoded)
  <2>1. Len(d) = end + 10
    BY <1>14, <1>23 DEF Came
  <2>2. decoded = Returns(Understood)
    BY <1>22, <1>23, <2>1
  <2> QED BY <1>19, <2>2 DEF WholeClause, Returned, Returns
<1>24. ASSUME NEW d, Opened(wire, 0, data, d), Came("extended", d, data) PROVE ExtendedClause(decoded)
  <2>1. Len(d) > end + 10
    BY <1>14, <1>24 DEF Came
  <2>2. CASE Len(d) = 22
    <3>1. Len(wire) = 2 + 22
      BY <1>22, <1>24, <2>2
    <3> QED BY <3>1 DEF ExtendedClause, Withstands, Outgrown
  <2>3. CASE Len(d) # 22
    <3>1. Len(d) # 18
      <4>1. Len(d) \in Nat
        BY <1>22, <1>24
      <4> QED BY <1>4, <2>1, <2>3, <4>1, OtherLength
    <3>2. ~Returned(decoded)
      BY <1>22, <1>24, <2>3, <3>1
    <3> QED BY <3>2 DEF ExtendedClause
  <2> QED BY <2>2, <2>3
<1>25. ASSUME NEW d, Opened(wire, 0, data, d), Came("cut", d, data) PROVE CutClause(decoded)
  <2>1. Len(d) < end + 10
    BY <1>14, <1>25 DEF Came
  <2>2. CASE Len(d) = 18
    <3>1. Len(wire) = 2 + 18
      BY <1>22, <1>25, <2>2
    <3> QED BY <3>1 DEF CutClause, SentOrMissing
  <2>3. CASE Len(d) # 18
    <3>1. Len(d) # 22
      <4>1. Len(d) \in Nat
        BY <1>22, <1>25
      <4> QED BY <1>4, <2>1, <2>3, <4>1, OtherLength
    <3>2. ~Returned(decoded)
      BY <1>22, <1>25, <2>3, <3>1
    <3> QED BY <3>2 DEF CutClause
  <2> QED BY <2>2, <2>3
<1>26. kind \notin RequestKinds /\ kind # "page"
  BY DEF RequestKinds
<1> QED BY <1>14, <1>15, <1>16, <1>20, <1>21, <1>23, <1>24, <1>25, <1>26, ReplyKept

----------------------------------------------------------------------------
(* The passcodes, whose fields have lengths of their own.                   *)

(* A field of the second part.                                             *)
LEMMA InSecond ==
  ASSUME NEW s, NEW t \in Seq(Byte), NEW a \in Nat, NEW n, NEW u, MadeOf(u, s, t, a, n),
         NEW field \in Seq(Byte), NEW p \in Nat, NEW q \in Nat, FieldAt(field, t, p, q),
         NEW from \in Nat, from = a + p, NEW to, to = a + q
  PROVE  FieldAt(field, u, from, to)
<1>1. Within(field, t, p) /\ q = p + Len(field)
  BY DEF FieldAt
<1>2. u \in Seq(Byte) /\ Within(t, u, a)
  BY DEF MadeOf
<1>3. Within(field, u, from)
  BY <1>1, <1>2, PartOfPart
<1>4. to = from + Len(field)
  BY <1>1, LengthIs
<1> QED BY <1>3, <1>4 DEF FieldAt

(* A byte at its place.                                                    *)
ByteIn(b, data, p) == p + 1 <= Len(data) /\ data[p + 1] = b

LEMMA ByteOfField ==
  ASSUME NEW a \in Seq(Byte), NEW data, NEW p \in Nat, NEW q, FieldAt(a, data, p, q),
         NEW i \in Nat, 1 <= i, i <= Len(a), NEW b, a[i] = b, NEW at \in Nat, at + 1 = p + i, Len(data) \in Nat
  PROVE  ByteIn(b, data, at)
<1>1. i \in 1..Len(a) /\ Len(a) \in Nat
  BY LengthIs
<1>2. data[p + i] = a[i] /\ p + Len(a) <= Len(data)
  BY <1>1 DEF FieldAt, Within
<1>3. p + i <= Len(data)
  BY <1>1, <1>2
<1> QED BY <1>2, <1>3 DEF ByteIn

(* A byte of what came is the byte that was written.                        *)
LEMMA ByteAgreed ==
  ASSUME NEW data, NEW d \in Seq(Byte), Agrees(d, data), NEW b, NEW p \in Nat,
         ByteIn(b, data, p), p < Len(d)
  PROVE  At(d, p) = b
<1>1. p + 1 \in 1..Len(d)
  BY LengthIs
<1> QED BY <1>1 DEF At, Agrees, ByteIn

(* A slice is cut at the end of what there is.                              *)
LEMMA ShortSlice ==
  ASSUME NEW d \in Seq(Byte), NEW a \in Nat, NEW b \in Nat, Len(d) < b, NEW n \in Nat, b = a + n, 0 < n
  PROVE  Len(Slice(d, a, b)) < n
<1>1. PICK m \in Nat : m = Len(d)
  BY LengthIs
<1>2. Slice(d, a, b) = SubSeq(d, a + 1, m)
  BY <1>1 DEF Slice
<1>3. CASE a <= m
  <2>1. Len(SubSeq(d, a + 1, m)) = m - a
    BY <1>1, <1>3, SubSeqIs
  <2> QED BY <1>1, <1>2, <1>3, <2>1
<1>4. CASE ~(a <= m)
  <2>1. Len(SubSeq(d, a + 1, m)) = 0
    BY <1>1, <1>4
  <2> QED BY <1>2, <2>1
<1> QED BY <1>3, <1>4

(* What is behind the first bytes agrees with what is meant to be there.    *)
LEMMA FromAgrees ==
  ASSUME NEW d \in Seq(Byte), NEW data \in Seq(Byte), Agrees(d, data), NEW p \in Nat, p <= Len(d),
         NEW r \in Seq(Byte), Within(r, data, p), NEW rest, rest = From(d, p), NEW n \in Nat, n = Len(d) - p
  PROVE  rest \in Seq(Byte) /\ Len(rest) = n /\ Agrees(rest, r)
<1>1. rest \in Seq(Byte) /\ Len(rest) = n /\ Within(rest, d, p)
  BY FromIs
<1>2. PICK m \in Nat : m = Len(r)
  BY LengthIs
<1>3. PICK k \in Nat : k = Len(d)
  BY LengthIs
<1>4. p + m <= Len(data)
  BY <1>2 DEF Within
<1>5. ASSUME NEW i \in 1..n, i <= m PROVE rest[i] = r[i]
  <2>1. d[p + i] = rest[i]
    BY <1>1 DEF Within
  <2>2. data[p + i] = r[i]
    BY <1>2, <1>5 DEF Within
  <2>3. p + i \in 1..Len(d) /\ p + i <= Len(data)
    <3>1. p + i <= k /\ 1 <= p + i /\ p + i <= p + m
      BY <1>3, <1>5
    <3>2. Len(data) \in Nat
      BY LengthIs
    <3> QED BY <1>3, <1>4, <3>1, <3>2
  <2>4. d[p + i] = data[p + i]
    BY <2>3 DEF Agrees
  <2> QED BY <2>1, <2>2, <2>4
<1> QED BY <1>1, <1>2, <1>5 DEF Agrees

(* The day of a cyclic passcode.                                           *)
LEMMA SelectorIs ==
  ASSUME NEW s \in Selectors, NEW low \in Nat, s <= low, low < s + 24
  PROVE  Selector(low) = s
<1>1. \A other \in Selectors : other \in Nat /\ (other <= s \/ s + 24 <= other)
  BY DEF Selectors
<1>2. s \in Nat
  BY DEF Selectors
<1>3. \A other \in Selectors : other <= low => other <= s
  BY <1>1, <1>2
<1>4. ASSUME NEW base \in Selectors, base <= low, \A other \in Selectors : other <= low => other <= base
      PROVE  base = s
  <2>1. base \in Nat /\ base <= s /\ s <= base
    BY <1>1, <1>3, <1>4
  <2> QED BY <1>2, <2>1
<1> QED BY <1>3, <1>4 DEF Selector

(* What is made of an item, from its parts.                                *)
ItemOutcome(item, type, place, trailer, dates, passcode) ==
  IF \/ place >= Len(item)
     \/ Len(trailer) < TrailerLengths[type]
     \/ \E i \in DOMAIN dates : ~IsDate(dates[i])
     \/ ~IsAscii(passcode)
  THEN Raises("ValueError")
  ELSE Returns(Some(
         [passcode |-> passcode, type |-> type, dates |-> dates,
          schedule |-> IF type = CIRCLE THEN Some(Schedule(trailer)) ELSE None]))

LEMMA PasscodeItemIs ==
  ASSUME NEW item, NEW type, type = At(item, 1), NEW place, place = 3 + At(item, 2),
         NEW trailerAt, trailerAt = place + 1 + At(item, place),
         NEW trailer, trailer = Slice(item, trailerAt, trailerAt + TrailerLengths[type]),
         NEW dates, dates = Dates(type, trailer), NEW passcode, passcode = Slice(item, 3, place)
  PROVE  PasscodeItem(item) = ItemOutcome(item, type, place, trailer, dates, passcode)
BY Zenon DEF PasscodeItem, ItemOutcome

LEMMA PasscodeIs ==
  ASSUME NEW raw, NEW e, e = Envelope(raw), NEW d, d = e.value.data, NEW item, item = From(d, 4)
  PROVE  Passcode(raw) =
           IF ~Succeeds(e) THEN Fails(e)
           ELSE IF Len(d) < 4 THEN Returns([entry |-> None, next |-> 0])
           ELSE IF Len(item) < 4 \/ At(item, 1) \notin DOMAIN TrailerLengths
                THEN Returns([entry |-> None, next |-> Uint16(Slice(d, 2, 4))])
           ELSE IF ~Returned(PasscodeItem(item)) THEN PasscodeItem(item)
           ELSE Returns([entry |-> PasscodeItem(item).value, next |-> Uint16(Slice(d, 2, 4))])
BY Zenon DEF Passcode

(* The three types of a passcode and the lengths of their trailers.         *)
LEMMA TypesAre ==
  /\ DOMAIN TrailerLengths = {PERMANENT, PERIOD, CIRCLE}
  /\ TrailerLengths[PERMANENT] = 5 /\ TrailerLengths[PERIOD] = 10 /\ TrailerLengths[CIRCLE] = 7
  /\ PERMANENT = 1 /\ PERIOD = 3 /\ CIRCLE = 4
BY DEF TrailerLengths, PERMANENT, PERIOD, CIRCLE

(* A passcode, as its type and its trailer tell it.                         *)
PasscodeMeant(c, type, trailer) ==
  Entered(c, type, Dates(type, trailer), IF type = CIRCLE THEN Some(Schedule(trailer)) ELSE None)

(* A trailer as long as the type says.                                      *)
TrailerFits(type, trailer) ==
  type \in DOMAIN TrailerLengths /\ trailer \in Seq(Byte) /\ Len(trailer) = TrailerLengths[type]

(* The item of a passcode, behind its length.                              *)
ItemData(r, type, c, trailer, place, end) ==
  /\ r \in Seq(Byte) /\ Len(r) = end /\ place = 3 + Len(c) /\ end = place + 3 + Len(trailer)
  /\ ByteIn(type, r, 1) /\ ByteIn(Len(c), r, 2) /\ FieldAt(c, r, 3, place)
  /\ ByteIn(2, r, place) /\ FieldAt(trailer, r, place + 3, end)

(* All the dates of the trailer are dates.                                  *)
Valid(type, trailer) ==
  \A i \in DOMAIN Dates(type, trailer) : IsDate(Dates(type, trailer)[i])

LEMMA TypeLength ==
  ASSUME NEW type \in DOMAIN TrailerLengths
  PROVE  TrailerLengths[type] \in Nat /\ 0 < TrailerLengths[type]
BY TypesAre

(* What has come of a passcode's item: nothing, or the passcode, or a       *)
(* ValueError for its dates.                                                *)
LEMMA ItemRead ==
  ASSUME NEW c \in Codes, NEW type, NEW trailer, TrailerFits(type, trailer),
         NEW place, NEW end, NEW r, ItemData(r, type, c, trailer, place, end),
         NEW item \in Seq(Byte), Agrees(item, r), 4 <= Len(item)
  PROVE  /\ At(item, 1) = type
         /\ Len(item) < end => ~Returned(PasscodeItem(item))
         /\ Len(item) >= end =>
              PasscodeItem(item) = IF Valid(type, trailer) THEN Returns(Some(PasscodeMeant(c, type, trailer)))
                                   ELSE Raises("ValueError")
<1>1. c \in Seq(Byte) /\ IsPasscode(c) /\ Len(c) \in Nat
  BY CodesAre, LengthIs
<1>2. PICK t \in Nat : t = TrailerLengths[type] /\ 0 < t /\ t = Len(trailer)
  BY TypeLength DEF TrailerFits
<1>3. /\ r \in Seq(Byte) /\ Len(r) = end /\ place = 3 + Len(c) /\ end = place + 3 + t
      /\ ByteIn(type, r, 1) /\ ByteIn(Len(c), r, 2) /\ FieldAt(c, r, 3, place)
      /\ ByteIn(2, r, place) /\ FieldAt(trailer, r, place + 3, end)
      /\ trailer \in Seq(Byte)
  BY <1>2 DEF ItemData, TrailerFits
<1>4. PICK from \in Nat : from = place + 3
  BY <1>1, <1>3
<1>5. place \in Nat /\ end \in Nat /\ end = from + t /\ place < end
  BY <1>1, <1>3, <1>4, <1>2
<1>6. PICK n \in Nat : n = Len(item)
  BY LengthIs
<1>7. 1 < n /\ 2 < n /\ 1 < Len(item) /\ 2 < Len(item)
  BY <1>6
<1>8. At(item, 1) = type
  BY <1>3, <1>7, ByteAgreed
<1>9. At(item, 2) = Len(c)
  BY <1>3, <1>7, ByteAgreed
<1>10. PICK at : at = place + 1 + At(item, place)
  OBVIOUS
<1>11. PICK tail : tail = Slice(item, at, at + t)
  OBVIOUS
<1>12. PICK dates : dates = Dates(type, tail)
  OBVIOUS
<1>13. PICK code : code = Slice(item, 3, place)
  OBVIOUS
<1>14. PasscodeItem(item) =
           IF \/ place >= Len(item)
              \/ Len(tail) < TrailerLengths[type]
              \/ \E i \in DOMAIN dates : ~IsDate(dates[i])
              \/ ~IsAscii(code)
           THEN Raises("ValueError")
           ELSE Returns(Some(
                  [passcode |-> code, type |-> type, dates |-> dates,
                   schedule |-> IF type = CIRCLE THEN Some(Schedule(tail)) ELSE None]))
  <2>1. type = At(item, 1) /\ place = 3 + At(item, 2) /\ tail = Slice(item, at, at + TrailerLengths[type])
    BY <1>2, <1>3, <1>8, <1>9, <1>11
  <2>2. PasscodeItem(item) = ItemOutcome(item, type, place, tail, dates, code)
    BY <1>10, <1>12, <1>13, <2>1, PasscodeItemIs
  <2> QED BY <2>2, Zenon DEF ItemOutcome
<1>15. ~Returned(Raises("ValueError"))
  BY DEF Returned, Raises
<1>16. CASE place >= n
  <2>1. Len(item) < end
    BY <1>5, <1>6, <1>16
  <2>2. ~(Len(item) >= end)
    BY <1>5, <1>6, <2>1
  <2> QED BY <1>6, <1>8, <1>14, <1>15, <1>16, <2>2
<1>17. CASE place < n
  <2>1. At(item, place) = 2
    BY <1>3, <1>5, <1>6, <1>17, ByteAgreed
  <2>2. at = from /\ at + t = end
    BY <1>4, <1>5, <1>10, <2>1
  <2>3. CASE n < end
    <3>1. Len(Slice(item, from, end)) < t
      BY <1>2, <1>5, <1>6, <2>3, ShortSlice
    <3>2. Len(tail) < TrailerLengths[type]
      BY <1>2, <1>11, <2>2, <3>1
    <3>3. ~(Len(item) >= end)
      BY <1>5, <1>6, <2>3
    <3> QED BY <1>8, <1>14, <1>15, <3>2, <3>3
  <2>4. CASE ~(n < end)
    <3>1. end <= Len(item) /\ place <= Len(item) /\ ~(Len(item) < end) /\ ~(place >= Len(item))
      BY <1>5, <1>6, <2>4
    <3>2. FieldAt(trailer, r, from, end)
      BY <1>3, <1>4
    <3>3. Slice(item, from, end) = trailer
      BY <1>3, <3>1, <3>2, FieldRead
    <3>4. tail = trailer
      BY <1>11, <2>2, <3>3
    <3>5. code = c
      BY <1>1, <1>3, <1>13, <3>1, FieldRead
    <3>6. IsAscii(c)
      BY <1>1 DEF IsAscii, IsPasscode
    <3>7. ~(Len(tail) < TrailerLengths[type])
      BY <1>2, <3>4
    <3>8. (\E i \in DOMAIN dates : ~IsDate(dates[i])) <=> ~Valid(type, trailer)
      BY <1>12, <3>4 DEF Valid
    <3>9. PasscodeItem(item) =
           IF ~Valid(type, trailer) THEN Raises("ValueError")
           ELSE Returns(Some(
                  [passcode |-> code, type |-> type, dates |-> dates,
                   schedule |-> IF type = CIRCLE THEN Some(Schedule(tail)) ELSE None]))
      BY <1>14, <3>1, <3>5, <3>6, <3>7, <3>8, Zenon
    <3>10. PasscodeMeant(c, type, trailer) =
             [passcode |-> code, type |-> type, dates |-> dates,
              schedule |-> IF type = CIRCLE THEN Some(Schedule(tail)) ELSE None]
      BY <1>12, <3>4, <3>5, Zenon DEF PasscodeMeant, Entered
    <3>11. PasscodeItem(item) = IF Valid(type, trailer) THEN Returns(Some(PasscodeMeant(c, type, trailer)))
                                ELSE Raises("ValueError")
      BY <3>9, <3>10, Zenon
    <3> QED BY <1>8, <3>1, <3>11, Zenon
  <2> QED BY <2>3, <2>4
<1> QED BY <1>5, <1>6, <1>16, <1>17

(* A field of a field.                                                     *)
LEMMA FieldOfField ==
  ASSUME NEW t \in Seq(Byte), NEW u \in Seq(Byte), NEW a \in Nat, NEW b, FieldAt(t, u, a, b),
         NEW field \in Seq(Byte), NEW p \in Nat, NEW q \in Nat, FieldAt(field, t, p, q),
         NEW from \in Nat, from = a + p, NEW to, to = a + q
  PROVE  FieldAt(field, u, from, to)
<1>1. Within(field, t, p) /\ q = p + Len(field) /\ Within(t, u, a)
  BY DEF FieldAt
<1>2. Within(field, u, from)
  BY <1>1, PartOfPart
<1>3. to = from + Len(field)
  BY <1>1, LengthIs
<1> QED BY <1>2, <1>3 DEF FieldAt

Shifted(to, a, p) == to = a + p

(* A field of the second part is a field of both, further on.               *)
LEMMA ShiftedField ==
  ASSUME NEW s, NEW t \in Seq(Byte), NEW a \in Nat, NEW n, NEW u, MadeOf(u, s, t, a, n),
         NEW field \in Seq(Byte), NEW p \in Nat, NEW q \in Nat, FieldAt(field, t, p, q),
         NEW from \in Nat, Shifted(from, a, p), NEW to, Shifted(to, a, q)
  PROVE  FieldAt(field, u, from, to)
  BY InSecond DEF Shifted

TextBytes(text, c) == text = <<Len(c)>> \o c

MiddleBytes(mid) == mid = <<2, 55, 55>>

LEMMA MiddleIs ==
  ASSUME NEW mid, MiddleBytes(mid)
  PROVE  mid \in Seq(Byte) /\ Len(mid) = 3 /\ mid[1] = 2
<1>1. 2 \in Byte /\ 55 \in Byte
  BY DEF Byte
<1> QED BY <1>1, ThreeBytes DEF MiddleBytes

LEMMA SmallByte ==
  ASSUME NEW l \in Nat, l <= 255
  PROVE  l \in Byte
  BY DEF Byte

LEMMA TextIs ==
  ASSUME NEW c \in Seq(Byte), Len(c) <= 255, NEW text, TextBytes(text, c), NEW n \in Nat, n = Len(c) + 1
  PROVE  text \in Seq(Byte) /\ Len(text) = n /\ text[1] = Len(c) /\ FieldAt(c, text, 1, n)
<1>0. PICK l \in Nat : l = Len(c)
  BY LengthIs
<1>1. Len(c) \in Byte
  BY <1>0, SmallByte
<1>2. PICK one : Single(one, Len(c))
  BY DEF Single
<1>3. one \in Seq(Byte) /\ Len(one) = 1 /\ one[1] = Len(c)
  BY <1>1, <1>2, SingleIs
<1>4. PICK p \in Nat : p = 1
  OBVIOUS
<1>5. p \in Nat /\ p = Len(one) /\ n = p + Len(c) /\ text = one \o c /\ 1 <= p
  BY <1>2, <1>3, <1>4, LengthIs DEF Single, TextBytes
<1>6. MadeOf(text, one, c, p, n)
  BY <1>3, <1>5, Parts
<1>7. text \in Seq(Byte) /\ Len(text) = n /\ FieldAt(c, text, p, n)
  BY <1>6, Behind
<1>8. text[p] = one[p]
  <2>1. p \in Nat /\ 1 <= p /\ p <= Len(one)
    BY <1>3, <1>4
  <2> QED BY <1>3, <1>6, <2>1, FirstStays
<1> QED BY <1>3, <1>4, <1>7, <1>8

(* The bytes of a passcode's item.                                          *)
LEMMA ItemWritten ==
  ASSUME NEW c \in Codes, NEW type \in Byte, NEW trailer, TrailerFits(type, trailer),
         NEW ty, Single(ty, type), NEW text, TextBytes(text, c), NEW mid, MiddleBytes(mid),
         NEW item, FourJoined(item, ty, text, mid, trailer),
         NEW m1, Single(m1, Len(item)), NEW r, r = m1 \o item,
         NEW place \in Nat, NEW end \in Nat, place = 3 + Len(c), end = place + 3 + Len(trailer)
  PROVE  ItemData(r, type, c, trailer, place, end) /\ item \in Seq(Byte) /\ Len(item) \in Byte /\ 4 <= end
<1>1. c \in Seq(Byte) /\ IsPasscode(c)
  BY CodesAre
<1>2. PICK t \in Nat : t = Len(trailer) /\ t <= 10
  BY TypesAre DEF TrailerFits
<1>3. trailer \in Seq(Byte)
  BY DEF TrailerFits
<1>4. ty \in Seq(Byte) /\ Len(ty) = 1 /\ ty[1] = type
  BY SingleIs
<1>5. mid \in Seq(Byte) /\ Len(mid) = 3 /\ mid[1] = 2
  BY MiddleIs
<1>i. PICK l \in Nat : l = Len(c)
  BY <1>1, LengthIs
<1>6. l \in Nat /\ l = Len(c) /\ l <= 9
  <2>1. Len(c) \in 4..9
    BY <1>1 DEF IsPasscode
  <2>2. l \in 4..9
    BY <1>i, <2>1
  <2>3. l <= 9
    BY <2>2
  <2> QED BY <1>i, <2>3
<1>a. PICK one \in Nat : one = 1
  OBVIOUS
<1>b. PICK n \in Nat : n = l + 1
  BY <1>6
<1>c. PICK p2 \in Nat : p2 = l + 2
  BY <1>6
<1>d. PICK p3 \in Nat : p3 = l + 5
  BY <1>6
<1>e. PICK p4 \in Nat : p4 = l + 5 + t
  BY <1>2, <1>6
<1>7. /\ one \in Nat /\ n \in Nat /\ p2 \in Nat /\ p3 \in Nat /\ p4 \in Nat /\ l \in Nat /\ t \in Nat
      /\ one = 1 /\ n = l + 1 /\ p2 = l + 2 /\ p3 = l + 5 /\ p4 = l + 5 + t
  BY <1>2, <1>6, <1>a, <1>b, <1>c, <1>d, <1>e
<1>8. text \in Seq(Byte) /\ Len(text) = n /\ text[1] = Len(c) /\ FieldAt(c, text, 1, n)
  <2>1. n \in Nat /\ n = Len(c) + 1 /\ Len(c) <= 255
    BY <1>6, <1>7
  <2> QED BY <1>1, <2>1, TextIs
<1>9. /\ one \in Nat /\ n \in Nat /\ p2 \in Nat /\ p3 \in Nat /\ p4 \in Nat
      /\ one = Len(ty) /\ p2 = one + Len(text) /\ p3 = p2 + Len(mid) /\ p4 = p3 + Len(trailer)
      /\ p2 = one + n
  BY <1>2, <1>4, <1>5, <1>7, <1>8
<1>10. FourFields(item, ty, text, mid, trailer, one, p2, p3, p4)
  BY <1>3, <1>4, <1>5, <1>8, <1>9, FourParts
<1>11. PICK z \in Nat : z = 0
  OBVIOUS
<1>12. /\ item \in Seq(Byte) /\ Len(item) = p4
       /\ FieldAt(ty, item, z, one) /\ FieldAt(text, item, one, p2) /\ FieldAt(mid, item, p2, p3)
       /\ FieldAt(trailer, item, p3, p4)
  BY <1>10, <1>11 DEF FourFields
<1>13. Len(item) \in Byte
  <2>1. p4 \in Nat /\ p4 <= 255
    BY <1>2, <1>6, <1>7
  <2> QED BY <1>12, <2>1, SmallByte
<1>14. m1 \in Seq(Byte) /\ Len(m1) = 1
  BY <1>13, SingleIs
<1>15. end = one + p4 /\ place = one + p2
  BY <1>2, <1>6, <1>7
<1>16. MadeOf(r, m1, item, one, end)
  BY <1>7, <1>9, <1>12, <1>14, <1>15, Parts
<1>17. r \in Seq(Byte) /\ Len(r) = end
  BY <1>16 DEF MadeOf
<1>f. PICK two \in Nat : two = 2
  OBVIOUS
<1>g. PICK three \in Nat : three = 3
  OBVIOUS
<1>h. PICK from \in Nat : from = place + 3
  OBVIOUS
<1>18. two \in Nat /\ three \in Nat /\ from \in Nat /\ two = 2 /\ three = 3 /\ from = place + 3
  BY <1>f, <1>g, <1>h
<1>19. /\ two \in Nat /\ three \in Nat /\ from \in Nat
       /\ one = one + z /\ two = one + one /\ three = one + two /\ from = one + p3
  BY <1>6, <1>7, <1>11, <1>15, <1>18
<1>20. FieldAt(ty, r, one, two)
  <2>1. /\ item \in Seq(Byte) /\ one \in Nat /\ MadeOf(r, m1, item, one, end) /\ ty \in Seq(Byte)
        /\ z \in Nat /\ one \in Nat /\ FieldAt(ty, item, z, one)
    BY <1>3, <1>4, <1>7, <1>8, <1>11, <1>12, <1>16
  <2>2. one \in Nat /\ Shifted(one, one, z) /\ Shifted(two, one, one)
    BY <1>9, <1>15, <1>19 DEF Shifted
  <2> QED BY <2>1, <2>2, ShiftedField
<1>21. FieldAt(text, r, two, place)
  <2>1. /\ item \in Seq(Byte) /\ one \in Nat /\ MadeOf(r, m1, item, one, end) /\ text \in Seq(Byte)
        /\ one \in Nat /\ p2 \in Nat /\ FieldAt(text, item, one, p2)
    BY <1>3, <1>4, <1>7, <1>8, <1>11, <1>12, <1>16
  <2>2. two \in Nat /\ Shifted(two, one, one) /\ Shifted(place, one, p2)
    BY <1>9, <1>15, <1>19 DEF Shifted
  <2> QED BY <2>1, <2>2, ShiftedField
<1>22. FieldAt(mid, r, place, from)
  BY <1>5, <1>9, <1>12, <1>15, <1>16, <1>19, InSecond
<1>23. FieldAt(trailer, r, from, end)
  <2>1. /\ item \in Seq(Byte) /\ one \in Nat /\ MadeOf(r, m1, item, one, end) /\ trailer \in Seq(Byte)
        /\ p3 \in Nat /\ p4 \in Nat /\ FieldAt(trailer, item, p3, p4)
    BY <1>3, <1>4, <1>7, <1>8, <1>11, <1>12, <1>16
  <2>2. from \in Nat /\ from = one + p3 /\ end = one + p4
    BY <1>9, <1>15, <1>19
  <2> QED BY <2>1, <2>2, InSecond
<1>24. FieldAt(c, text, one, n)
  BY <1>7, <1>8
<1>25. FieldAt(c, r, three, place)
  <2>1. three \in Nat /\ three = two + one /\ place = two + n /\ two \in Nat /\ one \in Nat /\ n \in Nat
    BY <1>7, <1>15, <1>18
  <2>2. text \in Seq(Byte) /\ r \in Seq(Byte) /\ c \in Seq(Byte)
    BY <1>1, <1>8, <1>17
  <2> QED BY <1>21, <1>24, <2>1, <2>2, FieldOfField
<1>26. Len(r) \in Nat /\ one + 1 = one + one /\ two + 1 = two + one /\ place + 1 = place + one /\ 1 <= one
       /\ one <= Len(ty) /\ one <= Len(text) /\ one <= Len(mid)
  BY <1>4, <1>5, <1>7, <1>8, <1>17
<1>27. ty[one] = type /\ text[one] = Len(c) /\ mid[one] = 2
  BY <1>4, <1>5, <1>7, <1>8
<1>28. ByteIn(type, r, one)
  BY <1>4, <1>9, <1>20, <1>26, <1>27, ByteOfField
<1>29. ByteIn(Len(c), r, two)
  BY <1>8, <1>9, <1>19, <1>21, <1>26, <1>27, ByteOfField
<1>30. ByteIn(2, r, place)
  BY <1>5, <1>9, <1>22, <1>26, <1>27, ByteOfField
<1>31. ItemData(r, type, c, trailer, place, end)
  BY <1>7, <1>17, <1>18, <1>23, <1>25, <1>28, <1>29, <1>30 DEF ItemData
<1> QED BY <1>12, <1>13, <1>31

(* Two fields side by side are one field.                                  *)
LEMMA SideBySide ==
  ASSUME NEW data \in Seq(Byte), NEW s \in Seq(Byte), NEW t \in Seq(Byte), NEW p \in Nat, NEW a \in Nat,
         NEW n, NEW u, MadeOf(u, s, t, a, n), a = Len(s), Within(s, data, p),
         NEW q \in Nat, q = p + a, Within(t, data, q)
  PROVE  Within(u, data, p)
<1>1. /\ u \in Seq(Byte) /\ Len(u) = n /\ n = a + Len(t)
      /\ \A i \in 1..Len(s) : u[i] = s[i]
      /\ \A i \in 1..Len(t) : u[a + i] = t[i]
  BY LengthIs DEF MadeOf, Within
<1>2. /\ q + Len(t) <= Len(data) /\ \A i \in 1..Len(s) : data[p + i] = s[i]
      /\ \A i \in 1..Len(t) : data[q + i] = t[i]
  BY DEF Within
<1>3. Len(t) \in Nat /\ Len(data) \in Nat /\ n \in Nat
  BY <1>1, LengthIs
<1>4. p + Len(u) <= Len(data)
  BY <1>1, <1>2, <1>3
<1>5. ASSUME NEW i \in 1..Len(u) PROVE data[p + i] = u[i]
  <2>1. i \in Int /\ 1 <= i /\ i <= a + Len(t)
    BY <1>1, <1>3
  <2>2. CASE i <= a
    BY <1>1, <1>2, <2>1, <2>2
  <2>3. CASE i > a
    <3>0. i - a \in Int
      BY <2>1
    <3>1. PICK j \in Int : j = i - a
      BY <3>0
    <3>2. j \in 1..Len(t) /\ i = a + j /\ p + i = q + j
      BY <1>3, <2>1, <2>3, <3>1
    <3>3. u[a + j] = t[j] /\ data[q + j] = t[j]
      BY <1>1, <1>2, <3>2
    <3> QED BY <3>2, <3>3
  <2> QED BY <2>1, <2>2, <2>3
<1> QED BY <1>4, <1>5 DEF Within

(* The reply that carries an item.                                         *)
PasscodeData(data, r, number, n, last) ==
  /\ data \in Seq(Byte) /\ Len(data) = last /\ Within(r, data, 4)
  /\ number \in Seq(Byte) /\ FieldAt(number, data, 2, 4) /\ Uint16(number) = n

HeadBytes(head) == head = <<0, 1>>

(* Where the item of a passcode's reply is.                                 *)
LEMMA PasscodeDataIs ==
  ASSUME NEW head, HeadBytes(head), NEW number \in Seq(Byte), Len(number) = 2, NEW n, Uint16(number) = n,
         NEW item \in Seq(Byte), Len(item) \in Byte, NEW m1, Single(m1, Len(item)),
         NEW r, r = m1 \o item, NEW data, FourJoined(data, head, number, m1, item),
         NEW last \in Nat, last = 5 + Len(item)
  PROVE  PasscodeData(data, r, number, n, last)
<1>1. head \in Seq(Byte) /\ Len(head) = 2
  <2>1. 0 \in Byte /\ 1 \in Byte
    BY DEF Byte
  <2> QED BY <2>1, TwoBytes DEF HeadBytes
<1>2. m1 \in Seq(Byte) /\ Len(m1) = 1
  BY SingleIs
<1>3. PICK l \in Nat : l = Len(item)
  BY LengthIs
<1>4. PICK two \in Nat : two = 2
  OBVIOUS
<1>5. PICK four \in Nat : four = 4
  OBVIOUS
<1>6. PICK five \in Nat : five = 5
  OBVIOUS
<1>7. /\ two \in Nat /\ four \in Nat /\ five \in Nat /\ two = Len(head) /\ four = two + Len(number)
      /\ five = four + Len(m1) /\ last = five + Len(item)
  BY <1>1, <1>2, <1>3, <1>4, <1>5, <1>6
<1>8. FourFields(data, head, number, m1, item, two, four, five, last)
  BY <1>1, <1>2, <1>7, FourParts
<1>9. /\ data \in Seq(Byte) /\ Len(data) = last /\ FieldAt(number, data, two, four)
      /\ Within(m1, data, four) /\ Within(item, data, five)
  BY <1>8 DEF FourFields, FieldAt
<1>10. PICK one \in Nat : one = 1
  OBVIOUS
<1>11. PICK end \in Nat : end = one + Len(item)
  BY <1>3, <1>10
<1>12. one \in Nat /\ one = Len(m1) /\ end \in Nat /\ end = one + Len(item) /\ five = four + one
  BY <1>2, <1>5, <1>6, <1>10, <1>11
<1>13. MadeOf(r, m1, item, one, end)
  BY <1>2, <1>12, Parts
<1>14. Within(r, data, four)
  BY <1>2, <1>7, <1>9, <1>12, <1>13, SideBySide
<1> QED BY <1>4, <1>5, <1>9, <1>14 DEF PasscodeData

(* What is made of it.                                                     *)
PasscodeRes(c, type, trailer, n) ==
  IF Valid(type, trailer) THEN Returns([entry |-> Some(PasscodeMeant(c, type, trailer)), next |-> n])
  ELSE Raises("ValueError")

(* What the reader returns for m bytes of the data.                         *)
PasscodeCame(decoded, m, c, type, trailer, n, last) ==
  /\ m < 4 => decoded = Returns([entry |-> None, next |-> 0])
  /\ 4 <= m /\ m < 8 => decoded = Returns([entry |-> None, next |-> n])
  /\ 8 <= m /\ m < last => ~Returned(decoded)
  /\ m >= last => decoded = PasscodeRes(c, type, trailer, n)

(* What has come of a passcode's reply, by its length: the end of the list, *)
(* a page without an entry, a failure, or the passcode.                     *)
LEMMA PasscodeRead ==
  ASSUME NEW c \in Codes, NEW type, NEW trailer, TrailerFits(type, trailer),
         NEW place, NEW end \in Nat, NEW r, ItemData(r, type, c, trailer, place, end), 4 <= end,
         NEW number, NEW n, NEW last, last = 4 + end, NEW data, PasscodeData(data, r, number, n, last),
         NEW raw, NEW echo, NEW d, Opened(raw, echo, data, d), NEW m \in Nat, m = Len(d)
  PROVE  PasscodeCame(Passcode(raw), m, c, type, trailer, n, last)
<1> SUFFICES /\ m < 4 => Passcode(raw) = Returns([entry |-> None, next |-> 0])
             /\ 4 <= m /\ m < 8 => Passcode(raw) = Returns([entry |-> None, next |-> n])
             /\ 8 <= m /\ m < last => ~Returned(Passcode(raw))
             /\ m >= last => Passcode(raw) = PasscodeRes(c, type, trailer, n)
  BY Zenon DEF PasscodeCame
<1>1. /\ data \in Seq(Byte) /\ Len(data) = last /\ Within(r, data, 4)
      /\ number \in Seq(Byte) /\ FieldAt(number, data, 2, 4) /\ Uint16(number) = n
  BY DEF PasscodeData
<1>2. d \in Seq(Byte) /\ Agrees(d, data) /\ r \in Seq(Byte)
  BY DEF Opened, ItemData
<1>3. PICK e : e = Envelope(raw)
  OBVIOUS
<1>4. PICK item : item = From(d, 4)
  OBVIOUS
<1>5. Succeeds(e) /\ e.value.data = d
  BY <1>3, EnvelopeOf
<1>6. Passcode(raw) =
        IF m < 4 THEN Returns([entry |-> None, next |-> 0])
        ELSE IF Len(item) < 4 \/ At(item, 1) \notin DOMAIN TrailerLengths
             THEN Returns([entry |-> None, next |-> Uint16(Slice(d, 2, 4))])
        ELSE IF ~Returned(PasscodeItem(item)) THEN PasscodeItem(item)
        ELSE Returns([entry |-> PasscodeItem(item).value, next |-> Uint16(Slice(d, 2, 4))])
  BY <1>3, <1>4, <1>5, PasscodeIs, Zenon
<1>7. CASE m < 4
  <2>1. ~(4 <= m) /\ ~(8 <= m) /\ ~(m >= last)
    BY <1>7
  <2> QED BY <1>6, <1>7, <2>1
<1>8. CASE ~(m < 4)
  <2>1. 4 <= Len(d)
    BY <1>8
  <2>2. Slice(d, 2, 4) = number
    BY <1>1, <1>2, <2>1, FieldRead
  <2>3. PICK l \in Nat : l = m - 4
    BY <1>8
  <2>4. item \in Seq(Byte) /\ Len(item) = l /\ Agrees(item, r)
    <3>1. PICK four \in Nat : four = 4
      OBVIOUS
    <3>2. four \in Nat /\ four <= Len(d) /\ l \in Nat /\ l = Len(d) - four /\ item = From(d, four) /\ Within(r, data, four)
      BY <1>1, <1>4, <2>1, <2>3, <3>1
    <3>3. data \in Seq(Byte) /\ d \in Seq(Byte) /\ Agrees(d, data) /\ r \in Seq(Byte)
      BY <1>1, <1>2
    <3> QED BY <3>2, <3>3, FromAgrees
  <2>5. CASE m < 8
    <3>1. Len(item) < 4
      BY <2>3, <2>4, <2>5
    <3>2. Passcode(raw) = Returns([entry |-> None, next |-> n])
      BY <1>1, <1>6, <1>8, <2>2, <3>1
    <3>3. ~(8 <= m) /\ ~(m >= last)
      BY <2>5
    <3> QED BY <1>8, <3>2, <3>3
  <2>6. CASE ~(m < 8)
    <3>1. 4 <= Len(item) /\ ~(Len(item) < 4)
      BY <2>3, <2>4, <2>6
    <3>2. /\ At(item, 1) = type
          /\ Len(item) < end => ~Returned(PasscodeItem(item))
          /\ Len(item) >= end =>
               PasscodeItem(item) = IF Valid(type, trailer) THEN Returns(Some(PasscodeMeant(c, type, trailer)))
                                    ELSE Raises("ValueError")
      BY <2>4, <3>1, ItemRead
    <3>3. Passcode(raw) = IF ~Returned(PasscodeItem(item)) THEN PasscodeItem(item)
                          ELSE Returns([entry |-> PasscodeItem(item).value, next |-> n])
      BY <1>1, <1>6, <1>8, <2>2, <3>1, <3>2, Zenon DEF TrailerFits
    <3>4. CASE m < last
      <4>1. Len(item) < end /\ ~(m >= last)
        BY <2>3, <2>4, <3>4
      <4> QED BY <1>8, <2>6, <3>2, <3>3, <4>1
    <3>5. CASE ~(m < last)
      <4>1. Len(item) >= end
        BY <2>3, <2>4, <3>5
      <4>2. Passcode(raw) = PasscodeRes(c, type, trailer, n)
        BY <3>2, <3>3, <4>1 DEF PasscodeRes, Returned, Returns, Raises
      <4> QED BY <1>8, <2>6, <3>5, <4>2
    <3> QED BY <3>4, <3>5
  <2> QED BY <2>5, <2>6
<1> QED BY <1>7, <1>8

(* What is written of a passcode.                                          *)
LEMMA PasscodeWritten == kind = "passcode" => Whole = PasscodeReply(meant.entry[1], meant.next)
<1>1. ASSUME kind = "passcode" PROVE Whole = PasscodeReply(meant.entry[1], meant.next)
  BY <1>1, Zenon DEF Whole, Bytes
<1> QED BY <1>1

LEMMA PasscodeReplyIs ==
  ASSUME NEW entry, NEW next, NEW ty, Single(ty, entry.type), NEW text, TextBytes(text, entry.passcode),
         NEW mid, MiddleBytes(mid), NEW trailer, trailer = Trailer(entry),
         NEW item, FourJoined(item, ty, text, mid, trailer),
         NEW head, HeadBytes(head), NEW number, number = Padded(2, <<next>>),
         NEW m1, Single(m1, Len(item)), NEW data, FourJoined(data, head, number, m1, item)
  PROVE  PasscodeReply(entry, next) = Reply(data)
<1>1. Written("text", entry.passcode) = text
  BY Zenon DEF Written, TextBytes
<1>2. item = <<entry.type>> \o Written("text", entry.passcode) \o <<2, 55, 55>> \o Trailer(entry)
  BY <1>1, Zenon DEF FourJoined, Single, MiddleBytes
<1>3. data = <<0, 1>> \o Padded(2, <<next>>) \o <<Len(item)>> \o item
  BY Zenon DEF FourJoined, HeadBytes, Single
<1> QED BY <1>2, <1>3, Zenon DEF PasscodeReply

(* What a passcode is understood as, and what may become of it.             *)
LEMMA PasscodeMeans ==
  ASSUME NEW c, NEW type, NEW trailer, NEW n, kind = "passcode",
         meant = [entry |-> Some(PasscodeMeant(c, type, trailer)), next |-> n]
  PROVE  /\ Understood = meant
         /\ Sayable <=> Valid(type, trailer)
         /\ meant.entry[1] = PasscodeMeant(c, type, trailer) /\ meant.next = n
         /\ PasscodeMeant(c, type, trailer).type = type /\ PasscodeMeant(c, type, trailer).passcode = c
         /\ kind \notin RequestKinds /\ kind # "page"
         /\ \A f : Withstands(f, meant[f])
         /\ \A f \in DOMAIN meant : f = "entry" \/ f = "next"
         /\ \A f : SentOrMissing(f, meant[f])
         /\ SentOrMissing("entry", None)
         /\ SentOrMissing("next", 0)
<1>1. Understood = meant
  BY DEF Understood
<1>2. meant.entry[1] = PasscodeMeant(c, type, trailer) /\ meant.next = n
  BY DEF Some
<1>3. /\ PasscodeMeant(c, type, trailer).type = type /\ PasscodeMeant(c, type, trailer).passcode = c
      /\ PasscodeMeant(c, type, trailer).dates = Dates(type, trailer)
  BY DEF PasscodeMeant, Entered
<1>4. Sayable <=> \A i \in DOMAIN meant.entry[1].dates : IsDate(meant.entry[1].dates[i])
  BY DEF Sayable
<1>5. Sayable <=> Valid(type, trailer)
  BY <1>2, <1>3, <1>4 DEF Valid
<1>6. kind \notin RequestKinds /\ kind # "page"
  BY DEF RequestKinds
<1>7. \A f : Withstands(f, meant[f])
  BY <1>1 DEF Withstands
<1>8. \A f \in DOMAIN meant : f = "entry" \/ f = "next"
  OBVIOUS
<1>9. \A f : SentOrMissing(f, meant[f])
  <2>1. ASSUME NEW f PROVE SentOrMissing(f, meant[f])
    <3>1. CASE f = "next"
      BY <1>1, <3>1 DEF SentOrMissing
    <3>2. CASE f # "next"
      BY <1>1, <3>2 DEF SentOrMissing
    <3> QED BY <3>1, <3>2
  <2> QED BY <2>1
<1>10. SentOrMissing("entry", None)
  BY DEF SentOrMissing, MayLack
<1>11. SentOrMissing("next", 0)
  BY DEF SentOrMissing
<1> QED BY <1>1, <1>2, <1>3, <1>5, <1>6, <1>7, <1>8, <1>9, <1>10, <1>11

(* The cut clause of a passcode.                                           *)
LEMMA PasscodeCut ==
  ASSUME NEW c, NEW type, NEW trailer, NEW n, kind = "passcode",
         meant = [entry |-> Some(PasscodeMeant(c, type, trailer)), next |-> n],
         NEW next, next \in {0, n}, NEW decoded, decoded = Returns([entry |-> None, next |-> next])
  PROVE  CutClause(decoded)
<1>1. decoded.value.entry = None /\ decoded.value.next = next
  BY DEF Returns
<1>2. meant.next = n
  BY PasscodeMeans
<1>3. SentOrMissing("entry", decoded.value["entry"])
  BY <1>1, PasscodeMeans
<1>4. SentOrMissing("next", decoded.value["next"])
  BY <1>1, <1>2, PasscodeMeans
<1> QED BY <1>3, <1>4, PasscodeMeans DEF CutClause

(* The properties of a passcode of any type, given its trailer.             *)
LEMMA EntryKept ==
  ASSUME IInv, kind = "passcode", NEW c \in Codes, NEW type \in Byte, NEW trailer, TrailerFits(type, trailer),
         NEW n \in Byte, meant = [entry |-> Some(PasscodeMeant(c, type, trailer)), next |-> n],
         Trailer(PasscodeMeant(c, type, trailer)) = trailer
  PROVE  Kept
<1>1. c \in Seq(Byte) /\ Len(c) \in Nat
  BY CodesAre, LengthIs
<1>2. trailer \in Seq(Byte) /\ Len(trailer) \in Nat
  BY LengthIs DEF TrailerFits
<1>3. PICK ty : Single(ty, type)
  BY DEF Single
<1>4. PICK text : TextBytes(text, c)
  BY DEF TextBytes
<1>5. PICK mid : MiddleBytes(mid)
  BY DEF MiddleBytes
<1>6. PICK item : FourJoined(item, ty, text, mid, trailer)
  BY DEF FourJoined
<1>7. PICK m1 : Single(m1, Len(item))
  BY DEF Single
<1>8. PICK r : r = m1 \o item
  OBVIOUS
<1>9. PICK place \in Nat : place = 3 + Len(c)
  BY <1>1
<1>10. PICK end \in Nat : end = place + 3 + Len(trailer)
  BY <1>2, <1>9
<1>11. /\ ItemData(r, type, c, trailer, place, end) /\ item \in Seq(Byte) /\ Len(item) \in Byte /\ 4 <= end
  BY <1>3, <1>4, <1>5, <1>6, <1>7, <1>8, <1>9, <1>10, ItemWritten
<1>12. PICK number : number = Padded(2, <<n>>)
  OBVIOUS
<1>13. number \in Seq(Byte) /\ Len(number) = 2 /\ Uint16(number) = n
  BY <1>12, SmallPadded
<1>14. PICK head : HeadBytes(head)
  BY DEF HeadBytes
<1>15. PICK data : FourJoined(data, head, number, m1, item)
  BY DEF FourJoined
<1>16. PICK last \in Nat : last = 5 + Len(item)
  BY <1>11, LengthIs
<1>17. PasscodeData(data, r, number, n, last)
  BY <1>7, <1>8, <1>11, <1>13, <1>14, <1>15, <1>16, PasscodeDataIs
<1>18. last = 4 + end
  <2>1. Len(r) = end /\ r \in Seq(Byte)
    BY <1>11 DEF ItemData
  <2>2. m1 \in Seq(Byte) /\ Len(m1) = 1
    BY <1>7, <1>11, SingleIs
  <2>3. Len(r) = 1 + Len(item) /\ Len(item) \in Nat
    <3>1. Len(r) = Len(m1) + Len(item)
      BY <1>8, <1>11, <2>2, Joined
    <3>2. Len(item) \in Nat
      BY <1>11, LengthIs
    <3> QED BY <2>2, <3>1, <3>2
  <2> QED BY <1>16, <2>1, <2>3
<1>19. data \in Seq(Byte) /\ Len(data) = last
  BY <1>17 DEF PasscodeData
<1>20. IsReply(Whole, 0, data)
  <2>1. PICK entry : entry = PasscodeMeant(c, type, trailer)
    OBVIOUS
  <2>2. entry.type = type /\ entry.passcode = c /\ meant.entry[1] = entry /\ meant.next = n /\ trailer = Trailer(entry)
    BY <2>1, PasscodeMeans
  <2>3. PasscodeReply(entry, n) = Reply(data)
    <3>1. Single(ty, entry.type) /\ TextBytes(text, entry.passcode)
      BY <1>3, <1>4, <2>2
    <3> QED BY <1>5, <1>6, <1>7, <1>12, <1>14, <1>15, <2>2, <3>1, PasscodeReplyIs
  <2>4. Whole = Reply(data)
    BY <2>2, <2>3, PasscodeWritten
  <2> QED BY <2>4 DEF Reply, IsReply, Byte
<1>21. PICK decoded : decoded = Decode(wire)
  OBVIOUS
<1>22. decoded = Passcode(wire)
  BY <1>21, Decoders
<1>23. TooShort(wire) => ~Returned(decoded)
  <2>1. PICK e : e = Envelope(wire)
    OBVIOUS
  <2> QED BY <1>22, <2>1, NoEnvelope, PasscodeIs
<1>24. form.how = "refused" => RefusedClause(decoded)
  <2>1. PICK e : e = Envelope(wire)
    OBVIOUS
  <2>2. form.how = "refused" => ~Returned(decoded)
    BY <1>22, <2>1, RefusedRaises, ReadKinds, PasscodeIs
  <2> QED BY <2>2 DEF RefusedClause
<1>25. ASSUME NEW d, NEW how, Opened(wire, 0, data, d), Came(how, d, data), NEW m, m = Len(d)
       PROVE  /\ m \in Nat
              /\ m < 4 => decoded = Returns([entry |-> None, next |-> 0])
              /\ 4 <= m /\ m < 8 => decoded = Returns([entry |-> None, next |-> n])
              /\ 8 <= m /\ m < last => ~Returned(decoded)
              /\ m >= last => decoded = PasscodeRes(c, type, trailer, n)
  <2>1. m \in Nat
    BY <1>25 DEF Came
  <2>2. /\ m < 4 => Passcode(wire) = Returns([entry |-> None, next |-> 0])
        /\ 4 <= m /\ m < 8 => Passcode(wire) = Returns([entry |-> None, next |-> n])
        /\ 8 <= m /\ m < last => ~Returned(Passcode(wire))
        /\ m >= last => Passcode(wire) = PasscodeRes(c, type, trailer, n)
    <3>1. ItemData(r, type, c, trailer, place, end) /\ 4 <= end /\ end \in Nat
      BY <1>11
    <3>2. PasscodeData(data, r, number, n, last) /\ last = 4 + end
      BY <1>17, <1>18
    <3>3. Opened(wire, 0, data, d) /\ m \in Nat /\ m = Len(d)
      BY <1>25, <2>1
    <3>4. PasscodeCame(Passcode(wire), m, c, type, trailer, n, last)
      BY <3>1, <3>2, <3>3, PasscodeRead, Zenon
    <3> QED BY <3>4 DEF PasscodeCame
  <2> QED BY <1>22, <2>1, <2>2
<1>26. /\ Returned(PasscodeRes(c, type, trailer, n)) <=> Valid(type, trailer)
       /\ Returned(PasscodeRes(c, type, trailer, n)) => PasscodeRes(c, type, trailer, n).value = meant
  BY DEF PasscodeRes, Returned, Returns, Raises
<1>27. ASSUME NEW d, Opened(wire, 0, data, d), Came("whole", d, data) PROVE WholeClause(decoded)
  <2>1. Len(d) = last
    BY <1>19, <1>27 DEF Came
  <2>2. decoded = PasscodeRes(c, type, trailer, n)
    BY <1>16, <1>25, <1>27, <2>1
  <2> QED BY <1>26, <2>2, PasscodeMeans DEF WholeClause
<1>28. ASSUME NEW d, Opened(wire, 0, data, d), Came("extended", d, data) PROVE ExtendedClause(decoded)
  <2>1. Len(d) > last /\ Len(d) \in Nat
    BY <1>19, <1>28 DEF Came
  <2>2. Len(d) >= last
    BY <1>16, <2>1
  <2>3. decoded = PasscodeRes(c, type, trailer, n)
    BY <1>25, <1>28, <2>2
  <2> QED BY <1>26, <2>3, PasscodeMeans DEF ExtendedClause
<1>29. ASSUME NEW d, Opened(wire, 0, data, d), Came("cut", d, data) PROVE CutClause(decoded)
  <2>1. Len(d) < last
    BY <1>19, <1>29 DEF Came
  <2>2. PICK m \in Nat : m = Len(d) /\ m < last
    BY <1>25, <1>29, <2>1
  <2>3. CASE m < 4
    <3>1. decoded = Returns([entry |-> None, next |-> 0])
      BY <1>25, <1>29, <2>2, <2>3
    <3> QED BY <3>1, PasscodeCut
  <2>4. CASE 4 <= m /\ m < 8
    <3>1. decoded = Returns([entry |-> None, next |-> n])
      BY <1>25, <1>29, <2>2, <2>4
    <3> QED BY <3>1, PasscodeCut
  <2>5. CASE 8 <= m
    <3>1. ~Returned(decoded)
      BY <1>25, <1>29, <2>2, <2>5
    <3> QED BY <3>1 DEF CutClause
  <2> QED BY <2>2, <2>3, <2>4, <2>5
<1>30. kind \notin RequestKinds /\ kind # "page"
  BY DEF RequestKinds
<1> QED BY <1>19, <1>20, <1>21, <1>23, <1>24, <1>27, <1>28, <1>29, <1>30, ReplyKept

(* The three kinds of trailer.                                             *)
LEMMA TrailersAre ==
  /\ TrailerLengths[PERMANENT] = 5 /\ TrailerLengths[PERIOD] = 10 /\ TrailerLengths[CIRCLE] = 7
  /\ {PERMANENT, PERIOD, CIRCLE} = DOMAIN TrailerLengths
  /\ PERMANENT \in Byte /\ PERIOD \in Byte /\ CIRCLE \in Byte
  /\ PERMANENT # CIRCLE /\ PERIOD # CIRCLE /\ PERMANENT # PERIOD
<1>1. PERMANENT \in Byte /\ PERIOD \in Byte /\ CIRCLE \in Byte
  BY DEF PERMANENT, PERIOD, CIRCLE, Byte
<1>2. PERMANENT # CIRCLE /\ PERIOD # CIRCLE /\ PERMANENT # PERIOD
  BY DEF PERMANENT, PERIOD, CIRCLE
<1> QED BY <1>1, <1>2, TypesAre

LEMMA DatesAre ==
  ASSUME NEW trailer
  PROVE  /\ Dates(PERMANENT, trailer) = <<Slice(trailer, 0, 5)>>
         /\ Dates(PERIOD, trailer) = <<Slice(trailer, 0, 5), Slice(trailer, 5, 10)>>
         /\ Dates(CIRCLE, trailer) = <<>>
<1>1. PERMANENT # CIRCLE /\ PERIOD # CIRCLE /\ PERMANENT # PERIOD
  BY TrailersAre
<1> QED BY <1>1, Zenon DEF Dates

(* A permanent passcode.                                                    *)
LEMMA LastingMeans ==
  ASSUME NEW c, NEW d \in Days
  PROVE  /\ Lasting(c, d) = PasscodeMeant(c, PERMANENT, d)
         /\ TrailerFits(PERMANENT, d)
         /\ Trailer(Lasting(c, d)) = d
<1>1. d \in Seq(Byte) /\ Len(d) = 5
  BY DaysAre
<1>2. Slice(d, 0, 5) = d
  BY <1>1, SliceOfAll
<1>3. PERMANENT # CIRCLE
  BY TrailersAre
<1>4. PasscodeMeant(c, PERMANENT, d) = Entered(c, PERMANENT, <<d>>, None)
  BY <1>2, <1>3, DatesAre, Zenon DEF PasscodeMeant
<1>5. Lasting(c, d) = PasscodeMeant(c, PERMANENT, d)
  BY <1>4, Zenon DEF Lasting
<1>6. TrailerFits(PERMANENT, d)
  BY <1>1, TrailersAre DEF TrailerFits
<1>7. Lasting(c, d).type = PERMANENT /\ Lasting(c, d).dates[1] = d
  BY DEF Lasting, Entered
<1>8. Trailer(Lasting(c, d)) = d
  BY <1>3, <1>7, Zenon DEF Trailer
<1> QED BY <1>5, <1>6, <1>8

JoinedAs(t, d, e) == t = d \o e

(* A passcode with a window.                                                *)
LEMMA BetweenMeans ==
  ASSUME NEW c, NEW d \in Days, NEW e \in Days, NEW t, JoinedAs(t, d, e)
  PROVE  /\ Between(c, d, e) = PasscodeMeant(c, PERIOD, t)
         /\ TrailerFits(PERIOD, t)
         /\ Trailer(Between(c, d, e)) = t
<1>1. d \in Seq(Byte) /\ Len(d) = 5 /\ e \in Seq(Byte) /\ Len(e) = 5
  BY DaysAre
<1>2. PICK p \in Nat : p = 5
  OBVIOUS
<1>3. PICK n \in Nat : n = 10
  OBVIOUS
<1>4. p = Len(d) /\ n = p + Len(e) /\ n = p + p
  BY <1>1, <1>2, <1>3
<1>5. MadeOf(t, d, e, p, n)
  <2>1. t = d \o e
    BY DEF JoinedAs
  <2> QED BY <1>1, <1>2, <1>3, <1>4, <2>1, Parts
<1>6. t \in Seq(Byte) /\ Len(t) = n /\ Within(d, t, 0) /\ Within(e, t, p)
  BY <1>5 DEF MadeOf
<1>7. Slice(t, 0, p) = d
  <2>1. PICK z \in Nat : z = 0
    OBVIOUS
  <2>2. z \in Nat /\ Within(d, t, z) /\ p = z + Len(d)
    BY <1>2, <1>4, <1>6, <2>1
  <2>3. Slice(t, z, p) = d
    <3>1. t \in Seq(Byte) /\ d \in Seq(Byte)
      BY <1>1, <1>6
    <3> QED BY <2>2, <3>1, SliceIsBody
  <2> QED BY <2>1, <2>3
<1>8. Slice(t, p, n) = e
  <2>1. t \in Seq(Byte) /\ e \in Seq(Byte) /\ p \in Nat /\ Within(e, t, p) /\ n = p + Len(e)
    BY <1>1, <1>2, <1>4, <1>6
  <2> QED BY <2>1, SliceIsBody
<1>9. PERIOD # CIRCLE /\ PERIOD # PERMANENT
  BY TrailersAre
<1>10. Slice(t, 0, 5) = d /\ Slice(t, 5, 10) = e
  BY <1>2, <1>3, <1>7, <1>8
<1>11. PasscodeMeant(c, PERIOD, t) = Entered(c, PERIOD, <<d, e>>, None)
  BY <1>9, <1>10, DatesAre, Zenon DEF PasscodeMeant
<1>12. Between(c, d, e) = PasscodeMeant(c, PERIOD, t)
  BY <1>11, Zenon DEF Between
<1>13. TrailerFits(PERIOD, t)
  BY <1>3, <1>6, TrailersAre DEF TrailerFits
<1>14. Between(c, d, e).type = PERIOD /\ Between(c, d, e).dates[1] = d /\ Between(c, d, e).dates[2] = e
  BY DEF Between, Entered
<1>15. Trailer(Between(c, d, e)) = t
  BY <1>9, <1>14, Zenon DEF Trailer, JoinedAs
<1> QED BY <1>12, <1>13, <1>15

(* The trailer of a weekly passcode.                                        *)
WeekBytes(t, hour, low) == t = <<0, 1, 1, hour, 0, 3, low>>

LEMMA WeekIs ==
  ASSUME NEW hour \in Byte, NEW low \in Byte, NEW t, WeekBytes(t, hour, low)
  PROVE  /\ t \in Seq(Byte) /\ Len(t) = 7
         /\ At(t, 3) = hour /\ At(t, 4) = 0 /\ At(t, 6) = low
<1>1. 0 \in Byte /\ 1 \in Byte /\ 3 \in Byte
  BY DEF Byte
<1> QED BY <1>1 DEF WeekBytes, At

LEMMA SelectorsAre ==
  ASSUME NEW s \in Selectors, NEW d \in {1, 2, 24}
  PROVE  /\ s \in Nat /\ d \in Nat
         /\ s + d - 1 \in Byte /\ s + d - 1 \in Nat /\ s <= s + d - 1 /\ s + d - 1 < s + 24
         /\ 1 <= d /\ d <= 24
<1>1. d \in {1, 2, 24} /\ s \in Selectors
  OBVIOUS
<1>2. s \in Nat /\ s <= 232
  BY DEF Selectors
<1>3. d \in Nat /\ 1 <= d /\ d <= 24
  OBVIOUS
<1>4. s + d - 1 <= 255 /\ 0 <= s + d - 1 /\ s + d - 1 \in Nat /\ s <= s + d - 1 /\ s + d - 1 < s + 24
  BY <1>2, <1>3
<1> QED BY <1>2, <1>3, <1>4 DEF Byte

ScheduleOf(s, h, m, d) == [selector |-> s, startHour |-> h, startMinute |-> m, duration |-> d]

LowOf(low, s, d) == low = s + d - 1

(* A weekly passcode: the low byte of the trailer gives both its selector   *)
(* and its duration back.                                                   *)
LEMMA WeeklyMeans ==
  ASSUME NEW c, NEW s \in Selectors, NEW h \in {0, 23}, NEW d \in {1, 2, 24},
         NEW low, LowOf(low, s, d), NEW t, WeekBytes(t, h, low)
  PROVE  /\ Weekly(c, s, h, d) = PasscodeMeant(c, CIRCLE, t)
         /\ TrailerFits(CIRCLE, t)
         /\ Trailer(Weekly(c, s, h, d)) = t
<1>1. h \in Byte
  BY DEF Byte
<1>2. low \in Byte /\ low \in Nat /\ s <= low /\ low < s + 24 /\ low - s + 1 = d
  <2>1. s \in Nat /\ d \in Nat /\ s + d - 1 \in Byte /\ d <= 24 /\ 1 <= d
    BY SelectorsAre
  <2>2. low = s + d - 1
    BY DEF LowOf
  <2>3. low \in Byte
    BY <2>1, <2>2
  <2> QED BY <2>1, <2>2, <2>3
<1>3. t \in Seq(Byte) /\ Len(t) = 7 /\ At(t, 3) = h /\ At(t, 4) = 0 /\ At(t, 6) = low
  BY <1>1, <1>2, WeekIs
<1>4. Selector(low) = s
  BY <1>2, SelectorIs
<1>5. Schedule(t) = ScheduleOf(s, h, 0, d)
  <2>1. Schedule(t) = ScheduleOf(Selector(low), h, 0, low - Selector(low) + 1)
    BY <1>3, Zenon DEF Schedule, ScheduleOf
  <2> QED BY <1>2, <1>4, <2>1
<1>6. PasscodeMeant(c, CIRCLE, t) = Entered(c, CIRCLE, <<>>, Some(ScheduleOf(s, h, 0, d)))
  BY <1>5, DatesAre, Zenon DEF PasscodeMeant
<1>7. Weekly(c, s, h, d) = PasscodeMeant(c, CIRCLE, t)
  BY <1>6, Zenon DEF Weekly, ScheduleOf
<1>8. TrailerFits(CIRCLE, t)
  BY <1>3, TrailersAre DEF TrailerFits
<1>9. Weekly(c, s, h, d).type = CIRCLE /\ Weekly(c, s, h, d).schedule[1] = ScheduleOf(s, h, 0, d)
  BY DEF Weekly, Entered, ScheduleOf, Some
<1>10. /\ ScheduleOf(s, h, 0, d).selector = s /\ ScheduleOf(s, h, 0, d).startHour = h
       /\ ScheduleOf(s, h, 0, d).startMinute = 0 /\ ScheduleOf(s, h, 0, d).duration = d
  BY DEF ScheduleOf
<1>11. Trailer(Weekly(c, s, h, d)) = t
  BY <1>9, <1>10, Zenon DEF Trailer, WeekBytes, LowOf
<1> QED BY <1>7, <1>8, <1>11

(* The three properties hold of a passcode, in every form and once it was   *)
(* read.                                                                    *)
LEMMA PasscodeKept == IInv /\ kind = "passcode" => Kept
<1> SUFFICES ASSUME IInv, kind = "passcode" PROVE Kept
  OBVIOUS
<1>1. 0 \in Byte /\ 9 \in Byte
  BY DEF Byte
<1>2. ASSUME NEW c \in Codes, NEW d \in Days, NEW n \in {0, 9}, meant = [entry |-> Some(Lasting(c, d)), next |-> n]
      PROVE  Kept
  <2>1. n \in Byte
    BY <1>1
  <2>2. meant = [entry |-> Some(PasscodeMeant(c, PERMANENT, d)), next |-> n]
    BY <1>2, LastingMeans, Zenon
  <2>3. TrailerFits(PERMANENT, d) /\ Trailer(PasscodeMeant(c, PERMANENT, d)) = d
    BY LastingMeans
  <2> QED BY <2>1, <2>2, <2>3, TrailersAre, EntryKept
<1>3. ASSUME NEW c \in Codes, NEW d \in Days, NEW e \in Days, NEW n \in {0, 9},
             meant = [entry |-> Some(Between(c, d, e)), next |-> n]
      PROVE  Kept
  <2>1. n \in Byte
    BY <1>1
  <2>2. PICK t : JoinedAs(t, d, e)
    BY DEF JoinedAs
  <2>3. meant = [entry |-> Some(PasscodeMeant(c, PERIOD, t)), next |-> n]
    <3>1. Between(c, d, e) = PasscodeMeant(c, PERIOD, t)
      BY <2>2, BetweenMeans
    <3> QED BY <1>3, <3>1, Zenon
  <2>4. TrailerFits(PERIOD, t) /\ Trailer(PasscodeMeant(c, PERIOD, t)) = t
    BY <2>2, BetweenMeans
  <2> QED BY <2>1, <2>3, <2>4, TrailersAre, EntryKept
<1>4. ASSUME NEW c \in Codes, NEW s \in Selectors, NEW h \in {0, 23}, NEW d \in {1, 2, 24},
             meant = [entry |-> Some(Weekly(c, s, h, d)), next |-> 9]
      PROVE  Kept
  <2>1. PICK n \in Byte : n = 9
    BY <1>1
  <2>2. PICK low : LowOf(low, s, d)
    BY DEF LowOf
  <2>3. PICK t : WeekBytes(t, h, low)
    BY Zenon DEF WeekBytes
  <2>4. meant = [entry |-> Some(PasscodeMeant(c, CIRCLE, t)), next |-> n]
    <3>1. Weekly(c, s, h, d) = PasscodeMeant(c, CIRCLE, t)
      BY <2>2, <2>3, WeeklyMeans
    <3> QED BY <1>4, <2>1, <3>1, Zenon
  <2>5. TrailerFits(CIRCLE, t) /\ Trailer(PasscodeMeant(c, CIRCLE, t)) = t
    BY <2>2, <2>3, WeeklyMeans
  <2> QED BY <2>4, <2>5, TrailersAre, EntryKept
<1>5. message \in Credentials
  BY GroupOf DEF IInv, CredentialKinds
<1> QED BY <1>2, <1>3, <1>4, <1>5, CredentialsSay

----------------------------------------------------------------------------
(* Frames.                                                                  *)

(* Frame.build and Frame.parse.                                             *)
(* A frame with every number in its field.                                 *)
WireFrame ==
  [protocol : Byte, version : Byte, scene : Byte, group : Field16, org : Field16,
   command : Byte, encrypt : Byte, data : Seq(Byte)]

(* With data whose length has a byte, and not encrypted further.            *)
Fitting(f) == f \in WireFrame /\ Len(f.data) <= 255 /\ f.encrypt = ENCRYPT_PLAIN

(* A number of two bytes is made up of them again.                          *)
LEMMA WordIsTwoBytes ==
  ASSUME NEW n \in Field16
  PROVE  /\ Word(n) \in Seq(Byte) /\ Len(Word(n)) = 2
         /\ 256 * Word(n)[1] + Word(n)[2] = n
<1>1. n \in Int /\ n >= 0 /\ n <= 65535
  BY DEF Field16
<1>2. n \div 256 \in Byte /\ n % 256 \in Byte
  BY <1>1 DEF Byte
<1>3. 256 * (n \div 256) + (n % 256) = n
  BY <1>1, Z3
<1>4. (n \div 256) % 256 = n \div 256
  BY <1>2 DEF Byte
<1>5. Word(n) = <<n \div 256, n % 256>>
  BY <1>4 DEF Word, Low
<1> QED
  BY <1>2, <1>3, <1>5

(* A number up to 255 is a byte.                                            *)
LEMMA SmallIsByte ==
  ASSUME NEW n \in Nat, n <= 255
  PROVE  n \in Byte
  BY DEF Byte

(* The fields of a frame, and that none of them is cut to a byte.           *)
LEMMA FieldsFit ==
  ASSUME NEW f, Fitting(f)
  PROVE  /\ f.protocol \in Byte /\ f.version \in Byte /\ f.scene \in Byte
         /\ f.group \in Field16 /\ f.org \in Field16
         /\ f.command \in Byte /\ f.encrypt \in Byte
         /\ f.data \in Seq(Byte) /\ Len(f.data) \in Byte
         /\ \A b \in Byte : Low(b) = b
<1>1. f.data \in Seq(Byte) /\ Len(f.data) <= 255
  BY DEF Fitting, WireFrame
<1>2. Len(f.data) \in Byte
  <2>1. Len(f.data) \in Nat
    BY <1>1
  <2>2. Len(f.data) <= 255
    BY <1>1
  <2> QED
    BY <2>1, <2>2, SmallIsByte
<1>3. \A b \in Byte : Low(b) = b
  BY DEF Byte, Low
<1>4. /\ f.protocol \in Byte /\ f.version \in Byte /\ f.scene \in Byte
      /\ f.group \in Field16 /\ f.org \in Field16
      /\ f.command \in Byte /\ f.encrypt \in Byte
  BY DEF Fitting, WireFrame
<1> QED
  BY <1>1, <1>2, <1>3, <1>4

(* The bytes of a short tuple.                                             *)
LEMMA Tuples ==
  ASSUME NEW a \in Byte, NEW b \in Byte, NEW c \in Byte
  PROVE  /\ <<a>> \in Seq(Byte) /\ Len(<<a>>) = 1 /\ <<a>>[1] = a
         /\ <<a, b, c>> \in Seq(Byte) /\ Len(<<a, b, c>>) = 3
         /\ <<a, b, c>>[1] = a /\ <<a, b, c>>[2] = b /\ <<a, b, c>>[3] = c
  OBVIOUS

(* The header and the trailer of a frame.                                   *)
LEMMA FrameEnds ==
  /\ HEADER \in Seq(Byte) /\ Len(HEADER) = 2 /\ HEADER[1] = 127 /\ HEADER[2] = 90
  /\ TRAILER \in Seq(Byte) /\ Len(TRAILER) = 2
  BY DEF Byte, HEADER, TRAILER

(* Behind a header: the data, the CRC and the trailer.                      *)
BehindHead(head, data, whole) ==
  /\ whole \in Seq(Byte) /\ Len(whole) = Len(head) + Len(data) + 3
  /\ \A i \in 1..Len(head) : whole[i] = head[i]
  /\ \A i \in 1..Len(data) : whole[Len(head) + i] = data[i]

(* What is behind the header of a frame that was built.                     *)
LEMMA BehindTheHeader ==
  ASSUME NEW head \in Seq(Byte), NEW data \in Seq(Byte), NEW crc \in Byte,
         NEW whole, whole = head \o data \o <<crc>> \o TRAILER
  PROVE  BehindHead(head, data, whole)
<1>1. /\ <<crc>> \in Seq(Byte) /\ Len(<<crc>>) = 1
      /\ TRAILER \in Seq(Byte) /\ Len(TRAILER) = 2
  BY Tuples, FrameEnds
<1> DEFINE one == head \o data
           two == one \o <<crc>>
           raw == two \o TRAILER
<1>2. /\ one \in Seq(Byte) /\ Len(one) = Len(head) + Len(data)
      /\ \A i \in 1..Len(head) : one[i] = head[i]
      /\ \A i \in 1..Len(data) : one[Len(head) + i] = data[i]
  BY Joined
<1> HIDE DEF one
<1>3. /\ two \in Seq(Byte) /\ Len(two) = Len(one) + 1
      /\ \A i \in 1..Len(one) : two[i] = one[i]
  BY <1>1, <1>2, Joined
<1> HIDE DEF two
<1>4. /\ raw \in Seq(Byte) /\ Len(raw) = Len(two) + 2
      /\ \A i \in 1..Len(two) : raw[i] = two[i]
  <2>1. two \in Seq(Byte) /\ TRAILER \in Seq(Byte)
    BY <1>1, <1>3
  <2>2. /\ raw \in Seq(Byte) /\ Len(raw) = Len(two) + Len(TRAILER)
        /\ \A i \in 1..Len(two) : raw[i] = two[i]
    BY <2>1, Joined
  <2> QED
    BY <1>1, <2>2
<1> HIDE DEF raw
<1>5. Len(head) \in Nat /\ Len(data) \in Nat
  OBVIOUS
<1>6. whole = raw
  BY DEF raw, two, one
<1>7. Len(raw) = Len(head) + Len(data) + 3
  BY <1>2, <1>3, <1>4, <1>5
<1>8. \A i \in 1..Len(one) : raw[i] = one[i]
  BY <1>2, <1>3, <1>4, <1>5
<1>9. \A i \in 1..Len(head) : raw[i] = head[i]
  BY <1>2, <1>5, <1>8
<1>10. \A i \in 1..Len(data) : raw[Len(head) + i] = data[i]
  BY <1>2, <1>5, <1>8
<1> QED
  BY <1>4, <1>7, <1>9, <1>10, <1>6, Zenon DEF BehindHead

(* What SubSeq takes from the middle of a sequence.                         *)
LEMMA SubSeqAt ==
  ASSUME NEW S, NEW s \in Seq(S), NEW a \in Nat, NEW n \in Nat, a + n <= Len(s)
  PROVE  /\ SubSeq(s, a + 1, a + n) \in Seq(S) /\ Len(SubSeq(s, a + 1, a + n)) = n
         /\ \A k \in 1..n : SubSeq(s, a + 1, a + n)[k] = s[a + k]
  OBVIOUS

(* The slice of the data.                                                  *)
LEMMA SliceOfData ==
  ASSUME NEW raw \in Seq(Byte), NEW data \in Seq(Byte), NEW n \in Nat,
         n + Len(data) <= Len(raw),
         \A i \in 1..Len(data) : raw[n + i] = data[i]
  PROVE  Slice(raw, n, n + Len(data)) = data
<1> DEFINE slice == SubSeq(raw, n + 1, n + Len(data))
<1>1. Slice(raw, n, n + Len(data)) = slice
  BY DEF Slice
<1>2. Len(data) \in Nat
  OBVIOUS
<1>3. /\ slice \in Seq(Byte) /\ Len(slice) = Len(data)
      /\ \A i \in 1..Len(data) : slice[i] = raw[n + i]
  BY <1>2, SubSeqAt
<1> HIDE DEF slice
<1>4. slice \in Seq(Byte) /\ Len(slice) = Len(data)
  BY <1>3
<1>5. \A i \in 1..Len(slice) : slice[i] = data[i]
  BY <1>3
<1>6. slice = data
  BY <1>4, <1>5, SeqEqual
<1> QED
  BY <1>1, <1>6

(* A header that starts a sequence of bytes is what its slice shows.        *)
LEMMA SliceOfHeader ==
  ASSUME NEW raw \in Seq(Byte), Len(raw) >= 2, raw[1] = 127, raw[2] = 90
  PROVE  Slice(raw, 0, 2) = HEADER
<1> DEFINE n == 0
           header == HEADER
<1>1. n \in Nat /\ header \in Seq(Byte) /\ n + Len(header) = 2
  BY FrameEnds
<1>2. n + Len(header) <= Len(raw)
  BY <1>1
<1>3. \A i \in 1..Len(header) : raw[n + i] = header[i]
  BY FrameEnds
<1> HIDE DEF n, header
<1>4. Slice(raw, n, n + Len(header)) = header
  BY <1>1, <1>2, <1>3, SliceOfData
<1>5. Slice(raw, n, 2) = header
  BY <1>1, <1>4, Zenon
<1> QED
  BY <1>5 DEF n, header

(* The header of a frame of protocol type 5 or later.                       *)
V3Head(f) ==
  HEADER \o <<Low(f.protocol), Low(f.version), Low(f.scene)>>
         \o Word(f.group) \o Word(f.org)
         \o <<Low(f.command), Low(f.encrypt), Low(Len(f.data))>>

(* Every byte of the header of a V3 frame.                                  *)
LEMMA V3HeadBytes ==
  ASSUME NEW f, Fitting(f)
  PROVE  LET head == V3Head(f)
         IN  /\ head \in Seq(Byte) /\ Len(head) = 12
             /\ head[1] = 127 /\ head[2] = 90 /\ head[3] = f.protocol
             /\ head[4] = f.version /\ head[5] = f.scene
             /\ 256 * head[6] + head[7] = f.group /\ 256 * head[8] + head[9] = f.org
             /\ head[10] = f.command /\ head[11] = f.encrypt /\ head[12] = Len(f.data)
<1> DEFINE version == <<f.protocol, f.version, f.scene>>
           rest == <<f.command, f.encrypt, Len(f.data)>>
<1>1. /\ version \in Seq(Byte) /\ Len(version) = 3
      /\ version[1] = f.protocol /\ version[2] = f.version /\ version[3] = f.scene
      /\ rest \in Seq(Byte) /\ Len(rest) = 3
      /\ rest[1] = f.command /\ rest[2] = f.encrypt /\ rest[3] = Len(f.data)
      /\ HEADER \in Seq(Byte) /\ Len(HEADER) = 2 /\ HEADER[1] = 127 /\ HEADER[2] = 90
  BY FieldsFit, Tuples, FrameEnds
<1> DEFINE group == Word(f.group)
           org == Word(f.org)
<1>2. /\ group \in Seq(Byte) /\ Len(group) = 2 /\ 256 * group[1] + group[2] = f.group
      /\ org \in Seq(Byte) /\ Len(org) = 2 /\ 256 * org[1] + org[2] = f.org
  BY FieldsFit, WordIsTwoBytes
<1> DEFINE one == HEADER \o version
           two == one \o group
           three == two \o org
           head == three \o rest
<1>3. head = V3Head(f)
  <2>1. /\ Low(f.protocol) = f.protocol /\ Low(f.version) = f.version
        /\ Low(f.scene) = f.scene /\ Low(f.command) = f.command
        /\ Low(f.encrypt) = f.encrypt /\ Low(Len(f.data)) = Len(f.data)
    BY FieldsFit, Zenon
  <2> QED BY <2>1, Zenon DEF V3Head
<1> HIDE DEF version, rest, group, org
<1>4. /\ one \in Seq(Byte) /\ Len(one) = 5
      /\ \A i \in 1..2 : one[i] = HEADER[i]
      /\ \A i \in 1..3 : one[2 + i] = version[i]
  <2>1. /\ one \in Seq(Byte) /\ Len(one) = Len(HEADER) + Len(version)
        /\ \A i \in 1..Len(HEADER) : one[i] = HEADER[i]
        /\ \A i \in 1..Len(version) : one[Len(HEADER) + i] = version[i]
    <3>1. HEADER \in Seq(Byte) /\ version \in Seq(Byte)
      BY <1>1, Zenon
    <3> QED
      BY <3>1, Joined
  <2>2. Len(HEADER) = 2 /\ Len(version) = 3
    BY <1>1, Zenon
  <2>3. Len(one) = 5
    BY <2>1, <2>2
  <2> QED
    BY <2>1, <2>2, <2>3, Zenon
<1> HIDE DEF one
<1>5. /\ two \in Seq(Byte) /\ Len(two) = 7
      /\ \A i \in 1..5 : two[i] = one[i]
      /\ \A i \in 1..2 : two[5 + i] = group[i]
  <2>1. /\ two \in Seq(Byte) /\ Len(two) = Len(one) + Len(group)
        /\ \A i \in 1..Len(one) : two[i] = one[i]
        /\ \A i \in 1..Len(group) : two[Len(one) + i] = group[i]
    <3>1. one \in Seq(Byte) /\ group \in Seq(Byte)
      BY <1>2, <1>4, Zenon
    <3> QED
      BY <3>1, Joined
  <2>2. Len(one) = 5 /\ Len(group) = 2
    BY <1>2, <1>4, Zenon
  <2>3. Len(two) = 7
    BY <2>1, <2>2
  <2> QED
    BY <2>1, <2>2, <2>3, Zenon
<1> HIDE DEF two
<1>6. /\ three \in Seq(Byte) /\ Len(three) = 9
      /\ \A i \in 1..7 : three[i] = two[i]
      /\ \A i \in 1..2 : three[7 + i] = org[i]
  <2>1. /\ three \in Seq(Byte) /\ Len(three) = Len(two) + Len(org)
        /\ \A i \in 1..Len(two) : three[i] = two[i]
        /\ \A i \in 1..Len(org) : three[Len(two) + i] = org[i]
    <3>1. two \in Seq(Byte) /\ org \in Seq(Byte)
      BY <1>2, <1>5, Zenon
    <3> QED
      BY <3>1, Joined
  <2>2. Len(two) = 7 /\ Len(org) = 2
    BY <1>2, <1>5, Zenon
  <2>3. Len(three) = 9
    BY <2>1, <2>2
  <2> QED
    BY <2>1, <2>2, <2>3, Zenon
<1> HIDE DEF three
<1>7. /\ head \in Seq(Byte) /\ Len(head) = 12
      /\ \A i \in 1..9 : head[i] = three[i]
      /\ \A i \in 1..3 : head[9 + i] = rest[i]
  <2>1. /\ head \in Seq(Byte) /\ Len(head) = Len(three) + Len(rest)
        /\ \A i \in 1..Len(three) : head[i] = three[i]
        /\ \A i \in 1..Len(rest) : head[Len(three) + i] = rest[i]
    <3>1. three \in Seq(Byte) /\ rest \in Seq(Byte)
      BY <1>1, <1>6, Zenon
    <3> QED
      BY <3>1, Joined
  <2>2. Len(three) = 9 /\ Len(rest) = 3
    BY <1>1, <1>6, Zenon
  <2>3. Len(head) = 12
    BY <2>1, <2>2
  <2> QED
    BY <2>1, <2>2, <2>3, Zenon
<1> HIDE DEF head
<1>8. \A i \in 1..5 : head[i] = one[i]
  BY <1>5, <1>6, <1>7
<1>9. /\ head[1] = 127 /\ head[2] = 90 /\ head[3] = f.protocol
      /\ head[4] = f.version /\ head[5] = f.scene
  <2>1. \A i \in 1..3 : head[2 + i] = version[i]
    BY <1>4, <1>8
  <2>2. \A i \in 1..2 : head[i] = HEADER[i]
    BY <1>4, <1>8
  <2> QED
    BY <1>1, <2>1, <2>2
<1>10. head[6] = group[1] /\ head[7] = group[2]
  BY <1>5, <1>6, <1>7
<1>11. head[8] = org[1] /\ head[9] = org[2]
  BY <1>6, <1>7
<1>12. head[10] = f.command /\ head[11] = f.encrypt /\ head[12] = Len(f.data)
  BY <1>1, <1>7
<1> QED
  BY <1>3, <1>2, <1>7, <1>9, <1>10, <1>11, <1>12

(* The header of a frame of an earlier protocol type.                       *)
LegacyHead(f) ==
  HEADER \o <<Low(f.protocol)>> \o <<Low(f.command), Low(f.encrypt), Low(Len(f.data))>>

(* Every byte of the header of a legacy frame.                              *)
LEMMA LegacyHeadBytes ==
  ASSUME NEW f, Fitting(f)
  PROVE  LET head == LegacyHead(f)
         IN  /\ head \in Seq(Byte) /\ Len(head) = 6
             /\ head[1] = 127 /\ head[2] = 90 /\ head[3] = f.protocol
             /\ head[4] = f.command /\ head[5] = f.encrypt /\ head[6] = Len(f.data)
<1> DEFINE first == <<f.protocol>>
           rest == <<f.command, f.encrypt, Len(f.data)>>
           one == HEADER \o first
           head == one \o rest
<1>1. head = LegacyHead(f)
  BY FieldsFit, SMTT(30) DEF LegacyHead
<1>2. /\ first \in Seq(Byte) /\ Len(first) = 1 /\ first[1] = f.protocol
      /\ rest \in Seq(Byte) /\ Len(rest) = 3
      /\ rest[1] = f.command /\ rest[2] = f.encrypt /\ rest[3] = Len(f.data)
      /\ HEADER \in Seq(Byte) /\ Len(HEADER) = 2 /\ HEADER[1] = 127 /\ HEADER[2] = 90
  BY FieldsFit, Tuples, FrameEnds
<1> HIDE DEF first, rest
<1>3. /\ one \in Seq(Byte) /\ Len(one) = 3
      /\ \A i \in 1..2 : one[i] = HEADER[i]
      /\ one[3] = first[1]
  <2>1. /\ one \in Seq(Byte) /\ Len(one) = Len(HEADER) + Len(first)
        /\ \A i \in 1..Len(HEADER) : one[i] = HEADER[i]
        /\ \A i \in 1..Len(first) : one[Len(HEADER) + i] = first[i]
    <3>1. HEADER \in Seq(Byte) /\ first \in Seq(Byte)
      BY <1>2, Zenon
    <3> QED
      BY <3>1, Joined
  <2>2. Len(HEADER) = 2 /\ Len(first) = 1
    BY <1>2, Zenon
  <2> QED
    BY <1>2, <2>1, <2>2
<1> HIDE DEF one
<1>4. /\ head \in Seq(Byte) /\ Len(head) = 6
      /\ \A i \in 1..3 : head[i] = one[i]
      /\ \A i \in 1..3 : head[3 + i] = rest[i]
  <2>1. /\ head \in Seq(Byte) /\ Len(head) = Len(one) + Len(rest)
        /\ \A i \in 1..Len(one) : head[i] = one[i]
        /\ \A i \in 1..Len(rest) : head[Len(one) + i] = rest[i]
    <3>1. one \in Seq(Byte) /\ rest \in Seq(Byte)
      BY <1>2, <1>3, Zenon
    <3> QED
      BY <3>1, Joined
  <2>2. Len(one) = 3 /\ Len(rest) = 3
    BY <1>2, <1>3, Zenon
  <2>3. Len(head) = 6
    BY <2>1, <2>2
  <2> QED
    BY <2>1, <2>2, <2>3, Zenon
<1> HIDE DEF head
<1>5. head[1] = 127 /\ head[2] = 90 /\ head[3] = f.protocol
  BY <1>2, <1>3, <1>4
<1>6. head[4] = f.command /\ head[5] = f.encrypt /\ head[6] = Len(f.data)
  BY <1>2, <1>4
<1> QED
  BY <1>1, <1>4, <1>5, <1>6

(* What is built, whatever the layout.                                     *)
HeadOf(f) == IF IsV3(f.protocol) THEN V3Head(f) ELSE LegacyHead(f)

(* Where the head and the data of a frame are.                              *)
BuiltFrame(whole, f, n) ==
  /\ whole \in Seq(Byte) /\ Len(whole) = n + Len(f.data) + 3
  /\ FieldAt(HeadOf(f), whole, 0, n) /\ FieldAt(f.data, whole, n, n + Len(f.data))

(* A head has as many bytes as the protocol says.                           *)
LEMMA HeadLength ==
  ASSUME NEW f, Fitting(f)
  PROVE  /\ HeadOf(f) \in Seq(Byte) /\ Len(HeadOf(f)) = HeaderLen(f.protocol)
         /\ HeaderLen(f.protocol) \in {6, 12}
<1>1. CASE IsV3(f.protocol)
  <2>1. HeadOf(f) \in Seq(Byte) /\ Len(HeadOf(f)) = 12
    BY <1>1, V3HeadBytes DEF HeadOf
  <2> QED BY <1>1, <2>1 DEF HeaderLen
<1>2. CASE ~IsV3(f.protocol)
  <2>1. HeadOf(f) \in Seq(Byte) /\ Len(HeadOf(f)) = 6
    BY <1>2, LegacyHeadBytes DEF HeadOf
  <2> QED BY <1>2, <2>1 DEF HeaderLen
<1> QED BY <1>1, <1>2

(* What Frame.build writes.                                                 *)
LEMMA FrameBuilt ==
  ASSUME NEW f, Fitting(f), NEW crc \in Byte, NEW whole, whole = Build(f, crc),
         NEW n, n = HeaderLen(f.protocol)
  PROVE  BuiltFrame(whole, f, n)
<1>1. f.data \in Seq(Byte) /\ Len(f.data) \in Nat
  BY FieldsFit, LengthIs
<1>2. PICK head : head = HeadOf(f)
  OBVIOUS
<1>3. head \in Seq(Byte) /\ Len(head) = n /\ n \in {6, 12}
  BY <1>2, HeadLength
<1>4. whole = head \o f.data \o <<crc>> \o TRAILER
  <2>1. CASE IsV3(f.protocol)
    BY <1>2, <2>1 DEF Build, Body, V3Head, HeadOf
  <2>2. CASE ~IsV3(f.protocol)
    BY <1>2, <2>2 DEF Build, Body, LegacyHead, HeadOf
  <2> QED BY <2>1, <2>2
<1>5. BehindHead(head, f.data, whole)
  BY <1>1, <1>3, <1>4, BehindTheHeader, Zenon
<1>6. /\ whole \in Seq(Byte) /\ Len(whole) = n + Len(f.data) + 3
      /\ \A i \in 1..Len(head) : whole[i] = head[i]
      /\ \A i \in 1..Len(f.data) : whole[n + i] = f.data[i]
  BY <1>3, <1>5 DEF BehindHead
<1>7. Within(head, whole, 0)
  BY <1>1, <1>3, <1>6 DEF Within
<1>8. Within(f.data, whole, n)
  BY <1>1, <1>3, <1>6 DEF Within
<1> QED BY <1>2, <1>3, <1>6, <1>7, <1>8 DEF BuiltFrame, FieldAt

(* The numbers of a header, where the reader looks for them.                *)
LEMMA HeadNumbers ==
  ASSUME NEW f, Fitting(f), NEW raw, NEW n, n = HeaderLen(f.protocol),
         raw \in Seq(Byte), n <= Len(raw), \A i \in 1..n : raw[i] = HeadOf(f)[i]
  PROVE  /\ IsV3(f.protocol) =>
              /\ At(raw, 3) = f.version /\ At(raw, 4) = f.scene
              /\ 256 * At(raw, 5) + At(raw, 6) = f.group /\ 256 * At(raw, 7) + At(raw, 8) = f.org
         /\ At(raw, n - 3) = f.command /\ At(raw, n - 2) = f.encrypt /\ At(raw, n - 1) = Len(f.data)
<1>1. CASE IsV3(f.protocol)
  <2>1. n = 12
    BY <1>1 DEF HeaderLen
  <2>2. PICK head : head = HeadOf(f)
    OBVIOUS
  <2>3. /\ head[4] = f.version /\ head[5] = f.scene
        /\ 256 * head[6] + head[7] = f.group /\ 256 * head[8] + head[9] = f.org
        /\ head[10] = f.command /\ head[11] = f.encrypt /\ head[12] = Len(f.data)
    <3>1. head = V3Head(f)
      BY <1>1, <2>2, Zenon DEF HeadOf
    <3> QED BY <3>1, V3HeadBytes, SMTT(30)
  <2>4. \A i \in 1..12 : raw[i] = head[i]
    BY <2>1, <2>2
  <2>5. /\ raw[4] = head[4] /\ raw[5] = head[5] /\ raw[6] = head[6] /\ raw[7] = head[7]
        /\ raw[8] = head[8] /\ raw[9] = head[9] /\ raw[10] = head[10] /\ raw[11] = head[11]
        /\ raw[12] = head[12]
    BY <2>4
  <2>6. /\ At(raw, 3) = raw[4] /\ At(raw, 4) = raw[5] /\ At(raw, 5) = raw[6] /\ At(raw, 6) = raw[7]
        /\ At(raw, 7) = raw[8] /\ At(raw, 8) = raw[9] /\ At(raw, 12 - 3) = raw[10]
        /\ At(raw, 12 - 2) = raw[11] /\ At(raw, 12 - 1) = raw[12]
    BY DEF At
  <2> QED BY <2>1, <2>3, <2>5, <2>6, ZenonT(40)
<1>2. CASE ~IsV3(f.protocol)
  <2>1. n = 6
    BY <1>2 DEF HeaderLen
  <2>2. PICK head : head = HeadOf(f)
    OBVIOUS
  <2>3. head[4] = f.command /\ head[5] = f.encrypt /\ head[6] = Len(f.data)
    <3>1. head = LegacyHead(f)
      BY <1>2, <2>2, Zenon DEF HeadOf
    <3> QED BY <3>1, LegacyHeadBytes, SMTT(30)
  <2>4. \A i \in 1..6 : raw[i] = head[i]
    BY <2>1, <2>2
  <2>5. raw[4] = head[4] /\ raw[5] = head[5] /\ raw[6] = head[6]
    BY <2>4
  <2>6. At(raw, 6 - 3) = raw[4] /\ At(raw, 6 - 2) = raw[5] /\ At(raw, 6 - 1) = raw[6]
    BY DEF At
  <2> QED BY <1>2, <2>1, <2>3, <2>5, <2>6, ZenonT(40)
<1> QED BY <1>1, <1>2

(* The first bytes of a head: the header and the protocol.                  *)
LEMMA HeadFirst ==
  ASSUME NEW f, Fitting(f)
  PROVE  HeadOf(f)[1] = 127 /\ HeadOf(f)[2] = 90 /\ HeadOf(f)[3] = f.protocol
<1>1. CASE IsV3(f.protocol)
  <2>1. HeadOf(f) = V3Head(f)
    BY <1>1, Zenon DEF HeadOf
  <2> QED BY <2>1, V3HeadBytes, SMTT(30)
<1>2. CASE ~IsV3(f.protocol)
  <2>1. HeadOf(f) = LegacyHead(f)
    BY <1>2, Zenon DEF HeadOf
  <2> QED BY <2>1, LegacyHeadBytes, SMTT(30)
<1> QED BY <1>1, <1>2

(* Frame.parse, by the layout that the protocol type tells.                 *)
ParsedFrame(raw, p, n, length) ==
  [protocol |-> p,
   version |-> IF IsV3(p) THEN At(raw, 3) ELSE 0,
   scene |-> IF IsV3(p) THEN At(raw, 4) ELSE 0,
   group |-> IF IsV3(p) THEN 256 * At(raw, 5) + At(raw, 6) ELSE 0,
   org |-> IF IsV3(p) THEN 256 * At(raw, 7) + At(raw, 8) ELSE 0,
   command |-> At(raw, n - 3), encrypt |-> At(raw, n - 2),
   data |-> Slice(raw, n, n + length)]

(* Frame.parse, by what it has read of the head.                            *)
ParseOutcome(raw, p, n, length) ==
  IF \/ Len(raw) < 7 \/ Slice(raw, 0, 2) # HEADER \/ Len(raw) < n \/ Len(raw) < n + length
  THEN Raises("ValueError")
  ELSE Returns(ParsedFrame(raw, p, n, length))

LEMMA ParseIs ==
  ASSUME NEW raw, NEW p, p = At(raw, 2), NEW n, n = HeaderLen(p), NEW length, length = At(raw, n - 1)
  PROVE  Parse(raw) = ParseOutcome(raw, p, n, length)
BY Zenon DEF Parse, ParseOutcome, ParsedFrame

(* What a frame carries: a V2 frame has no version fields.                  *)
LEMMA CarriedIs ==
  ASSUME NEW f, Fitting(f)
  PROVE  Carried(f) =
           [protocol |-> f.protocol,
            version |-> IF IsV3(f.protocol) THEN f.version ELSE 0,
            scene |-> IF IsV3(f.protocol) THEN f.scene ELSE 0,
            group |-> IF IsV3(f.protocol) THEN f.group ELSE 0,
            org |-> IF IsV3(f.protocol) THEN f.org ELSE 0,
            command |-> f.command, encrypt |-> f.encrypt, data |-> f.data]
<1>1. CASE IsV3(f.protocol)
  <2>1. f = [protocol |-> f.protocol, version |-> f.version, scene |-> f.scene,
             group |-> f.group, org |-> f.org, command |-> f.command,
             encrypt |-> f.encrypt, data |-> f.data]
    BY DEF Fitting, WireFrame
  <2>2. Carried(f) = f
    BY <1>1, Zenon DEF Carried
  <2> QED BY <1>1, <2>1, <2>2, Zenon
<1>2. CASE ~IsV3(f.protocol)
  BY <1>2 DEF Carried, ForLock, Fitting
<1> QED BY <1>1, <1>2

(* As much of a frame as has come.                                         *)
LEMMA FrameRead ==
  ASSUME NEW f, Fitting(f), NEW crc \in Byte, NEW whole, whole = Build(f, crc),
         NEW raw \in Seq(Byte), Agrees(raw, whole)
  PROVE  Reads(raw, whole, Parse(raw), Carried(f)) /\ whole \in Seq(Byte)
<1>1. PICK n : n = HeaderLen(f.protocol)
  OBVIOUS
<1>2. BuiltFrame(whole, f, n)
  BY <1>1, FrameBuilt
<1>3. PICK head : head = HeadOf(f)
  OBVIOUS
<1>4. /\ whole \in Seq(Byte) /\ Len(whole) = n + Len(f.data) + 3
      /\ Within(head, whole, 0) /\ FieldAt(f.data, whole, n, n + Len(f.data))
  BY <1>2, <1>3 DEF BuiltFrame, FieldAt
<1>5. head \in Seq(Byte) /\ Len(head) = n /\ n \in {6, 12} /\ n \in Nat
  BY <1>1, <1>3, HeadLength
<1>6. PICK l \in Nat : l = Len(f.data)
  BY FieldsFit, LengthIs
<1>7. f.data \in Seq(Byte)
  BY FieldsFit
<1>8. PICK m \in Nat : m = Len(raw)
  BY LengthIs
<1>9. \A i \in 1..n : whole[i] = head[i]
  BY <1>5, <1>4 DEF Within
<1>10. \A i \in 1..n : i <= m => raw[i] = head[i]
  <2> TAKE i \in 1..n
  <2>1. i <= Len(whole)
    BY <1>4, <1>5, <1>6
  <2>2. whole[i] = head[i]
    BY <1>9
  <2>3. i <= m => raw[i] = whole[i]
    BY <1>5, <1>8, <2>1 DEF Agrees
  <2> QED BY <2>2, <2>3
<1>11. PICK p : p = At(raw, 2)
  OBVIOUS
<1>12. PICK k : k = HeaderLen(p)
  OBVIOUS
<1>13. PICK length : length = At(raw, k - 1)
  OBVIOUS
<1>14. Parse(raw) =
           IF \/ m < 7 \/ Slice(raw, 0, 2) # HEADER \/ m < k \/ m < k + length
           THEN Raises("ValueError")
           ELSE Returns(ParsedFrame(raw, p, k, length))
  <2>1. Parse(raw) = ParseOutcome(raw, p, k, length)
    BY <1>11, <1>12, <1>13, ParseIs
  <2> QED BY <1>8, <2>1, Zenon DEF ParseOutcome
<1>15. ~Returned(Raises("ValueError"))
  BY DEF Returned, Raises
<1>16. m < n + l => ~(Len(raw) >= Len(whole))
  BY <1>4, <1>5, <1>6, <1>8
<1>17. CASE m < 7
  <2>1. ~(Len(raw) >= Len(whole))
    <3>1. m < n + l + 3
      BY <1>5, <1>6, <1>17
    <3> QED BY <1>4, <1>5, <1>6, <1>8, <3>1
  <2>2. Parse(raw) = Raises("ValueError")
    BY <1>14, <1>17
  <2> QED BY <1>4, <1>15, <2>1, <2>2 DEF Reads
<1>18. CASE ~(m < 7)
  <2>1. p = f.protocol
    <3>1. 3 \in 1..n /\ 3 <= m
      BY <1>5, <1>18
    <3>2. raw[3] = head[3]
      BY <1>10, <3>1
    <3> QED BY <1>3, <1>11, <3>2, HeadFirst DEF At
  <2>2. k = n
    BY <1>1, <1>12, <2>1
  <2>3. CASE m < n
    <3>1. Parse(raw) = Raises("ValueError")
      BY <1>14, <2>2, <2>3
    <3>2. m < n + l
      BY <1>5, <1>6, <2>3
    <3> QED BY <1>4, <1>15, <1>16, <3>1, <3>2 DEF Reads
  <2>4. CASE ~(m < n)
    <3>1. n <= Len(raw) /\ \A i \in 1..n : raw[i] = HeadOf(f)[i]
      BY <1>3, <1>5, <1>8, <1>10, <2>4
    <3>2. /\ IsV3(f.protocol) =>
              /\ At(raw, 3) = f.version /\ At(raw, 4) = f.scene
              /\ 256 * At(raw, 5) + At(raw, 6) = f.group /\ 256 * At(raw, 7) + At(raw, 8) = f.org
          /\ At(raw, n - 3) = f.command /\ At(raw, n - 2) = f.encrypt /\ At(raw, n - 1) = Len(f.data)
      BY <1>1, <3>1, HeadNumbers
    <3>3. length = l
      BY <1>6, <1>13, <2>2, <3>2
    <3>4. CASE m < n + l
      <4>1. Parse(raw) = Raises("ValueError")
        BY <1>14, <2>2, <3>3, <3>4
      <4> QED BY <1>4, <1>15, <1>16, <3>4, <4>1 DEF Reads
    <3>5. CASE ~(m < n + l)
      <4>1. Slice(raw, 0, 2) = HEADER
        <5>1. 1 \in 1..n /\ 2 \in 1..n /\ 1 <= m /\ 2 <= m
          BY <1>5, <1>18
        <5>2. raw[1] = 127 /\ raw[2] = 90
          BY <1>3, <1>10, <5>1, HeadFirst
        <5>3. Len(raw) >= 2
          BY <1>8, <5>1
        <5> QED BY <5>2, <5>3, SliceOfHeader
      <4>2. Slice(raw, n, n + l) = f.data
        <5>1. PICK q \in Nat : q = n + l
          BY <1>5, <1>6
        <5>2. FieldAt(f.data, whole, n, q) /\ q <= Len(raw)
          BY <1>4, <1>6, <1>8, <3>5, <5>1
        <5>3. Slice(raw, n, q) = f.data
          BY <1>4, <1>5, <1>7, <5>2, FieldRead
        <5> QED BY <5>1, <5>3
      <4>3. ~(\/ m < 7 \/ Slice(raw, 0, 2) # HEADER \/ m < k \/ m < k + length)
        BY <1>18, <2>2, <2>4, <3>3, <3>5, <4>1
      <4>4. Parse(raw) = Returns(Carried(f))
        <5>1. Parse(raw) = Returns(ParsedFrame(raw, p, k, length))
          BY <1>14, <4>3, Zenon
        <5>2. CASE IsV3(f.protocol)
          BY <2>1, <2>2, <3>2, <3>3, <4>2, <5>1, <5>2, CarriedIs, ZenonT(40) DEF ParsedFrame
        <5>3. CASE ~IsV3(f.protocol)
          BY <2>1, <2>2, <3>2, <3>3, <4>2, <5>1, <5>3, CarriedIs, ZenonT(40) DEF ParsedFrame
        <5> QED BY <5>2, <5>3
      <4> QED BY <1>4, <4>4 DEF Reads, Returned, Returns
    <3> QED BY <3>4, <3>5
  <2> QED BY <2>3, <2>4
<1> QED BY <1>17, <1>18

(* A frame is read as it was built: for every lock version, command and     *)
(* CRC, as long as the data has at most 255 bytes (Frame.build, parse).      *)
THEOREM FramesAreReadAsBuilt ==
  ASSUME NEW f, Fitting(f), NEW crc \in Byte
  PROVE  Parse(Build(f, crc)) = Returns(Carried(f))
<1>1. PICK whole : whole = Build(f, crc)
  OBVIOUS
<1>2. PICK n : n = HeaderLen(f.protocol)
  OBVIOUS
<1>3. whole \in Seq(Byte) /\ Agrees(whole, whole) /\ Len(whole) \in Nat
  BY <1>1, <1>2, FrameBuilt, LengthIs DEF BuiltFrame, Agrees
<1>4. Reads(whole, whole, Parse(whole), Carried(f))
  BY <1>1, <1>3, FrameRead
<1>5. Returned(Parse(whole)) /\ Parse(whole).value = Carried(f)
  BY <1>3, <1>4 DEF Reads
<1>6. PICK p : p = At(whole, 2)
  OBVIOUS
<1>7. PICK k : k = HeaderLen(p)
  OBVIOUS
<1>8. Parse(whole) = Returns(Parse(whole).value)
  <2>1. PICK length : length = At(whole, k - 1)
    OBVIOUS
  <2>2. Parse(whole) = ParseOutcome(whole, p, k, length)
    BY <1>6, <1>7, <2>1, ParseIs
  <2>3. \/ Parse(whole) = Raises("ValueError")
        \/ Parse(whole) = Returns(ParsedFrame(whole, p, k, length))
    BY <2>2, Zenon DEF ParseOutcome
  <2> QED BY <1>5, <2>3 DEF Returned, Raises, Returns
<1> QED BY <1>1, <1>5, <1>8

(* The frames a lock sends.                                                *)
LEMMA FramesSay ==
  ASSUME message \in LockFrames
  PROVE  \E v \in Versions, data \in Codes \cup {<<>>} : meant = ForLock(v, 84, data)
<1>1. PICK v \in Versions, data \in Codes \cup {<<>>} : message = Means("frame", ForLock(v, 84, data))
  BY DEF LockFrames
<1>2. meant = ForLock(v, 84, data)
  BY <1>1, KindIs DEF meant
<1> QED BY <1>2

LEMMA VersionsFit ==
  ASSUME NEW v \in Versions
  PROVE  v \in LockVersion
BY LayoutsAssumption DEF LayoutsAssumption

(* A frame for a lock has fields that are bytes.                            *)
LEMMA ForLockFits ==
  ASSUME NEW v \in LockVersion, NEW command \in Byte, NEW data \in Seq(Byte), Len(data) <= 255
  PROVE  Fitting(ForLock(v, command, data))
<1>1. /\ v.protocol \in Byte /\ v.version \in Byte /\ v.scene \in Byte
      /\ v.group \in Field16 /\ v.org \in Field16
  BY DEF LockVersion
<1>2. ENCRYPT_PLAIN \in Byte
  BY DEF ENCRYPT_PLAIN, Byte
<1>3. ForLock(v, command, data) \in WireFrame
  BY <1>1, <1>2 DEF ForLock, WireFrame
<1>4. ForLock(v, command, data).data = data /\ ForLock(v, command, data).encrypt = ENCRYPT_PLAIN
  BY DEF ForLock
<1> QED BY <1>3, <1>4 DEF Fitting

LEMMA CodeFits ==
  ASSUME NEW data \in Codes \cup {<<>>}
  PROVE  data \in Seq(Byte) /\ Len(data) <= 255
<1>1. CASE data \in Codes
  <2>1. data \in Seq(Byte) /\ IsPasscode(data)
    BY <1>1, CodesAre
  <2>2. Len(data) \in 4..9
    BY <2>1 DEF IsPasscode
  <2>3. PICK l \in 4..9 : l = Len(data)
    BY <2>2
  <2>4. l <= 255
    OBVIOUS
  <2> QED BY <2>1, <2>3, <2>4
<1>2. CASE data = <<>>
  BY <1>2
<1> QED BY <1>1, <1>2

LEMMA FrameWritten == kind = "frame" => Whole = Build(meant, 0)
BY DEF Whole, Bytes

LEMMA FrameMeans ==
  ASSUME kind = "frame"
  PROVE  /\ Understood = Carried(meant) /\ Sayable
         /\ kind \notin RequestKinds /\ kind \notin {"features", "page"} /\ kind \notin ReplyKinds
BY DEF Understood, Sayable, RequestKinds, ReplyKinds

(* The three properties hold of a frame, in every form and once it was      *)
(* read.                                                                    *)
LEMMA FrameKept == IInv /\ kind = "frame" => Kept
<1> SUFFICES ASSUME IInv, kind = "frame" PROVE Kept
  OBVIOUS
<1>1. message \in LockFrames
  BY GroupOf DEF IInv
<1>2. PICK v \in Versions, data \in Codes \cup {<<>>} : meant = ForLock(v, 84, data)
  BY <1>1, FramesSay
<1>3. Fitting(meant)
  <2>1. 84 \in Byte
    BY DEF Byte
  <2>2. v \in LockVersion /\ data \in Seq(Byte) /\ Len(data) <= 255
    BY <1>2, VersionsFit, CodeFits
  <2>3. Fitting(ForLock(v, 84, data))
    BY <2>1, <2>2, ForLockFits
  <2> QED BY <1>2, <2>3, Zenon
<1>4. Whole = Build(meant, 0) /\ 0 \in Byte
  BY FrameWritten DEF Byte
<1>5. Whole \in Seq(Byte)
  <2>1. BuiltFrame(Whole, meant, HeaderLen(meant.protocol))
    BY <1>3, <1>4, FrameBuilt
  <2> QED BY <2>1 DEF BuiltFrame
<1>6. Came(form.how, wire, Whole) => Reads(wire, Whole, Decode(wire), Understood)
  <2> HAVE Came(form.how, wire, Whole)
  <2>1. wire \in Seq(Byte) /\ Agrees(wire, Whole)
    BY DEF Came
  <2>2. Reads(wire, Whole, Parse(wire), Carried(meant))
    BY <1>3, <1>4, <2>1, FrameRead
  <2>3. Decode(wire) = Parse(wire) /\ Understood = Carried(meant)
    BY Decoders, FrameMeans
  <2> QED BY <2>2, <2>3, Zenon
<1>7. form.how # "refused"
  BY ReadKinds, FrameMeans
<1> QED BY <1>5, <1>6, <1>7, FrameMeans, PlainKept

----------------------------------------------------------------------------
(* Advertisements.                                                          *)

Triple(p, x, y, z) == p = <<x, y, z>>

(* The first three bytes of an advertisement the integration knows.         *)
Advertising(x, y, z) ==
  \/ x = 5 /\ y = 3 /\ z \in {7, 2}
  \/ x = 5 /\ y = 4 /\ z = 1
  \/ x = 10 /\ y = 1 /\ z = 1

LEMMA AdvertisementsSay ==
  ASSUME message \in Advertisements
  PROVE  \E p \in Protocols, s \in {0, 1}, n \in BOOLEAN, m \in BOOLEAN, d \in BOOLEAN, b \in Levels :
           meant = Broadcast(p, s, n, m, d, b)
<1>1. PICK p \in Protocols, s \in {0, 1}, n \in BOOLEAN, m \in BOOLEAN, d \in BOOLEAN, b \in Levels :
        message = Means("advertisement", Broadcast(p, s, n, m, d, b))
  BY DEF Advertisements
<1>2. meant = Broadcast(p, s, n, m, d, b)
  BY <1>1, KindIs DEF meant
<1> QED BY <1>2

LEMMA ProtocolsAre ==
  ASSUME NEW p \in Protocols
  PROVE  \E x \in Byte, y \in Byte, z \in Byte : Triple(p, x, y, z) /\ Advertising(x, y, z)
<1>1. 5 \in Byte /\ 3 \in Byte /\ 7 \in Byte /\ 2 \in Byte /\ 4 \in Byte /\ 1 \in Byte /\ 10 \in Byte
  BY DEF Byte
<1>2. CASE p = <<5, 3, 7>>
  <2>1. Triple(p, 5, 3, 7) /\ Advertising(5, 3, 7)
    BY <1>2 DEF Triple, Advertising
  <2> QED BY <1>1, <2>1
<1>3. CASE p = <<5, 3, 2>>
  <2>1. Triple(p, 5, 3, 2) /\ Advertising(5, 3, 2)
    BY <1>3 DEF Triple, Advertising
  <2> QED BY <1>1, <2>1
<1>4. CASE p = <<5, 4, 1>>
  <2>1. Triple(p, 5, 4, 1) /\ Advertising(5, 4, 1)
    BY <1>4 DEF Triple, Advertising
  <2> QED BY <1>1, <2>1
<1>5. CASE p = <<10, 1, 1>>
  <2>1. Triple(p, 10, 1, 1) /\ Advertising(10, 1, 1)
    BY <1>5 DEF Triple, Advertising
  <2> QED BY <1>1, <2>1
<1> QED BY <1>2, <1>3, <1>4, <1>5 DEF Protocols

(* The flags of an advertisement.                                          *)
LEMMA FlagsAre ==
  ASSUME NEW a, NEW s \in {0, 1}, NEW n \in BOOLEAN, NEW m \in BOOLEAN, NEW d \in BOOLEAN,
         a.bolt = Some(s), a.newRecords = n, a.settingMode = m, a.dormant = d,
         NEW x, x = Flags(a)
  PROVE  /\ x \in Byte
         /\ Bit(x, 0) <=> s = 1 /\ ~d
         /\ Bit(x, 1) <=> n
         /\ Bit(x, 2) <=> m
         /\ Bit(x, 4) <=> d
<1>1. PICK e \in {0, 1} : e = Flag(a.bolt = Some(UNLOCKED) /\ ~a.dormant, 1)
  BY DEF Flag
<1>2. e = 1 <=> s = 1 /\ ~d
  <2>1. Some(s) = Some(UNLOCKED) <=> s = 1
    BY DEF Some, UNLOCKED
  <2> QED BY <1>1, <2>1 DEF Flag
<1>3. PICK f \in {0, 1} : Flag(n, 2) = 2 * f /\ (f = 1 <=> n)
  BY DEF Flag
<1>4. PICK g \in {0, 1} : Flag(m, 4) = 4 * g /\ (g = 1 <=> m)
  BY DEF Flag
<1>5. PICK h \in {0, 1} : Flag(d, 16) = 16 * h /\ (h = 1 <=> d)
  BY DEF Flag
<1>6. x = e + 2 * f + 4 * g + 16 * h
  BY <1>1, <1>3, <1>4, <1>5 DEF Flags
<1>7. x \in Byte
  BY <1>6 DEF Byte
<1>8. Bit(x, 0) <=> e = 1
  BY <1>6, BitIs
<1>9. Bit(x, 1) <=> f = 1
  BY <1>6, BitIs
<1>10. Bit(x, 2) <=> g = 1
  BY <1>6, BitIs
<1>11. Bit(x, 4) <=> h = 1
  BY <1>6, BitIs
<1> QED BY <1>2, <1>3, <1>4, <1>5, <1>7, <1>8, <1>9, <1>10, <1>11

(* The two layouts of an advertisement.                                    *)
AdAt(raw, x, y, z, flags, b, offset) ==
  /\ raw \in Seq(Byte) /\ Len(raw) >= 15
  /\ \/ offset = 3 /\ x = 5 /\ y = 3 /\ raw[1] = 5 /\ raw[2] = 3 /\ raw[3] = z
     \/ /\ offset = 8 /\ ~(x = 5 /\ y = 3) /\ raw[1] = 1
        /\ raw[5] = x /\ raw[6] = y /\ raw[8] = z
  /\ raw[offset + 1] = flags /\ raw[offset + 2] = b

LEMMA FirstTwo ==
  ASSUME NEW raw \in Seq(Byte), Len(raw) >= 2
  PROVE  Slice(raw, 0, 2) = <<raw[1], raw[2]>>
<1>1. Slice(raw, 0, 2) = SubSeq(raw, 0 + 1, 2)
  BY LengthIs DEF Slice
<1>2. /\ SubSeq(raw, 0 + 1, 2) \in Seq(Byte) /\ Len(SubSeq(raw, 0 + 1, 2)) = 2 - 0
      /\ \A k \in 1..(2 - 0) : SubSeq(raw, 0 + 1, 2)[k] = raw[0 + k]
  BY SubSeqIs
<1>3. PICK t : t = SubSeq(raw, 0 + 1, 2)
  OBVIOUS
<1>4. t \in Seq(Byte) /\ Len(t) = 2 /\ t[1] = raw[1] /\ t[2] = raw[2]
  BY <1>2, <1>3
<1>5. t = <<raw[1], raw[2]>>
  BY <1>4
<1> QED BY <1>1, <1>3, <1>5

(* LockAdvertisement, by the fields of its head.                            *)
AdOutcome(raw, v3, protocol, version, scene, offset, flags) ==
  IF \/ Len(raw) < 15
     \/ Slice(raw, 0, 2) \in {<<18, 25>>, <<255, 255>>}
     \/ protocol < 5
     \/ LockType(protocol, version, scene) = V2S
  THEN None
  ELSE Some([protocol |-> <<protocol, version, scene>>,
             bolt |-> IF Bit(flags, 4) THEN None
                      ELSE Some(IF Bit(flags, 0) THEN UNLOCKED ELSE LOCKED),
             newRecords |-> Bit(flags, 1),
             settingMode |-> Bit(flags, 2),
             dormant |-> Bit(flags, 4),
             battery |-> At(raw, offset + 1),
             mac |-> Mac(From(raw, Len(raw) - 6))])

LEMMA LockAdvertisementIs ==
  ASSUME NEW raw,
         NEW v3, v3 = (Slice(raw, 0, 2) = <<5, 3>>),
         NEW protocol, protocol = IF v3 THEN 5 ELSE At(raw, 4),
         NEW version, version = IF v3 THEN 3 ELSE At(raw, 5),
         NEW scene, scene = IF v3 THEN At(raw, 2) ELSE At(raw, 7),
         NEW offset, offset = IF v3 THEN 3 ELSE 8,
         NEW flags, flags = At(raw, offset)
  PROVE  LockAdvertisement(raw) = AdOutcome(raw, v3, protocol, version, scene, offset, flags)
BY Zenon DEF LockAdvertisement, AdOutcome

(* An advertisement of these protocols is of no type the reader refuses.    *)
LEMMA TypeIsNone ==
  ASSUME NEW x, NEW y, NEW z, Advertising(x, y, z)
  PROVE  LockType(x, y, z) # V2S /\ ~(x < 5)
BY DEF LockType, V2S, Advertising

(* The first two bytes are no other company's, and tell the two layouts     *)
(* apart.                                                                   *)
LEMMA Companies ==
  ASSUME NEW a \in {1, 5}, NEW b, NEW t, t = <<a, b>>
  PROVE  t \notin {<<18, 25>>, <<255, 255>>} /\ (t = <<5, 3>> <=> a = 5 /\ b = 3)
OBVIOUS

(* An advertisement by its fields.                                          *)
Announced(p, bolt, n, m, d, b, mac) ==
  [protocol |-> p, bolt |-> bolt, newRecords |-> n, settingMode |-> m, dormant |-> d,
   battery |-> b, mac |-> mac]

LEMMA BroadcastIs ==
  ASSUME NEW p, NEW s, NEW n, NEW m, NEW d, NEW b, NEW a, a = Broadcast(p, s, n, m, d, b)
  PROVE  /\ a = Announced(p, Some(s), n, m, d, b, <<1, 2, 3, 4, 5, 6>>)
         /\ a.protocol = p /\ a.bolt = Some(s) /\ a.newRecords = n /\ a.settingMode = m
         /\ a.dormant = d /\ a.battery = b /\ a.mac = <<1, 2, 3, 4, 5, 6>>
BY DEF Broadcast, Announced

(* What an advertisement is understood as: a dormant lock says nothing of   *)
(* its bolt.                                                                *)
LEMMA AdvertisementMeans ==
  ASSUME NEW p, NEW s, NEW n, NEW m, NEW d, NEW b, kind = "advertisement",
         meant = Broadcast(p, s, n, m, d, b)
  PROVE  /\ Understood = Announced(p, IF d THEN None ELSE Some(s), n, m, d, b, <<1, 2, 3, 4, 5, 6>>)
         /\ Sayable /\ kind \notin RequestKinds /\ kind # "page" /\ kind \notin ReplyKinds
<1>1. Understood = [meant EXCEPT !.bolt = IF meant.dormant THEN None ELSE @]
  BY DEF Understood
<1>2. PICK bolt : bolt = IF d THEN None ELSE Some(s)
  OBVIOUS
<1>3. meant = Announced(p, Some(s), n, m, d, b, <<1, 2, 3, 4, 5, 6>>)
      /\ meant.dormant = d /\ meant.bolt = Some(s)
  BY BroadcastIs
<1>4. Understood = [meant EXCEPT !.bolt = bolt]
  BY <1>1, <1>2, <1>3, Zenon
<1>5. Understood = Announced(p, bolt, n, m, d, b, <<1, 2, 3, 4, 5, 6>>)
  BY <1>3, <1>4 DEF Announced
<1>6. Sayable /\ kind \notin RequestKinds /\ kind # "page" /\ kind \notin ReplyKinds
  BY DEF Sayable, RequestKinds, ReplyKinds
<1> QED BY <1>2, <1>5, <1>6, Zenon

LEMMA AnnouncedFields ==
  ASSUME NEW p, NEW bolt, NEW n, NEW m, NEW d, NEW b, NEW mac, NEW v, v = Announced(p, bolt, n, m, d, b, mac)
  PROVE  /\ DOMAIN v = {"protocol", "bolt", "newRecords", "settingMode", "dormant", "battery", "mac"}
         /\ v.protocol = p /\ v.bolt = bolt /\ v.newRecords = n /\ v.settingMode = m
         /\ v.dormant = d /\ v.battery = b /\ v.mac = mac
BY DEF Announced

(* An advertisement that differs in its address alone.                      *)
SameButAddress(v, u) == \A f \in DOMAIN u : f = "mac" \/ v[f] = u[f]

(* Two advertisements that differ in the address alone.                     *)
LEMMA ButAddress ==
  ASSUME NEW p, NEW bolt, NEW n, NEW m, NEW d, NEW b, NEW mac, NEW other,
         NEW v, v = Announced(p, bolt, n, m, d, b, other), NEW u, u = Announced(p, bolt, n, m, d, b, mac)
  PROVE  SameButAddress(v, u)
BY DEF Announced, SameButAddress

(* What is read where the fields are.                                      *)
LEMMA AdRead ==
  ASSUME NEW x \in Byte, NEW y \in Byte, NEW z \in Byte, Advertising(x, y, z),
         NEW flags, NEW b, NEW offset, NEW raw, AdAt(raw, x, y, z, flags, b, offset)
  PROVE  LockAdvertisement(raw) =
           Some(Announced(<<x, y, z>>, IF Bit(flags, 4) THEN None ELSE Some(IF Bit(flags, 0) THEN UNLOCKED ELSE LOCKED),
                          Bit(flags, 1), Bit(flags, 2), Bit(flags, 4), b, Mac(From(raw, Len(raw) - 6))))
<1>1. raw \in Seq(Byte) /\ Len(raw) >= 15 /\ Len(raw) >= 2
  BY LengthIs DEF AdAt
<1>2. PICK t : t = <<raw[1], raw[2]>>
  OBVIOUS
<1>3. Slice(raw, 0, 2) = t
  BY <1>1, <1>2, FirstTwo
<1>4. raw[1] \in {1, 5}
  BY DEF AdAt
<1>5. t \notin {<<18, 25>>, <<255, 255>>} /\ (t = <<5, 3>> <=> raw[1] = 5 /\ raw[2] = 3)
  BY <1>2, <1>4, Companies
<1>6. PICK v3 : v3 = (Slice(raw, 0, 2) = <<5, 3>>)
  OBVIOUS
<1>7. v3 <=> raw[1] = 5 /\ raw[2] = 3
  BY <1>3, <1>5, <1>6
<1>8. PICK protocol : protocol = IF v3 THEN 5 ELSE At(raw, 4)
  OBVIOUS
<1>9. PICK version : version = IF v3 THEN 3 ELSE At(raw, 5)
  OBVIOUS
<1>10. PICK scene : scene = IF v3 THEN At(raw, 2) ELSE At(raw, 7)
  OBVIOUS
<1>11. PICK off : off = IF v3 THEN 3 ELSE 8
  OBVIOUS
<1>12. PICK fl : fl = At(raw, off)
  OBVIOUS
<1>13. LockAdvertisement(raw) = AdOutcome(raw, v3, protocol, version, scene, off, fl)
  BY <1>6, <1>8, <1>9, <1>10, <1>11, <1>12, LockAdvertisementIs
<1>14. protocol = x /\ version = y /\ scene = z /\ off = offset /\ off \in {3, 8}
  <2>1. CASE v3
    <3>1. offset = 3 /\ x = 5 /\ y = 3 /\ raw[3] = z
      BY <1>7, <2>1 DEF AdAt
    <3> QED BY <1>8, <1>9, <1>10, <1>11, <2>1, <3>1 DEF At
  <2>2. CASE ~v3
    <3>1. offset = 8 /\ raw[5] = x /\ raw[6] = y /\ raw[8] = z
      BY <1>7, <2>2 DEF AdAt
    <3> QED BY <1>8, <1>9, <1>10, <1>11, <2>2, <3>1 DEF At
  <2> QED BY <2>1, <2>2
<1>15. fl = flags /\ At(raw, off + 1) = b
  <2>1. raw[offset + 1] = flags /\ raw[offset + 2] = b
    BY DEF AdAt
  <2>2. offset + 1 + 1 = offset + 2
    BY <1>14
  <2> QED BY <1>12, <1>14, <2>1, <2>2 DEF At
<1>16. LockType(x, y, z) # V2S /\ ~(x < 5)
  BY TypeIsNone
<1>17. ~(Len(raw) < 15)
  BY <1>1, LengthIs
<1>18. LockAdvertisement(raw) = AdOutcome(raw, v3, x, y, z, off, flags)
  BY <1>13, <1>14, <1>15, Zenon
<1> QED BY <1>3, <1>5, <1>15, <1>16, <1>17, <1>18, Zenon DEF AdOutcome, Announced

LEMMA AdTooShort ==
  ASSUME NEW raw \in Seq(Byte), Len(raw) < 15
  PROVE  LockAdvertisement(raw) = None
BY Zenon DEF LockAdvertisement

SixBytes(t, a, b) == t = <<a, b, 0, 0, 0, 0>>

LEMMA SixBytesAre ==
  ASSUME NEW a \in Byte, NEW b \in Byte, NEW t, SixBytes(t, a, b)
  PROVE  t \in Seq(Byte) /\ Len(t) = 6 /\ t[1] = a /\ t[2] = b
BY DEF SixBytes, Byte

Pair(t, a, b) == t = <<a, b>>

LEMMA PairIs ==
  ASSUME NEW a \in Byte, NEW b \in Byte, NEW t, Pair(t, a, b)
  PROVE  t \in Seq(Byte) /\ Len(t) = 2 /\ t[1] = a /\ t[2] = b
BY DEF Pair

LEMMA TripleIs ==
  ASSUME NEW x \in Byte, NEW y \in Byte, NEW z \in Byte, NEW p, Triple(p, x, y, z)
  PROVE  p \in Seq(Byte) /\ Len(p) = 3 /\ p[1] = x /\ p[2] = y /\ p[3] = z
         /\ SubSeq(p, 1, 2) = <<x, y>>
<1>1. p \in Seq(Byte) /\ Len(p) = 3 /\ p[1] = x /\ p[2] = y /\ p[3] = z
  BY DEF Triple
<1>2. Len(p) >= 2
  BY <1>1
<1>3. Slice(p, 0, 2) = <<p[1], p[2]>>
  BY <1>1, <1>2, FirstTwo
<1>4. Slice(p, 0, 2) = SubSeq(p, 1, 2)
  BY <1>1 DEF Slice
<1> QED BY <1>1, <1>3, <1>4

Count4(t) == t = <<1, 2, 3, 4>>

LEMMA Count4Is ==
  ASSUME NEW t, Count4(t)
  PROVE  t \in Seq(Byte) /\ Len(t) = 4 /\ t[1] = 1
BY DEF Count4, Byte

(* What is in front of the address.                                        *)
AdHead(head, x, y, z, flags, b, offset) ==
  /\ head \in Seq(Byte) /\ Len(head) = (IF offset = 3 THEN 9 ELSE 10) /\ offset \in {3, 8}
  /\ \/ offset = 3 /\ x = 5 /\ y = 3 /\ head[1] = 5 /\ head[2] = 3 /\ head[3] = z
     \/ /\ offset = 8 /\ ~(x = 5 /\ y = 3) /\ head[1] = 1
        /\ head[5] = x /\ head[6] = y /\ head[8] = z
  /\ head[offset + 1] = flags /\ head[offset + 2] = b

(* The head of an advertisement of the new layout.                          *)
LEMMA NewHead ==
  ASSUME NEW x \in Byte, NEW y \in Byte, NEW z \in Byte, x = 5, y = 3, NEW p, Triple(p, x, y, z),
         NEW flags \in Byte, NEW b \in Byte, NEW t, SixBytes(t, flags, b), NEW head, head = p \o t
  PROVE  AdHead(head, x, y, z, flags, b, 3)
<1>1. p \in Seq(Byte) /\ Len(p) = 3 /\ p[1] = x /\ p[2] = y /\ p[3] = z
  BY TripleIs
<1>2. t \in Seq(Byte) /\ Len(t) = 6 /\ t[1] = flags /\ t[2] = b
  BY SixBytesAre
<1>3. /\ head \in Seq(Byte) /\ Len(head) = Len(p) + Len(t)
      /\ \A i \in 1..Len(p) : head[i] = p[i]
      /\ \A i \in 1..Len(t) : head[Len(p) + i] = t[i]
  BY <1>1, <1>2, Joined
<1>4. /\ Len(head) = 9
      /\ \A i \in 1..3 : head[i] = p[i]
      /\ \A i \in 1..6 : head[3 + i] = t[i]
  <2>1. Len(p) = 3 /\ Len(t) = 6
    BY <1>1, <1>2
  <2>2. Len(head) = 3 + 6
    BY <1>3, <2>1, Zenon
  <2>3. \A i \in 1..3 : head[i] = p[i]
    BY <1>3, <2>1, Zenon
  <2>4. \A i \in 1..6 : head[3 + i] = t[i]
    BY <1>3, <2>1, Zenon
  <2>5. Len(head) = 9
    BY <2>2
  <2> QED BY <2>5, <2>3, <2>4, Zenon
<1>5. head[1] = p[1] /\ head[2] = p[2] /\ head[3] = p[3] /\ head[3 + 1] = t[1] /\ head[3 + 2] = t[2]
  BY <1>4, SMTT(30)
<1>6. head[1] = 5 /\ head[2] = 3 /\ head[3] = z /\ head[3 + 1] = flags /\ head[3 + 2] = b
  BY <1>1, <1>2, <1>5, Zenon
<1>7. Len(head) = (IF 3 = 3 THEN 9 ELSE 10)
  BY <1>4, Zenon
<1> QED BY <1>3, <1>6, <1>7, Zenon DEF AdHead

(* The head of an advertisement of the old layout.                          *)
LEMMA OldHead ==
  ASSUME NEW x \in Byte, NEW y \in Byte, NEW z \in Byte, ~(x = 5 /\ y = 3),
         NEW flags \in Byte, NEW b \in Byte,
         NEW first, Count4(first), NEW xy, Pair(xy, x, y), NEW zero, Single(zero, 0), NEW third, Single(third, z),
         NEW last, Pair(last, flags, b), NEW head, FiveJoined(head, first, xy, zero, third, last)
  PROVE  AdHead(head, x, y, z, flags, b, 8)
<1>1. first \in Seq(Byte) /\ Len(first) = 4 /\ first[1] = 1
  BY Count4Is
<1>2. xy \in Seq(Byte) /\ Len(xy) = 2 /\ xy[1] = x /\ xy[2] = y
  BY PairIs
<1>3. zero \in Seq(Byte) /\ Len(zero) = 1
  BY SingleIs DEF Byte
<1>4. third \in Seq(Byte) /\ Len(third) = 1 /\ third[1] = z
  BY SingleIs
<1>5. last \in Seq(Byte) /\ Len(last) = 2 /\ last[1] = flags /\ last[2] = b
  BY PairIs
<1>6. FiveFields(head, first, xy, zero, third, last, 4, 6, 7, 8, 10)
  <2>1. PICK p \in Nat, q \in Nat, r \in Nat, s \in Nat, t \in Nat : p = 4 /\ q = 6 /\ r = 7 /\ s = 8 /\ t = 10
    OBVIOUS
  <2>2. /\ p = Len(first) /\ q = p + Len(xy) /\ r = q + Len(zero) /\ s = r + Len(third) /\ t = s + Len(last)
    BY <1>1, <1>2, <1>3, <1>4, <1>5, <2>1
  <2>3. FiveFields(head, first, xy, zero, third, last, p, q, r, s, t)
    BY <1>1, <1>2, <1>3, <1>4, <1>5, <2>2, FiveParts
  <2> QED BY <2>1, <2>3, Zenon
<1>7. /\ head \in Seq(Byte) /\ Len(head) = 10
      /\ Within(first, head, 0) /\ Within(xy, head, 4) /\ Within(third, head, 7) /\ Within(last, head, 8)
  BY <1>6 DEF FiveFields, FieldAt
<1>8. head[0 + 1] = first[1]
  BY <1>1, <1>7 DEF Within
<1>9. head[4 + 1] = xy[1] /\ head[4 + 2] = xy[2]
  BY <1>2, <1>7 DEF Within
<1>10. head[7 + 1] = third[1]
  BY <1>4, <1>7 DEF Within
<1>11. head[8 + 1] = last[1] /\ head[8 + 2] = last[2]
  BY <1>5, <1>7 DEF Within
<1> QED BY <1>1, <1>2, <1>4, <1>5, <1>7, <1>8, <1>9, <1>10, <1>11 DEF AdHead

LEMMA NineOrTen == \A h \in {9, 10} : h \in Nat /\ h <= 10
OBVIOUS

(* The whole of an advertisement.                                          *)
AdWhole(whole, head, address) ==
  \E h \in {9, 10} :
    /\ h = Len(head) /\ whole \in Seq(Byte) /\ Len(whole) = h + 6
    /\ \A i \in 1..h : whole[i] = head[i]
    /\ \A i \in 1..6 : whole[h + i] = address[i]

LEMMA HeadInWhole ==
  ASSUME NEW x, NEW y, NEW z, NEW flags, NEW b, NEW offset, NEW head, AdHead(head, x, y, z, flags, b, offset),
         NEW address \in Seq(Byte), Len(address) = 6, NEW whole, JoinedAs(whole, head, address)
  PROVE  AdWhole(whole, head, address)
<1>1. PICK h \in {9, 10} : h = Len(head)
  BY DEF AdHead
<1>2. head \in Seq(Byte)
  BY DEF AdHead
<1>3. /\ whole \in Seq(Byte) /\ Len(whole) = h + 6
      /\ \A i \in 1..h : whole[i] = head[i]
      /\ \A i \in 1..6 : whole[h + i] = address[i]
  <2>1. /\ whole \in Seq(Byte) /\ Len(whole) = Len(head) + Len(address)
        /\ \A i \in 1..Len(head) : whole[i] = head[i]
        /\ \A i \in 1..Len(address) : whole[Len(head) + i] = address[i]
    BY <1>2, Joined DEF JoinedAs
  <2>2. Len(head) = h
    BY <1>1
  <2> QED BY <2>1, <2>2, Zenon
<1> QED BY <1>1, <1>3 DEF AdWhole

(* What came of an advertisement has its head, or is too short.             *)
LEMMA HeadInRaw ==
  ASSUME NEW x, NEW y, NEW z, NEW flags, NEW b, NEW offset, NEW head, AdHead(head, x, y, z, flags, b, offset),
         NEW whole, NEW h \in {9, 10}, h = Len(head), Len(whole) = h + 6, \A i \in 1..h : whole[i] = head[i],
         NEW raw \in Seq(Byte), Agrees(raw, whole), Len(raw) >= 15
  PROVE  AdAt(raw, x, y, z, flags, b, offset)
<1>4. \A i \in 1..h : raw[i] = head[i]
  <2> TAKE i \in 1..h
  <2>0. Len(raw) \in Nat
    BY LengthIs
  <2>1. i \in 1..Len(raw) /\ i <= Len(whole)
    <3>1. h <= 10
      BY NineOrTen, Zenon
    <3> QED BY <2>0, <3>1
  <2> QED BY <2>1 DEF Agrees
<1>5. AdAt(raw, x, y, z, flags, b, offset)
  <2>1. CASE offset = 3
    <3>1. h = 9
      BY <2>1 DEF AdHead
    <3>2. raw[1] = head[1] /\ raw[2] = head[2] /\ raw[3] = head[3] /\ raw[3 + 1] = head[3 + 1] /\ raw[3 + 2] = head[3 + 2]
      BY <1>4, <3>1
    <3> QED BY <2>1, <3>2 DEF AdAt, AdHead
  <2>2. CASE offset = 8
    <3>1. h = 10
      BY <2>2 DEF AdHead
    <3>2. /\ raw[1] = head[1] /\ raw[5] = head[5] /\ raw[6] = head[6] /\ raw[8] = head[8]
          /\ raw[8 + 1] = head[8 + 1] /\ raw[8 + 2] = head[8 + 2]
      BY <1>4, <3>1
    <3> QED BY <2>2, <3>2 DEF AdAt, AdHead
  <2> QED BY <2>1, <2>2 DEF AdHead
<1> QED BY <1>5

LEMMA LastIs ==
  ASSUME NEW whole \in Seq(Byte), NEW part \in Seq(Byte), NEW h \in Nat, Within(part, whole, h),
         Len(whole) = h + Len(part)
  PROVE  From(whole, h) = part
<1>1. Slice(whole, h, Len(whole)) = part
  BY SliceIsBody
<1>2. Slice(whole, h, Len(whole)) = From(whole, h)
  BY LengthIs DEF Slice, From
<1> QED BY <1>1, <1>2

(* The last six bytes of a whole advertisement are its address.             *)
LEMMA AddressIs ==
  ASSUME NEW whole \in Seq(Byte), NEW address \in Seq(Byte), Len(address) = 6,
         NEW h \in Nat, Len(whole) = h + 6, \A i \in 1..6 : whole[h + i] = address[i]
  PROVE  From(whole, Len(whole) - 6) = address
<1>1. Len(whole) - 6 = h
  OBVIOUS
<1>2. Within(address, whole, h) /\ Len(whole) = h + Len(address)
  BY DEF Within
<1>3. From(whole, h) = address
  BY <1>2, LastIs
<1> QED BY <1>1, <1>3

LEMMA PairsEqual ==
  ASSUME NEW a, NEW b, NEW t, t = <<a, b>>
  PROVE  t = <<5, 3>> <=> a = 5 /\ b = 3
OBVIOUS

AdMade(a, x, y, z, flags, b) ==
  \E head, offset : AdHead(head, x, y, z, flags, b, offset) /\ Advertised(a) = head \o Mac(a.mac)

(* What a lock advertises, in either layout.                                *)
LEMMA AdvertisedIs ==
  ASSUME NEW p, NEW x \in Byte, NEW y \in Byte, NEW z \in Byte, Triple(p, x, y, z), Advertising(x, y, z),
         NEW a, a.protocol = p, NEW flags \in Byte, flags = Flags(a), NEW b \in Byte, a.battery = b
  PROVE  AdMade(a, x, y, z, flags, b)
<1>1. /\ p[3] = z /\ SubSeq(p, 1, 2) = <<x, y>>
  BY TripleIs
<1>2. <<x, y>> = <<5, 3>> <=> x = 5 /\ y = 3
  BY PairsEqual
<1>3. Advertised(a) =
        (IF SubSeq(p, 1, 2) = <<5, 3>>
         THEN p \o <<flags, b, 0, 0, 0, 0>>
         ELSE <<1, 2, 3, 4>> \o SubSeq(p, 1, 2) \o <<0>> \o <<p[3]>> \o <<flags, b>>)
        \o Mac(a.mac)
  BY Zenon DEF Advertised
<1>4. CASE x = 5 /\ y = 3
  <2>1. PICK t : SixBytes(t, flags, b)
    BY DEF SixBytes
  <2>2. PICK head : head = p \o t
    OBVIOUS
  <2>3. AdHead(head, x, y, z, flags, b, 3)
    BY <1>4, <2>1, <2>2, NewHead
  <2>4. Advertised(a) = head \o Mac(a.mac)
    BY <1>1, <1>2, <1>3, <1>4, <2>1, <2>2, Zenon DEF SixBytes
  <2> QED BY <2>3, <2>4, Zenon DEF AdMade
<1>5. CASE ~(x = 5 /\ y = 3)
  <2>1. PICK first : Count4(first)
    BY DEF Count4
  <2>2. PICK xy : Pair(xy, x, y)
    BY DEF Pair
  <2>3. PICK zero : Single(zero, 0)
    BY DEF Single
  <2>4. PICK third : Single(third, z)
    BY DEF Single
  <2>5. PICK last : Pair(last, flags, b)
    BY DEF Pair
  <2>6. PICK head : FiveJoined(head, first, xy, zero, third, last)
    BY DEF FiveJoined
  <2>7. AdHead(head, x, y, z, flags, b, 8)
    BY <1>5, <2>1, <2>2, <2>3, <2>4, <2>5, <2>6, OldHead
  <2>8. Advertised(a) = head \o Mac(a.mac)
    BY <1>1, <1>2, <1>3, <1>5, <2>1, <2>2, <2>3, <2>4, <2>5, <2>6, Zenon DEF Count4, Pair, Single, FiveJoined
  <2> QED BY <2>7, <2>8, Zenon DEF AdMade
<1> QED BY <1>4, <1>5

AdDecoded(raw) ==
  IF LockAdvertisement(raw) = None THEN Raises("nothing to report") ELSE Returns(LockAdvertisement(raw)[1])

(* The reader and the writer of an advertisement.                           *)
LEMMA AdvertisementRuns ==
  kind = "advertisement" => Decode(wire) = AdDecoded(wire) /\ Whole = Advertised(meant)
<1>1. kind = "advertisement" => Whole = Advertised(meant)
  BY DEF Whole, Bytes
<1>2. kind = "advertisement" => Decode(wire) = AdDecoded(wire)
  BY DEF Decode, AdDecoded, KeyKinds
<1> QED BY <1>1, <1>2

(* What of an advertisement withstands being longer or shorter.             *)
LEMMA AddressAlone ==
  ASSUME kind = "advertisement", NEW v, SameButAddress(v, Understood), DOMAIN meant = DOMAIN Understood,
         NEW f \in DOMAIN meant
  PROVE  Withstands(f, v[f]) /\ SentOrMissing(f, v[f])
<1>1. f = "mac" \/ v[f] = Understood[f]
  BY DEF SameButAddress
<1>2. CASE f = "mac"
  BY <1>2 DEF Withstands, SentOrMissing, Outgrown
<1>3. CASE f # "mac"
  <2>1. v[f] = Understood[f]
    BY <1>1, <1>3
  <2>2. Withstands(f, v[f])
    BY <2>1 DEF Withstands
  <2>3. SentOrMissing(f, v[f])
    BY <2>1, <1>3 DEF SentOrMissing
  <2> QED BY <2>2, <2>3
<1> QED BY <1>2, <1>3

(* The three properties hold of a advertisement, in every form and once it  *)
(* was read.                                                                *)
LEMMA AdvertisementKept == IInv /\ kind = "advertisement" => Kept
<1> SUFFICES ASSUME IInv, kind = "advertisement" PROVE Kept
  OBVIOUS
<1>1. message \in Advertisements
  BY GroupOf DEF IInv
<1>2. PICK p \in Protocols, s \in {0, 1}, n \in BOOLEAN, m \in BOOLEAN, d \in BOOLEAN, b \in Levels :
           meant = Broadcast(p, s, n, m, d, b)
  BY <1>1, AdvertisementsSay
<1>3. PICK x \in Byte, y \in Byte, z \in Byte : Triple(p, x, y, z) /\ Advertising(x, y, z)
  BY <1>2, ProtocolsAre
<1>4. PICK mac : mac = <<1, 2, 3, 4, 5, 6>>
  OBVIOUS
<1>5. mac \in Seq(Byte) /\ Len(mac) = 6
  BY <1>4, TheMac
<1>6. /\ meant = Announced(p, Some(s), n, m, d, b, mac)
      /\ meant.protocol = p /\ meant.bolt = Some(s) /\ meant.newRecords = n /\ meant.settingMode = m
      /\ meant.dormant = d /\ meant.battery = b /\ meant.mac = mac
  BY <1>2, <1>4, BroadcastIs
<1>7. PICK bolt : bolt = IF d THEN None ELSE Some(s)
  OBVIOUS
<1>8. /\ Understood = Announced(p, bolt, n, m, d, b, mac)
      /\ Sayable /\ kind \notin RequestKinds /\ kind # "page" /\ kind \notin ReplyKinds
  BY <1>2, <1>4, <1>7, AdvertisementMeans
<1>9. b \in Byte
  BY <1>2, LevelsAre
<1>10. PICK flags : flags = Flags(meant)
  OBVIOUS
<1>11. /\ flags \in Byte
       /\ Bit(flags, 0) <=> s = 1 /\ ~d
       /\ Bit(flags, 1) <=> n
       /\ Bit(flags, 2) <=> m
       /\ Bit(flags, 4) <=> d
  <2>1. s \in {0, 1} /\ n \in BOOLEAN /\ m \in BOOLEAN /\ d \in BOOLEAN
    BY <1>2
  <2> QED BY <1>6, <1>10, <2>1, FlagsAre
<1>12. PICK head, offset : AdHead(head, x, y, z, flags, b, offset) /\ Advertised(meant) = head \o Mac(meant.mac)
  <2>1. x \in Byte /\ y \in Byte /\ z \in Byte /\ flags \in Byte /\ b \in Byte
    BY <1>3, <1>9, <1>11
  <2>2. meant.protocol = p /\ meant.battery = b
    BY <1>6
  <2>3. PICK a : a = meant
    OBVIOUS
  <2>4. a.protocol = p /\ a.battery = b /\ flags = Flags(a)
    BY <1>10, <2>2, <2>3
  <2>5. AdMade(a, x, y, z, flags, b)
    BY <1>3, <2>1, <2>4, AdvertisedIs
  <2> QED BY <2>3, <2>5, Zenon DEF AdMade
<1>13. PICK address : address = Mac(mac)
  OBVIOUS
<1>14. address \in Seq(Byte) /\ Len(address) = 6 /\ Mac(address) = mac
  BY <1>5, <1>13, MacIs, MacBack
<1>15. Whole = head \o address
  BY <1>6, <1>12, <1>13, AdvertisementRuns, Zenon
<1>16. PICK h \in {9, 10} :
          /\ h = Len(head) /\ Whole \in Seq(Byte) /\ Len(Whole) = h + 6
          /\ \A i \in 1..h : Whole[i] = head[i]
          /\ \A i \in 1..6 : Whole[h + i] = address[i]
  <2>1. AdHead(head, x, y, z, flags, b, offset)
    BY <1>12
  <2>2. address \in Seq(Byte) /\ Len(address) = 6
    BY <1>14
  <2>3. JoinedAs(Whole, head, address)
    BY <1>15 DEF JoinedAs
  <2>4. AdWhole(Whole, head, address)
    BY <2>1, <2>2, <2>3, HeadInWhole
  <2> QED BY <2>4, Zenon DEF AdWhole
<1>17. Whole \in Seq(Byte) /\ From(Whole, Len(Whole) - 6) = address
  <2>1. h \in Nat
    BY <1>16
  <2> QED BY <1>14, <1>16, <2>1, AddressIs
<1>18. Len(Whole) \in Nat /\ Len(Whole) >= 15
  BY <1>16
<1>19. PICK decoded : decoded = Decode(wire)
  OBVIOUS
<1>20. decoded = AdDecoded(wire)
  BY <1>19, AdvertisementRuns
<1>21. ASSUME Came(form.how, wire, Whole), Len(wire) < 15
       PROVE  ~Returned(decoded)
  <2>1. LockAdvertisement(wire) = None
    BY <1>21, AdTooShort DEF Came
  <2> QED BY <1>20, <2>1 DEF AdDecoded, Returned, Raises
<1>22. ASSUME Came(form.how, wire, Whole), ~(Len(wire) < 15)
       PROVE  decoded = Returns(Announced(p, bolt, n, m, d, b, Mac(From(wire, Len(wire) - 6))))
  <2>1. wire \in Seq(Byte) /\ Agrees(wire, Whole) /\ Len(wire) >= 15
    BY <1>22 DEF Came
  <2>2. AdAt(wire, x, y, z, flags, b, offset)
    BY <1>12, <1>16, <2>1, HeadInRaw
  <2>3. LockAdvertisement(wire) =
           Some(Announced(<<x, y, z>>, IF Bit(flags, 4) THEN None ELSE Some(IF Bit(flags, 0) THEN UNLOCKED ELSE LOCKED),
                          Bit(flags, 1), Bit(flags, 2), Bit(flags, 4), b, Mac(From(wire, Len(wire) - 6))))
    BY <1>3, <2>2, AdRead
  <2>4. Bit(flags, 1) = n /\ Bit(flags, 2) = m /\ Bit(flags, 4) = d
    <3>1. Bit(flags, 1) \in BOOLEAN /\ Bit(flags, 2) \in BOOLEAN /\ Bit(flags, 4) \in BOOLEAN
      BY DEF Bit
    <3>2. n \in BOOLEAN /\ m \in BOOLEAN /\ d \in BOOLEAN
      BY <1>2
    <3> QED BY <1>11, <3>1, <3>2, Zenon
  <2>5. bolt = IF Bit(flags, 4) THEN None ELSE Some(IF Bit(flags, 0) THEN UNLOCKED ELSE LOCKED)
    <3>1. s \in {0, 1}
      BY <1>2
    <3>2. CASE d
      BY <1>7, <1>11, <3>2, Zenon
    <3>3. CASE ~d
      <4>1. s = IF Bit(flags, 0) THEN UNLOCKED ELSE LOCKED
        BY <1>11, <3>1, <3>3 DEF UNLOCKED, LOCKED
      <4> QED BY <1>7, <1>11, <3>3, <4>1, Zenon
    <3> QED BY <3>2, <3>3
  <2>6. p = <<x, y, z>>
    BY <1>3 DEF Triple
  <2>7. LockAdvertisement(wire) = Some(Announced(p, bolt, n, m, d, b, Mac(From(wire, Len(wire) - 6))))
    BY <2>3, <2>4, <2>5, <2>6, Zenon
  <2>8. AdDecoded(wire) = Returns(LockAdvertisement(wire)[1])
    BY <2>7 DEF AdDecoded, Some, None
  <2>9. LockAdvertisement(wire)[1] = Announced(p, bolt, n, m, d, b, Mac(From(wire, Len(wire) - 6)))
    BY <2>7 DEF Some
  <2> QED BY <1>20, <2>8, <2>9, Zenon
<1>23. ASSUME Came(form.how, wire, Whole), Returned(decoded), NEW f \in DOMAIN meant
       PROVE  Withstands(f, decoded.value[f]) /\ SentOrMissing(f, decoded.value[f])
  <2>1. decoded = Returns(Announced(p, bolt, n, m, d, b, Mac(From(wire, Len(wire) - 6))))
    BY <1>21, <1>22, <1>23
  <2>2. decoded.value = Announced(p, bolt, n, m, d, b, Mac(From(wire, Len(wire) - 6)))
    BY <2>1 DEF Returns
  <2>3. SameButAddress(decoded.value, Understood)
    BY <1>8, <2>2, ButAddress
  <2>4. DOMAIN meant = DOMAIN Understood
    BY <1>6, <1>8, AnnouncedFields
  <2> QED BY <1>23, <2>3, <2>4, AddressAlone
<1>24. form.how \in {"whole", "cut", "extended"} => Came(form.how, wire, Whole)
  BY <1>17, Arrival
<1>25. form.how = "whole" => /\ Returned(decoded) <=> Sayable
                             /\ Returned(decoded) => decoded.value = Understood
  <2> HAVE form.how = "whole"
  <2>1. Came(form.how, wire, Whole) /\ wire = Whole
    BY <1>24 DEF Came
  <2>2. ~(Len(wire) < 15)
    BY <1>18, <2>1
  <2>3. decoded = Returns(Announced(p, bolt, n, m, d, b, Mac(From(Whole, Len(Whole) - 6))))
    BY <1>22, <2>1, <2>2, Zenon
  <2>4. decoded = Returns(Understood)
    BY <1>8, <1>14, <1>17, <2>3, Zenon
  <2> QED BY <1>8, <2>4 DEF Returned, Returns
<1>26. form.how # "refused"
  BY <1>8, ReadKinds
<1>27. ReadAsSent /\ NothingIsMadeUp
  <2>1. form.how = "extended" /\ Returned(decoded) => \A f \in DOMAIN meant : Withstands(f, decoded.value[f])
    BY <1>23, <1>24
  <2>2. form.how = "cut" /\ Returned(decoded) =>
           IF kind = "page" THEN FirstEntries(decoded.value)
           ELSE \A f \in DOMAIN meant : SentOrMissing(f, decoded.value[f])
    BY <1>8, <1>23, <1>24
  <2> QED BY <1>8, <1>19, <1>25, <1>26, <2>1, <2>2, Clauses
<1>28. RecordsDoNotRunTogether
  BY <1>8, NotAPage
<1> QED BY <1>27, <1>28 DEF Kept

----------------------------------------------------------------------------
(* Requests: what the client writes and the lock reads.                     *)

(* A request is built of what is meant, and the lock reads it.              *)
LEMMA RequestWhole ==
  ASSUME IInv, kind \in RequestKinds
  PROVE  form.how = "whole" /\ kind # "page" /\ (outcome = Pending \/ Answered)
<1>1. form.how \notin {"cut", "extended", "shorter", "longer"}
  <2>1. kind # "page"
    BY DEF RequestKinds
  <2> QED BY <2>1, ReadKinds
<1>2. form.how # "refused"
  <2>1. kind \notin ReplyKinds
    BY DEF RequestKinds, ReplyKinds
  <2> QED BY <2>1, ReadKinds
<1>3. form.how = "whole"
  BY <1>1, <1>2 DEF IInv, WireInv
<1>4. outcome = Pending \/ Answered
  BY DEF IInv, OutcomeInv, Heard
<1> QED BY <1>3, <1>4 DEF RequestKinds

(* The client builds what the lock reads as meant, or raises for what       *)
(* cannot be said.                                                          *)
BuiltAs(built, sayable) ==
  IF sayable THEN \E raw : built = Returns(raw) /\ LockReads(kind, meant, raw) = Understood
  ELSE ~Returned(built)

(* The properties of a request that is built so.                            *)
LEMMA RequestKept ==
  ASSUME IInv, kind \in RequestKinds, BuiltAs(Built(kind, meant), Sayable)
  PROVE  Kept
<1>1. form.how = "whole" /\ kind # "page" /\ (outcome = Pending \/ Answered)
  BY RequestWhole
<1>2. PICK built : built = Built(kind, meant)
  OBVIOUS
<1>3. Answered => outcome = IF Returned(built) THEN Returns(LockReads(kind, meant, built.value)) ELSE built
  BY <1>2, Zenon DEF Answered
<1>4. ASSUME Answered
      PROVE  /\ Returned(outcome) <=> Sayable
             /\ Returned(outcome) => read = Understood
  <2>1. CASE Sayable
    <3>1. PICK raw : built = Returns(raw) /\ LockReads(kind, meant, raw) = Understood
      BY <1>2, <2>1, Zenon DEF BuiltAs
    <3>2. Returned(built) /\ built.value = raw
      BY <3>1 DEF Returned, Returns
    <3>3. outcome = Returns(Understood)
      BY <1>3, <1>4, <3>1, <3>2, Zenon
    <3>4. Returned(outcome) /\ outcome.value = Understood
      BY <3>3 DEF Returned, Returns
    <3> QED BY <2>1, <3>4, Zenon DEF read
  <2>2. CASE ~Sayable
    <3>1. ~Returned(built)
      BY <1>2, <2>2, Zenon DEF BuiltAs
    <3> QED BY <1>3, <1>4, <2>2, <3>1, Zenon
  <2> QED BY <2>1, <2>2
<1>5. ReadAsSent
  <2>1. Has("whole") => Answered
    BY <1>1 DEF Has
  <2>2. ~Has("extended")
    BY <1>1 DEF Has
  <2> QED BY <1>4, <2>1, <2>2, Zenon DEF ReadAsSent
<1>6. NothingIsMadeUp
  <2>1. ~Has("refused") /\ ~Has("cut")
    BY <1>1 DEF Has
  <2> QED BY <2>1, Zenon DEF NothingIsMadeUp
<1>7. RecordsDoNotRunTogether
  BY <1>1, NotAPage
<1> QED BY <1>5, <1>6, <1>7 DEF Kept

(* What is asked of a lock.                                                *)
LEMMA AskedSay ==
  ASSUME message \in Asked
  PROVE  /\ kind = "checkUserTime" => \E u \in Ids \cup LongIds, f \in Ids : meant = [uid |-> u, flag |-> f]
         /\ kind = "checkAdmin" => \E u \in Ids, a \in Ids \cup LongIds, f \in Ids :
                                     meant = [uid |-> u, adminPs |-> a, flag |-> f]
         /\ kind = "checkRandom" => \E t \in Ids, k \in Ids : meant = [token |-> Padded(4, t), key |-> Padded(4, k)]
         /\ kind = "setSound" => \E e \in BOOLEAN : meant = [enabled |-> e]
         /\ kind = "unlock" => \E t \in Ids, k \in Ids, e \in Ids \cup LongIds :
                                 meant = [token |-> Padded(4, t), key |-> Padded(4, k), epoch |-> e]
         /\ kind = "calibrate" => \E t \in Stamps : meant = [time |-> t]
<1>1. kind = "checkUserTime" => \E u \in Ids \cup LongIds, f \in Ids : meant = [uid |-> u, flag |-> f]
  BY DEF Asked, Means, kind, meant
<1>2. kind = "checkAdmin" => \E u \in Ids, a \in Ids \cup LongIds, f \in Ids :
                                     meant = [uid |-> u, adminPs |-> a, flag |-> f]
  BY DEF Asked, Means, kind, meant
<1>3. kind = "checkRandom" => \E t \in Ids, k \in Ids : meant = [token |-> Padded(4, t), key |-> Padded(4, k)]
  BY DEF Asked, Means, kind, meant
<1>4. kind = "setSound" => \E e \in BOOLEAN : meant = [enabled |-> e]
  BY DEF Asked, Means, kind, meant
<1>5. kind = "unlock" => \E t \in Ids, k \in Ids, e \in Ids \cup LongIds :
                                 meant = [token |-> Padded(4, t), key |-> Padded(4, k), epoch |-> e]
  BY DEF Asked, Means, kind, meant
<1>6. kind = "calibrate" => \E t \in Stamps : meant = [time |-> t]
  BY DEF Asked, Means, kind, meant
<1> QED BY <1>1, <1>2, <1>3, <1>4, <1>5, <1>6

(* What the other requests mean.                                            *)
LEMMA AlsoAsked ==
  ASSUME message \in Asked
  PROVE  /\ kind = "autoLockSet" => \E s \in Delays : meant = [seconds |-> s]
         /\ kind = "volume" => \E l \in 0..6 : meant = [level |-> l]
         /\ kind = "passcodeAdd" => \E t \in {PERMANENT, PERIOD}, c \in Codes \cup BadCodes :
              meant = [type |-> t, code |-> c, start |-> <<25, 1, 1, 0, 0>>, end |-> <<26, 12, 31, 0, 0>>]
         /\ kind = "passcodeDelete" => \E c \in Codes \cup BadCodes : meant = [type |-> PERMANENT, code |-> c]
         /\ kind = "cursor" => \E o \in {<<>>, <<1>>, <<6>>}, n \in Ids \cup LongIds :
              meant = [operation |-> o, number |-> n]
<1>1. kind = "autoLockSet" => \E s \in Delays : meant = [seconds |-> s]
  BY DEF Asked, Means, kind, meant
<1>2. kind = "volume" => \E l \in 0..6 : meant = [level |-> l]
  BY DEF Asked, Means, kind, meant
<1>3. kind = "passcodeAdd" => \E t \in {PERMANENT, PERIOD}, c \in Codes \cup BadCodes :
              meant = [type |-> t, code |-> c, start |-> <<25, 1, 1, 0, 0>>, end |-> <<26, 12, 31, 0, 0>>]
  BY DEF Asked, Means, kind, meant
<1>4. kind = "passcodeDelete" => \E c \in Codes \cup BadCodes : meant = [type |-> PERMANENT, code |-> c]
  BY DEF Asked, Means, kind, meant
<1>5. kind = "cursor" => \E o \in {<<>>, <<1>>, <<6>>}, n \in Ids \cup LongIds :
              meant = [operation |-> o, number |-> n]
  BY DEF Asked, Means, kind, meant
<1> QED BY <1>1, <1>2, <1>3, <1>4, <1>5

(* A digit of a sum taken off again.                                       *)
DigitOf(t, k, c, s, o) == s = (t + k + c) % 256 /\ o = (t + k + c) \div 256

(* One byte of a sum, taken apart again: the carry it made is the borrow it *)
(* needs.                                                                   *)
LEMMA DigitBack ==
  ASSUME NEW t \in Byte, NEW k \in Byte, NEW c \in {0, 1}, NEW s, NEW o, DigitOf(t, k, c, s, o)
  PROVE  /\ s \in Byte /\ o \in {0, 1}
         /\ (s - k - c + 256) % 256 = t
         /\ s - k - c < 0 <=> o = 1
<1>1. t \in Nat /\ k \in Nat /\ t <= 255 /\ k <= 255 /\ t + k + c <= 511 /\ t + k + c \in Nat
  BY DEF Byte
<1>2. CASE t + k + c < 256
  <2>1. s = t + k + c /\ o = 0
    BY <1>1, <1>2 DEF DigitOf
  <2>2. s - k - c + 256 = t + 256
    BY <1>1, <2>1
  <2>3. (t + 256) % 256 = t
    BY <1>1
  <2>4. s \in Byte
    BY <1>1, <1>2, <2>1 DEF Byte
  <2>5. ~(s - k - c < 0)
    BY <1>1, <2>1
  <2> QED BY <2>1, <2>2, <2>3, <2>4, <2>5
<1>3. CASE ~(t + k + c < 256)
  <2>1. s = t + k + c - 256 /\ o = 1
    BY <1>1, <1>3 DEF DigitOf
  <2>2. s - k - c + 256 = t
    BY <1>1, <2>1
  <2>3. t % 256 = t
    BY <1>1
  <2>4. s \in Byte
    BY <1>1, <1>3, <2>1 DEF Byte
  <2>5. s - k - c < 0
    BY <1>1, <2>1
  <2> QED BY <2>1, <2>2, <2>3, <2>4, <2>5
<1> QED BY <1>2, <1>3

(* The carries, and the borrows, from the last byte on.                     *)
CarriesOf(token, key, carry) ==
  carry = [i \in 1..5 |-> IF i >= 4 THEN 0 ELSE (token[i + 1] + key[i + 1] + carry[i + 1]) \div 256]

(* The borrows of a subtraction, from the last byte on.                     *)
BorrowsOf(sum, key, borrow) ==
  borrow = [i \in 1..5 |-> IF i >= 4 THEN 0
                           ELSE IF sum[i + 1] - key[i + 1] - borrow[i + 1] < 0 THEN 1 ELSE 0]

LEMMA CarriesExist ==
  ASSUME NEW token, NEW key
  PROVE  \E carry : CarriesOf(token, key, carry)
<1>1. PICK c3 : c3 = (token[4] + key[4] + 0) \div 256
  OBVIOUS
<1>2. PICK c2 : c2 = (token[3] + key[3] + c3) \div 256
  OBVIOUS
<1>3. PICK c1 : c1 = (token[2] + key[2] + c2) \div 256
  OBVIOUS
<1>4. PICK f : f = [i \in 1..5 |-> IF i = 1 THEN c1 ELSE IF i = 2 THEN c2 ELSE IF i = 3 THEN c3 ELSE 0]
  OBVIOUS
<1>5. f[1] = c1 /\ f[2] = c2 /\ f[3] = c3 /\ f[4] = 0 /\ f[5] = 0
  BY <1>4
<1>6. ASSUME NEW i \in 1..5
      PROVE  f[i] = IF i >= 4 THEN 0 ELSE (token[i + 1] + key[i + 1] + f[i + 1]) \div 256
  <2>1. CASE i = 1
    BY <1>3, <1>5, <2>1
  <2>2. CASE i = 2
    BY <1>2, <1>5, <2>2
  <2>3. CASE i = 3
    BY <1>1, <1>5, <2>3
  <2>4. CASE i = 4
    BY <1>5, <2>4
  <2>5. CASE i = 5
    BY <1>5, <2>5
  <2> QED BY <2>1, <2>2, <2>3, <2>4, <2>5
<1>7. f = [i \in 1..5 |-> f[i]]
  BY <1>4
<1>8. [i \in 1..5 |-> f[i]] =
        [i \in 1..5 |-> IF i >= 4 THEN 0 ELSE (token[i + 1] + key[i + 1] + f[i + 1]) \div 256]
  BY <1>6, Zenon
<1>9. CarriesOf(token, key, f)
  BY <1>7, <1>8, Zenon DEF CarriesOf
<1> QED BY <1>9

LEMMA BorrowsExist ==
  ASSUME NEW sum, NEW key
  PROVE  \E borrow : BorrowsOf(sum, key, borrow)
<1>1. PICK c3 : c3 = IF sum[4] - key[4] - 0 < 0 THEN 1 ELSE 0
  OBVIOUS
<1>2. PICK c2 : c2 = IF sum[3] - key[3] - c3 < 0 THEN 1 ELSE 0
  OBVIOUS
<1>3. PICK c1 : c1 = IF sum[2] - key[2] - c2 < 0 THEN 1 ELSE 0
  OBVIOUS
<1>4. PICK f : f = [i \in 1..5 |-> IF i = 1 THEN c1 ELSE IF i = 2 THEN c2 ELSE IF i = 3 THEN c3 ELSE 0]
  OBVIOUS
<1>5. f[1] = c1 /\ f[2] = c2 /\ f[3] = c3 /\ f[4] = 0 /\ f[5] = 0
  BY <1>4
<1>6. ASSUME NEW i \in 1..5
      PROVE  f[i] = IF i >= 4 THEN 0
                    ELSE IF sum[i + 1] - key[i + 1] - f[i + 1] < 0 THEN 1 ELSE 0
  <2>1. CASE i = 1
    BY <1>3, <1>5, <2>1
  <2>2. CASE i = 2
    BY <1>2, <1>5, <2>2
  <2>3. CASE i = 3
    BY <1>1, <1>5, <2>3
  <2>4. CASE i = 4
    BY <1>5, <2>4
  <2>5. CASE i = 5
    BY <1>5, <2>5
  <2> QED BY <2>1, <2>2, <2>3, <2>4, <2>5
<1>7. f = [i \in 1..5 |-> f[i]]
  BY <1>4
<1>8. [i \in 1..5 |-> f[i]] =
        [i \in 1..5 |-> IF i >= 4 THEN 0
                        ELSE IF sum[i + 1] - key[i + 1] - f[i + 1] < 0 THEN 1 ELSE 0]
  BY <1>6, Zenon
<1>9. BorrowsOf(sum, key, f)
  BY <1>7, <1>8, Zenon DEF BorrowsOf
<1> QED BY <1>9

(* A wrapped sum by its carries.                                            *)
LEMMA SumIs ==
  ASSUME NEW token, NEW key
  PROVE  \E carry : /\ CarriesOf(token, key, carry)
                    /\ WrappedSum(token, key) = [i \in 1..4 |-> (token[i] + key[i] + carry[i]) % 256]
<1> DEFINE carry == CHOOSE f : CarriesOf(token, key, f)
<1>1. CarriesOf(token, key, carry)
  BY CarriesExist, Zenon
<1>2. WrappedSum(token, key) = [i \in 1..4 |-> (token[i] + key[i] + carry[i]) % 256]
  BY Zenon DEF WrappedSum, CarriesOf
<1> QED BY <1>1, <1>2

(* A subtraction by its borrows.                                            *)
LEMMA MinusIs ==
  ASSUME NEW sum, NEW key
  PROVE  \E borrow : /\ BorrowsOf(sum, key, borrow)
                     /\ Minus(sum, key) = [i \in 1..4 |-> (sum[i] - key[i] - borrow[i] + 256) % 256]
<1> DEFINE borrow == CHOOSE f : BorrowsOf(sum, key, f)
<1>1. BorrowsOf(sum, key, borrow)
  BY BorrowsExist, Zenon
<1>2. Minus(sum, key) = [i \in 1..4 |-> (sum[i] - key[i] - borrow[i] + 256) % 256]
  BY Zenon DEF Minus, BorrowsOf
<1> QED BY <1>1, <1>2

(* One place of the sum and of the difference.                             *)
PlaceBack(token, key, sum, carry, borrow, i) ==
  /\ sum[i] \in Byte
  /\ borrow[i] = carry[i]
  /\ (sum[i] - key[i] - borrow[i] + 256) % 256 = token[i]

(* A function on the numbers up to m is a sequence of length m.              *)
LEMMA FunctionIsSeq ==
  ASSUME NEW S, NEW m \in Nat, NEW F \in [1..m -> S]
  PROVE  F \in Seq(S) /\ Len(F) = m
OBVIOUS

(* Four bytes.                                                              *)
FourOf(s) == s \in Seq(Byte) /\ Len(s) = 4

LEMMA FourFromFunction ==
  ASSUME NEW F, F \in [1..4 -> Byte]
  PROVE  FourOf(F)
<1>1. PICK m \in Nat : m = 4
  OBVIOUS
<1>2. F \in [1..m -> Byte]
  BY <1>1, Zenon
<1>3. F \in Seq(Byte) /\ Len(F) = m
  BY <1>2, FunctionIsSeq
<1> QED BY <1>1, <1>3 DEF FourOf

LEMMA FourOfBytes ==
  ASSUME NEW s, FourOf(s)
  PROVE  s[1] \in Byte /\ s[2] \in Byte /\ s[3] \in Byte /\ s[4] \in Byte
<1>1. s \in Seq(Byte) /\ Len(s) = 4
  BY DEF FourOf
<1>2. \A i \in 1..Len(s) : s[i] \in Byte
  BY <1>1, LengthIs
<1>3. \A i \in 1..4 : s[i] \in Byte
  BY <1>1, <1>2, Zenon
<1> QED BY <1>3

(* A place, when the one behind it is right.                                *)
LEMMA OnePlace ==
  ASSUME NEW t \in Byte, NEW k \in Byte, NEW c \in {0, 1}, NEW s, s = (t + k + c) % 256, NEW b, b = c
  PROVE  s \in Byte /\ (s - k - b + 256) % 256 = t
         /\ (IF s - k - b < 0 THEN 1 ELSE 0) = (t + k + c) \div 256
         /\ (t + k + c) \div 256 \in {0, 1}
<1>1. PICK o : o = (t + k + c) \div 256
  OBVIOUS
<1>2. DigitOf(t, k, c, s, o)
  BY <1>1 DEF DigitOf
<1>3. /\ s \in Byte /\ o \in {0, 1}
      /\ (s - k - c + 256) % 256 = t
      /\ s - k - c < 0 <=> o = 1
  BY <1>2, DigitBack
<1> QED BY <1>1, <1>3

(* The lock takes the key off the wrapped sum and has the token.            *)
LEMMA SumBack ==
  ASSUME NEW token, FourOf(token), NEW key, FourOf(key), NEW sum, sum = WrappedSum(token, key)
  PROVE  FourOf(sum) /\ Minus(sum, key) = token
<1>1. PICK carry : CarriesOf(token, key, carry)
                   /\ sum = [i \in 1..4 |-> (token[i] + key[i] + carry[i]) % 256]
  BY SumIs
<1>2. PICK borrow : BorrowsOf(sum, key, borrow)
                    /\ Minus(sum, key) = [i \in 1..4 |-> (sum[i] - key[i] - borrow[i] + 256) % 256]
  BY MinusIs
<1>3. /\ carry[4] = 0 /\ carry[3] = (token[4] + key[4] + carry[4]) \div 256
      /\ carry[2] = (token[3] + key[3] + carry[3]) \div 256
      /\ carry[1] = (token[2] + key[2] + carry[2]) \div 256
  <2>1. \A i \in 1..5 : carry[i] = IF i >= 4 THEN 0 ELSE (token[i + 1] + key[i + 1] + carry[i + 1]) \div 256
    BY <1>1, Zenon DEF CarriesOf
  <2> QED BY <2>1
<1>4. /\ borrow[4] = 0 /\ borrow[3] = IF sum[4] - key[4] - borrow[4] < 0 THEN 1 ELSE 0
      /\ borrow[2] = IF sum[3] - key[3] - borrow[3] < 0 THEN 1 ELSE 0
      /\ borrow[1] = IF sum[2] - key[2] - borrow[2] < 0 THEN 1 ELSE 0
  <2>1. \A i \in 1..5 : borrow[i] = IF i >= 4 THEN 0
                           ELSE IF sum[i + 1] - key[i + 1] - borrow[i + 1] < 0 THEN 1 ELSE 0
    BY <1>2, Zenon DEF BorrowsOf
  <2> QED BY <2>1
<1>5. /\ token[1] \in Byte /\ token[2] \in Byte /\ token[3] \in Byte /\ token[4] \in Byte
      /\ key[1] \in Byte /\ key[2] \in Byte /\ key[3] \in Byte /\ key[4] \in Byte
  BY FourOfBytes
<1>6. /\ sum[1] = (token[1] + key[1] + carry[1]) % 256 /\ sum[2] = (token[2] + key[2] + carry[2]) % 256
      /\ sum[3] = (token[3] + key[3] + carry[3]) % 256 /\ sum[4] = (token[4] + key[4] + carry[4]) % 256
  BY <1>1
<1>7. carry[4] \in {0, 1} /\ borrow[4] = carry[4]
  BY <1>3, <1>4
<1>8. PlaceBack(token, key, sum, carry, borrow, 4) /\ borrow[3] = carry[3] /\ carry[3] \in {0, 1}
  <2>1. /\ sum[4] \in Byte /\ (sum[4] - key[4] - borrow[4] + 256) % 256 = token[4]
        /\ (IF sum[4] - key[4] - borrow[4] < 0 THEN 1 ELSE 0) = (token[4] + key[4] + carry[4]) \div 256
        /\ (token[4] + key[4] + carry[4]) \div 256 \in {0, 1}
    BY <1>5, <1>6, <1>7, OnePlace
  <2>2. PlaceBack(token, key, sum, carry, borrow, 4)
    BY <1>7, <2>1, Zenon DEF PlaceBack
  <2>3. borrow[3] = carry[3] /\ carry[3] \in {0, 1}
    <3>1. carry[3] = (token[4] + key[4] + carry[4]) \div 256
      BY <1>3, Zenon
    <3>2. borrow[3] = IF sum[4] - key[4] - borrow[4] < 0 THEN 1 ELSE 0
      BY <1>4, Zenon
    <3> QED BY <2>1, <3>1, <3>2, Zenon
  <2> QED BY <2>2, <2>3
<1>9. PlaceBack(token, key, sum, carry, borrow, 3) /\ borrow[2] = carry[2] /\ carry[2] \in {0, 1}
  <2>1. /\ sum[3] \in Byte /\ (sum[3] - key[3] - borrow[3] + 256) % 256 = token[3]
        /\ (IF sum[3] - key[3] - borrow[3] < 0 THEN 1 ELSE 0) = (token[3] + key[3] + carry[3]) \div 256
        /\ (token[3] + key[3] + carry[3]) \div 256 \in {0, 1}
    BY <1>5, <1>6, <1>8, OnePlace
  <2>2. PlaceBack(token, key, sum, carry, borrow, 3)
    BY <1>8, <2>1, Zenon DEF PlaceBack
  <2>3. borrow[2] = carry[2] /\ carry[2] \in {0, 1}
    <3>1. carry[2] = (token[3] + key[3] + carry[3]) \div 256
      BY <1>3
    <3>2. borrow[2] = IF sum[3] - key[3] - borrow[3] < 0 THEN 1 ELSE 0
      BY <1>4
    <3> QED BY <2>1, <3>1, <3>2, Zenon
  <2> QED BY <2>2, <2>3
<1>10. PlaceBack(token, key, sum, carry, borrow, 2) /\ borrow[1] = carry[1] /\ carry[1] \in {0, 1}
  <2>1. /\ sum[2] \in Byte /\ (sum[2] - key[2] - borrow[2] + 256) % 256 = token[2]
        /\ (IF sum[2] - key[2] - borrow[2] < 0 THEN 1 ELSE 0) = (token[2] + key[2] + carry[2]) \div 256
        /\ (token[2] + key[2] + carry[2]) \div 256 \in {0, 1}
    BY <1>5, <1>6, <1>9, OnePlace
  <2>2. PlaceBack(token, key, sum, carry, borrow, 2)
    BY <1>9, <2>1, Zenon DEF PlaceBack
  <2>3. borrow[1] = carry[1] /\ carry[1] \in {0, 1}
    <3>1. carry[1] = (token[2] + key[2] + carry[2]) \div 256
      BY <1>3
    <3>2. borrow[1] = IF sum[2] - key[2] - borrow[2] < 0 THEN 1 ELSE 0
      BY <1>4
    <3> QED BY <2>1, <3>1, <3>2, Zenon
  <2> QED BY <2>2, <2>3
<1>11. PlaceBack(token, key, sum, carry, borrow, 1)
  <2>1. /\ sum[1] \in Byte /\ (sum[1] - key[1] - borrow[1] + 256) % 256 = token[1]
    BY <1>5, <1>6, <1>10, OnePlace
  <2> QED BY <1>10, <2>1, Zenon DEF PlaceBack
<1>12. FourOf(sum)
  <2>1. \A i \in 1..4 : sum[i] \in Byte
    BY <1>8, <1>9, <1>10, <1>11 DEF PlaceBack
  <2>2. sum = [i \in 1..4 |-> sum[i]]
    BY <1>1
  <2>3. sum \in [1..4 -> Byte]
    BY <2>1, <2>2
  <2> QED BY <2>3, FourFromFunction
<1>13. Minus(sum, key) = token
  <2>1. PICK difference : difference = Minus(sum, key)
    OBVIOUS
  <2>2. difference = [i \in 1..4 |-> (sum[i] - key[i] - borrow[i] + 256) % 256]
    BY <1>2, <2>1
  <2>3. \A i \in 1..4 : difference[i] = token[i]
    <3>1. ASSUME NEW i \in 1..4 PROVE PlaceBack(token, key, sum, carry, borrow, i)
      BY <1>8, <1>9, <1>10, <1>11, <3>1
    <3>2. ASSUME NEW i \in 1..4 PROVE difference[i] = (sum[i] - key[i] - borrow[i] + 256) % 256
      BY <2>2, <3>2, Zenon
    <3> QED BY <3>1, <3>2 DEF PlaceBack
  <2>4. difference \in [1..4 -> Byte]
    <3>1. \A i \in 1..4 : token[i] \in Byte
      BY DEF FourOf
    <3>2. difference = [i \in 1..4 |-> difference[i]]
      BY <2>2
    <3> QED BY <2>3, <3>1, <3>2
  <2>5. FourOf(difference)
    BY <2>4, FourFromFunction
  <2>6. difference = token
    BY <2>3, <2>5 DEF FourOf
  <2> QED BY <2>1, <2>6
<1> QED BY <1>12, <1>13

LEMMA NumbersAre ==
  ASSUME NEW e \in Ids \cup LongIds
  PROVE  e \in Seq(Byte) /\ IsNumber(e) /\ Len(e) \in Nat
<1>1. IsNumber(e)
  BY LayoutsAssumption DEF LayoutsAssumption
<1>2. e \in Seq(Byte)
  BY <1>1 DEF IsNumber
<1> QED BY <1>1, <1>2

(* A number that fits is read back from its padding.                        *)
LEMMA NumberFits ==
  ASSUME NEW e \in Seq(Byte), IsNumber(e), NEW n \in Nat, Len(e) <= n, NEW u, u = Padded(n, e)
  PROVE  u \in Seq(Byte) /\ Len(u) = n /\ Number(u) = e
<1>1. PICK m : m = n - Len(e)
  OBVIOUS
<1>2. PaddedTo(n, e, u, m)
  BY <1>1, PaddedIs
<1>3. Number(u) = e
  BY <1>2, NumberPadded
<1> QED BY <1>2, <1>3 DEF PaddedTo

LEMMA LowThreeIs ==
  ASSUME NEW e \in Seq(Byte), NEW u, u = LowThree(e)
  PROVE  u \in Seq(Byte) /\ Len(u) = 3
<1>1. PICK l \in Nat : l = Len(e)
  BY LengthIs
<1>2. PICK n \in Nat : n = 3
  OBVIOUS
<1>3. CASE l <= 3
  <2>1. u = Padded(n, e)
    BY <1>1, <1>2, <1>3 DEF LowThree
  <2>2. PICK m : m = n - Len(e)
    OBVIOUS
  <2>3. Len(e) <= n
    BY <1>1, <1>2, <1>3
  <2>4. PaddedTo(n, e, u, m)
    BY <1>2, <2>1, <2>2, <2>3, PaddedIs
  <2>5. u \in Seq(Byte) /\ Len(u) = n
    BY <2>4 DEF PaddedTo
  <2> QED BY <1>2, <2>5
<1>4. CASE ~(l <= 3)
  <2>1. PICK p \in Nat : p = l - 3
    BY <1>4
  <2>2. u = From(e, p)
    BY <1>1, <1>4, <2>1 DEF LowThree
  <2>3. p <= Len(e) /\ n = Len(e) - p
    BY <1>1, <1>2, <2>1
  <2>4. u \in Seq(Byte) /\ Len(u) = n
    <3>1. n \in Nat
      BY <1>2
    <3> QED BY <2>2, <2>3, <3>1, FromIs
  <2> QED BY <1>2, <2>4
<1> QED BY <1>3, <1>4

LEMMA TwoTimes ==
  ASSUME NEW n \in Nat, NEW m, m = 2 * n
  PROVE  m \in Nat /\ m % 2 # 1 /\ m \div 2 = n
OBVIOUS

LEMMA EvenPlace ==
  ASSUME NEW i \in Nat, i >= 1
  PROVE  /\ (2 * i - 1) % 2 = 1 /\ (2 * i) % 2 # 1
         /\ (2 * i - 1 + 1) \div 2 = i /\ (2 * i) \div 2 = i
OBVIOUS

LEMMA Decimal ==
  ASSUME NEW b \in Byte
  PROVE  10 * (b \div 10) + (b % 10) = b
BY DEF Byte

(* A time of decimal digits, packed and unpacked.                           *)
LEMMA DigitsBack ==
  ASSUME NEW date \in Seq(Byte)
  PROVE  DecimalTime(Digits(date)) = date
<1>1. PICK n \in Nat : n = Len(date)
  BY LengthIs
<1>2. PICK m : m = 2 * n
  OBVIOUS
<1>3. m \in Nat /\ m % 2 # 1 /\ m \div 2 = n
  BY <1>2, TwoTimes
<1>4. PICK digits : digits = Digits(date)
  OBVIOUS
<1>5. digits = [i \in 1..m |-> IF i % 2 = 1 THEN date[(i + 1) \div 2] \div 10 ELSE date[i \div 2] % 10]
  BY <1>1, <1>2, <1>4, Zenon DEF Digits
<1>6. Len(digits) = m
  <2>1. PICK S : S = {digits[i] : i \in 1..m}
    OBVIOUS
  <2>2. digits \in [1..m -> S]
    BY <1>5, <2>1
  <2> QED BY <1>3, <2>2, FunctionIsSeq
<1>7. DecimalTime(digits) = [i \in 1..n |-> 10 * digits[2 * i - 1] + digits[2 * i]]
  BY <1>3, <1>6, Zenon DEF DecimalTime
<1>8. ASSUME NEW i \in 1..n PROVE 10 * digits[2 * i - 1] + digits[2 * i] = date[i]
  <2>1. 2 * i - 1 \in 1..m /\ 2 * i \in 1..m
    BY <1>2
  <2>2. i \in Nat /\ i >= 1
    OBVIOUS
  <2>3. /\ (2 * i - 1) % 2 = 1 /\ (2 * i) % 2 # 1
        /\ (2 * i - 1 + 1) \div 2 = i /\ (2 * i) \div 2 = i
    BY <2>2, EvenPlace
  <2>4. digits[2 * i - 1] = date[i] \div 10
    BY <1>5, <2>1, <2>3, Zenon
  <2>5. digits[2 * i] = date[i] % 10
    BY <1>5, <2>1, <2>3, Zenon
  <2>6. date[i] \in Byte
    BY <1>1
  <2> QED BY <2>4, <2>5, <2>6, Decimal
<1>9. PICK back : back = DecimalTime(digits)
  OBVIOUS
<1>10. \A i \in 1..n : back[i] = date[i]
  BY <1>7, <1>8, <1>9
<1>11. back \in [1..n -> Byte]
  <2>1. \A i \in 1..n : date[i] \in Byte
    BY <1>1
  <2>2. back = [i \in 1..n |-> back[i]]
    BY <1>7, <1>9
  <2> QED BY <1>10, <2>1, <2>2
<1>12. back \in Seq(Byte) /\ Len(back) = n
  BY <1>11, FunctionIsSeq
<1>13. back = date
  BY <1>1, <1>10, <1>12
<1> QED BY <1>4, <1>9, <1>13

TenDigits(digits) == digits \in [1..10 -> 0..9]

LEMMA TenDigitsTime ==
  ASSUME NEW digits, TenDigits(digits), NEW t, t = DecimalTime(digits)
  PROVE  t \in Seq(Byte) /\ Len(t) = 5
<1>1. PICK n \in Nat : n = 5
  OBVIOUS
<1>2. Len(digits) = 10
  <2>1. PICK m \in Nat : m = 10
    OBVIOUS
  <2>2. digits \in [1..m -> 0..9]
    BY <2>1, Zenon DEF TenDigits
  <2>3. Len(digits) = m
    BY <2>2, FunctionIsSeq
  <2> QED BY <2>1, <2>3
<1>3. t = [i \in 1..n |-> 10 * digits[2 * i - 1] + digits[2 * i]]
  <2>1. 10 % 2 # 1 /\ 10 \div 2 = n
    BY <1>1
  <2> QED BY <1>2, <2>1, Zenon DEF DecimalTime
<1>4. ASSUME NEW i \in 1..n PROVE 10 * digits[2 * i - 1] + digits[2 * i] \in Byte
  <2>1. 2 * i - 1 \in 1..10 /\ 2 * i \in 1..10
    BY <1>1
  <2>2. digits[2 * i - 1] \in 0..9 /\ digits[2 * i] \in 0..9
    BY <2>1 DEF TenDigits
  <2> QED BY <2>2 DEF Byte
<1>5. t \in [1..n -> Byte]
  BY <1>3, <1>4
<1>6. t \in Seq(Byte) /\ Len(t) = n
  BY <1>5, FunctionIsSeq
<1> QED BY <1>1, <1>6

(* The window of checkUserTime is two times of ten digits.                  *)
LEMMA UserTimes == TenDigits(UserTimeStart) /\ TenDigits(UserTimeEnd)
BY DEF TenDigits, UserTimeStart, UserTimeEnd

(* The three properties hold of a calibration of the clock: the lock reads  *)
(* what the client meant, or the client raises.                             *)
LEMMA CalibrateKept == IInv /\ kind = "calibrate" => Kept
<1> SUFFICES ASSUME IInv, kind = "calibrate" PROVE Kept
  OBVIOUS
<1>1. message \in Asked /\ kind \in RequestKinds
  BY GroupOf DEF IInv, RequestKinds
<1>2. PICK t \in Stamps : meant = [time |-> t]
  BY <1>1, AskedSay
<1>3. t \in Seq(Byte)
  BY <1>2, StampsAre
<1>4. Sayable /\ Understood = meant
  BY DEF Sayable, Understood
<1>5. Built(kind, meant) = Returns(DecimalTime(Digits(meant.time)))
  BY DEF Built, TimeCalibrate
<1>6. meant.time = t
  BY <1>2
<1>7. Built(kind, meant) = Returns(t)
  BY <1>3, <1>5, <1>6, DigitsBack, Zenon
<1>8. LockReads(kind, meant, t) = [time |-> t]
  BY DEF LockReads
<1>9. BuiltAs(Built(kind, meant), Sayable)
  BY <1>2, <1>4, <1>7, <1>8, Zenon DEF BuiltAs
<1> QED BY <1>1, <1>9, RequestKept

(* The three properties hold of a answer to the lock's challenge: the lock  *)
(* reads what the client meant, or the client raises.                       *)
LEMMA CheckRandomKept == IInv /\ kind = "checkRandom" => Kept
<1> SUFFICES ASSUME IInv, kind = "checkRandom" PROVE Kept
  OBVIOUS
<1>1. message \in Asked /\ kind \in RequestKinds
  BY GroupOf DEF IInv, RequestKinds
<1>2. PICK t \in Ids, k \in Ids : meant = [token |-> Padded(4, t), key |-> Padded(4, k)]
  BY <1>1, AskedSay
<1>3. FourOf(Padded(4, t)) /\ FourOf(Padded(4, k))
  <2>1. PICK n \in Nat : n = 4 /\ n >= 4
    OBVIOUS
  <2>2. n \in Nat /\ n >= 4
    BY <2>1
  <2>3. PICK tt : tt = Padded(n, t)
    OBVIOUS
  <2>4. PICK kk : kk = Padded(n, k)
    OBVIOUS
  <2>5. tt \in Seq(Byte) /\ Len(tt) = n
    BY <1>2, <2>2, <2>3, IdPadded
  <2>6. kk \in Seq(Byte) /\ Len(kk) = n
    BY <1>2, <2>2, <2>4, IdPadded
  <2>7. FourOf(tt) /\ FourOf(kk)
    BY <2>1, <2>5, <2>6 DEF FourOf
  <2> QED BY <2>1, <2>3, <2>4, <2>7, Zenon
<1>4. PICK sum : sum = WrappedSum(meant.token, meant.key)
  OBVIOUS
<1>5. meant.token = Padded(4, t) /\ meant.key = Padded(4, k)
  BY <1>2
<1>6. Minus(sum, meant.key) = meant.token
  BY <1>3, <1>4, <1>5, SumBack
<1>7. Sayable /\ Understood = meant
  BY DEF Sayable, Understood
<1>8. Built(kind, meant) = Returns(sum)
  BY <1>4 DEF Built, CheckRandom
<1>9. LockReads(kind, meant, sum) = [token |-> meant.token, key |-> meant.key]
  BY <1>6 DEF LockReads
<1>10. meant = [token |-> meant.token, key |-> meant.key]
  BY <1>2, <1>5, Zenon
<1>11. BuiltAs(Built(kind, meant), Sayable)
  BY <1>7, <1>8, <1>9, <1>10, Zenon DEF BuiltAs
<1> QED BY <1>1, <1>11, RequestKept

(* The three properties hold of a setting of the sound: the lock reads what *)
(* the client meant, or the client raises.                                  *)
LEMMA SetSoundKept == IInv /\ kind = "setSound" => Kept
<1> SUFFICES ASSUME IInv, kind = "setSound" PROVE Kept
  OBVIOUS
<1>1. message \in Asked /\ kind \in RequestKinds
  BY GroupOf DEF IInv, RequestKinds
<1>2. PICK e \in BOOLEAN : meant = [enabled |-> e]
  BY <1>1, AskedSay
<1>3. meant.enabled = e
  BY <1>2
<1>4. PICK raw : raw = <<MODIFY, IF e THEN 1 ELSE 0>>
  OBVIOUS
<1>5. Built(kind, meant) = Returns(raw)
  BY <1>3, <1>4 DEF Built, SetLockSound
<1>6. LockReads(kind, meant, raw) = [enabled |-> At(raw, 1) # 0]
  BY DEF LockReads
<1>7. (At(raw, 1) # 0) = e
  BY <1>2, <1>4 DEF At
<1>8. Sayable /\ Understood = meant
  BY DEF Sayable, Understood
<1>9. BuiltAs(Built(kind, meant), Sayable)
  BY <1>2, <1>5, <1>6, <1>7, <1>8, Zenon DEF BuiltAs
<1> QED BY <1>1, <1>9, RequestKept

(* The three properties hold of a setting of the volume: the lock reads     *)
(* what the client meant, or the client raises.                             *)
LEMMA VolumeKept == IInv /\ kind = "volume" => Kept
<1> SUFFICES ASSUME IInv, kind = "volume" PROVE Kept
  OBVIOUS
<1>1. message \in Asked /\ kind \in RequestKinds
  BY GroupOf DEF IInv, RequestKinds
<1>2. PICK l \in 0..6 : meant = [level |-> l]
  BY <1>1, AlsoAsked
<1>3. meant.level = l
  BY <1>2
<1>4. Built(kind, meant) = SetLockVolume(l)
  BY <1>3 DEF Built
<1>5. Sayable <=> l \in 1..5
  BY <1>3 DEF Sayable, LockVolume
<1>6. Understood = meant
  BY DEF Understood
<1>7. CASE l \in 1..5
  <2>1. PICK raw : raw = <<MODIFY, 1, l, 0>>
    OBVIOUS
  <2>2. Built(kind, meant) = Returns(raw)
    BY <1>4, <1>7, <2>1, Zenon DEF SetLockVolume
  <2>3. LockReads(kind, meant, raw) = [level |-> At(raw, 2)]
    BY DEF LockReads
  <2>4. At(raw, 2) = l
    BY <2>1 DEF At
  <2> QED BY <1>1, <1>2, <1>5, <1>6, <1>7, <2>2, <2>3, <2>4, RequestKept, Zenon DEF BuiltAs
<1>8. CASE l \notin 1..5
  <2>1. Built(kind, meant) = Raises("ValueError")
    BY <1>4, <1>8, Zenon DEF SetLockVolume
  <2>2. ~Returned(Built(kind, meant))
    BY <2>1 DEF Returned, Raises
  <2> QED BY <1>1, <1>5, <1>8, <2>2, RequestKept, Zenon DEF BuiltAs
<1> QED BY <1>7, <1>8

LEMMA SliceOfField ==
  ASSUME NEW data \in Seq(Byte), NEW field \in Seq(Byte), NEW p \in Nat, NEW q, FieldAt(field, data, p, q)
  PROVE  Slice(data, p, q) = field
BY SliceIsBody DEF FieldAt

Delay(raw, s) == raw = <<MODIFY, s \div 256, s % 256>>

LEMMA DelayRead ==
  ASSUME NEW s \in Nat, TwoByte(s), NEW raw, Delay(raw, s)
  PROVE  Uint16(Slice(raw, 1, 3)) = s
<1>1. PICK a : a = s \div 256
  OBVIOUS
<1>2. PICK b : b = s % 256
  OBVIOUS
<1>3. a \in Byte /\ b \in Byte /\ 256 * a + b = s
  BY <1>1, <1>2, Halves
<1>4. MODIFY \in Byte
  BY DEF MODIFY, Byte
<1>5. raw = <<MODIFY, a, b>>
  BY <1>1, <1>2 DEF Delay
<1>6. raw \in Seq(Byte) /\ Len(raw) = 3 /\ raw[2] = a /\ raw[3] = b
  BY <1>3, <1>4, <1>5, ThreeBytes
<1>7. PICK field : field = <<a, b>>
  OBVIOUS
<1>8. field \in Seq(Byte) /\ Len(field) = 2 /\ Uint16(field) = s
  BY <1>3, <1>7, Uint16Is
<1>9. FieldAt(field, raw, 1, 3)
  <2>1. PICK p \in Nat : p = 1
    OBVIOUS
  <2>2. PICK q \in Nat : q = 3
    OBVIOUS
  <2>3. q = p + 2 /\ q <= Len(raw) /\ raw[p + 1] = a /\ raw[q] = b
    BY <1>6, <2>1, <2>2
  <2>4. p \in Nat
    BY <2>1
  <2>5. FieldAt(field, raw, p, q)
    BY <1>3, <1>6, <1>7, <2>3, <2>4, TwoAt
  <2> QED BY <2>1, <2>2, <2>5, Zenon
<1>10. Slice(raw, 1, 3) = field
  <2>1. 1 \in Nat
    OBVIOUS
  <2> QED BY <1>6, <1>8, <1>9, <2>1, SliceOfField
<1> QED BY <1>8, <1>10, Zenon

DelaySent(built, s) ==
  IF TwoByte(s) THEN s \in Nat /\ \E raw : Delay(raw, s) /\ built = Returns(raw) ELSE built = Raises("ValueError")

(* A delay the client can say is sent as it is, every other raises.         *)
LEMMA DelaysAre ==
  ASSUME NEW s \in Delays
  PROVE  DelaySent(AutoLockSet(s), s) /\ (s \in Field16 <=> TwoByte(s))
<1>1. s \in Int
  BY SMT DEF Delays
<1>2. s \in Field16 <=> TwoByte(s)
  BY <1>1, SMT DEF Field16, TwoByte
<1>3. CASE TwoByte(s)
  <2>1. s \in Nat
    BY <1>1, <1>3, SMT DEF TwoByte
  <2>2. PICK raw : Delay(raw, s)
    BY Zenon DEF Delay
  <2>3. AutoLockSet(s) = Returns(raw)
    BY <1>1, <1>3, <2>2, SMT DEF TwoByte, Delay, AutoLockSet
  <2> QED BY <1>2, <1>3, <2>1, <2>2, <2>3, Zenon DEF DelaySent
<1>4. CASE ~TwoByte(s)
  <2>1. AutoLockSet(s) = Raises("ValueError")
    BY <1>1, <1>4, SMT DEF TwoByte, AutoLockSet
  <2> QED BY <1>2, <1>4, <2>1, Zenon DEF DelaySent
<1> QED BY <1>3, <1>4

(* The three properties hold of a setting of the automatic lock: the lock   *)
(* reads what the client meant, or the client raises.                       *)
LEMMA AutoLockSetKept == IInv /\ kind = "autoLockSet" => Kept
<1> SUFFICES ASSUME IInv, kind = "autoLockSet" PROVE Kept
  OBVIOUS
<1>1. message \in Asked /\ kind \in RequestKinds
  BY GroupOf DEF IInv, RequestKinds
<1>2. PICK s \in Delays : meant = [seconds |-> s]
  BY <1>1, AlsoAsked
<1>3. meant.seconds = s
  BY <1>2
<1>4. Built(kind, meant) = AutoLockSet(s)
  BY <1>3 DEF Built
<1>5. DelaySent(AutoLockSet(s), s) /\ (s \in Field16 <=> TwoByte(s))
  BY <1>2, DelaysAre
<1>6. Sayable <=> TwoByte(s)
  BY <1>3, <1>5 DEF Sayable
<1>7. Understood = meant
  BY DEF Understood
<1>10. CASE TwoByte(s)
  <2>1. PICK raw : Delay(raw, s) /\ AutoLockSet(s) = Returns(raw)
    BY <1>5, <1>10, Zenon DEF DelaySent
  <2>2. LockReads(kind, meant, raw) = [seconds |-> Uint16(Slice(raw, 1, 3))]
    BY DEF LockReads
  <2>3. s \in Nat
    BY <1>5, <1>10, Zenon DEF DelaySent
  <2>4. Uint16(Slice(raw, 1, 3)) = s
    BY <1>10, <2>1, <2>3, DelayRead
  <2>5. LockReads(kind, meant, raw) = Understood
    BY <1>2, <1>7, <2>2, <2>4, Zenon
  <2>6. BuiltAs(Built(kind, meant), Sayable)
    BY <1>4, <1>6, <1>10, <2>1, <2>5, Zenon DEF BuiltAs
  <2> QED BY <1>1, <2>6, RequestKept
<1>11. CASE ~TwoByte(s)
  <2>0. Built(kind, meant) = Raises("ValueError")
    BY <1>4, <1>5, <1>11, Zenon DEF DelaySent
  <2>1. ~Returned(Built(kind, meant))
    BY <2>0 DEF Returned, Raises
  <2>2. BuiltAs(Built(kind, meant), Sayable)
    BY <1>6, <1>11, <2>1, Zenon DEF BuiltAs
  <2> QED BY <1>1, <2>2, RequestKept
<1> QED BY <1>10, <1>11

(* Two and three parts of a request, and where they are read.               *)
TwoSlices(data, a, b, p, q) ==
  /\ data \in Seq(Byte) /\ Len(data) = q
  /\ Slice(data, 0, p) = a /\ Slice(data, p, q) = b /\ From(data, p) = b

ThreeSlices(data, a, b, c, p, q, r) ==
  Slice(data, 0, p) = a /\ Slice(data, p, q) = b /\ Slice(data, q, r) = c

ThreeJoined(data, a, b, c) == data = (a \o b) \o c

LEMMA TwoParts ==
  ASSUME NEW a \in Seq(Byte), NEW b \in Seq(Byte), NEW p \in Nat, NEW q \in Nat, p = Len(a), q = p + Len(b),
         NEW data, JoinedAs(data, a, b)
  PROVE  TwoSlices(data, a, b, p, q)
<1>0. PICK z \in Nat : z = 0
  OBVIOUS
<1>1. data = a \o b
  BY DEF JoinedAs
<1>2. MadeOf(data, a, b, p, q)
  BY <1>1, Parts
<1>3. data \in Seq(Byte) /\ Len(data) = q /\ FieldAt(a, data, z, p) /\ FieldAt(b, data, p, q)
  BY <1>0, <1>2, Behind, FirstField
<1>4. Slice(data, z, p) = a
  BY <1>0, <1>3, SliceOfField
<1>5. Slice(data, p, q) = b
  BY <1>3, SliceOfField
<1>6. Within(b, data, p) /\ Len(data) = p + Len(b)
  BY <1>3 DEF FieldAt
<1>7. From(data, p) = b
  BY <1>3, <1>6, LastIs
<1> QED BY <1>0, <1>3, <1>4, <1>5, <1>7 DEF TwoSlices

LEMMA ThreeParts ==
  ASSUME NEW a \in Seq(Byte), NEW b \in Seq(Byte), NEW c \in Seq(Byte),
         NEW p \in Nat, NEW q \in Nat, NEW r \in Nat, p = Len(a), q = p + Len(b), r = q + Len(c),
         NEW data, ThreeJoined(data, a, b, c)
  PROVE  ThreeSlices(data, a, b, c, p, q, r)
<1>0. PICK z \in Nat : z = 0
  OBVIOUS
<1>1. PICK x : x = a \o b
  OBVIOUS
<1>2. data = x \o c
  BY <1>1 DEF ThreeJoined
<1>3. MadeOf(x, a, b, p, q)
  BY <1>1, Parts
<1>4. x \in Seq(Byte) /\ Len(x) = q /\ FieldAt(a, x, z, p) /\ FieldAt(b, x, p, q)
  BY <1>0, <1>3, Behind, FirstField
<1>5. MadeOf(data, x, c, q, r)
  BY <1>2, <1>4, Parts
<1>6. data \in Seq(Byte) /\ FieldAt(c, data, q, r)
  BY <1>5, Behind
<1>7. FieldAt(a, data, z, p)
  BY <1>0, <1>4, <1>5, StillThere
<1>8. FieldAt(b, data, p, q)
  BY <1>4, <1>5, StillThere
<1>9. Slice(data, z, p) = a
  BY <1>0, <1>6, <1>7, SliceOfField
<1>10. Slice(data, p, q) = b /\ Slice(data, q, r) = c
  BY <1>6, <1>8, SliceOfField
<1> QED BY <1>0, <1>9, <1>10 DEF ThreeSlices

(* A number that fits in four bytes, and in two.                            *)
PaddedIn(n, e, u) == u \in Seq(Byte) /\ Len(u) = n /\ Number(u) = e

LEMMA FourFit ==
  ASSUME NEW e \in Ids \cup LongIds, Len(e) <= 4, NEW u, u = Padded(4, e)
  PROVE  PaddedIn(4, e, u)
<1>1. PICK n \in Nat : n = 4
  OBVIOUS
<1>2. e \in Seq(Byte) /\ IsNumber(e) /\ Len(e) \in Nat
  BY NumbersAre
<1>3. n \in Nat /\ Len(e) <= n /\ u = Padded(n, e)
  BY <1>1
<1>4. u \in Seq(Byte) /\ Len(u) = n /\ Number(u) = e
  BY <1>2, <1>3, NumberFits
<1> QED BY <1>1, <1>4, Zenon DEF PaddedIn

LEMMA TwoFit ==
  ASSUME NEW e \in Ids \cup LongIds, Len(e) <= 2, NEW u, u = Padded(2, e)
  PROVE  PaddedIn(2, e, u)
<1>1. PICK n \in Nat : n = 2
  OBVIOUS
<1>2. e \in Seq(Byte) /\ IsNumber(e) /\ Len(e) \in Nat
  BY NumbersAre
<1>3. n \in Nat /\ Len(e) <= n /\ u = Padded(n, e)
  BY <1>1
<1>4. u \in Seq(Byte) /\ Len(u) = n /\ Number(u) = e
  BY <1>2, <1>3, NumberFits
<1> QED BY <1>1, <1>4, Zenon DEF PaddedIn

(* The operations that a cursor of a listing may name.                      *)
OperationOf(o) == o \in {<<>>, <<1>>, <<6>>}

LEMMA OperationsAre ==
  ASSUME NEW o, OperationOf(o)
  PROVE  o \in Seq(Byte) /\ Len(o) \in Nat
<1>1. <<>> \in Seq(Byte)
  BY DEF Byte
<1>2. 1 \in Byte /\ 6 \in Byte
  BY DEF Byte
<1>3. <<1>> \in Seq(Byte)
  BY <1>2
<1>4. <<6>> \in Seq(Byte)
  BY <1>2
<1>5. o \in Seq(Byte)
  BY <1>1, <1>3, <1>4, Zenon DEF OperationOf
<1> QED BY <1>5

(* The three properties hold of a cursor of a listing or of the log: the    *)
(* lock reads what the client meant, or the client raises.                  *)
LEMMA CursorKept == IInv /\ kind = "cursor" => Kept
<1> SUFFICES ASSUME IInv, kind = "cursor" PROVE Kept
  OBVIOUS
<1>1. message \in Asked /\ kind \in RequestKinds
  BY GroupOf DEF IInv, RequestKinds
<1>2. PICK o \in {<<>>, <<1>>, <<6>>}, n \in Ids \cup LongIds : meant = [operation |-> o, number |-> n]
  BY <1>1, AlsoAsked
<1>3. meant.operation = o /\ meant.number = n
  BY <1>2
<1>4. Built(kind, meant) = Cursor(o, n)
  BY <1>3 DEF Built
<1>5. Understood = meant /\ (Sayable <=> Len(n) <= 2)
  BY <1>3 DEF Understood, Sayable
<1>6. CASE Len(n) <= 2
  <2>1. PICK u : u = Padded(2, n)
    OBVIOUS
  <2>2. PaddedIn(2, n, u)
    BY <1>2, <1>6, <2>1, TwoFit
  <2>3. u \in Seq(Byte) /\ Len(u) = 2 /\ Number(u) = n
    BY <2>2, Zenon DEF PaddedIn
  <2>4. PICK raw : JoinedAs(raw, o, u)
    BY DEF JoinedAs
  <2>5. Built(kind, meant) = Returns(raw)
    BY <1>4, <1>6, <2>1, <2>4 DEF Cursor, Fits, JoinedAs
  <2>6. o \in Seq(Byte) /\ Len(o) \in Nat
    BY <1>2, OperationsAre DEF OperationOf
  <2>7. PICK p \in Nat : p = Len(o)
    BY <2>6
  <2>8. PICK q \in Nat : q = p + 2
    BY <2>7
  <2>9. q = p + Len(u) /\ p \in Nat /\ q \in Nat
    BY <2>3, <2>7, <2>8
  <2>10. TwoSlices(raw, o, u, p, q)
    BY <2>3, <2>4, <2>6, <2>7, <2>9, TwoParts
  <2>11. Len(raw) - 2 = p
    BY <2>7, <2>8, <2>10 DEF TwoSlices
  <2>12. LockReads(kind, meant, raw) = [operation |-> Slice(raw, 0, p), number |-> Number(From(raw, p))]
    BY <2>11 DEF LockReads
  <2>13. Slice(raw, 0, p) = o /\ Number(From(raw, p)) = n
    BY <2>3, <2>10, Zenon DEF TwoSlices
  <2>14. LockReads(kind, meant, raw) = Understood
    BY <1>2, <1>5, <2>12, <2>13, Zenon
  <2>15. BuiltAs(Built(kind, meant), Sayable)
    BY <1>5, <1>6, <2>5, <2>14, Zenon DEF BuiltAs
  <2> QED BY <1>1, <2>15, RequestKept
<1>7. CASE ~(Len(n) <= 2)
  <2>1. Built(kind, meant) = Raises("OverflowError")
    BY <1>4, <1>7 DEF Cursor, Fits
  <2>2. ~Returned(Built(kind, meant))
    BY <2>1 DEF Returned, Raises
  <2>3. BuiltAs(Built(kind, meant), Sayable)
    BY <1>5, <1>7, <2>2, Zenon DEF BuiltAs
  <2> QED BY <1>1, <2>3, RequestKept
<1> QED BY <1>6, <1>7

(* The three properties hold of a unlock: the lock reads what the client    *)
(* meant, or the client raises.                                             *)
LEMMA UnlockKept == IInv /\ kind = "unlock" => Kept
<1> SUFFICES ASSUME IInv, kind = "unlock" PROVE Kept
  OBVIOUS
<1>1. message \in Asked /\ kind \in RequestKinds
  BY GroupOf DEF IInv, RequestKinds
<1>2. PICK t \in Ids, k \in Ids, e \in Ids \cup LongIds :
         meant = [token |-> Padded(4, t), key |-> Padded(4, k), epoch |-> e]
  BY <1>1, AskedSay
<1>3. meant.token = Padded(4, t) /\ meant.key = Padded(4, k) /\ meant.epoch = e
  BY <1>2
<1>4. PICK token : token = meant.token
  OBVIOUS
<1>5. PICK key : key = meant.key
  OBVIOUS
<1>6. FourOf(token) /\ FourOf(key)
  <2>1. PICK n \in Nat : n = 4 /\ n >= 4
    OBVIOUS
  <2>2. n \in Nat /\ n >= 4
    BY <2>1
  <2>3. token = Padded(n, t) /\ key = Padded(n, k)
    BY <1>3, <1>4, <1>5, <2>1
  <2>5. token \in Seq(Byte) /\ Len(token) = n
    BY <1>2, <2>2, <2>3, IdPadded
  <2>6. key \in Seq(Byte) /\ Len(key) = n
    BY <1>2, <2>2, <2>3, IdPadded
  <2> QED BY <2>1, <2>5, <2>6 DEF FourOf
<1>7. PICK sum : sum = WrappedSum(token, key)
  OBVIOUS
<1>8. FourOf(sum) /\ Minus(sum, key) = token
  BY <1>6, <1>7, SumBack
<1>9. Built(kind, meant) = Unlock(token, key, e)
  BY <1>3, <1>4, <1>5 DEF Built
<1>10. Understood = meant /\ (Sayable <=> Len(e) <= 4)
  BY <1>3 DEF Understood, Sayable
<1>11. CASE Len(e) <= 4
  <2>1. PICK u : u = Padded(4, e)
    OBVIOUS
  <2>2. PaddedIn(4, e, u)
    BY <1>2, <1>11, <2>1, FourFit
  <2>3. u \in Seq(Byte) /\ Len(u) = 4 /\ Number(u) = e
    BY <2>2, Zenon DEF PaddedIn
  <2>4. PICK raw : JoinedAs(raw, sum, u)
    BY DEF JoinedAs
  <2>5. Built(kind, meant) = Returns(raw)
    BY <1>7, <1>9, <1>11, <2>1, <2>4 DEF Unlock, Fits, JoinedAs
  <2>6. PICK p \in Nat : p = 4
    OBVIOUS
  <2>7. PICK q \in Nat : q = 8
    OBVIOUS
  <2>8. p \in Nat /\ q \in Nat /\ sum \in Seq(Byte) /\ p = Len(sum) /\ q = p + Len(u)
    BY <1>8, <2>3, <2>6, <2>7 DEF FourOf
  <2>9. TwoSlices(raw, sum, u, p, q)
    BY <2>3, <2>4, <2>8, TwoParts
  <2>10. Slice(raw, 0, 4) = sum /\ Slice(raw, 4, 8) = u
    BY <2>6, <2>7, <2>9, Zenon DEF TwoSlices
  <2>11. LockReads(kind, meant, raw) =
           [token |-> Minus(Slice(raw, 0, 4), meant.key), key |-> meant.key, epoch |-> Number(Slice(raw, 4, 8))]
    BY DEF LockReads
  <2>12. Minus(Slice(raw, 0, 4), meant.key) = meant.token /\ Number(Slice(raw, 4, 8)) = e
    BY <1>4, <1>5, <1>8, <2>3, <2>10, Zenon
  <2>13. LockReads(kind, meant, raw) = Understood
    BY <1>2, <1>3, <1>10, <2>11, <2>12, Zenon
  <2>14. BuiltAs(Built(kind, meant), Sayable)
    BY <1>10, <1>11, <2>5, <2>13, Zenon DEF BuiltAs
  <2> QED BY <1>1, <2>14, RequestKept
<1>12. CASE ~(Len(e) <= 4)
  <2>1. Built(kind, meant) = Raises("OverflowError")
    BY <1>9, <1>12 DEF Unlock, Fits
  <2>2. ~Returned(Built(kind, meant))
    BY <2>1 DEF Returned, Raises
  <2>3. BuiltAs(Built(kind, meant), Sayable)
    BY <1>10, <1>12, <2>2, Zenon DEF BuiltAs
  <2> QED BY <1>1, <2>3, RequestKept
<1> QED BY <1>11, <1>12

(* The three properties hold of a check of the administrator: the lock      *)
(* reads what the client meant, or the client raises.                       *)
LEMMA CheckAdminKept == IInv /\ kind = "checkAdmin" => Kept
<1> SUFFICES ASSUME IInv, kind = "checkAdmin" PROVE Kept
  OBVIOUS
<1>1. message \in Asked /\ kind \in RequestKinds
  BY GroupOf DEF IInv, RequestKinds
<1>2. PICK u \in Ids, a \in Ids \cup LongIds, f \in Ids : meant = [uid |-> u, adminPs |-> a, flag |-> f]
  BY <1>1, AskedSay
<1>3. meant.uid = u /\ meant.adminPs = a /\ meant.flag = f
  BY <1>2
<1>4. Built(kind, meant) = CheckAdmin(u, a, f)
  BY <1>3 DEF Built
<1>5. Understood = [meant EXCEPT !.flag = Number(LowThree(@))]
  BY DEF Understood
<1>6. Understood = [uid |-> u, adminPs |-> a, flag |-> Number(LowThree(f))]
  BY <1>2, <1>5
<1>7. Len(u) <= 4 /\ u \in Ids \cup LongIds
  BY <1>2, IdsAre
<1>8. Sayable <=> Len(a) <= 4
  BY <1>3, <1>7 DEF Sayable
<1>9. PICK low : low = LowThree(f)
  OBVIOUS
<1>10. low \in Seq(Byte) /\ Len(low) = 3
  BY <1>2, <1>9, IdsAre, LowThreeIs
<1>11. CASE Len(a) <= 4
  <2>1. PICK uu : uu = Padded(4, u)
    OBVIOUS
  <2>2. PICK aa : aa = Padded(4, a)
    OBVIOUS
  <2>3. PaddedIn(4, u, uu)
    BY <1>7, <2>1, FourFit
  <2>4. PaddedIn(4, a, aa)
    BY <1>2, <1>11, <2>2, FourFit
  <2>5. uu \in Seq(Byte) /\ Len(uu) = 4 /\ Number(uu) = u
    BY <2>3, Zenon DEF PaddedIn
  <2>6. aa \in Seq(Byte) /\ Len(aa) = 4 /\ Number(aa) = a
    BY <2>4, Zenon DEF PaddedIn
  <2>7. PICK raw : ThreeJoined(raw, aa, low, uu)
    BY DEF ThreeJoined
  <2>8. raw = aa \o low \o uu
    BY <2>7, Zenon DEF ThreeJoined
  <2>9. CheckAdmin(u, a, f) = Returns(aa \o low \o uu)
    BY <1>7, <1>9, <1>11, <2>1, <2>2 DEF CheckAdmin, Fits
  <2>10. Built(kind, meant) = Returns(raw)
    BY <1>4, <2>8, <2>9, Zenon
  <2>11. PICK p \in Nat : p = 4
    OBVIOUS
  <2>12. PICK q \in Nat : q = 7
    OBVIOUS
  <2>13. PICK r \in Nat : r = 11
    OBVIOUS
  <2>14. p \in Nat /\ q \in Nat /\ r \in Nat /\ p = Len(aa) /\ q = p + Len(low) /\ r = q + Len(uu)
    BY <1>10, <2>5, <2>6, <2>11, <2>12, <2>13
  <2>15. aa \in Seq(Byte) /\ low \in Seq(Byte) /\ uu \in Seq(Byte)
    BY <1>10, <2>5, <2>6
  <2>16. ThreeSlices(raw, aa, low, uu, p, q, r)
    BY <2>7, <2>14, <2>15, ThreeParts
  <2>17. Slice(raw, 0, 4) = aa /\ Slice(raw, 4, 7) = low /\ Slice(raw, 7, 11) = uu
    BY <2>11, <2>12, <2>13, <2>16, Zenon DEF ThreeSlices
  <2>18. LockReads(kind, meant, raw) = [adminPs |-> Number(Slice(raw, 0, 4)),
                                        flag |-> Number(Slice(raw, 4, 7)),
                                        uid |-> Number(Slice(raw, 7, 11))]
    BY DEF LockReads
  <2>19. LockReads(kind, meant, raw) = [adminPs |-> a, flag |-> Number(low), uid |-> u]
    BY <2>5, <2>6, <2>17, <2>18, Zenon
  <2>20. LockReads(kind, meant, raw) = Understood
    BY <1>6, <1>9, <2>19
  <2>21. BuiltAs(Built(kind, meant), Sayable)
    BY <1>8, <1>11, <2>10, <2>20, Zenon DEF BuiltAs
  <2> QED BY <1>1, <2>21, RequestKept
<1>12. CASE ~(Len(a) <= 4)
  <2>1. Built(kind, meant) = Raises("OverflowError")
    BY <1>4, <1>12 DEF CheckAdmin, Fits
  <2>2. ~Returned(Built(kind, meant))
    BY <2>1 DEF Returned, Raises
  <2>3. BuiltAs(Built(kind, meant), Sayable)
    BY <1>8, <1>12, <2>2, Zenon DEF BuiltAs
  <2> QED BY <1>1, <2>3, RequestKept
<1> QED BY <1>11, <1>12

(* The three properties hold of a check of a user's window: the lock reads  *)
(* what the client meant, or the client raises.                             *)
LEMMA CheckUserTimeKept == IInv /\ kind = "checkUserTime" => Kept
<1> SUFFICES ASSUME IInv, kind = "checkUserTime" PROVE Kept
  OBVIOUS
<1>1. message \in Asked /\ kind \in RequestKinds
  BY GroupOf DEF IInv, RequestKinds
<1>2. PICK u \in Ids \cup LongIds, f \in Ids : meant = [uid |-> u, flag |-> f]
  BY <1>1, AskedSay
<1>3. meant.uid = u /\ meant.flag = f
  BY <1>2
<1>4. Built(kind, meant) = CheckUserTime(u, f)
  BY <1>3 DEF Built
<1>5. Understood = [meant EXCEPT !.flag = Number(LowThree(@))]
  BY DEF Understood
<1>6. Understood = [uid |-> u, flag |-> Number(LowThree(f))]
  BY <1>2, <1>5
<1>8. Sayable <=> Len(u) <= 4
  BY <1>3 DEF Sayable
<1>9. PICK low : low = LowThree(f)
  OBVIOUS
<1>10. low \in Seq(Byte) /\ Len(low) = 3
  BY <1>2, <1>9, IdsAre, LowThreeIs
<1>11. CASE Len(u) <= 4
  <2>1. PICK uu : uu = Padded(4, u)
    OBVIOUS
  <2>3. PaddedIn(4, u, uu)
    BY <1>2, <1>11, <2>1, FourFit
  <2>5. uu \in Seq(Byte) /\ Len(uu) = 4 /\ Number(uu) = u
    BY <2>3, Zenon DEF PaddedIn
  <2>6. PICK start : start = DecimalTime(UserTimeStart)
    OBVIOUS
  <2>7. PICK end : end = DecimalTime(UserTimeEnd)
    OBVIOUS
  <2>8. start \in Seq(Byte) /\ Len(start) = 5
    BY <2>6, UserTimes, TenDigitsTime
  <2>9. end \in Seq(Byte) /\ Len(end) = 5
    BY <2>7, UserTimes, TenDigitsTime
  <2>10. PICK raw : FourJoined(raw, start, end, low, uu)
    BY DEF FourJoined
  <2>11. raw = start \o end \o low \o uu
    BY <2>10, Zenon DEF FourJoined
  <2>12. CheckUserTime(u, f) = Returns(start \o end \o low \o uu)
    BY <1>9, <1>11, <2>1, <2>6, <2>7 DEF CheckUserTime, Fits
  <2>13. Built(kind, meant) = Returns(raw)
    BY <1>4, <2>11, <2>12, Zenon
  <2>14. PICK o \in Nat : o = 5
    OBVIOUS
  <2>15. PICK p \in Nat : p = 10
    OBVIOUS
  <2>16. PICK q \in Nat : q = 13
    OBVIOUS
  <2>17. PICK r \in Nat : r = 17
    OBVIOUS
  <2>18. /\ o \in Nat /\ p \in Nat /\ q \in Nat /\ r \in Nat
         /\ o = Len(start) /\ p = o + Len(end) /\ q = p + Len(low) /\ r = q + Len(uu)
    BY <1>10, <2>5, <2>8, <2>9, <2>14, <2>15, <2>16, <2>17
  <2>19. start \in Seq(Byte) /\ end \in Seq(Byte) /\ low \in Seq(Byte) /\ uu \in Seq(Byte)
    BY <1>10, <2>5, <2>8, <2>9
  <2>20. FourFields(raw, start, end, low, uu, o, p, q, r)
    BY <2>10, <2>18, <2>19, FourParts
  <2>21. raw \in Seq(Byte) /\ FieldAt(low, raw, p, q) /\ FieldAt(uu, raw, q, r)
    BY <2>20, Zenon DEF FourFields
  <2>22. Slice(raw, p, q) = low /\ Slice(raw, q, r) = uu
    BY <2>18, <2>19, <2>21, SliceOfField
  <2>23. Slice(raw, 10, 13) = low /\ Slice(raw, 13, 17) = uu
    BY <2>15, <2>16, <2>17, <2>22, Zenon
  <2>24. LockReads(kind, meant, raw) = [flag |-> Number(Slice(raw, 10, 13)),
                                        uid |-> Number(Slice(raw, 13, 17))]
    BY DEF LockReads
  <2>25. LockReads(kind, meant, raw) = [flag |-> Number(low), uid |-> u]
    BY <2>5, <2>23, <2>24, Zenon
  <2>26. LockReads(kind, meant, raw) = Understood
    BY <1>6, <1>9, <2>25
  <2>27. BuiltAs(Built(kind, meant), Sayable)
    BY <1>8, <1>11, <2>13, <2>26, Zenon DEF BuiltAs
  <2> QED BY <1>1, <2>27, RequestKept
<1>12. CASE ~(Len(u) <= 4)
  <2>1. Built(kind, meant) = Raises("OverflowError")
    BY <1>4, <1>12 DEF CheckUserTime, Fits
  <2>2. ~Returned(Built(kind, meant))
    BY <2>1 DEF Returned, Raises
  <2>3. BuiltAs(Built(kind, meant), Sayable)
    BY <1>8, <1>12, <2>2, Zenon DEF BuiltAs
  <2> QED BY <1>1, <2>3, RequestKept
<1> QED BY <1>11, <1>12

(* A code is sent only when it is four to nine digits.                      *)
LEMMA SaidCodes ==
  ASSUME NEW c \in Codes \cup BadCodes
  PROVE  /\ c \in Seq(Byte) /\ Len(c) \in Nat
         /\ c \in Codes <=> IsPasscode(c)
         /\ IsPasscode(c) => Len(c) \in 4..9 /\ Len(c) \in Byte
<1>1. c \in Seq(Byte)
  BY LayoutsAssumption
<1>2. c \in Codes <=> IsPasscode(c)
  BY LayoutsAssumption, Zenon
<1>3. Len(c) \in Nat
  BY <1>1
<1>4. IsPasscode(c) => Len(c) \in 4..9
  BY DEF IsPasscode
<1>5. IsPasscode(c) => Len(c) \in Byte
  BY <1>4 DEF Byte
<1> QED BY <1>1, <1>2, <1>3, <1>4, <1>5

TypeOf(t) == t \in {PERMANENT, PERIOD}

(* What a passcode is named by starts with its operation, type and length.  *)
NameBytes(front, o, t, n) == front = <<o, t, n>>

LEMMA NameIs ==
  ASSUME NEW o \in Byte, NEW t \in Byte, NEW n \in Byte, NEW front, NameBytes(front, o, t, n)
  PROVE  front \in Seq(Byte) /\ Len(front) = 3 /\ front[2] = t /\ front[3] = n
BY DEF NameBytes

(* A request that names a passcode: its type, its length, its digits.       *)
NamedAs(raw, t, c, n) ==
  /\ raw \in Seq(Byte) /\ Len(raw) = 3 + n
  /\ At(raw, 1) = t /\ At(raw, 2) = n /\ From(raw, 3) = c

LEMMA NamedIs ==
  ASSUME NEW o \in Byte, NEW t \in Byte, NEW c \in Seq(Byte), Len(c) \in Byte,
         NEW raw, raw = Named(o, t, c)
  PROVE  NamedAs(raw, t, c, Len(c))
<1>1. PICK n \in Byte : n = Len(c)
  OBVIOUS
<1>2. PICK front : NameBytes(front, o, t, n)
  BY DEF NameBytes
<1>3. front \in Seq(Byte) /\ Len(front) = 3 /\ front[2] = t /\ front[3] = n
  BY <1>2, NameIs
<1>4. raw = front \o c
  BY <1>1, <1>2 DEF Named, NameBytes
<1>5. PICK p \in Nat : p = 3
  OBVIOUS
<1>6. PICK q \in Nat : q = p + Len(c)
  BY <1>5
<1>7. p \in Nat /\ q \in Nat /\ p = Len(front) /\ q = p + Len(c)
  BY <1>3, <1>5, <1>6
<1>8. JoinedAs(raw, front, c)
  BY <1>4, Zenon DEF JoinedAs
<1>9. TwoSlices(raw, front, c, p, q)
  BY <1>3, <1>7, <1>8, TwoParts
<1>10. raw \in Seq(Byte) /\ Len(raw) = 3 + n /\ From(raw, 3) = c
  BY <1>1, <1>5, <1>6, <1>9 DEF TwoSlices
<1>11. raw[2] = t /\ raw[3] = n
  <2>1. \A i \in 1..Len(front) : raw[i] = front[i]
    <3>1. front \in Seq(Byte)
      BY <1>3
    <3> QED BY <1>4, <3>1, Joined
  <2>2. 2 \in 1..Len(front) /\ 3 \in 1..Len(front)
    BY <1>3
  <2> QED BY <1>3, <2>1, <2>2
<1>12. At(raw, 1) = t /\ At(raw, 2) = n
  BY <1>11 DEF At
<1> QED BY <1>1, <1>10, <1>12 DEF NamedAs

LEMMA SetTypes ==
  ASSUME NEW t, TypeOf(t)
  PROVE  t \in Byte /\ (t = PERMANENT <=> t = 1)
<1>1. t \in {1, 3}
  BY Zenon DEF TypeOf, PERMANENT, PERIOD
<1>2. t \in Byte
  BY <1>1, SMT DEF Byte
<1> QED BY <1>2, Zenon DEF PERMANENT

(* The three properties hold of a deletion of a passcode: the lock reads    *)
(* what the client meant, or the client raises.                             *)
LEMMA PasscodeDeleteKept == IInv /\ kind = "passcodeDelete" => Kept
<1> SUFFICES ASSUME IInv, kind = "passcodeDelete" PROVE Kept
  OBVIOUS
<1>1. message \in Asked /\ kind \in RequestKinds
  BY GroupOf DEF IInv, RequestKinds
<1>2. PICK c \in Codes \cup BadCodes : meant = [type |-> PERMANENT, code |-> c]
  BY <1>1, AlsoAsked
<1>3. meant.type = PERMANENT /\ meant.code = c
  BY <1>2
<1>4. Built(kind, meant) = PasscodeDelete(PERMANENT, c)
  BY <1>3 DEF Built
<1>5. Understood = meant
  BY DEF Understood
<1>6. Sayable <=> c \in Codes
  BY <1>3 DEF Sayable
<1>7. Sayable <=> IsPasscode(c)
  BY <1>2, <1>6, SaidCodes
<1>8. CASE IsPasscode(c)
  <2>1. PICK raw : raw = Named(REMOVE_ONE, PERMANENT, c)
    OBVIOUS
  <2>2. Built(kind, meant) = Returns(raw)
    BY <1>4, <1>8, <2>1 DEF PasscodeDelete
  <2>3. REMOVE_ONE \in Byte /\ PERMANENT \in Byte
    BY DEF REMOVE_ONE, PERMANENT, Byte
  <2>4. c \in Seq(Byte) /\ Len(c) \in Byte
    BY <1>2, <1>8, SaidCodes
  <2>5. NamedAs(raw, PERMANENT, c, Len(c))
    BY <2>1, <2>3, <2>4, NamedIs
  <2>6. LockReads(kind, meant, raw) = [type |-> At(raw, 1), code |-> From(raw, 3)]
    BY DEF LockReads
  <2>7. LockReads(kind, meant, raw) = Understood
    BY <1>2, <1>5, <2>5, <2>6, Zenon DEF NamedAs
  <2>8. BuiltAs(Built(kind, meant), Sayable)
    BY <1>7, <1>8, <2>2, <2>7, Zenon DEF BuiltAs
  <2> QED BY <1>1, <2>8, RequestKept
<1>9. CASE ~IsPasscode(c)
  <2>1. Built(kind, meant) = Raises("ValueError")
    BY <1>4, <1>9 DEF PasscodeDelete
  <2>2. ~Returned(Built(kind, meant))
    BY <2>1 DEF Returned, Raises
  <2>3. BuiltAs(Built(kind, meant), Sayable)
    BY <1>7, <1>9, <2>2, Zenon DEF BuiltAs
  <2> QED BY <1>1, <2>3, RequestKept
<1> QED BY <1>8, <1>9

FiveOf(date) == date \in Seq(Byte) /\ Len(date) = 5

(* The two dates of a passcode that is added.                               *)
FirstDay(date) == date = <<25, 1, 1, 0, 0>>

LastDay(date) == date = <<26, 12, 31, 0, 0>>

LEMMA FirstDayIs ==
  ASSUME NEW date, FirstDay(date)
  PROVE  FiveOf(date)
BY DEF FirstDay, FiveOf, Byte

LEMMA LastDayIs ==
  ASSUME NEW date, LastDay(date)
  PROVE  FiveOf(date)
BY DEF LastDay, FiveOf, Byte

(* What a new passcode means.                                               *)
LEMMA AddMeans ==
  ASSUME message \in Asked, kind = "passcodeAdd"
  PROVE  \E t, start, end : \E c \in Codes \cup BadCodes :
           /\ TypeOf(t) /\ FirstDay(start) /\ LastDay(end)
           /\ meant = [type |-> t, code |-> c, start |-> start, end |-> end]
<1>1. PICK t \in {PERMANENT, PERIOD}, c \in Codes \cup BadCodes :
              meant = [type |-> t, code |-> c, start |-> <<25, 1, 1, 0, 0>>, end |-> <<26, 12, 31, 0, 0>>]
  BY AlsoAsked
<1>2. PICK start : FirstDay(start)
  BY DEF FirstDay
<1>3. PICK end : LastDay(end)
  BY DEF LastDay
<1>4. meant = [type |-> t, code |-> c, start |-> start, end |-> end]
  BY <1>1, <1>2, <1>3, Zenon DEF FirstDay, LastDay
<1> QED BY <1>1, <1>2, <1>3, <1>4, Zenon DEF TypeOf

(* A name with two parts behind it.                                         *)
AddedAt(raw, name, a, b, q, r) ==
  /\ At(raw, 1) = At(name, 1) /\ At(raw, 2) = At(name, 2) /\ Slice(raw, 3, q) = From(name, 3)
  /\ Slice(raw, q, r) = a /\ From(raw, r) = b

(* Where the fields of a new passcode are.                                  *)
LEMMA AddedIs ==
  ASSUME NEW name \in Seq(Byte), NEW a \in Seq(Byte), NEW b \in Seq(Byte),
         NEW q \in Nat, NEW r \in Nat, NEW s \in Nat, q = Len(name), r = q + Len(a), s = r + Len(b), q >= 3,
         NEW raw, ThreeJoined(raw, name, a, b)
  PROVE  AddedAt(raw, name, a, b, q, r)
<1>1. ThreeSlices(raw, name, a, b, q, r, s)
  BY ThreeParts
<1>2. PICK x : x = name \o a
  OBVIOUS
<1>3. JoinedAs(x, name, a)
  BY <1>2, Zenon DEF JoinedAs
<1>4. TwoSlices(x, name, a, q, r)
  BY <1>3, TwoParts
<1>5. x \in Seq(Byte) /\ Len(x) = r
  BY <1>4, Zenon DEF TwoSlices
<1>6. JoinedAs(raw, x, b)
  BY <1>2, Zenon DEF JoinedAs, ThreeJoined
<1>7. TwoSlices(raw, x, b, r, s)
  BY <1>5, <1>6, TwoParts
<1>8. raw \in Seq(Byte) /\ Len(raw) = s /\ From(raw, r) = b
  BY <1>7, Zenon DEF TwoSlices
<1>9. \A i \in 1..q : x[i] = name[i]
  BY <1>2, Joined
<1>10. \A i \in 1..r : raw[i] = x[i]
  BY <1>5, <1>6, Joined DEF JoinedAs
<1>11. \A i \in 1..q : raw[i] = name[i]
  <2>1. \A i \in 1..q : i \in 1..r
    OBVIOUS
  <2> QED BY <1>9, <1>10, <2>1
<1>12. At(raw, 1) = At(name, 1) /\ At(raw, 2) = At(name, 2)
  <2>1. 2 \in 1..q /\ 3 \in 1..q
    OBVIOUS
  <2>2. raw[2] = name[2] /\ raw[3] = name[3]
    BY <1>11, <2>1
  <2> QED BY <2>2 DEF At
<1>13. Slice(raw, 3, q) = From(name, 3)
  <2>1. q <= Len(raw) /\ q = Len(name)
    BY <1>8
  <2>2. Slice(raw, 3, q) = SubSeq(raw, 4, q)
    BY <2>1 DEF Slice
  <2>3. From(name, 3) = SubSeq(name, 4, q)
    BY DEF From
  <2>4. SubSeq(raw, 4, q) = SubSeq(name, 4, q)
    BY <1>8, <1>11, <2>1, SubSeqProperties
  <2> QED BY <2>2, <2>3, <2>4
<1> QED BY <1>1, <1>8, <1>12, <1>13, Zenon DEF AddedAt, ThreeSlices

(* The three properties hold of a new passcode: the lock reads what the     *)
(* client meant, or the client raises.                                      *)
LEMMA PasscodeAddKept == IInv /\ kind = "passcodeAdd" => Kept
<1> SUFFICES ASSUME IInv, kind = "passcodeAdd" PROVE Kept
  OBVIOUS
<1>1. message \in Asked /\ kind \in RequestKinds
  BY GroupOf DEF IInv, RequestKinds
<1>2. PICK t, start, end : \E c \in Codes \cup BadCodes :
           /\ TypeOf(t) /\ FirstDay(start) /\ LastDay(end)
           /\ meant = [type |-> t, code |-> c, start |-> start, end |-> end]
  BY <1>1, AddMeans
<1>3. PICK c \in Codes \cup BadCodes : meant = [type |-> t, code |-> c, start |-> start, end |-> end]
  BY <1>2
<1>4. TypeOf(t) /\ t \in Byte /\ (t = PERMANENT <=> t = 1)
  <2>1. TypeOf(t)
    BY <1>2
  <2> QED BY <2>1, SetTypes, Zenon
<1>5. FiveOf(start) /\ FiveOf(end)
  BY <1>2, FirstDayIs, LastDayIs
<1>6. start \in Seq(Byte) /\ Len(start) = 5 /\ end \in Seq(Byte) /\ Len(end) = 5
  BY <1>5 DEF FiveOf
<1>7. meant.type = t /\ meant.code = c /\ meant.start = start /\ meant.end = end
  BY <1>3
<1>8. Built(kind, meant) = PasscodeAdd(t, c, Digits(start), Digits(end))
  BY <1>7 DEF Built
<1>9. DecimalTime(Digits(start)) = start /\ DecimalTime(Digits(end)) = end
  BY <1>6, DigitsBack
<1>10. PICK last : last = IF t = PERMANENT THEN <<>> ELSE end
  OBVIOUS
<1>11. last \in Seq(Byte) /\ Len(last) \in Nat
  BY <1>6, <1>10
<1>12. Understood = [meant EXCEPT !.end = IF meant.type = PERMANENT THEN <<>> ELSE @]
  BY DEF Understood
<1>13. Understood = [type |-> t, code |-> c, start |-> start, end |-> last]
  BY <1>3, <1>10, <1>12
<1>14. Sayable <=> c \in Codes
  BY <1>7 DEF Sayable
<1>15. Sayable <=> IsPasscode(c)
  BY <1>3, <1>14, SaidCodes
<1>16. CASE IsPasscode(c)
  <2>1. PICK name : name = Named(ADD, t, c)
    OBVIOUS
  <2>2. PICK raw : ThreeJoined(raw, name, start, last)
    BY DEF ThreeJoined
  <2>3. raw = (name \o start) \o last
    BY <2>2, Zenon DEF ThreeJoined
  <2>4. last = IF t # 1 THEN DecimalTime(Digits(end)) ELSE <<>>
    BY <1>4, <1>9, <1>10
  <2>5. PasscodeAdd(t, c, Digits(start), Digits(end))
          = Returns(Named(ADD, t, c) \o DecimalTime(Digits(start))
                    \o IF t # 1 THEN DecimalTime(Digits(end)) ELSE <<>>)
    BY <1>16, Zenon DEF PasscodeAdd
  <2>6. Built(kind, meant) = Returns(raw)
    BY <1>8, <1>9, <2>1, <2>3, <2>4, <2>5, Zenon
  <2>7. c \in Seq(Byte) /\ Len(c) \in Byte
    BY <1>3, <1>16, SaidCodes
  <2>8. ADD \in Byte
    BY DEF ADD, Byte
  <2>9. NamedAs(name, t, c, Len(c))
    BY <1>4, <2>1, <2>7, <2>8, NamedIs
  <2>10. PICK n \in Byte : n = Len(c)
    BY <2>7
  <2>11. name \in Seq(Byte) /\ Len(name) = 3 + n /\ At(name, 1) = t /\ At(name, 2) = n /\ From(name, 3) = c
    BY <2>9, <2>10, Zenon DEF NamedAs
  <2>12. n \in Nat
    BY <2>10 DEF Byte
  <2>13. PICK q \in Nat : q = 3 + n
    BY <2>12
  <2>14. PICK r \in Nat : r = q + 5
    BY <2>13
  <2>15. PICK s \in Nat : s = r + Len(last)
    BY <1>11, <2>14
  <2>16. q \in Nat /\ r \in Nat /\ s \in Nat /\ q = Len(name) /\ r = q + Len(start) /\ s = r + Len(last)
    BY <1>6, <2>11, <2>13, <2>14, <2>15
  <2>17. AddedAt(raw, name, start, last, q, r)
    <3>1. name \in Seq(Byte) /\ q >= 3
      BY <2>11, <2>12, <2>13
    <3> QED BY <1>6, <1>11, <2>2, <2>16, <3>1, AddedIs
  <2>18. At(raw, 1) = t /\ At(raw, 2) = n /\ Slice(raw, 3, q) = c
    BY <2>11, <2>12, <2>13, <2>17, Zenon DEF AddedAt
  <2>19. Slice(raw, q, r) = start /\ From(raw, r) = last
    BY <2>17, Zenon DEF AddedAt
  <2>20. LockReads(kind, meant, raw) =
         [type |-> At(raw, 1), code |-> Slice(raw, 3, 3 + At(raw, 2)),
          start |-> Slice(raw, 3 + At(raw, 2), 3 + At(raw, 2) + 5), end |-> From(raw, 3 + At(raw, 2) + 5)]
    BY DEF LockReads
  <2>21. LockReads(kind, meant, raw) = [type |-> t, code |-> c, start |-> start, end |-> last]
    BY <2>13, <2>14, <2>18, <2>19, <2>20, Zenon
  <2>22. BuiltAs(Built(kind, meant), Sayable)
    BY <1>13, <1>15, <1>16, <2>6, <2>21, Zenon DEF BuiltAs
  <2> QED BY <1>1, <2>22, RequestKept
<1>17. CASE ~IsPasscode(c)
  <2>1. Built(kind, meant) = Raises("ValueError")
    BY <1>8, <1>17 DEF PasscodeAdd
  <2>2. ~Returned(Built(kind, meant))
    BY <2>1 DEF Returned, Raises
  <2>3. BuiltAs(Built(kind, meant), Sayable)
    BY <1>15, <1>17, <2>2, Zenon DEF BuiltAs
  <2> QED BY <1>1, <2>3, RequestKept
<1> QED BY <1>16, <1>17
=============================================================================
