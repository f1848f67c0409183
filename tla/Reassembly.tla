----------------------------- MODULE Reassembly -----------------------------
(***************************************************************************)
(* FrameReassembler: finds the frames of the lock in the byte chunks the   *)
(* notification callback is given.  One feed is one action.                *)
(*                                                                         *)
(* The lock, which writes frames, and the radio, which cuts them into      *)
(* chunks and loses the rest of a frame with the link, are the             *)
(* environment.  The fields between the protocol type and the length are   *)
(* opaque to the reassembler and left out of the scaled layout; a byte is  *)
(* a number below BYTE.                                                    *)
(***************************************************************************)
EXTENDS Naturals, Sequences, FiniteSets, FiniteSetsExt

CONSTANTS
  BYTE,               \* values of a byte, 256 in the code
  HEADER,             \* 7F 5A
  TRAILER,            \* 0D 0A
  MIN_PROTOCOL_TYPE,
  V3_LENGTH_INDEX,    \* 0-based, as in the code
  V3_HEADER_LEN,
  LEGACY_LENGTH_INDEX,
  LEGACY_HEADER_LEN,
  CRC_LEN,
  PROTOCOL,           \* protocol type of the lock's frames
  Payloads,           \* payloads of the lock's frames
  Crcs,               \* CRC bytes of the lock's frames
  Noise,              \* byte strings that are not frames of the lock
  ChunkSizes,         \* bytes in a notification
  MaxFrames,          \* bound: frames the lock sends
  MaxNoise,           \* bound: byte strings that are not frames
  MaxDrops            \* bound: drops of the link

Byte == 0..(BYTE - 1)

ASSUME LayoutAssumption ==
  /\ BYTE \in Nat
  /\ HEADER \in Byte \X Byte /\ HEADER[1] # HEADER[2]
  /\ TRAILER \in Byte \X Byte
  /\ MIN_PROTOCOL_TYPE \in Nat
  /\ V3_LENGTH_INDEX \in Nat /\ V3_LENGTH_INDEX > 2
  /\ V3_HEADER_LEN = V3_LENGTH_INDEX + 1
  /\ LEGACY_LENGTH_INDEX \in 3..V3_LENGTH_INDEX
  /\ LEGACY_HEADER_LEN = LEGACY_LENGTH_INDEX + 1
  /\ CRC_LEN = 1
  /\ PROTOCOL \in Byte /\ PROTOCOL >= MIN_PROTOCOL_TYPE
  /\ \A data \in Payloads : data \in Seq(Byte) /\ Len(data) < BYTE
  /\ Crcs \subseteq Byte
  /\ ChunkSizes \subseteq Nat \ {0}
  /\ \A junk \in Noise : junk \in Seq(Byte)

VARIABLES
  buf,      \* _buf
  wire,     \* bytes written by the lock and not notified yet
  stream,   \* history: all bytes notified
  sent,     \* history: the frames the lock wrote, and where in the stream
  yielded,  \* history: the frames feed returned, and where in the stream
  noises,   \* history: byte strings that are not frames
  drops     \* history: drops of the link

vars == <<buf, wire, stream, sent, yielded, noises, drops>>

Init ==
  /\ buf = <<>>
  /\ wire = <<>>
  /\ stream = <<>>
  /\ sent = {}
  /\ yielded = <<>>
  /\ noises = 0
  /\ drops = 0

----------------------------------------------------------------------------
(* feed.                                                                   *)

Drop(b, n) == SubSeq(b, n + 1, Len(b))

HeaderAt(b, i) == i < Len(b) /\ SubSeq(b, i, i + 1) = HEADER

Headers(b) == {i \in 1..Len(b) : HeaderAt(b, i)}

(* Fault: nothing is kept when there is no header.                          *)
KeptForgetting(b) == <<>>

(* A header can straddle two chunks: the last byte is kept.                 *)
Kept(b) == IF b = <<>> THEN b ELSE <<b[Len(b)]>>

(* No lock of a protocol type below the minimum is talked to.               *)
MisSynced(b) == Len(b) >= 3 /\ b[3] < MIN_PROTOCOL_TYPE

(* Fault: the frame is taken to end at the first CRLF.                      *)
DeclaredLenScanning(b) ==
  LET ends == {i \in 4..(Len(b) - 1) : SubSeq(b, i, i + 1) = TRAILER}
  IN  IF ends = {} THEN 0 ELSE Min(ends) + 1

(* Fault: the length field is taken to be two bytes wide.                   *)
DeclaredLenWide(b) ==
  IF Len(b) <= V3_LENGTH_INDEX + 1 THEN 0
  ELSE V3_HEADER_LEN + b[V3_LENGTH_INDEX + 1] + BYTE * b[V3_LENGTH_INDEX + 2]
       + CRC_LEN + Len(TRAILER)

(* _declared_frame_len, 0 for None.                                         *)
DeclaredLen(b) ==
  IF Len(b) <= V3_LENGTH_INDEX THEN 0
  ELSE V3_HEADER_LEN + b[V3_LENGTH_INDEX + 1] + CRC_LEN + Len(TRAILER)

(* Fault: all that the false header declared is thrown away with it.        *)
ResyncSkipping(b) ==
  Drop(b, IF MisSynced(b) THEN Len(HEADER) ELSE DeclaredLen(b))

(* The header was not the start of a frame.                                 *)
Resync(b) == Drop(b, Len(HEADER))

(* Frame.parse of the bytes before the trailer; no frame for its ValueError. *)
Parse(raw) ==
  LET legacy == raw[3] < MIN_PROTOCOL_TYPE
      header == IF legacy THEN LEGACY_HEADER_LEN ELSE V3_HEADER_LEN
      length == raw[IF legacy THEN LEGACY_LENGTH_INDEX + 1
                    ELSE V3_LENGTH_INDEX + 1]
  IN  IF \/ Len(raw) < LEGACY_HEADER_LEN + CRC_LEN
         \/ ~HeaderAt(raw, 1)
         \/ Len(raw) < header
         \/ Len(raw) < header + length
      THEN {}
      ELSE {[protocol |-> raw[3],
             data |-> SubSeq(raw, header + 1, header + length)]}

(* The loop of feed: what is left of the buffer, and the frames found, each *)
(* with the number of bytes from its first to the end of the buffer.        *)
Scan(buffer) ==
  LET scan[b \in Seq(Byte)] ==
        LET h == Drop(b, Min(Headers(b)) - 1)
            size == DeclaredLen(h)
            raw == SubSeq(h, 1, size - Len(TRAILER))
            more == scan[Drop(h, size)]
        IN  IF Headers(b) = {} THEN [rest |-> Kept(b), frames |-> <<>>]
            ELSE IF MisSynced(h) THEN scan[Resync(h)]
            ELSE IF size = 0 \/ Len(h) < size
                 THEN [rest |-> h, frames |-> <<>>]
            ELSE IF SubSeq(h, size - Len(TRAILER) + 1, size) # TRAILER
                 THEN scan[Resync(h)]
            ELSE IF Parse(raw) = {} THEN more
            ELSE [rest |-> more.rest,
                  frames |-> <<[from |-> Len(h),
                                frame |-> CHOOSE f \in Parse(raw) : TRUE]>>
                             \o more.frames]
  IN  scan[buffer]

Feed(chunk) ==
  LET result == Scan(buf \o chunk)
      found == result.frames
  IN  /\ stream' = stream \o chunk
      /\ buf' = result.rest
      /\ yielded' = yielded \o
           [i \in 1..Len(found) |->
              [at |-> Len(stream') - found[i].from + 1,
               frame |-> found[i].frame]]

----------------------------------------------------------------------------
(* The lock and the radio.                                                 *)

(* The wire form of a frame of the lock.                                    *)
Build(data, crc) ==
  HEADER \o <<PROTOCOL>> \o [i \in 1..(V3_LENGTH_INDEX - 3) |-> 0]
  \o <<Len(data)>> \o data \o <<crc>> \o TRAILER

(* A notification carries bytes of one write of the lock.                   *)
LockSends(data, crc) ==
  /\ wire = <<>>
  /\ Cardinality(sent) < MaxFrames
  /\ sent' = sent \cup {[at |-> Len(stream) + 1, data |-> data]}
  /\ wire' = Build(data, crc)
  /\ UNCHANGED <<buf, stream, yielded, noises, drops>>

(* Bytes that are no frame of this protocol.                                *)
NoiseComes(junk) ==
  /\ wire = <<>>
  /\ noises < MaxNoise
  /\ noises' = noises + 1
  /\ wire' = junk
  /\ UNCHANGED <<buf, stream, sent, yielded, drops>>

Notify(n) ==
  /\ n <= Len(wire)
  /\ Feed(SubSeq(wire, 1, n))
  /\ wire' = Drop(wire, n)
  /\ UNCHANGED <<sent, noises, drops>>

SizeOf(data) == V3_HEADER_LEN + Len(data) + CRC_LEN + Len(TRAILER)

(* What was not notified by then is lost; the reassembler is the same on    *)
(* the next connection.                                                     *)
LinkDrops ==
  /\ wire # <<>>
  /\ drops < MaxDrops
  /\ drops' = drops + 1
  /\ wire' = <<>>
  /\ sent' = {f \in sent : f.at + SizeOf(f.data) - 1 <= Len(stream)}
  /\ UNCHANGED <<buf, stream, yielded, noises>>

Next ==
  \/ \E data \in Payloads, crc \in Crcs : LockSends(data, crc)
  \/ \E junk \in Noise : NoiseComes(junk)
  \/ \E n \in ChunkSizes : Notify(n)
  \/ LinkDrops

Spec == Init /\ [][Next]_vars

----------------------------------------------------------------------------
(* Properties.                                                             *)

(* The longest frame a length byte can declare, 270 in the code.            *)
MaxFrame == V3_HEADER_LEN + (BYTE - 1) + CRC_LEN + Len(TRAILER)

(* A whole stream read at once: from i on, the frame that starts first, and *)
(* the rest from its end.  A header whose frame is not complete yet holds   *)
(* back all that follows.                                                   *)
SizeAt(s, p) == V3_HEADER_LEN + s[p + V3_LENGTH_INDEX] + CRC_LEN + Len(TRAILER)

CompleteAt(s, p) ==
  p + V3_LENGTH_INDEX <= Len(s) /\ p + SizeAt(s, p) - 1 <= Len(s)

PossibleAt(s, p) ==
  /\ HeaderAt(s, p)
  /\ p + 2 <= Len(s) => s[p + 2] >= MIN_PROTOCOL_TYPE
  /\ CompleteAt(s, p) =>
       \A k \in 1..2 : s[p + SizeAt(s, p) - 3 + k] = TRAILER[k]

FramesIn(s) ==
  LET from[i \in 1..(Len(s) + 1)] ==
        LET starts == {p \in i..Len(s) : PossibleAt(s, p)}
            p == Min(starts)
        IN  IF starts = {} \/ ~CompleteAt(s, p) THEN <<>>
            ELSE <<[at |-> p,
                    frame |->
                      [protocol |-> s[p + 2],
                       data |-> [k \in 1..s[p + V3_LENGTH_INDEX] |->
                                   s[p + V3_HEADER_LEN + k - 1]]]]>>
                 \o from[p + SizeAt(s, p)]
  IN  from[1]

(* However the radio cuts the stream into chunks, and whatever is in it,    *)
(* the frames are those of the stream read at once.                         *)
ChunksDoNotMatter == yielded = FramesIn(stream)

(* "no frame can claim more than 270 bytes in total": between two feeds the *)
(* buffer is shorter than the longest frame, whatever was received.         *)
BufferIsBounded == Len(buf) < MaxFrame

Arrived(f) == f.at + SizeOf(f.data) - 1 <= Len(stream)

(* As long as the link holds and brings frames only, feed returns each one  *)
(* with its last byte, once and in order, also when its payload contains a  *)
(* CRLF or a header.                                                        *)
FramesArriveWhole ==
  noises = 0 /\ drops = 0 =>
    /\ {[at |-> y.at, data |-> y.frame.data] :
          y \in {yielded[i] : i \in 1..Len(yielded)}}
         = {f \in sent : Arrived(f)}
    /\ \A i \in 1..(Len(yielded) - 1) : yielded[i].at < yielded[i + 1].at

(* A frame that follows noise or a frame cut short by a drop is returned at *)
(* the latest when the longest frame would fit between its first byte and   *)
(* the end of the stream, unless a false frame that reaches into it was.    *)
LateByOneFrameAtMost ==
  \A f \in sent : Arrived(f) /\ Len(stream) >= f.at + MaxFrame - 1 =>
    \E i \in 1..Len(yielded) :
      \/ yielded[i].at = f.at
      \/ /\ yielded[i].at < f.at
         /\ f.at < yielded[i].at + SizeOf(yielded[i].frame.data)
=============================================================================
