------------------------------- MODULE Frames -------------------------------
(***************************************************************************)
(* protocol/frame.py: the two layouts of a frame, before and from protocol  *)
(* type 5 on.  The encryption of the data and the value of the CRC, which   *)
(* no reader of frames checks, are opaque.                                 *)
(***************************************************************************)
EXTENDS Encoding

HEADER == <<127, 90>>
TRAILER == <<13, 10>>

ENCRYPT_PLAIN == 170

IsV3(protocol) == protocol >= 5

HeaderLen(protocol) == IF IsV3(protocol) THEN 12 ELSE 6

Low(n) == n % 256

Word(n) == <<Low(n \div 256), Low(n)>>

(* Frame.for_lock: the five numbers of the lock version, and the command.   *)
ForLock(lockVersion, command, data) ==
  [protocol |-> lockVersion.protocol, version |-> lockVersion.version,
   scene |-> lockVersion.scene, group |-> lockVersion.group, org |-> lockVersion.org,
   command |-> command, encrypt |-> ENCRYPT_PLAIN, data |-> data]

(* Frame.build up to the CRC.                                              *)
Body(f) ==
  (IF IsV3(f.protocol)
   THEN HEADER \o <<Low(f.protocol), Low(f.version), Low(f.scene)>>
               \o Word(f.group) \o Word(f.org)
   ELSE HEADER \o <<Low(f.protocol)>>)
  \o <<Low(f.command), Low(f.encrypt), Low(Len(f.data))>> \o f.data

Build(f, crc) == Body(f) \o <<crc>> \o TRAILER

(* Frame.parse.                                                            *)
Parse(raw) ==
  LET v3 == IsV3(At(raw, 2))
      head == HeaderLen(At(raw, 2))
      length == At(raw, head - 1)
  IN  IF \/ Len(raw) < 7 \/ Slice(raw, 0, 2) # HEADER
         \/ Len(raw) < head \/ Len(raw) < head + length
      THEN Raises("ValueError")
      ELSE Returns(
             [protocol |-> At(raw, 2),
              version |-> IF v3 THEN At(raw, 3) ELSE 0,
              scene |-> IF v3 THEN At(raw, 4) ELSE 0,
              group |-> IF v3 THEN 256 * At(raw, 5) + At(raw, 6) ELSE 0,
              org |-> IF v3 THEN 256 * At(raw, 7) + At(raw, 8) ELSE 0,
              command |-> At(raw, head - 3), encrypt |-> At(raw, head - 2),
              data |-> Slice(raw, head, head + length)])
=============================================================================
