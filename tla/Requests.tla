------------------------------ MODULE Requests ------------------------------
(***************************************************************************)
(* The payloads the client sends: commands/session.py, control.py,          *)
(* auto_lock.py, lock_sound.py, passcode.py, clock.py and the indices of    *)
(* the listings.  A builder returns the bytes or raises.  A number that may *)
(* need more than two bytes is given by its digits in base 256, without     *)
(* leading zeros; a date by its decimal digits.                            *)
(***************************************************************************)
EXTENDS Encoding

Zeros(n) == [i \in 1..n |-> 0]

(* int.to_bytes(n, "big"), of a number that fits.                          *)
Padded(n, number) == Zeros(n - Len(number)) \o number

Fits(n, number) == Len(number) <= n

(* decimal_time_bytes: a byte for every pair of digits.                     *)
DecimalTime(digits) ==
  LET even == IF Len(digits) % 2 = 1 THEN <<0>> \o digits ELSE digits
  IN  [i \in 1..Len(even) \div 2 |-> 10 * even[2 * i - 1] + even[2 * i]]

UserTimeStart == <<0, 0, 0, 1, 3, 1, 1, 4, 0, 0>>
UserTimeEnd == <<9, 9, 1, 1, 3, 0, 1, 4, 0, 0>>

(* lockFlagPos, of which the three low bytes are sent.                      *)
LowThree(number) ==
  IF Len(number) <= 3 THEN Padded(3, number) ELSE From(number, Len(number) - 3)

CheckUserTime(uid, lockFlagPos) ==
  IF ~Fits(4, uid) THEN Raises("OverflowError")
  ELSE Returns(DecimalTime(UserTimeStart) \o DecimalTime(UserTimeEnd)
               \o LowThree(lockFlagPos) \o Padded(4, uid))

CheckAdmin(uid, adminPs, lockFlagPos) ==
  IF ~Fits(4, uid) \/ ~Fits(4, adminPs) THEN Raises("OverflowError")
  ELSE Returns(Padded(4, adminPs) \o LowThree(lockFlagPos) \o Padded(4, uid))

(* (psFromLock + unlockKey) & 0xFFFFFFFF, four bytes each.                  *)
WrappedSum(token, unlockKey) ==
  LET carry[i \in 1..5] ==     \* into byte i, from the bytes behind it
        IF i >= 4 THEN 0
        ELSE (token[i + 1] + unlockKey[i + 1] + carry[i + 1]) \div 256
  IN  [i \in 1..4 |-> (token[i] + unlockKey[i] + carry[i]) % 256]

CheckRandom(token, unlockKey) == Returns(WrappedSum(token, unlockKey))

Unlock(token, unlockKey, epoch) ==
  IF ~Fits(4, epoch) THEN Raises("OverflowError")
  ELSE Returns(WrappedSum(token, unlockKey) \o Padded(4, epoch))

----------------------------------------------------------------------------
MODIFY == 2

AutoLockSet(seconds) ==
  IF seconds \notin 0..65535 THEN Raises("ValueError")
  ELSE Returns(<<MODIFY, seconds \div 256, seconds % 256>>)

SetLockSound(enabled) == Returns(<<MODIFY, IF enabled THEN 1 ELSE 0>>)

SetLockVolume(level) ==
  IF level \notin 1..5 THEN Raises("ValueError") ELSE Returns(<<MODIFY, 1, level, 0>>)

(* payload_passcode_add and payload_passcode_delete.                        *)
ADD == 2
REMOVE_ONE == 3

IsPasscode(code) == Len(code) \in 4..9 /\ \A i \in DOMAIN code : code[i] \in 48..57

Named(operation, type, code) == <<operation, type, Len(code)>> \o code

PasscodeAdd(type, code, start, end) ==
  IF ~IsPasscode(code) THEN Raises("ValueError")
  ELSE Returns(Named(ADD, type, code) \o DecimalTime(start)
               \o IF type # 1 THEN DecimalTime(end) ELSE <<>>)

PasscodeDelete(type, code) ==
  IF ~IsPasscode(code) THEN Raises("ValueError")
  ELSE Returns(Named(REMOVE_ONE, type, code))

(* The index of a listing and the cursor of the log: two bytes.             *)
Cursor(operation, number) ==
  IF ~Fits(2, number) THEN Raises("OverflowError")
  ELSE Returns(operation \o Padded(2, number))

TimeCalibrate(digits) == Returns(DecimalTime(digits))
=============================================================================
