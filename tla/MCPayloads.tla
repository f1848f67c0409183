----------------------------- MODULE MCPayloads -----------------------------
(* Values for Payloads that sit on the edges of the layouts.                *)
EXTENDS Payloads

(* Zero, a single byte, four bytes of which the first looks like a state.   *)
MCIds == {<<>>, <<9>>, <<1, 0, 255, 2>>}
MCLongIds == {<<1, 0, 0, 0, 0>>}

MCCodes == {<<49, 50, 51, 52>>, <<48, 49, 50, 51, 52, 53, 54, 55, 57>>}
MCBadCodes == {<<49, 50, 51>>, <<49, 50, 51, 52, 53, 54, 55, 56, 57, 48>>, <<49, 50, 51, 65>>}

(* A leap day, the last minute of a year, and the thirtieth of February.    *)
MCDays == {<<28, 2, 29, 0, 0>>, <<26, 12, 31, 23, 59>>, <<26, 2, 30, 12, 0>>}
MCStamps == {<<24, 2, 29, 8, 0, 1>>}

MCVersions ==
  {[protocol |-> 5, version |-> 3, scene |-> 7, group |-> 258, org |-> 65535],
   [protocol |-> 3, version |-> 1, scene |-> 2, group |-> 0, org |-> 9]}

(* One type of every decoder, and one without.                              *)
MCTypes == {1, 37, 5, 7, 8, 17, 20, 57, 30, 19, 55, 56, 93, 14}

(* A zero, a byte that looks like a length, a whole record, a long tail.    *)
MCSuffixes == {<<0>>, <<2, 49, 50>>, <<0, 0, 0, 7>>,
               <<8, 14, 25, 1, 1, 0, 0, 0, 50>>, <<26, 1, 1, 9, 9, 26, 2, 2, 9, 9, 0, 1>>}
=============================================================================
