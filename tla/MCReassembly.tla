---------------------------- MODULE MCReassembly ----------------------------
(* Instances of Reassembly for TLC: bytes 0..4, header 3 4, trailer 1 2,    *)
(* frames of 8 to 12 bytes.  A payload, the CRC, the length and the         *)
(* protocol type can all be mistaken for parts of a header or a trailer.    *)
EXTENDS Reassembly

MCHeader == <<3, 4>>
MCTrailer == <<1, 2>>

(* Nothing, the trailer, half a header that the CRC completes, and headers  *)
(* with a proper and a rejected continuation.                               *)
MCPayloads == {<<>>, <<1, 2>>, <<0, 3>>, <<3, 4, 1, 0>>, <<2, 3, 4, 0>>}

(* Half a header, a header that declares the longest frame, and a whole     *)
(* frame of a protocol type below the minimum.                              *)
MCNoise == {<<3>>, <<3, 4, 1, 0, 4>>, <<3, 4, 0, 1, 0, 0, 1, 2>>}
=============================================================================
