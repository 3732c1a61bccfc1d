---------------------------- MODULE MCOscBuffer -----------------------------
(* A ring of 6 words and packets of 1 to 3 words: records of 2, 3 and 4    *)
(* words meet the end of the ring in every possible way, and two or three  *)
(* of them fill it.  The packet of 6 words never fits.                     *)
EXTENDS OscBuffer

MCPackets == {<<>>, <<8>>, <<8, 9>>, <<9, 8, 9>>, <<8, 8, 8, 8, 8, 8>>}
MCLimits == {2, 5}
MCJunk == {7}

(* For the two disagreements: garbage that looks like a small record too. *)
FewPackets == {<<8>>, <<9>>, <<8, 9>>}
OneLimit == {1}
AnyJunk == {1, 7}
=============================================================================
