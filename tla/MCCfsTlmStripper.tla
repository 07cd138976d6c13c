-------------------------- MODULE MCCfsTlmStripper --------------------------
(* CfsTlmStripper for TLC: telemetry and command packets, with and without  *)
(* a secondary header, on both sides of each size the code compares with,  *)
(* and long enough for a borrow out of the low byte of the length field.   *)
EXTENDS CfsTlmStripper

CONSTANTS b1, b2

MCBuffers == {b1, b2}

\* 0: an empty buffer; 5 and 6: no and just a primary header; 16 and 17: no payload and one byte;
\* 272: the length field is 265 before and 255 after.
MCSizes == {0, 5, 6, 16, 17, 20, 272}

\* First bytes: the four combinations of the flags over a high APID bit.
MCFirstBytes == {1, 9, 17, 25}

\* Every byte behind the primary header differs from its neighbours.
MCPacket(first, n) ==
  [size  |-> n,
   bytes |-> [i \in 0 .. n - 1 |->
                CASE i = 0 -> first
                  [] i = 1 -> 35
                  [] i = 2 -> 192
                  [] i = 3 -> 42
                  [] i = 4 -> IF n > 7 THEN (n - 7) \div 256 ELSE 0
                  [] i = 5 -> IF n > 7 THEN (n - 7) % 256 ELSE 0
                  [] OTHER -> (i * 7) % 256]]

\* A packet whose length field does not match its size: the field is below
\* the size of the secondary header.
MCShortLength ==
  [MCPacket(9, 20) EXCEPT !.bytes[4] = 0, !.bytes[5] = 3]

MCPackets ==
  {MCPacket(first, n) : first \in MCFirstBytes, n \in MCSizes}
    \union {MCShortLength}
=============================================================================
