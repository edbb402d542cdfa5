------------------------------- MODULE MCDRAM -------------------------------
(* Channel 0 of two, with two banks of rows of two lines: three senders    *)
(* compete for two rows of bank 0, one of them also uses bank 1.  With     *)
(* scheme 7 and transactions of eight bytes, bits 3 to 6 of an address are *)
(* channel, bank, column and the lowest bit of the row.                    *)
EXTENDS DRAMSimChannel

Of(type, b, r, c) == [type |-> type, address |-> 8 * (2 * (b + 2 * (c + 2 * r)))]

OtherChannel == [type |-> "READ", address |-> 8]

MCTraffic ==
  [s \in {"s1", "s2", "s3"} |->
     CASE s = "s1" -> {Of("READ", 0, 1, 0), Of("WRITE", 0, 2, 0)}
       [] s = "s2" -> {Of("READ", 0, 1, 0)}
       [] s = "s3" -> {Of("WRITE", 0, 1, 1), Of("READ", 1, 1, 0), OtherChannel}]
=============================================================================
