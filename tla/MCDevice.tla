------------------------------ MODULE MCDevice ------------------------------
(* A device for TLC: lines of four bytes.  A frame is a whole number of    *)
(* lines; a network packet (1562 bytes, 24.4 lines of 64) is not.          *)
EXTENDS GemDroidDevice

MCFrames == {4, 12, 32, 64}
MCPacket == {10}
=============================================================================
