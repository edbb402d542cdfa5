--------------------------- MODULE DRAMSimMapping ---------------------------
(***************************************************************************)
(* Where DRAMSim2 keeps an address (AddressMapping.cpp): seven schemes cut *)
(* it into channel, rank, bank, row and column, from the low bits up.      *)
(* Sizes are powers of two in every device file, so a shift by the         *)
(* logarithm of one divides by it, and what is cut off is the remainder.   *)
(***************************************************************************)
EXTENDS Naturals

CONSTANTS
  transactionSize,         \* (JEDEC_DATA_BUS_BITS/8)*BL: bytes of a transaction
  NUM_CHANS, NUM_RANKS, NUM_BANKS, NUM_ROWS,
  COL_HIGH,                \* transactions in a row: 2^colHighBitWidth
  addressMappingScheme

isPowerOfTwo(n) == \E k \in 0..n : 2^k = n

ASSUME MappingAssumption ==
  /\ transactionSize \in Nat \ {0} /\ NUM_CHANS \in Nat \ {0} /\ NUM_RANKS \in Nat \ {0}
  /\ NUM_BANKS \in Nat \ {0} /\ NUM_ROWS \in Nat \ {0} /\ COL_HIGH \in Nat \ {0}
  /\ \A n \in {transactionSize, NUM_CHANS, NUM_RANKS, NUM_BANKS, NUM_ROWS, COL_HIGH} :
       isPowerOfTwo(n)
  /\ addressMappingScheme \in 1..7

(* Five fields of the given sizes, the lowest first. *)
Cut(n, a, b, c, d, e) ==
  LET n1 == n \div a
      n2 == n1 \div b
      n3 == n2 \div c
      n4 == n3 \div d
  IN <<n % a, n1 % b, n2 % c, n3 % d, n4 % e>>

(* The place of the n-th transaction of the memory. *)
Scheme1(n) ==
  LET p == Cut(n, NUM_BANKS, COL_HIGH, NUM_ROWS, NUM_RANKS, NUM_CHANS)
  IN [bank |-> p[1], col |-> p[2], row |-> p[3], rank |-> p[4], chan |-> p[5]]

Scheme2(n) ==
  LET p == Cut(n, NUM_RANKS, NUM_BANKS, COL_HIGH, NUM_ROWS, NUM_CHANS)
  IN [rank |-> p[1], bank |-> p[2], col |-> p[3], row |-> p[4], chan |-> p[5]]

Scheme3(n) ==
  LET p == Cut(n, NUM_ROWS, COL_HIGH, NUM_BANKS, NUM_RANKS, NUM_CHANS)
  IN [row |-> p[1], col |-> p[2], bank |-> p[3], rank |-> p[4], chan |-> p[5]]

Scheme4(n) ==
  LET p == Cut(n, COL_HIGH, NUM_ROWS, NUM_BANKS, NUM_RANKS, NUM_CHANS)
  IN [col |-> p[1], row |-> p[2], bank |-> p[3], rank |-> p[4], chan |-> p[5]]

Scheme5(n) ==
  LET p == Cut(n, NUM_BANKS, NUM_RANKS, COL_HIGH, NUM_ROWS, NUM_CHANS)
  IN [bank |-> p[1], rank |-> p[2], col |-> p[3], row |-> p[4], chan |-> p[5]]

Scheme6(n) ==
  LET p == Cut(n, COL_HIGH, NUM_RANKS, NUM_BANKS, NUM_ROWS, NUM_CHANS)
  IN [col |-> p[1], rank |-> p[2], bank |-> p[3], row |-> p[4], chan |-> p[5]]

Scheme7(n) ==
  LET p == Cut(n, NUM_CHANS, NUM_BANKS, NUM_RANKS, COL_HIGH, NUM_ROWS)
  IN [chan |-> p[1], bank |-> p[2], rank |-> p[3], col |-> p[4], row |-> p[5]]

Place(scheme, n) ==
  CASE scheme = 1 -> Scheme1(n) [] scheme = 2 -> Scheme2(n) [] scheme = 3 -> Scheme3(n)
    [] scheme = 4 -> Scheme4(n) [] scheme = 5 -> Scheme5(n) [] scheme = 6 -> Scheme6(n)
    [] scheme = 7 -> Scheme7(n)

(* The offset in the burst and the low bits of the column are thrown away. *)
addressMapping(address) == Place(addressMappingScheme, address \div transactionSize)

findChannelNumber(address) == addressMapping(address).chan

Capacity == NUM_CHANS * NUM_RANKS * NUM_BANKS * NUM_ROWS * COL_HIGH

(* No scheme puts two transactions of the memory in one place, and none    *)
(* leaves the memory: addressMapping agrees with the geometry.             *)
PlacesDistinct ==
  \A scheme \in 1..7 : \A m, n \in 0..(Capacity - 1) :
    /\ Place(scheme, n) \in
         [chan : 0..(NUM_CHANS - 1), rank : 0..(NUM_RANKS - 1), bank : 0..(NUM_BANKS - 1),
          row : 0..(NUM_ROWS - 1), col : 0..(COL_HIGH - 1)]
    /\ Place(scheme, m) = Place(scheme, n) => m = n
=============================================================================
