------------------------ MODULE DRAMSimMappingProofs ------------------------
(***************************************************************************)
(* addressMapping keeps addresses apart, for every geometry.  A number is  *)
(* determined by its remainder and its quotient; cutting five fields off   *)
(* one below the product of their sizes leaves nothing.                    *)
(***************************************************************************)
EXTENDS DRAMSimMapping, TLAPS

LEMMA Divide ==
  ASSUME NEW n \in Nat, NEW d \in Nat \ {0}
  PROVE  /\ n \div d \in Nat /\ n % d \in 0..(d - 1)
         /\ n = d * (n \div d) + (n % d)
BY Z3

LEMMA Quotient ==
  ASSUME NEW n \in Nat, NEW d \in Nat \ {0}, NEW e \in Nat, n < d * e
  PROVE  n \div d < e
<1> DEFINE q == n \div d
<1>1. q \in Nat /\ n = d * q + (n % d) /\ n % d \in Nat
  BY Divide
<1>2. d * q < d * e
  BY <1>1
<1> HIDE DEF q
<1>3. SUFFICES ASSUME q >= e PROVE FALSE
  BY <1>1 DEF q
<1>4. d * q >= d * e
  BY <1>1, <1>3, Z3
<1> QED BY <1>1, <1>2, <1>4

LEMMA Determined ==
  ASSUME NEW m \in Nat, NEW n \in Nat, NEW d \in Nat \ {0},
         m % d = n % d, m \div d = n \div d
  PROVE  m = n
BY Divide

LEMMA CutDetermines ==
  ASSUME NEW a \in Nat \ {0}, NEW b \in Nat \ {0}, NEW c \in Nat \ {0},
         NEW d \in Nat \ {0}, NEW e \in Nat \ {0},
         NEW m \in Nat, NEW n \in Nat,
         m < a * (b * (c * (d * e))), n < a * (b * (c * (d * e))),
         Cut(m, a, b, c, d, e) = Cut(n, a, b, c, d, e)
  PROVE  m = n
<1> DEFINE m1 == m \div a
           m2 == m1 \div b
           m3 == m2 \div c
           m4 == m3 \div d
           n1 == n \div a
           n2 == n1 \div b
           n3 == n2 \div c
           n4 == n3 \div d
<1>1. /\ m % a = n % a /\ m1 % b = n1 % b /\ m2 % c = n2 % c
      /\ m3 % d = n3 % d /\ m4 % e = n4 % e
  BY DEF Cut
<1>t. d * e \in Nat /\ c * (d * e) \in Nat /\ b * (c * (d * e)) \in Nat
  OBVIOUS
<1>2. m1 \in Nat /\ n1 \in Nat /\ m1 < b * (c * (d * e)) /\ n1 < b * (c * (d * e))
  BY <1>t, Divide, Quotient
<1> HIDE DEF m1, n1
<1>3. m2 \in Nat /\ n2 \in Nat /\ m2 < c * (d * e) /\ n2 < c * (d * e)
  BY <1>t, <1>2, Divide, Quotient
<1> HIDE DEF m2, n2
<1>4. m3 \in Nat /\ n3 \in Nat /\ m3 < d * e /\ n3 < d * e
  BY <1>t, <1>3, Divide, Quotient
<1> HIDE DEF m3, n3
<1>5. m4 \in Nat /\ n4 \in Nat /\ m4 < e /\ n4 < e
  BY <1>4, Divide, Quotient
<1> HIDE DEF m4, n4
<1>6. m4 = n4
  BY <1>1, <1>5, Z3
<1>7. m3 = n3
  BY <1>1, <1>4, <1>6, Determined DEF m4, n4
<1>8. m2 = n2
  BY <1>1, <1>3, <1>7, Determined DEF m3, n3
<1>9. m1 = n1
  BY <1>1, <1>2, <1>8, Determined DEF m2, n2
<1> QED
  BY <1>1, <1>9, Determined DEF m1, n1

LEMMA CutInRange ==
  ASSUME NEW a \in Nat \ {0}, NEW b \in Nat \ {0}, NEW c \in Nat \ {0},
         NEW d \in Nat \ {0}, NEW e \in Nat \ {0}, NEW n \in Nat
  PROVE  Cut(n, a, b, c, d, e) \in
           (0..(a - 1)) \X (0..(b - 1)) \X (0..(c - 1)) \X (0..(d - 1)) \X (0..(e - 1))
<1> DEFINE n1 == n \div a
           n2 == n1 \div b
           n3 == n2 \div c
           n4 == n3 \div d
<1>1. n1 \in Nat /\ n % a \in 0..(a - 1)
  BY Divide
<1> HIDE DEF n1
<1>2. n2 \in Nat /\ n1 % b \in 0..(b - 1)
  BY <1>1, Divide
<1> HIDE DEF n2
<1>3. n3 \in Nat /\ n2 % c \in 0..(c - 1)
  BY <1>2, Divide
<1> HIDE DEF n3
<1>4. n4 \in Nat /\ n3 % d \in 0..(d - 1)
  BY <1>3, Divide
<1> HIDE DEF n4
<1>5. n4 % e \in 0..(e - 1)
  BY <1>4, Divide
<1>6. Cut(n, a, b, c, d, e) = <<n % a, n1 % b, n2 % c, n3 % d, n4 % e>>
  BY DEF Cut, n1, n2, n3, n4
<1> QED
  BY <1>1, <1>2, <1>3, <1>4, <1>5, <1>6

(* No scheme of addressMapping puts two transactions of the memory in one  *)
(* place or outside of the memory, whatever the numbers of channels,       *)
(* ranks, banks, rows and columns are.                                     *)
THEOREM PlacesAreDistinct == PlacesDistinct
<1> DEFINE Geometry ==
      [chan : 0..(NUM_CHANS - 1), rank : 0..(NUM_RANKS - 1), bank : 0..(NUM_BANKS - 1),
       row : 0..(NUM_ROWS - 1), col : 0..(COL_HIGH - 1)]
<1> SUFFICES ASSUME NEW scheme \in 1..7,
                    NEW m \in 0..(Capacity - 1), NEW n \in 0..(Capacity - 1)
             PROVE  /\ Place(scheme, n) \in Geometry
                    /\ Place(scheme, m) = Place(scheme, n) => m = n
  BY DEF PlacesDistinct
<1>0. /\ NUM_CHANS \in Nat \ {0} /\ NUM_RANKS \in Nat \ {0} /\ NUM_BANKS \in Nat \ {0}
      /\ NUM_ROWS \in Nat \ {0} /\ COL_HIGH \in Nat \ {0}
  BY MappingAssumption
<1>c. Capacity \in Nat /\ m \in Nat /\ n \in Nat /\ m < Capacity /\ n < Capacity
  BY <1>0 DEF Capacity
<1>1. CASE scheme = 1
  <2> DEFINE p(x) == Cut(x, NUM_BANKS, COL_HIGH, NUM_ROWS, NUM_RANKS, NUM_CHANS)
  <2>1. Capacity = NUM_BANKS * (COL_HIGH * (NUM_ROWS * (NUM_RANKS * NUM_CHANS)))
    BY <1>0, Z3 DEF Capacity
  <2>2. p(n) \in (0..(NUM_BANKS - 1)) \X (0..(COL_HIGH - 1)) \X (0..(NUM_ROWS - 1))
               \X (0..(NUM_RANKS - 1)) \X (0..(NUM_CHANS - 1))
    BY <1>0, <1>c, CutInRange
  <2>3. p(m) = p(n) => m = n
    BY <1>0, <1>c, <2>1, CutDetermines
  <2>4. p(m) = <<p(m)[1], p(m)[2], p(m)[3], p(m)[4], p(m)[5]>>
        /\ p(n) = <<p(n)[1], p(n)[2], p(n)[3], p(n)[4], p(n)[5]>>
    BY DEF Cut
  <2>5. \A x : Place(scheme, x) =
          [bank |-> p(x)[1], col |-> p(x)[2], row |-> p(x)[3], rank |-> p(x)[4],
           chan |-> p(x)[5]]
    BY <1>1 DEF Place, Scheme1
  <2> HIDE DEF p
  <2> QED BY <2>2, <2>3, <2>4, <2>5
<1>2. CASE scheme = 2
  <2> DEFINE p(x) == Cut(x, NUM_RANKS, NUM_BANKS, COL_HIGH, NUM_ROWS, NUM_CHANS)
  <2>1. Capacity = NUM_RANKS * (NUM_BANKS * (COL_HIGH * (NUM_ROWS * NUM_CHANS)))
    BY <1>0, Z3 DEF Capacity
  <2>2. p(n) \in (0..(NUM_RANKS - 1)) \X (0..(NUM_BANKS - 1)) \X (0..(COL_HIGH - 1))
               \X (0..(NUM_ROWS - 1)) \X (0..(NUM_CHANS - 1))
    BY <1>0, <1>c, CutInRange
  <2>3. p(m) = p(n) => m = n
    BY <1>0, <1>c, <2>1, CutDetermines
  <2>4. p(m) = <<p(m)[1], p(m)[2], p(m)[3], p(m)[4], p(m)[5]>>
        /\ p(n) = <<p(n)[1], p(n)[2], p(n)[3], p(n)[4], p(n)[5]>>
    BY DEF Cut
  <2>5. \A x : Place(scheme, x) =
          [rank |-> p(x)[1], bank |-> p(x)[2], col |-> p(x)[3], row |-> p(x)[4],
           chan |-> p(x)[5]]
    BY <1>2 DEF Place, Scheme2
  <2> HIDE DEF p
  <2> QED BY <2>2, <2>3, <2>4, <2>5
<1>3. CASE scheme = 3
  <2> DEFINE p(x) == Cut(x, NUM_ROWS, COL_HIGH, NUM_BANKS, NUM_RANKS, NUM_CHANS)
  <2>1. Capacity = NUM_ROWS * (COL_HIGH * (NUM_BANKS * (NUM_RANKS * NUM_CHANS)))
    BY <1>0, Z3 DEF Capacity
  <2>2. p(n) \in (0..(NUM_ROWS - 1)) \X (0..(COL_HIGH - 1)) \X (0..(NUM_BANKS - 1))
               \X (0..(NUM_RANKS - 1)) \X (0..(NUM_CHANS - 1))
    BY <1>0, <1>c, CutInRange
  <2>3. p(m) = p(n) => m = n
    BY <1>0, <1>c, <2>1, CutDetermines
  <2>4. p(m) = <<p(m)[1], p(m)[2], p(m)[3], p(m)[4], p(m)[5]>>
        /\ p(n) = <<p(n)[1], p(n)[2], p(n)[3], p(n)[4], p(n)[5]>>
    BY DEF Cut
  <2>5. \A x : Place(scheme, x) =
          [row |-> p(x)[1], col |-> p(x)[2], bank |-> p(x)[3], rank |-> p(x)[4],
           chan |-> p(x)[5]]
    BY <1>3 DEF Place, Scheme3
  <2> HIDE DEF p
  <2> QED BY <2>2, <2>3, <2>4, <2>5
<1>4. CASE scheme = 4
  <2> DEFINE p(x) == Cut(x, COL_HIGH, NUM_ROWS, NUM_BANKS, NUM_RANKS, NUM_CHANS)
  <2>1. Capacity = COL_HIGH * (NUM_ROWS * (NUM_BANKS * (NUM_RANKS * NUM_CHANS)))
    BY <1>0, Z3 DEF Capacity
  <2>2. p(n) \in (0..(COL_HIGH - 1)) \X (0..(NUM_ROWS - 1)) \X (0..(NUM_BANKS - 1))
               \X (0..(NUM_RANKS - 1)) \X (0..(NUM_CHANS - 1))
    BY <1>0, <1>c, CutInRange
  <2>3. p(m) = p(n) => m = n
    BY <1>0, <1>c, <2>1, CutDetermines
  <2>4. p(m) = <<p(m)[1], p(m)[2], p(m)[3], p(m)[4], p(m)[5]>>
        /\ p(n) = <<p(n)[1], p(n)[2], p(n)[3], p(n)[4], p(n)[5]>>
    BY DEF Cut
  <2>5. \A x : Place(scheme, x) =
          [col |-> p(x)[1], row |-> p(x)[2], bank |-> p(x)[3], rank |-> p(x)[4],
           chan |-> p(x)[5]]
    BY <1>4 DEF Place, Scheme4
  <2> HIDE DEF p
  <2> QED BY <2>2, <2>3, <2>4, <2>5
<1>5. CASE scheme = 5
  <2> DEFINE p(x) == Cut(x, NUM_BANKS, NUM_RANKS, COL_HIGH, NUM_ROWS, NUM_CHANS)
  <2>1. Capacity = NUM_BANKS * (NUM_RANKS * (COL_HIGH * (NUM_ROWS * NUM_CHANS)))
    BY <1>0, Z3 DEF Capacity
  <2>2. p(n) \in (0..(NUM_BANKS - 1)) \X (0..(NUM_RANKS - 1)) \X (0..(COL_HIGH - 1))
               \X (0..(NUM_ROWS - 1)) \X (0..(NUM_CHANS - 1))
    BY <1>0, <1>c, CutInRange
  <2>3. p(m) = p(n) => m = n
    BY <1>0, <1>c, <2>1, CutDetermines
  <2>4. p(m) = <<p(m)[1], p(m)[2], p(m)[3], p(m)[4], p(m)[5]>>
        /\ p(n) = <<p(n)[1], p(n)[2], p(n)[3], p(n)[4], p(n)[5]>>
    BY DEF Cut
  <2>5. \A x : Place(scheme, x) =
          [bank |-> p(x)[1], rank |-> p(x)[2], col |-> p(x)[3], row |-> p(x)[4],
           chan |-> p(x)[5]]
    BY <1>5 DEF Place, Scheme5
  <2> HIDE DEF p
  <2> QED BY <2>2, <2>3, <2>4, <2>5
<1>6. CASE scheme = 6
  <2> DEFINE p(x) == Cut(x, COL_HIGH, NUM_RANKS, NUM_BANKS, NUM_ROWS, NUM_CHANS)
  <2>1. Capacity = COL_HIGH * (NUM_RANKS * (NUM_BANKS * (NUM_ROWS * NUM_CHANS)))
    BY <1>0, Z3 DEF Capacity
  <2>2. p(n) \in (0..(COL_HIGH - 1)) \X (0..(NUM_RANKS - 1)) \X (0..(NUM_BANKS - 1))
               \X (0..(NUM_ROWS - 1)) \X (0..(NUM_CHANS - 1))
    BY <1>0, <1>c, CutInRange
  <2>3. p(m) = p(n) => m = n
    BY <1>0, <1>c, <2>1, CutDetermines
  <2>4. p(m) = <<p(m)[1], p(m)[2], p(m)[3], p(m)[4], p(m)[5]>>
        /\ p(n) = <<p(n)[1], p(n)[2], p(n)[3], p(n)[4], p(n)[5]>>
    BY DEF Cut
  <2>5. \A x : Place(scheme, x) =
          [col |-> p(x)[1], rank |-> p(x)[2], bank |-> p(x)[3], row |-> p(x)[4],
           chan |-> p(x)[5]]
    BY <1>6 DEF Place, Scheme6
  <2> HIDE DEF p
  <2> QED BY <2>2, <2>3, <2>4, <2>5
<1>7. CASE scheme = 7
  <2> DEFINE p(x) == Cut(x, NUM_CHANS, NUM_BANKS, NUM_RANKS, COL_HIGH, NUM_ROWS)
  <2>1. Capacity = NUM_CHANS * (NUM_BANKS * (NUM_RANKS * (COL_HIGH * NUM_ROWS)))
    BY <1>0, Z3 DEF Capacity
  <2>2. p(n) \in (0..(NUM_CHANS - 1)) \X (0..(NUM_BANKS - 1)) \X (0..(NUM_RANKS - 1))
               \X (0..(COL_HIGH - 1)) \X (0..(NUM_ROWS - 1))
    BY <1>0, <1>c, CutInRange
  <2>3. p(m) = p(n) => m = n
    BY <1>0, <1>c, <2>1, CutDetermines
  <2>4. p(m) = <<p(m)[1], p(m)[2], p(m)[3], p(m)[4], p(m)[5]>>
        /\ p(n) = <<p(n)[1], p(n)[2], p(n)[3], p(n)[4], p(n)[5]>>
    BY DEF Cut
  <2>5. \A x : Place(scheme, x) =
          [chan |-> p(x)[1], bank |-> p(x)[2], rank |-> p(x)[3], col |-> p(x)[4],
           row |-> p(x)[5]]
    BY <1>7 DEF Place, Scheme7
  <2> HIDE DEF p
  <2> QED BY <2>2, <2>3, <2>4, <2>5
<1> QED
  BY <1>1, <1>2, <1>3, <1>4, <1>5, <1>6, <1>7
=============================================================================
