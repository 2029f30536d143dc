------------------------- MODULE Mlx90640Calibration -------------------------
(***************************************************************************)
(* What MLX90640_ExtractParameters makes of the sensor's EEPROM, where it  *)
(* is integer work or a loop (MLX90640_API.c): the offset of a pixel put   *)
(* together from signed fields in 16 bits; the loop that scales the        *)
(* temperature (or voltage) coefficients to fill 8 bits; and the test of   *)
(* the pixels marked broken or outlier.  A behaviour does one of them on   *)
(* one EEPROM.                                                             *)
(***************************************************************************)
EXTENDS Integers, Sequences, SequencesExt, FiniteSets

CONSTANTS
    Lines, Columns,   \* the sensor has 24 by 32 pixels
    Limit,            \* bad pixels the API puts up with: 4
    OffsetFields,     \* EEPROM fields the offset of a pixel is made of
    Coefficients      \* pairs: a numerator and the power of two under it

Pixels == 0..(Lines * Columns - 1)
NoPixel == 65535      \* 0xFFFF

VARIABLES
    job,      \* what is extracted: "offset", "scale", "pixels"
    ee,       \* the EEPROM words it is extracted from
    pc,       \* "run" or "done"
    temp,     \* scale: the numerator of the largest coefficient, doubled so far
    scale,    \* ktaScale1, a byte
    pixCnt,   \* pixels: the one the loop is at
    bad,      \* pixels: brokenPixels and outlierPixels so far
    out       \* what is stored in paramsMLX90640

vars == <<job, ee, pc, temp, scale, pixCnt, bad, out>>

\* A word of EEPROM for a pixel: 0 if it is broken, an odd number if it is an outlier.
Words == {0, 1, 2}

Abs(n) == IF n < 0 THEN -n ELSE n
Numerators == {x[1] : x \in Coefficients}

Init ==
    /\ \/ job = "offset" /\ ee \in OffsetFields /\ temp = 0
       \/ job = "scale" /\ ee \in Coefficients \X Numerators
          /\ Abs(ee[2]) <= Abs(ee[1][1]) /\ temp = Abs(ee[1][1])
       \/ job = "pixels" /\ ee \in [Pixels -> Words] /\ temp = 0
    /\ pc = "run" /\ scale = 0 /\ out = <<>>
    /\ pixCnt = 0 /\ bad = [broken |-> <<>>, outlier |-> <<>>]

-----------------------------------------------------------------------------
(* ExtractOffsetParameters *)

\* A field of n bits, of which the code subtracts 2^n if it is above the largest positive.
Signed(field, bits) == IF field > 2^(bits - 1) - 1 THEN field - 2^bits ELSE field

\* What an int16_t keeps of a number.
Int16(n) == LET m == n % 65536 IN IF m > 32767 THEN m - 65536 ELSE m

\* Slip: the fields are added before the sum is sign-extended.
PixelOffset_LateSign(f) ==
    Int16(f.ref + f.row * 2^f.rowScale + f.column * 2^f.columnScale
              + Int16(Signed(f.pixel, 6) * 2^f.remScale))

\* offset[p] is an int16_t in between, and the reference is one.
PixelOffset(f) ==
    Int16(Int16(f.ref) + Signed(f.row, 4) * 2^f.rowScale + Signed(f.column, 4) * 2^f.columnScale
              + Int16(Signed(f.pixel, 6) * 2^f.remScale))

ExtractOffset ==
    /\ job = "offset" /\ pc = "run"
    /\ out' = <<PixelOffset(ee)>> /\ pc' = "done"
    /\ UNCHANGED <<job, ee, temp, scale, pixCnt, bad>>

-----------------------------------------------------------------------------
(* ExtractKtaPixelParameters, ExtractKvPixelParameters: ee is the largest coefficient, a   *)
(* numerator over 2^power, and the numerator of another one.                              *)

Power == ee[1][2]

\* temp < 63.4
Small == 10 * temp < 634 * 2^Power

Double ==
    /\ job = "scale" /\ pc = "run" /\ Small
    /\ temp' = 2 * temp /\ scale' = (scale + 1) % 256
    /\ UNCHANGED <<job, ee, pc, pixCnt, bad, out>>

\* Half of a unit is added away from zero and the fraction cut off.
Rounded(n) ==
    LET twice == 2 * Abs(n) * 2^scale + 2^Power
        size == twice \div (2 * 2^Power)
    IN IF n < 0 THEN -size ELSE size

StoreScaled ==
    /\ job = "scale" /\ pc = "run" /\ ~Small
    /\ out' = <<Rounded(ee[1][1]), Rounded(ee[2])>> /\ pc' = "done"
    /\ UNCHANGED <<job, ee, temp, scale, pixCnt, bad>>

-----------------------------------------------------------------------------
(* ExtractDeviatingPixels *)

\* The loop over the pixels ends when either list is full.
Scanning ==
    /\ pixCnt < Lines * Columns
    /\ Len(bad.broken) <= Limit /\ Len(bad.outlier) <= Limit

\* One turn of it.
ListPixel ==
    /\ job = "pixels" /\ pc = "run" /\ Scanning
    /\ bad' = IF ee[pixCnt] = 0 THEN [bad EXCEPT !.broken = Append(@, pixCnt)]
              ELSE IF ee[pixCnt] % 2 = 1 THEN [bad EXCEPT !.outlier = Append(@, pixCnt)]
              ELSE bad
    /\ pixCnt' = pixCnt + 1
    /\ UNCHANGED <<job, ee, pc, temp, scale, out>>

\* CheckAdjacentPixels
Adjacent(p, q) ==
    /\ p \div Columns - q \div Columns \in -1..1
    /\ (p % Columns) - (q % Columns) \in -1..1

\* Slip: only pixels of one kind are compared.
AnyAdjacent_OneKind(broken, outlier) ==
    \E list \in {broken, outlier} : \E i, j \in DOMAIN list :
        i < j /\ Adjacent(list[i], list[j])

\* The three loops over pairs.
AnyAdjacent(broken, outlier) ==
    LET all == broken \o outlier IN \E i, j \in DOMAIN all : i < j /\ Adjacent(all[i], all[j])

Warn(broken, outlier) ==
    IF Len(broken) > Limit THEN -3
    ELSE IF Len(outlier) > Limit THEN -4
    ELSE IF Len(broken) + Len(outlier) > Limit THEN -5
    ELSE IF AnyAdjacent(broken, outlier) THEN -6
    ELSE 0

\* The lists are filled up with 0xFFFF.
Filled(list) == [i \in 1..(Limit + 1) |-> IF i <= Len(list) THEN list[i] ELSE NoPixel]

ExtractDeviating ==
    /\ job = "pixels" /\ pc = "run" /\ ~Scanning
    /\ out' = <<Warn(bad.broken, bad.outlier), Filled(bad.broken), Filled(bad.outlier)>>
    /\ pc' = "done"
    /\ UNCHANGED <<job, ee, temp, scale, pixCnt, bad>>

-----------------------------------------------------------------------------
Next == ExtractOffset \/ Double \/ StoreScaled \/ ListPixel \/ ExtractDeviating

Spec == Init /\ [][Next]_vars

-----------------------------------------------------------------------------
(* Properties *)

\* Two's complement, as the data sheet has the fields.
Value(field, bits) == field - 2^bits * (field \div 2^(bits - 1))

\* The stored numbers are those the EEPROM means.  An offset is exact whenever it fits in 16
\* bits, whatever overflows on the way.  Coefficients are the nearest numbers over a common
\* power of two, the largest with at least six bits, and fit in 8 bits as long as the
\* largest was below 127.5.  The loop that scales them never takes more turns than six above
\* that power, so that it ends and the byte ktaScale1 does not wrap; except when all of
\* them are zero: then no turn brings it nearer to its end, and nothing is stored.
StoredExactly ==
    /\ job = "scale" /\ ee[1][1] # 0 => scale <= Power + 6
    /\ pc = "done" =>
        /\ job = "offset" =>
               LET exact == Value(ee.ref, 16) + Value(ee.row, 4) * 2^ee.rowScale
                                + Value(ee.column, 4) * 2^ee.columnScale
                                + Value(ee.pixel, 6) * 2^ee.remScale
               IN exact \in -2^15..(2^15 - 1) => out = <<exact>>
        /\ job = "scale" =>
               /\ ee[1][1] # 0 /\ Abs(out[1]) >= 63
               /\ 2 * Abs(ee[1][1]) < 255 * 2^Power => \A i \in 1..2 : out[i] \in -128..127
               /\ \A i \in 1..2 : LET n == IF i = 1 THEN ee[1][1] ELSE ee[2] IN
                      2 * Abs(out[i] * 2^Power - n * 2^scale) <= 2^Power

\* An EEPROM is accepted just if it has at most Limit bad pixels and no two of them touch,
\* and then the two lists name its broken pixels and its outliers, in order.
PixelsAccepted ==
    job = "pixels" /\ pc = "done" =>
        LET broken == {p \in Pixels : ee[p] = 0}
            outliers == {p \in Pixels : ee[p] % 2 = 1}
            all == broken \cup outliers
            touch == \E p, q \in all : p # q /\ Adjacent(q, p)
        IN /\ out[1] = 0 <=> Cardinality(all) <= Limit /\ ~touch
           /\ out[1] = -6 <=> Cardinality(all) <= Limit /\ touch
           /\ out[1] \in {0, -6} =>
                  /\ ToSet(out[2]) \ {NoPixel} = broken /\ ToSet(out[3]) \ {NoPixel} = outliers
                  /\ \A i \in 1..Limit : out[2][i] <= out[2][i + 1] /\ out[3][i] <= out[3][i + 1]
=============================================================================
