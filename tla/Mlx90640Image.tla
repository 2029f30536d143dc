---------------------------- MODULE Mlx90640Image ----------------------------
(***************************************************************************)
(* How the program mlx90640_ir turns signals into an image: the sensor     *)
(* measures its two subpages in turn, each into its own pixels of the RAM; *)
(* the handler copies the RAM as the driver shows it, lets                 *)
(* MLX90640_GetFrameData refuse it or take it over into frame_data, and    *)
(* MLX90640_CalculateTo renew the pixels of one subpage in the image.      *)
(* Signals queue up, so the copy may be of later measurements than the     *)
(* status that came with the signal.                                       *)
(*                                                                         *)
(* A word of the RAM is the number of the measurement that wrote it, or    *)
(* Bad, 0x7FFF.  The arithmetic of the temperatures is left out.           *)
(***************************************************************************)
EXTENDS Integers

CONSTANTS
    Lines, Columns,   \* the sensor has 24 by 32 pixels
    AuxWords,         \* those of the 64 auxiliary words that can go wrong, for the model
    MaxFrame          \* bound: measurements

Pixels == 0..(Lines * Columns - 1)
Line(p) == p \div Columns
Bad == -1             \* 0x7FFF
None == -2            \* not calculated yet

VARIABLES
    mode,             \* bit 12 of the control register: "interleaved" or "chess"
    frame,            \* measurements so far; an odd one is of subpage 1
    ram, ramAux,      \* the sensor's RAM: the pixels, and the auxiliary words of AuxWords
    status,           \* the measurement the last signal was sent for
    pending,          \* the handler runs for it
    frame_data,       \* pixels, auxiliary words and subpage
    image,            \* image_temp: per pixel, the words it was calculated from
    accepted,         \* history, per subpage: the last signal whose frame was taken over,
    checked           \* and whether its own lines were the ones tested

sensorVars == <<mode, frame, ram, ramAux>>
programVars == <<frame_data, image, accepted, checked>>
vars == <<sensorVars, status, pending, programVars>>

Subpages == {0, 1}
NoAux == [a \in AuxWords |-> 0]

Init ==
    /\ mode \in {"interleaved", "chess"}
    /\ frame = 0 /\ ram = [p \in Pixels |-> 0] /\ ramAux = NoAux
    /\ status = 0 /\ pending = FALSE
    /\ frame_data = [pixels |-> [p \in Pixels |-> 0], aux |-> NoAux, subpage |-> 0]
    /\ image = [p \in Pixels |-> [data |-> None, aux |-> NoAux]]
    /\ accepted = [s \in Subpages |-> 0] /\ checked = [s \in Subpages |-> TRUE]

-----------------------------------------------------------------------------
(* The sensor *)

\* Its subpages: every other line, or the fields of one colour of a chess board.
Subpage(p) ==
    IF mode = "interleaved" THEN Line(p) % 2 ELSE (Line(p) + (p % Columns)) % 2

\* A measurement fills its subpage.  The first word of a line and the auxiliary words may
\* come out as 0x7FFF.
Measure ==
    /\ frame < MaxFrame
    /\ frame' = frame + 1
    /\ \E badLines \in SUBSET (0..(Lines - 1)) :
           ram' = [p \in Pixels |->
                      IF Subpage(p) # frame' % 2 THEN ram[p]
                      ELSE IF p % Columns = 0 /\ Line(p) \in badLines THEN Bad
                      ELSE frame']
    /\ \E bad \in {{}} \cup {{a} : a \in AuxWords} :
           ramAux' = [a \in AuxWords |-> IF a \in bad THEN Bad ELSE frame']
    /\ UNCHANGED <<mode, status, pending, programVars>>

\* The driver's signal for a measurement reaches the program.
Signal ==
    /\ ~pending /\ pending' = TRUE
    /\ status' \in (status + 1)..frame
    /\ UNCHANGED <<sensorVars, programVars>>

-----------------------------------------------------------------------------
(* MLX90640_GetFrameData *)

\* ValidateFrameData: the first words of the lines of one subpage.  Which one is read from
\* rawData[833], one word past the end of the program's raw_data and one more: beyond.
LinesValid(beyond) ==
    \A p \in Pixels : p % Columns = 0 /\ Line(p) % 2 = beyond => ram[p] # Bad

\* ValidateAuxData
Tested == {0} \cup 8..18 \cup 20..22 \cup 24..32 \cup 40..50 \cup 52..54 \cup 56..63
AuxValid == \A a \in AuxWords \cap Tested : ramAux[a] # Bad

Taken == [pixels |-> ram, aux |-> IF AuxValid THEN ramAux ELSE frame_data.aux,
          subpage |-> status % 2]

-----------------------------------------------------------------------------
(* MLX90640_CalculateTo *)

\* Slip: the chess pattern of a pixel without its line.
Pattern_ColumnOnly(p) == IF mode = "interleaved" THEN Line(p) % 2 ELSE p % 2

\* ilPattern, and chessPattern: ilPattern ^ (pixelNumber % 2).
Pattern(p) ==
    LET ilPattern == (p \div Columns) - (p \div (2 * Columns)) * 2
    IN IF mode = "interleaved" THEN ilPattern
       ELSE IF ilPattern = p % 2 THEN 0 ELSE 1

\* The auxiliary words the temperatures depend on: V_BE, the two compensation pixels, gain,
\* PTAT and V_DD.
UsedAux == {0, 8, 40, 10, 32, 42}

Calculated(data, p) ==
    [data |-> data.pixels[p], aux |-> [a \in AuxWords \cap UsedAux |-> data.aux[a]]]

\* The handler: an image is calculated from frame_data even if the frame was refused.
\* The page is copied as a whole; a failing mmap, after which the old raw_data is used, is
\* left out.
Handle ==
    /\ pending /\ pending' = FALSE
    /\ \E beyond \in {0, 1, 2} :
           IF LinesValid(beyond)
           THEN /\ frame_data' = Taken
                /\ accepted' = [accepted EXCEPT ![status % 2] = status]
                /\ checked' = [checked EXCEPT ![status % 2] = beyond = status % 2]
           ELSE UNCHANGED <<frame_data, accepted, checked>>
    /\ image' = [p \in Pixels |-> IF Pattern(p) = frame_data'.subpage
                                  THEN Calculated(frame_data', p) ELSE image[p]]
    /\ UNCHANGED <<sensorVars, status>>

Next == Measure \/ Signal \/ Handle

Spec == Init /\ [][Next]_vars

-----------------------------------------------------------------------------
(* Properties *)

\* Once a frame was taken over for a signal, each pixel of the signal's subpage is
\* calculated from a measurement of its own that is no older than the signal, and stays so
\* until the subpage's next frame, refused frames in between included.  A 0x7FFF gets into
\* the image only if the lines tested were not those of the subpage.  The auxiliary words
\* of a pixel are never 0x7FFF.
ImageCurrent ==
    \A p \in Pixels : LET s == Subpage(p) IN
        accepted[s] # 0 =>
            /\ image[p].data # None
            /\ image[p].data = Bad => p % Columns = 0 /\ ~checked[s]
            /\ image[p].data # Bad => image[p].data >= accepted[s]
            /\ \A a \in DOMAIN image[p].aux : image[p].aux[a] # Bad
=============================================================================
