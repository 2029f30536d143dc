--------------------------- MODULE UavCommandPath ---------------------------
(***************************************************************************)
(* The way of a control command from the microcontroller to the flight     *)
(* simulator: the serial driver (BluetoothSerial) and thread funcCTL of    *)
(* uav_project.c, which on every release reads the driver into data_to_uc, *)
(* scans four numbers off it and sends them to FlightGear.                 *)
(*                                                                         *)
(* The stream is a sequence of commands of four numbers each, elevator,    *)
(* aileron, rudder and throttle; a "byte" of BluetoothSerial is here one   *)
(* number with its separator, so the k-th cell of a buffer is the k-th     *)
(* number of its text (all numbers are of one width).                      *)
(***************************************************************************)
EXTENDS BluetoothSerial

CONSTANT Ctl   \* funcCTL, as a reader of the driver

ASSUME CommandAssumption == Readers = {Ctl} /\ BufLen > 4

Fields == 1..4   \* elevator, aileron, rudder, throttle

\* Which command a number belongs to, and as what.
Command(s) == (s + 3) \div 4
Field(s) == ((s - 1) % 4) + 1

\* data_to_uc lives on the stack and is not initialised: its text may or may not start
\* with numbers.
Letters == -2
Digits == -1

VARIABLES
    pcC,      \* funcCTL: next step
    dataToUc, \* data_to_uc
    vals      \* _elevator, _aileron, _rudder, _throttle as last sent to FlightGear

ctlVars == <<pcC, dataToUc, vals>>
pathVars == <<serialVars, ctlVars>>

PathInit ==
    /\ SerialInit
    /\ pcC = "wait"
    /\ \E g \in {Letters, Digits} : dataToUc = [c \in Cells |-> g]
    /\ vals = [f \in Fields |-> 0]

\* sem_wait(&semCTL) returns; read(fd_uc, data_to_uc, 32) is called.
CtlReleased ==
    /\ pcC = "wait" /\ pcC' = "read"
    /\ UNCHANGED <<serialVars, dataToUc, vals>>

\* A step of that read.  What is copied covers the start of data_to_uc; the rest of it
\* stays.  The result of read is not looked at.
CtlRead ==
    /\ pcC = "read"
    /\ Read(Ctl)
    /\ dataToUc' = IF ReadCopy(Ctl)
                   THEN [c \in Cells |->
                            IF c < Len(got'[Ctl]) THEN got'[Ctl][c + 1] ELSE dataToUc[c]]
                   ELSE dataToUc
    /\ pcC' = IF pcR[Ctl] # "idle" /\ pcR'[Ctl] = "idle" THEN "send" ELSE "read"
    /\ UNCHANGED vals

\* sscanf assigns the numbers it finds, in order, up to the first that is none.
Scanned(f) == \A c \in 0..(f - 1) : dataToUc[c] # Letters

\* Slip: the data is used only if read returned a positive count; the driver returns 0.
CtlSend_ChecksCount ==
    /\ pcC = "send" /\ pcC' = "wait"
    /\ UNCHANGED <<serialVars, dataToUc, vals>>

\* sscanf, scaling, byte swapping and sendto.
CtlSend ==
    /\ pcC = "send" /\ pcC' = "wait"
    /\ vals' = [f \in Fields |-> IF Scanned(f) THEN dataToUc[f - 1] ELSE vals[f]]
    /\ UNCHANGED <<serialVars, dataToUc>>

PathNext ==
    \/ Receive /\ UNCHANGED ctlVars
    \/ CtlReleased \/ CtlRead \/ CtlSend

PathSpec == PathInit /\ [][PathNext]_pathVars

\* The sequencer releases funcCTL for ever and the UART core finishes its calls.
PathFairness ==
    /\ WF_pathVars((RecvCopy \/ RecvEnd) /\ UNCHANGED ctlVars)
    /\ SF_pathVars(RecvLock /\ UNCHANGED ctlVars)
    /\ WF_pathVars(CtlReleased \/ CtlSend)
    /\ SF_pathVars(CtlRead)

PathFairSpec == PathSpec /\ PathFairness

-----------------------------------------------------------------------------
(* Properties *)

\* Types.
PathTypeOK ==
    /\ SerialTypeOK
    /\ pcC \in {"wait", "read", "send"}
    /\ dataToUc \in [Cells -> {Letters, Digits} \cup 1..MaxStream]
    /\ vals \in [Fields -> {Digits} \cup 0..MaxStream]

\* The comment over the scan, "ELEVATOR AILERON RUDDER THROTTLE", says what the four
\* numbers are.  So what goes to FlightGear as elevator was sent as elevator, and the
\* four values were sent together.
OneCommandInOrder ==
    \A f, g \in Fields :
        vals[f] > 0 =>
            /\ Field(vals[f]) = f
            /\ vals[g] > 0 /\ Command(vals[f]) = Command(vals[g])

\* The weaker half of it, which does not ask for the values to be of one command.
NumbersInPlace == \A f \in Fields : vals[f] > 0 => Field(vals[f]) = f

\* The newest number handed to the driver as the start of a chunk is acted on in the end
\* unless something newer is.
NewestApplied ==
    \A s \in 1..MaxStream : buf[0] = s /\ pcV = "idle" ~> vals[1] >= s
=============================================================================
