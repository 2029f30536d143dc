----------------------------- MODULE MCDrivers ------------------------------
(***************************************************************************)
(* The small drivers, the drivers' lifecycles and the program's            *)
(* calculations, side by side.  They share no state, so a behaviour        *)
(* takes the steps of one of them, its subject, and the others stand       *)
(* still: every behaviour of each is explored, and no product of them.     *)
(* Properties that are slow to evaluate are only looked at in their own.   *)
(***************************************************************************)
EXTENDS Integers, Sequences, FiniteSets

CONSTANTS
    Programs,           \* programs or tasks that use a driver
    Angles,             \* written to the attribute angle
    Duties, Period,     \* duty cycles asked for, and the longest that is applied
    MaxEdge,            \* bound: changes of the button
    BufLen, Chunks, MaxStream,
                        \* the serial lidar's buffer, its chunks, bound: bytes it sends
    PwmFails, DisplayFails, DisplayBinds,
                        \* bounds: failures of the PWM and the SPI controller, probes
    Lines, Columns,     \* of the thermal camera's sensor
    AuxWords, MaxFrame, \* its auxiliary words that can go wrong, bound: measurements
    Limit,              \* its bad pixels that the API puts up with
    OffsetFields, Coefficients
                        \* its calibration data

\* "none" and "nobody" are no program: they stand for a NULL task and for no writer.
ASSUME ProgramsAssumption ==
    IsFiniteSet(Programs) /\ "none" \notin Programs /\ "nobody" \notin Programs
ASSUME BoundsAssumption ==
    /\ MaxEdge \in Nat /\ MaxStream \in Nat /\ PwmFails \in Nat
    /\ BufLen \in Nat \ {0} /\ Chunks \subseteq 1..BufLen
    /\ Period \in Nat /\ Duties \subseteq Nat
    /\ Angles \subseteq Nat
\* The lines of the sensor (24 by 32) have an even number of pixels, and 0xFFFF is none.
ASSUME SensorAssumption ==
    /\ Lines \in Nat \ {0} /\ Columns \in Nat \ {0} /\ Columns % 2 = 0
    /\ Lines * Columns <= 65535
    /\ Limit \in Nat
\* The fields' widths in the EEPROM; a coefficient is over a power of two from a nibble,
\* of which one kind has 8 added.
Field(bits) == 0..(2^bits - 1)
ASSUME CalibrationAssumption ==
    /\ OffsetFields \subseteq
           [ref : Field(16), row : Field(4), column : Field(4), pixel : Field(6),
            remScale : Field(4), rowScale : Field(4), columnScale : Field(4)]
    /\ Coefficients \subseteq Int \X (0..23)

VARIABLES
    subject,
    hw, pc, cmd, arg, local, fails, onOK, bound,
    enabled, duty, angle, angleDuty, standby, wpc, val, was, wasDuty, alone, overlapped,
    level, edges, latched, handler, reported, seen, task, prog, latest, signalled, irq, life,
    already_open, refs, loaded, lpc,
    buf, received, echo, spc, size, at, next, got, before,
    dpc, pos, cs, dc, panel, frees, failed, binds, dfails,
    drv, phase, todo, held, freed, managed, isBound, misused,
    job, ee, cpc, temp, scale, pixCnt, bad, out,
    mode, frame, ram, ramAux, status, pending, frame_data, image, accepted, checked

Pwm == INSTANCE PwmMotor WITH MaxFail <- PwmFails
Sysfs == INSTANCE PwmSysfs WITH Writers <- Programs, pc <- wpc
Gpio == INSTANCE GpioIrqInterface
Lidar == INSTANCE LidarI2c WITH Programs <- Programs \cup {"user_lidar"}, pc <- lpc
Serial == INSTANCE LidarSerial WITH Readers <- {"user_lidar"}, pc <- spc
Display == INSTANCE St7796sDisplay
    WITH MaxFail <- DisplayFails, MaxBinds <- DisplayBinds, pc <- dpc, fails <- dfails
Lifecycle == INSTANCE DriverLifecycle WITH bound <- isBound

Calibration == INSTANCE Mlx90640Calibration WITH pc <- cpc
Image == INSTANCE Mlx90640Image

pwmVars == <<hw, pc, cmd, arg, local, fails, onOK, bound>>
sysfsVars ==
    <<enabled, duty, angle, angleDuty, standby, wpc, val, was, wasDuty, alone, overlapped>>
gpioVars == <<level, edges, latched, handler, reported, seen, task, prog, latest, signalled,
              irq, life>>
lidarVars == <<already_open, refs, loaded, lpc>>
serialVars == <<buf, received, echo, spc, size, at, next, got, before>>
displayVars == <<dpc, pos, cs, dc, panel, frees, failed, binds, dfails>>
lifecycleVars == <<drv, phase, todo, held, freed, managed, isBound, misused>>
calibrationVars == <<job, ee, cpc, temp, scale, pixCnt, bad, out>>
imageVars == <<mode, frame, ram, ramAux, status, pending, frame_data, image, accepted, checked>>
vars == <<subject, pwmVars, sysfsVars, gpioVars, lidarVars, serialVars, displayVars,
          lifecycleVars, calibrationVars, imageVars>>

\* What only stands still starts in one of its initial states.
Init ==
    /\ subject \in {"pwm", "sysfs", "gpio", "lidar", "serial", "display", "lifecycle",
                    "calibration", "image"}
    /\ Pwm!Init /\ Sysfs!Init /\ Gpio!Init /\ Lidar!Init /\ Serial!Init /\ Display!Init
    /\ Lifecycle!Init /\ (subject = "lifecycle" \/ drv = "pwm")
    /\ Image!Init /\ (subject = "image" \/ mode = "chess")
    /\ Calibration!Init
    /\ subject # "calibration" => job = "offset" /\ ee = CHOOSE f \in OffsetFields : TRUE

Pwm_Step ==
    /\ subject = "pwm" /\ Pwm!Next
    /\ UNCHANGED <<subject, sysfsVars, gpioVars, lidarVars, serialVars, displayVars,
                   lifecycleVars, calibrationVars, imageVars>>
Sysfs_Step ==
    /\ subject = "sysfs" /\ Sysfs!Next
    /\ UNCHANGED <<subject, pwmVars, gpioVars, lidarVars, serialVars, displayVars,
                   lifecycleVars, calibrationVars, imageVars>>
Gpio_Step ==
    /\ subject = "gpio" /\ Gpio!Next
    /\ UNCHANGED <<subject, pwmVars, sysfsVars, lidarVars, serialVars, displayVars,
                   lifecycleVars, calibrationVars, imageVars>>
Lidar_Step ==
    /\ subject = "lidar" /\ Lidar!Next
    /\ UNCHANGED <<subject, pwmVars, sysfsVars, gpioVars, serialVars, displayVars,
                   lifecycleVars, calibrationVars, imageVars>>
Serial_Step ==
    /\ subject = "serial" /\ Serial!Next
    /\ UNCHANGED <<subject, pwmVars, sysfsVars, gpioVars, lidarVars, displayVars,
                   lifecycleVars, calibrationVars, imageVars>>
Display_Step ==
    /\ subject = "display" /\ Display!Next
    /\ UNCHANGED <<subject, pwmVars, sysfsVars, gpioVars, lidarVars, serialVars,
                   lifecycleVars, calibrationVars, imageVars>>
Lifecycle_Step ==
    /\ subject = "lifecycle" /\ Lifecycle!Next
    /\ UNCHANGED <<subject, pwmVars, sysfsVars, gpioVars, lidarVars, serialVars, displayVars,
                   calibrationVars, imageVars>>
Calibration_Step ==
    /\ subject = "calibration" /\ Calibration!Next
    /\ UNCHANGED <<subject, pwmVars, sysfsVars, gpioVars, lidarVars, serialVars, displayVars,
                   lifecycleVars, imageVars>>
Image_Step ==
    /\ subject = "image" /\ Image!Next
    /\ UNCHANGED <<subject, pwmVars, sysfsVars, gpioVars, lidarVars, serialVars, displayVars,
                   lifecycleVars, calibrationVars>>

Next ==
    \/ Pwm_Step \/ Sysfs_Step \/ Gpio_Step \/ Lidar_Step \/ Serial_Step \/ Display_Step
    \/ Lifecycle_Step \/ Calibration_Step \/ Image_Step

Spec == Init /\ [][Next]_vars

-----------------------------------------------------------------------------
(* Values of the constants *)

\* The fields of a pixel's offset at the limits of their signs and of 16 bits.
OffsetSample == [
    ref : {0, 1, 32767, 32768, 65535}, row : {0, 7, 8, 15}, column : {0, 7, 8, 15},
    pixel : {0, 1, 31, 32, 63},
    remScale : {0, 3, 15}, rowScale : {0, 12}, columnScale : {0, 15}]

CoefficientSample == {0, 1, -3, 127, -128, 131071} \X {0, 8, 12}

-----------------------------------------------------------------------------
(* Properties *)

\* The types of the drivers' state.  The PWM is never given a duty cycle longer than its
\* period (pwm_device_driver); however the writes to angle and standby race, it only gets
\* the pulse width of an angle from 0 to 180 degrees (pwm_device_driver_sys).
TypeOK ==
    /\ Pwm!TypeOK /\ Gpio!TypeOK
    /\ subject = "sysfs" => Sysfs!TypeOK
    /\ subject = "display" => Display!TypeOK

\* Racing ioctls never turn off a servo that its own program has turned on
\* (pwm_device_driver).
PwmStaysOn == Pwm!StaysOn

\* A lone write, or storing both values of standby in turn after a race, makes the driver's
\* copy tell what the PWM does, if pwm_disable never fails (pwm_device_driver_sys).
SysfsCopyTells == Sysfs!CopyTells

\* At rest, the handler has reported the level the line has (gpio_irq_int).
GpioLastLevelReported == Gpio!LastLevelReported

\* The last program to register hears of every edge (gpio_irq_int).
GpioEdgeSignalled == Gpio!EdgeSignalled

\* One program at most has the lidar, and it is never in use by nobody; the module's
\* references are those of the programs in its code (lidar_i2c).
LidarKept == Lidar!Exclusive /\ Lidar!References

\* A read never gets a byte older than what was there when it began (lidar_serial).
SerialReadNotOlder == Serial!ReadNotOlder

\* What is received is sent back once and in order (lidar_serial).
SerialEchoedOnce == Serial!EchoedOnce

\* The panel never takes the data of one command for that of another (st7796s).
DisplayFramed == subject = "display" => Display!Framed

\* What probe leaves wrong on the panel is what its failed transfers were to set (st7796s).
DisplayFailuresStayLocal == subject = "display" => Display!FailuresStayLocal

\* A picture is freed once, or twice if its pixels could not be sent (st7796s).
DisplayPicturesFreed == subject = "display" => Display!PicturesFreed

\* No interrupt, thread, work item or device node runs without what it needs, but for the
\* exceptions of Lifecycle!Exposed and what Lifecycle!Overlooked has it go on without (init,
\* probe, remove and exit of fifteen drivers).
EntriesBacked == subject = "lifecycle" => Lifecycle!EntriesBacked

\* No driver frees twice or uses what it did not get, but for the exceptions of
\* Lifecycle!Mishandled and, once, what Lifecycle!Overlooked lists (init, probe,
\* remove and exit of fifteen drivers).
ReleasedOnce == subject = "lifecycle" => Lifecycle!ReleasedOnce

\* The offsets and coefficients stored are those the EEPROM means (MLX90640_API).
CalibrationStoredExactly == subject = "calibration" => Calibration!StoredExactly

\* An EEPROM is accepted just if its bad pixels are few and apart (MLX90640_API).
CalibrationPixelsAccepted == subject = "calibration" => Calibration!PixelsAccepted

\* The pixels of an accepted frame's subpage are calculated from measurements no older than
\* its signal (mlx90640_ir and MLX90640_API).
ImageCurrent == subject = "image" => Image!ImageCurrent
=============================================================================
