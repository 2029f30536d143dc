# A TLA+ model of EmbeddedLinuxSystems

The repository is a collection of Linux kernel drivers for a BeagleBone and a Raspberry Pi,
the programs that use them, and the Buildroot and Yocto trees that put both on a board.
This directory holds TLA+ modules for its drivers and programs, the TLC configurations that
check them on small instances, and TLAPS proofs of what matters most. Paths below are
relative to `src/`; `K/` stands for `kernel/` and `B/` for `Buildroot/files/`.

`PROJECT.json` lists every component, run, mutant, hazard and theorem, and maps every
definition that models code to the lines it stands for. In the modules, an operator
`Name_Variant` under a comment that begins with "Slip:" is a plausible mistake in the code
modelled by `Name`: putting it in Name's place makes TLC report the property it is paired with
in `PROJECT.json`, which shows that the property depends on the code.

## 1. Inventory

### Modelled

**Thermal camera** (`K/mlx90640_device_driver/mlx90640_device_driver.c`, program
`B/mlx90640_ir/mlx90640_ir.c`). State: a page `mlx90640_frameData` mapped into the program, a
mutex, an event flag, `send_signal` (the registered task), the status word. `read_frame` polls
the status register and raises the flag; `new_frame` waits for it, reads the frame in blocks
over I2C, sends a real-time signal with the status word and lowers the flag; the program copies
the page in its signal handler without a lock; `rmmod` stops both threads. Hard: the flag is
set outside the mutex and cleared inside; a sensor that measures while it is read; bus errors
in mid-frame; signals dropped at a full queue; a task that dies registered; a thread that does
not hear `kthread_stop`. Correct means: no detected frame is lost, no new status goes with old
data, the program is served, unloading ends.

**Camera driver with a completion** (`K/display_and_camera_device_drivers/`, `mlx90640_device_driver.c`
and `mlx90640.c`). `read()` completes `read_done` if it is not completed; the thread waits,
reads the sensor and reinitialises the completion; `remove` stops the thread. Hard: check and
completion are two steps; the reinitialisation drops what was posted; `remove` waits before it
wakes. Correct means: a posted read has a pass of the sensor unless it was posted just
when one ended, passes do not multiply, `remove` ends.

**kthread exercise** (`K/kthread_module/kthread.c`, program `B/mlx90640_ir/mlx90640_ir.c-signal`),
the experiment the thermal camera driver grew out of: the same shape with no mutex at all, and
a `release` that clears the registration.

**Bluetooth serial driver** (`K/Bluetooth_serial-device-driver/bluetooth_serial.c`).
`receive_buf` puts a chunk at the start of a buffer, `read` copies the buffer up to its
terminator and clears it, both under a mutex; `write` goes through one shared buffer without.
Hard: chunks of any length in any order with readers, a failing `copy_to_user`, overlapping
writes. Correct means: what is unread is one terminated text, no byte is read twice or wiped unread by a read,
the mutex is given back.

**UAV program** (`B/uav_project/uav_project.c`). The sequencer releases `funcCTL` and `funcNAV` through
semaphores on a fixed pattern; three `SCHED_FIFO` threads share a CPU. `funcCTL` reads commands
from the Bluetooth device, scans four numbers and sends them to the flight simulator; `funcNAV`
waits for the simulator's packets. Hard: commands in pieces, stale buffers, a silent simulator,
a schedule without slack. Correct means: what is sent is one command and in the end the newest,
and deadlines are met.

**Servo drivers** (`K/pwm_device_driver` with ioctls, used by `user_pwm`, `display_st7796s` and
`uav_project`; `K/pwm_device_driver_sys` with sysfs attributes). Both read the PWM's state, change
it and apply it in steps that nothing serialises. Correct means: a race does not switch off a servo
somebody turned on, no angle out of range is applied, and the driver's copy of the state can be
believed.

**Button driver** (`K/gpio_interrupt_interface/gpio_irq_int.c`, program
`B/user_gpio-irq_interface`). A threaded one-shot interrupt on both edges reports the level
and signals the registered task. Hard: edges while the handler runs, probe's error path,
removal. Correct means: the last level is reported, no edge is kept from the registered
program, only a held GPIO is read.

**Lidar over I2C** (`K/lidar_i2c-device-driver`, program `B/user_lidar`). Exclusive open with an
atomic flag and a module reference of its own. Correct means: one program at most, and no code
unloaded under a program.

**Display driver** (`K/st7796s_device_driver`, but for one corrected test the same files in
`K/display_and_camera_device_drivers`). `probe` selects the panel, writes its registers, deselects it, and does so
again for four pictures: some forty SPI transfers, with the command line telling commands from
data. Hard: any transfer can fail, its error is returned as an `uint8_t` and so never noticed; picture
buffers are freed by the helper and by `probe`. Correct means: the panel never takes data for
another command's, a failure does not spread, buffers are freed once.

**Lidar over a serial line** (`K/lidar_serial-device-driver`). `receive_buf` copies a chunk into the
buffer, echoes it and reports what the line took as consumed, so that the rest is handed over
again; `read` copies the whole buffer; nothing is locked. Correct means: a read gets nothing older than
what was there, the lidar gets its bytes back once and in order.

**Lifecycles of fifteen drivers** (all under `K/`, with `gpio_interrupt_input`,
`pwm_device_driver_workqueue`, the `example*` drivers and `ov7670-device-driver`, which do little
else). State: what `init`, `probe`, `remove` and `exit` have acquired, what the driver core will release, and the
entries (device nodes, interrupts, threads, work items) through which the system can call in. Hard: any
acquisition can fail, tested or not, and the cleanups differ; the device can go before the module; a work
item can be queued after its cancellation. Correct means: no entry runs without what it needs, nothing is freed twice.

**Calibration and image** (`B/mlx90640_ir/MLX90640_API.c`, `mlx90640_ir.c`). Extraction of parameters
from the EEPROM (fields of a few bits with sign and scale summed in 16 bits, a loop that scales
coefficients, lists of bad pixels with a limit) and, for each signal, validation of the frame and renewal of the
pixels of its subpage. Hard: overflow and signs, a loop whose end depends on the data, lists at their limit,
signals that lag behind the RAM, a read past `raw_data`. Correct means: the numbers stored are
those the EEPROM means, and pixels are calculated from data at least as new as the accepted signal.

### Not modelled

| component | why |
|---|---|
| The formulas of the temperatures, and the parameters that enter only into them (`MLX90640_API.c`) | floating point, out of reach of TLC and the prover |
| `nav_func.c`, `matrices.c` | floating point, not called by `uav_project` |
| hello, libgpiod and daemon examples; Yocto layers; Qt calendar | straight-line programs, recipes, a user interface whose dates Qt computes |
| `Buildroot/xc3sprog` | vendored, some 18000 lines |
| `images.h` (twice) | 25630 lines of pixels each; the display model has a picture as one value |
| kernel and Buildroot configurations, device trees, scripts | nothing to execute |

Of the implementation's lines, the pixels and the vendored programmer are by far the most, so the modules
can stand for a small share of the repository only, though for most of what its own drivers and programs do.

## 2. Modules

| module | models | composed with |
|---|---|---|
| `FrameChannel` | what a driver promises the program that maps its page: signals of what the whole page has reached, copies that do not fall behind it | |
| `Mlx90640Driver` (+ `MC…`) | thermal camera: both threads, sensor, program, rmmod | implements `FrameChannel` |
| `Mlx90640DriverProofs` | its type invariant, ordering invariant, and the refinement | extends it |
| `CameraReadThread`, `CameraReadThreadProofs` | completion-based camera, and that its posts and passes do not multiply | |
| `KthreadModule`, `KthreadModuleProofs` | kthread exercise, and its theorems | implements `FrameChannel` |
| `SerialMailbox` | what the serial driver promises: chunks laid over a text, reads that take it | |
| `BluetoothSerial` (+ `MC…`) | receive, read and write of the serial driver | implements `SerialMailbox` |
| `BluetoothSerialProofs` | its invariants, and the refinement | extends it |
| `UavCommandPath` (+ `MC…`) | `funcCTL` as the serial driver's reader, through to what is sent | extends `BluetoothSerial` |
| `UavCommandPathProofs` | whole commands stay whole | extends it and `BluetoothSerialProofs` |
| `UavSequencer`, `UavSequencerProofs` | semaphores, priorities, budgets, main's start-up; its schedulability | |
| `PwmMotor`, `PwmSysfs`, `GpioIrqInterface`, `LidarI2c`, `LidarSerial`, `St7796sDisplay` | the small drivers | instances in `MCDrivers` |
| `DriverLifecycle` | init, probe, remove and exit of fifteen drivers, as data: a sequence of calls each | instance in `MCDrivers` |
| `DriverLifecycleProofs` | what the calls keep to, and the two invariants from it | extends it; instance in `DriversProofs` |
| `Mlx90640Calibration`, `Mlx90640Image` | the thermal camera program's library | instances in `MCDrivers` |
| `MCDrivers` | the nine above, one of them (the subject) at work in each behaviour | |
| `DriversProofs` | invariants of all nine: servos, button, lidars, display, calibration, image; the lifecycles' carried over | extends `MCDrivers` |

How state and actions correspond to the code:

- A thread or program is a program counter (`pcG`, `pcW`, `pcA[a]`, ...). One action is the code between
  two points where another party can see or change shared state: taking a mutex, one I2C
  transaction, one half of a `memcpy`, one read and one use of a shared pointer. Locals that
  live across such points are variables (`raw`, `local`, `was`).
- Data is abstracted to what tells it apart: a measurement, a byte of the serial stream and a
  pass of a thread are numbered in the order they come into being, so "older", "newer" and
  "read twice" are comparisons. A status word is the number of the measurement it announces; the
  one never written is one of two garbage values, chosen at the start.
- A signal queue is a sequence with a limit (`RLIMIT_SIGPENDING`); a full queue drops the signal,
  as `send_sig_info` does.
- The kernel side that is not in the repository (the sensor, the UART core, `pwm_apply_state`,
  the interrupt core, module references, the simulator) is modelled by how the code uses it and
  marked external in the map where a definition is nothing else.
- `History` variables (marked "history") are read by properties only, never by a guard.
- `MCDrivers` takes a sum and not a product: its nine parts share nothing, so a behaviour chooses
  one subject and the others stand still. It is a model of each, not of their concurrency.
- In `DriverLifecycle` a driver is a record: four sequences of calls (`Get`, `Managed`, `Put`, `Kfree`, `Use`, ...)
  in the order of the code, each with what happens if it fails, and what each entry needs to run. The
  actions are those of the driver core, the same for all. What the code does wrong is in two
  tables, `Exposed` and `Mishandled`, each line with the phases in which it happens; a third, `Overlooked`, has what a driver asks for
  without looking whether it got it (`gpio_request` in `gpio_irq_int`, threads tested against NULL). The properties say that nothing
  else goes wrong: so they would catch a new mistake, and not the ones the tables list.
- `Mlx90640Calibration` does one extraction per behaviour, its loops turn by turn, and compares the result with
  a reference definition (two's complement, nearest number, sets of pixels) when done.
- The sizes of the sensor, the limit of its bad pixels and its EEPROM are constants of `MCDrivers`, so that the
  theorems hold for all of them. `Field(bits)` is what a field of the EEPROM can contain.

## 3. Runs

Every cfg states its bounds at the top.

| run | checks | shows |
|---|---|---|
| `mlx_safety` | `TypeOK`, `NoLostFrame`, `CopyNotOlderThanSignal`, `ImplementsChannel` | the mutex, and only it, makes it harmless that the flag is lowered blindly; a pass ends in one signal at most, of a measurement the whole page has reached, unless the pass broke off; no copy is older than the signal of a whole pass, nor than what the page has reached when it is made |
| `mlx_live` | `MeasurementRead`, `ProgramServed`, `UnloadCompletes` | every measurement or a newer one reaches the buffer and the registered program; rmmod ends unless `new_frame` sleeps with the flag down |
| `mlx_overrun` (violation) | `OnlyFrameWordsWritten` | the last block runs past the frame the comment at l.366 counts |
| `camera_read` | `NoSpuriousPass`, `ReadServed`, `RemoveCompletesIfRead` | racing readers get no passes nobody asked for; a post is served by a pass that reads the sensor after it or at the same time, but for one that falls between the return of `mlx90640_init` (l.58) and `reinit_completion` (l.60) |
| `camera_remove` (violation) | `RemoveCompletes` | `remove` waits for the thread that only its next statement would wake |
| `kthread` | `ImplementsChannel`, `CopyNotOlderThanSignal`, `SignalsKeepComing`, `CleanupCompletes` | with no lock at all the same channel, whose registrations end with their program here; copies of an unlocked page are still not older than their signal |
| `kthread_null` (violation) | `NoNullSignal` | `task` is tested and used in two reads; `release` comes between |
| `bt_safety` | `SerialTypeOK`, `TextInOnePiece`, `ReadsAdvance`, `WriteFaithful`, `ImplementsMailbox` | two readers, two writers, chunks of all lengths, failing copies: byte by byte, the driver is the atomic mailbox |
| `uav_whole_commands` | `OneCommandInOrder`, `NewestApplied`, `ChunkReadOrReplaced` | if a command arrives in one piece, what is sent is one command in its order, and the newest in the end |
| `uav_torn_command` (violation) | `NumbersInPlace` | if it arrives in pieces, a number is applied to another control than it was sent for |
| `uav_schedule` | `OnTime`, `NavNotStarved` | with the announced budgets both services meet their releases; a silent simulator never delays `funcCTL` |
| `drivers` | `TypeOK`, `PwmStaysOn`, `SysfsCopyTells`, `GpioLastLevelReported`, `GpioEdgeSignalled`, `LidarKept`, `SerialReadNotOlder`, `SerialEchoedOnce`, `DisplayFramed`, `DisplayFailuresStayLocal`, `DisplayPicturesFreed` | races of programs, chunks, edges and removal; for the display, that a transfer that fails spoils only what it was to set. `TypeOK` includes that the servo only gets pulse widths of real angles; `SysfsCopyTells` takes `pwm_disable` (`void`, l.70) never to fail |
| `drivers`, too | `EntriesBacked`, `ReleasedOnce` | whatever fails in init and probe and in whatever order device and module go, the fifteen drivers run without a resource, or free one twice, only where the two tables say so, or where they never looked whether they got it |
| `drivers`, too | `CalibrationStoredExactly`, `CalibrationPixelsAccepted`, `ImageCurrent` | offsets, scaled coefficients and bad pixels against reference definitions; images against signals that lag behind |

Bounds and why they are enough:

- `Mlx90640*.cfg`: a frame of 4 words in blocks of 2 has the code's three kinds of block (the first, which
  advances one word less; one in the middle; the last, which overruns). Two measurements make "old" and
  "new"; with the empty buffer there are three ages, and the orderings relate two. One failure hits
  any block or either register read. `Mlx90640Live.cfg` uses 2 words and a queue of one, so that
  signals are dropped.
- `BluetoothSafety.cfg`: a buffer of 4, chunks of 1 to 3 and five bytes give a short chunk over a longer one,
  and a third chunk. `UavWholeCommands.cfg`: three commands of four numbers: the one being applied, the one
  that replaces it, and one more. `UavTornCommand.cfg`: two commands in pieces of any size.
- `UavSchedule.cfg`: ticks of 5 ms give a pause of 4 ticks, budgets of 2 and 4 (C1 = 10 and C2 = 20 ms in the start message);
  semaphores and inbox of 3 saturate. Other budgets are covered by proof.
- `CameraRead.cfg`: three readers, since two are needed to post twice and the third races with both.
- `Kthread.cfg`: two programs, so that one can register over the other and die; a queue of one; two passes told apart,
  later ones count as the second (a signal that claims a later pass than its page would still be seen).
- `Drivers.cfg`/`MCDrivers`: two programs race for a PWM; a duty cycle longer than the period and an angle out
  of range are among the inputs; three edges give one handled, one latched and one merged; three programs open the lidar;
  two failed transfers fall on any two of the display's, in one probe. The serial lidar has a buffer of 3 and chunks of 1 to 3
  in a stream of 4, so that a chunk fills the buffer, is consumed in part and is followed by a shorter one.
  `DriverLifecycle` has no bound: a device may come and go and its probe fail for ever, and the states repeat.
  `Mlx90640Calibration`: fields at the limits of their signs and of 16 bits (`OffsetSample`); coefficients from 0 to one
  that has to be cut off, over three powers of two (`CoefficientSample`); every EEPROM of 2 by 4 pixels that are good, broken
  or outliers, with a limit of two, so that one list, the other or both together exceed it. `Mlx90640Image`: 2 by 4 pixels
  tell lines, columns and the chess pattern apart; three measurements make a subpage old, new and newer; the
  auxiliary words are the last of a tested range, the one behind it and one that is used.

`CHECK_DEADLOCK FALSE` is set where the system really stops: the modules are unloaded, or rmmod hangs.

Fairness. Kernel threads, the interrupt thread and a call once begun are scheduled (weak fairness per
thread); a thread that waits for a mutex others take again and again gets it in the end (strong
fairness, as the kernel's mutex hands it over); the sequencer's releases never stop. Nothing is assumed of
environment steps: the sensor, the serial line, the simulator, bus errors, kills, `rmmod` and
`remove` may happen or not. `NavNotStarved` and `RemoveCompletesIfRead` state what they need of the
environment in their antecedent.

## 4. Proofs

`Mlx90640DriverProofs` proves, for every frame length, stride above one, queue limit, number of measurements
and failures, and set of programs:

- `TypeCorrect`: `Spec => []TypeOK`. One step per action; `NextBlockBounds` bounds the block loop.
- `FrameOrdering`: `Spec => [](NoLostFrame /\ StatusNotNewerThanFrame /\ CopyNotOlderThanSignal)`.
  None is inductive. The invariant `FrameInv` adds that the mutex is held in both threads' critical sections,
  that the flag is up as long as `new_frame` works, that nothing in the buffers is from the future, and, the
  heart of it, that the blocks already read in the present pass are at least as new as every status word that can have been
  detected before the pass took the mutex. Frames only grow newer (`FrameGrows`), so every
  fact of the form "not older than" survives any step that leaves its other side alone (`Footprint`).
- `ChannelImplemented`: `Spec => ImplementsChannel`. The mapping takes the measurements that every word of the frame has reached for
  what is sure, the time from taking the mutex to the signal for a pass, and a status word for the promise of its measurement;
  the words of a pass that was broken off promise nothing. `StatusMatched` then makes every signal one the channel may send, and
  the range of a block's words makes a block a renewal (`BlockRenews`). All of the polling thread, the mutex and the waits are
  stuttering (`Unseen`, `ProgramsUnseen`). A task that ended stays registered (`Unregisters` is FALSE).

`KthreadModuleProofs` proves, for any set of programs, queue limit and number of passes:

- `TypeCorrect`; `RegistrationEndsWithProgram`: `Spec => []RegisteredAlive`, inductive given the types.
- `CopiesFollowSignals`: `Spec => []CopyNotOlderThanSignal`. The invariant `CopyInv` adds that both halves of the page are of
  the present pass when a signal is sent (`PageFilled`), and that no half is older than any signal
  pending or in hand (`PageKeepsUp`).
- `ChannelImplemented`: `Spec => ImplementsChannel`, with both halves of the page for what is sure and `Unregisters` TRUE: of the two
  drivers it is this one whose `release` takes the registration back. It rests on `CopyInv` and `RegisteredAlive`; from the first comes that
  a signal announces the pass both halves are of (`SendAnnounces`), from the second that killing a program unregisters just that one.

`CameraReadThreadProofs` proves, for any finite set of readers, `PassesAreAskedFor`: `Spec => []NoSpuriousPass`. `PostInv` adds that
nothing can be posted before `init_completion`. `PostsAreBounded`: `Spec => []TypeOK`, where the completion's count stays within the
number of readers and one: a reader past `completion_done` has seen a count of 0 and posts once, so the count and the readers that
are about to post never exceed the readers there are (`CountInv`).

`BluetoothSerialProofs` proves, for any buffer, chunks shorter than it (`SerialAssumption`, which the code does not
enforce), readers and writers:

- `SerialTypeCorrect`, `TextStaysInOnePiece`, `ReadsAlwaysAdvance`, `WritesAreFaithful`: the types, `TextInOnePiece`, `ReadsAdvance`
  and `WriteFaithful`. The
  invariant `LinkInv` has one holder of the mutex (`Mutex`); a text that is never followed by NULs and more text, whose
  bytes have been received and none of them read (`Kept`); a copy that is what will be cleared (`Copied`); a lone writer's own
  bytes in the shared buffer (`OwnBytes`). `Shape` and `StrLenIs` give `strlen` without recursion.
- `MailboxImplemented`: `SerialSpec => ImplementsMailbox`. The refinement mapping hands a chunk over when `receive_buf` gets
  the mutex and takes the text when it is copied; under the mutex the bytes copied so far, and the `memset` to come, are not visible to
  anyone. One lemma per step: `ChunkIsPut`, `ReadIsTake`, `ReceiverStutters`.

`UavCommandPathProofs` proves `WholeCommandsInOrder`: if every chunk is a command (`Chunks = {4}`), `PathSpec => []OneCommandInOrder`, for
any buffer longer than a command, number of commands and failed copies. Its invariant carries a command, in its order, from
the buffer (`BufferWhole`) to `funcCTL`'s copy and to what it sends (`CtlWhole`).

`PathReadsMailbox` takes the mailbox's promise and `ReadsAdvance` over to the whole path: by construction the program is one of the
driver's readers (`PathKeepsDriver`), so that composing adds no behaviour to the driver.

`UavSequencerProofs` proves `ServicesAreOnTime`: `Spec => []OnTime` for every pause and budgets that are `Schedulable`, that is `CtlWork <= Pause`,
`NavWork <= Pause` and `2 * CtlWork + NavWork <= 2 * Pause`. The announced 10 and 20 ms meet the last with equality. The invariant `InTime`
compares the work that may be left of what was released with the time to the next release of the same service.

`DriversProofs` proves, for any finite set of programs and any bounds, what the runs check of them. Each has an
inductive invariant, and the steps of the other subjects leave its variables alone.

- `LidarIsKept`: the invariant counts the programs in the module's code with the library's theorems on finite sets.
- `SerialReadsAreNotOlder`, `SerialEchoesOnce`: cells of the buffer only ever grow.
- `GpioReportsLastLevel`, `GpioSignalsEveryEdge`: a missed edge is latched.
- `ServoStaysOn`: as long as no unnoticed failure has happened, "off" is in nobody's hands.
- `SysfsCopyIsTrue`: `Spec => []SysfsCopyTells`. While no two writes have overlapped, the copy is behind the PWM by the one
  write under way (`Undisturbed`); a write that is alone works on what it has read itself, so that after two lone stores
  of different values the second went through to the PWM (`Alone`), however wrong the copy was before the first.
- `DisplayIsFramed`, `DisplayFailuresAreLocal`, `DisplayPicturesAreFreed`, for any number of failed transfers and of probes.
  `ScriptFacts` evaluates the twenty commands of probe once; after that an entry is a number. `PanelSet` says of every
  command that the panel has the value of the last entry done for it, unless a transfer of one of its entries has failed;
  a command taken without its data holds nothing, so that no other command's data can land there. `NeverNegative`
  is the reason why all transfers are gone through: an `uint8_t` widened to an `int` is not below 0.
- `TypesAreKept`: `Spec => []TypeOK` for the servos, the button and the display, with the limits of the counters.

Its second part is the thermal camera's library, for a sensor of any size with lines of an even number of pixels, any limit and any EEPROM:

- `ImageStaysCurrent`: `Spec => []ImageCurrent`. `PatternIsSubpage` shows that the parities by which the program picks the pixels
  to renew, in both modes, are those by which the sensor writes them. `RamFresh` says that a word of the RAM is of the
  last measurement of its subpage; so whatever frame is taken over is as new as the signal, and only validation
  keeps out the words that are out of order.
- `FewPixelsApart`: `Spec => []CalibrationPixelsAccepted`. `PixelInv` is the loop's: the two lists name, in order and without
  repetition, the bad pixels met so far (`Lists`), so that their lengths are the sets' cardinalities. If the loop stopped because
  a list was full there are too many in any case (`TooMany`); otherwise it has seen them all, and `Touching` turns the
  three loops over pairs of positions into "two different bad pixels touch", in which no order matters
  (`AdjacentBothWays`).
- `StoredIsExact`: `Spec => []CalibrationStoredExactly`. `Wraps` is the 16-bit arithmetic: if the sum of all parts fits, wrapping a
  part of it first does no harm. `StoredInv` is the scaling loop's: the numerator has been doubled `scale` times, and the
  last time it was still small, hence below the power of two that bounds the loop (`StillSmall`: six turns at most above the
  power of two under the coefficients, so the byte `scale` does not wrap). `Nearest` is the rounding.

`DriverLifecycleProofs` proves `Spec => []EntriesBacked` and `Spec => []ReleasedOnce` of `DriverLifecycle` (`LifecycleBacked`,
`LifecycleOnce`). The argument is in two halves:

- Rules on a table of calls (`Rules`), that say what a careful reader of a driver looks for: an entry is taken after what it
  needs (`InitRule`, `ProbeRule`, `NeedRule`); the cleanup of a failing call ends the entries before what they need and gives back
  what has been taken for sure, once (`CleanRule`); `remove`, the driver core after it and `exit` do the same (`RemoveRule`,
  `GivenRule`, `EndRule`, `ExitRule`, `UnloadRule`). Where a driver does otherwise, the rule admits just the exception that `Exposed` or
  `Mishandled` lists, or a call whose failure it overlooks (`Passed`). `RulesHold` evaluates the fifteen tables against them.
- Rules are enough, whichever calls fail and however often a device is bound and unbound. `LInv` says which resources are held
  at each place of each function (`InitPart`, `BoundPart`, `ProbePart`, `KeepPart`, `FirmPart`) and what the way back out
  of a failed call has still to return (`Undo`, `Plan`). A resource whose acquisition is not looked at is presumed, not held: it is there or
  it has never been freed (`Presumed`, `Settled`), which is what keeps it from being freed twice. `LInit` and `LStep` show that it is inductive; this half
  looks into no driver's calls, so that a new driver needs only its rows in the tables of the rules and its part of `RulesHold`.

`DriversProofs` carries both to the state of `MCDrivers` (`LP`, an instance whose `bound` is `isBound`): tables and steps are the same
(`SameTables`, `SameCalls`, `SameSteps`), and another subject's step is a stutter (`LifecycleSpec`).

The proofs rest on the assumptions on constants stated in the modules (`ConstantsAssumption`, `KthreadAssumption`, `SerialAssumption`,
`CommandAssumption`, `ScheduleAssumption`, `ProgramsAssumption`, `BoundsAssumption`, `SensorAssumption`, `CalibrationAssumption`, `CameraAssumption`), which
the runs evaluate, and on the hypotheses named above, which the theorems state. `SensorAssumption` has lines of an even number of
pixels (24 lines of 32 in the sensor) and numbers of pixels below 0xFFFF, which stands for none in the lists;
`CalibrationAssumption` has the widths of the EEPROM's fields.

Only model-checked:

- All liveness (`MeasurementRead`, `ProgramServed`, `UnloadCompletes`, `ReadServed`, `RemoveCompletesIfRead`, `SignalsKeepComing`, `CleanupCompletes`,
  `NewestApplied`, `ChunkReadOrReplaced`, `NavNotStarved`): the prover has neither fairness nor ENABLED.
- That the scaling loop ends follows from the bound on its turns in `CalibrationStoredExactly` and from fairness, which is not
  stated for a program that only computes. With coefficients that are all zero it does not end.

## 5. What the models found

With a run: the four violations of section 3 (`findings` in `PROJECT.json`). Met while modelling, without a run:

- `uav_project.c:440` announces periods of 20 and 50 ms and a load of 0.9; the loop of l.443-463 has a cycle of 60 ms
  with `funcCTL` released at 0 and 20 ms and `funcNAV` at 0 and 40 ms.
- The camera's `reinit_completion` (l.60) drops a completion posted during the work, so that read has no pass that
  began after it. If it comes when `mlx90640_init` has already returned (l.58), its pass had even read the sensor before it; `ReadServed` leaves
  that read out, and claims of the others that a pass reads the sensor after the post or at the same time. `mlx90640.c:68` copies a zeroed buffer over
  the bytes just received.
- `pwm_device_driver.c` defines `PWM_MOTOR_OFF` (l.15) and has no case for it; one unnoticed failure of a program's `ON` (l.92)
  is enough to lose another program's: both antecedents of `PwmStaysOn` are needed.
  The bound of two programs hid a case: with three, one can read the state between a failed `ON` and a later one, so
  the exception of the property had to be about all programs; this showed when its proof failed.
- `pwm_device_driver_sys.c`: two overlapping writes can leave the servo on in standby, or off out of it, and a store of the right value
  then does nothing; `SysfsCopyTells` is what still holds.
- `gpio_irq_int.c`: `btn_close` tests `!task` (l.82), so a registration outlives its program; `copy_from_user` and `copy_to_user` are
  tested the wrong way round, so that `WR_VALUE` sets the LED only from what could not be copied, and `RD_VALUE` copies a variable
  never set (l.59, l.66); a failed `register_chrdev` returns 0 from probe (l.136-159); the results of `gpio_request` are
  not looked at (l.119-120), so that the interrupt can run on a line the driver never got, and both ways out free it.
- `st7796s.c`: the helpers return their `int` as an `uint8_t` (l.34-53), so `probe` cannot see an error, and it is
  only that which keeps it from returning with the panel selected; a picture that cannot be sent is freed twice
  (l.132, and l.343-366 of the driver); `kmalloc`'s result is not tested (l.339); the window ends at column 480 and
  row 320 (l.294, l.305) while the picture is 480 by 320, counted from 0.
- `mlx90640_device_driver.c`: `release` (l.139) leaves `send_signal` behind; exit frees the page before the threads stop (l.454).
- Lifecycles (the tables of `DriverLifecycle`): character devices and attributes that are never taken back, and so outlive the
  module (all drivers with one; in `kthread.c` only after a failing `init`) and the device's memory that they use (both cameras, both
  servo drivers; for Bluetooth the port and for `gpio_irq_int` the lines); memory of `devm_kzalloc` freed by hand (four drivers); `kthread_run`
  and `kthread_create` tested against NULL; the node, the port or the thread live before the memory they use (`bluetooth_serial.c:160`, the camera's
  `init_completion`); `input_dev` freed twice and before the interrupt that uses it (`gpio_irq_input.c:117-120`); a probe that fails and returns 0
  (`gpio_irq_int.c`); work queued after `cancel_work_sync` because the interrupt is freed later (`example-i2c_with_regmap.c:51`), or never
  cancelled (`pwm_device_driver_workqueue.c:169`).
- Thermal camera's program: `RD_DEVICE_PARAMETERS` returns 0 when a transfer fails, and on an EEPROM of zeros the loop `while(temp < 63.4)`
  of `MLX90640_API.c:1055` never ends. `MLX90640_GetFrameData` returns the subpage on success, so "FRAME DATA OK" is printed for subpage
  0 only; it looks at `rawData[833]` of 832 words (l.155); an image is calculated also from a frame that was refused.

## 6. Not modelled in the modelled parts

The file-system side of nodes and attributes, what reads of freed memory do after a removal (the models stop, or only record it, where the code's
behaviour is undefined), calls in the middle of a probe other than by their resources, copies past a buffer's end
on sizes chosen by a program, logging, and the sockets and configuration of the UAV program. Smaller cases, and what they would change:

- `mlx90640_ir.c:48`: a failing `mmap` copies nothing and the handler works on the old `raw_data`; `CopyNotOlderThanSignal` and
  `ImageCurrent` are about handlers whose `mmap` succeeds.
- `bluetooth_serial.c:114`: a chunk of 1024 bytes leaves no terminator, a longer one overflows the buffer. `SerialAssumption` rules both out;
  the UART core's own limit is not in the repository.
- `bluetooth_serial.c:73`: the UART taking fewer bytes than it was given, which the driver does not look at.
- `pwm_device_driver_sys.c:70`: `pwm_disable` failing, which it has no way to report.
- `st7796s.c`: an SPI transfer of which only a part reaches the panel.
- The camera's `probe`, l.191: on a device that comes back, a class that is refused overwrites the pointer to the old one. The model counts the old
  one as held; its use in probe is one of those `Overlooked` excuses.

## 7. Plan

Done, in this order: `Mlx90640Driver` with its proofs; `BluetoothSerial`, `UavCommandPath` on top of it, `UavSequencer`;
`CameraReadThread`; `KthreadModule` with its proofs; the small drivers under `MCDrivers`; the serial lidar; the lifecycles; the
calibration and image of the thermal camera; the mailbox and the frame channel with their refinements; the proofs of section 4.

Left, most useful first:

1. `DriverLifecycle` composed with the behaviour of a driver in use (a Bluetooth write during probe, a servo ioctl during remove).
2. `funcNAV`: the packet it takes from the simulator and the data it shares with `main`.
