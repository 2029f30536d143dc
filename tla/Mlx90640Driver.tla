--------------------------- MODULE Mlx90640Driver ---------------------------
(***************************************************************************)
(* The thermal camera driver kernel/mlx90640_device_driver and the program *)
(* mlx90640_ir.c that uses it.                                             *)
(*                                                                         *)
(* Two kernel threads share a frame buffer, a mutex and an event flag:     *)
(*   - read_frame polls the sensor's status register once a second and     *)
(*     raises wait_queue_newData_flag when the "new data" bit is set;      *)
(*   - new_frame waits for the flag, copies the sensor's RAM into the      *)
(*     buffer in blocks of Stride words, sends a real-time signal with the *)
(*     status word to the registered task and drops the flag.              *)
(* The buffer is mapped into the user program, which copies it from its    *)
(* signal handler without any lock.  rmmod stops both threads.             *)
(*                                                                         *)
(* A frame is abstracted to the number of the measurement each of its      *)
(* words was read from, and a status word to the number of the measurement *)
(* it announces: 0 before the first one (new-data bit clear).  The driver  *)
(* never clears the bit (writeReg_mlx90640 is an empty shell), so every    *)
(* later word has it set.                                                  *)
(***************************************************************************)
EXTENDS Integers, Sequences

CONSTANTS
    Words,      \* words of a frame that carry data (832 in the code)
    Stride,     \* words per I2C transaction (16 in the code)
    MaxMeas,    \* bound: measurements the sensor takes
    MaxFail,    \* bound: I2C transactions that fail
    MaxQueue,   \* limit on pending real-time signals of a task (RLIMIT_SIGPENDING)
    Apps,       \* user tasks that run mlx90640_ir
    NoTask      \* the NULL task pointer

ASSUME ConstantsAssumption ==
    /\ Words \in Nat \ {0}
    /\ Stride \in Nat \ {0, 1}
    /\ MaxMeas \in Nat /\ MaxFail \in Nat /\ MaxQueue \in Nat
    /\ NoTask \notin Apps

\* What an uninitialised status word can be: its new-data bit clear or set.
GarbageIdle  == -2
GarbageReady == -1
StatusWord == {GarbageIdle, GarbageReady} \cup 0..MaxMeas
NewData(status) == status = GarbageReady \/ status > 0

\* The words of the page the driver writes; those from Words on are the overrun
\* of the last block.
Page == 0..(Words + Stride - 2)

\* Slip: the first step skips a word.
NextBlock_Skips(i) == IF i = 0 THEN Stride + 1 ELSE i + Stride

\* The step of both block loops: i = (i == 0) ? 15 : i + 16.
NextBlock(i) == IF i = 0 THEN Stride - 1 ELSE i + Stride

VARIABLES
    meas,        \* sensor: number of the measurement in its RAM
    fails,       \* I2C transactions that have failed so far
    lock,        \* mlx90640_lock: "free" or the thread that holds it
    flag,        \* wait_queue_newData_flag # 0
    frame,       \* mlx90640_frameData
    param,       \* mlx90640_parameter_ID.status_register
    sendSignal,  \* send_signal
    pcG, raw,    \* thread_get_frame: next step, its local status_register
    pcW, blk, broke,  \* thread_wait_frame_data: next step, i, loop left by break
    pcX, stopG, stopW, frameFreed,  \* rmmod: next step, KTHREAD_SHOULD_STOP bits, kfree done
    pcA, sigq, cur, copied, rawData  \* per task: next step, pending signals, the one
                                     \* being handled, words copied, raw_data[]

sensorVars == <<meas, fails>>
getVars  == <<pcG, raw>>
waitVars == <<pcW, blk, broke>>
exitVars == <<pcX, stopG, stopW, frameFreed>>
appVars  == <<pcA, cur, copied, rawData>>
vars == <<sensorVars, lock, flag, frame, param, sendSignal, getVars, waitVars,
          exitVars, appVars, sigq>>

\* What a signal carries: si_int, and whether the block loop before it ran to its end
\* (the receiver cannot see the latter).
Signal == [status : StatusWord, whole : BOOLEAN]
NoSignal == [status |-> 0, whole |-> FALSE]

Init ==
    /\ meas = 0 /\ fails = 0
    /\ lock = "free" /\ flag = FALSE
    /\ frame = [w \in Page |-> 0]
    /\ param = 0
    /\ sendSignal = NoTask
    /\ pcG = "top" /\ raw \in {GarbageIdle, GarbageReady}
    /\ pcW = "top" /\ blk = 0 /\ broke = FALSE
    /\ pcX = "loaded" /\ stopG = FALSE /\ stopW = FALSE /\ frameFreed = FALSE
    /\ pcA = [a \in Apps |-> "start"]
    /\ sigq = [a \in Apps |-> <<>>]
    /\ cur = [a \in Apps |-> NoSignal]
    /\ copied = [a \in Apps |-> 0]
    /\ rawData = [a \in Apps |-> [w \in 0..Words-1 |-> 0]]

-----------------------------------------------------------------------------
(* The sensor: it finishes a measurement at any time, also while its RAM is read. *)
Measure ==
    /\ meas < MaxMeas
    /\ meas' = meas + 1
    /\ UNCHANGED <<fails, lock, flag, frame, param, sendSignal, getVars, waitVars,
                   exitVars, appVars, sigq>>

\* An I2C transaction fails: readReg_mlx90640 returns -1 and leaves its buffer alone.
I2cFails ==
    /\ fails < MaxFail
    /\ fails' = fails + 1

-----------------------------------------------------------------------------
(* thread_get_frame *)
GTop ==
    /\ pcG = "top"
    /\ pcG' = IF stopG THEN "exited" ELSE "lock"
    /\ UNCHANGED <<sensorVars, lock, flag, frame, param, sendSignal, raw, waitVars,
                   exitVars, appVars, sigq>>

\* Slip: the status is read without the mutex.
GLock_NoMutex ==
    /\ pcG = "lock" /\ pcG' = "read"
    /\ UNCHANGED <<sensorVars, lock, flag, frame, param, sendSignal, raw, waitVars,
                   exitVars, appVars, sigq>>

GLock ==
    /\ pcG = "lock" /\ lock = "free"
    /\ lock' = "get" /\ pcG' = "read"
    /\ UNCHANGED <<sensorVars, flag, frame, param, sendSignal, raw, waitVars,
                   exitVars, appVars, sigq>>

\* The status read and the unlock.  A failure is ignored: raw keeps what it had, which
\* is stack garbage until the first read that succeeds.
GRead ==
    /\ pcG = "read"
    /\ \/ raw' = meas /\ UNCHANGED fails
       \/ I2cFails /\ UNCHANGED raw
    /\ lock' = "free" /\ pcG' = "publish"
    /\ UNCHANGED <<meas, flag, frame, param, sendSignal, waitVars, exitVars, appVars, sigq>>

\* Outside the lock.
GPublish ==
    /\ pcG = "publish"
    /\ param' = raw /\ pcG' = "raise"
    /\ UNCHANGED <<sensorVars, lock, flag, frame, sendSignal, raw, waitVars, exitVars,
                   appVars, sigq>>

\* Outside the lock: raise the flag and wake new_frame if the new-data bit is set,
\* then msleep(1000) and around again.
GRaise ==
    /\ pcG = "raise"
    /\ flag' = (flag \/ NewData(raw))
    /\ pcG' = "top"
    /\ UNCHANGED <<sensorVars, lock, frame, param, sendSignal, raw, waitVars, exitVars,
                   appVars, sigq>>

GetThread == GTop \/ GLock \/ GRead \/ GPublish \/ GRaise

-----------------------------------------------------------------------------
(* thread_wait_frame_data *)
WTop ==
    /\ pcW = "top"
    /\ pcW' = IF stopW THEN "exited" ELSE "wait"
    /\ UNCHANGED <<sensorVars, lock, flag, frame, param, sendSignal, getVars, blk, broke,
                   exitVars, appVars, sigq>>

\* wait_event_interruptible(..., wait_queue_newData_flag != 0): a wake-up by
\* kthread_stop finds the condition false and sleeps again.
WWake ==
    /\ pcW = "wait" /\ flag
    /\ pcW' = "lock"
    /\ UNCHANGED <<sensorVars, lock, flag, frame, param, sendSignal, getVars, blk, broke,
                   exitVars, appVars, sigq>>

\* Slip: i is not reset, as if it were static like conSignal.
WLock_StaticIndex ==
    /\ pcW = "lock" /\ lock = "free"
    /\ lock' = "wait" /\ pcW' = "block"
    /\ broke' = FALSE
    /\ UNCHANGED <<sensorVars, flag, frame, param, sendSignal, getVars, blk, exitVars,
                   appVars, sigq>>

WLock ==
    /\ pcW = "lock" /\ lock = "free"
    /\ lock' = "wait" /\ pcW' = "block"
    /\ blk' = 0 /\ broke' = FALSE
    /\ UNCHANGED <<sensorVars, flag, frame, param, sendSignal, getVars, exitVars,
                   appVars, sigq>>

\* One turn of the block loop.
WBlock ==
    /\ pcW = "block" /\ blk < Words
    /\ frame' = [w \in Page |-> IF w \in blk..(blk + Stride - 1) THEN meas ELSE frame[w]]
    /\ blk' = NextBlock(blk)
    /\ UNCHANGED <<sensorVars, lock, flag, param, sendSignal, getVars, pcW, broke,
                   exitVars, appVars, sigq>>

\* Slip: the failure path goes on to the next event without the unlock.
WBlockFails_KeepsLock ==
    /\ pcW = "block" /\ blk < Words
    /\ I2cFails
    /\ broke' = TRUE /\ flag' = FALSE /\ pcW' = "top"
    /\ UNCHANGED <<meas, lock, frame, param, sendSignal, getVars, blk, exitVars,
                   appVars, sigq>>

\* A block that cannot be read ends the loop; the signal is sent all the same.
WBlockFails ==
    /\ pcW = "block" /\ blk < Words
    /\ I2cFails
    /\ broke' = TRUE /\ pcW' = "signal"
    /\ UNCHANGED <<meas, lock, flag, frame, param, sendSignal, getVars, blk, exitVars,
                   appVars, sigq>>

WBlocksDone ==
    /\ pcW = "block" /\ blk >= Words
    /\ pcW' = "signal"
    /\ UNCHANGED <<sensorVars, lock, flag, frame, param, sendSignal, getVars, blk, broke,
                   exitVars, appVars, sigq>>

\* send_sig_info to the registered task.  It queues, unless the task's queue is full
\* (-EAGAIN, only logged).  The pointer may be to a task that has died: release does
\* not clear send_signal.  Nobody receives that signal.
WSignal ==
    /\ pcW = "signal"
    /\ pcW' = "reset"
    /\ sigq' = [a \in Apps |->
           IF a = sendSignal /\ pcA[a] # "dead" /\ Len(sigq[a]) < MaxQueue
           THEN Append(sigq[a], [status |-> param, whole |-> ~broke])
           ELSE sigq[a]]
    /\ UNCHANGED <<sensorVars, lock, flag, frame, param, sendSignal, getVars, blk, broke,
                   exitVars, appVars>>

\* Slip: no mutex_unlock.
WReset_KeepsLock ==
    /\ pcW = "reset"
    /\ flag' = FALSE /\ pcW' = "top"
    /\ UNCHANGED <<sensorVars, lock, frame, param, sendSignal, getVars, blk, broke,
                   exitVars, appVars, sigq>>

\* The flag is dropped whatever happened to it since the wake-up.
WReset ==
    /\ pcW = "reset"
    /\ flag' = FALSE /\ lock' = "free" /\ pcW' = "top"
    /\ UNCHANGED <<sensorVars, frame, param, sendSignal, getVars, blk, broke, exitVars,
                   appVars, sigq>>

WaitThread ==
    WTop \/ WWake \/ WLock \/ WBlock \/ WBlockFails \/ WBlocksDone \/ WSignal \/ WReset

-----------------------------------------------------------------------------
(* mlx90640_ir.c and the file operations it calls.  The identification and the       *)
(* calibration ioctls leave the state below alone.                                   *)
Loaded == pcX = "loaded"

\* open (which takes a reference on the module), RD_DEVICE_ID, RD_DEVICE_PARAMETERS.
AOpen(a) ==
    /\ pcA[a] = "start" /\ Loaded
    /\ pcA' = [pcA EXCEPT ![a] = "open"]
    /\ UNCHANGED <<sensorVars, lock, flag, frame, param, sendSignal, getVars, waitVars,
                   exitVars, cur, copied, rawData, sigq>>

\* RD_DEVICE_FRAME: the caller becomes the one task that is signalled.
ARegister(a) ==
    /\ pcA[a] = "open"
    /\ sendSignal' = a
    /\ pcA' = [pcA EXCEPT ![a] = "main"]
    /\ UNCHANGED <<sensorVars, lock, flag, frame, param, getVars, waitVars, exitVars,
                   cur, copied, rawData, sigq>>

\* sig_event_handler is entered; SIGGETFRAME stays blocked until it returns.
AHandle(a) ==
    /\ pcA[a] = "main" /\ sigq[a] # <<>>
    /\ cur' = [cur EXCEPT ![a] = Head(sigq[a])]
    /\ sigq' = [sigq EXCEPT ![a] = Tail(sigq[a])]
    /\ copied' = [copied EXCEPT ![a] = 0]
    /\ pcA' = [pcA EXCEPT ![a] = "handler"]
    /\ UNCHANGED <<sensorVars, lock, flag, frame, param, sendSignal, getVars, waitVars,
                   exitVars, rawData>>

\* Slip: one word too many.
ACopy_TooLong(a) ==
    /\ pcA[a] = "handler" /\ copied[a] <= Words
    /\ rawData' = [rawData EXCEPT ![a][copied[a]] = frame[copied[a]]]
    /\ copied' = [copied EXCEPT ![a] = copied[a] + 1]
    /\ UNCHANGED <<sensorVars, lock, flag, frame, param, sendSignal, getVars, waitVars,
                   exitVars, pcA, cur, sigq>>

\* memcpy from the mapped page, a word at a time: new_frame may be writing it.  That mmap
\* fails, and the handler goes on with what raw_data had before, is left out.
ACopy(a) ==
    /\ pcA[a] = "handler" /\ copied[a] < Words
    /\ rawData' = [rawData EXCEPT ![a][copied[a]] = frame[copied[a]]]
    /\ copied' = [copied EXCEPT ![a] = copied[a] + 1]
    /\ UNCHANGED <<sensorVars, lock, flag, frame, param, sendSignal, getVars, waitVars,
                   exitVars, pcA, cur, sigq>>

\* The image is computed from raw_data and si_int, and the handler returns.
AReturn(a) ==
    /\ pcA[a] = "handler" /\ copied[a] = Words
    /\ pcA' = [pcA EXCEPT ![a] = "main"]
    /\ UNCHANGED <<sensorVars, lock, flag, frame, param, sendSignal, getVars, waitVars,
                   exitVars, cur, copied, rawData, sigq>>

\* The program is killed (its main loop has no exit): the descriptor is released, which
\* clears nothing in the driver.
AKilled(a) ==
    /\ pcA[a] \in {"open", "main", "handler"}
    /\ pcA' = [pcA EXCEPT ![a] = "dead"]
    /\ sigq' = [sigq EXCEPT ![a] = <<>>]
    /\ UNCHANGED <<sensorVars, lock, flag, frame, param, sendSignal, getVars, waitVars,
                   exitVars, cur, copied, rawData>>

AppRuns(a) == AOpen(a) \/ ARegister(a) \/ AHandle(a) \/ ACopy(a) \/ AReturn(a)

-----------------------------------------------------------------------------
(* mlx90640_exit, refused by the kernel while a task has the device open. *)
InUse == \E a \in Apps : pcA[a] \in {"open", "main", "handler"}

\* kfree(mlx90640_frameData), with both threads still running, and the first half of
\* kthread_stop(read_frame).
XBegin ==
    /\ Loaded /\ ~InUse
    /\ frameFreed' = TRUE /\ stopG' = TRUE
    /\ pcX' = "join_read"
    /\ UNCHANGED <<sensorVars, lock, flag, frame, param, sendSignal, getVars, waitVars,
                   stopW, appVars, sigq>>

\* Slip: the second kthread_stop names read_frame again.
XReadStopped_WrongThread ==
    /\ pcX = "join_read" /\ pcG = "exited"
    /\ pcX' = "join_new"
    /\ UNCHANGED <<sensorVars, lock, flag, frame, param, sendSignal, getVars, waitVars,
                   stopG, stopW, frameFreed, appVars, sigq>>

\* kthread_stop(read_frame) returns; kthread_stop(new_frame) begins.
XReadStopped ==
    /\ pcX = "join_read" /\ pcG = "exited"
    /\ stopW' = TRUE
    /\ pcX' = "join_new"
    /\ UNCHANGED <<sensorVars, lock, flag, frame, param, sendSignal, getVars, waitVars,
                   stopG, frameFreed, appVars, sigq>>

\* kthread_stop(new_frame) returns.  What follows, kfree of the devm-managed device and
\* i2c_del_driver, whose remove callback calls kthread_stop(read_frame) again for a task
\* that is gone, is undefined behaviour and ends the model.
XNewStopped ==
    /\ pcX = "join_new" /\ pcW = "exited"
    /\ pcX' = "second_stop"
    /\ UNCHANGED <<sensorVars, lock, flag, frame, param, sendSignal, getVars, waitVars,
                   stopG, stopW, frameFreed, appVars, sigq>>

Exit == XBegin \/ XReadStopped \/ XNewStopped

Next ==
    \/ Measure
    \/ GetThread
    \/ WaitThread
    \/ \E a \in Apps : AppRuns(a) \/ AKilled(a)
    \/ Exit

Spec == Init /\ [][Next]_vars

\* Both threads are scheduled, the mutex is handed to a waiter (read_frame sleeps a
\* second between two uses), a signalled program runs, rmmod goes on once begun.
\* Nothing forces a measurement, a program to start or die, or rmmod to begin.
Fairness ==
    /\ WF_vars(GetThread)
    /\ WF_vars(WaitThread) /\ SF_vars(WLock)
    /\ \A a \in Apps : WF_vars(AHandle(a) \/ ACopy(a) \/ AReturn(a))
    /\ WF_vars(XReadStopped \/ XNewStopped)

FairSpec == Spec /\ Fairness

-----------------------------------------------------------------------------
(* Properties *)

DriverTypeOK ==
    /\ meas \in 0..MaxMeas /\ fails \in 0..MaxFail
    /\ lock \in {"free", "get", "wait"}
    /\ flag \in BOOLEAN
    /\ frame \in [Page -> 0..MaxMeas]
    /\ param \in StatusWord /\ raw \in StatusWord
    /\ sendSignal \in Apps \cup {NoTask}
    /\ pcG \in {"top", "lock", "read", "publish", "raise", "exited"}
    /\ pcW \in {"top", "wait", "lock", "block", "signal", "reset", "exited"}
    /\ blk \in 0..(Words + Stride - 1)
    /\ broke \in BOOLEAN
    /\ pcX \in {"loaded", "join_read", "join_new", "second_stop"}
    /\ stopG \in BOOLEAN /\ stopW \in BOOLEAN /\ frameFreed \in BOOLEAN

AppTypeOK ==
    /\ pcA \in [Apps -> {"start", "open", "main", "handler", "dead"}]
    /\ sigq \in [Apps -> Seq(Signal)]
    /\ \A a \in Apps : Len(sigq[a]) <= MaxQueue
    /\ cur \in [Apps -> Signal]
    /\ copied \in [Apps -> 0..Words]
    /\ rawData \in [Apps -> [0..(Words - 1) -> 0..MaxMeas]]

\* Types: every variable keeps its shape, the block index stays within one block of the
\* frame's end and no copy runs past it.
TypeOK == DriverTypeOK /\ AppTypeOK

\* No detected frame is lost.  read_frame sets the flag without the mutex and new_frame
\* clears it however often it was set, so a set that falls into the work is dropped; yet
\* a status word with news (raw) whose frame is not in the buffer always has the flag up
\* or is on its way to raising it.  It holds because the status is read under the mutex:
\* the dropped event was then detected before the blocks were read.  (A pass broken off
\* by an I2C error is the exception; the next poll makes up for it.)
FrameFresherThan(status) == \A w \in 0..(Words - 1) : frame[w] >= status

NoLostFrame ==
    \/ broke \/ FrameFresherThan(raw)
    \/ flag \/ pcG \in {"publish", "raise"}

\* The status word in the signal is never newer than any word of a frame read whole:
\* si_int is read while new_frame holds the mutex, though read_frame stores it without.
StatusNotNewerThanFrame ==
    pcW = "signal" /\ ~broke => FrameFresherThan(param)

\* What the program has copied, at the time of its choosing and while the driver may be
\* overwriting the page, is never older than the status word its signal carried.  The
\* signal of a pass that an I2C failure broke off is exempt: part of the page may be old.
CopyNotOlderThanSignal ==
    \A a \in Apps :
        pcA[a] = "handler" /\ cur[a].whole =>
            \A w \in 0..(copied[a] - 1) : rawData[a][w] >= cur[a].status

\* As a channel: what every word of a frame has reached, a pass from taking the mutex to
\* its signal, and a status word as the promise of the measurement it announces; one sent
\* after a pass that was broken off promises nothing.
Reached == {m \in 0..MaxMeas : FrameFresherThan(m)}
PassUnderWay == pcW \in {"block", "signal"}
Dead == {a \in Apps : pcA[a] = "dead"}
Handling == {a \in Apps : pcA[a] = "handler"}
Promise(s) == IF s.whole /\ s.status > 0 THEN s.status ELSE 0
Promises(q) == [i \in 1..Len(q) |-> Promise(q[i])]
FirstWords(n, data) == [i \in 1..n |-> data[i - 1]]

Channel == INSTANCE FrameChannel WITH
    Unregisters <- FALSE, newest <- meas, sure <- Reached, due <- PassUnderWay,
    registered <- sendSignal, gone <- Dead, busy <- Handling,
    pending <- [a \in Apps |-> Promises(sigq[a])],
    told <- [a \in Apps |-> Promise(cur[a])],
    got <- [a \in Apps |-> FirstWords(copied[a], rawData[a])]

\* Although the status word is stored and the flag raised outside the mutex, blocks fail
\* and the page is copied while it is rewritten, a program sees a channel: a pass ends in
\* one signal at most, to the task registered then, of a measurement that every word of
\* the frame has reached; nothing a handler copies falls behind that.  A task that has
\* ended stays registered and gets nothing; its successor is served like the first.
ImplementsChannel == Channel!Spec

\* Every measurement, or a later one, reaches the buffer whole, however often the I2C
\* bus fails (finitely often) and wherever the flag is set and cleared.
MeasurementRead ==
    \A m \in 1..MaxMeas : meas = m ~> FrameFresherThan(m) \/ pcX # "loaded"

\* The registered program ends up with an image not older than any measurement made
\* while it is registered, though signals are dropped when its queue is full.
ProgramServed ==
    \A a \in Apps, m \in 1..MaxMeas :
        meas = m /\ sendSignal = a ~>
            \/ copied[a] = Words /\ \A w \in 0..(Words - 1) : rawData[a][w] >= m
            \/ sendSignal # a \/ pcA[a] = "dead"

\* rmmod stops read_frame first.  If new_frame is then asleep with the flag down, no
\* step of anybody ends it: kthread_stop's wake-up finds the condition false.
UnloadStuck == pcX = "join_new" /\ pcW = "wait" /\ ~flag

\* In every other case the two threads are stopped: rmmod gets past both joins.
UnloadCompletes ==
    pcX = "join_new" /\ ~UnloadStuck ~> pcX = "second_stop"

\* The buffer's comment, "2*832 = 1664 < PAGE_SIZE", counts the frame's words as all that
\* is written to the page.
OnlyFrameWordsWritten == \A w \in Page \ (0..(Words - 1)) : frame[w] = 0
=============================================================================
