--------------------------- MODULE BluetoothSerial ---------------------------
(***************************************************************************)
(* The serial link driver kernel/Bluetooth_serial-device-driver.  The      *)
(* UART core hands the bytes of an endless stream to receive_buf in chunks *)
(* of its choosing; the driver keeps the last chunk in bluetoothtopc, on   *)
(* top of whatever of the earlier ones has not been read; read() takes     *)
(* what it finds up to the first NUL and clears it.  write() passes user   *)
(* data to the UART through one shared buffer that no lock protects.       *)
(*                                                                         *)
(* A received byte is its position 1, 2, ... in the stream; 0 is NUL (the  *)
(* peer sends text).  The two halves of a write stand for its bytes.       *)
(***************************************************************************)
EXTENDS Integers, Sequences, FiniteSetsExt, Functions

CONSTANTS
    BufLen,     \* bytes in bluetoothtopc (1024)
    Chunks,     \* sizes the UART core hands over in one call
    MaxStream,  \* bound: bytes the peer sends
    MaxFaults,  \* bound: copy_to_user calls that fail
    Readers,    \* tasks in read()
    Writers     \* tasks in write()

NoWriter == "none"

\* A chunk leaves room for the NUL that ends the data.  The driver does not check: a chunk
\* as long as the buffer would leave strlen() no terminator, and a longer one would be
\* copied past the end.  Neither is modelled.
ASSUME SerialAssumption ==
    /\ BufLen \in Nat \ {0}
    /\ Chunks \subseteq 1..(BufLen - 1)
    /\ MaxStream \in Nat /\ MaxFaults \in Nat
    /\ {"free", "recv"} \cap Readers = {}

Cells == 0..(BufLen - 1)

VARIABLES
    buf,       \* bluetoothtopc
    lock,      \* mymutex: "free" or its holder
    received,  \* stream bytes handed to the driver
    pcV, size, at,
               \* serdev_bluetooth_recv: next step, its size argument, bytes copied
    pcR, got,  \* serialpc_read: next step, bytes copied to the user
    faults,    \* copy_to_user calls that have failed
    newest,    \* history: the newest byte read successfully
    pcW, dfu, overlapped
        \* serialpc_write: next step, datafromuser (who wrote each half),
        \* history: another write has touched datafromuser during this one

recvVars  == <<received, pcV, size, at>>
readVars  == <<pcR, got, faults, newest>>
writeVars == <<pcW, dfu, overlapped>>
serialVars == <<buf, lock, recvVars, readVars, writeVars>>

SerialInit ==
    /\ buf = [c \in Cells |-> 0]
    /\ lock = "free"
    /\ received = 0 /\ pcV = "idle" /\ size = 0 /\ at = 0
    /\ pcR = [r \in Readers |-> "idle"] /\ got = [r \in Readers |-> <<>>]
    /\ faults = 0 /\ newest = 0
    /\ pcW = [w \in Writers |-> "idle"] /\ dfu = <<NoWriter, NoWriter>>
    /\ overlapped = [w \in Writers |-> FALSE]

\* strlen(bluetoothtopc): the cells before the first NUL.
StrLen(b) == CHOOSE n \in 0..BufLen :
                 /\ \A c \in 0..(n - 1) : b[c] # 0
                 /\ n = BufLen \/ b[n] = 0

Text(b) == [i \in 1..StrLen(b) |-> b[i - 1]]

-----------------------------------------------------------------------------
(* serdev_bluetooth_recv *)
RecvBegin ==
    /\ pcV = "idle"
    /\ \E n \in Chunks : received + n <= MaxStream /\ size' = n
    /\ pcV' = "lock"
    /\ UNCHANGED <<buf, lock, received, at, readVars, writeVars>>

\* Slip: no mutex_lock, as in lidar_serial.c.
RecvLock_NoMutex ==
    /\ pcV = "lock" /\ pcV' = "copy"
    /\ UNCHANGED <<buf, lock, received, size, at, readVars, writeVars>>

RecvLock ==
    /\ pcV = "lock" /\ lock = "free"
    /\ lock' = "recv" /\ pcV' = "copy"
    /\ UNCHANGED <<buf, received, size, at, readVars, writeVars>>

\* memcpy to the start of the buffer, byte by byte.
RecvCopy ==
    /\ pcV = "copy" /\ at < size
    /\ buf' = [buf EXCEPT ![at] = received + at + 1]
    /\ at' = at + 1
    /\ UNCHANGED <<lock, received, pcV, size, readVars, writeVars>>

\* Slip: the terminator is counted.
RecvEnd_CountsNul ==
    /\ pcV = "copy" /\ at = size
    /\ received' = received + size + 1
    /\ lock' = "free" /\ pcV' = "idle" /\ size' = 0 /\ at' = 0
    /\ UNCHANGED <<buf, readVars, writeVars>>

\* No terminator is written; all of the chunk is reported as consumed.
RecvEnd ==
    /\ pcV = "copy" /\ at = size
    /\ received' = received + size
    /\ lock' = "free" /\ pcV' = "idle" /\ size' = 0 /\ at' = 0
    /\ UNCHANGED <<buf, readVars, writeVars>>

Receive == RecvBegin \/ RecvLock \/ RecvCopy \/ RecvEnd

-----------------------------------------------------------------------------
(* serialpc_read *)
ReadLock(r) ==
    /\ pcR[r] = "idle" /\ lock = "free"
    /\ lock' = r
    /\ pcR' = [pcR EXCEPT ![r] = "copy"]
    /\ UNCHANGED <<buf, recvVars, got, faults, newest, writeVars>>

\* Slip: the lock is dropped after the copy, before the memset.
ReadCopy_Unlocks(r) ==
    /\ pcR[r] = "copy"
    /\ got' = [got EXCEPT ![r] = Text(buf)]
    /\ lock' = "free"
    /\ pcR' = [pcR EXCEPT ![r] = "clear"]
    /\ UNCHANGED <<buf, recvVars, faults, newest, writeVars>>

\* copy_to_user of strlen bytes, whatever length was asked for.
ReadCopy(r) ==
    /\ pcR[r] = "copy"
    /\ got' = [got EXCEPT ![r] = Text(buf)]
    /\ pcR' = [pcR EXCEPT ![r] = "clear"]
    /\ UNCHANGED <<buf, lock, recvVars, faults, newest, writeVars>>

\* Slip: the early return forgets the unlock.
ReadFault_KeepsLock(r) ==
    /\ pcR[r] = "copy" /\ faults < MaxFaults
    /\ faults' = faults + 1
    /\ got' = [got EXCEPT ![r] = <<>>]
    /\ pcR' = [pcR EXCEPT ![r] = "idle"]
    /\ UNCHANGED <<buf, lock, recvVars, newest, writeVars>>

\* copy_to_user fails: the data stays, the call returns -1.
ReadFault(r) ==
    /\ pcR[r] = "copy" /\ faults < MaxFaults
    /\ faults' = faults + 1
    /\ got' = [got EXCEPT ![r] = <<>>]
    /\ lock' = "free"
    /\ pcR' = [pcR EXCEPT ![r] = "idle"]
    /\ UNCHANGED <<buf, recvVars, newest, writeVars>>

\* Slip: the buffer is emptied as a string is, by its first byte.
ReadClear_FirstByte(r) ==
    /\ pcR[r] = "clear"
    /\ buf' = [buf EXCEPT ![0] = 0]
    /\ newest' = Max({newest} \cup Range(got[r]))
    /\ lock' = "free"
    /\ pcR' = [pcR EXCEPT ![r] = "idle"]
    /\ UNCHANGED <<recvVars, got, faults, writeVars>>

\* memset of strlen bytes, evaluated anew, and the unlock; the call returns 0.
ReadClear(r) ==
    /\ pcR[r] = "clear"
    /\ buf' = [c \in Cells |-> IF c < StrLen(buf) THEN 0 ELSE buf[c]]
    /\ newest' = Max({newest} \cup Range(got[r]))
    /\ lock' = "free"
    /\ pcR' = [pcR EXCEPT ![r] = "idle"]
    /\ UNCHANGED <<recvVars, got, faults, writeVars>>

Read(r) == ReadLock(r) \/ ReadCopy(r) \/ ReadFault(r) \/ ReadClear(r)

-----------------------------------------------------------------------------
(* serialpc_write: copy_from_user into datafromuser, then serdev_device_write_buf.    *)
(* The caller fills the buffer in two steps; other callers may come in between.       *)
Disturb(w) == [v \in Writers |-> overlapped[v] \/ (v # w /\ pcW[v] # "idle")]

WriteBegin(w) ==
    /\ pcW[w] = "idle"
    /\ pcW' = [pcW EXCEPT ![w] = "first"]
    /\ overlapped' = [overlapped EXCEPT ![w] = FALSE]
    /\ UNCHANGED <<buf, lock, recvVars, readVars, dfu>>

WriteFirst(w) ==
    /\ pcW[w] = "first"
    /\ dfu' = [dfu EXCEPT ![1] = w]
    /\ pcW' = [pcW EXCEPT ![w] = "second"]
    /\ overlapped' = Disturb(w)
    /\ UNCHANGED <<buf, lock, recvVars, readVars>>

\* Slip: the length is short, as with sizeof("luetooth ...") in probe.
WriteSecond_Short(w) ==
    /\ pcW[w] = "second"
    /\ pcW' = [pcW EXCEPT ![w] = "send"]
    /\ overlapped' = Disturb(w)
    /\ UNCHANGED <<buf, lock, recvVars, readVars, dfu>>

WriteSecond(w) ==
    /\ pcW[w] = "second"
    /\ dfu' = [dfu EXCEPT ![2] = w]
    /\ pcW' = [pcW EXCEPT ![w] = "send"]
    /\ overlapped' = Disturb(w)
    /\ UNCHANGED <<buf, lock, recvVars, readVars>>

\* What serdev_device_write_buf returns, which may be fewer bytes than it was given, is not
\* looked at.
WriteSend(w) ==
    /\ pcW[w] = "send"
    /\ pcW' = [pcW EXCEPT ![w] = "idle"]
    /\ UNCHANGED <<buf, lock, recvVars, readVars, dfu, overlapped>>

\* copy_from_user fails on the way: what it has copied stays, nothing is sent.
WriteFault(w) ==
    /\ pcW[w] \in {"first", "second"}
    /\ pcW' = [pcW EXCEPT ![w] = "idle"]
    /\ UNCHANGED <<buf, lock, recvVars, readVars, dfu, overlapped>>

Write(w) == WriteBegin(w) \/ WriteFirst(w) \/ WriteSecond(w) \/ WriteSend(w) \/ WriteFault(w)

-----------------------------------------------------------------------------
SerialNext ==
    \/ Receive
    \/ \E r \in Readers : Read(r)
    \/ \E w \in Writers : Write(w)

SerialSpec == SerialInit /\ [][SerialNext]_serialVars

\* The UART core and the readers (which poll every 50 ms) are scheduled; a mutex waiter
\* gets the mutex in the end.
SerialFairness ==
    /\ WF_serialVars(RecvCopy \/ RecvEnd) /\ SF_serialVars(RecvLock)
    /\ \A r \in Readers :
           /\ SF_serialVars(ReadLock(r))
           /\ WF_serialVars(ReadCopy(r) \/ ReadClear(r))

SerialFairSpec == SerialSpec /\ SerialFairness

-----------------------------------------------------------------------------
(* Properties *)

\* Types: of the buffer, that a byte has a value and a place, not that there is a text.
SerialTypeOK ==
    /\ buf \in [Cells -> 0..MaxStream]
    /\ lock \in {"free", "recv"} \cup Readers
    /\ received \in 0..MaxStream
    /\ pcV \in {"idle", "lock", "copy"} /\ size \in {0} \cup Chunks /\ at \in 0..size
    /\ pcR \in [Readers -> {"idle", "copy", "clear"}]
    /\ got \in [Readers -> Seq(1..MaxStream)]
    /\ faults \in 0..MaxFaults
    /\ newest \in 0..MaxStream
    /\ pcW \in [Writers -> {"idle", "first", "second", "send"}]
    /\ dfu \in [1..2 -> Writers \cup {NoWriter}]
    /\ overlapped \in [Writers -> BOOLEAN]

\* What has been received and not read lies at the start of bluetoothtopc, in one piece,
\* with a NUL behind it that is still in the buffer: so strlen() counts all of it and stays
\* inside, although no call writes a terminator.  A memset of less than the text, or
\* between two bytes of a chunk, would leave something behind a NUL.  It rests on chunks
\* that leave room for a NUL (SerialAssumption), which receive_buf does not check.
TextInOnePiece == \E n \in Cells : \A c \in Cells : buf[c] # 0 <=> c < n

\* Reads advance: what a reader has copied and not yet cleared is all newer than anything
\* any read() returned before, so no byte is read twice and none comes out of order
\* between calls, with several readers and failed copies in between.
ReadsAdvance ==
    \A r \in Readers : pcR[r] = "clear" => \A b \in Range(got[r]) : b > newest

\* As a mailbox: a chunk arrives when receive_buf gets the mutex, and a text is taken when
\* it is copied, although its memset is yet to come.
Arrived == IF pcV = "copy"
           THEN [c \in Cells |-> IF c < size THEN received + c + 1 ELSE buf[c]]
           ELSE buf

Readable == IF \E r \in Readers : pcR[r] = "clear" THEN <<>> ELSE Text(Arrived)
HandedOver == IF pcV = "copy" THEN received + size ELSE received

Mailbox == INSTANCE SerialMailbox WITH text <- Readable, sent <- HandedOver, given <- got

\* Although chunks arrive byte by byte and a read copies and clears in two steps, with the
\* length computed a second time, both are atomic: a chunk is laid over the text as a
\* whole, a read() takes all there is, leaving nothing behind and wiping nothing it was
\* not given, and one whose copy fails takes nothing.
ImplementsMailbox == Mailbox!Spec

\* The first byte of a chunk, or of one that took its place, is read in the end.
ChunkReadOrReplaced == \A b \in 1..MaxStream : buf[0] = b ~> newest >= b

\* What a write() sends is what its caller passed, as long as no other write() overlaps.
\* Of one that is overlapped nothing is promised: it may send the other's bytes.
WriteFaithful ==
    \A w \in Writers : pcW[w] = "send" /\ ~overlapped[w] => dfu = <<w, w>>
=============================================================================
