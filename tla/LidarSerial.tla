----------------------------- MODULE LidarSerial -----------------------------
(***************************************************************************)
(* The serial lidar driver kernel/lidar_serial-device-driver.  receive_buf *)
(* puts what the UART core hands over at the start of datatopc, sends it   *)
(* back, and reports as consumed what the line took of the echo: the core  *)
(* hands over the rest again.  read() copies all of datatopc, whatever     *)
(* length was asked for.  No lock keeps the two apart.                     *)
(*                                                                         *)
(* A received byte is its position 1, 2, ... in the stream; 0 is NUL.      *)
(***************************************************************************)
EXTENDS Integers, Sequences

CONSTANTS
    BufLen,     \* bytes in datatopc (1024)
    Chunks,     \* sizes the UART core hands over in one call
    MaxStream,  \* bound: bytes the lidar sends
    Readers     \* tasks in read()

Cells == 0..(BufLen - 1)

VARIABLES
    buf,        \* datatopc
    received,   \* stream bytes consumed
    echo,       \* what has been sent back
    pc, size, at,
                \* serdev_lidar_recv: next step, its size argument, bytes copied
    next,       \* serialpc_read, per task: the cell it copies next, or Idle
    got,        \* per task: what it has copied
    before      \* history, per task: datatopc when the read began

recvVars == <<received, echo, pc, size, at>>
readVars == <<next, got, before>>
vars == <<buf, recvVars, readVars>>

Idle == -1
Empty == [c \in Cells |-> 0]

Init ==
    /\ buf = Empty
    /\ received = 0 /\ echo = <<>>
    /\ pc = "idle" /\ size = 0 /\ at = 0
    /\ next = [r \in Readers |-> Idle]
    /\ got = [r \in Readers |-> Empty] /\ before = [r \in Readers |-> Empty]

-----------------------------------------------------------------------------
(* serdev_lidar_recv *)

\* Slip: the buffer is cleared first, so that a short chunk ends in a NUL.
RecvBegin_Clears ==
    /\ pc = "idle"
    /\ \E n \in Chunks : received + n <= MaxStream /\ size' = n
    /\ pc' = "copy" /\ buf' = Empty
    /\ UNCHANGED <<received, echo, at, readVars>>

RecvBegin ==
    /\ pc = "idle"
    /\ \E n \in Chunks : received + n <= MaxStream /\ size' = n
    /\ pc' = "copy"
    /\ UNCHANGED <<buf, received, echo, at, readVars>>

\* memcpy, byte by byte.
RecvCopy ==
    /\ pc = "copy" /\ at < size
    /\ buf' = [buf EXCEPT ![at] = received + at + 1]
    /\ at' = at + 1
    /\ UNCHANGED <<received, echo, pc, size, readVars>>

Sent(m) == [i \in 1..m |-> received + i]
RecvReturn == pc' = "idle" /\ size' = 0 /\ at' = 0 /\ UNCHANGED <<buf, readVars>>

\* Slip: all of the chunk is reported as consumed, as bluetooth_serial does.
RecvEcho_ReturnsSize ==
    /\ pc = "copy" /\ at = size
    /\ \E m \in 0..size : echo' = echo \o Sent(m)
    /\ received' = received + size
    /\ RecvReturn

\* serdev_device_write_buf: the line takes a part, and that is what receive_buf returns.
\* (An error counts as nothing taken.)
RecvEcho ==
    /\ pc = "copy" /\ at = size
    /\ \E m \in 0..size : echo' = echo \o Sent(m) /\ received' = received + m
    /\ RecvReturn

-----------------------------------------------------------------------------
(* serialpc_read *)

ReadBegin(r) ==
    /\ next[r] = Idle
    /\ next' = [next EXCEPT ![r] = 0]
    /\ got' = [got EXCEPT ![r] = Empty] /\ before' = [before EXCEPT ![r] = buf]
    /\ UNCHANGED <<buf, recvVars>>

\* copy_to_user of the whole buffer, byte by byte.
ReadCopy(r) ==
    /\ next[r] \in Cells
    /\ got' = [got EXCEPT ![r][next[r]] = buf[next[r]]]
    /\ next' = [next EXCEPT ![r] = @ + 1]
    /\ UNCHANGED <<buf, recvVars, before>>

\* Returns 0, or -1 for a user page that is not there.
ReadEnd(r) ==
    /\ next[r] # Idle
    /\ next' = [next EXCEPT ![r] = Idle]
    /\ UNCHANGED <<buf, recvVars, got, before>>

Receive == RecvBegin \/ RecvCopy \/ RecvEcho
Read(r) == ReadBegin(r) \/ ReadCopy(r) \/ ReadEnd(r)

Next == Receive \/ \E r \in Readers : Read(r)

Spec == Init /\ [][Next]_vars

-----------------------------------------------------------------------------
(* Properties *)

\* A read can mix bytes of two chunks, for nothing locks the buffer.  But each byte it gets
\* is at least as new as the one that was there when it began: what was received before a
\* read is never missed for something older, with bytes that are handed over twice included.
ReadNotOlder ==
    \A r \in Readers : \A c \in 0..(next[r] - 1) : before[r][c] <= got[r][c]

\* The lidar gets its bytes back once each and in order, although the line takes only parts
\* of them and the UART core hands over the rest again.
EchoedOnce == echo = [i \in 1..received |-> i]
=============================================================================
