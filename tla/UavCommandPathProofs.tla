------------------------ MODULE UavCommandPathProofs ------------------------
(***************************************************************************)
(* If every command reaches the driver in one piece, what funcCTL sends is *)
(* one command, for any buffer, number of commands and failed copies.      *)
(***************************************************************************)
EXTENDS UavCommandPath, BluetoothSerialProofs

\* Four numbers of one command, in their order.
Whole(d) == \E k \in Nat : \A c \in 0..3 : d[c] = 4 * k + c + 1

\* The buffer holds the last command or nothing; while the next is copied over it, what is
\* left of it.
BufferWhole ==
    /\ \E k \in Nat : received = 4 * k
    /\ \A c \in Cells : c > 3 => buf[c] = 0
    /\ \/ \A c \in at..3 : buf[c] = 0
       \/ received > 0 /\ \A c \in at..3 : buf[c] = received - 4 + c + 1

\* funcCTL's buffer holds a command or what it held at the start, and so it sent one.
CtlWhole ==
    /\ dataToUc \in [Cells -> Int] /\ vals \in [Fields -> Int]
    /\ Whole(dataToUc) \/ \E g \in {Letters, Digits} : \A c \in 0..3 : dataToUc[c] = g
    /\ \/ \E k \in Nat : \A f \in Fields : vals[f] = 4 * k + f
       \/ \E g \in {0, Digits} : \A f \in Fields : vals[f] = g

PathInv == LinkInv /\ BufferWhole /\ CtlWhole

LEMMA FirstCells == 0..3 \subseteq Cells /\ 4 \in Cells /\ Ctl \in Readers
  BY SerialAssumption, CommandAssumption DEF Cells

LEMMA PathInvInit == PathInit => PathInv
  <1> SUFFICES ASSUME PathInit PROVE PathInv
    OBVIOUS
  <1>1. LinkInv
    BY LinkInit DEF PathInit
  <1>2. BufferWhole
    <2>1. received = 0 /\ at = 0 /\ \A c \in Cells : buf[c] = 0
      BY DEF PathInit, SerialInit
    <2>2. \A c \in at..3 : buf[c] = 0
      BY <2>1, FirstCells
    <2>3. received = 4 * 0
      BY <2>1
    <2> QED
      BY <2>1, <2>2, <2>3 DEF BufferWhole
  <1>3. CtlWhole
    <2>1. PICK g \in {Letters, Digits} : dataToUc = [c \in Cells |-> g]
      BY DEF PathInit
    <2>2. \A c \in 0..3 : dataToUc[c] = g
      BY <2>1, FirstCells
    <2>3. \A f \in Fields : vals[f] = 0
      BY DEF PathInit
    <2>4. dataToUc \in [Cells -> Int] /\ vals \in [Fields -> Int]
      BY <2>1 DEF PathInit, Letters, Digits
    <2> QED
      BY <2>2, <2>3, <2>4 DEF CtlWhole
  <1> QED
    BY <1>1, <1>2, <1>3 DEF PathInv

LEMMA ReceiveWhole ==
    ASSUME Chunks = {4}, PathInv, Receive
    PROVE  BufferWhole'
  <1>1. PICK k \in Nat : received = 4 * k
    BY DEF PathInv, BufferWhole
  <1>2. /\ at \in Nat /\ size \in Nat /\ at <= size /\ buf \in [Cells -> 0..MaxStream]
        /\ pcV # "idle" => size = 4
        /\ pcV # "copy" => at = 0
    BY SerialAssumption DEF PathInv, LinkInv, SerialTypeOK, Mutex
  <1>3. CASE RecvBegin \/ RecvLock
    <2>1. UNCHANGED <<buf, received, at>>
      BY <1>3 DEF RecvBegin, RecvLock
    <2> QED
      BY <2>1 DEF PathInv, BufferWhole
  <1>4. CASE RecvCopy
    <2>1. /\ at \in 0..3 /\ at' = at + 1 /\ received' = received
          /\ buf' = [buf EXCEPT ![at] = received + at + 1]
      BY <1>2, <1>4 DEF RecvCopy
    <2>2. \A c \in Cells : c # at => buf'[c] = buf[c]
      BY <1>2, <2>1
    <2>3. \A c \in Cells : c > 3 => buf'[c] = 0
      BY <2>1, <2>2 DEF PathInv, BufferWhole
    <2>4. \A c \in at'..3 : c \in at..3 /\ buf'[c] = buf[c]
      BY <2>1, <2>2, FirstCells
    <2> QED
      BY <1>1, <2>1, <2>3, <2>4 DEF PathInv, BufferWhole
  <1>5. CASE RecvEnd
    <2>1. /\ UNCHANGED buf /\ at = 4 /\ at' = 0 /\ received' = received + 4 /\ pcV = "copy"
      BY <1>2, <1>5 DEF RecvEnd
    <2>2. \A c \in 0..3 : buf[c] = received + c + 1
      BY <2>1 DEF PathInv, LinkInv, Kept
    <2>3. received' = 4 * (k + 1) /\ received' > 0 /\ k + 1 \in Nat
      BY <1>1, <2>1
    <2>4. \A c \in at'..3 : buf'[c] = received' - 4 + c + 1
      BY <1>1, <2>1, <2>2
    <2> QED
      BY <2>1, <2>3, <2>4 DEF PathInv, BufferWhole
  <1> QED
    BY <1>3, <1>4, <1>5 DEF Receive

\* A reader that has the mutex finds a command or nothing.
LEMMA TextWhole ==
    ASSUME Chunks = {4}, PathInv, lock = Ctl
    PROVE  Len(Text(buf)) = 0 \/ (Len(Text(buf)) = 4 /\ \E k \in Nat : \A c \in 0..3 :
                                      Text(buf)[c + 1] = 4 * k + c + 1)
  <1>1. at = 0
    BY Exclusive, FirstCells DEF PathInv
  <1>2. PICK k \in Nat : received = 4 * k
    BY DEF PathInv, BufferWhole
  <1> DEFINE n == StrLen(buf)
  <1>3. /\ n \in Cells /\ Shape(buf, n) /\ Len(Text(buf)) = n
        /\ \A i \in 1..n : Text(buf)[i] = buf[i - 1]
    BY TextIs DEF PathInv
  <1>4. n \in Nat
    BY <1>3, SerialAssumption DEF Cells
  <1>5. CASE \A c \in 0..3 : buf[c] = 0
    <2>1. buf[0] = 0 /\ 0 \in Cells
      BY <1>5, FirstCells
    <2>2. ~(0 < n)
      BY <2>1, <1>3 DEF Shape
    <2> QED
      BY <2>2, <1>3, <1>4
  <1>6. CASE received > 0 /\ \A c \in 0..3 : buf[c] = received - 4 + c + 1
    <2>1. buf[3] # 0 /\ buf[4] = 0 /\ 3 \in Cells /\ 4 \in Cells
      BY <1>2, <1>6, FirstCells DEF PathInv, BufferWhole
    <2>2. 3 < n /\ ~(4 < n)
      BY <2>1, <1>3 DEF Shape
    <2>3. n = 4
      BY <2>2, <1>4
    <2>4. k - 1 \in Nat /\ received - 4 = 4 * (k - 1)
      BY <1>2, <1>6
    <2>5. \A c \in 0..3 : Text(buf)[c + 1] = 4 * (k - 1) + c + 1
      <3> SUFFICES ASSUME NEW c \in 0..3 PROVE Text(buf)[c + 1] = 4 * (k - 1) + c + 1
        OBVIOUS
      <3>1. c + 1 \in 1..n /\ (c + 1) - 1 = c
        BY <2>3
      <3>2. Text(buf)[c + 1] = buf[c]
        BY <3>1, <1>3
      <3> QED
        BY <3>2, <1>6, <2>4
    <2> QED
      BY <2>3, <2>4, <2>5, <1>3
  <1> QED
    BY <1>1, <1>5, <1>6 DEF PathInv, BufferWhole

LEMMA ReadWhole ==
    ASSUME Chunks = {4}, PathInv, CtlRead
    PROVE  PathInv'
  <1>1. Read(Ctl) /\ vals' = vals
    BY DEF CtlRead
  <1>2. LinkInv'
    BY <1>1, ReadStep, FirstCells DEF PathInv
  <1>3. UNCHANGED <<received, at>>
    BY <1>1 DEF Read, ReadLock, ReadCopy, ReadFault, ReadClear, recvVars
  <1>4. BufferWhole'
    <2>1. CASE UNCHANGED buf
      BY <2>1, <1>3 DEF PathInv, BufferWhole
    <2>2. CASE ReadClear(Ctl)
      <3>1. \A c \in Cells : buf'[c] = 0
        BY <2>2, TextIs DEF ReadClear, PathInv, Shape
      <3>2. at \in Nat
        BY SerialAssumption DEF PathInv, LinkInv, SerialTypeOK
      <3>3. \A c \in at'..3 : buf'[c] = 0
        BY <3>1, <3>2, <1>3, FirstCells
      <3> QED
        BY <3>1, <3>3, <1>3 DEF PathInv, BufferWhole
    <2> QED
      BY <2>1, <2>2, <1>1 DEF Read, ReadLock, ReadCopy, ReadFault
  <1>5. CASE ReadCopy(Ctl)
    <2>1. /\ lock = Ctl /\ got'[Ctl] = Text(buf)
      BY <1>5, FirstCells DEF ReadCopy, PathInv, LinkInv, Mutex, SerialTypeOK
    <2>2. dataToUc' = [c \in Cells |->
                          IF c < Len(Text(buf)) THEN Text(buf)[c + 1] ELSE dataToUc[c]]
      BY <1>5, <2>1 DEF CtlRead
    <2>3. dataToUc' \in [Cells -> Int]
      <3>1. \A c \in Cells : c < Len(Text(buf)) => Text(buf)[c + 1] \in Int
        BY TextIs, SerialAssumption DEF PathInv, Cells
      <3> QED
        BY <2>2, <3>1 DEF PathInv, CtlWhole
    <2>4. CASE Len(Text(buf)) = 0
      <3>1. \A c \in 0..3 : dataToUc'[c] = dataToUc[c]
        BY <2>2, <2>4, FirstCells
      <3> QED
        BY <3>1, <2>3, <1>1, <1>2, <1>4 DEF PathInv, CtlWhole, Whole
    <2>5. CASE Len(Text(buf)) = 4 /\ \E k \in Nat : \A c \in 0..3 :
                                         Text(buf)[c + 1] = 4 * k + c + 1
      <3>1. \A c \in 0..3 : dataToUc'[c] = Text(buf)[c + 1]
        BY <2>2, <2>5, FirstCells
      <3>2. Whole(dataToUc')
        BY <3>1, <2>5 DEF Whole
      <3> QED
        BY <3>2, <2>3, <1>1, <1>2, <1>4 DEF PathInv, CtlWhole
    <2> QED
      BY <2>1, <2>4, <2>5, TextWhole
  <1>6. CASE ~ReadCopy(Ctl)
    <2>1. dataToUc' = dataToUc
      BY <1>6 DEF CtlRead
    <2> QED
      BY <2>1, <1>1, <1>2, <1>4 DEF PathInv, CtlWhole, Whole
  <1> QED
    BY <1>5, <1>6

LEMMA SendWhole ==
    ASSUME PathInv, CtlSend
    PROVE  PathInv'
  <1>1. UNCHANGED serialVars /\ dataToUc' = dataToUc
        /\ vals' = [f \in Fields |-> IF Scanned(f) THEN dataToUc[f - 1] ELSE vals[f]]
    BY DEF CtlSend
  <1>2. LinkInv' /\ BufferWhole'
    BY <1>1, LinkUnchanged DEF PathInv, BufferWhole, serialVars, recvVars
  <1>3. vals' \in [Fields -> Int]
    <2>1. \A f \in Fields : f - 1 \in 0..3
      BY DEF Fields
    <2> QED
      BY <2>1, <1>1, FirstCells DEF PathInv, CtlWhole
  <1>4. CASE Whole(dataToUc)
    <2>1. PICK k \in Nat : \A c \in 0..3 : dataToUc[c] = 4 * k + c + 1
      BY <1>4 DEF Whole
    <2>2. \A f \in Fields : Scanned(f)
      BY <2>1 DEF Scanned, Letters, Fields
    <2>3. \A f \in Fields : vals'[f] = 4 * k + f
      <3> SUFFICES ASSUME NEW f \in Fields PROVE vals'[f] = 4 * k + f
        OBVIOUS
      <3>1. f - 1 \in 0..3 /\ f \in Int
        BY DEF Fields
      <3>2. vals'[f] = dataToUc[f - 1]
        BY <1>1, <2>2
      <3>3. dataToUc[f - 1] = 4 * k + (f - 1) + 1
        BY <2>1, <3>1
      <3> QED
        BY <3>1, <3>2, <3>3
    <2> QED
      BY <1>1, <1>2, <1>3, <1>4, <2>3 DEF PathInv, CtlWhole
  <1>5. CASE \A c \in 0..3 : dataToUc[c] = Digits
    <2>1. \A f \in Fields : Scanned(f) /\ f - 1 \in 0..3
      BY <1>5 DEF Scanned, Letters, Digits, Fields
    <2>2. \A f \in Fields : vals'[f] = Digits
      BY <2>1, <1>1, <1>5
    <2> QED
      BY <1>1, <1>2, <1>3, <2>2 DEF PathInv, CtlWhole, Whole
  <1>6. CASE \A c \in 0..3 : dataToUc[c] = Letters
    <2>1. \A f \in Fields : ~Scanned(f)
      <3> SUFFICES ASSUME NEW f \in Fields PROVE ~Scanned(f)
        OBVIOUS
      <3>1. 0 \in 0..(f - 1) /\ dataToUc[0] = Letters
        BY <1>6 DEF Fields
      <3> QED
        BY <3>1 DEF Scanned
    <2>2. \A f \in Fields : vals'[f] = vals[f]
      BY <2>1, <1>1
    <2> QED
      BY <1>1, <1>2, <1>3, <2>2 DEF PathInv, CtlWhole, Whole
  <1> QED
    BY <1>4, <1>5, <1>6 DEF PathInv, CtlWhole

\* Whatever the line, the mutex, failed copies and the reader's releases do in between: if
\* commands arrive in one piece, what goes to FlightGear is one command, each number as the
\* control it was sent for.
THEOREM WholeCommandsInOrder ==
    ASSUME Chunks = {4}
    PROVE  PathSpec => []OneCommandInOrder
  <1>1. PathInv /\ [PathNext]_pathVars => PathInv'
    <2> SUFFICES ASSUME PathInv, [PathNext]_pathVars PROVE PathInv'
      OBVIOUS
    <2>1. CASE Receive /\ UNCHANGED ctlVars
      <3>1. LinkInv' /\ BufferWhole'
        BY <2>1, ReceiveStep, ReceiveWhole DEF PathInv
      <3> QED
        BY <3>1, <2>1 DEF PathInv, CtlWhole, Whole, ctlVars
    <2>2. CASE UNCHANGED <<serialVars, dataToUc, vals>>
      <3>1. LinkInv' /\ BufferWhole'
        BY <2>2, LinkUnchanged DEF PathInv, BufferWhole, serialVars, recvVars
      <3> QED
        BY <3>1, <2>2 DEF PathInv, CtlWhole, Whole
    <2>3. CASE CtlRead
      BY <2>3, ReadWhole
    <2>4. CASE CtlSend
      BY <2>4, SendWhole
    <2> QED
      BY <2>1, <2>2, <2>3, <2>4 DEF PathNext, CtlReleased, pathVars, ctlVars
  <1>2. PathInv => OneCommandInOrder
    <2> SUFFICES ASSUME PathInv, NEW f \in Fields, NEW g \in Fields, vals[f] > 0
                 PROVE  /\ Field(vals[f]) = f
                        /\ vals[g] > 0 /\ Command(vals[f]) = Command(vals[g])
      BY DEF OneCommandInOrder
    <2>1. PICK k \in Nat : \A h \in Fields : vals[h] = 4 * k + h
      BY DEF PathInv, CtlWhole, Digits
    <2>2. \A h \in Fields : Field(4 * k + h) = h /\ Command(4 * k + h) = k + 1 /\ 4 * k + h > 0
      BY DEF Fields, Field, Command
    <2> QED
      BY <2>1, <2>2
  <1> QED
    BY PathInvInit, <1>1, <1>2, PTL DEF PathSpec

-----------------------------------------------------------------------------
(* The driver under funcCTL *)

LEMMA PathStep == [PathNext]_pathVars => [SerialNext]_serialVars
  <1> SUFFICES ASSUME [PathNext]_pathVars PROVE [SerialNext]_serialVars
    OBVIOUS
  <1>1. CASE Receive
    BY <1>1 DEF SerialNext
  <1>2. CASE CtlReleased \/ CtlSend
    BY <1>2 DEF CtlReleased, CtlSend
  <1>3. CASE CtlRead
    <2>1. Read(Ctl)
      BY <1>3 DEF CtlRead
    <2> QED
      BY <2>1, FirstCells DEF SerialNext
  <1>4. CASE UNCHANGED pathVars
    BY <1>4 DEF pathVars
  <1> QED
    BY <1>1, <1>2, <1>3, <1>4 DEF PathNext

\* A step of funcCTL is a read() of the driver or leaves it alone, by the way the two are
\* composed: so what is true of the driver is true of it on the path.
LEMMA PathKeepsDriver == PathSpec => SerialSpec
  <1>1. PathInit => SerialInit
    BY DEF PathInit
  <1> QED
    BY <1>1, PathStep, PTL DEF PathSpec, SerialSpec

\* So funcCTL finds a mailbox: a read takes the whole text there is, with no chunk half laid
\* over it, or fails and takes none; and what it takes is newer than all it took before.
THEOREM PathReadsMailbox == PathSpec => ImplementsMailbox /\ []ReadsAdvance
  BY PathKeepsDriver, MailboxImplemented, ReadsAlwaysAdvance, PTL
=============================================================================
