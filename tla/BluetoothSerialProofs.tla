------------------------ MODULE BluetoothSerialProofs ------------------------
(***************************************************************************)
(* Proofs about the serial link driver, for any buffer, any chunks that    *)
(* are shorter and any number of tasks: what it holds is text in one       *)
(* piece, its reads advance, its writes are faithful, and it implements    *)
(* the mailbox.                                                            *)
(***************************************************************************)
EXTENDS BluetoothSerial, TLAPS

-----------------------------------------------------------------------------
(* The buffer *)

\* The first n cells hold text, the rest NULs.
Shape(b, n) == \A c \in Cells : b[c] # 0 <=> c < n

LEMMA StrLenIs ==
    ASSUME NEW b, NEW n \in Cells, Shape(b, n)
    PROVE  StrLen(b) = n
  <1> DEFINE P(k) == (\A c \in 0..(k - 1) : b[c] # 0) /\ (k = BufLen \/ b[k] = 0)
  <1>1. n \in 0..BufLen /\ P(n)
    BY SerialAssumption DEF Shape, Cells
  <1>2. ASSUME NEW k \in 0..BufLen, P(k) PROVE k = n
    <2>1. ~(k < n)
      BY <1>2, SerialAssumption DEF Shape, Cells
    <2>2. ~(n < k)
      <3> SUFFICES ASSUME n < k PROVE FALSE
        OBVIOUS
      <3>1. n \in 0..(k - 1)
        BY DEF Cells
      <3> QED
        BY <3>1, <1>2 DEF Shape
    <2> QED
      BY <2>1, <2>2, SerialAssumption DEF Cells
  <1>3. StrLen(b) = CHOOSE k \in 0..BufLen : P(k)
    BY DEF StrLen
  <1> HIDE DEF P
  <1> QED
    BY <1>1, <1>2, <1>3

-----------------------------------------------------------------------------
(* The invariant *)

\* The mutex has one holder, and what the receiver has in hand is what it was called with.
Mutex ==
    /\ pcV = "copy" <=> lock = "recv"
    /\ \A r \in Readers : pcR[r] # "idle" <=> lock = r
    /\ pcV # "idle" => size \in Chunks /\ received + size <= MaxStream
    /\ pcV # "copy" => at = 0

\* Text is never followed by NULs and more text; one of its bytes is the newest; all of
\* them have been received, and none has been read before.
Kept ==
    /\ \E n \in Cells : Shape(buf, n)
    /\ \E c \in Cells : \A d \in Cells : buf[d] <= buf[c]
    /\ \A c \in Cells : buf[c] <= received + at /\ (buf[c] # 0 => newest < buf[c])
    /\ newest <= received
    /\ pcV = "copy" => \A c \in 0..(at - 1) : buf[c] = received + c + 1

\* A reader that has copied and not cleared has copied what is there.
Copied == \A r \in Readers : pcR[r] = "clear" => got[r] = Text(buf)

\* A writer that was left alone has its own bytes in the shared buffer.
OwnBytes ==
    \A w \in Writers : ~overlapped[w] =>
        /\ pcW[w] = "second" => dfu[1] = w
        /\ pcW[w] = "send" => dfu[1] = w /\ dfu[2] = w

LinkInv == SerialTypeOK /\ Mutex /\ Kept /\ Copied /\ OwnBytes

LEMMA LinkInit == SerialInit => LinkInv
  <1> SUFFICES ASSUME SerialInit PROVE LinkInv
    OBVIOUS
  <1> USE SerialAssumption
  <1>1. SerialTypeOK
    BY DEF SerialInit, SerialTypeOK
  <1>2. Mutex
    BY DEF SerialInit, Mutex
  <1>3. Kept
    <2>1. 0 \in Cells /\ \A c \in Cells : buf[c] = 0 /\ ~(c < 0)
      BY DEF SerialInit, Cells
    <2>2. Shape(buf, 0)
      BY <2>1 DEF Shape
    <2> QED
      BY <2>1, <2>2 DEF SerialInit, Kept
  <1> QED
    BY <1>1, <1>2, <1>3 DEF LinkInv, Copied, OwnBytes, SerialInit

\* What a text's length, bytes and newest byte are.
LEMMA TextIs ==
    ASSUME LinkInv
    PROVE  /\ StrLen(buf) \in Cells /\ Shape(buf, StrLen(buf))
           /\ Len(Text(buf)) = StrLen(buf) /\ Text(buf) \in Seq(1..MaxStream)
           /\ \A i \in 1..StrLen(buf) : Text(buf)[i] = buf[i - 1]
           /\ Range(Text(buf)) = {buf[c] : c \in 0..(StrLen(buf) - 1)}
  <1>1. PICK n \in Cells : Shape(buf, n)
    BY DEF LinkInv, Kept
  <1>2. StrLen(buf) = n
    BY <1>1, StrLenIs
  <1>3. n \in Nat
    BY SerialAssumption DEF Cells
  <1>4. \A i \in 1..n : buf[i - 1] \in 1..MaxStream
    <2> SUFFICES ASSUME NEW i \in 1..n PROVE buf[i - 1] \in 1..MaxStream
      OBVIOUS
    <2>1. i - 1 \in Cells /\ i - 1 < n
      BY SerialAssumption DEF Cells
    <2> QED
      BY <2>1, <1>1, SerialAssumption DEF LinkInv, SerialTypeOK, Shape
  <1>5. Text(buf) = [i \in 1..n |-> buf[i - 1]]
    BY <1>2 DEF Text
  <1>6. Range(Text(buf)) = {buf[c] : c \in 0..(n - 1)}
    <2>1. DOMAIN Text(buf) = 1..n
      BY <1>5
    <2>2. \A i \in 1..n : Text(buf)[i] = buf[i - 1] /\ i - 1 \in 0..(n - 1)
      BY <1>5, <1>3
    <2>3. \A c \in 0..(n - 1) : c + 1 \in 1..n /\ (c + 1) - 1 = c
      BY <1>3
    <2>4. \A c \in 0..(n - 1) : Text(buf)[c + 1] = buf[c]
      BY <2>2, <2>3
    <2> QED
      BY <2>1, <2>2, <2>3, <2>4 DEF Range
  <1> QED
    BY <1>1, <1>2, <1>3, <1>4, <1>5, <1>6

-----------------------------------------------------------------------------
(* Each step keeps the invariant *)

LEMMA ReceiveStep == LinkInv /\ Receive => LinkInv'
  <1> SUFFICES ASSUME LinkInv, Receive PROVE LinkInv'
    OBVIOUS
  <1> USE SerialAssumption
  <1>a. UNCHANGED <<pcR, got, faults, newest, pcW, dfu, overlapped>>
    BY DEF Receive, RecvBegin, RecvLock, RecvCopy, RecvEnd, readVars, writeVars
  <1>b. OwnBytes'
    BY <1>a DEF LinkInv, OwnBytes
  <1>1. CASE RecvBegin
    <2>1. UNCHANGED <<buf, lock, received, at>> /\ pcV = "idle" /\ pcV' = "lock"
      BY <1>1 DEF RecvBegin
    <2>2. size' \in Chunks /\ received + size' <= MaxStream
      BY <1>1 DEF RecvBegin
    <2>3. at = 0 /\ size' \in Nat
      BY <2>1, <2>2 DEF LinkInv, Mutex
    <2>4. SerialTypeOK'
      BY <2>1, <2>2, <2>3, <1>a DEF LinkInv, SerialTypeOK
    <2>5. Mutex'
      BY <2>1, <2>2, <1>a DEF LinkInv, Mutex
    <2>6. Kept' /\ Copied'
      BY <2>1, <1>a DEF LinkInv, Kept, Copied, Shape
    <2> QED
      BY <2>4, <2>5, <2>6, <1>b DEF LinkInv
  <1>2. CASE RecvLock
    <2>1. /\ UNCHANGED <<buf, received, size, at>> /\ pcV = "lock" /\ pcV' = "copy"
          /\ lock = "free" /\ lock' = "recv"
      BY <1>2 DEF RecvLock
    <2>2. SerialTypeOK' /\ Mutex'
      BY <2>1, <1>a DEF LinkInv, SerialTypeOK, Mutex
    <2>3. at = 0
      BY <2>1 DEF LinkInv, Mutex
    <2>4. Kept' /\ Copied'
      BY <2>1, <2>3, <1>a DEF LinkInv, Kept, Copied, Shape
    <2> QED
      BY <2>2, <2>4, <1>b DEF LinkInv
  <1>3. CASE RecvCopy
    <2>1. /\ UNCHANGED <<lock, received, pcV, size>> /\ pcV = "copy" /\ at < size
          /\ buf' = [buf EXCEPT ![at] = received + at + 1] /\ at' = at + 1
      BY <1>3 DEF RecvCopy
    <2>2. /\ size \in 1..(BufLen - 1) /\ received + size <= MaxStream
          /\ size \in Chunks /\ received \in Nat /\ at \in Nat
      BY <2>1 DEF LinkInv, Mutex, SerialTypeOK
    <2>3. at \in Cells /\ received + at + 1 \in 1..MaxStream /\ at + 1 \in Cells
      BY <2>1, <2>2 DEF Cells
    <2>4. buf \in [Cells -> 0..MaxStream] /\ \A c \in Cells : buf[c] <= received + at
      BY DEF LinkInv, SerialTypeOK, Kept
    <2>5. /\ buf'[at] = received + at + 1 /\ buf' \in [Cells -> 0..MaxStream]
          /\ \A c \in Cells : c # at => buf'[c] = buf[c]
      BY <2>1, <2>3, <2>4
    <2>6. SerialTypeOK'
      BY <2>1, <2>2, <2>5, <1>a DEF LinkInv, SerialTypeOK
    <2>7. Mutex'
      BY <2>1, <1>a DEF LinkInv, Mutex
    <2>8. Copied'
      BY <2>1, <1>a DEF LinkInv, Mutex, Copied
    <2>9. \E m \in Cells : Shape(buf', m)
      <3>1. PICK n \in Cells : Shape(buf, n)
        BY DEF LinkInv, Kept
      <3>2. at <= n
        <4> SUFFICES ASSUME n < at PROVE FALSE
          BY <3>1, <2>2 DEF Cells
        <4>1. n \in 0..(at - 1) /\ buf[n] = received + n + 1 /\ n \in Nat
          BY <2>1, <2>2, <3>1 DEF LinkInv, Kept, Cells
        <4> QED
          BY <4>1, <3>1, <2>2 DEF Shape, Cells
      <3>3. CASE at < n
        <4>1. Shape(buf', n)
          BY <3>1, <3>3, <2>3, <2>5 DEF Shape, Cells
        <4> QED
          BY <4>1
      <3>4. CASE at = n
        <4>1. Shape(buf', at + 1)
          BY <3>1, <3>4, <2>3, <2>5 DEF Shape, Cells
        <4> QED
          BY <4>1, <2>3
      <3> QED
        BY <3>2, <3>3, <3>4, <2>2 DEF Cells
    <2>10. \A d \in Cells : buf'[d] <= buf'[at]
      BY <2>2, <2>4, <2>5
    <2>11. \A c \in Cells : buf'[c] <= received' + at' /\ (buf'[c] # 0 => newest' < buf'[c])
      <3>1. newest \in Nat /\ newest <= received /\ newest' = newest
        BY <1>a DEF LinkInv, SerialTypeOK, Kept
      <3>2. received' = received /\ at' = at + 1
        BY <2>1
      <3> SUFFICES ASSUME NEW c \in Cells
                   PROVE  buf'[c] <= received' + at' /\ (buf'[c] # 0 => newest' < buf'[c])
        OBVIOUS
      <3>3. CASE c = at
        BY <3>1, <3>2, <3>3, <2>2, <2>5
      <3>4. CASE c # at
        <4>1. buf'[c] = buf[c] /\ buf[c] \in Nat /\ buf[c] <= received + at
          BY <3>4, <2>4, <2>5
        <4>2. buf[c] # 0 => newest < buf[c]
          BY DEF LinkInv, Kept
        <4> QED
          BY <4>1, <4>2, <3>1, <3>2, <2>2
      <3> QED
        BY <3>3, <3>4
    <2>12. \A c \in 0..(at' - 1) : buf'[c] = received' + c + 1
      <3> SUFFICES ASSUME NEW c \in 0..at PROVE buf'[c] = received + c + 1
        BY <2>1, <2>2
      <3>1. CASE c = at
        BY <3>1, <2>5
      <3>2. CASE c # at
        <4>1. c \in 0..(at - 1) /\ c \in Cells
          BY <3>2, <2>2, <2>3 DEF Cells
        <4> QED
          BY <4>1, <3>2, <2>1, <2>5 DEF LinkInv, Kept
      <3> QED
        BY <3>1, <3>2
    <2>13. newest' <= received'
      BY <2>1, <1>a DEF LinkInv, Kept
    <2>14. Kept'
      BY <2>3, <2>9, <2>10, <2>11, <2>12, <2>13 DEF Kept
    <2> QED
      BY <2>6, <2>7, <2>8, <2>14, <1>b DEF LinkInv
  <1>4. CASE RecvEnd
    <2>1. /\ UNCHANGED buf /\ pcV = "copy" /\ at = size /\ lock' = "free" /\ pcV' = "idle"
          /\ size' = 0 /\ at' = 0 /\ received' = received + size
      BY <1>4 DEF RecvEnd
    <2>2. /\ size \in 1..(BufLen - 1) /\ received + size <= MaxStream /\ received \in Nat
      BY <2>1 DEF LinkInv, Mutex, SerialTypeOK
    <2>3. SerialTypeOK'
      BY <2>1, <2>2, <1>a DEF LinkInv, SerialTypeOK
    <2>4. Mutex' /\ Copied'
      BY <2>1, <1>a DEF LinkInv, Mutex, Copied
    <2>5. received' + at' = received + at /\ received <= received'
      BY <2>1, <2>2
    <2>6. newest' <= received'
      BY <2>5, <2>1, <2>2, <1>a DEF LinkInv, Kept, SerialTypeOK
    <2>7. Kept'
      BY <2>1, <2>5, <2>6, <1>a DEF LinkInv, Kept, Shape
    <2> QED
      BY <2>3, <2>4, <2>7, <1>b DEF LinkInv
  <1> QED
    BY <1>1, <1>2, <1>3, <1>4 DEF Receive

\* The mutex keeps the receiver and the other readers away.
LEMMA Exclusive ==
    ASSUME LinkInv, NEW r \in Readers, lock = r
    PROVE  pcV # "copy" /\ at = 0 /\ \A q \in Readers : q # r => pcR[q] = "idle"
  BY SerialAssumption DEF LinkInv, Mutex

\* What the newest byte is after a read.
LEMMA NewestIs ==
    ASSUME LinkInv, NEW r \in Readers, pcR[r] = "clear",
           NEW m, m = Max({newest} \cup Range(got[r]))
    PROVE  m \in 0..MaxStream /\ m <= received
  <1> USE SerialAssumption
  <1> DEFINE S == {newest} \cup Range(got[r])
             n == StrLen(buf)
  <1>1. n \in Cells /\ Shape(buf, n) /\ Range(got[r]) = {buf[c] : c \in 0..(n - 1)}
    BY TextIs DEF LinkInv, Copied
  <1>2. lock = r /\ at = 0
    BY Exclusive DEF LinkInv, Mutex
  <1>3. newest \in 0..MaxStream /\ newest <= received /\ received \in Nat
    BY DEF LinkInv, SerialTypeOK, Kept
  <1>4. \A c \in 0..(n - 1) : c \in Cells /\ buf[c] \in 0..MaxStream /\ buf[c] <= received
    <2> SUFFICES ASSUME NEW c \in 0..(n - 1)
                 PROVE  c \in Cells /\ buf[c] \in 0..MaxStream /\ buf[c] <= received
      OBVIOUS
    <2>1. c \in Cells
      BY <1>1 DEF Cells
    <2>2. buf[c] \in 0..MaxStream /\ buf[c] <= received + at
      BY <2>1 DEF LinkInv, SerialTypeOK, Kept
    <2> QED
      BY <2>1, <2>2, <1>2, <1>3
  <1>5. \E x \in S : \A y \in S : x >= y
    <2>1. CASE n = 0
      <3>1. S = {newest}
        BY <1>1, <2>1
      <3> QED
        BY <3>1, <1>3
    <2>2. CASE n # 0
      <3>1. PICK c \in Cells : \A d \in Cells : buf[d] <= buf[c]
        BY DEF LinkInv, Kept
      <3>2. 0 \in Cells /\ 0 < n
        BY <1>1, <2>2 DEF Cells
      <3>3. buf[0] # 0 /\ buf[0] <= buf[c] /\ buf[0] \in Nat /\ buf[c] \in Nat
        BY <3>1, <3>2, <1>1 DEF Shape, LinkInv, SerialTypeOK
      <3>4. buf[c] # 0
        BY <3>3
      <3>5. c \in 0..(n - 1)
        BY <3>4, <1>1 DEF Shape, Cells
      <3>6. newest < buf[c]
        BY <3>4 DEF LinkInv, Kept
      <3>7. \A y \in Range(got[r]) : buf[c] >= y
        BY <1>1, <1>4, <3>1, <3>3
      <3>8. buf[c] \in S /\ \A y \in S : buf[c] >= y
        BY <3>5, <3>6, <3>7, <1>1, <1>3, <3>3
      <3> QED
        BY <3>8
    <2> QED
      BY <2>1, <2>2
  <1>6. m \in S
    BY <1>5 DEF Max
  <1> QED
    BY <1>6, <1>1, <1>3, <1>4

LEMMA ReadStep ==
    ASSUME LinkInv, NEW r \in Readers, Read(r)
    PROVE  LinkInv'
  <1> USE SerialAssumption
  <1>a. UNCHANGED <<received, pcV, size, at, pcW, dfu, overlapped>>
    BY DEF Read, ReadLock, ReadCopy, ReadFault, ReadClear, recvVars, writeVars
  <1>b. OwnBytes'
    BY <1>a DEF LinkInv, OwnBytes
  <1>c. pcR \in [Readers -> {"idle", "copy", "clear"}] /\ got \in [Readers -> Seq(1..MaxStream)]
    BY DEF LinkInv, SerialTypeOK
  <1>1. CASE ReadLock(r)
    <2>1. /\ UNCHANGED <<buf, got, faults, newest>> /\ lock = "free" /\ lock' = r
          /\ pcR' = [pcR EXCEPT ![r] = "copy"]
      BY <1>1 DEF ReadLock
    <2>2. SerialTypeOK'
      BY <2>1, <1>a DEF LinkInv, SerialTypeOK
    <2>3. pcV # "copy" /\ r # "recv" /\ \A q \in Readers : pcR[q] = "idle"
      BY <2>1 DEF LinkInv, Mutex
    <2>4. Mutex'
      BY <2>1, <2>3, <1>a, <1>c DEF LinkInv, Mutex
    <2>5. Kept' /\ Copied'
      BY <2>1, <2>3, <1>a, <1>c DEF LinkInv, Kept, Copied, Shape
    <2> QED
      BY <2>2, <2>4, <2>5, <1>b DEF LinkInv
  <1>2. CASE ReadCopy(r)
    <2>1. /\ UNCHANGED <<buf, lock, faults, newest>> /\ pcR[r] = "copy"
          /\ got' = [got EXCEPT ![r] = Text(buf)]
          /\ pcR' = [pcR EXCEPT ![r] = "clear"]
      BY <1>2 DEF ReadCopy
    <2>2. SerialTypeOK'
      BY <2>1, <1>a, <1>c, TextIs DEF LinkInv, SerialTypeOK
    <2>3. Mutex'
      BY <2>1, <1>a, <1>c DEF LinkInv, Mutex
    <2>4. Kept'
      BY <2>1, <1>a DEF LinkInv, Kept, Shape
    <2>5. Copied'
      <3>a. Text(buf)' = Text(buf)
        BY <2>1 DEF Text, StrLen
      <3> SUFFICES ASSUME NEW q \in Readers, pcR'[q] = "clear" PROVE got'[q] = Text(buf)
        BY <3>a DEF Copied
      <3>1. CASE q = r
        BY <3>1, <2>1, <1>c
      <3>2. CASE q # r
        BY <3>2, <2>1, <1>c DEF LinkInv, Copied
      <3> QED
        BY <3>1, <3>2
    <2> QED
      BY <2>2, <2>3, <2>4, <2>5, <1>b DEF LinkInv
  <1>3. CASE ReadFault(r)
    <2>1. /\ UNCHANGED <<buf, newest>> /\ pcR[r] = "copy" /\ lock' = "free"
          /\ faults < MaxFaults /\ faults' = faults + 1
          /\ got' = [got EXCEPT ![r] = <<>>]
          /\ pcR' = [pcR EXCEPT ![r] = "idle"]
      BY <1>3 DEF ReadFault
    <2>2. SerialTypeOK'
      BY <2>1, <1>a, <1>c DEF LinkInv, SerialTypeOK
    <2>3. lock = r
      BY <2>1 DEF LinkInv, Mutex
    <2>4. pcV # "copy" /\ \A q \in Readers : q # r => pcR[q] = "idle"
      BY <2>3, Exclusive
    <2>5. \A q \in Readers : pcR'[q] = "idle"
      BY <2>1, <2>4, <1>c
    <2>6. Mutex'
      BY <2>1, <2>4, <2>5, <1>a DEF LinkInv, Mutex
    <2>7. Kept' /\ Copied'
      BY <2>1, <2>5, <1>a DEF LinkInv, Kept, Copied, Shape
    <2> QED
      BY <2>2, <2>6, <2>7, <1>b DEF LinkInv
  <1>4. CASE ReadClear(r)
    <2>1. /\ UNCHANGED <<got, faults>> /\ pcR[r] = "clear" /\ lock' = "free"
          /\ buf' = [c \in Cells |-> IF c < StrLen(buf) THEN 0 ELSE buf[c]]
          /\ newest' = Max({newest} \cup Range(got[r]))
          /\ pcR' = [pcR EXCEPT ![r] = "idle"]
      BY <1>4 DEF ReadClear
    <2>2. newest' \in 0..MaxStream /\ newest' <= received
      BY <2>1, NewestIs
    <2>3. lock = r
      BY <2>1 DEF LinkInv, Mutex
    <2>4. pcV # "copy" /\ at = 0 /\ \A q \in Readers : q # r => pcR[q] = "idle"
      BY <2>3, Exclusive
    <2>5. \A q \in Readers : pcR'[q] = "idle"
      BY <2>1, <2>4, <1>c
    <2>6. 0 \in Cells /\ \A c \in Cells : buf'[c] = 0 /\ ~(c < 0)
      BY <2>1, TextIs DEF Shape, Cells
    <2>7. SerialTypeOK'
      BY <2>1, <2>2, <1>a, <1>c DEF LinkInv, SerialTypeOK
    <2>8. Mutex'
      BY <2>1, <2>4, <2>5, <1>a DEF LinkInv, Mutex
    <2>9. Shape(buf', 0)
      BY <2>6 DEF Shape
    <2>10. received' + at' >= 0
      BY <1>a, <2>4 DEF LinkInv, SerialTypeOK
    <2>11. Kept'
      BY <2>2, <2>4, <2>6, <2>9, <2>10, <1>a DEF Kept
    <2>12. Copied'
      BY <2>5 DEF Copied
    <2> QED
      BY <2>7, <2>8, <2>11, <2>12, <1>b DEF LinkInv
  <1> QED
    BY <1>1, <1>2, <1>3, <1>4 DEF Read

LEMMA WriteStep ==
    ASSUME LinkInv, NEW w \in Writers, Write(w)
    PROVE  LinkInv'
  <1>1. UNCHANGED <<buf, lock, received, pcV, size, at, pcR, got, faults, newest>>
    BY DEF Write, WriteBegin, WriteFirst, WriteSecond, WriteSend, WriteFault, recvVars, readVars
  <1>2. /\ pcW \in [Writers -> {"idle", "first", "second", "send"}]
        /\ dfu \in [1..2 -> Writers \cup {NoWriter}] /\ overlapped \in [Writers -> BOOLEAN]
    BY DEF LinkInv, SerialTypeOK
  <1>3. Disturb(w) \in [Writers -> BOOLEAN]
    BY DEF Disturb
  <1>4. /\ pcW' \in [Writers -> {"idle", "first", "second", "send"}]
        /\ dfu' \in [1..2 -> Writers \cup {NoWriter}] /\ overlapped' \in [Writers -> BOOLEAN]
    BY <1>2, <1>3 DEF Write, WriteBegin, WriteFirst, WriteSecond, WriteSend, WriteFault
  <1>5. SerialTypeOK'
    BY <1>1, <1>4 DEF LinkInv, SerialTypeOK
  <1>6. Mutex' /\ Kept' /\ Copied'
    BY <1>1 DEF LinkInv, Mutex, Kept, Copied, Shape, Text, StrLen
  <1>7. ASSUME NEW v \in Writers, ~overlapped'[v]
        PROVE  /\ pcW'[v] = "second" => dfu'[1] = v
               /\ pcW'[v] = "send" => dfu'[1] = v /\ dfu'[2] = v
    <2>1. CASE v = w
      BY <2>1, <1>2, <1>7 DEF LinkInv, OwnBytes, Disturb, Write, WriteBegin, WriteFirst,
                               WriteSecond, WriteSend, WriteFault
    <2>2. CASE v # w
      <3>1. pcW'[v] = pcW[v]
        BY <2>2, <1>2 DEF Write, WriteBegin, WriteFirst, WriteSecond, WriteSend, WriteFault
      <3>2. CASE dfu' = dfu
        <4>1. ~overlapped[v]
          BY <1>7, <2>2, <1>2
             DEF Write, WriteBegin, WriteFirst, WriteSecond, WriteSend, WriteFault, Disturb
        <4> QED
          BY <4>1, <3>1, <3>2 DEF LinkInv, OwnBytes
      <3>3. CASE overlapped' = Disturb(w)
        <4>1. pcW[v] = "idle"
          BY <3>3, <1>7, <2>2 DEF Disturb
        <4> QED
          BY <4>1, <3>1
      <3> QED
        BY <3>2, <3>3 DEF Write, WriteBegin, WriteFirst, WriteSecond, WriteSend, WriteFault
    <2> QED
      BY <2>1, <2>2
  <1> QED
    BY <1>5, <1>6, <1>7 DEF LinkInv, OwnBytes

LEMMA LinkUnchanged == LinkInv /\ UNCHANGED serialVars => LinkInv'
  <1> SUFFICES ASSUME LinkInv, UNCHANGED serialVars PROVE LinkInv'
    OBVIOUS
  <1> USE DEF serialVars, recvVars, readVars, writeVars, LinkInv
  <1>1. SerialTypeOK' /\ Mutex' /\ OwnBytes'
    BY DEF SerialTypeOK, Mutex, OwnBytes
  <1>2. Kept'
    BY DEF Kept, Shape
  <1>3. Text(buf)' = Text(buf)
    BY DEF Text, StrLen
  <1>4. Copied'
    BY <1>3 DEF Copied
  <1> QED
    BY <1>1, <1>2, <1>4

LEMMA LinkInvariant == SerialSpec => []LinkInv
  <1>1. LinkInv /\ [SerialNext]_serialVars => LinkInv'
    BY LinkUnchanged, ReceiveStep, ReadStep, WriteStep DEF SerialNext
  <1> QED
    BY LinkInit, <1>1, PTL DEF SerialSpec

-----------------------------------------------------------------------------
(* What the driver promises *)

\* The types of its state, in every reachable state.
THEOREM SerialTypeCorrect == SerialSpec => []SerialTypeOK
  BY LinkInvariant, PTL DEF LinkInv

\* However chunks shorter than the buffer, reads and failed copies follow each other, what
\* bluetoothtopc holds is a text in one piece with a NUL behind it inside the buffer.
THEOREM TextStaysInOnePiece == SerialSpec => []TextInOnePiece
  <1>1. LinkInv => TextInOnePiece
    BY DEF LinkInv, Kept, Shape, TextInOnePiece
  <1> QED
    BY LinkInvariant, <1>1, PTL

\* With any number of readers, failed copies and chunks in between: what a read has copied
\* is newer than all that was read before.
THEOREM ReadsAlwaysAdvance == SerialSpec => []ReadsAdvance
  <1>1. LinkInv => ReadsAdvance
    <2> SUFFICES ASSUME LinkInv, NEW r \in Readers, pcR[r] = "clear", NEW b \in Range(got[r])
                 PROVE  b > newest
      BY DEF ReadsAdvance
    <2>1. got[r] = Text(buf)
      BY DEF LinkInv, Copied
    <2>2. PICK c \in 0..(StrLen(buf) - 1) : b = buf[c]
      BY <2>1, TextIs
    <2>3. c \in Cells /\ c < StrLen(buf)
      BY TextIs, SerialAssumption DEF Cells
    <2>4. buf[c] # 0 /\ buf[c] \in Nat /\ newest \in Nat
      BY <2>3, TextIs DEF Shape, LinkInv, SerialTypeOK
    <2> QED
      BY <2>2, <2>3, <2>4 DEF LinkInv, Kept
  <1> QED
    BY LinkInvariant, <1>1, PTL

\* A write that no other overlaps sends what its caller passed.
THEOREM WritesAreFaithful == SerialSpec => []WriteFaithful
  <1>1. LinkInv => WriteFaithful
    <2> SUFFICES ASSUME LinkInv, NEW w \in Writers, pcW[w] = "send", ~overlapped[w]
                 PROVE  dfu = <<w, w>>
      BY DEF WriteFaithful
    <2>1. dfu \in [1..2 -> Writers \cup {NoWriter}] /\ dfu[1] = w /\ dfu[2] = w
      BY DEF LinkInv, SerialTypeOK, OwnBytes
    <2> QED
      BY <2>1
  <1> QED
    BY LinkInvariant, <1>1, PTL

-----------------------------------------------------------------------------
(* The mailbox *)

mailVars == <<Readable, HandedOver, got>>

LEMMA MailboxInit == SerialInit => Mailbox!Init
  <1> SUFFICES ASSUME SerialInit PROVE Mailbox!Init
    OBVIOUS
  <1>1. 0 \in Cells /\ Shape(buf, 0)
    BY SerialAssumption DEF SerialInit, Shape, Cells
  <1>2. StrLen(buf) = 0
    BY <1>1, StrLenIs
  <1>3. Text(buf) = <<>>
    BY <1>2 DEF Text
  <1>4. Readable = <<>> /\ HandedOver = 0
    BY <1>3 DEF SerialInit, Readable, Arrived, HandedOver
  <1> QED
    BY <1>4 DEF SerialInit, Mailbox!Init

\* The receiver's steps that a reader cannot tell.
LEMMA ReceiverStutters ==
    ASSUME LinkInv, RecvBegin \/ RecvCopy \/ RecvEnd
    PROVE  UNCHANGED mailVars
  <1> USE SerialAssumption
  <1>1. UNCHANGED <<pcR, got>>
    BY DEF RecvBegin, RecvCopy, RecvEnd, readVars
  <1>2. Arrived' = Arrived /\ HandedOver' = HandedOver
    <2>1. CASE RecvBegin
      BY <2>1 DEF RecvBegin, Arrived, HandedOver
    <2>2. CASE RecvCopy
      <3>1. /\ UNCHANGED <<received, pcV, size>> /\ pcV = "copy" /\ at < size
            /\ buf' = [buf EXCEPT ![at] = received + at + 1]
        BY <2>2 DEF RecvCopy
      <3>2. \A c \in Cells : ~(c < size) => buf'[c] = buf[c]
        BY <3>1 DEF LinkInv, SerialTypeOK
      <3> QED
        BY <3>1, <3>2 DEF Arrived, HandedOver
    <2>3. CASE RecvEnd
      <3>1. /\ UNCHANGED buf /\ pcV = "copy" /\ at = size /\ pcV' = "idle"
            /\ received' = received + size
        BY <2>3 DEF RecvEnd
      <3>2. \A c \in Cells : c < size => buf[c] = received + c + 1
        BY <3>1 DEF LinkInv, Kept, SerialTypeOK, Cells
      <3>3. buf = [c \in Cells |-> buf[c]]
        BY DEF LinkInv, SerialTypeOK
      <3>4. buf = [c \in Cells |-> IF c < size THEN received + c + 1 ELSE buf[c]]
        BY <3>2, <3>3
      <3> QED
        BY <3>1, <3>4 DEF Arrived, HandedOver
    <2> QED
      BY <2>1, <2>2, <2>3
  <1>3. Text(Arrived)' = Text(Arrived)
    BY <1>2 DEF Text, StrLen
  <1> QED
    BY <1>1, <1>2, <1>3 DEF mailVars, Readable

\* The mutex makes the chunk arrive as a whole.
LEMMA ChunkIsPut ==
    ASSUME LinkInv, RecvLock
    PROVE  \E n \in Chunks : Mailbox!Put(n)
  <1> USE SerialAssumption
  <1>1. /\ pcV = "lock" /\ pcV' = "copy" /\ lock = "free"
        /\ UNCHANGED <<buf, received, size, at, pcR, got>>
    BY DEF RecvLock, readVars
  <1>2. /\ size \in Chunks /\ size \in 1..(BufLen - 1) /\ received + size <= MaxStream
        /\ received \in Nat
    BY <1>1 DEF LinkInv, Mutex, SerialTypeOK
  <1>3. \A r \in Readers : pcR[r] # "clear"
    BY <1>1 DEF LinkInv, Mutex
  <1>4. Readable = Text(buf) /\ Readable' = Text(Arrived') /\ HandedOver = received
        /\ HandedOver' = received + size
    BY <1>1, <1>3 DEF Readable, Arrived, HandedOver, Text, StrLen
  <1> DEFINE n == StrLen(buf)
             m == IF size > n THEN size ELSE n
             chunk == [c \in Cells |-> IF c < size THEN received + c + 1 ELSE buf[c]]
  <1>5. n \in Cells /\ Shape(buf, n) /\ Len(Text(buf)) = n
        /\ \A i \in 1..n : Text(buf)[i] = buf[i - 1]
    BY TextIs
  <1>6. Arrived' = chunk
    BY <1>1 DEF Arrived
  <1>7. m \in Cells /\ Shape(chunk, m)
    <2>1. m \in Cells
      BY <1>2, <1>5 DEF Cells
    <2>2. \A c \in Cells : chunk[c] # 0 <=> c < m
      BY <1>2, <1>5 DEF Shape, Cells
    <2> QED
      BY <2>1, <2>2 DEF Shape
  <1>8. StrLen(chunk) = m
    BY <1>7, StrLenIs
  <1>9. Text(chunk) = [i \in 1..m |-> chunk[i - 1]]
    BY <1>8 DEF Text
  <1>10. \A i \in 1..m : chunk[i - 1] = IF i <= size THEN received + i ELSE Text(buf)[i]
    <2> SUFFICES ASSUME NEW i \in 1..m
                 PROVE  chunk[i - 1] = IF i <= size THEN received + i ELSE Text(buf)[i]
      OBVIOUS
    <2>1. i \in Nat /\ i - 1 \in Cells /\ (i - 1 < size <=> i <= size)
      BY <1>2, <1>7 DEF Cells
    <2>2. CASE i <= size
      BY <2>1, <2>2, <1>2
    <2>3. CASE ~(i <= size)
      <3>1. i \in 1..n
        BY <2>1, <2>3, <1>2, <1>5 DEF Cells
      <3> QED
        BY <3>1, <2>1, <2>3, <1>5
    <2> QED
      BY <2>2, <2>3
  <1>11. Text(chunk) = [i \in 1..m |-> IF i <= size THEN received + i ELSE Text(buf)[i]]
    BY <1>9, <1>10
  <1>12. Text(chunk) = Mailbox!Overlaid(Text(buf), received, size)
    BY <1>11, <1>5 DEF Mailbox!Overlaid
  <1>13. Readable' = Mailbox!Overlaid(Readable, HandedOver, size)
    BY <1>4, <1>6, <1>12
  <1>14. Mailbox!Put(size)
    BY <1>1, <1>2, <1>4, <1>13 DEF Mailbox!Put
  <1> QED
    BY <1>2, <1>14

\* A reader with the mutex copies the text as it is, and then clears just that.
LEMMA ReadIsTake ==
    ASSUME LinkInv, NEW r \in Readers, Read(r)
    PROVE  Mailbox!Take(r) \/ Mailbox!Fail(r) \/ UNCHANGED mailVars
  <1> USE SerialAssumption
  <1>1. UNCHANGED <<received, pcV, size>>
    BY DEF Read, ReadLock, ReadCopy, ReadFault, ReadClear, recvVars
  <1>2. HandedOver' = HandedOver
    BY <1>1 DEF HandedOver
  <1>3. pcR \in [Readers -> {"idle", "copy", "clear"}] /\ got \in [Readers -> Seq(1..MaxStream)]
    BY DEF LinkInv, SerialTypeOK
  <1>4. CASE ReadLock(r)
    <2>1. UNCHANGED <<buf, got>> /\ pcR[r] = "idle" /\ pcR' = [pcR EXCEPT ![r] = "copy"]
      BY <1>4 DEF ReadLock
    <2>2. (\E q \in Readers : pcR'[q] = "clear") <=> \E q \in Readers : pcR[q] = "clear"
      BY <2>1, <1>3
    <2>3. Text(Arrived)' = Text(Arrived)
      BY <2>1, <1>1 DEF Arrived, Text, StrLen
    <2> QED
      BY <2>1, <2>2, <2>3, <1>2 DEF mailVars, Readable
  <1>5. ASSUME lock = r
        PROVE  pcV # "copy" /\ Arrived = buf /\ \A q \in Readers : q # r => pcR[q] # "clear"
    BY <1>5, Exclusive DEF Arrived
  <1>6. CASE ReadCopy(r)
    <2>1. /\ UNCHANGED buf /\ pcR[r] = "copy" /\ pcR' = [pcR EXCEPT ![r] = "clear"]
          /\ got' = [got EXCEPT ![r] = Text(buf)]
      BY <1>6 DEF ReadCopy
    <2>2. lock = r
      BY <2>1 DEF LinkInv, Mutex
    <2>3. Readable = Text(buf)
      BY <2>1, <2>2, <1>5 DEF Readable
    <2>4. Readable' = <<>>
      BY <2>1, <1>3 DEF Readable
    <2>5. got' = [got EXCEPT ![r] = Readable]
      BY <2>1, <2>3
    <2> QED
      BY <2>4, <2>5, <1>2 DEF Mailbox!Take
  <1>7. CASE ReadFault(r)
    <2>1. /\ UNCHANGED buf /\ pcR[r] = "copy" /\ pcR' = [pcR EXCEPT ![r] = "idle"]
          /\ got' = [got EXCEPT ![r] = <<>>]
      BY <1>7 DEF ReadFault
    <2>2. (\E q \in Readers : pcR'[q] = "clear") <=> \E q \in Readers : pcR[q] = "clear"
      BY <2>1, <1>3
    <2>3. Text(Arrived)' = Text(Arrived)
      BY <2>1, <1>1 DEF Arrived, Text, StrLen
    <2>4. Readable' = Readable
      BY <2>2, <2>3 DEF Readable
    <2> QED
      BY <2>1, <2>4, <1>2 DEF Mailbox!Fail
  <1>8. CASE ReadClear(r)
    <2>1. /\ UNCHANGED got /\ pcR[r] = "clear" /\ pcR' = [pcR EXCEPT ![r] = "idle"]
          /\ buf' = [c \in Cells |-> IF c < StrLen(buf) THEN 0 ELSE buf[c]]
      BY <1>8 DEF ReadClear
    <2>2. lock = r
      BY <2>1 DEF LinkInv, Mutex
    <2>3. \A q \in Readers : pcR'[q] # "clear"
      BY <2>1, <2>2, <1>3, <1>5
    <2>4. Readable = <<>> /\ Readable' = Text(Arrived')
      BY <2>1, <2>3 DEF Readable, Text, StrLen
    <2>5. Arrived' = buf'
      BY <2>2, <1>1, <1>5 DEF Arrived
    <2>6. 0 \in Cells /\ Shape(buf', 0)
      BY <2>1, TextIs DEF Shape, Cells
    <2>7. StrLen(buf') = 0
      BY <2>6, StrLenIs
    <2>8. Text(buf') = <<>>
      BY <2>7 DEF Text
    <2> QED
      BY <2>1, <2>4, <2>5, <2>8, <1>2 DEF mailVars
  <1> QED
    BY <1>4, <1>6, <1>7, <1>8 DEF Read

LEMMA LeftAlone ==
    ASSUME UNCHANGED <<buf, received, pcV, size, pcR, got>>
    PROVE  UNCHANGED mailVars
  <1>1. Text(Arrived)' = Text(Arrived)
    BY DEF Arrived, Text, StrLen
  <1> QED
    BY <1>1 DEF mailVars, Readable, HandedOver

\* Chunks that arrive byte by byte and reads that copy and clear in two steps are those of
\* a mailbox where both are atomic, for any buffer, chunks and tasks.
THEOREM MailboxImplemented == SerialSpec => ImplementsMailbox
  <1>1. LinkInv /\ [SerialNext]_serialVars => [Mailbox!Next]_mailVars
    <2> SUFFICES ASSUME LinkInv, [SerialNext]_serialVars PROVE [Mailbox!Next]_mailVars
      OBVIOUS
    <2>1. CASE Receive
      BY <2>1, ReceiverStutters, ChunkIsPut DEF Receive, Mailbox!Next
    <2>2. CASE \E r \in Readers : Read(r)
      BY <2>2, ReadIsTake DEF Mailbox!Next
    <2>3. ASSUME NEW w \in Writers, Write(w) PROVE UNCHANGED mailVars
      <3>1. UNCHANGED <<buf, received, pcV, size, pcR, got>>
        BY <2>3 DEF Write, WriteBegin, WriteFirst, WriteSecond, WriteSend, WriteFault,
                    recvVars, readVars
      <3> QED
        BY <3>1, LeftAlone
    <2>4. CASE UNCHANGED serialVars
      BY <2>4, LeftAlone DEF serialVars, recvVars, readVars
    <2> QED
      BY <2>1, <2>2, <2>3, <2>4 DEF SerialNext
  <1> QED
    BY MailboxInit, LinkInvariant, <1>1, PTL DEF SerialSpec, ImplementsMailbox, Mailbox!Spec, mailVars
=============================================================================
