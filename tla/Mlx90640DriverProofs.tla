----------------------- MODULE Mlx90640DriverProofs -----------------------
(***************************************************************************)
(* Proofs about Mlx90640Driver for any frame length, block size, number of *)
(* programs and bounds.                                                    *)
(***************************************************************************)
EXTENDS Mlx90640Driver, SequenceTheorems, TLAPS

\* The block index after one turn of the block loop is past the block's start, at most
\* one block beyond the frame, and no word between is skipped.
LEMMA NextBlockBounds ==
    ASSUME NEW i \in 0..(Words - 1)
    PROVE  /\ NextBlock(i) \in 0..(Words + Stride - 1)
           /\ NextBlock(i) <= i + Stride
           /\ NextBlock(i) > i
  BY ConstantsAssumption, SMT DEF NextBlock

\* Every variable keeps its type whatever the threads, the program and rmmod do.
THEOREM TypeCorrect == Spec => []TypeOK
<1>1. Init => TypeOK
  <2> SUFFICES ASSUME Init PROVE TypeOK
    OBVIOUS
  <2> USE DEF Init
  <2>1. 0 \in 0..MaxMeas /\ 0 \in StatusWord
    BY ConstantsAssumption, SMT DEF StatusWord
  <2>2. raw \in StatusWord
    BY DEF StatusWord
  <2>3. blk \in 0..(Words + Stride - 1) /\ 0 \in 0..Words /\ 0 \in 0..MaxFail
    BY ConstantsAssumption, SMT
  <2>4. sigq \in [Apps -> Seq(Signal)] /\ \A a \in Apps : Len(sigq[a]) <= MaxQueue
    BY ConstantsAssumption, SMT
  <2>5. cur \in [Apps -> Signal]
    BY <2>1 DEF Signal, NoSignal
  <2> QED
    BY <2>1, <2>2, <2>3, <2>4, <2>5 DEF TypeOK, DriverTypeOK, AppTypeOK
<1>2. TypeOK /\ [Next]_vars => TypeOK'
  <2> SUFFICES ASSUME TypeOK, [Next]_vars PROVE TypeOK'
    OBVIOUS
  <2> USE ConstantsAssumption
      DEF TypeOK, sensorVars, getVars, waitVars, exitVars, appVars
  <2>1. CASE Measure
    <3>1. meas' \in 0..MaxMeas
      BY <2>1, SMT DEF Measure, DriverTypeOK
    <3> QED BY <2>1, <3>1 DEF Measure, DriverTypeOK, AppTypeOK
  <2>2. CASE GetThread
    <3>1. AppTypeOK'
      BY <2>2 DEF GetThread, GTop, GLock, GRead, GPublish, GRaise, AppTypeOK
    <3>2. CASE GTop
      BY <3>1, <3>2 DEF GTop, DriverTypeOK
    <3>3. CASE GLock
      BY <3>1, <3>3 DEF GLock, DriverTypeOK
    <3>4. CASE GRead
      <4>1. raw' \in StatusWord
        BY <3>4 DEF GRead, DriverTypeOK, StatusWord
      <4>2. fails' \in 0..MaxFail
        BY <3>4, SMT DEF GRead, I2cFails, DriverTypeOK
      <4> QED BY <3>1, <3>4, <4>1, <4>2 DEF GRead, DriverTypeOK
    <3>5. CASE GPublish
      BY <3>1, <3>5 DEF GPublish, DriverTypeOK
    <3>6. CASE GRaise
      BY <3>1, <3>6 DEF GRaise, DriverTypeOK
    <3> QED BY <2>2, <3>2, <3>3, <3>4, <3>5, <3>6 DEF GetThread
  <2>3. CASE WaitThread
    <3>1. CASE WSignal
      <4>1. ASSUME NEW a \in Apps
            PROVE  sigq'[a] \in Seq(Signal) /\ Len(sigq'[a]) <= MaxQueue
        <5>1. [status |-> param, whole |-> ~broke] \in Signal
          BY DEF DriverTypeOK, Signal
        <5>2. sigq[a] \in Seq(Signal) /\ Len(sigq[a]) \in Nat /\ Len(sigq[a]) <= MaxQueue
          BY DEF AppTypeOK
        <5>3. \/ sigq'[a] = sigq[a]
              \/ /\ Len(sigq[a]) < MaxQueue
                 /\ sigq'[a] = Append(sigq[a], [status |-> param, whole |-> ~broke])
          BY <3>1 DEF WSignal
        <5>4. LET new == Append(sigq[a], [status |-> param, whole |-> ~broke])
              IN  new \in Seq(Signal) /\ Len(new) = Len(sigq[a]) + 1
          BY <5>1, <5>2, AppendProperties
        <5>5. MaxQueue \in Nat
          OBVIOUS
        <5>6. CASE sigq'[a] = sigq[a]
          BY <5>2, <5>6
        <5>7. CASE sigq'[a] = Append(sigq[a], [status |-> param, whole |-> ~broke])
                   /\ Len(sigq[a]) < MaxQueue
          BY <5>2, <5>4, <5>5, <5>7
        <5> QED BY <5>3, <5>6, <5>7
      <4>2. sigq' \in [Apps -> Seq(Signal)]
        <5>1. sigq' = [a \in Apps |-> sigq'[a]]
          BY <3>1 DEF WSignal
        <5> QED BY <4>1, <5>1
      <4>3. AppTypeOK'
        BY <3>1, <4>1, <4>2 DEF WSignal, AppTypeOK
      <4> QED BY <3>1, <4>3 DEF WSignal, DriverTypeOK
    <3>2. ~WSignal => AppTypeOK'
      BY <2>3 DEF WaitThread, WTop, WWake, WLock, WBlock, WBlockFails, WBlocksDone, WReset,
         AppTypeOK
    <3>3. CASE WTop \/ WWake \/ WBlocksDone \/ WReset
      <4>0. AppTypeOK'
        BY <3>1, <3>2, <3>3 DEF WTop, WWake, WBlocksDone, WReset, WSignal
      <4>1. CASE WTop
        BY <4>0, <4>1 DEF WTop, DriverTypeOK
      <4>2. CASE WWake
        BY <4>0, <4>2 DEF WWake, DriverTypeOK
      <4>3. CASE WBlocksDone
        BY <4>0, <4>3 DEF WBlocksDone, DriverTypeOK
      <4>4. CASE WReset
        BY <4>0, <4>4 DEF WReset, DriverTypeOK
      <4> QED BY <3>3, <4>1, <4>2, <4>3, <4>4
    <3>4. CASE WLock
      <4>1. blk' \in 0..(Words + Stride - 1)
        BY <3>4, SMT DEF WLock
      <4>2. DriverTypeOK'
        BY <3>4, <4>1 DEF WLock, DriverTypeOK
      <4> QED BY <3>1, <3>2, <4>2
    <3>5. CASE WBlock
      <4>1. frame' \in [Page -> 0..MaxMeas]
        BY <3>5 DEF WBlock, DriverTypeOK
      <4>2. blk' \in 0..(Words + Stride - 1)
        BY <3>5, NextBlockBounds, SMT DEF WBlock, DriverTypeOK
      <4>3. DriverTypeOK'
        BY <3>5, <4>1, <4>2 DEF WBlock, DriverTypeOK
      <4> QED BY <3>1, <3>2, <4>3
    <3>6. CASE WBlockFails
      <4>1. fails' \in 0..MaxFail
        BY <3>6, SMT DEF WBlockFails, I2cFails, DriverTypeOK
      <4>2. DriverTypeOK'
        BY <3>6, <4>1 DEF WBlockFails, DriverTypeOK
      <4> QED BY <3>1, <3>2, <4>2
    <3> QED BY <2>3, <3>1, <3>3, <3>4, <3>5, <3>6 DEF WaitThread
  <2>4. ASSUME NEW a \in Apps, AppRuns(a) \/ AKilled(a) PROVE TypeOK'
    <3>1. DriverTypeOK'
      BY <2>4 DEF AppRuns, AOpen, ARegister, AHandle, ACopy, AReturn, AKilled, DriverTypeOK
    <3> USE DEF AppTypeOK
    <3>2. CASE AOpen(a) \/ ARegister(a) \/ AReturn(a)
      BY <3>1, <3>2 DEF AOpen, ARegister, AReturn
    <3>3. CASE AHandle(a)
      <4>1. /\ Head(sigq[a]) \in Signal /\ Tail(sigq[a]) \in Seq(Signal)
            /\ Len(Tail(sigq[a])) <= MaxQueue
        <5>1. sigq[a] \in Seq(Signal) /\ sigq[a] # <<>> /\ Len(sigq[a]) <= MaxQueue
          BY <3>3 DEF AHandle
        <5> QED BY <5>1, HeadTailProperties, SMT
      <4>2. cur' \in [Apps -> Signal] /\ sigq' \in [Apps -> Seq(Signal)]
        BY <3>3, <4>1 DEF AHandle
      <4>3. \A b \in Apps : Len(sigq'[b]) <= MaxQueue
        BY <3>3, <4>1 DEF AHandle
      <4>4. copied' \in [Apps -> 0..Words]
        <5>1. 0 \in 0..Words
          BY SMT
        <5> QED BY <3>3, <5>1 DEF AHandle
      <4> QED BY <3>1, <3>3, <4>2, <4>3, <4>4 DEF AHandle
    <3>4. CASE ACopy(a)
      <4>1. copied[a] \in 0..(Words - 1) /\ copied[a] + 1 \in 0..Words
        BY <3>4, SMT DEF ACopy
      <4>2. frame[copied[a]] \in 0..MaxMeas
        <5>1. copied[a] \in Page
          BY <4>1, SMT DEF Page
        <5> QED BY <5>1 DEF DriverTypeOK
      <4>3. rawData' \in [Apps -> [0..(Words - 1) -> 0..MaxMeas]]
        BY <3>4, <4>1, <4>2 DEF ACopy
      <4>4. copied' \in [Apps -> 0..Words]
        BY <3>4, <4>1 DEF ACopy
      <4> QED BY <3>1, <3>4, <4>3, <4>4 DEF ACopy
    <3>5. CASE AKilled(a)
      <4>1. <<>> \in Seq(Signal) /\ Len(<<>>) <= MaxQueue
        BY SMT
      <4> QED BY <3>1, <3>5, <4>1 DEF AKilled
    <3> QED BY <2>4, <3>2, <3>3, <3>4, <3>5 DEF AppRuns
  <2>5. CASE Exit
    <3>1. AppTypeOK'
      BY <2>5 DEF Exit, XBegin, XReadStopped, XNewStopped, AppTypeOK
    <3>2. CASE XBegin
      BY <3>1, <3>2 DEF XBegin, DriverTypeOK
    <3>3. CASE XReadStopped
      BY <3>1, <3>3 DEF XReadStopped, DriverTypeOK
    <3>4. CASE XNewStopped
      BY <3>1, <3>4 DEF XNewStopped, DriverTypeOK
    <3> QED BY <2>5, <3>2, <3>3, <3>4 DEF Exit
  <2>6. CASE UNCHANGED vars
    BY <2>6 DEF vars, DriverTypeOK, AppTypeOK
  <2> QED BY <2>1, <2>2, <2>3, <2>4, <2>5, <2>6 DEF Next
<1> QED BY <1>1, <1>2, PTL DEF Spec

-----------------------------------------------------------------------------
(* The invariant behind NoLostFrame, StatusNotNewerThanFrame and             *)
(* CopyNotOlderThanSignal.  Its core: while new_frame holds the mutex, raw   *)
(* cannot change, and the words already read are not older than it.          *)

\* The mutex is held exactly between the lock and unlock of either thread.
MutexHeld ==
    /\ lock = "wait" <=> pcW \in {"block", "signal", "reset"}
    /\ lock = "get" <=> pcG = "read"

\* Only new_frame drops the flag, so it stays up from the wake-up to the reset.
FlagUpWhileWorking == pcW \in {"lock", "block", "signal", "reset"} => flag

\* Nothing is newer than the sensor, and the published status not newer than raw.
NothingFromTheFuture ==
    /\ raw <= meas
    /\ \A w \in Page : frame[w] <= meas
    /\ param <= raw \/ param <= 0

\* Progress of the block loop.
PassFresh ==
    /\ pcW = "block" => ~broke /\ \A w \in 0..(Words - 1) : w < blk => frame[w] >= raw
    /\ pcW \in {"signal", "reset"} /\ ~broke => FrameFresherThan(raw)

\* Every signal sent for a whole frame is matched by the page ever after.
SignalsMatched ==
    \A a \in Apps :
        /\ \A k \in 1..Len(sigq[a]) :
               sigq[a][k].whole => FrameFresherThan(sigq[a][k].status)
        /\ pcA[a] = "handler" /\ cur[a].whole => FrameFresherThan(cur[a].status)

FrameInv ==
    /\ MutexHeld /\ FlagUpWhileWorking /\ NothingFromTheFuture /\ PassFresh
    /\ NoLostFrame /\ SignalsMatched /\ CopyNotOlderThanSignal

LEMMA WordsInPage == 0..(Words - 1) \subseteq Page
  BY ConstantsAssumption, SMT DEF Page

\* The numbers the ordering is about.
LEMMA Numbers ==
    ASSUME TypeOK
    PROVE  /\ meas \in Nat /\ raw \in Int /\ param \in Int /\ blk \in Nat
           /\ \A w \in Page : frame[w] \in Nat
  BY ConstantsAssumption, SMT
     DEF TypeOK, DriverTypeOK, StatusWord, GarbageIdle, GarbageReady

LEMMA FrameInvInit == Init => FrameInv
<1> SUFFICES ASSUME Init PROVE FrameInv
  OBVIOUS
<1>1. raw < 0
  BY SMT DEF Init, GarbageIdle, GarbageReady
<1>2. \A w \in Page : frame[w] = 0
  BY DEF Init
<1>3. FrameFresherThan(raw)
  <2>1. raw \in Int
    BY DEF Init, GarbageIdle, GarbageReady
  <2> QED BY <1>1, <1>2, <2>1, WordsInPage, SMT DEF FrameFresherThan
<1>4. NothingFromTheFuture
  <2>1. raw \in Int
    BY DEF Init, GarbageIdle, GarbageReady
  <2> QED BY <1>1, <1>2, <2>1, SMT DEF Init, NothingFromTheFuture
<1>5. MutexHeld /\ FlagUpWhileWorking /\ PassFresh
  BY DEF Init, MutexHeld, FlagUpWhileWorking, PassFresh
<1>6. SignalsMatched /\ CopyNotOlderThanSignal
  BY SMT DEF Init, SignalsMatched, CopyNotOlderThanSignal
<1> QED
  BY <1>3, <1>4, <1>5, <1>6 DEF FrameInv, NoLostFrame

\* Which steps write the variables the ordering is about.
LEMMA Footprint ==
    ASSUME [Next]_vars
    PROVE  /\ meas' = meas \/ meas' = meas + 1
           /\ raw' = raw \/ (GRead /\ raw' = meas)
           /\ param' = param \/ param' = raw
           /\ frame' = frame \/ WBlock
           /\ <<pcW, blk, broke>>' = <<pcW, blk, broke>> \/ WaitThread
           /\ <<flag, pcG>>' = <<flag, pcG>> \/ GetThread \/ WReset
           /\ <<pcA, cur, copied, rawData>>' = <<pcA, cur, copied, rawData>>
                 \/ \E a \in Apps : AppRuns(a) \/ AKilled(a)
           /\ sigq' = sigq \/ WSignal \/ \E a \in Apps : AHandle(a) \/ AKilled(a)
  BY DEF Next, vars, sensorVars, getVars, waitVars, exitVars, appVars, Measure, GetThread,
     GTop, GLock, GRead, GPublish, GRaise, WaitThread, WTop, WWake, WLock, WBlock,
     WBlockFails, WBlocksDone, WSignal, WReset, AppRuns, AOpen, ARegister, AHandle, ACopy,
     AReturn, AKilled, Exit, XBegin, XReadStopped, XNewStopped

\* The page only ever takes newer data, so what was at least as new as a status word
\* stays so.
LEMMA FrameGrows ==
    ASSUME TypeOK, NothingFromTheFuture, [Next]_vars
    PROVE  /\ \A w \in Page : frame'[w] = frame[w] \/ frame'[w] = meas
           /\ \A status \in Int : FrameFresherThan(status) => FrameFresherThan(status)'
<1>1. \A w \in Page : frame'[w] = frame[w] \/ frame'[w] = meas
  BY Footprint DEF WBlock
<1>2. \A w \in Page : frame'[w] >= frame[w] /\ frame'[w] \in Int
  BY <1>1, Numbers, SMT DEF NothingFromTheFuture
<1>3. \A w \in 0..(Words - 1) : frame'[w] >= frame[w] /\ frame'[w] \in Int /\ frame[w] \in Int
  BY <1>2, WordsInPage, Numbers
<1> QED
  BY <1>1, <1>3, SMT DEF FrameFresherThan

\* Both threads take the mutex by the book and only WReset drops the flag.
LEMMA MutexStep ==
    ASSUME TypeOK, MutexHeld, FlagUpWhileWorking, [Next]_vars
    PROVE  MutexHeld' /\ FlagUpWhileWorking'
<1> USE DEF MutexHeld, FlagUpWhileWorking, sensorVars, getVars, waitVars, exitVars, appVars
<1>1. CASE GetThread
  BY <1>1 DEF GetThread, GTop, GLock, GRead, GPublish, GRaise
<1>2. CASE WaitThread
  BY <1>2 DEF WaitThread, WTop, WWake, WLock, WBlock, WBlockFails, WBlocksDone, WSignal,
     WReset
<1>3. CASE UNCHANGED <<lock, flag, pcG, pcW>>
  BY <1>3
<1> QED
  BY <1>1, <1>2, <1>3 DEF Next, vars, Measure, AppRuns, AOpen, ARegister, AHandle, ACopy,
     AReturn, AKilled, Exit, XBegin, XReadStopped, XNewStopped

LEMMA FrameInvStep ==
    ASSUME TypeOK, TypeOK', FrameInv, [Next]_vars
    PROVE  FrameInv'
<1> USE DEF sensorVars, getVars, waitVars, exitVars, appVars
<1>0. MutexHeld /\ FlagUpWhileWorking /\ NothingFromTheFuture /\ PassFresh
      /\ NoLostFrame /\ SignalsMatched /\ CopyNotOlderThanSignal
  BY DEF FrameInv
<1>1. \A status \in Int : FrameFresherThan(status) => FrameFresherThan(status)'
  BY <1>0, FrameGrows
<1>2. raw \in Int /\ param \in Int /\ meas \in Int /\ blk \in Int
      /\ \A w \in 0..(Words - 1) : frame[w] \in Int /\ frame[w] >= 0
  BY Numbers, WordsInPage
<1>3. MutexHeld' /\ FlagUpWhileWorking'
  BY <1>0, MutexStep
<1>4. NothingFromTheFuture'
  <2>1. raw' <= meas' /\ raw' >= raw
    BY <1>0, <1>2, Footprint, SMT DEF NothingFromTheFuture
  <2>2. param' <= raw' \/ param' <= 0
    <3>1. raw' \in Int
      BY <1>2, Footprint
    <3> QED BY <1>0, <1>2, <2>1, <3>1, Footprint, SMT DEF NothingFromTheFuture
  <2>3. \A w \in Page : frame'[w] <= meas'
    <3>1. meas' >= meas /\ meas' \in Int
      BY <1>2, Footprint, SMT
    <3> QED BY <1>0, <1>2, <3>1, FrameGrows, Numbers, SMT DEF NothingFromTheFuture
  <2> QED BY <2>1, <2>2, <2>3 DEF NothingFromTheFuture
<1>5. PassFresh'
  <2> USE DEF PassFresh
  <2>1. CASE WaitThread
    <3>0. raw' = raw
      BY <2>1 DEF WaitThread, WTop, WWake, WLock, WBlock, WBlockFails, WBlocksDone, WSignal,
         WReset
    <3>1. CASE WTop \/ WWake \/ WReset
      BY <3>1 DEF WTop, WWake, WReset
    <3>2. CASE WLock
      BY <3>2, SMT DEF WLock
    <3>3. CASE WBlock
      <4> SUFFICES ASSUME NEW w \in 0..(Words - 1), w < blk' PROVE frame'[w] >= raw
        BY <1>0, <3>0, <3>3 DEF WBlock
      <4>1. w \in Page
        BY WordsInPage
      <4>2. CASE w < blk
        <5>1. frame[w] >= raw
          BY <1>0, <3>3, <4>2 DEF WBlock
        <5> QED BY <1>0, <1>2, <4>1, <5>1, FrameGrows, SMT DEF NothingFromTheFuture
      <4>3. CASE ~(w < blk)
        <5>1. w \in blk..(blk + Stride - 1)
          <6>0. blk \in 0..(Words + Stride - 1) /\ blk < Words /\ blk' = NextBlock(blk)
            BY <3>3 DEF WBlock, TypeOK, DriverTypeOK
          <6>1. blk \in 0..(Words - 1) /\ blk' = NextBlock(blk)
            BY <6>0, ConstantsAssumption, SMT
          <6> QED BY <4>3, <6>1, NextBlockBounds, ConstantsAssumption, SMT
        <5>2. frame'[w] = meas
          BY <3>3, <4>1, <5>1 DEF WBlock
        <5> QED BY <1>0, <1>2, <5>2 DEF NothingFromTheFuture
      <4> QED BY <4>2, <4>3
    <3>4. CASE WBlockFails
      BY <3>4 DEF WBlockFails
    <3>5. CASE WBlocksDone
      <4>1. FrameFresherThan(raw)
        BY <1>0, <1>2, <3>5, ConstantsAssumption, SMT DEF WBlocksDone, FrameFresherThan
      <4> QED BY <1>1, <1>2, <3>0, <3>5, <4>1 DEF WBlocksDone
    <3>6. CASE WSignal
      BY <1>0, <3>0, <3>6 DEF WSignal, FrameFresherThan
    <3> QED BY <2>1, <3>1, <3>2, <3>3, <3>4, <3>5, <3>6 DEF WaitThread
  <2>2. CASE ~WaitThread
    <3>1. UNCHANGED <<pcW, blk, broke>> /\ frame' = frame
      BY <2>2, Footprint DEF WaitThread
    <3>2. CASE raw' = raw
      BY <1>0, <3>1, <3>2 DEF FrameFresherThan
    <3>3. CASE GRead
      BY <1>0, <3>1, <3>3 DEF GRead, MutexHeld
    <3> QED BY <3>2, <3>3, Footprint
  <2> QED BY <2>1, <2>2
<1>6. NoLostFrame'
  <2> USE DEF NoLostFrame
  <2>1. CASE GetThread
    <3>1. CASE GTop \/ GLock
      BY <1>0, <3>1 DEF GTop, GLock, FrameFresherThan
    <3>2. CASE GRead \/ GPublish
      BY <3>2 DEF GRead, GPublish
    <3>3. CASE GRaise
      <4>1. CASE NewData(raw)
        BY <3>3, <4>1 DEF GRaise
      <4>2. CASE ~NewData(raw)
        <5>1. FrameFresherThan(raw)
          BY <1>2, <4>2, SMT DEF NewData, FrameFresherThan
        <5> QED BY <3>3, <5>1 DEF GRaise, FrameFresherThan
      <4> QED BY <4>1, <4>2
    <3> QED BY <2>1, <3>1, <3>2, <3>3 DEF GetThread
  <2>2. CASE WaitThread
    <3>0. raw' = raw /\ pcG' = pcG
      BY <2>2 DEF WaitThread, WTop, WWake, WLock, WBlock, WBlockFails, WBlocksDone, WSignal,
         WReset
    <3>1. CASE WReset
      BY <1>0, <3>0, <3>1 DEF WReset, PassFresh, FrameFresherThan
    <3>2. CASE WLock
      BY <1>0, <3>2 DEF WLock, FlagUpWhileWorking
    <3>3. CASE WBlockFails
      BY <3>3 DEF WBlockFails
    <3>4. CASE WTop \/ WWake \/ WBlock \/ WBlocksDone \/ WSignal
      <4>1. flag' = flag /\ broke' = broke
        BY <3>4 DEF WTop, WWake, WBlock, WBlocksDone, WSignal
      <4> QED BY <1>0, <1>1, <1>2, <3>0, <4>1
    <3> QED BY <2>2, <3>1, <3>2, <3>3, <3>4 DEF WaitThread
  <2>3. CASE ~GetThread /\ ~WaitThread
    <3>1. UNCHANGED <<broke, raw, flag, pcG, frame>>
      BY <2>3, Footprint DEF WaitThread, GetThread
    <3> QED BY <1>0, <3>1 DEF FrameFresherThan
  <2> QED BY <2>1, <2>2, <2>3

<1>7. SignalsMatched'
  <2>1. CASE WSignal
    <3>1. ~broke => FrameFresherThan(param)
      <4>1. ~broke => FrameFresherThan(raw)
        BY <1>0, <2>1 DEF WSignal, PassFresh
      <4> QED BY <1>0, <1>2, <4>1, SMT DEF NothingFromTheFuture, FrameFresherThan
    <3>2. ASSUME NEW a \in Apps, NEW k \in 1..Len(sigq'[a]), sigq'[a][k].whole
          PROVE  FrameFresherThan(sigq'[a][k].status)
      <4>1. CASE sigq'[a] = sigq[a]
        BY <1>0, <3>2, <4>1 DEF SignalsMatched
      <4>2. CASE sigq'[a] = Append(sigq[a], [status |-> param, whole |-> ~broke])
        <5>1. sigq[a] \in Seq(Signal)
          BY DEF TypeOK, AppTypeOK
        <5>2. CASE k = Len(sigq[a]) + 1
          <6>1. sigq'[a][k] = [status |-> param, whole |-> ~broke]
            BY <4>2, <5>1, <5>2, AppendProperties
          <6>2. sigq'[a][k].status = param /\ sigq'[a][k].whole = ~broke
            BY <6>1
          <6>3. FrameFresherThan(param)
            BY <3>1, <3>2, <6>2
          <6> QED BY <6>2, <6>3 DEF FrameFresherThan
        <5>3. CASE k \in 1..Len(sigq[a])
          BY <1>0, <3>2, <4>2, <5>1, <5>3 DEF SignalsMatched
        <5> QED BY <4>2, <5>1, <5>2, <5>3, SMT
      <4> QED BY <2>1, <4>1, <4>2 DEF WSignal
    <3>3. UNCHANGED <<frame, pcA, cur>>
      BY <2>1 DEF WSignal
    <3> QED BY <1>0, <3>2, <3>3 DEF SignalsMatched, FrameFresherThan
  <2>2. ASSUME NEW a \in Apps, AppRuns(a) \/ AKilled(a) PROVE SignalsMatched'
    <3>1. frame' = frame
      BY <2>2 DEF AppRuns, AOpen, ARegister, AHandle, ACopy, AReturn, AKilled
    <3> SUFFICES ASSUME NEW b \in Apps
                 PROVE /\ \A k \in 1..Len(sigq'[b]) :
                              sigq'[b][k].whole => FrameFresherThan(sigq'[b][k].status)
                       /\ pcA'[b] = "handler" /\ cur'[b].whole
                              => FrameFresherThan(cur'[b].status)
      BY <3>1 DEF SignalsMatched, FrameFresherThan
    <3> USE <1>0 DEF SignalsMatched
    <3>2. CASE AOpen(a) \/ ARegister(a) \/ ACopy(a) \/ AReturn(a)
      BY <3>2 DEF AOpen, ARegister, ACopy, AReturn, TypeOK, AppTypeOK
    <3>3. CASE AHandle(a)
      <4>1. CASE b = a
        <5>1. sigq[a] \in Seq(Signal) /\ sigq[a] # <<>>
          BY <3>3 DEF AHandle, TypeOK, AppTypeOK
        <5>2. Len(sigq[a]) \in Nat /\ Len(sigq[a]) >= 1
          BY <5>1, EmptySeq
        <5>3. cur'[a] = sigq[a][1] /\ sigq'[a] = Tail(sigq[a])
          BY <3>3, <5>1 DEF AHandle, TypeOK, AppTypeOK
        <5>4. \A k \in 1..Len(Tail(sigq[a])) :
                  k + 1 \in 1..Len(sigq[a]) /\ Tail(sigq[a])[k] = sigq[a][k + 1]
          BY <5>1, <5>2, HeadTailProperties, SMT
        <5>5. 1 \in 1..Len(sigq[a])
          BY <5>2
        <5> QED BY <4>1, <5>3, <5>4, <5>5
      <4>2. CASE b # a
        BY <3>3, <4>2 DEF AHandle, TypeOK, AppTypeOK
      <4> QED BY <4>1, <4>2
    <3>4. CASE AKilled(a)
      <4>1. CASE b = a
        BY <3>4, <4>1, SMT DEF AKilled, TypeOK, AppTypeOK
      <4>2. CASE b # a
        BY <3>4, <4>2 DEF AKilled, TypeOK, AppTypeOK
      <4> QED BY <4>1, <4>2
    <3> QED BY <2>2, <3>2, <3>3, <3>4 DEF AppRuns
  <2>3. CASE ~WSignal /\ ~\E a \in Apps : AppRuns(a) \/ AKilled(a)
    <3>1. UNCHANGED <<sigq, pcA, cur>>
      BY <2>3, Footprint DEF AppRuns
    <3>2. \A x \in Signal : x.status \in Int
      BY DEF Signal, StatusWord, GarbageIdle, GarbageReady
    <3>3. \A a \in Apps :
              cur[a].status \in Int /\ \A k \in 1..Len(sigq[a]) : sigq[a][k].status \in Int
      BY <3>2 DEF TypeOK, AppTypeOK
    <3> QED BY <1>0, <1>1, <3>1, <3>3 DEF SignalsMatched
  <2> QED BY <2>1, <2>2, <2>3
<1>8. CopyNotOlderThanSignal'
  <2> USE DEF CopyNotOlderThanSignal
  <2>1. ASSUME NEW a \in Apps, AppRuns(a) \/ AKilled(a) PROVE CopyNotOlderThanSignal'
    <3> SUFFICES ASSUME NEW b \in Apps, pcA'[b] = "handler", cur'[b].whole,
                        NEW w \in 0..(copied'[b] - 1)
                 PROVE  rawData'[b][w] >= cur'[b].status
      OBVIOUS
    <3>1. CASE AOpen(a) \/ ARegister(a) \/ AReturn(a) \/ AKilled(a)
      BY <1>0, <3>1 DEF AOpen, ARegister, AReturn, AKilled, TypeOK, AppTypeOK
    <3>2. CASE AHandle(a)
      <4>1. CASE b = a
        BY <3>2, <4>1, SMT DEF AHandle, TypeOK, AppTypeOK
      <4>2. CASE b # a
        BY <1>0, <3>2, <4>2 DEF AHandle, TypeOK, AppTypeOK
      <4> QED BY <4>1, <4>2
    <3>3. CASE ACopy(a)
      <4>1. CASE b # a
        BY <1>0, <3>3, <4>1 DEF ACopy, TypeOK, AppTypeOK
      <4>2. CASE b = a
        <5>1. copied[a] \in 0..(Words - 1) /\ copied'[a] = copied[a] + 1
          BY <3>3, SMT DEF ACopy, TypeOK, AppTypeOK
        <5>2. pcA[a] = "handler" /\ cur[a].whole /\ cur'[a] = cur[a]
          BY <3>3, <4>2 DEF ACopy
        <5>3. w \in 0..(Words - 1)
          <6>1. w \in 0..copied[a]
            BY <4>2, <5>1
          <6>2. w \in Int /\ 0 <= w /\ w <= copied[a]
            BY <5>1, <6>1
          <6>3. copied[a] \in Int /\ copied[a] <= Words - 1 /\ Words \in Int
            BY <5>1, ConstantsAssumption
          <6> QED BY <6>2, <6>3
        <5>4. rawData'[a][w] = IF w = copied[a] THEN frame[copied[a]] ELSE rawData[a][w]
          BY <3>3, <5>3 DEF ACopy, TypeOK, AppTypeOK
        <5>5. CASE w = copied[a]
          BY <1>0, <4>2, <5>1, <5>2, <5>4, <5>5 DEF SignalsMatched, FrameFresherThan
        <5>6. CASE w # copied[a]
          <6>1. w \in 0..(copied[a] - 1)
            BY <4>2, <5>1, <5>6, SMT
          <6> QED BY <1>0, <4>2, <5>2, <5>4, <5>6, <6>1
        <5> QED BY <5>5, <5>6
      <4> QED BY <4>1, <4>2
    <3> QED BY <2>1, <3>1, <3>2, <3>3 DEF AppRuns
  <2>2. CASE ~\E a \in Apps : AppRuns(a) \/ AKilled(a)
    <3>1. UNCHANGED <<pcA, cur, copied, rawData>>
      BY <2>2, Footprint
    <3> QED BY <1>0, <3>1
  <2> QED BY <2>1, <2>2
<1> QED
  BY <1>3, <1>4, <1>5, <1>6, <1>7, <1>8 DEF FrameInv

LEMMA FrameInvariant == Spec => []FrameInv
  BY FrameInvInit, FrameInvStep, TypeCorrect, PTL DEF Spec

\* What is sent after a whole pass.
LEMMA StatusMatched == TypeOK /\ FrameInv => StatusNotNewerThanFrame
<1> SUFFICES ASSUME TypeOK, FrameInv, pcW = "signal", ~broke
             PROVE  FrameFresherThan(param)
  BY DEF StatusNotNewerThanFrame
<1>1. FrameFresherThan(raw)
  BY DEF FrameInv, PassFresh
<1>2. \A w \in 0..(Words - 1) : frame[w] \in Nat
  BY Numbers, WordsInPage
<1> QED
  BY <1>1, <1>2, Numbers, SMT DEF FrameInv, NothingFromTheFuture, FrameFresherThan

\* No detected frame is lost, and after a pass that was not broken off neither the signal nor
\* the program's copy pairs the status word with older data: for every frame length,
\* block size, number of programs, of measurements and of I2C failures.
THEOREM FrameOrdering ==
    Spec => [](NoLostFrame /\ StatusNotNewerThanFrame /\ CopyNotOlderThanSignal)
<1>1. TypeOK /\ FrameInv
        => NoLostFrame /\ StatusNotNewerThanFrame /\ CopyNotOlderThanSignal
  BY StatusMatched DEF FrameInv
<1> QED
  BY <1>1, FrameInvariant, TypeCorrect, PTL

\* The signal of a pass without a failure carries a status word no newer than any word of
\* the page: a program that waits for the status has the data (new_frame).
THEOREM StatusIsNotNewer == Spec => []StatusNotNewerThanFrame
  BY FrameOrdering, PTL

\* What a handler copies from the mapped page, which nothing locks, is never older than the
\* signal it runs for, if that is of a pass without a failure (new_frame and the program's
\* handler).
THEOREM CopiesAreNotOlder == Spec => []CopyNotOlderThanSignal
  BY FrameOrdering, PTL

-----------------------------------------------------------------------------
(* The channel *)

Pending == [a \in Apps |-> Promises(sigq[a])]
Told == [a \in Apps |-> Promise(cur[a])]
Copies == [a \in Apps |-> FirstWords(copied[a], rawData[a])]

chanVars == <<meas, Reached, PassUnderWay, sendSignal, Dead, Pending, Handling, Told, Copies>>

LEMMA FunctionIsSeq ==
    ASSUME NEW k \in Nat, NEW f \in [1..k -> Nat]
    PROVE  f \in Seq(Nat) /\ Len(f) = k
  BY SMT

\* What is promised is a number, and no more than what the status word says.
LEMMA PromiseIs ==
    ASSUME NEW s \in Signal
    PROVE  /\ Promise(s) \in Nat
           /\ Promise(s) = 0 \/ (s.whole /\ Promise(s) = s.status /\ s.status \in 0..MaxMeas)
  BY ConstantsAssumption, SMT DEF Signal, StatusWord, GarbageIdle, GarbageReady, Promise

\* The promises of a queue follow its signals.
LEMMA PromisesAre ==
    ASSUME NEW q \in Seq(Signal)
    PROVE  /\ Promises(q) \in Seq(Nat) /\ Len(Promises(q)) = Len(q)
           /\ \A i \in 1..Len(q) : Promises(q)[i] = Promise(q[i])
<1>1. Len(q) \in Nat /\ \A i \in 1..Len(q) : q[i] \in Signal
  BY LenProperties, ElementOfSeq
<1>2. \A i \in 1..Len(q) : Promise(q[i]) \in Nat
  BY <1>1, PromiseIs
<1> DEFINE n == Len(q)
           f == [i \in 1..n |-> Promise(q[i])]
<1>3. f \in [1..n -> Nat] /\ \A i \in 1..n : f[i] = Promise(q[i])
  BY <1>2
<1>4. Promises(q) = f
  BY DEF Promises
<1>5. n \in Nat
  BY <1>1
<1> HIDE DEF f, n
<1>6. f \in Seq(Nat) /\ Len(f) = n
  BY <1>3, <1>5, FunctionIsSeq
<1> QED
  BY <1>3, <1>4, <1>6 DEF n

LEMMA NoPromises == Promises(<<>>) = <<>>
<1>1. <<>> \in Seq(Signal) /\ Len(<<>>) = 0
  BY EmptySeq
<1>2. Promises(<<>>) \in Seq(Nat) /\ Len(Promises(<<>>)) = 0
  BY <1>1, PromisesAre
<1> QED
  BY <1>2, EmptySeq

LEMMA PromisesGrow ==
    ASSUME NEW q \in Seq(Signal), NEW s \in Signal
    PROVE  Promises(Append(q, s)) = Append(Promises(q), Promise(s))
<1> DEFINE longer == Append(q, s)
           before == Promises(q)
           p == Promise(s)
<1>1. /\ longer \in Seq(Signal) /\ Len(longer) = Len(q) + 1 /\ Len(q) \in Nat
      /\ \A i \in 1..Len(q) : longer[i] = q[i]
      /\ longer[Len(q) + 1] = s
  BY AppendProperties, LenProperties
<1>2. p \in Nat
  BY PromiseIs
<1>3. /\ before \in Seq(Nat) /\ Len(before) = Len(q)
      /\ \A i \in 1..Len(q) : before[i] = Promise(q[i])
  BY PromisesAre
<1>4. /\ Promises(longer) \in Seq(Nat) /\ Len(Promises(longer)) = Len(longer)
      /\ \A i \in 1..Len(longer) : Promises(longer)[i] = Promise(longer[i])
  <2> HIDE DEF longer
  <2> QED BY <1>1, PromisesAre
<1>5. /\ Append(before, p) \in Seq(Nat) /\ Len(Append(before, p)) = Len(q) + 1
      /\ \A i \in 1..Len(q) : Append(before, p)[i] = before[i]
      /\ Append(before, p)[Len(q) + 1] = p
  <2> HIDE DEF before, p
  <2> QED BY <1>2, <1>3, AppendProperties
<1>6. \A i \in 1..Len(longer) : Promises(longer)[i] = Append(before, p)[i]
  <2> SUFFICES ASSUME NEW i \in 1..Len(longer)
               PROVE  Promises(longer)[i] = Append(before, p)[i]
    OBVIOUS
  <2>1. i \in 1..Len(q) \/ i = Len(q) + 1
    <3> HIDE DEF longer
    <3> QED BY <1>1
  <2>2. Promises(longer)[i] = Promise(longer[i])
    BY <1>4
  <2>3. CASE i \in 1..Len(q)
    <3>1. longer[i] = q[i] /\ before[i] = Promise(q[i]) /\ Append(before, p)[i] = before[i]
      BY <2>3, <1>1, <1>3, <1>5
    <3> HIDE DEF longer, before, p
    <3> QED BY <2>2, <3>1
  <2>4. CASE i = Len(q) + 1
    <3>1. longer[i] = s /\ Append(before, p)[i] = Promise(s)
      BY <2>4, <1>1, <1>5
    <3> HIDE DEF longer, before
    <3> QED BY <2>2, <3>1
  <2> QED BY <2>1, <2>3, <2>4
<1> HIDE DEF longer, before, p
<1>7. Promises(longer) = Append(before, p)
  BY <1>1, <1>4, <1>5, <1>6, SeqEqual
<1> QED
  BY <1>7 DEF longer, before, p

LEMMA PromisesShrink ==
    ASSUME NEW q \in Seq(Signal), q # <<>>
    PROVE  /\ Promises(q) # <<>> /\ Head(Promises(q)) = Promise(Head(q))
           /\ Promises(Tail(q)) = Tail(Promises(q))
<1>1. /\ Tail(q) \in Seq(Signal) /\ Len(Tail(q)) = Len(q) - 1
      /\ \A i \in 1..Len(Tail(q)) : Tail(q)[i] = q[i + 1]
      /\ Len(q) \in Nat \ {0}
  BY HeadTailProperties, EmptySeq
<1> DEFINE before == Promises(q)
           rest == Tail(q)
<1>2. /\ before \in Seq(Nat) /\ Len(before) = Len(q)
      /\ \A i \in 1..Len(q) : before[i] = Promise(q[i])
  BY PromisesAre
<1>3. /\ Promises(rest) \in Seq(Nat) /\ Len(Promises(rest)) = Len(rest)
      /\ \A i \in 1..Len(rest) : Promises(rest)[i] = Promise(rest[i])
  <2> HIDE DEF rest
  <2>1. rest \in Seq(Signal)
    BY <1>1 DEF rest
  <2> QED BY <2>1, PromisesAre
<1> HIDE DEF before
<1>4. before # <<>>
  BY <1>1, <1>2, EmptySeq
<1>5. /\ Tail(before) \in Seq(Nat) /\ Len(Tail(before)) = Len(q) - 1
      /\ \A i \in 1..Len(Tail(before)) : Tail(before)[i] = before[i + 1]
  BY <1>2, <1>4, HeadTailProperties
<1>6. \A i \in 1..(Len(q) - 1) : Promises(rest)[i] = Tail(before)[i]
  <2> SUFFICES ASSUME NEW i \in 1..(Len(q) - 1) PROVE Promises(rest)[i] = Tail(before)[i]
    OBVIOUS
  <2>1. i \in 1..Len(rest) /\ i \in 1..Len(Tail(before)) /\ i + 1 \in 1..Len(q)
    BY <1>1, <1>5
  <2>2. rest[i] = q[i + 1]
    BY <1>1, <2>1
  <2>3. Promises(rest)[i] = Promise(rest[i]) /\ Tail(before)[i] = before[i + 1]
        /\ before[i + 1] = Promise(q[i + 1])
    BY <1>2, <1>3, <1>5, <2>1
  <2> HIDE DEF rest
  <2> QED BY <2>2, <2>3
<1>7. Len(Promises(rest)) = Len(q) - 1
  BY <1>1, <1>3
<1>8. Promises(rest) = Tail(before)
  <2> HIDE DEF rest
  <2> QED BY <1>3, <1>5, <1>6, <1>7, SeqEqual
<1>9. Head(before) = before[1] /\ Head(q) = q[1]
  BY <1>2, <1>4, SMT
<1>10. before[1] = Promise(q[1])
  BY <1>1, <1>2
<1> QED
  BY <1>4, <1>8, <1>9, <1>10 DEF before

\* One more word copied is one more element.
LEMMA WordsGrow ==
    ASSUME NEW n \in 0..(Words - 1), NEW data \in [0..(Words - 1) -> Nat], NEW x \in Nat
    PROVE  FirstWords(n + 1, [data EXCEPT ![n] = x]) = Append(FirstWords(n, data), x)
<1> DEFINE f == FirstWords(n, data)
           g == FirstWords(n + 1, [data EXCEPT ![n] = x])
<1>1. n \in Nat /\ n + 1 \in Nat /\ Words \in Nat
  BY ConstantsAssumption, SMT
<1>2. /\ f = [i \in 1..n |-> data[i - 1]]
      /\ \A i \in 1..n : data[i - 1] \in Nat
  <2>1. \A i \in 1..n : i - 1 \in 0..(Words - 1)
    BY <1>1, SMT
  <2> QED BY <2>1 DEF FirstWords
<1>3. f \in [1..n -> Nat] /\ \A i \in 1..n : f[i] = data[i - 1]
  BY <1>2
<1>4. \A i \in 1..(n + 1) :
          [data EXCEPT ![n] = x][i - 1] = IF i = n + 1 THEN x ELSE data[i - 1]
  <2> SUFFICES ASSUME NEW i \in 1..(n + 1)
               PROVE  [data EXCEPT ![n] = x][i - 1] = IF i = n + 1 THEN x ELSE data[i - 1]
    OBVIOUS
  <2>1. i - 1 \in 0..(Words - 1) /\ (i - 1 = n <=> i = n + 1)
    BY <1>1, SMT
  <2> QED BY <2>1
<1>5. /\ g \in [1..(n + 1) -> Nat]
      /\ \A i \in 1..n : g[i] = data[i - 1]
      /\ g[n + 1] = x
  <2>1. g = [i \in 1..(n + 1) |-> [data EXCEPT ![n] = x][i - 1]]
    BY DEF FirstWords
  <2>2. g = [i \in 1..(n + 1) |-> IF i = n + 1 THEN x ELSE data[i - 1]]
    BY <2>1, <1>4
  <2>3. \A i \in 1..(n + 1) : i = n + 1 \/ i \in 1..n
    BY <1>1, SMT
  <2>4. \A i \in 1..n : i \in 1..(n + 1) /\ i # n + 1
    BY <1>1, SMT
  <2>5. n + 1 \in 1..(n + 1)
    BY <1>1, SMT
  <2> HIDE DEF g
  <2> QED BY <1>2, <2>2, <2>3, <2>4, <2>5
<1> HIDE DEF f, g
<1>6. f \in Seq(Nat) /\ Len(f) = n /\ g \in Seq(Nat) /\ Len(g) = n + 1
  BY <1>1, <1>3, <1>5, FunctionIsSeq
<1>7. /\ Append(f, x) \in Seq(Nat) /\ Len(Append(f, x)) = n + 1
      /\ \A i \in 1..n : Append(f, x)[i] = f[i]
      /\ Append(f, x)[n + 1] = x
  BY <1>6, AppendProperties
<1>8. \A i \in 1..(n + 1) : g[i] = Append(f, x)[i]
  <2>1. \A i \in 1..(n + 1) : i = n + 1 \/ i \in 1..n
    BY <1>1, SMT
  <2> QED BY <2>1, <1>3, <1>5, <1>7
<1>9. g = Append(f, x)
  BY <1>6, <1>7, <1>8, SeqEqual
<1> QED
  BY <1>9 DEF f, g

LEMMA ChannelInit == Init => Channel!Init
<1> SUFFICES ASSUME Init PROVE Channel!Init
  OBVIOUS
<1>1. Reached = {0}
  <2>1. \A w \in 0..(Words - 1) : frame[w] = 0
    BY WordsInPage DEF Init
  <2>2. 0 \in 0..(Words - 1)
    BY ConstantsAssumption, SMT
  <2> QED
    BY <2>1, <2>2, ConstantsAssumption, SMT DEF Reached, FrameFresherThan
<1>2. PassUnderWay = FALSE /\ Dead = {} /\ Handling = {}
  BY DEF Init, PassUnderWay, Dead, Handling
<1>3. Promises(<<>>) = <<>> /\ Promise(NoSignal) = 0
  BY NoPromises DEF Promise, NoSignal
<1>4. \A data : FirstWords(0, data) = <<>>
  BY SMT DEF FirstWords
<1>5. /\ [a \in Apps |-> Promises(sigq[a])] = [a \in Apps |-> <<>>]
      /\ [a \in Apps |-> Promise(cur[a])] = [a \in Apps |-> 0]
      /\ [a \in Apps |-> FirstWords(copied[a], rawData[a])] = [a \in Apps |-> <<>>]
  BY <1>3, <1>4 DEF Init
<1> QED
  BY <1>1, <1>2, <1>5 DEF Init, Channel!Init

LEMMA Unseen ==
    ASSUME UNCHANGED <<meas, frame, sendSignal, pcA, sigq, cur, copied, rawData>>,
           PassUnderWay' = PassUnderWay
    PROVE  UNCHANGED chanVars
  BY DEF chanVars, Reached, FrameFresherThan, Dead, Handling, Pending, Told, Copies

\* The steps of a thread leave what a program has received alone.
LEMMA ProgramsUnseen ==
    ASSUME UNCHANGED <<pcA, cur, copied, rawData>>
    PROVE  UNCHANGED <<Dead, Handling, Told, Copies>>
  BY DEF Dead, Handling, Told, Copies

\* A block read makes the page newer.
LEMMA BlockRenews ==
    ASSUME TypeOK, TypeOK', FrameInv, WBlock
    PROVE  Channel!Renew
<1>1. PassUnderWay = TRUE /\ PassUnderWay' = TRUE
  BY DEF WBlock, PassUnderWay
<1>2. UNCHANGED <<meas, sendSignal, Dead, Handling, Told, Copies, Pending>>
  BY ProgramsUnseen DEF WBlock, sensorVars, appVars, Pending
<1>3. NothingFromTheFuture /\ [Next]_vars
  BY DEF FrameInv, Next, WaitThread
<1>4. Reached \subseteq Reached'
  <2>1. \A m \in 0..MaxMeas : m \in Int
    BY ConstantsAssumption
  <2> QED BY <1>3, <2>1, FrameGrows DEF Reached
<1>5. Reached' \subseteq 0..meas
  <2> SUFFICES ASSUME NEW m \in 0..MaxMeas, FrameFresherThan(m)' PROVE m \in 0..meas
    BY DEF Reached
  <2>1. 0 \in 0..(Words - 1) /\ 0 \in Page
    BY ConstantsAssumption, WordsInPage, SMT
  <2>2. frame'[0] >= m
    BY <2>1 DEF FrameFresherThan
  <2>3. frame[0] <= meas /\ (frame'[0] = frame[0] \/ frame'[0] = meas)
    BY <1>3, <2>1, FrameGrows DEF NothingFromTheFuture
  <2>4. frame[0] \in Nat /\ meas \in Nat /\ m \in Nat
    BY <2>1, Numbers, ConstantsAssumption
  <2> QED BY <2>2, <2>3, <2>4
<1> QED
  BY <1>1, <1>2, <1>4, <1>5 DEF Channel!Renew, Pending, Told, Copies

\* After a whole pass the page has reached the status word that is sent.
LEMMA SignalAnnounces ==
    ASSUME TypeOK, FrameInv, WSignal
    PROVE  \E v \in Reached : Channel!Announce(v)
<1> DEFINE s == [status |-> param, whole |-> ~broke]
<1>1. s \in Signal
  BY DEF TypeOK, DriverTypeOK, Signal
<1>2. /\ pcW = "signal" /\ pcW' = "reset"
      /\ UNCHANGED <<meas, frame, sendSignal, pcA, cur, copied, rawData>>
      /\ sigq' = [a \in Apps |->
                     IF a = sendSignal /\ pcA[a] # "dead" /\ Len(sigq[a]) < MaxQueue
                     THEN Append(sigq[a], s) ELSE sigq[a]]
  BY DEF WSignal, sensorVars, appVars
<1>3. PassUnderWay = TRUE /\ PassUnderWay' = FALSE
  BY <1>2 DEF PassUnderWay
<1>4. Promise(s) \in Reached
  <2>1. CASE Promise(s) = 0
    <3>1. \A w \in 0..(Words - 1) : frame[w] >= 0
      BY Numbers, WordsInPage
    <3> QED BY <2>1, <3>1, ConstantsAssumption, SMT DEF Reached, FrameFresherThan
  <2>2. CASE ~broke /\ Promise(s) = param /\ param \in 0..MaxMeas
    <3>1. FrameFresherThan(param)
      BY <2>2, <1>2, StatusMatched DEF StatusNotNewerThanFrame
    <3> QED BY <2>2, <3>1 DEF Reached
  <2>3. s.whole = ~broke /\ s.status = param
    OBVIOUS
  <2> HIDE DEF s
  <2> QED BY <1>1, <2>1, <2>2, <2>3, PromiseIs
<1>5. UNCHANGED <<Reached, Dead, Handling, Told, Copies>>
  BY <1>2, ProgramsUnseen DEF Reached, FrameFresherThan
<1> HIDE DEF s
<1>6. \A a \in Apps : sigq[a] \in Seq(Signal) /\ Len(Promises(sigq[a])) = Len(sigq[a])
                      /\ Promises(Append(sigq[a], s)) = Append(Promises(sigq[a]), Promise(s))
  BY <1>1, PromisesAre, PromisesGrow DEF TypeOK, AppTypeOK
<1>7. \A a \in Apps : a \notin Dead <=> pcA[a] # "dead"
  BY DEF Dead
<1>8. Pending' = [a \in Apps |->
                     IF a = sendSignal /\ a \notin Dead /\ Len(Pending[a]) < MaxQueue
                     THEN Append(Pending[a], Promise(s)) ELSE Pending[a]]
  <2>1. \A a \in Apps : Promises(sigq'[a]) =
            IF a = sendSignal /\ a \notin Dead /\ Len(Pending[a]) < MaxQueue
            THEN Append(Pending[a], Promise(s)) ELSE Pending[a]
    <3> SUFFICES ASSUME NEW a \in Apps
                 PROVE  Promises(sigq'[a]) =
                          IF a = sendSignal /\ a \notin Dead /\ Len(Pending[a]) < MaxQueue
                          THEN Append(Pending[a], Promise(s)) ELSE Pending[a]
      OBVIOUS
    <3>1. Pending[a] = Promises(sigq[a]) /\ Len(Pending[a]) = Len(sigq[a])
      BY <1>6 DEF Pending
    <3>2. CASE a = sendSignal /\ pcA[a] # "dead" /\ Len(sigq[a]) < MaxQueue
      <4>1. sigq'[a] = Append(sigq[a], s)
        BY <1>2, <3>2
      <4>2. Promises(sigq'[a]) = Append(Promises(sigq[a]), Promise(s))
        BY <4>1, <1>6
      <4> QED BY <4>2, <3>1, <3>2, <1>7
    <3>3. CASE ~(a = sendSignal /\ pcA[a] # "dead" /\ Len(sigq[a]) < MaxQueue)
      <4>1. sigq'[a] = sigq[a]
        BY <1>2, <3>3
      <4> QED BY <4>1, <3>1, <3>3, <1>7
    <3> QED BY <3>2, <3>3
  <2> QED BY <2>1 DEF Pending
<1>9. Channel!Announce(Promise(s))
  BY <1>2, <1>3, <1>4, <1>5, <1>8 DEF Channel!Announce, Pending, Told, Copies
<1> QED
  BY <1>4, <1>9

\* What one program does.
LEMMA ProgramStep ==
    ASSUME TypeOK, TypeOK', FrameInv, NEW a \in Apps, AppRuns(a) \/ AKilled(a)
    PROVE  UNCHANGED chanVars \/ Channel!Next
<1>0. pcA \in [Apps -> {"start", "open", "main", "handler", "dead"}]
  BY DEF TypeOK, AppTypeOK
<1>1. UNCHANGED <<meas, frame, pcW>>
  BY DEF AppRuns, AOpen, ARegister, AHandle, ACopy, AReturn, AKilled, sensorVars, waitVars
<1>2. UNCHANGED <<meas, Reached, PassUnderWay>>
  BY <1>1 DEF Reached, FrameFresherThan, PassUnderWay
<1>3. CASE AOpen(a)
  <2>1. /\ UNCHANGED <<sendSignal, sigq, cur, copied, rawData>>
        /\ pcA[a] = "start" /\ pcA' = [pcA EXCEPT ![a] = "open"]
    BY <1>3 DEF AOpen
  <2>2. UNCHANGED <<Dead, Handling>>
    BY <1>0, <2>1 DEF Dead, Handling
  <2>3. UNCHANGED <<Pending, Told, Copies>>
    BY <2>1 DEF Pending, Told, Copies
  <2> QED BY <1>2, <2>1, <2>2, <2>3 DEF chanVars
<1>4. CASE ARegister(a)
  <2>1. /\ UNCHANGED <<sigq, cur, copied, rawData>> /\ sendSignal' = a
        /\ pcA[a] = "open" /\ pcA' = [pcA EXCEPT ![a] = "main"]
    BY <1>4 DEF ARegister
  <2>2. UNCHANGED <<Dead, Handling>> /\ a \notin Dead
    BY <1>0, <2>1 DEF Dead, Handling
  <2>3. UNCHANGED <<Pending, Told, Copies>>
    BY <2>1 DEF Pending, Told, Copies
  <2>4. Channel!Register(a)
    BY <1>2, <2>1, <2>2, <2>3 DEF Channel!Register, Pending, Told, Copies
  <2> QED BY <2>4 DEF Channel!Next
<1>5. CASE AHandle(a)
  <2>1. /\ UNCHANGED <<sendSignal, rawData>>
        /\ pcA[a] = "main" /\ sigq[a] # <<>> /\ pcA' = [pcA EXCEPT ![a] = "handler"]
        /\ cur' = [cur EXCEPT ![a] = Head(sigq[a])]
        /\ sigq' = [sigq EXCEPT ![a] = Tail(sigq[a])]
        /\ copied' = [copied EXCEPT ![a] = 0]
    BY <1>5 DEF AHandle
  <2>2. Dead' = Dead /\ Handling' = Handling \cup {a} /\ a \notin Handling
    BY <1>0, <2>1 DEF Dead, Handling
  <2>3. /\ sigq \in [Apps -> Seq(Signal)] /\ cur \in [Apps -> Signal]
        /\ copied \in [Apps -> 0..Words]
    BY DEF TypeOK, AppTypeOK
  <2>4. /\ Promises(sigq[a]) # <<>> /\ Head(Promises(sigq[a])) = Promise(Head(sigq[a]))
        /\ Promises(Tail(sigq[a])) = Tail(Promises(sigq[a]))
    BY <2>1, <2>3, PromisesShrink
  <2>5. Pending[a] # <<>> /\ Pending' = [Pending EXCEPT ![a] = Tail(Pending[a])]
    BY <2>1, <2>3, <2>4 DEF Pending
  <2>6. Told' = [Told EXCEPT ![a] = Head(Pending[a])]
    BY <2>1, <2>3, <2>4 DEF Told, Pending
  <2>7. Copies' = [Copies EXCEPT ![a] = <<>>]
    <3>1. FirstWords(0, rawData[a]) = <<>>
      BY SMT DEF FirstWords
    <3> QED BY <2>1, <2>3, <3>1 DEF Copies
  <2>8. Channel!Enter(a)
    BY <1>2, <2>1, <2>2, <2>5, <2>6, <2>7 DEF Channel!Enter, Pending, Told, Copies
  <2> QED BY <2>8 DEF Channel!Next
<1>6. CASE ACopy(a)
  <2> DEFINE n == copied[a]
             x == frame[n]
  <2>1. /\ UNCHANGED <<sendSignal, sigq, pcA, cur>> /\ pcA[a] = "handler" /\ n < Words
        /\ rawData' = [rawData EXCEPT ![a][n] = x]
        /\ copied' = [copied EXCEPT ![a] = n + 1]
    BY <1>6 DEF ACopy
  <2>2. /\ rawData \in [Apps -> [0..(Words - 1) -> 0..MaxMeas]]
        /\ copied \in [Apps -> 0..Words]
    BY DEF TypeOK, AppTypeOK
  <2>3. n \in 0..(Words - 1) /\ n \in Page
    <3>1. n \in 0..Words
      BY <2>2
    <3>2. n \in 0..(Words - 1)
      <4> HIDE DEF n
      <4> QED BY <2>1, <3>1, ConstantsAssumption, SMT
    <3> QED BY <3>2, WordsInPage
  <2>4. x \in Nat /\ x <= meas /\ meas \in Nat
    BY <2>3, Numbers DEF FrameInv, NothingFromTheFuture
  <2>5. x \in 0..meas /\ \A v \in Reached : v <= x
    <3>1. \A v \in Reached : x >= v /\ v \in Int
      BY <2>3, ConstantsAssumption DEF Reached, FrameFresherThan
    <3> HIDE DEF x
    <3> QED BY <2>4, <3>1
  <2>6. UNCHANGED <<Dead, Handling, Pending, Told>> /\ a \in Handling
    BY <2>1 DEF Dead, Handling, Pending, Told
  <2>7. rawData[a] \in [0..(Words - 1) -> Nat]
    <3>1. rawData[a] \in [0..(Words - 1) -> 0..MaxMeas]
      BY <2>2
    <3>2. 0..MaxMeas \subseteq Nat
      BY ConstantsAssumption, SMT
    <3> QED BY <3>1, <3>2
  <2>8. FirstWords(n + 1, [rawData[a] EXCEPT ![n] = x]) = Append(FirstWords(n, rawData[a]), x)
    <3> HIDE DEF n, x
    <3> QED BY <2>3, <2>4, <2>7, WordsGrow
  <2>9. Copies' = [Copies EXCEPT ![a] = Append(Copies[a], x)]
    <3>1. Copies[a] = FirstWords(n, rawData[a])
      BY DEF Copies
    <3>2. /\ rawData'[a] = [rawData[a] EXCEPT ![n] = x] /\ copied'[a] = n + 1
          /\ \A b \in Apps : b # a => rawData'[b] = rawData[b] /\ copied'[b] = copied[b]
      BY <2>1, <2>2
    <3>3. \A b \in Apps : FirstWords(copied'[b], rawData'[b])
                             = IF b = a THEN Append(Copies[a], x) ELSE Copies[b]
      <4> SUFFICES ASSUME NEW b \in Apps
                   PROVE  FirstWords(copied'[b], rawData'[b])
                             = IF b = a THEN Append(Copies[a], x) ELSE Copies[b]
        OBVIOUS
      <4>1. CASE b = a
        BY <4>1, <3>1, <3>2, <2>8
      <4>2. CASE b # a
        BY <4>2, <3>2 DEF Copies
      <4> QED BY <4>1, <4>2
    <3>4. Copies' = [b \in Apps |-> IF b = a THEN Append(Copies[a], x) ELSE Copies[b]]
      BY <3>3 DEF Copies
    <3>5. Copies = [b \in Apps |-> Copies[b]]
      BY DEF Copies
    <3> HIDE DEF x
    <3> QED BY <3>4, <3>5
  <2>10. Channel!Copy(a, x)
    BY <1>2, <2>1, <2>5, <2>6, <2>9 DEF Channel!Copy, Pending, Told, Copies
  <2> QED BY <2>5, <2>10 DEF Channel!Next
<1>7. CASE AReturn(a)
  <2>1. /\ UNCHANGED <<sendSignal, sigq, cur, copied, rawData>>
        /\ pcA[a] = "handler" /\ pcA' = [pcA EXCEPT ![a] = "main"]
    BY <1>7 DEF AReturn
  <2>2. Dead' = Dead /\ Handling' = Handling \ {a} /\ a \in Handling
    BY <1>0, <2>1 DEF Dead, Handling
  <2>3. UNCHANGED <<Pending, Told, Copies>>
    BY <2>1 DEF Pending, Told, Copies
  <2>4. Channel!Leave(a)
    BY <1>2, <2>1, <2>2, <2>3 DEF Channel!Leave, Pending, Told, Copies
  <2> QED BY <2>4 DEF Channel!Next
<1>8. CASE AKilled(a)
  <2>1. /\ UNCHANGED <<sendSignal, cur, copied, rawData>>
        /\ pcA[a] \in {"open", "main", "handler"} /\ pcA' = [pcA EXCEPT ![a] = "dead"]
        /\ sigq' = [sigq EXCEPT ![a] = <<>>]
    BY <1>8 DEF AKilled
  <2>2. Dead' = Dead \cup {a} /\ Handling' = Handling \ {a} /\ a \notin Dead
    BY <1>0, <2>1 DEF Dead, Handling
  <2>3. UNCHANGED <<Told, Copies>>
    BY <2>1 DEF Told, Copies
  <2>4. Pending' = [Pending EXCEPT ![a] = <<>>]
    <3>1. sigq \in [Apps -> Seq(Signal)] /\ Promises(<<>>) = <<>>
      BY NoPromises DEF TypeOK, AppTypeOK
    <3> QED BY <2>1, <3>1 DEF Pending
  <2>5. sendSignal' = IF FALSE /\ sendSignal = a THEN NoTask ELSE sendSignal
    BY <2>1
  <2>6. Channel!Die(a)
    BY <1>2, <2>1, <2>2, <2>3, <2>4, <2>5 DEF Channel!Die, Pending, Told, Copies
  <2> QED BY <2>6 DEF Channel!Next
<1> QED
  BY <1>3, <1>4, <1>5, <1>6, <1>7, <1>8 DEF AppRuns

\* The driver is a channel to its programs, for any frame, blocks, programs, failures and
\* queue limit, though read_frame stores the status word and raises the flag without the
\* mutex, and the program copies the page without it.
THEOREM ChannelImplemented == Spec => ImplementsChannel
<1>1. TypeOK /\ TypeOK' /\ FrameInv /\ [Next]_vars => [Channel!Next]_chanVars
  <2> SUFFICES ASSUME TypeOK, TypeOK', FrameInv, [Next]_vars PROVE [Channel!Next]_chanVars
    OBVIOUS
  <2>1. CASE Measure
    <3>1. /\ meas' = meas + 1
          /\ UNCHANGED <<frame, sendSignal, pcA, sigq, cur, copied, rawData, pcW>>
      BY <2>1 DEF Measure, waitVars, appVars
    <3>2. UNCHANGED <<Reached, PassUnderWay, Dead, Handling, Pending, Told, Copies>>
      BY <3>1, ProgramsUnseen DEF Reached, FrameFresherThan, PassUnderWay, Pending
    <3>3. Channel!Arrive
      BY <3>1, <3>2 DEF Channel!Arrive, Pending, Told, Copies
    <3> QED BY <3>3 DEF Channel!Next
  <2>2. CASE GetThread
    <3>1. UNCHANGED <<meas, frame, sendSignal, pcA, sigq, cur, copied, rawData, pcW>>
      BY <2>2 DEF GetThread, GTop, GLock, GRead, GPublish, GRaise, sensorVars, waitVars, appVars
    <3> QED BY <3>1, Unseen DEF PassUnderWay
  <2>3. CASE WaitThread
    <3>1. CASE WTop \/ WWake \/ WBlockFails \/ WBlocksDone \/ WReset
      <4>1. UNCHANGED <<meas, frame, sendSignal, pcA, sigq, cur, copied, rawData>>
        BY <3>1 DEF WTop, WWake, WBlockFails, WBlocksDone, WReset, sensorVars, appVars
      <4>2. PassUnderWay' = PassUnderWay
        BY <3>1 DEF WTop, WWake, WBlockFails, WBlocksDone, WReset, PassUnderWay
      <4> QED BY <4>1, <4>2, Unseen
    <3>2. CASE WLock
      <4>1. /\ UNCHANGED <<meas, frame, sendSignal, pcA, sigq, cur, copied, rawData>>
            /\ pcW = "lock" /\ pcW' = "block"
        BY <3>2 DEF WLock, sensorVars, appVars
      <4>2. PassUnderWay = FALSE /\ PassUnderWay' = TRUE
        BY <4>1 DEF PassUnderWay
      <4>3. UNCHANGED <<Reached, Dead, Handling, Pending, Told, Copies>>
        BY <4>1, ProgramsUnseen DEF Reached, FrameFresherThan, Pending
      <4>4. Channel!Begin
        BY <4>1, <4>2, <4>3 DEF Channel!Begin, Pending, Told, Copies
      <4> QED BY <4>4 DEF Channel!Next
    <3>3. CASE WBlock
      BY <3>3, BlockRenews DEF Channel!Next
    <3>4. CASE WSignal
      BY <3>4, SignalAnnounces DEF Channel!Next
    <3> QED BY <2>3, <3>1, <3>2, <3>3, <3>4 DEF WaitThread
  <2>4. CASE \E a \in Apps : AppRuns(a) \/ AKilled(a)
    BY <2>4, ProgramStep
  <2>5. CASE Exit
    <3>1. UNCHANGED <<meas, frame, sendSignal, pcA, sigq, cur, copied, rawData, pcW>>
      BY <2>5 DEF Exit, XBegin, XReadStopped, XNewStopped, sensorVars, waitVars, appVars
    <3> QED BY <3>1, Unseen DEF PassUnderWay
  <2>6. CASE UNCHANGED vars
    BY <2>6, Unseen DEF vars, PassUnderWay, sensorVars, waitVars, appVars
  <2> QED BY <2>1, <2>2, <2>3, <2>4, <2>5, <2>6 DEF Next
<1> QED
  BY ChannelInit, TypeCorrect, FrameInvariant, <1>1, PTL
     DEF Spec, ImplementsChannel, Channel!Spec, Channel!vars, chanVars, Pending, Told, Copies
=============================================================================
