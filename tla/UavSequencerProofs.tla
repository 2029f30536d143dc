------------------------- MODULE UavSequencerProofs -------------------------
(***************************************************************************)
(* A schedulability proof for the sequencer's pattern: for which budgets   *)
(* and pauses funcCTL and funcNAV meet their releases.                     *)
(***************************************************************************)
EXTENDS UavSequencer, TLAPS

\* funcCTL fits between two wake-ups of the sequencer, funcNAV between the last and the
\* first of a cycle, and between the first and the last it fits with two runs of funcCTL.
Schedulable ==
    /\ CtlWork <= Pause /\ NavWork <= Pause
    /\ 2 * CtlWork + NavWork <= 2 * Pause

\* The work that may be left of what has been released.
CtlDemand == IF semCTL > 0 THEN ctlLeft + CtlWork ELSE ctlLeft
NavDemand == IF semNAV > 0 \/ nav = "recv" THEN navLeft + NavWork ELSE navLeft

\* Each service has one release at most to work off; a prompt simulator is.
Released ==
    /\ TypeOK
    /\ semCTL + (IF ctl = "work" THEN 1 ELSE 0) <= 1
    /\ simulator = "prompt" => semNAV + (IF nav \in {"recv", "work"} THEN 1 ELSE 0) <= 1
    /\ ctl = "work" <=> ctlLeft > 0
    /\ nav = "work" <=> navLeft > 0
    /\ simulator = "prompt" => inbox > 0
    /\ main = "running" <=> phase # "off"
    /\ phase = "off" => semCTL = 0 /\ semNAV = 0 /\ ctl = "none" /\ nav = "none"
    /\ phase # "off" => ctl # "none" /\ nav # "none"

\* What is left fits in the time there is until the next release of the same service: for
\* funcCTL the next wake-up; for funcNAV the wake-up after it in phase "second", with one
\* more run of funcCTL before it.
InTime ==
    /\ phase # "off" => CtlDemand <= sleep
    /\ simulator = "prompt" =>
        /\ phase = "second" => CtlDemand + NavDemand + CtlWork <= sleep + Pause
        /\ phase \in {"third", "first"} => CtlDemand + NavDemand <= sleep

SchedInv == Released /\ InTime

LEMMA SchedInit == Init => SchedInv
  BY ScheduleAssumption
     DEF Init, SchedInv, Released, InTime, TypeOK, CtlDemand, NavDemand

LEMMA MainStep == SchedInv /\ Main => SchedInv'
  <1> SUFFICES ASSUME SchedInv, Main PROVE SchedInv'
    OBVIOUS
  <1> USE ScheduleAssumption
  <1>1. UNCHANGED <<simulator, semCTL, semNAV, ctlLeft, navLeft>>
    BY DEF Main, MainGetData, MainSendData, MainCreate, seqVars, ctlVars, navVars
  <1>2. inbox' \in 0..MaxInbox /\ (simulator' = "prompt" => inbox' > 0)
    BY <1>1 DEF Main, MainGetData, MainSendData, MainCreate, Taken, SchedInv, Released, TypeOK
  <1>3. CASE MainGetData \/ MainSendData
    <2>1. UNCHANGED <<phase, sleep, ctl, nav>> /\ main' \in {"sendData", "config"}
          /\ main # "running"
      BY <1>3 DEF MainGetData, MainSendData, seqVars, ctlVars, navVars
    <2> QED
      BY <1>1, <1>2, <2>1
         DEF SchedInv, Released, InTime, TypeOK, CtlDemand, NavDemand
  <1>4. CASE MainCreate
    <2>1. /\ main' = "running" /\ phase' = "first" /\ sleep' = 0 /\ ctl' = "wait" /\ nav' = "wait"
          /\ main = "config"
      BY <1>4 DEF MainCreate
    <2>2. semCTL = 0 /\ semNAV = 0 /\ ctl = "none" /\ nav = "none"
      BY <2>1 DEF SchedInv, Released, TypeOK
    <2>3. ctlLeft = 0 /\ navLeft = 0
      BY <2>2 DEF SchedInv, Released, TypeOK
    <2> QED
      BY <1>1, <1>2, <2>1, <2>2, <2>3
         DEF SchedInv, Released, InTime, TypeOK, CtlDemand, NavDemand
  <1> QED
    BY <1>3, <1>4 DEF Main

LEMMA SequencerStep ==
    ASSUME Schedulable, SchedInv, Sequencer
    PROVE  SchedInv'
  <1> USE ScheduleAssumption DEF SchedInv, Released, InTime, TypeOK, CtlDemand, NavDemand,
                              Schedulable, Awake, Posted, ctlVars, navVars
  <1>1. UNCHANGED <<main, simulator, ctl, ctlLeft, nav, navLeft, inbox>>
    BY DEF Sequencer, SeqFirst, SeqSecond, SeqThird
  <1>2. sleep = 0 /\ sleep' = Pause /\ phase # "off"
    BY DEF Sequencer, SeqFirst, SeqSecond, SeqThird
  <1>3. semCTL = 0 /\ ctlLeft = 0 /\ ctl # "work"
    BY <1>2
  <1>4. CASE SeqFirst
    <2>1. phase = "first" /\ phase' = "second" /\ semCTL' = 1
          /\ semNAV' = IF semNAV < MaxSem THEN semNAV + 1 ELSE semNAV
      BY <1>4, <1>3 DEF SeqFirst
    <2>2. simulator = "prompt" => semNAV = 0 /\ nav # "recv" /\ navLeft = 0
      BY <1>2, <2>1
    <2> QED
      BY <1>1, <1>2, <1>3, <2>1, <2>2
  <1>5. CASE SeqSecond
    <2>1. phase = "second" /\ phase' = "third" /\ semCTL' = 1 /\ UNCHANGED semNAV
      BY <1>5, <1>3 DEF SeqSecond
    <2> QED
      BY <1>1, <1>2, <1>3, <2>1
  <1>6. CASE SeqThird
    <2>1. phase = "third" /\ phase' = "first" /\ UNCHANGED semCTL
          /\ semNAV' = IF semNAV < MaxSem THEN semNAV + 1 ELSE semNAV
      BY <1>6 DEF SeqThird
    <2>2. simulator = "prompt" => semNAV = 0 /\ nav # "recv" /\ navLeft = 0
      BY <1>2, <2>1
    <2> QED
      BY <1>1, <1>2, <1>3, <2>1, <2>2
  <1> QED
    BY <1>4, <1>5, <1>6 DEF Sequencer

LEMMA Demands ==
    ASSUME TypeOK
    PROVE  CtlDemand \in Int /\ NavDemand \in Int /\ sleep \in Int
  BY ScheduleAssumption DEF TypeOK, CtlDemand, NavDemand

LEMMA LessOfTwo ==
    ASSUME NEW c \in Int, NEW n \in Int, NEW d \in Int, NEW m \in Int, NEW s \in Int,
           d <= c, m <= n, c + n <= s
    PROVE  d + m <= s
  OBVIOUS

LEMMA LessOfThree ==
    ASSUME NEW c \in Int, NEW n \in Int, NEW d \in Int, NEW m \in Int, NEW w \in Int,
           NEW s \in Int, d <= c, m <= n, c + n + w <= s
    PROVE  d + m + w <= s
  OBVIOUS

\* Steps that take no time and release nothing.
LEMMA NothingAdded ==
    ASSUME TypeOK, TypeOK', InTime, UNCHANGED <<simulator, phase, sleep>>,
           CtlDemand' <= CtlDemand, simulator = "prompt" => NavDemand' <= NavDemand
    PROVE  InTime'
  <1>1. /\ CtlDemand \in Int /\ NavDemand \in Int /\ sleep \in Int
        /\ CtlDemand' \in Int /\ NavDemand' \in Int
    BY ScheduleAssumption DEF TypeOK, CtlDemand, NavDemand
  <1>2. Pause \in Int /\ CtlWork \in Int
    BY ScheduleAssumption
  <1>3. phase' # "off" => CtlDemand' <= sleep'
    BY <1>1 DEF InTime
  <1>4. ASSUME simulator' = "prompt"
        PROVE  /\ phase' = "second" => CtlDemand' + NavDemand' + CtlWork <= sleep' + Pause
               /\ phase' \in {"third", "first"} => CtlDemand' + NavDemand' <= sleep'
    <2>1. simulator = "prompt" /\ phase' = phase /\ sleep' = sleep
      BY <1>4
    <2>2. CtlDemand' <= CtlDemand /\ NavDemand' <= NavDemand /\ sleep + Pause \in Int
      BY <1>1, <1>2, <2>1
    <2>3. phase = "second" => CtlDemand + NavDemand + CtlWork <= sleep + Pause
      BY <2>1 DEF InTime
    <2>4. phase \in {"third", "first"} => CtlDemand + NavDemand <= sleep
      BY <2>1 DEF InTime
    <2>5. ASSUME phase = "second"
          PROVE  CtlDemand' + NavDemand' + CtlWork <= sleep + Pause
      BY <1>1, <1>2, <2>2, <2>3, <2>5, LessOfThree
    <2>6. ASSUME phase \in {"third", "first"}
          PROVE  CtlDemand' + NavDemand' <= sleep
      BY <1>1, <1>2, <2>2, <2>4, <2>6, LessOfTwo
    <2> QED
      BY <2>1, <2>5, <2>6
  <1> QED
    BY <1>3, <1>4 DEF InTime

LEMMA ServiceStep ==
    ASSUME SchedInv, CtlWait \/ NavWait \/ NavRecv \/ Packet
    PROVE  SchedInv'
  <1>1. CASE CtlWait
    <2>1. /\ semCTL = 1 /\ ctl = "wait" /\ ctlLeft = 0 /\ semCTL' = 0
          /\ ctl' = "work" /\ ctlLeft' \in 1..CtlWork
          /\ UNCHANGED <<main, simulator, phase, sleep, semNAV, nav, navLeft, inbox>>
      BY <1>1 DEF CtlWait, CtlReady, SchedInv, Released, TypeOK, navVars
    <2>2. Released'
      BY <2>1, ScheduleAssumption DEF SchedInv, Released, TypeOK
    <2>3. CtlDemand = ctlLeft + CtlWork /\ CtlDemand' = ctlLeft' /\ NavDemand' = NavDemand
      BY <2>1 DEF CtlDemand, NavDemand
    <2>4. NavDemand \in Int
      BY Demands DEF SchedInv, Released
    <2>5. CtlDemand' <= CtlDemand /\ NavDemand' <= NavDemand
      BY <2>1, <2>3, <2>4, ScheduleAssumption
    <2> QED
      BY <2>1, <2>2, <2>5, NothingAdded DEF SchedInv, Released
  <1>2. CASE NavWait
    <2>1. /\ nav = "wait" /\ semNAV > 0 /\ semNAV' = semNAV - 1 /\ nav' = "recv"
          /\ UNCHANGED <<main, simulator, phase, sleep, semCTL, ctl, ctlLeft, navLeft, inbox>>
      BY <1>2 DEF NavWait, ctlVars
    <2>2. Released'
      BY <2>1, ScheduleAssumption DEF SchedInv, Released, TypeOK
    <2>3. CtlDemand' = CtlDemand /\ NavDemand' = NavDemand
      BY <2>1 DEF CtlDemand, NavDemand
    <2>4. CtlDemand \in Int /\ NavDemand \in Int
      BY Demands DEF SchedInv, Released
    <2> QED
      BY <2>1, <2>2, <2>3, <2>4, NothingAdded DEF SchedInv, Released
  <1>3. CASE NavRecv
    <2>1. /\ nav = "recv" /\ navLeft = 0 /\ nav' = "work" /\ navLeft' \in 1..NavWork
          /\ inbox > 0 /\ inbox' = Taken
          /\ UNCHANGED <<main, simulator, phase, sleep, semCTL, semNAV, ctl, ctlLeft>>
      BY <1>3 DEF NavRecv, SchedInv, Released, TypeOK, seqVars, ctlVars
    <2>2. inbox' \in 0..MaxInbox /\ (simulator = "prompt" => inbox' > 0)
      BY <2>1, ScheduleAssumption DEF Taken, SchedInv, Released, TypeOK
    <2>3. Released'
      BY <2>1, <2>2, ScheduleAssumption DEF SchedInv, Released, TypeOK
    <2>4. CtlDemand' = CtlDemand /\ CtlDemand \in Int
      BY <2>1, Demands DEF CtlDemand, SchedInv, Released
    <2>5. ASSUME simulator = "prompt" PROVE NavDemand' <= NavDemand
      <3>1. semNAV = 0 /\ semNAV' = 0
        BY <2>1, <2>5 DEF SchedInv, Released, TypeOK
      <3>2. NavDemand = navLeft + NavWork /\ NavDemand' = navLeft'
        BY <2>1, <3>1 DEF NavDemand
      <3> QED
        BY <2>1, <3>2, ScheduleAssumption
    <2> QED
      BY <2>1, <2>3, <2>4, <2>5, NothingAdded DEF SchedInv, Released
  <1>4. CASE Packet
    <2>1. /\ simulator = "free" /\ inbox' \in 0..MaxInbox
          /\ UNCHANGED <<main, simulator, phase, sleep, semCTL, semNAV, ctl, ctlLeft, nav, navLeft>>
      BY <1>4, ScheduleAssumption
         DEF Packet, SchedInv, Released, TypeOK, seqVars, ctlVars, navVars
    <2>2. Released'
      BY <2>1, ScheduleAssumption DEF SchedInv, Released, TypeOK
    <2>3. CtlDemand' = CtlDemand /\ NavDemand' = NavDemand
      BY <2>1 DEF CtlDemand, NavDemand
    <2>4. CtlDemand \in Int /\ NavDemand \in Int
      BY Demands DEF SchedInv, Released
    <2> QED
      BY <2>1, <2>2, <2>3, <2>4, NothingAdded DEF SchedInv, Released
  <1> QED
    BY <1>1, <1>2, <1>3, <1>4

LEMMA TickStep ==
    ASSUME Schedulable, SchedInv, Tick
    PROVE  SchedInv'
  <1>1. /\ UNCHANGED <<main, simulator, phase, semCTL, semNAV, inbox>>
        /\ sleep' = sleep - 1 /\ main = "running"
    BY DEF Tick
  <1>2. phase # "off" /\ sleep > 0 /\ ~CtlReady /\ sleep \in Int
    BY <1>1, ScheduleAssumption DEF Tick, SequencerReady, SchedInv, Released, TypeOK
  <1>3. TypeOK /\ InTime /\ CtlDemand \in Int /\ NavDemand \in Int
    BY Demands DEF SchedInv, Released
  <1>4. CASE ctl = "work" /\ CtlTick /\ UNCHANGED navVars
    <2>1. /\ ctlLeft \in 1..CtlWork /\ semCTL = 0 /\ semCTL' = 0
          /\ ctlLeft' = ctlLeft - 1 /\ ctl' = IF ctlLeft = 1 THEN "wait" ELSE "work"
          /\ UNCHANGED <<nav, navLeft>>
      BY <1>1, <1>4, ScheduleAssumption DEF CtlTick, navVars, SchedInv, Released, TypeOK
    <2>2. Released'
      BY <1>1, <1>2, <1>4, <2>1, ScheduleAssumption DEF SchedInv, Released, TypeOK
    <2>3. CtlDemand' = CtlDemand - 1 /\ NavDemand' = NavDemand
      BY <1>1, <2>1 DEF CtlDemand, NavDemand
    <2>4. InTime'
      BY <1>1, <1>2, <1>3, <2>3, ScheduleAssumption DEF InTime
    <2> QED
      BY <2>2, <2>4 DEF SchedInv
  <1>5. CASE ctl # "work" /\ nav = "work" /\ NavTick /\ UNCHANGED ctlVars
    <2>1. /\ navLeft \in 1..NavWork /\ navLeft' = navLeft - 1
          /\ nav' = IF navLeft = 1 THEN "wait" ELSE "work"
          /\ UNCHANGED <<ctl, ctlLeft>>
      BY <1>5, ScheduleAssumption DEF NavTick, ctlVars, SchedInv, Released, TypeOK
    <2>2. Released'
      BY <1>1, <1>2, <1>5, <2>1, ScheduleAssumption DEF SchedInv, Released, TypeOK
    <2>3. semCTL = 0 /\ semCTL' = 0 /\ ctlLeft = 0 /\ ctlLeft' = 0
      BY <1>1, <1>2, <1>5, <2>1, ScheduleAssumption DEF CtlReady, SchedInv, Released, TypeOK
    <2>4. CtlDemand = 0 /\ CtlDemand' = 0
      BY <2>3 DEF CtlDemand
    <2>5. ASSUME simulator = "prompt" PROVE NavDemand = navLeft /\ NavDemand' = navLeft'
      BY <1>1, <1>5, <2>1, <2>5 DEF NavDemand, SchedInv, Released, TypeOK
    <2>6. InTime'
      BY <1>1, <1>2, <1>3, <2>1, <2>4, <2>5, ScheduleAssumption DEF InTime
    <2> QED
      BY <2>2, <2>6 DEF SchedInv
  <1>6. CASE ctl # "work" /\ nav # "work" /\ UNCHANGED <<ctlVars, navVars>>
    <2>1. CpuForNav
      BY <1>1, <1>2, <1>6 DEF CpuForNav, SequencerReady
    <2>2. ~NavReady
      BY <2>1 DEF Tick
    <2>3. UNCHANGED <<ctl, ctlLeft, nav, navLeft>>
      BY <1>6 DEF ctlVars, navVars
    <2>4. semCTL = 0 /\ ctlLeft = 0 /\ navLeft = 0
      BY <1>2, <1>6, ScheduleAssumption DEF CtlReady, SchedInv, Released, TypeOK
    <2>5. ASSUME simulator = "prompt" PROVE semNAV = 0 /\ nav # "recv"
      BY <2>2, <2>5, <1>2, <1>6 DEF NavReady, SchedInv, Released, TypeOK
    <2>6. Released'
      BY <1>1, <1>2, <2>3, ScheduleAssumption DEF SchedInv, Released, TypeOK
    <2>7. CtlDemand' = 0 /\ (simulator = "prompt" => NavDemand' = 0)
      BY <1>1, <2>3, <2>4, <2>5 DEF CtlDemand, NavDemand
    <2>8. InTime'
      BY <1>1, <1>2, <2>7, ScheduleAssumption DEF InTime, Schedulable
    <2> QED
      BY <2>6, <2>8 DEF SchedInv
  <1> QED
    BY <1>4, <1>5, <1>6 DEF Tick

\* The two services are on time for every budget and pause that are Schedulable, although
\* nothing checks it when the program runs, and with no tick to spare: the budgets that the
\* start message announces, 10 and 20 ms, fill 40 of 40 ms.
THEOREM ServicesAreOnTime ==
    ASSUME Schedulable
    PROVE  Spec => []OnTime
  <1>1. SchedInv /\ [Next]_vars => SchedInv'
    <2> SUFFICES ASSUME SchedInv, [Next]_vars PROVE SchedInv'
      OBVIOUS
    <2>1. CASE UNCHANGED vars
      BY <2>1 DEF vars, seqVars, ctlVars, navVars, SchedInv, Released, InTime, TypeOK,
                  CtlDemand, NavDemand
    <2> QED
      BY <2>1, Schedulable, MainStep, SequencerStep, ServiceStep, TickStep DEF Next, Threads
  <1>2. SchedInv => OnTime
    BY DEF SchedInv, Released, OnTime
  <1> QED
    BY SchedInit, <1>1, <1>2, PTL DEF Spec
=============================================================================
