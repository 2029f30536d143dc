---------------------------- MODULE UavSequencer ----------------------------
(***************************************************************************)
(* The real-time schedule of uav_project.c.  Three SCHED_FIFO threads are  *)
(* pinned to CPU 0: the sequencer (highest priority) posts two semaphores  *)
(* on a fixed pattern, funcCTL (next) does a fixed amount of work per      *)
(* post, funcNAV (lowest) waits for a packet of the flight simulator and   *)
(* then works.  main blocks until the simulator and the ground station     *)
(* have been heard of, and then starts the threads.                        *)
(*                                                                         *)
(* Time is discrete; a step other than Tick takes no time.  A thread works *)
(* only while none of higher priority can run, and each piece of work may  *)
(* take any time up to its budget.                                         *)
(***************************************************************************)
EXTENDS Integers

CONSTANTS
    Pause,     \* ticks in usleep(20*USER_PER_MSEC)
    CtlWork,   \* most ticks of work per release of funcCTL (C1 in the start message)
    NavWork,   \* most ticks of work per packet in funcNAV (C2)
    MaxSem,    \* limit of a semaphore's count (SEM_VALUE_MAX)
    MaxInbox   \* packets the UDP socket holds; more are dropped

ASSUME ScheduleAssumption ==
    /\ Pause \in Nat \ {0} /\ CtlWork \in Nat \ {0} /\ NavWork \in Nat \ {0}
    /\ MaxSem \in Nat \ {0} /\ MaxInbox \in Nat \ {0}

VARIABLES
    main,          \* where main is: "getData", "sendData", "config", "running"
    phase, sleep,  \* sequencer: what it does when its sleep, in ticks, is over
    semCTL, semNAV,
    ctl, ctlLeft,  \* funcCTL: "none", "wait", "work"; ticks of work left
    nav, navLeft,  \* funcNAV: also "recv", in recvfrom
    simulator,     \* "prompt" always has a packet waiting, "free" sends when it likes
    inbox          \* packets waiting in sock_in

seqVars == <<phase, sleep, semCTL, semNAV>>
ctlVars == <<ctl, ctlLeft>>
navVars == <<nav, navLeft>>
vars == <<main, seqVars, ctlVars, navVars, simulator, inbox>>

Init ==
    /\ main = "getData"
    /\ phase = "off" /\ sleep = 0
    /\ semCTL = 0 /\ semNAV = 0
    /\ ctl = "none" /\ ctlLeft = 0
    /\ nav = "none" /\ navLeft = 0
    /\ simulator \in {"prompt", "free"}
    /\ inbox = IF simulator = "prompt" THEN 1 ELSE 0

\* sem_post fails at the limit, and its result is not looked at.
Posted(sem) == IF sem < MaxSem THEN sem + 1 ELSE sem

\* A packet is taken from the socket; a prompt simulator has sent the next by then.
Taken == IF simulator = "prompt" THEN inbox ELSE inbox - 1

-----------------------------------------------------------------------------
(* main *)

\* init_getData: recvfrom of the first packet of the simulator.
MainGetData ==
    /\ main = "getData" /\ inbox > 0
    /\ inbox' = Taken
    /\ main' = "sendData"
    /\ UNCHANGED <<simulator, seqVars, ctlVars, navVars>>

\* init_sendData: the ground station sends a datagram (at any time).
MainSendData ==
    /\ main = "sendData"
    /\ main' = "config"
    /\ UNCHANGED <<simulator, seqVars, ctlVars, navVars, inbox>>

\* The devices are opened (failures are ignored), funcCTL and funcNAV are created and
\* block on their semaphores, 300 ms later the sequencer is.
MainCreate ==
    /\ main = "config"
    /\ main' = "running"
    /\ phase' = "first" /\ sleep' = 0
    /\ ctl' = "wait" /\ nav' = "wait"
    /\ UNCHANGED <<simulator, semCTL, semNAV, ctlLeft, navLeft, inbox>>

-----------------------------------------------------------------------------
(* sequencer *)
Awake(p) == phase = p /\ sleep = 0

SeqFirst ==
    /\ Awake("first")
    /\ semNAV' = Posted(semNAV) /\ semCTL' = Posted(semCTL)
    /\ phase' = "second" /\ sleep' = Pause
    /\ UNCHANGED <<main, simulator, ctlVars, navVars, inbox>>

SeqSecond ==
    /\ Awake("second")
    /\ semCTL' = Posted(semCTL)
    /\ phase' = "third" /\ sleep' = Pause
    /\ UNCHANGED <<main, simulator, semNAV, ctlVars, navVars, inbox>>

\* MajorPeriodCnt, which nothing reads, is left out; the loop never ends.
SeqThird ==
    /\ Awake("third")
    /\ semNAV' = Posted(semNAV)
    /\ phase' = "first" /\ sleep' = Pause
    /\ UNCHANGED <<main, simulator, semCTL, ctlVars, navVars, inbox>>

Sequencer == SeqFirst \/ SeqSecond \/ SeqThird
SequencerReady == phase # "off" /\ sleep = 0

-----------------------------------------------------------------------------
(* funcCTL and funcNAV: the steps that take no time *)
CtlReady == ctl = "wait" /\ semCTL > 0

CtlWait ==
    /\ CtlReady /\ ~SequencerReady
    /\ semCTL' = semCTL - 1
    /\ ctl' = "work" /\ ctlLeft' \in 1..CtlWork
    /\ UNCHANGED <<main, simulator, phase, sleep, semNAV, navVars, inbox>>

CpuForNav == ~SequencerReady /\ ~CtlReady /\ ctl # "work"
NavReady == (nav = "wait" /\ semNAV > 0) \/ (nav = "recv" /\ inbox > 0)

NavWait ==
    /\ nav = "wait" /\ semNAV > 0 /\ CpuForNav
    /\ semNAV' = semNAV - 1
    /\ nav' = "recv"
    /\ UNCHANGED <<main, simulator, phase, sleep, semCTL, ctlVars, navLeft, inbox>>

NavRecv ==
    /\ nav = "recv" /\ inbox > 0 /\ CpuForNav
    /\ inbox' = Taken
    /\ nav' = "work" /\ navLeft' \in 1..NavWork
    /\ UNCHANGED <<main, simulator, seqVars, ctlVars>>

\* The simulator sends a packet.
Packet ==
    /\ simulator = "free"
    /\ inbox' = IF inbox < MaxInbox THEN inbox + 1 ELSE inbox
    /\ UNCHANGED <<main, simulator, seqVars, ctlVars, navVars>>

-----------------------------------------------------------------------------
(* Time passes when nobody has a step to take; the thread of highest priority that   *)
(* has work does a tick of it and, at its end, goes back to sem_wait.                *)

\* Slip: limit is never 0, the do-while loop does not end.
CtlTick_Loops ==
    IF ctlLeft = 1 THEN ctl' = "work" /\ ctlLeft' = CtlWork
                   ELSE ctlLeft' = ctlLeft - 1 /\ ctl' = ctl

CtlTick ==
    IF ctlLeft = 1 THEN ctl' = "wait" /\ ctlLeft' = 0
                   ELSE ctlLeft' = ctlLeft - 1 /\ ctl' = ctl

NavTick ==
    IF navLeft = 1 THEN nav' = "wait" /\ navLeft' = 0
                   ELSE navLeft' = navLeft - 1 /\ nav' = nav

\* Slip: priorities grow with the thread index (rt_min_prio+i).
Tick_NavFirst ==
    /\ main = "running"
    /\ ~SequencerReady /\ ~CtlReady /\ ~(CpuForNav /\ NavReady)
    /\ sleep' = sleep - 1
    /\ \/ nav = "work" /\ NavTick /\ UNCHANGED ctlVars
       \/ nav # "work" /\ ctl = "work" /\ CtlTick /\ UNCHANGED navVars
       \/ ctl # "work" /\ nav # "work" /\ UNCHANGED <<ctlVars, navVars>>
    /\ UNCHANGED <<main, simulator, phase, semCTL, semNAV, inbox>>

Tick ==
    /\ main = "running"
    /\ ~SequencerReady /\ ~CtlReady /\ ~(CpuForNav /\ NavReady)
    /\ sleep' = sleep - 1
    /\ \/ ctl = "work" /\ CtlTick /\ UNCHANGED navVars
       \/ ctl # "work" /\ nav = "work" /\ NavTick /\ UNCHANGED ctlVars
       \/ ctl # "work" /\ nav # "work" /\ UNCHANGED <<ctlVars, navVars>>
    /\ UNCHANGED <<main, simulator, phase, semCTL, semNAV, inbox>>

Main == MainGetData \/ MainSendData \/ MainCreate
Threads == Sequencer \/ CtlWait \/ NavWait \/ NavRecv \/ Tick

Next == Main \/ Threads \/ Packet

Spec == Init /\ [][Next]_vars

\* Time passes, ready threads run, and main goes on once it has what it waits for.
FairSpec == Spec /\ WF_vars(Threads) /\ WF_vars(Main)

-----------------------------------------------------------------------------
(* Properties *)

\* Types.
TypeOK ==
    /\ main \in {"getData", "sendData", "config", "running"}
    /\ phase \in {"off", "first", "second", "third"} /\ sleep \in 0..Pause
    /\ semCTL \in 0..MaxSem /\ semNAV \in 0..MaxSem
    /\ ctl \in {"none", "wait", "work"} /\ ctlLeft \in 0..CtlWork
    /\ nav \in {"none", "wait", "recv", "work"} /\ navLeft \in 0..NavWork
    /\ simulator \in {"prompt", "free"} /\ inbox \in 0..MaxInbox

\* funcCTL is done with a release before the next one, also while the simulator is silent
\* and funcNAV has a backlog to work off.  With a simulator that always has a packet,
\* funcNAV too is done before its next release, though it is preempted and the pattern
\* leaves the CPU no idle tick.
OnTime ==
    /\ semCTL + (IF ctl = "work" THEN 1 ELSE 0) <= 1
    /\ simulator = "prompt" => semNAV + (IF nav \in {"recv", "work"} THEN 1 ELSE 0) <= 1

\* Every release of funcNAV leads to the work on a packet if the simulator never falls
\* silent for good, however often funcCTL preempts it.
NavNotStarved == []<>(inbox > 0) => (semNAV > 0 ~> nav = "work")
=============================================================================
