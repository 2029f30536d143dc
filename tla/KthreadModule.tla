--------------------------- MODULE KthreadModule ---------------------------
(***************************************************************************)
(* kernel/kthread_module/kthread.c and the program mlx90640_ir.c-signal    *)
(* that uses /dev/etx_device: the experiment the thermal camera driver     *)
(* grew out of.  thread_function raises a flag on every third of its       *)
(* turns, thread_wait fills a page that is mapped into the program, sends  *)
(* the registered task a signal and drops the flag.  Nothing is locked.    *)
(***************************************************************************)
EXTENDS Integers, Sequences, FiniteSets

CONSTANTS
    Apps,        \* tasks that run the program
    NoTask,      \* the NULL task pointer
    MaxQueue,    \* pending real-time signals of a task
    MaxPass      \* bound: passes of thread_wait that are told apart (later ones count as it)

ASSUME KthreadAssumption ==
    /\ NoTask \notin Apps
    /\ MaxQueue \in Nat \ {0} /\ MaxPass \in Nat \ {0}

Halves == {1, 2}   \* the 32 bytes of the page, in two parts

VARIABLES
    flag,        \* wait_queue_flag
    task,        \* task
    turn,        \* thread_function: i, modulo 3
    pcF, pcW,    \* thread_function, thread_wait: next step
    pass,        \* passes of thread_wait so far: conSignal, without its wrap at 256
    page,        \* my_data: the pass that wrote each half
    pcX, stopF, stopW,   \* cleanup_module: next step; KTHREAD_SHOULD_STOP bits
    pcA,         \* per task: next step of the program
    sigq,        \* per task: pending signals
    cur, seen    \* per task: the signal being handled, the halves copied from the page

modVars == <<task, pcW, pass, page>>
exitVars == <<pcX, stopF, stopW>>
appVars == <<pcA, cur, seen>>
vars == <<flag, turn, pcF, modVars, exitVars, appVars, sigq>>

Init ==
    /\ flag = FALSE /\ task = NoTask
    /\ turn = 0 /\ pcF = "top" /\ pcW = "top"
    /\ pass = 0 /\ page = [h \in Halves |-> 0]
    /\ pcX = "loaded" /\ stopF = FALSE /\ stopW = FALSE
    /\ pcA = [a \in Apps |-> "start"]
    /\ sigq = [a \in Apps |-> <<>>]
    /\ cur = [a \in Apps |-> 0]
    /\ seen = [a \in Apps |-> <<>>]

-----------------------------------------------------------------------------
(* thread_function *)

\* Slip: i%3 == 3.
Raises_Never(i) == i % 3 = 3

Raises(i) == i % 3 = 0

FunctionTurn ==
    /\ pcF = "top" /\ ~stopF
    /\ turn' = (turn + 1) % 3
    /\ flag' = (flag \/ Raises(turn'))
    /\ UNCHANGED <<pcF, modVars, exitVars, appVars, sigq>>

FunctionExit ==
    /\ pcF = "top" /\ stopF
    /\ pcF' = "exited"
    /\ UNCHANGED <<flag, turn, modVars, exitVars, appVars, sigq>>

-----------------------------------------------------------------------------
(* thread_wait *)
WaitTop ==
    /\ pcW = "top"
    /\ pcW' = IF stopW THEN "exited" ELSE "wait"
    /\ UNCHANGED <<flag, turn, pcF, task, pass, page, exitVars, appVars, sigq>>

WaitWake ==
    /\ pcW = "wait" /\ flag
    /\ pcW' = "fill1"
    /\ pass' = IF pass < MaxPass THEN pass + 1 ELSE pass
    /\ UNCHANGED <<flag, turn, pcF, task, page, exitVars, appVars, sigq>>

\* Slip: memset(my_data, conSignal, sizeof(my_data)).
WaitFill_SizeofPointer ==
    /\ \/ pcW = "fill1" /\ pcW' = "fill2" /\ page' = [page EXCEPT ![1] = pass]
       \/ pcW = "fill2" /\ pcW' = "test"  /\ UNCHANGED page
    /\ UNCHANGED <<flag, turn, pcF, task, pass, exitVars, appVars, sigq>>

WaitFill ==
    /\ \/ pcW = "fill1" /\ pcW' = "fill2" /\ page' = [page EXCEPT ![1] = pass]
       \/ pcW = "fill2" /\ pcW' = "test"  /\ page' = [page EXCEPT ![2] = pass]
    /\ UNCHANGED <<flag, turn, pcF, task, pass, exitVars, appVars, sigq>>

\* if(task != NULL)
WaitTest ==
    /\ pcW = "test"
    /\ pcW' = IF task = NoTask THEN "reset" ELSE "send"
    /\ UNCHANGED <<flag, turn, pcF, task, pass, page, exitVars, appVars, sigq>>

\* send_sig_info reads task again; with a null pointer the thread is killed by the fault.
WaitSend ==
    /\ pcW = "send"
    /\ IF task = NoTask
       THEN pcW' = "oops" /\ UNCHANGED sigq
       ELSE /\ pcW' = "reset"
            /\ sigq' = IF Len(sigq[task]) < MaxQueue
                       THEN [sigq EXCEPT ![task] = Append(@, pass)]
                       ELSE sigq
    /\ UNCHANGED <<flag, turn, pcF, task, pass, page, exitVars, appVars>>

WaitReset ==
    /\ pcW = "reset"
    /\ flag' = FALSE /\ pcW' = "top"
    /\ UNCHANGED <<turn, pcF, task, pass, page, exitVars, appVars, sigq>>

WaitThread == WaitTop \/ WaitWake \/ WaitFill \/ WaitTest \/ WaitSend \/ WaitReset

-----------------------------------------------------------------------------
(* The program *)
AppOpen(a) ==
    /\ pcA[a] = "start" /\ pcX = "loaded"
    /\ pcA' = [pcA EXCEPT ![a] = "open"]
    /\ UNCHANGED <<flag, turn, pcF, modVars, exitVars, cur, seen, sigq>>

\* REG_CURRENT_TASK
AppRegister(a) ==
    /\ pcA[a] = "open"
    /\ task' = a
    /\ pcA' = [pcA EXCEPT ![a] = "spin"]
    /\ UNCHANGED <<flag, turn, pcF, pcW, pass, page, exitVars, cur, seen, sigq>>

\* sig_event_handler interrupts the main loop, which only waits for it.  (It takes the
\* value 0, to which conSignal wraps, for no signal, and prints one line less.)
AppHandle(a) ==
    /\ pcA[a] = "spin" /\ sigq[a] # <<>>
    /\ pcA' = [pcA EXCEPT ![a] = "handle"]
    /\ cur' = [cur EXCEPT ![a] = Head(sigq[a])]
    /\ sigq' = [sigq EXCEPT ![a] = Tail(@)]
    /\ seen' = [seen EXCEPT ![a] = <<>>]
    /\ UNCHANGED <<flag, turn, pcF, modVars, exitVars>>

\* memcpy of the page, a half at a time, and the handler's end.
AppCopy(a) ==
    /\ pcA[a] = "handle"
    /\ IF Len(seen[a]) < Cardinality(Halves)
       THEN /\ seen' = [seen EXCEPT ![a] = Append(@, page[Len(@) + 1])]
            /\ UNCHANGED pcA
       ELSE /\ pcA' = [pcA EXCEPT ![a] = "spin"]
            /\ UNCHANGED seen
    /\ UNCHANGED <<flag, turn, pcF, modVars, exitVars, cur, sigq>>

Alive == {"open", "spin", "handle"}

\* Slip: release does not look at who is registered.
AppKilled_KeepsTask(a) ==
    /\ pcA[a] \in Alive
    /\ pcA' = [pcA EXCEPT ![a] = "dead"]
    /\ sigq' = [sigq EXCEPT ![a] = <<>>]
    /\ UNCHANGED <<flag, turn, pcF, modVars, exitVars, cur, seen>>

\* The program, which has no exit, is killed.  etx_release runs in the dying task.
AppKilled(a) ==
    /\ pcA[a] \in Alive
    /\ pcA' = [pcA EXCEPT ![a] = "dead"]
    /\ sigq' = [sigq EXCEPT ![a] = <<>>]
    /\ task' = IF task = a THEN NoTask ELSE task
    /\ UNCHANGED <<flag, turn, pcF, pcW, pass, page, exitVars, cur, seen>>

-----------------------------------------------------------------------------
(* cleanup_module, refused while a task has the device open *)
CleanupBegin ==
    /\ pcX = "loaded" /\ \A a \in Apps : pcA[a] \notin Alive
    /\ stopF' = TRUE /\ pcX' = "join_1"
    /\ UNCHANGED <<flag, turn, pcF, modVars, stopW, appVars, sigq>>

\* Slip: kthread_1 is stopped twice.
CleanupSecond_Again ==
    /\ pcX = "join_1" /\ pcF = "exited"
    /\ pcX' = "join_2"
    /\ UNCHANGED <<flag, turn, pcF, modVars, stopF, stopW, appVars, sigq>>

CleanupSecond ==
    /\ pcX = "join_1" /\ pcF = "exited"
    /\ stopW' = TRUE /\ pcX' = "join_2"
    /\ UNCHANGED <<flag, turn, pcF, modVars, stopF, appVars, sigq>>

\* my_data is not freed.
CleanupEnd ==
    /\ pcX = "join_2" /\ pcW \in {"exited", "oops"}
    /\ pcX' = "unloaded"
    /\ UNCHANGED <<flag, turn, pcF, modVars, stopF, stopW, appVars, sigq>>

AppRuns(a) == AppHandle(a) \/ AppCopy(a)

Next ==
    \/ FunctionTurn \/ FunctionExit
    \/ WaitThread
    \/ \E a \in Apps : AppOpen(a) \/ AppRegister(a) \/ AppRuns(a) \/ AppKilled(a)
    \/ CleanupBegin \/ CleanupSecond \/ CleanupEnd

Spec == Init /\ [][Next]_vars

\* Both threads are scheduled, a signalled program runs its handler, cleanup goes on once
\* begun.
FairSpec ==
    /\ Spec
    /\ WF_vars(FunctionTurn \/ FunctionExit)
    /\ WF_vars(WaitThread)
    /\ \A a \in Apps : WF_vars(AppRuns(a))
    /\ WF_vars(CleanupSecond) /\ WF_vars(CleanupEnd)

-----------------------------------------------------------------------------
(* Properties *)

\* Types.
TypeOK ==
    /\ flag \in BOOLEAN /\ task \in Apps \cup {NoTask} /\ turn \in 0..2
    /\ pcF \in {"top", "exited"}
    /\ pcW \in {"top", "wait", "fill1", "fill2", "test", "send", "reset", "exited", "oops"}
    /\ pass \in 0..MaxPass
    /\ page \in [Halves -> 0..MaxPass]
    /\ pcX \in {"loaded", "join_1", "join_2", "unloaded"}
    /\ stopF \in BOOLEAN /\ stopW \in BOOLEAN
    /\ pcA \in [Apps -> Alive \cup {"start", "dead"}]
    /\ sigq \in [Apps -> Seq(0..MaxPass)] /\ cur \in [Apps -> 0..MaxPass]
    /\ seen \in [Apps -> Seq(0..MaxPass)]
    /\ \A a \in Apps : Len(seen[a]) <= Cardinality(Halves)

\* The registered task is alive: when the program dies, release unregisters it, and only
\* it, whoever else has registered since.
RegisteredAlive == task # NoTask => pcA[task] \in Alive

\* What the handler copies is never older than the pass its signal announces, though the
\* page is not locked and may be refilled, in part or in whole, before the copy.
CopyNotOlderThanSignal ==
    \A a \in Apps : \A i \in 1..Len(seen[a]) : seen[a][i] >= cur[a]

\* As a channel: what both halves of the page have reached, a pass from its wake-up to its
\* signal, and a registration that ends with the program.
Reached == {p \in 0..MaxPass : \A h \in Halves : page[h] >= p}
PassUnderWay == pcW \in {"fill1", "fill2", "test", "send"}
Dead == {a \in Apps : pcA[a] = "dead"}
Handling == {a \in Apps : pcA[a] = "handle"}

Channel == INSTANCE FrameChannel WITH
    Unregisters <- TRUE, newest <- pass, sure <- Reached, due <- PassUnderWay,
    registered <- task, gone <- Dead, pending <- sigq, busy <- Handling,
    told <- cur, got <- seen

\* Although the page is filled in parts, without a lock, and the task is tested and used at
\* different times, a program sees a channel: each pass is announced once at most, only to
\* the task registered at that moment, which is alive, and only when the whole page has
\* reached it; nothing a handler copies falls behind that.
ImplementsChannel == Channel!Spec

\* A registered program is signalled again and again, though events that fall into a
\* pass of thread_wait are lost and signals are dropped when its queue is full.
SignalsKeepComing ==
    \A a \in Apps : task = a ~> pcA[a] = "handle" \/ task # a \/ pcW = "oops"

\* cleanup_module gets past both threads unless it finds thread_wait asleep with the
\* flag down: kthread_1, which alone raises it, has ended by then.
CleanupCompletes ==
    pcX = "join_2" /\ ~(pcW = "wait" /\ ~flag) ~> pcX = "unloaded"

\* "if(task != NULL)", says thread_wait: send_sig_info is not called without a task.
NoNullSignal == pcW = "send" => task # NoTask
=============================================================================
