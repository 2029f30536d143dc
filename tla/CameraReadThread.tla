-------------------------- MODULE CameraReadThread --------------------------
(***************************************************************************)
(* The completion-based thermal camera driver, the one in                  *)
(* kernel/display_and_camera_device_drivers.  A kernel thread waits for    *)
(* read_done, reads the sensor and reinitialises the completion; read() on *)
(* the device completes it unless it is complete already.  probe starts    *)
(* the thread, and has published the device node, before it initialises    *)
(* the completion.  remove stops the thread; it may come at any time, for  *)
(* the driver can be unbound while programs have the device open, and it   *)
(* leaves the device node behind.                                          *)
(***************************************************************************)
EXTENDS Integers, FiniteSets

CONSTANTS
    Readers     \* tasks that call read() again and again

ASSUME CameraAssumption == IsFiniteSet(Readers)

VARIABLES
    inited,     \* init_completion(&read_done) has run
    done,       \* read_done.done
    stop,       \* KTHREAD_SHOULD_STOP of read_data
    pcT,        \* readData: next step
    pcR,        \* per reader: next step of mlx90640_read
    pcX,        \* probe and remove: next step
    asked       \* history: a read() has posted the completion since the last pass

vars == <<inited, done, stop, pcT, pcR, pcX, asked>>

Init ==
    /\ inited = FALSE /\ done = 0 /\ stop = FALSE
    /\ pcT = "top"
    /\ pcR = [r \in Readers |-> "idle"]
    /\ pcX = "woken"
    /\ asked = FALSE

-----------------------------------------------------------------------------
(* probe and remove *)

\* The end of probe.
ProbeEnd ==
    /\ pcX = "woken"
    /\ inited' = TRUE /\ done' = 0
    /\ pcX' = "bound"
    /\ UNCHANGED <<stop, pcT, pcR, asked>>

\* Slip: the thread is woken, not told to stop.
RemoveBegin_WakesOnly ==
    /\ pcX = "bound"
    /\ pcX' = "joining"
    /\ UNCHANGED <<inited, done, stop, pcT, pcR, asked>>

\* kthread_stop: sets the bit, wakes the thread and waits until it has ended.
RemoveBegin ==
    /\ pcX = "bound"
    /\ stop' = TRUE /\ pcX' = "joining"
    /\ UNCHANGED <<inited, done, pcT, pcR, asked>>

\* complete, once the thread has ended (or is dead).
RemoveEnd ==
    /\ pcX = "joining" /\ pcT \in {"exited", "oops"}
    /\ done' = done + 1 /\ pcX' = "removed"
    /\ UNCHANGED <<inited, stop, pcT, pcR, asked>>

-----------------------------------------------------------------------------
(* readData *)

\* Slip: the completion is reinitialised at the start of a turn instead of its end.
ThreadTop_Reinit ==
    /\ pcT = "top"
    /\ pcT' = IF stop THEN "exited" ELSE "wait"
    /\ done' = 0 /\ asked' = FALSE
    /\ UNCHANGED <<inited, stop, pcR, pcX>>

ThreadTop ==
    /\ pcT = "top"
    /\ pcT' = IF stop THEN "exited" ELSE "wait"
    /\ UNCHANGED <<inited, done, stop, pcR, pcX, asked>>

\* wait_for_completion, which the wake-up of kthread_stop does not end.  On a completion
\* that is all zero it dereferences the null list head of the wait queue.
ThreadWait ==
    /\ pcT = "wait"
    /\ IF inited
       THEN done > 0 /\ done' = done - 1 /\ pcT' = "woken"
       ELSE pcT' = "oops" /\ UNCHANGED done
    /\ UNCHANGED <<inited, stop, pcR, pcX, asked>>

ThreadCheck ==
    /\ pcT = "woken"
    /\ pcT' = IF stop THEN "exited" ELSE "work"
    /\ UNCHANGED <<inited, done, stop, pcR, pcX, asked>>

\* mlx90640_init: the sensor is read and the result printed, whether that failed or not.
ThreadWork ==
    /\ pcT = "work"
    /\ pcT' = "reinit"
    /\ UNCHANGED <<inited, done, stop, pcR, pcX, asked>>

\* Slip: the completion is not reinitialised.
ThreadReinit_Not ==
    /\ pcT = "reinit"
    /\ asked' = FALSE
    /\ pcT' = "top"
    /\ UNCHANGED <<inited, done, stop, pcR, pcX>>

ThreadReinit ==
    /\ pcT = "reinit"
    /\ done' = 0 /\ asked' = FALSE
    /\ pcT' = "top"
    /\ UNCHANGED <<inited, stop, pcR, pcX>>

Thread ==
    ThreadTop \/ ThreadWait \/ ThreadCheck \/ ThreadWork \/ ThreadReinit

-----------------------------------------------------------------------------
(* mlx90640_read *)

\* completion_done.
ReadBegin(r) ==
    /\ pcR[r] = "idle" /\ done = 0
    /\ pcR' = [pcR EXCEPT ![r] = "complete"]
    /\ UNCHANGED <<inited, done, stop, pcT, pcX, asked>>

\* complete; on a completion that is all zero it dereferences a null waiter.
ReadComplete(r) ==
    /\ pcR[r] = "complete"
    /\ IF inited
       THEN done' = done + 1 /\ asked' = TRUE /\ pcR' = [pcR EXCEPT ![r] = "idle"]
       ELSE pcR' = [pcR EXCEPT ![r] = "oops"] /\ UNCHANGED <<done, asked>>
    /\ UNCHANGED <<inited, stop, pcT, pcX>>

-----------------------------------------------------------------------------
Next ==
    \/ ProbeEnd \/ RemoveBegin \/ RemoveEnd
    \/ Thread
    \/ \E r \in Readers : ReadBegin(r) \/ ReadComplete(r)

Spec == Init /\ [][Next]_vars

\* The thread, probe, a remove once begun and a read() once begun go on.
FairSpec ==
    /\ Spec
    /\ WF_vars(Thread)
    /\ WF_vars(ProbeEnd) /\ WF_vars(RemoveEnd)
    /\ \A r \in Readers : WF_vars(ReadComplete(r))

-----------------------------------------------------------------------------
(* Properties *)

\* Types; the completion counts at most one post per reader and the one of remove.
TypeOK ==
    /\ inited \in BOOLEAN /\ stop \in BOOLEAN
    /\ done \in 0..(Cardinality(Readers) + 1)
    /\ pcT \in {"top", "wait", "woken", "work", "reinit", "exited", "oops"}
    /\ pcR \in [Readers -> {"idle", "complete", "oops"}]
    /\ pcX \in {"woken", "bound", "joining", "removed"}
    /\ asked \in BOOLEAN

\* Readers that race past completion_done post twice, but that does not make the thread
\* read twice: what is left of the count goes with the reinitialisation, so a completion
\* always stands for a read() since the last pass.
NoSpuriousPass == done > 0 /\ pcX # "removed" => asked

\* A completion posted before the thread has read the sensor, or after it has reinitialised
\* the completion, is overlapped or followed by a pass over the sensor, though the thread may
\* drop it without waiting for it.  One posted between the two, when mlx90640_init has
\* returned and reinit_completion is still to come, is dropped and promises nothing.
ReadServed ==
    done > 0 /\ pcT # "reinit" ~>
        pcT = "work" \/ pcX \in {"joining", "removed"} \/ pcT = "oops"

\* remove gets to its end if programs keep posting read_done.
RemoveCompletesIfRead ==
    []<>(done > 0) => (pcX = "joining" ~> pcX = "removed")

\* "Wake it if it's sleeping", says the comment on the complete() of remove.
RemoveCompletes == pcX = "joining" ~> pcX = "removed"
=============================================================================
