---------------------------- MODULE FrameChannel ----------------------------
(***************************************************************************)
(* What a driver promises the program that maps its page, without threads, *)
(* flag, mutex or the order in which the page is filled: a pass renews the *)
(* page and ends in one signal at most, to the registered task, announcing *)
(* a version that the whole page has reached; the signals of a task queue  *)
(* up to a limit and come in order, one handler at a time; and a handler,  *)
(* whenever it copies, gets nothing older than what the whole page has     *)
(* reached by then.  Mlx90640Driver and KthreadModule implement it.        *)
(*                                                                         *)
(* A version is the number of a measurement, or of a pass; 0 comes first.  *)
(***************************************************************************)
EXTENDS Integers, Sequences

CONSTANTS
    Apps, NoTask,
    MaxQueue,      \* pending signals of a task
    Unregisters    \* whether the registration ends with the program

VARIABLES
    newest,        \* the version that exists
    sure,          \* the versions that every word of the page has reached
    due,           \* a pass is under way
    registered,    \* the task to signal
    gone,          \* tasks that have ended
    pending,       \* per task: the versions announced to it and not yet handled
    busy,          \* tasks that run their handler
    told, got      \* per task: the version announced to its handler, what that has copied

vars == <<newest, sure, due, registered, gone, pending, busy, told, got>>

Init ==
    /\ newest = 0 /\ sure = {0} /\ due = FALSE
    /\ registered = NoTask /\ gone = {}
    /\ pending = [a \in Apps |-> <<>>]
    /\ busy = {}
    /\ told = [a \in Apps |-> 0] /\ got = [a \in Apps |-> <<>>]

-----------------------------------------------------------------------------
(* The driver *)

\* A new version, of its own or as a pass begins.
Arrive ==
    /\ newest' = newest + 1
    /\ UNCHANGED <<sure, due, registered, gone, pending, busy, told, got>>

Begin ==
    /\ ~due /\ due' = TRUE
    /\ newest' \in {newest, newest + 1}
    /\ UNCHANGED <<sure, registered, gone, pending, busy, told, got>>

\* Only a pass changes the page, and no word of it becomes older.
Renew ==
    /\ due
    /\ sure \subseteq sure' /\ sure' \subseteq 0..newest
    /\ UNCHANGED <<newest, due, registered, gone, pending, busy, told, got>>

\* A pass ends; what it announces reaches the registered task if that is there and its
\* queue is not full.
Announce(v) ==
    /\ due /\ due' = FALSE
    /\ v \in sure
    /\ pending' = [a \in Apps |->
           IF a = registered /\ a \notin gone /\ Len(pending[a]) < MaxQueue
           THEN Append(pending[a], v)
           ELSE pending[a]]
    /\ UNCHANGED <<newest, sure, registered, gone, busy, told, got>>

-----------------------------------------------------------------------------
(* The programs *)
Register(a) ==
    /\ a \notin gone
    /\ registered' = a
    /\ UNCHANGED <<newest, sure, due, gone, pending, busy, told, got>>

Enter(a) ==
    /\ a \notin busy /\ pending[a] # <<>>
    /\ told' = [told EXCEPT ![a] = Head(pending[a])]
    /\ pending' = [pending EXCEPT ![a] = Tail(pending[a])]
    /\ got' = [got EXCEPT ![a] = <<>>]
    /\ busy' = busy \cup {a}
    /\ UNCHANGED <<newest, sure, due, registered, gone>>

\* A word of the page: no older than what all of it has reached.
Copy(a, x) ==
    /\ a \in busy
    /\ \A v \in sure : v <= x
    /\ got' = [got EXCEPT ![a] = Append(got[a], x)]
    /\ UNCHANGED <<newest, sure, due, registered, gone, pending, busy, told>>

Leave(a) ==
    /\ a \in busy
    /\ busy' = busy \ {a}
    /\ UNCHANGED <<newest, sure, due, registered, gone, pending, told, got>>

Die(a) ==
    /\ a \notin gone
    /\ gone' = gone \cup {a} /\ busy' = busy \ {a}
    /\ pending' = [pending EXCEPT ![a] = <<>>]
    /\ registered' = IF Unregisters /\ registered = a THEN NoTask ELSE registered
    /\ UNCHANGED <<newest, sure, due, told, got>>

Next ==
    \/ Arrive \/ Begin \/ Renew
    \/ \E v \in sure : Announce(v)
    \/ \E a \in Apps :
           \/ Register(a) \/ Enter(a) \/ Leave(a) \/ Die(a)
           \/ \E x \in 0..newest : Copy(a, x)

Spec == Init /\ [][Next]_vars
=============================================================================
