-------------------------- MODULE GpioIrqInterface --------------------------
(***************************************************************************)
(* The button driver kernel/gpio_interrupt_interface: both edges of the    *)
(* button's line raise an interrupt, whose threaded handler reports the    *)
(* level and signals the registered program (user_gpio-irq_interface).     *)
(* The line is masked while the handler runs (IRQF_ONESHOT); an edge in    *)
(* the meantime is latched and runs it once more, however many there were. *)
(***************************************************************************)
EXTENDS Integers, FiniteSets

CONSTANTS
    Programs,    \* instances of user_gpio-irq_interface
    MaxEdge      \* bound: changes of the button

None == "none"

VARIABLES
    level,       \* the button's line
    edges,       \* how often it has changed
    latched,     \* an interrupt is pending
    handler,     \* btn_irq: "idle", "read", "test", "send"
    reported,    \* the last level it printed
    seen,        \* history: edges so far when the handler last read the level
    task,        \* the registered program
    prog,        \* per program: "new", "registered", "dead"
    latest,      \* history: the last program to have registered
    signalled,   \* history, per program: seen when it was last signalled
    irq,         \* the interrupt is requested
    life         \* where probe and remove are: one of Lives

button == <<level, edges, latched>>
handlerVars == <<handler, reported, seen>>
programs == <<task, prog, latest, signalled>>
vars == <<button, handlerVars, programs, irq, life>>

\* "hollow": probe has failed but returned 0.
Lives == {"requesting", "creating", "no_chrdev", "no_node", "bound", "hollow", "removing",
          "gone"}
Failing == life \in {"no_chrdev", "no_node"}

Init ==
    /\ level = 0 /\ edges = 0 /\ latched = FALSE
    /\ handler = "idle" /\ reported = 0 /\ seen = 0
    /\ task = None /\ latest = None
    /\ prog = [p \in Programs |-> "new"] /\ signalled = [p \in Programs |-> 0]
    /\ irq = FALSE /\ life = "requesting"

-----------------------------------------------------------------------------
(* probe and remove *)

\* request_threaded_irq, after gpio_request and the directions: from here on the handler
\* can run.  Without it the GPIOs go and probe fails.
RequestIrq ==
    /\ life = "requesting"
    /\ \/ irq' = TRUE /\ life' = "creating"
       \/ life' = "gone" /\ UNCHANGED irq
    /\ UNCHANGED <<button, handlerVars, programs>>

\* register_chrdev and device_create; one that fails frees the GPIOs first.
CreateNode ==
    /\ life = "creating"
    /\ life' \in {"bound", "no_chrdev", "no_node"}
    /\ UNCHANGED <<button, handlerVars, programs, irq>>

\* btn_remove is called, also for a device whose probe has only claimed to succeed.
RemoveBegin ==
    /\ life \in {"bound", "hollow"}
    /\ life' = "removing"
    /\ UNCHANGED <<button, handlerVars, programs, irq>>

\* free_irq waits for a handler at work; gpio_free follows (in a failing probe it has
\* been called before).  Without a chrdev retval is still 0, so probe succeeds.
FreeIrq ==
    /\ Failing \/ life = "removing"
    /\ handler = "idle"
    /\ irq' = FALSE /\ latched' = FALSE
    /\ life' = IF life = "no_chrdev" THEN "hollow" ELSE "gone"
    /\ UNCHANGED <<level, edges, handlerVars, programs>>

-----------------------------------------------------------------------------
(* the button and its handler *)

\* Slip: only the rising edge triggers.
Triggers_Rising(l) == l = 1

\* IRQF_TRIGGER_FALLING | IRQF_TRIGGER_RISING.
Triggers(l) == TRUE

Edge ==
    /\ edges < MaxEdge
    /\ level' = 1 - level /\ edges' = edges + 1
    /\ latched' = (latched \/ (irq /\ Triggers(1 - level)))
    /\ UNCHANGED <<handlerVars, programs, irq, life>>

\* The interrupt thread starts btn_irq; an edge from here on is latched anew.
IrqWake ==
    /\ irq /\ latched /\ handler = "idle"
    /\ latched' = FALSE /\ handler' = "read"
    /\ UNCHANGED <<level, edges, reported, seen, programs, irq, life>>

IrqRead ==
    /\ handler = "read"
    /\ reported' = level /\ seen' = edges /\ handler' = "test"
    /\ UNCHANGED <<button, programs, irq, life>>

\* if(task != NULL)
IrqTest ==
    /\ handler = "test"
    /\ handler' = IF task # None THEN "send" ELSE "idle"
    /\ UNCHANGED <<button, reported, seen, programs, irq, life>>

\* send_sig_info to what task points at now.  A program that is dead gets nothing; what
\* the kernel does to its freed task_struct is not modelled.
IrqSend ==
    /\ handler = "send"
    /\ signalled' = IF task # None /\ prog[task] = "registered" THEN [signalled EXCEPT ![task] = seen]
                    ELSE signalled
    /\ handler' = "idle"
    /\ UNCHANGED <<button, reported, seen, task, prog, latest, irq, life>>

-----------------------------------------------------------------------------
(* the programs *)

\* open and REGISTER_UAPP.  What was seen so far is not owed to the newcomer.
Register(p) ==
    /\ life = "bound" /\ prog[p] = "new"
    /\ task' = p /\ latest' = p
    /\ prog' = [prog EXCEPT ![p] = "registered"]
    /\ signalled' = [signalled EXCEPT ![p] = edges]
    /\ UNCHANGED <<button, handlerVars, irq, life>>

\* Slip: the test btn_close seems to mean, without looking whose registration it is.
Close_ClearsTask(p) ==
    /\ prog[p] = "registered"
    /\ prog' = [prog EXCEPT ![p] = "dead"]
    /\ task' = None
    /\ UNCHANGED <<button, handlerVars, latest, signalled, irq, life>>

\* The program ends: btn_close sets task to NULL if it is NULL.
Close(p) ==
    /\ prog[p] = "registered"
    /\ prog' = [prog EXCEPT ![p] = "dead"]
    /\ UNCHANGED <<button, handlerVars, task, latest, signalled, irq, life>>

Handler == IrqWake \/ IrqRead \/ IrqTest \/ IrqSend

Next ==
    \/ RequestIrq \/ CreateNode \/ RemoveBegin \/ FreeIrq
    \/ Edge \/ Handler
    \/ \E p \in Programs : Register(p) \/ Close(p)

Spec == Init /\ [][Next]_vars

-----------------------------------------------------------------------------
(* Properties *)

TypeOK ==
    /\ level \in {0, 1} /\ reported \in {0, 1}
    /\ edges \in 0..MaxEdge /\ seen \in 0..edges
    /\ latched \in BOOLEAN /\ irq \in BOOLEAN
    /\ handler \in {"idle", "read", "test", "send"}
    /\ task \in Programs \cup {None} /\ latest \in Programs \cup {None}
    /\ prog \in [Programs -> {"new", "registered", "dead"}]
    /\ signalled \in [Programs -> 0..MaxEdge]
    /\ life \in Lives

\* Edges during the handler's run are latched into one more run.  So once the driver is
\* bound and quiet the level it reported last is the line's, however the edges came; only
\* edges from before the interrupt was requested go unreported.
LastLevelReported ==
    irq /\ handler = "idle" /\ ~latched /\ seen > 0 => reported = level

\* A program that is alive and the last to register has been told of every edge once the
\* handler rests: signals may be merged, but none that was owed is forgotten, while the
\* driver is bound.
EdgeSignalled ==
    handler = "idle" /\ ~latched /\ life = "bound" =>
        \A p \in Programs : latest = p /\ prog[p] = "registered" => signalled[p] >= edges
=============================================================================
