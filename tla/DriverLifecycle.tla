--------------------------- MODULE DriverLifecycle ---------------------------
(***************************************************************************)
(* What the drivers under kernel/ hold, from insmod to rmmod: the calls of *)
(* init, probe, remove and exit in their order, each acquisition that the  *)
(* code tests failing or not, the cleanup behind its goto, and the release *)
(* of the managed (devm_) resources by the driver core after a probe that  *)
(* failed or a remove.                                                     *)
(*                                                                         *)
(* An entry is something the rest of the system can call into while it is  *)
(* held: a character device, an interrupt, a thread, a work item.  Each    *)
(* needs some of the other resources whenever it runs.                     *)
(***************************************************************************)
EXTENDS Sequences, SequencesExt, FiniteSets

VARIABLES
    drv,      \* the driver
    phase,    \* whose calls are being made: one of Phases
    todo,     \* the calls to come
    held,     \* the resources there are
    freed,    \* those given back, until the next attempt to get them
    managed,  \* what the driver core will release, oldest first
    bound,    \* probe has returned 0 and the device has not been taken away since
    misused   \* history: <<phase, x, x \in freed>> for a call that worked on an x there was not

vars == <<drv, phase, todo, held, freed, managed, bound, misused>>

Phases == {"init", "idle", "probe", "failing", "bound", "remove", "exit", "gone"}

-----------------------------------------------------------------------------
(* Calls.  "fails" tells what the code does if the call fails: never, error,*)
(* success or either (what it returns after the cleanup), ignored.          *)
Call(op, x, fails, cleanup) == [op |-> op, x |-> x, fails |-> fails, cleanup |-> cleanup]

Get(x)            == Call("get", x, "error", <<>>)
GetOr(x, cleanup) == Call("get", x, "error", cleanup)
Managed(x)        == Call("managed", x, "error", <<>>)
Always(x)         == Call("get", x, "never", <<>>)
Unchecked(x)      == Call("get", x, "ignored", <<>>)
Check             == Call("check", "none", "error", <<>>)
Put(x)            == Call("put", x, "never", <<>>)
Kfree(x)          == Call("kfree", x, "never", <<>>)     \* of NULL does nothing
Use(x)            == Call("use", x, "never", <<>>)
Unregister        == Call("unregister", "driver", "never", <<>>)

\* Most modules create a class and register the driver ...
ClassInit == <<Get("class"), GetOr("driver", <<Put("class")>>)>>
\* ... and unload in the opposite order.
ClassExit == <<Unregister, Put("class")>>
\* module_platform_driver, module_i2c_driver.
ModuleInit == <<Get("driver")>>
ModuleExit == <<Unregister>>

\* The entries of a driver, and what each needs besides its code.
Entry(e, needs) == <<e, needs \cup {"code"}>>
Needs(entries) == [e \in {x[1] : x \in entries} |->
                       (CHOOSE x \in entries : x[1] = e)[2]]

-----------------------------------------------------------------------------
(* The drivers *)

\* kthread_run and kthread_create give an error pointer, which is not NULL: a failure is
\* not noticed, and kthread_bind uses it.  ioctl and mmap use the device and the page.
Mlx90640 == [
    init   |-> ClassInit,
    probe  |-> <<Managed("dev"), Check, Check, Check, Check, Get("chrdev"),
                 GetOr("node", <<Kfree("dev")>>), Get("page"),
                 Unchecked("new_frame"), Unchecked("read_frame"), Use("read_frame")>>,
    remove |-> <<Put("read_frame"), Kfree("dev")>>,
    exit   |-> <<Kfree("page"), Put("read_frame"), Put("new_frame"), Kfree("dev"), Unregister,
                 Put("class")>>,
    needs  |-> Needs({Entry("chrdev", {"dev", "page"}), Entry("new_frame", {"dev", "page"}),
                      Entry("read_frame", {"dev"})})]

\* The cdev and the attribute are never taken back; the cdev lies in the device data.  A
\* class or thread that is refused when the device comes back overwrites the pointer to the
\* old one; here the old one still counts as held.
Camera == [
    init   |-> ModuleInit,
    probe  |-> <<Managed("conf"), Get("frameData"), Get("auxData"), Managed("dev"), Check,
                 Unchecked("chrdev"), Unchecked("class"), Use("class"),
                 GetOr("node", <<Kfree("dev"), Kfree("conf")>>), Get("attribute"),
                 Unchecked("thread"), Use("thread"), Always("completion")>>,
    remove |-> <<Put("thread"), Use("completion")>>,
    exit   |-> ModuleExit,
    needs  |-> Needs({Entry("chrdev", {"dev", "completion"}), Entry("attribute", {"dev"}),
                      Entry("thread", {"dev", "completion"})})]

\* A module without a device: init does it all, and a failing one leaves the cdev behind.
Kthread == [
    init   |-> <<Get("region"), GetOr("chrdev", <<Put("region")>>),
                 GetOr("class", <<Put("region")>>),
                 GetOr("node", <<Put("class"), Put("region")>>), Get("page"),
                 Unchecked("kthread_2"), Unchecked("kthread_1"), Use("kthread_1")>>,
    probe  |-> <<>>,
    remove |-> <<>>,
    exit   |-> <<Put("kthread_1"), Put("kthread_2"), Put("node"), Put("class"), Put("chrdev"),
                 Put("region")>>,
    needs  |-> Needs({Entry("chrdev", {"page"}), Entry("kthread_1", {}),
                      Entry("kthread_2", {"page"})})]

\* Without memory for a buffer probe returns an err it has not set.
Bluetooth == [
    init   |-> ClassInit,
    probe  |-> <<Get("chrdev"), Get("node"), Get("port"),
                 Call("get", "datafromuser", "either", <<>>),
                 Call("get", "datatopc", "either", <<>>)>>,
    remove |-> <<Put("port")>>,
    exit   |-> <<Kfree("datafromuser"), Kfree("datatopc"), Unregister>>,
    needs  |-> Needs({Entry("chrdev", {"port", "datafromuser"}), Entry("port", {})})]

LidarSerial == [
    init   |-> ClassInit,
    probe  |-> <<Get("chrdev"), Get("node"), Get("port")>>,
    remove |-> <<Put("port")>>,
    exit   |-> ModuleExit,
    needs  |-> Needs({Entry("chrdev", {}), Entry("port", {})})]

LidarI2cRemove_Frees == <<Put("node"), Kfree("dev")>>  \* a slip to test the properties with
LidarI2cRemove == <<Put("node")>>
LidarI2c == [
    init   |-> ClassInit,
    probe  |-> <<Check, Check, Managed("dev"), Get("chrdev"), GetOr("node", <<Kfree("dev")>>)>>,
    remove |-> LidarI2cRemove,
    exit   |-> ClassExit,
    needs  |-> Needs({Entry("chrdev", {})})]

Pwm == [
    init   |-> ClassInit,
    probe  |-> <<Check, Managed("dev"), Get("chrdev"), GetOr("node", <<Kfree("dev")>>),
                 Managed("pwm"), Check>>,
    remove |-> <<Use("pwm"), Put("node")>>,
    exit   |-> ClassExit,
    needs  |-> Needs({Entry("chrdev", {"dev", "pwm"})})]

PwmSysfs == [
    init   |-> ModuleInit,
    probe  |-> <<Check, Unchecked("pins"), Managed("dev"), Managed("pwm"), Check,
                 Get("attributes")>>,
    remove |-> <<Use("pwm")>>,
    exit   |-> ModuleExit,
    needs  |-> Needs({Entry("attributes", {"dev", "pwm"})})]

\* The work item is queued when the system resumes.
PwmWorkqueue == [
    init   |-> ModuleInit,
    probe  |-> <<Check, Managed("dev"), Managed("pwm"), Check, Managed("input_dev"),
                 Managed("input")>>,
    remove |-> <<>>,
    exit   |-> ModuleExit,
    needs  |-> Needs({Entry("input", {"dev", "input_dev"}), Entry("work", {"dev", "pwm"})})]

GpioIrqRemove_LinesFirst == <<Put("btn"), Put("led"), Put("irq")>>  \* a slip to test with
GpioIrqRemove == <<Put("irq"), Put("btn"), Put("led")>>
\* Nobody looks whether the lines could be requested.  Without a character device retval is
\* still 0.
GpioIrq == LET Gpios == <<Put("btn"), Put("led")>>
               Failed == <<Put("btn"), Put("led"), Put("irq")>>
           IN [
    init   |-> ClassInit,
    probe  |-> <<Check, Unchecked("led"), Unchecked("btn"), GetOr("irq", Gpios),
                 Call("get", "chrdev", "success", Failed), GetOr("node", Failed)>>,
    remove |-> GpioIrqRemove,
    exit   |-> ClassExit,
    needs  |-> Needs({Entry("irq", {"btn"}), Entry("chrdev", {"btn", "led"})})]

\* input_unregister_device gives up the last reference to input_dev.
GpioInput == [
    init   |-> ModuleInit,
    probe  |-> <<Managed("dev"), Get("input_dev"), Get("gpio"),
                 GetOr("input", <<Put("input_dev")>>),
                 GetOr("irq", <<Put("gpio"), Put("input_dev")>>)>>,
    remove |-> <<Put("input"), Put("input_dev"), Put("input_dev"), Put("irq"), Put("gpio")>>,
    exit   |-> ModuleExit,
    needs  |-> Needs({Entry("input", {"input_dev"}), Entry("irq", {"dev", "input_dev", "gpio"})})]

ExampleI2c == [
    init   |-> ModuleInit,
    probe  |-> <<Managed("dev"), Check, Managed("gpio"), Check, Managed("irq")>>,
    remove |-> <<>>,
    exit   |-> ModuleExit,
    needs  |-> Needs({Entry("irq", {"dev", "gpio"})})]

Example2I2c == [
    ExampleI2c EXCEPT !.probe = <<Managed("dev"), Managed("gpio"), Check, Managed("irq")>>]

\* cancel_work_sync waits for the work item and takes it off the queue.
ExampleRegmap == [
    init   |-> ModuleInit,
    probe  |-> <<Managed("dev"), Managed("regmap"), Managed("gpio"), Check, Managed("irq")>>,
    remove |-> <<Call("cancel", "work", "never", <<>>)>>,
    exit   |-> ModuleExit,
    needs  |-> Needs({Entry("irq", {"dev", "gpio"}), Entry("work", {"dev", "regmap"})})]

Ov7670 == [
    init   |-> ModuleInit,
    probe  |-> <<Check, Managed("dev"), Check>>,
    remove |-> <<>>,
    exit   |-> ModuleExit,
    needs  |-> Needs({})]

Driver == [
    mlx90640 |-> Mlx90640, camera |-> Camera, kthread |-> Kthread, bluetooth |-> Bluetooth,
    lidar_serial |-> LidarSerial, lidar_i2c |-> LidarI2c, pwm |-> Pwm, pwm_sys |-> PwmSysfs,
    pwm_workqueue |-> PwmWorkqueue, gpio_irq |-> GpioIrq, gpio_input |-> GpioInput,
    example_i2c |-> ExampleI2c, example2_i2c |-> Example2I2c,
    example_regmap |-> ExampleRegmap, ov7670 |-> Ov7670]

Drivers == DOMAIN Driver
This == Driver[drv]
Live == held \cap DOMAIN This.needs

Init ==
    /\ drv \in Drivers
    /\ phase = "init" /\ todo = This.init
    /\ held = {"code"} /\ freed = {}
    /\ managed = <<>> /\ bound = FALSE
    /\ misused = {}

-----------------------------------------------------------------------------
(* The calls *)

\* What the driver core calls for the managed resources: the newest goes first.
Unwinding == [i \in 1..Len(managed) |-> Put(Reverse(managed)[i])]

Released(x) ==
    /\ held' = held \ {x}
    /\ freed' = freed \cup (held \cap {x})

Misuse(wrong, x) ==
    misused' = IF wrong THEN misused \cup {<<phase, x, x \in freed>>} ELSE misused

\* A second node, class or attribute of the same name is refused.
Named == {"node", "class", "attribute", "attributes"}

Acquire(op, x) ==
    /\ op \in {"get", "managed"} /\ x \notin held \cap Named
    /\ held' = held \cup {x} /\ freed' = freed \ {x}
    /\ managed' = IF op = "managed" THEN Append(managed, x) ELSE managed
    /\ todo' = Tail(todo)
    /\ UNCHANGED <<drv, phase, bound, misused>>

\* A test of something that the driver will not have to give back.
Pass(op) ==
    /\ op = "check"
    /\ todo' = Tail(todo)
    /\ UNCHANGED <<drv, phase, held, freed, managed, bound, misused>>

\* The call failed and nobody looks: x is not what it was before either.
Ignore(fails, x) ==
    /\ fails = "ignored"
    /\ freed' = freed \ {x}
    /\ todo' = Tail(todo)
    /\ UNCHANGED <<drv, phase, held, managed, bound, misused>>

\* The call failed and probe cleans up, but returns 0.
FailWithSuccess(fails, cleanup) ==
    /\ fails \in {"success", "either"}
    /\ todo' = cleanup
    /\ UNCHANGED <<drv, phase, held, freed, managed, bound, misused>>

\* The call failed: the code behind its goto, and then what the kernel does.
Fail(fails, cleanup) ==
    /\ fails \in {"error", "either"}
    /\ IF phase = "probe"
       THEN phase' = "failing" /\ todo' = cleanup \o Unwinding /\ managed' = <<>>
       ELSE phase' = "exit" /\ todo' = cleanup \o <<Put("code")>> /\ UNCHANGED managed
    /\ UNCHANGED <<drv, held, freed, bound, misused>>

\* free_irq, kthread_stop, gpiod_put, class_destroy ...
Release(op, x) ==
    /\ op = "put"
    /\ Released(x) /\ Misuse(x \notin held, x)
    /\ todo' = Tail(todo)
    /\ UNCHANGED <<drv, phase, managed, bound>>

\* Wrong for what was freed before, and for what the driver core will free.
KfreeCall(op, x) ==
    /\ op = "kfree"
    /\ Released(x) /\ Misuse(x \in freed \/ \E i \in DOMAIN managed : managed[i] = x, x)
    /\ todo' = Tail(todo)
    /\ UNCHANGED <<drv, phase, managed, bound>>

UseCall(op, x) ==
    /\ op = "use"
    /\ Misuse(x \notin held, x)
    /\ todo' = Tail(todo)
    /\ UNCHANGED <<drv, phase, held, freed, managed, bound>>

Cancel(op, x) ==
    /\ op = "cancel"
    /\ held' = held \ {x}
    /\ todo' = Tail(todo)
    /\ UNCHANGED <<drv, phase, freed, managed, bound, misused>>

\* Unregistering the driver takes the device from it first.
UnregisterDriver(op) ==
    /\ op = "unregister"
    /\ held' = held \ {"driver"}
    /\ IF bound
       THEN todo' = This.remove \o Unwinding \o Tail(todo) /\ managed' = <<>>
       ELSE todo' = Tail(todo) /\ UNCHANGED managed
    /\ bound' = FALSE
    /\ UNCHANGED <<drv, phase, freed, misused>>

Step ==
    /\ todo # <<>>
    /\ LET c == Head(todo) IN
          \/ Acquire(c.op, c.x) \/ Pass(c.op)
          \/ Ignore(c.fails, c.x) \/ Fail(c.fails, c.cleanup) \/ FailWithSuccess(c.fails, c.cleanup)
          \/ Release(c.op, c.x) \/ KfreeCall(c.op, c.x) \/ UseCall(c.op, c.x)
          \/ Cancel(c.op, c.x) \/ UnregisterDriver(c.op)

\* The last call has returned.
Return ==
    /\ todo = <<>>
    /\ \/ phase \in {"init", "failing", "remove"} /\ phase' = "idle"
       \/ phase = "probe" /\ phase' = "bound"
       \/ phase = "exit" /\ phase' = "gone"
    /\ bound' = (bound \/ phase = "probe")
    /\ UNCHANGED <<drv, todo, held, freed, managed, misused>>

-----------------------------------------------------------------------------
(* The device comes and goes, the module is unloaded *)

Begin(from, next, calls) ==
    /\ phase = from /\ todo = <<>>
    /\ phase' = next /\ todo' = calls
    /\ UNCHANGED <<drv, held, freed, misused>>

Bind == Begin("idle", "probe", This.probe) /\ "driver" \in held /\ UNCHANGED <<managed, bound>>

Unbind ==
    /\ Begin("bound", "remove", This.remove \o Unwinding)
    /\ managed' = <<>> /\ bound' = FALSE

Unload ==
    \E from \in {"idle", "bound"} :
        Begin(from, "exit", This.exit \o <<Put("code")>>) /\ UNCHANGED <<managed, bound>>

-----------------------------------------------------------------------------
(* The work items of two drivers *)

Queue ==
    /\ \/ drv = "example_regmap" /\ "irq" \in held
       \/ drv = "pwm_workqueue" /\ phase = "bound"
    /\ held' = held \cup {"work"}
    /\ UNCHANGED <<drv, phase, todo, freed, managed, bound, misused>>

\* The work item has run, or has been cancelled by suspend.
WorkDone ==
    /\ "work" \in held
    /\ held' = held \ {"work"}
    /\ UNCHANGED <<drv, phase, todo, freed, managed, bound, misused>>

Next == Step \/ Return \/ Bind \/ Unbind \/ Unload \/ Queue \/ WorkDone

Spec == Init /\ [][Next]_vars

-----------------------------------------------------------------------------
(* Properties *)

Unbound == Phases \ {"init", "bound"}
Ending == {"exit", "gone"}

\* What a driver lets an entry run without, and when: <<phases, entry, resources>>.
Exposed == [
    mlx90640 |-> {<<Unbound, "chrdev", {"dev", "page"}>>, <<Ending, "chrdev", {"code"}>>,
                  <<Unbound, "new_frame", {"dev"}>>, <<{"exit"}, "new_frame", {"page"}>>},
    camera |-> {<<Unbound, "chrdev", {"dev", "completion"}>>, <<Unbound, "attribute", {"dev"}>>,
                <<{"probe"}, "thread", {"completion"}>>,
                <<Ending, "chrdev", {"code"}>>, <<Ending, "attribute", {"code"}>>},
    kthread |-> {<<{"init"} \cup Ending, "chrdev", {"page"}>>, <<Ending, "chrdev", {"code"}>>},
    bluetooth |-> {<<Phases, "chrdev", {"datafromuser"}>>, <<Unbound, "chrdev", {"port"}>>,
                   <<Ending, "chrdev", {"code"}>>, <<Ending, "port", {"code"}>>},
    lidar_serial |-> {<<Ending, "chrdev", {"code"}>>},
    lidar_i2c |-> {<<Ending, "chrdev", {"code"}>>},
    pwm |-> {<<Unbound, "chrdev", {"dev", "pwm"}>>, <<Ending, "chrdev", {"code"}>>},
    pwm_sys |-> {<<Unbound, "attributes", {"dev", "pwm"}>>, <<Ending, "attributes", {"code"}>>},
    pwm_workqueue |-> {<<Unbound, "work", {"dev", "pwm"}>>, <<Ending, "work", {"code"}>>},
    gpio_irq |-> {<<Phases, "chrdev", {"btn", "led"}>>, <<Ending, "chrdev", {"code"}>>,
                  <<{"probe", "failing"}, "irq", {"btn"}>>},
    gpio_input |-> {<<Unbound, "input", {"input_dev"}>>, <<Ending, "input", {"code"}>>,
                    <<{"remove", "exit"}, "irq", {"input_dev"}>>},
    example_i2c |-> {}, example2_i2c |-> {},
    example_regmap |-> {<<Unbound, "work", {"dev", "regmap"}>>, <<Ending, "work", {"code"}>>},
    ov7670 |-> {}]

\* What a driver goes on without, for it does not look whether it got it.
Overlooked == [
    mlx90640 |-> {"new_frame", "read_frame"}, camera |-> {"chrdev", "class", "thread"},
    kthread |-> {"kthread_1", "kthread_2"}, pwm_sys |-> {"pins"}, gpio_irq |-> {"led", "btn"}]
Overlooks(x) == drv \in DOMAIN Overlooked /\ x \in Overlooked[drv]

\* Whatever fails and whenever the device or the module goes, an entry of a driver never
\* runs without a resource it needs, but for those of the table: character devices and
\* attributes that outlive the device, work queued after its cancellation, and the
\* interrupts of a failing btn_probe (gpio_irq_int) and of btn_remove (gpio_irq_input).
\* The interrupt of gpio_irq_int may also run on a line that could not be requested; but a
\* line that was there is not taken from it while its device is bound or being removed.
EntriesBacked ==
    \A e \in Live : \A r \in This.needs[e] \ held :
        \/ \E x \in Exposed[drv] : phase \in x[1] /\ x[2] = e /\ r \in x[3]
        \/ Overlooks(r) /\ r \notin freed

\* What a driver gives back, frees or uses without having it, and when.
Releasing == {"remove", "exit"}
Mishandled == [
    mlx90640 |-> {<<{"failing"} \cup Releasing, {"dev"}>>, <<{"exit"}, {"read_frame"}>>},
    camera |-> {<<{"failing"}, {"dev", "conf"}>>},
    lidar_i2c |-> {<<{"failing"}, {"dev"}>>}, pwm |-> {<<{"failing"}, {"dev"}>>},
    gpio_irq |-> {<<Releasing, {"irq", "btn", "led"}>>},
    gpio_input |-> {<<Releasing, {"input_dev"}>>}]

\* No driver frees what it does not have, frees it twice or uses what it never got, but for
\* those of the table: managed memory that a failing probe (or mlx90640's remove) frees by
\* hand, the thread that mlx90640 stops in exit and in remove, the lines of a btn_probe
\* that failed and returned 0 (gpio_irq_int), and input_dev, freed once too often
\* (gpio_irq_input).  Threads that could not be created, a class and lines likewise, are
\* stopped, used or given back all the same, but not twice.
ReleasedOnce ==
    \A m \in misused :
        \/ /\ drv \in DOMAIN Mishandled
           /\ \E x \in Mishandled[drv] : m[1] \in x[1] /\ m[2] \in x[2]
        \/ Overlooks(m[2]) /\ ~m[3]
=============================================================================
