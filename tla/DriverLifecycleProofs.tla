------------------------ MODULE DriverLifecycleProofs ------------------------
(***************************************************************************)
(* Proofs about what the fifteen drivers hold from insmod to rmmod: their  *)
(* entries run with what they need and they give back once what they have, *)
(* but for the tables of exceptions.                                       *)
(*                                                                         *)
(* The proofs are not about the states that the fifteen tables of calls    *)
(* can reach.  Rules on the tables say what a driver must do, call by      *)
(* call; the table of every driver is seen to keep them; and under the     *)
(* rules the invariant LInv is inductive, whatever fails and whenever the  *)
(* device comes and goes.                                                  *)
(***************************************************************************)
EXTENDS DriverLifecycle, SequenceTheorems, TLAPS

-----------------------------------------------------------------------------
(* The tables, seen from the proofs *)

\* Sequences of calls are over no set: what makes them sequences.
IsSeq(s) == Len(s) \in Nat /\ s = [i \in 1..Len(s) |-> s[i]]

\* The call c may bring x, ...
Takes(c, x) == c.op \in {"get", "managed"} /\ c.x = x
\* ... does, or the code turns away from the calls that follow, or nobody looks, ...
Surely(c, x) == Takes(c, x) /\ c.fails \in {"error", "never", "ignored"}
\* ... takes it away.
Drops(c, x) == c.op \in {"put", "kfree", "cancel"} /\ c.x = x
\* Its failure makes the code turn away.
Diverts(c) == c.fails \in {"error", "success", "either"}

\* The tables of the properties, as predicates.
Except(d, p, e, r) == \E x \in Exposed[d] : p \in x[1] /\ x[2] = e /\ r \in x[3]
Excused(d, p, x) ==
    d \in DOMAIN Mishandled /\ \E m \in Mishandled[d] : p \in m[1] /\ x \in m[2]
\* What the driver goes on without, ...
Passed(d, x) == d \in DOMAIN Overlooked /\ x \in Overlooked[d]

\* ... and what it takes for granted: x is held, or nobody has looked whether it was got and
\* it has not been given back (of what is held, h, and what has been freed, f).
Presumed(d, h, f, x) == x \in h \/ (Passed(d, x) /\ x \notin f)

\* What the driver core manages once probe is through, in the order of the devm_ calls, ...
Given == [
    mlx90640 |-> <<"dev">>, camera |-> <<"conf", "dev">>, kthread |-> <<>>,
    bluetooth |-> <<>>, lidar_serial |-> <<>>, lidar_i2c |-> <<"dev">>,
    pwm |-> <<"dev", "pwm">>, pwm_sys |-> <<"dev", "pwm">>,
    pwm_workqueue |-> <<"dev", "pwm", "input_dev", "input">>,
    gpio_irq |-> <<>>, gpio_input |-> <<"dev">>,
    example_i2c |-> <<"dev", "gpio", "irq">>, example2_i2c |-> <<"dev", "gpio", "irq">>,
    example_regmap |-> <<"dev", "regmap", "gpio", "irq">>, ov7670 |-> <<"dev">>]

\* ... and how much of it before the k-th call of probe.
Upto == [
    mlx90640 |-> <<0, 1, 1, 1, 1, 1, 1, 1, 1, 1, 1, 1>>,
    camera |-> <<0, 1, 1, 1, 2, 2, 2, 2, 2, 2, 2, 2, 2, 2>>,
    kthread |-> <<0>>,
    bluetooth |-> <<0, 0, 0, 0, 0, 0>>, lidar_serial |-> <<0, 0, 0, 0>>,
    lidar_i2c |-> <<0, 0, 0, 1, 1, 1>>,
    pwm |-> <<0, 0, 1, 1, 1, 2, 2>>, pwm_sys |-> <<0, 0, 0, 1, 2, 2, 2>>,
    pwm_workqueue |-> <<0, 0, 1, 2, 2, 3, 4>>,
    gpio_irq |-> <<0, 0, 0, 0, 0, 0, 0>>, gpio_input |-> <<0, 1, 1, 1, 1, 1>>,
    example_i2c |-> <<0, 1, 1, 2, 2, 3>>, example2_i2c |-> <<0, 1, 2, 2, 3>>,
    example_regmap |-> <<0, 1, 2, 3, 3, 4>>, ov7670 |-> <<0, 0, 1, 1>>]

\* What a driver takes for granted once its probe has returned 0.
Sure == [
    mlx90640 |-> {"dev", "page", "read_frame"},
    camera |-> {"conf", "dev", "thread", "completion"}, kthread |-> {},
    bluetooth |-> {"port"}, lidar_serial |-> {"port"}, lidar_i2c |-> {"dev", "node"},
    pwm |-> {"dev", "node", "pwm"}, pwm_sys |-> {"dev", "pwm"},
    pwm_workqueue |-> {"dev", "pwm", "input_dev", "input"},
    gpio_irq |-> {}, gpio_input |-> {"dev", "input_dev", "gpio", "input", "irq"},
    example_i2c |-> {"dev", "gpio", "irq"}, example2_i2c |-> {"dev", "gpio", "irq"},
    example_regmap |-> {"dev", "regmap", "gpio", "irq"}, ov7670 |-> {"dev"}]

\* What init takes, or probe for the module, and only exit gives back.
Kept == [
    mlx90640 |-> {"class", "page", "new_frame"}, camera |-> {},
    kthread |-> {"region", "chrdev", "class", "node", "page", "kthread_1", "kthread_2"},
    bluetooth |-> {"class", "datafromuser", "datatopc"}, lidar_serial |-> {"class"},
    lidar_i2c |-> {"class"}, pwm |-> {"class"}, pwm_sys |-> {}, pwm_workqueue |-> {},
    gpio_irq |-> {"class"}, gpio_input |-> {}, example_i2c |-> {}, example2_i2c |-> {},
    example_regmap |-> {}, ov7670 |-> {}]
KeptBy(d) == Kept[d] \cup {"code", "driver"}

\* The entries that end with the device: they are held when the device is bound and never
\* when the driver is idle.
Transient == [
    mlx90640 |-> {"read_frame"}, camera |-> {"thread"}, kthread |-> {}, bluetooth |-> {},
    lidar_serial |-> {"port"}, lidar_i2c |-> {}, pwm |-> {}, pwm_sys |-> {},
    pwm_workqueue |-> {"input"}, gpio_irq |-> {"irq"}, gpio_input |-> {"irq"},
    example_i2c |-> {"irq"}, example2_i2c |-> {"irq"}, example_regmap |-> {"irq"},
    ov7670 |-> {}]
\* The entries that last until the module goes.
Lasting == [ d \in Drivers |->
    IF d = "mlx90640" THEN {"new_frame"}
    ELSE IF d = "kthread" THEN {"kthread_1", "kthread_2"} ELSE {} ]

Firm(d) == Transient[d] \cup Lasting[d]

\* Before the k-th call of s, x has been taken, or the code goes on as if it had.
Has(s, k, x) == \E j \in 1..(k - 1) : Surely(s[j], x)
\* Once init has returned 0 there is x, or the code goes on as if there were.
InitSure(d, x) == \E k \in DOMAIN Driver[d].init : Surely(Driver[d].init[k], x)

UndoOps == {"put", "kfree", "use", "cancel"}

\* The calls of s before the i-th leave x alone.
NotBefore(s, i, x) == \A j \in 1..(i - 1) : ~Drops(s[j], x)

\* The i-th call of the cleanup behind the goto of the k-th call of s gives back what has been
\* taken for sure, once and nothing of the module, or the table excuses it.
CleanRule(d, p, s, k, i) ==
    LET c == s[k].cleanup IN
    /\ c[i].op \in UndoOps /\ c[i].fails = "never"
    /\ c[i].x \notin {"code", "work"}
    /\ p = "exit" \/ c[i].x \notin KeptBy(d)
    /\ \/ Excused(d, p, c[i].x)
       \/ c[i].op = "put" /\ Has(s, k, c[i].x) /\ NotBefore(c, i, c[i].x)

\* init takes its entries after what they need, and turns back before it has started one.
InitRule(d, k) ==
    LET s == Driver[d].init IN
    /\ s[k].op \in {"get", "use"} /\ s[k].fails \in {"error", "ignored", "never"}
    /\ s[k].op = "use" => s[k].fails = "never" /\ Has(s, k, s[k].x)
    /\ s[k].fails = "ignored" => Passed(d, s[k].x)
    /\ s[k].x \notin Transient[d] \cup {"code", "work"}
    /\ IsSeq(s[k].cleanup)
    /\ \A i \in 1..Len(s[k].cleanup) : CleanRule(d, "exit", s, k, i)
    /\ s[k].fails = "error" => \A j \in 1..(k - 1) : s[j].x \notin Firm(d)
    /\ s[k].op = "get" /\ s[k].x \in DOMAIN Driver[d].needs =>
          \A r \in Driver[d].needs[s[k].x] :
              r = "code" \/ Except(d, "init", s[k].x, r) \/ Has(s, k, r)
    /\ Surely(s[k], s[k].x) => s[k].x \in KeptBy(d)

\* The k-th call of probe.  An entry it takes finds what it needs; when it fails, the cleanup
\* ends every transient entry before what that entry needs, and gives back nothing that
\* the driver core gives back afterwards; when it fails and returns 0 all the same, what a
\* bound device has is there.
ProbeRule(d, k) ==
    LET s == Driver[d].probe
        g == Given[d]
        u == Upto[d]
        c == s[k].cleanup
        needs == Driver[d].needs
    IN
    /\ IsSeq(c)
    /\ u[k] \in 0..Len(g) /\ u[k + 1] = IF s[k].op = "managed" THEN u[k] + 1 ELSE u[k]
    /\ s[k].op \in {"get", "managed", "check", "use"}
    /\ s[k].fails \in {"error", "ignored", "never", "success", "either"}
    /\ s[k].op = "managed" => g[u[k] + 1] = s[k].x /\ s[k].fails = "error"
    /\ s[k].op = "check" => s[k].fails = "error"
    /\ s[k].op = "use" => s[k].fails = "never" /\ Has(s, k, s[k].x)
    /\ s[k].fails = "ignored" => Passed(d, s[k].x)
    /\ s[k].op \in {"get", "managed"} => s[k].x \notin {"code", "work"}
    /\ \A i \in 1..Len(c) :
          /\ CleanRule(d, "failing", s, k, i)
          /\ \A n \in 1..u[k] : Drops(c[i], g[n]) => Excused(d, "failing", g[n])
    /\ s[k].fails \in {"success", "either"} =>
          /\ u[k] = Len(g)
          /\ \A i \in 1..Len(c) : CleanRule(d, "probe", s, k, i)
          /\ \A x \in Sure[d] : Has(s, k, x) /\ NotBefore(c, Len(c) + 1, x)
    /\ Diverts(s[k]) => \A e \in Transient[d] :
          \/ \A j \in 1..(k - 1) : ~Takes(s[j], e)
          \/ \E i \in 1..Len(c) :
                /\ Drops(c[i], e)
                /\ \A r \in needs[e] :
                     /\ r = "code" \/ Has(s, k, r)
                     /\ \A j \in 1..i : Drops(c[j], r) =>
                            Except(d, "probe", e, r) /\ Except(d, "failing", e, r)
    /\ \A e \in Firm(d) : Takes(s[k], e) => \A r \in needs[e] :
          r = "code" \/ Has(s, k, r) \/ (Except(d, "probe", e, r) /\ r \in Sure[d])

ExcusedAfter(d, x) == Excused(d, "remove", x) /\ Excused(d, "exit", x)
Untouched(d, x) == NotBefore(Driver[d].exit, Len(Driver[d].exit) + 1, x)

\* remove gives back what probe has taken for sure, once, and leaves it to exit no more.
RemoveRule(d, i) ==
    LET s == Driver[d].remove IN
    /\ s[i].op \in UndoOps /\ s[i].fails = "never"
    /\ s[i].x \notin KeptBy(d)
    /\ s[i].op # "cancel" =>
        /\ s[i].x # "work"
        /\ \/ ExcusedAfter(d, s[i].x)
           \/ /\ s[i].op # "kfree"
              /\ s[i].x \in Sure[d] /\ NotBefore(s, i, s[i].x)
              /\ Untouched(d, s[i].x) \/ Excused(d, "exit", s[i].x)

\* So does the driver core.
GivenRule(d, n) ==
    LET s == Driver[d].remove
        g == Given[d]
    IN
    /\ g[n] \notin KeptBy(d) \cup {"work"}
    /\ \A m \in 1..(n - 1) : g[m] # g[n]
    /\ \/ ExcusedAfter(d, g[n])
       \/ g[n] \in Sure[d] /\ NotBefore(s, Len(s) + 1, g[n]) /\ Untouched(d, g[n])

ExceptAfter(d, e, r) == Except(d, "remove", e, r) /\ Except(d, "exit", e, r)

\* remove, or the driver core after it, ends each transient entry before what it needs.
EndRule(d, e) ==
    LET s == Driver[d].remove
        g == Given[d]
        needs == Driver[d].needs
    IN
    \/ \E i \in 1..Len(s) :
          /\ Drops(s[i], e)
          /\ \A r \in needs[e], j \in 1..i : Drops(s[j], r) => ExceptAfter(d, e, r)
    \/ \E n \in 1..Len(g) :
          /\ g[n] = e
          /\ \A r \in needs[e] : NotBefore(s, Len(s) + 1, r) /\ \A m \in n..Len(g) : g[m] # r

\* exit gives back what init has taken for sure, once; after the driver is unregistered it
\* gives back nothing but what is kept.
ExitRule(d, i) ==
    LET s == Driver[d].exit IN
    /\ s[i].op \in {"put", "kfree", "unregister"} /\ s[i].fails = "never"
    /\ s[i].x \notin {"code", "work"}
    /\ s[i].op # "unregister" =>
        \/ Excused(d, "exit", s[i].x)
        \/ /\ \/ s[i].op = "put" /\ InitSure(d, s[i].x)
              \/ s[i].x \in Kept[d] /\ (s[i].op = "kfree" \/ Passed(d, s[i].x))
           /\ NotBefore(s, i, s[i].x)
    /\ s[i].op = "unregister" => \A j \in (i + 1)..Len(s) :
        s[j].op = "put" /\ s[j].x \in KeptBy(d) \ {"driver"}

\* exit ends each entry before what it needs; the transient ones end with unregistering.
UnloadRule(d, e) ==
    LET s == Driver[d].exit IN
    \E i \in 1..Len(s) :
        /\ Drops(s[i], e) \/ (s[i].op = "unregister" /\ e \in Transient[d])
        /\ \A j \in 1..i :
            /\ e \in Lasting[d] => s[j].op # "unregister"
            /\ \A r \in Driver[d].needs[e] : Drops(s[j], r) => Except(d, "exit", e, r)

\* What an entry needs is there when it can run, or the table has the exception: for the
\* entries that nobody ends, in every phase; for the lasting ones, in what probe and exit leave.
NeedRule(d, e) ==
    \A r \in Driver[d].needs[e] :
      /\ r \notin {"driver", "work"}
      /\ e \notin Firm(d) =>
          /\ r = "code" \/ r \in Sure[d] \/ InitSure(d, r) \/ Except(d, "bound", e, r)
          /\ \A p \in Unbound :
              Except(d, p, e, r) \/ (p \notin Ending /\ (r = "code" \/ InitSure(d, r)))
      /\ e \in Firm(d) => ~Except(d, "bound", e, r)
      /\ e \in Lasting[d] =>
          /\ ~Except(d, "init", e, r)
          /\ r = "code" \/ r \in Sure[d] \/ InitSure(d, r)
          /\ \/ r \in KeptBy(d) /\ \A p \in Phases \ Ending : ~Except(d, p, e, r)
             \/ \A p \in Unbound : Except(d, p, e, r)

TypeRule(d) ==
    /\ IsSeq(Driver[d].init) /\ IsSeq(Driver[d].probe)
    /\ IsSeq(Driver[d].remove) /\ IsSeq(Driver[d].exit)
    /\ IsSeq(Given[d])
    /\ Upto[d][1] = 0 /\ Upto[d][Len(Driver[d].probe) + 1] = Len(Given[d])
    /\ Firm(d) \subseteq DOMAIN Driver[d].needs \ {"code", "work"}
    /\ "code" \notin DOMAIN Driver[d].needs
    /\ "work" \notin KeptBy(d) \cup Sure[d] \cup Firm(d)
    /\ "code" \notin Sure[d]
    /\ Lasting[d] \cap Transient[d] = {}

Rules(d) ==
    /\ \A k \in 1..Len(Driver[d].init) : InitRule(d, k)
    /\ \A k \in 1..Len(Driver[d].probe) : ProbeRule(d, k)
    /\ \A x \in Sure[d] : Has(Driver[d].probe, Len(Driver[d].probe) + 1, x)
    /\ \A i \in 1..Len(Driver[d].remove) : RemoveRule(d, i)
    /\ \A n \in 1..Len(Given[d]) : GivenRule(d, n)
    /\ \A i \in 1..Len(Driver[d].exit) : ExitRule(d, i)
    /\ \A e \in Transient[d] : EndRule(d, e)
    /\ \A e \in Firm(d) : UnloadRule(d, e)
    /\ \A e \in DOMAIN Driver[d].needs : NeedRule(d, e)

-----------------------------------------------------------------------------
\* The calls of s from the k-th on.
Rest(s, k) == [i \in 1..(Len(s) - k + 1) |-> s[i + k - 1]]

\* While init runs: the rest of its calls is to come, and what came before is
\* taken for granted.
InitPart == phase = "init" =>
    /\ ~bound /\ managed = <<>> /\ freed = {}
    /\ \E k \in 1..(Len(This.init) + 1) :
        /\ todo = Rest(This.init, k)
        /\ \A x : Has(This.init, k, x) => Presumed(drv, held, freed, x)
        /\ \A x \in held : x = "code" \/ \E j \in 1..(k - 1) :
              This.init[j].op = "get" /\ x = This.init[j].x

\* The same of probe, with what the driver core manages.
At(k) ==
    /\ todo = Rest(This.probe, k)
    /\ Len(managed) = Upto[drv][k]
    /\ \A n \in 1..Len(managed) : managed[n] = Given[drv][n] /\ managed[n] \in held
    /\ \A x : Has(This.probe, k, x) => Presumed(drv, held, freed, x)
    /\ \A e \in Transient[drv] \cap held : \E j \in 1..(k - 1) : Takes(This.probe[j], e)

\* The i-th of the calls to come t gives back what is taken for
\* granted, of what is held (h), frees what was never freed (f)
\* and is not managed (m), and no call before it has taken that away, or the table excuses it.
Neat(d, p, t, i, h, f, m) ==
    \/ Excused(d, p, t[i].x)
    \/ t[i].op \in {"cancel", "unregister"}
    \/ /\ NotBefore(t, i, t[i].x)
       /\ t[i].op \in {"put", "use"} => Presumed(d, h, f, t[i].x)
       /\ t[i].op = "kfree" => t[i].x \notin f /\ \A n \in 1..Len(m) : m[n] # t[i].x

\* Calls that give back cannot fail; only exit unregisters the driver, and after that there
\* are only puts of what is kept.
Ordered(d, p, t, i) ==
    /\ t[i].fails = "never" /\ t[i].op \in UndoOps \cup {"unregister"}
    /\ t[i].x = "work" => t[i].op = "cancel"
    /\ p # "exit" => t[i].op # "unregister" /\ \A x \in KeptBy(d) : ~Drops(t[i], x)
    /\ t[i].op = "unregister" => \A j \in (i + 1)..Len(t) :
          t[j].op = "put" /\ t[j].x \in KeptBy(d) \ {"driver"}

\* A call of t ends the entry e, or unregistering a bound (b) driver does, and no call before
\* takes away what e needs.
Doomed(d, p, t, e, b) == \E i \in 1..Len(t) :
    /\ Drops(t[i], e) \/ (t[i].op = "unregister" /\ b /\ e \in Transient[d])
    /\ \A j \in 1..i :
        /\ e \in Lasting[d] => t[j].op # "unregister"
        /\ \A r \in Driver[d].needs[e] : Drops(t[j], r) => Except(d, p, e, r)

\* What must hold of the calls to come t, with d the driver and p the phase.
Plan(d, p, t, h, f, m, b) ==
    /\ \A i \in 1..Len(t) : Ordered(d, p, t, i) /\ Neat(d, p, t, i, h, f, m)
    /\ \A e \in Transient[d] \cap h : Doomed(d, p, t, e, b)
    /\ p = "exit" => \A e \in Lasting[d] \cap h : Doomed(d, p, t, e, b)

\* All that a bound device must have is there, or taken for granted.
Settled(d, h, f) == \A x \in Sure[d] : Presumed(d, h, f, x)

Undo == Plan(drv, phase, todo, held, freed, managed, bound)

\* A bound device has what its probe takes for sure, also until exit has unregistered it.
BoundPart ==
    /\ phase = "bound" => bound /\ Settled(drv, held, freed)
    /\ bound => phase \in {"bound", "exit", "gone"} /\ managed = Given[drv]
    /\ ~bound /\ phase # "probe" => managed = <<>>
    /\ phase = "exit" /\ bound => \A x \in Sure[drv] : Untouched(drv, x) =>
          Presumed(drv, held, freed, x) /\ NotBefore(todo, Len(todo) + 1, x)

\* probe is at one of its calls, or it has failed, cleans up and will return 0.
ProbePart == phase = "probe" =>
    \/ \E k \in 1..(Len(This.probe) + 1) : At(k)
    \/ /\ Undo /\ managed = Given[drv] /\ Settled(drv, held, freed)
       /\ \A x \in Sure[drv] : NotBefore(todo, Len(todo) + 1, x)

\* Until exit the module has its code and what init has taken.
KeepPart ==
    /\ phase \notin Ending => "code" \in held /\ freed \cap KeptBy(drv) = {}
    /\ phase \notin Ending \cup {"init"} =>
          \A x : InitSure(drv, x) => Presumed(drv, held, freed, x)

\* An entry that ends has what it needs as long as it is held.
FirmPart ==
    /\ phase \in {"init", "idle", "gone"} => Transient[drv] \cap held = {}
    /\ phase = "gone" => Lasting[drv] \cap held = {}
    /\ \A e \in Firm(drv) \cap held : \A r \in This.needs[e] :
          Presumed(drv, held, freed, r) \/ Except(drv, phase, e, r)

Types ==
    /\ drv \in Drivers /\ phase \in Phases /\ bound \in BOOLEAN
    /\ IsSeq(todo) /\ IsSeq(managed)

\* The inductive invariant.
LInv ==
    /\ Types
    /\ phase \in {"idle", "bound", "gone"} => todo = <<>>
    /\ InitPart /\ BoundPart /\ ProbePart /\ KeepPart /\ FirmPart
    /\ phase \in {"failing", "remove", "exit"} => Undo
    /\ ReleasedOnce

-----------------------------------------------------------------------------
(* Sequences *)

\* Sequences over nothing in particular are sequences over any set that has their elements.
LEMMA IsSeqIn ==
    ASSUME NEW s, IsSeq(s), NEW T, \A i \in 1..Len(s) : s[i] \in T
    PROVE  s \in Seq(T)
  <1> DEFINE n == Len(s)
  <1>1. n \in Nat /\ s \in [1..n -> T]
    BY DEF IsSeq
  <1>2. Seq(T) = UNION {[1..m -> T] : m \in Nat}
    BY SeqDef
  <1> HIDE DEF n
  <1> QED
    BY <1>1, <1>2

LEMMA SeqIs == ASSUME NEW T, NEW s \in Seq(T) PROVE IsSeq(s)
  BY LenProperties DEF IsSeq

\* What the library says of sequences over a set, for sequences over none.
LEMMA Joined ==
    ASSUME NEW a, NEW b, IsSeq(a), IsSeq(b)
    PROVE  /\ IsSeq(a \o b) /\ Len(a \o b) = Len(a) + Len(b)
           /\ \A i \in 1..Len(a) : (a \o b)[i] = a[i]
           /\ \A i \in 1..Len(b) : (a \o b)[Len(a) + i] = b[i]
  <1> DEFINE T == {a[i] : i \in 1..Len(a)} \cup {b[i] : i \in 1..Len(b)}
  <1>1. a \in Seq(T)
    BY IsSeqIn
  <1>2. b \in Seq(T)
    BY IsSeqIn
  <1> HIDE DEF T
  <1>3. Len(a) \in Nat /\ Len(b) \in Nat
    BY DEF IsSeq
  <1>4. IsSeq(a \o b)
    BY <1>1, <1>2, ConcatProperties, SeqIs
  <1>5. /\ Len(a \o b) = Len(a) + Len(b)
        /\ \A i \in 1..(Len(a) + Len(b)) : (a \o b)[i] = IF i <= Len(a) THEN a[i] ELSE b[i - Len(a)]
    BY <1>1, <1>2, ConcatProperties
  <1> QED
    BY <1>3, <1>4, <1>5

LEMMA Dropped ==
    ASSUME NEW s, IsSeq(s), s # <<>>
    PROVE  /\ Len(s) \in Nat \ {0} /\ Head(s) = s[1]
           /\ IsSeq(Tail(s)) /\ Len(Tail(s)) = Len(s) - 1
           /\ \A i \in 1..(Len(s) - 1) : Tail(s)[i] = s[i + 1]
  <1> DEFINE T == {s[i] : i \in 1..Len(s)}
  <1>1. s \in Seq(T)
    BY IsSeqIn
  <1> HIDE DEF T
  <1>2. Len(s) \in Nat \ {0}
    BY <1>1, EmptySeq
  <1>3. IsSeq(Tail(s)) /\ Len(Tail(s)) = Len(s) - 1
    BY <1>1, HeadTailProperties, SeqIs
  <1>4. \A i \in 1..(Len(s) - 1) : Tail(s)[i] = s[i + 1]
    BY <1>1, HeadTailProperties
  <1>5. Head(s) = s[1]
    BY <1>1
  <1> QED
    BY <1>2, <1>3, <1>4, <1>5

LEMMA Appended ==
    ASSUME NEW s, NEW x, IsSeq(s)
    PROVE  /\ IsSeq(Append(s, x)) /\ Len(Append(s, x)) = Len(s) + 1
           /\ \A i \in 1..Len(s) : Append(s, x)[i] = s[i]
           /\ Append(s, x)[Len(s) + 1] = x
  <1> DEFINE T == {s[i] : i \in 1..Len(s)} \cup {x}
  <1>1. s \in Seq(T) /\ x \in T
    BY IsSeqIn
  <1> HIDE DEF T
  <1>2. IsSeq(Append(s, x))
    BY <1>1, AppendProperties, SeqIs
  <1> QED
    BY <1>1, <1>2, AppendProperties

LEMMA Empty == IsSeq(<<>>) /\ Len(<<>>) = 0 /\ \A s : IsSeq(s) => (s = <<>> <=> Len(s) = 0)
  <1>1. IsSeq(<<>>) /\ Len(<<>>) = 0
    BY DEF IsSeq
  <1>2. ASSUME NEW s, IsSeq(s), Len(s) = 0 PROVE s = <<>>
    BY <1>2, Dropped
  <1> QED
    BY <1>1, <1>2

\* The next call of those to come.
LEMMA RestStep ==
    ASSUME NEW s, IsSeq(s), NEW k \in 1..(Len(s) + 1)
    PROVE  /\ IsSeq(Rest(s, k)) /\ Len(Rest(s, k)) = Len(s) - k + 1
           /\ Rest(s, k) = <<>> <=> k = Len(s) + 1
           /\ k # Len(s) + 1 => Head(Rest(s, k)) = s[k] /\ Tail(Rest(s, k)) = Rest(s, k + 1)
  <1> DEFINE n == Len(s) - k + 1  r == Rest(s, k)
  <1>1. Len(s) \in Nat /\ n \in Nat
    BY DEF IsSeq
  <1>2. r = [i \in 1..n |-> s[i + k - 1]]
    BY DEF Rest
  <1>3. Len(r) = n /\ IsSeq(r)
    <2> DEFINE T == {s[i + k - 1] : i \in 1..n}
    <2>1. r \in [1..n -> T]
      BY <1>2
    <2>2. r \in Seq(T)
      BY <2>1, <1>1, SeqDef
    <2> HIDE DEF T
    <2>3. Len(r) = n
      BY <2>1, <2>2, <1>1, LenProperties
    <2> QED
      BY <2>2, <2>3, SeqIs
  <1>4. r = <<>> <=> k = Len(s) + 1
    BY <1>1, <1>3, Empty
  <1>5. ASSUME k # Len(s) + 1 PROVE Head(r) = s[k] /\ Tail(r) = Rest(s, k + 1)
    <2>1. r # <<>> /\ n \in Nat \ {0} /\ r[1] = s[k] /\ Len(s) - (k + 1) + 1 = n - 1
      BY <1>5, <1>4, <1>1, <1>2
    <2>2. /\ Head(r) = r[1] /\ IsSeq(Tail(r)) /\ Len(Tail(r)) = n - 1
          /\ \A i \in 1..(n - 1) : Tail(r)[i] = r[i + 1]
      BY <2>1, <1>3, Dropped
    <2>3. Tail(r) = [i \in 1..(n - 1) |-> Tail(r)[i]]
      BY <2>2 DEF IsSeq
    <2>4. \A i \in 1..(n - 1) : Tail(r)[i] = s[i + (k + 1) - 1]
      BY <2>2, <1>2, <2>1
    <2> QED
      BY <2>1, <2>2, <2>3, <2>4 DEF Rest
  <1> QED
    BY <1>3, <1>4, <1>5

-----------------------------------------------------------------------------
(* The calls to come, as calls are made *)

\* the call at the head of a plan is made
LEMMA PlanTail ==
    ASSUME NEW d, NEW p, NEW t, NEW h, NEW f, NEW m, NEW b, NEW h2, NEW f2,
           IsSeq(t), t # <<>>, Plan(d, p, t, h, f, m, b),
           h2 \subseteq h,
           \A x \in h : x \notin h2 => Drops(t[1], x) \/ (t[1].op = "unregister" /\ x = "driver"),
           \A x : Drops(t[1], x) => x \notin h2,
           \A x \in f2 : x \in f \/ Drops(t[1], x),
           t[1].op = "unregister" => ~b
    PROVE  Plan(d, p, Tail(t), h2, f2, m, b)
  <1> DEFINE w == Tail(t)
  <1>1. /\ Len(t) \in Nat \ {0} /\ Len(w) = Len(t) - 1
        /\ \A i \in 1..Len(w) : i + 1 \in 1..Len(t) /\ w[i] = t[i + 1]
    BY Dropped
  <1> HIDE DEF w
  <1>2. ASSUME NEW i \in 1..Len(w) PROVE Ordered(d, p, w, i) /\ Neat(d, p, w, i, h2, f2, m)
    <2>1. i + 1 \in 1..Len(t) /\ w[i] = t[i + 1] /\ 1 \in 1..i /\ 1 \in 1..Len(t)
      BY <1>1
    <2>2. /\ Ordered(d, p, t, i + 1) /\ Neat(d, p, t, i + 1, h, f, m)
          /\ Ordered(d, p, t, 1)
      BY <2>1 DEF Plan
    <2>3. Ordered(d, p, w, i)
      <3>1. \A j \in (i + 1)..Len(w) : j + 1 \in (i + 2)..Len(t) /\ w[j] = t[j + 1]
        BY <1>1
      <3> QED
        BY <2>1, <2>2, <3>1 DEF Ordered
    <2>4. Neat(d, p, w, i, h2, f2, m)
      <3>1. CASE Excused(d, p, t[i + 1].x) \/ t[i + 1].op \in {"cancel", "unregister"}
        BY <2>1, <3>1 DEF Neat
      <3>2. CASE /\ NotBefore(t, i + 1, t[i + 1].x)
                 /\ t[i + 1].op \in {"put", "use"} => Presumed(d, h, f, t[i + 1].x)
                 /\ t[i + 1].op = "kfree" =>
                        t[i + 1].x \notin f /\ \A n \in 1..Len(m) : m[n] # t[i + 1].x
        <4>1. ~Drops(t[1], t[i + 1].x)
          BY <3>2, <2>1 DEF NotBefore
        <4>2. NotBefore(w, i, w[i].x)
          <5>1. \A j \in 1..(i - 1) : j + 1 \in 1..i /\ w[j] = t[j + 1]
            BY <1>1
          <5> QED
            BY <2>1, <3>2, <5>1 DEF NotBefore
        <4>3. t[1].op = "unregister" => t[i + 1].op = "put" /\ t[i + 1].x # "driver"
          <5>1. i + 1 \in (1 + 1)..Len(t)
            BY <2>1
          <5> QED
            BY <2>2, <5>1 DEF Ordered
        <4>4. w[i].op \in {"put", "use"} => Presumed(d, h2, f2, w[i].x)
          BY <2>1, <3>2, <4>1, <4>3 DEF Presumed
        <4>5. w[i].op = "kfree" => w[i].x \notin f2 /\ \A n \in 1..Len(m) : m[n] # w[i].x
          BY <2>1, <3>2, <4>1
        <4> QED
          BY <4>2, <4>4, <4>5 DEF Neat
      <3> QED
        BY <2>2, <3>1, <3>2 DEF Neat
    <2> QED
      BY <2>3, <2>4
  <1>3. ASSUME NEW e \in h2, Doomed(d, p, t, e, b) PROVE Doomed(d, p, w, e, b)
    <2>1. PICK i \in 1..Len(t) :
            /\ Drops(t[i], e) \/ (t[i].op = "unregister" /\ b /\ e \in Transient[d])
            /\ \A j \in 1..i :
                /\ e \in Lasting[d] => t[j].op # "unregister"
                /\ \A r \in Driver[d].needs[e] : Drops(t[j], r) => Except(d, p, e, r)
      BY <1>3 DEF Doomed
    <2>2. i # 1
      BY <2>1, <1>3
    <2>3. i - 1 \in 1..Len(w) /\ w[i - 1] = t[i]
      BY <1>1, <2>2
    <2>4. \A j \in 1..(i - 1) : j + 1 \in 1..i /\ w[j] = t[j + 1]
      BY <1>1
    <2> QED
      BY <2>1, <2>3, <2>4 DEF Doomed
  <1> QED
    BY <1>2, <1>3 DEF Plan, w

\* the work item, which no call but its cancellation is about
LEMMA PlanWork ==
    ASSUME NEW d, NEW p, NEW t, NEW h, NEW f, NEW m, NEW b, NEW h2,
           Plan(d, p, t, h, f, m, b), "work" \notin Firm(d),
           \A x : x # "work" => (x \in h <=> x \in h2)
    PROVE  Plan(d, p, t, h2, f, m, b)
  <1>1. ASSUME NEW i \in 1..Len(t) PROVE Ordered(d, p, t, i) /\ Neat(d, p, t, i, h2, f, m)
    BY <1>1 DEF Plan, Ordered, Neat, Presumed
  <1> QED
    BY <1>1 DEF Plan, Firm

\* The driver core's calls: u puts back what m has, the newest first.
Puts(u, m) ==
    /\ IsSeq(u) /\ Len(u) = Len(m)
    /\ \A i \in 1..Len(m) : u[i] = Put(m[Len(m) - i + 1])

LEMMA FieldsOfPut ==
    \A x : /\ Put(x).op = "put" /\ Put(x).x = x /\ Put(x).fails = "never"
           /\ \A y : Drops(Put(x), y) <=> x = y
  BY DEF Put, Call, Drops

LEMMA UnwindingPuts == IsSeq(managed) => Puts(Unwinding, managed)
  <1> SUFFICES ASSUME IsSeq(managed) PROVE Puts(Unwinding, managed)
    OBVIOUS
  <1> DEFINE n == Len(managed)  T == {Put(Reverse(managed)[i]) : i \in 1..n}
  <1>1. n \in Nat
    BY DEF IsSeq
  <1>2. Unwinding \in [1..n -> T] /\ \A i \in 1..n : Unwinding[i] = Put(managed[n - i + 1])
    BY <1>1 DEF Unwinding, Reverse
  <1> HIDE DEF T
  <1>3. Unwinding \in Seq(T)
    BY <1>1, <1>2, SeqDef
  <1>4. Len(Unwinding) = n
    BY <1>1, <1>2, <1>3, LenProperties
  <1> QED
    BY <1>2, <1>3, <1>4, SeqIs DEF Puts

\* Everything that rmmod or the loss of the device makes a bound driver give up.
Clears(d, w) ==
    /\ IsSeq(w)
    /\ \A i \in 1..Len(w) :
        /\ w[i].fails = "never" /\ w[i].op \in UndoOps /\ w[i].x \notin KeptBy(d)
        /\ \/ w[i].op = "cancel"
           \/ w[i].x # "work" /\ ExcusedAfter(d, w[i].x)
           \/ /\ w[i].x # "work" /\ w[i].op # "kfree" /\ w[i].x \in Sure[d]
              /\ Untouched(d, w[i].x) \/ Excused(d, "exit", w[i].x)
              /\ NotBefore(w, i, w[i].x)
    /\ \A e \in Transient[d] : \E i \in 1..Len(w) :
        /\ Drops(w[i], e)
        /\ \A j \in 1..i, r \in Driver[d].needs[e] : Drops(w[j], r) => ExceptAfter(d, e, r)

\* What remove and the driver core leave behind them.
LEMMA RemoveClears ==
    ASSUME NEW d, Rules(d), TypeRule(d), NEW u, Puts(u, Given[d])
    PROVE  Clears(d, Driver[d].remove \o u)
  <1> DEFINE s == Driver[d].remove  g == Given[d]  w == s \o u
  <1>1. IsSeq(s) /\ IsSeq(g) /\ IsSeq(u) /\ Len(u) = Len(g)
    BY DEF TypeRule, Puts
  <1>2. Len(s) \in Nat /\ Len(g) \in Nat
    BY <1>1 DEF IsSeq
  <1>3. /\ IsSeq(w) /\ Len(w) = Len(s) + Len(g)
        /\ \A i \in 1..Len(s) : w[i] = s[i]
        /\ \A i \in 1..Len(g) : w[Len(s) + i] = u[i]
    <2>1. /\ IsSeq(w) /\ Len(w) = Len(s) + Len(u)
          /\ \A i \in 1..Len(s) : w[i] = s[i]
          /\ \A i \in 1..Len(u) : w[Len(s) + i] = u[i]
      <3> HIDE DEF s
      <3> QED
        BY <1>1, Joined
    <2> HIDE DEF w, s, g
    <2> QED
      BY <2>1, <1>1
  <1>4. \A i \in 1..Len(s) : RemoveRule(d, i)
    BY DEF Rules
  <1>5. \A n \in 1..Len(g) : GivenRule(d, n)
    BY DEF Rules
  <1>6. \A i \in 1..Len(g) : /\ Len(g) - i + 1 \in 1..Len(g)
                             /\ u[i] = Put(g[Len(g) - i + 1])
    BY <1>2 DEF Puts
  <1>e. \A e \in Transient[d] : EndRule(d, e)
    BY DEF Rules
  <1> HIDE DEF s, g, w
  <1>7. ASSUME NEW i \in 1..Len(s)
        PROVE  /\ w[i].fails = "never" /\ w[i].op \in UndoOps /\ w[i].x \notin KeptBy(d)
               /\ \/ w[i].op = "cancel"
                  \/ w[i].x # "work" /\ ExcusedAfter(d, w[i].x)
                  \/ /\ w[i].x # "work" /\ w[i].op # "kfree" /\ w[i].x \in Sure[d]
                     /\ Untouched(d, w[i].x) \/ Excused(d, "exit", w[i].x)
                     /\ NotBefore(w, i, w[i].x)
    <2>1. w[i] = s[i] /\ \A j \in 1..(i - 1) : w[j] = s[j]
      BY <1>2, <1>3
    <2>2. NotBefore(s, i, s[i].x) => NotBefore(w, i, w[i].x)
      BY <2>1 DEF NotBefore
    <2> QED
      BY <1>4, <2>1, <2>2 DEF RemoveRule, s
  <1>8. ASSUME NEW n \in 1..Len(g)
        PROVE  LET i == Len(s) + n IN
               /\ w[i].fails = "never" /\ w[i].op \in UndoOps /\ w[i].x \notin KeptBy(d)
               /\ \/ w[i].x # "work" /\ ExcusedAfter(d, w[i].x)
                  \/ /\ w[i].x # "work" /\ w[i].op # "kfree" /\ w[i].x \in Sure[d]
                     /\ Untouched(d, w[i].x) \/ Excused(d, "exit", w[i].x)
                     /\ NotBefore(w, i, w[i].x)
    <2> DEFINE i == Len(s) + n  x == g[Len(g) - n + 1]
    <2>1. w[i] = Put(x) /\ GivenRule(d, Len(g) - n + 1)
      BY <1>3, <1>5, <1>6
    <2>2. /\ x \notin KeptBy(d) \cup {"work"}
          /\ \A k \in 1..(Len(g) - n) : g[k] # x
          /\ \/ ExcusedAfter(d, x)
             \/ x \in Sure[d] /\ NotBefore(s, Len(s) + 1, x) /\ Untouched(d, x)
      BY <2>1, <1>2 DEF GivenRule, s, g
    <2>3. ASSUME NotBefore(s, Len(s) + 1, x), NEW j \in 1..(i - 1) PROVE ~Drops(w[j], x)
      <3>1. CASE j <= Len(s)
        <4>1. j \in 1..Len(s) /\ w[j] = s[j]
          BY <1>2, <1>3, <3>1
        <4> QED
          BY <4>1, <2>3 DEF NotBefore
      <3>2. CASE j > Len(s)
        <4> DEFINE l == j - Len(s)
        <4>1. l \in 1..Len(g) /\ l < n /\ j = Len(s) + l
          BY <1>2, <3>2
        <4>2. w[j] = Put(g[Len(g) - l + 1]) /\ GivenRule(d, Len(g) - l + 1)
          BY <4>1, <1>3, <1>5, <1>6
        <4>3. g[Len(g) - l + 1] # x
          <5>1. Len(g) - n + 1 \in 1..(Len(g) - l + 1 - 1)
            BY <4>1, <1>2
          <5> QED
            BY <4>2, <5>1 DEF GivenRule, g
        <4> QED
          BY <4>2, <4>3, FieldsOfPut
      <3> QED
        BY <1>2, <3>1, <3>2
    <2>4. w[i].op = "put" /\ w[i].x = x /\ w[i].fails = "never"
      BY <2>1, FieldsOfPut
    <2>5. NotBefore(s, Len(s) + 1, x) => NotBefore(w, i, x)
      BY <2>3 DEF NotBefore
    <2> HIDE DEF i, x
    <2> QED
      BY <2>2, <2>4, <2>5 DEF UndoOps, i
  <1>9. ASSUME NEW i \in 1..Len(w)
        PROVE  /\ w[i].fails = "never" /\ w[i].op \in UndoOps /\ w[i].x \notin KeptBy(d)
               /\ \/ w[i].op = "cancel"
                  \/ w[i].x # "work" /\ ExcusedAfter(d, w[i].x)
                  \/ /\ w[i].x # "work" /\ w[i].op # "kfree" /\ w[i].x \in Sure[d]
                     /\ Untouched(d, w[i].x) \/ Excused(d, "exit", w[i].x)
                     /\ NotBefore(w, i, w[i].x)
    <2>1. CASE i \in 1..Len(s)
      BY <2>1, <1>7
    <2>2. CASE i \notin 1..Len(s)
      <3>1. i - Len(s) \in 1..Len(g) /\ i = Len(s) + (i - Len(s))
        BY <2>2, <1>2, <1>3
      <3> QED
        BY <3>1, <1>8
    <2> QED
      BY <2>1, <2>2
  <1>10. ASSUME NEW e \in Transient[d]
         PROVE  \E i \in 1..Len(w) :
                    /\ Drops(w[i], e)
                    /\ \A j \in 1..i, r \in Driver[d].needs[e] :
                          Drops(w[j], r) => ExceptAfter(d, e, r)
    <2>1. CASE \E i \in 1..Len(s) :
                  /\ Drops(s[i], e)
                  /\ \A r \in Driver[d].needs[e], j \in 1..i :
                        Drops(s[j], r) => ExceptAfter(d, e, r)
      <3>1. PICK i \in 1..Len(s) :
                  /\ Drops(s[i], e)
                  /\ \A r \in Driver[d].needs[e], j \in 1..i :
                        Drops(s[j], r) => ExceptAfter(d, e, r)
        BY <2>1
      <3>2. i \in 1..Len(w) /\ \A j \in 1..i : w[j] = s[j]
        BY <1>2, <1>3
      <3> QED
        BY <3>1, <3>2
    <2>2. CASE \E n \in 1..Len(g) :
                  /\ g[n] = e
                  /\ \A r \in Driver[d].needs[e] :
                        NotBefore(s, Len(s) + 1, r) /\ \A m \in n..Len(g) : g[m] # r
      <3>1. PICK n \in 1..Len(g) :
                  /\ g[n] = e
                  /\ \A r \in Driver[d].needs[e] :
                        NotBefore(s, Len(s) + 1, r) /\ \A m \in n..Len(g) : g[m] # r
        BY <2>2
      <3> DEFINE i == Len(s) + (Len(g) - n + 1)
      <3>2. i \in 1..Len(w) /\ Len(g) - n + 1 \in 1..Len(g)
            /\ Len(g) - (Len(g) - n + 1) + 1 = n
        BY <1>2, <1>3
      <3>3. Drops(w[i], e)
        <4>1. w[i] = Put(e)
          BY <3>1, <3>2, <1>3, <1>6
        <4> QED
          BY <4>1, FieldsOfPut
      <3>4. ASSUME NEW j \in 1..i, NEW r \in Driver[d].needs[e] PROVE ~Drops(w[j], r)
        <4>1. CASE j <= Len(s)
          <5>1. j \in 1..Len(s) /\ w[j] = s[j]
            BY <1>2, <1>3, <4>1
          <5> QED
            BY <5>1, <3>1 DEF NotBefore
        <4>2. CASE j > Len(s)
          <5> DEFINE l == j - Len(s)
          <5>1. l \in 1..Len(g) /\ Len(g) - l + 1 \in n..Len(g) /\ j = Len(s) + l
            BY <1>2, <4>2
          <5>2. w[j] = Put(g[Len(g) - l + 1])
            BY <5>1, <1>3, <1>6
          <5> QED
            BY <5>1, <5>2, <3>1, FieldsOfPut
        <4> QED
          BY <1>2, <4>1, <4>2
      <3> HIDE DEF i
      <3> QED
        BY <3>2, <3>3, <3>4
    <2> QED
      BY <1>e, <2>1, <2>2 DEF EndRule, s, g
  <1> QED
    BY <1>3, <1>9, <1>10 DEF Clears, w, s

\* A bound driver loses its device.
LEMMA PlanRemove ==
    ASSUME NEW d, NEW w, Clears(d, w), NEW h, NEW f, Settled(d, h, f),
           Transient[d] \cap Lasting[d] = {}
    PROVE  Plan(d, "remove", w, h, f, <<>>, FALSE)
  <1>1. ASSUME NEW i \in 1..Len(w)
        PROVE  Ordered(d, "remove", w, i) /\ Neat(d, "remove", w, i, h, f, <<>>)
    <2>1. w[i].op # "unregister" /\ \A x \in KeptBy(d) : ~Drops(w[i], x)
      BY DEF Clears, UndoOps, Drops
    <2> QED
      BY <2>1 DEF Clears, Ordered, Neat, ExcusedAfter, UndoOps, Settled
  <1>2. ASSUME NEW e \in Transient[d] PROVE Doomed(d, "remove", w, e, FALSE)
    BY DEF Clears, Doomed, ExceptAfter
  <1> QED
    BY <1>1, <1>2 DEF Plan

\* A driver is unregistered that has a device.
LEMMA PlanUnregister ==
    ASSUME NEW d, NEW w, Clears(d, w), Transient[d] \cap Lasting[d] = {},
           NEW t, NEW h, NEW f, NEW m, NEW h2, IsSeq(t), t # <<>>,
           Plan(d, "exit", t, h, f, m, TRUE), t[1].op = "unregister",
           h2 = h \ {"driver"}, \A x \in Sure[d] : Untouched(d, x) => Presumed(d, h, f, x)
    PROVE  /\ IsSeq(w \o Tail(t))
           /\ Plan(d, "exit", w \o Tail(t), h2, f, <<>>, FALSE)
  <1> DEFINE v == w \o Tail(t)
  <1>1. Len(t) \in Nat \ {0} /\ IsSeq(Tail(t)) /\ Len(Tail(t)) = Len(t) - 1
        /\ \A i \in 1..(Len(t) - 1) : Tail(t)[i] = t[i + 1]
    BY Dropped
  <1>2. IsSeq(w) /\ Len(w) \in Nat
    BY DEF Clears, IsSeq
  <1>3. /\ IsSeq(v) /\ Len(v) = Len(w) + (Len(t) - 1)
        /\ \A i \in 1..Len(w) : v[i] = w[i]
        /\ \A i \in 1..(Len(t) - 1) : v[Len(w) + i] = t[i + 1]
    BY <1>1, <1>2, Joined
  <1> HIDE DEF v
  <1>4. \A j \in 2..Len(t) : t[j].op = "put" /\ t[j].x \in KeptBy(d) \ {"driver"}
    <2>1. Ordered(d, "exit", t, 1)
      BY <1>1 DEF Plan
    <2> QED
      BY <2>1 DEF Ordered
  <1>5. ASSUME NEW i \in 1..Len(w)
        PROVE  Ordered(d, "exit", v, i) /\ Neat(d, "exit", v, i, h2, f, <<>>)
    <2>1. v[i] = w[i] /\ \A j \in 1..(i - 1) : v[j] = w[j]
      BY <1>2, <1>3
    <2>2. NotBefore(w, i, w[i].x) => NotBefore(v, i, v[i].x)
      BY <2>1 DEF NotBefore
    <2>3. w[i].x # "driver"
      BY DEF Clears, KeptBy
    <2>4. w[i].x \in Sure[d] /\ Untouched(d, w[i].x) => Presumed(d, h2, f, w[i].x)
      BY <2>3 DEF Presumed
    <2>5. /\ w[i].fails = "never" /\ w[i].op \in UndoOps /\ w[i].x \notin KeptBy(d)
          /\ \/ w[i].op = "cancel"
             \/ w[i].x # "work" /\ ExcusedAfter(d, w[i].x)
             \/ /\ w[i].x # "work" /\ w[i].op # "kfree" /\ w[i].x \in Sure[d]
                /\ Untouched(d, w[i].x) \/ Excused(d, "exit", w[i].x)
                /\ NotBefore(w, i, w[i].x)
      BY DEF Clears
    <2>6. Ordered(d, "exit", v, i)
      BY <2>1, <2>5 DEF Ordered, UndoOps
    <2>7. Neat(d, "exit", v, i, h2, f, <<>>)
      BY <2>1, <2>2, <2>4, <2>5 DEF Neat, ExcusedAfter
    <2> QED
      BY <2>6, <2>7
  <1>6. ASSUME NEW n \in 1..(Len(t) - 1)
        PROVE  /\ Ordered(d, "exit", v, Len(w) + n)
               /\ Neat(d, "exit", v, Len(w) + n, h2, f, <<>>)
    <2> DEFINE i == Len(w) + n  c == t[n + 1]
    <2>1. /\ v[i] = c /\ n + 1 \in 2..Len(t) /\ n + 1 \in 1..Len(t)
          /\ c.op = "put" /\ c.x \in KeptBy(d) \ {"driver"}
      BY <1>1, <1>3, <1>4
    <2>2. Ordered(d, "exit", t, n + 1) /\ Neat(d, "exit", t, n + 1, h, f, m)
      BY <2>1 DEF Plan
    <2>3. Ordered(d, "exit", v, i)
      BY <2>1, <2>2 DEF Ordered
    <2>4. ASSUME NotBefore(t, n + 1, c.x), NEW j \in 1..(i - 1) PROVE ~Drops(v[j], c.x)
      <3>1. CASE j <= Len(w)
        <4>1. j \in 1..Len(w) /\ v[j] = w[j]
          BY <1>2, <1>3, <3>1
        <4>2. w[j].x \notin KeptBy(d)
          BY <4>1 DEF Clears
        <4> QED
          BY <4>1, <4>2, <2>1 DEF Drops
      <3>2. CASE j > Len(w)
        <4>1. j - Len(w) \in 1..(Len(t) - 1) /\ j - Len(w) + 1 \in 1..(n + 1 - 1)
              /\ j = Len(w) + (j - Len(w))
          BY <1>1, <1>2, <3>2
        <4>2. v[j] = t[j - Len(w) + 1]
          BY <4>1, <1>3
        <4> QED
          BY <4>1, <4>2, <2>4 DEF NotBefore
      <3> QED
        BY <1>2, <3>1, <3>2
    <2>5. Neat(d, "exit", v, i, h2, f, <<>>)
      <3>1. NotBefore(t, n + 1, c.x) => NotBefore(v, i, c.x)
        BY <2>4 DEF NotBefore
      <3> HIDE DEF c, i
      <3> QED
        BY <2>1, <2>2, <3>1 DEF Neat, c, Presumed
    <2> QED
      BY <2>3, <2>5
  <1>7. ASSUME NEW i \in 1..Len(v)
        PROVE  Ordered(d, "exit", v, i) /\ Neat(d, "exit", v, i, h2, f, <<>>)
    <2>1. CASE i \in 1..Len(w)
      BY <2>1, <1>5
    <2>2. CASE i \notin 1..Len(w)
      <3>1. i - Len(w) \in 1..(Len(t) - 1) /\ i = Len(w) + (i - Len(w))
        BY <2>2, <1>1, <1>2, <1>3
      <3> QED
        BY <3>1, <1>6
    <2> QED
      BY <2>1, <2>2
  <1>8. ASSUME NEW e \in Transient[d] PROVE Doomed(d, "exit", v, e, FALSE)
    <2>1. PICK i \in 1..Len(w) :
            /\ Drops(w[i], e)
            /\ \A j \in 1..i, r \in Driver[d].needs[e] : Drops(w[j], r) => ExceptAfter(d, e, r)
      BY DEF Clears
    <2>2. i \in 1..Len(v) /\ \A j \in 1..i : v[j] = w[j]
      BY <1>1, <1>2, <1>3
    <2> QED
      BY <2>1, <2>2 DEF Doomed, ExceptAfter
  <1>9. ASSUME NEW e \in Lasting[d] PROVE e \notin h
    <2> SUFFICES ASSUME Doomed(d, "exit", t, e, TRUE) PROVE FALSE
      BY DEF Plan
    <2>1. t[1].op # "unregister"
      <3>1. PICK i \in 1..Len(t) : \A j \in 1..i : t[j].op # "unregister"
        BY DEF Doomed
      <3> QED
        BY <3>1
    <2> QED
      BY <2>1
  <1> QED
    BY <1>3, <1>7, <1>8, <1>9 DEF Plan, v

-----------------------------------------------------------------------------
(* The calls to come after a failure and at rmmod *)

\* What holds of the calls of a plan holds of them at its head in a longer one.
LEMMA Longer ==
    ASSUME NEW d, NEW p, NEW a, NEW w, NEW i \in 1..Len(a),
           Len(a) \in Nat, Len(w) \in Nat, Len(a) <= Len(w), \A j \in 1..Len(a) : w[j] = a[j]
    PROVE  /\ \A x : NotBefore(a, i, x) => NotBefore(w, i, x)
           /\ \A h, f, m : Neat(d, p, a, i, h, f, m) => Neat(d, p, w, i, h, f, m)
           /\ Ordered(d, p, a, i) /\ a[i].op # "unregister" => Ordered(d, p, w, i)
  <1>1. w[i] = a[i] /\ \A j \in 1..(i - 1) : w[j] = a[j]
    OBVIOUS
  <1>2. \A x : NotBefore(a, i, x) => NotBefore(w, i, x)
    BY <1>1 DEF NotBefore
  <1>3. \A h, f, m : Neat(d, p, a, i, h, f, m) => Neat(d, p, w, i, h, f, m)
    BY <1>1, <1>2 DEF Neat
  <1>4. Ordered(d, p, a, i) /\ a[i].op # "unregister" => Ordered(d, p, w, i)
    BY <1>1 DEF Ordered
  <1> QED
    BY <1>2, <1>3, <1>4

\* An entry that the calls end is ended by more calls.
LEMMA DoomedLonger ==
    ASSUME NEW d, NEW p, NEW a, NEW w, NEW e, NEW b,
           Len(a) \in Nat, Len(w) \in Nat, Len(a) <= Len(w), \A j \in 1..Len(a) : w[j] = a[j],
           Doomed(d, p, a, e, b)
    PROVE  Doomed(d, p, w, e, b)
  <1>1. PICK i \in 1..Len(a) :
            /\ Drops(a[i], e) \/ (a[i].op = "unregister" /\ b /\ e \in Transient[d])
            /\ \A j \in 1..i :
                /\ e \in Lasting[d] => a[j].op # "unregister"
                /\ \A r \in Driver[d].needs[e] : Drops(a[j], r) => Except(d, p, e, r)
    BY DEF Doomed
  <1>2. i \in 1..Len(w) /\ \A j \in 1..i : w[j] = a[j]
    OBVIOUS
  <1> QED
    BY <1>1, <1>2 DEF Doomed

\* The cleanup behind a goto gives back what has been taken.
LEMMA CleanupPlan ==
    ASSUME NEW d, NEW p \in {"exit", "failing", "probe"}, NEW s, NEW k, NEW h, NEW f, NEW m,
           \A i \in 1..Len(s[k].cleanup) : CleanRule(d, p, s, k, i),
           \A x : Has(s, k, x) => Presumed(d, h, f, x)
    PROVE  LET c == s[k].cleanup IN
           \A i \in 1..Len(c) :
               /\ Ordered(d, p, c, i) /\ Neat(d, p, c, i, h, f, m)
               /\ c[i].op # "unregister"
  <1> DEFINE c == s[k].cleanup
  <1> SUFFICES ASSUME NEW i \in 1..Len(c)
               PROVE  /\ Ordered(d, p, c, i) /\ Neat(d, p, c, i, h, f, m)
                      /\ c[i].op # "unregister"
    OBVIOUS
  <1>1. CleanRule(d, p, s, k, i)
    OBVIOUS
  <1>2. Ordered(d, p, c, i) /\ c[i].op # "unregister"
    BY <1>1 DEF CleanRule, Ordered, UndoOps, Drops
  <1>3. Neat(d, p, c, i, h, f, m)
    BY <1>1 DEF CleanRule, Neat
  <1> QED
    BY <1>2, <1>3

\* probe fails, and the driver core releases what it manages.
LEMMA PlanFail ==
    ASSUME NEW d, Rules(d), NEW k \in 1..Len(Driver[d].probe),
           NEW m, NEW u, IsSeq(m), Puts(u, m), NEW h, NEW f,
           Diverts(Driver[d].probe[k]),
           Len(m) = Upto[d][k], \A n \in 1..Len(m) : m[n] = Given[d][n] /\ m[n] \in h,
           \A x : Has(Driver[d].probe, k, x) => Presumed(d, h, f, x), "code" \in h,
           \A e \in Transient[d] \cap h : \E j \in 1..(k - 1) : Takes(Driver[d].probe[j], e)
    PROVE  LET w == Driver[d].probe[k].cleanup \o u IN
           IsSeq(w) /\ Plan(d, "failing", w, h, f, <<>>, FALSE)
  <1> DEFINE s == Driver[d].probe  c == s[k].cleanup  w == c \o u  g == Given[d]
  <1>1. ProbeRule(d, k)
    BY DEF Rules
  <1>2. /\ IsSeq(c) /\ Len(m) \in 0..Len(g)
        /\ \A i \in 1..Len(c) :
              /\ CleanRule(d, "failing", s, k, i)
              /\ \A n \in 1..Len(m) : Drops(c[i], g[n]) => Excused(d, "failing", g[n])
        /\ \A e \in Transient[d] :
              \/ \A j \in 1..(k - 1) : ~Takes(s[j], e)
              \/ \E i \in 1..Len(c) :
                    /\ Drops(c[i], e)
                    /\ \A r \in Driver[d].needs[e] :
                         /\ r = "code" \/ Has(s, k, r)
                         /\ \A j \in 1..i : Drops(c[j], r) =>
                                Except(d, "probe", e, r) /\ Except(d, "failing", e, r)
    BY <1>1 DEF ProbeRule
  <1>3. Len(c) \in Nat /\ Len(m) \in Nat /\ IsSeq(u) /\ Len(u) = Len(m)
    BY <1>2 DEF IsSeq, Puts
  <1>4. /\ IsSeq(w) /\ Len(w) = Len(c) + Len(m)
        /\ \A i \in 1..Len(c) : w[i] = c[i]
        /\ \A i \in 1..Len(m) : w[Len(c) + i] = u[i]
    <2>0. IsSeq(c) /\ IsSeq(u)
      BY <1>2, <1>3
    <2> HIDE DEF c
    <2>1. /\ IsSeq(w) /\ Len(w) = Len(c) + Len(u)
          /\ \A i \in 1..Len(c) : w[i] = c[i]
          /\ \A i \in 1..Len(u) : w[Len(c) + i] = u[i]
      BY <2>0, Joined
    <2> HIDE DEF w
    <2> QED
      BY <2>1, <1>3
  <1>c. \A i \in 1..Len(c) : Ordered(d, "failing", c, i) /\ Neat(d, "failing", c, i, h, f, <<>>)
                             /\ c[i].op # "unregister"
    <2>1. \A i \in 1..Len(c) : CleanRule(d, "failing", s, k, i)
      BY <1>2
    <2>2. \A x : Has(s, k, x) => Presumed(d, h, f, x)
      OBVIOUS
    <2> HIDE DEF s
    <2> TAKE i \in 1..Len(c)
    <2>3. CleanRule(d, "failing", s, k, i)
      BY <2>1
    <2>4. Ordered(d, "failing", c, i) /\ c[i].op # "unregister"
      BY <2>3 DEF CleanRule, Ordered, UndoOps, Drops
    <2>5. Neat(d, "failing", c, i, h, f, <<>>)
      BY <2>2, <2>3 DEF CleanRule, Neat
    <2> QED
      BY <2>4, <2>5
  <1>w. \A x : Has(s, k, x) => Presumed(d, h, f, x)
    OBVIOUS
  <1>g. \A a, b \in 1..Len(m) : a # b => g[a] # g[b]
    <2>1. \A n \in 1..Len(g) : \A a \in 1..(n - 1) : g[a] # g[n]
      BY DEF Rules, GivenRule
    <2>2. Len(g) \in Nat
      BY <1>2, <1>3
    <2> HIDE DEF g
    <2> QED
      BY <2>1, <2>2, <1>2
  <1>r. \A n \in 1..Len(m) : g[n] \notin KeptBy(d) \cup {"work"}
    <2>1. \A n \in 1..Len(g) : GivenRule(d, n)
      BY DEF Rules
    <2> QED
      BY <2>1, <1>2, <1>3 DEF GivenRule
  <1>m. \A n \in 1..Len(m) : m[n] = g[n] /\ m[n] \in h
    OBVIOUS
  <1> HIDE DEF s, c, w, g
  <1>5. ASSUME NEW i \in 1..Len(c)
        PROVE  Ordered(d, "failing", w, i) /\ Neat(d, "failing", w, i, h, f, <<>>)
    <2>1. /\ Len(c) \in Nat /\ Len(w) \in Nat /\ Len(c) <= Len(w)
          /\ \A j \in 1..Len(c) : w[j] = c[j]
      BY <1>3, <1>4
    <2> QED
      BY <1>c, <2>1, Longer
  <1>6. ASSUME NEW n \in 1..Len(m)
        PROVE  /\ Ordered(d, "failing", w, Len(c) + n)
               /\ Neat(d, "failing", w, Len(c) + n, h, f, <<>>)
    <2> DEFINE i == Len(c) + n  l == Len(m) - n + 1  x == g[l]
    <2>1. l \in 1..Len(m) /\ w[i] = Put(x)
      <3>1. l \in 1..Len(m) /\ Len(m) - n + 1 = l
        BY <1>3
      <3>2. w[i] = u[n] /\ u[n] = Put(m[l])
        BY <1>4 DEF Puts
      <3> QED
        BY <3>1, <3>2, <1>m
    <2>2. x \in h /\ x \notin KeptBy(d) \cup {"work"}
      BY <2>1, <1>m, <1>r
    <2>3. w[i].op = "put" /\ w[i].x = x /\ w[i].fails = "never"
          /\ \A y : Drops(w[i], y) <=> x = y
      BY <2>1, FieldsOfPut
    <2>4. ASSUME ~Excused(d, "failing", x), NEW j \in 1..(i - 1) PROVE ~Drops(w[j], x)
      <3>1. CASE j <= Len(c)
        <4>1. j \in 1..Len(c) /\ w[j] = c[j]
          BY <1>3, <1>4, <3>1
        <4> QED
          BY <4>1, <1>2, <2>1, <2>4
      <3>2. CASE j > Len(c)
        <4> DEFINE a == j - Len(c)  b == Len(m) - a + 1
        <4>1. a \in 1..Len(m) /\ b \in 1..Len(m) /\ b # l /\ j = Len(c) + a
          <5>1. a \in 1..Len(m) /\ a < n /\ j = Len(c) + a
            BY <1>3, <3>2
          <5> QED
            BY <5>1, <1>3
        <4>2. w[j] = Put(g[b])
          <5>1. w[j] = u[a] /\ u[a] = Put(m[b])
            <6>1. b = Len(m) - a + 1
              OBVIOUS
            <6> HIDE DEF a, b
            <6> QED
              BY <4>1, <6>1, <1>4 DEF Puts
          <5> QED
            BY <4>1, <5>1, <1>m
        <4>3. g[b] # x
          BY <4>1, <2>1, <1>g
        <4> QED
          BY <4>2, <4>3, FieldsOfPut
      <3> QED
        BY <1>3, <3>1, <3>2
    <2>5. Excused(d, "failing", x) \/ NotBefore(w, i, x)
      BY <2>4 DEF NotBefore
    <2> HIDE DEF i, x, l
    <2>6. Ordered(d, "failing", w, i)
      BY <2>2, <2>3 DEF Ordered, UndoOps
    <2>7. Neat(d, "failing", w, i, h, f, <<>>)
      BY <2>2, <2>3, <2>5 DEF Neat, Presumed
    <2> QED
      BY <2>6, <2>7 DEF i
  <1>7. ASSUME NEW i \in 1..Len(w)
        PROVE  Ordered(d, "failing", w, i) /\ Neat(d, "failing", w, i, h, f, <<>>)
    <2>1. CASE i \in 1..Len(c)
      BY <2>1, <1>5
    <2>2. CASE i \notin 1..Len(c)
      <3>1. i - Len(c) \in 1..Len(m) /\ i = Len(c) + (i - Len(c))
        BY <2>2, <1>3, <1>4
      <3> QED
        BY <3>1, <1>6
    <2> QED
      BY <2>1, <2>2
  <1>8. ASSUME NEW e \in Transient[d] \cap h PROVE Doomed(d, "failing", w, e, FALSE)
    <2>1. PICK i \in 1..Len(c) :
            /\ Drops(c[i], e)
            /\ \A r \in Driver[d].needs[e] : \A j \in 1..i :
                  Drops(c[j], r) => Except(d, "failing", e, r)
      BY <1>2 DEF s
    <2>2. i \in 1..Len(w) /\ \A j \in 1..i : w[j] = c[j]
      BY <1>3, <1>4
    <2>3. \A j \in 1..i : w[j].op # "unregister"
      BY <2>2, <1>c
    <2> QED
      BY <2>1, <2>2, <2>3 DEF Doomed
  <1> QED
    BY <1>4, <1>7, <1>8 DEF Plan, w, c, s

\* Where a failing probe is: what it has taken for sure is there, and of the transient entries
\* only those it may have taken.
Got(d, k, h, f) ==
    /\ \A x : Has(Driver[d].probe, k, x) => Presumed(d, h, f, x)
    /\ \A e \in Transient[d] \cap h : \E j \in 1..(k - 1) : Takes(Driver[d].probe[j], e)
Forgives(c) == c.fails \in {"success", "either"}

\* probe returns 0 all the same.
LEMMA PlanSuccess ==
    ASSUME NEW d, Rules(d), NEW k \in 1..Len(Driver[d].probe), NEW h, NEW f,
           Forgives(Driver[d].probe[k]), Got(d, k, h, f)
    PROVE  LET c == Driver[d].probe[k].cleanup IN
           /\ IsSeq(c) /\ \A m, b : Plan(d, "probe", c, h, f, m, b)
           /\ Upto[d][k] = Len(Given[d])
           /\ Settled(d, h, f) /\ \A x \in Sure[d] : NotBefore(c, Len(c) + 1, x)
  <1> DEFINE s == Driver[d].probe  c == s[k].cleanup
  <1>1. ProbeRule(d, k)
    BY DEF Rules
  <1>2. /\ IsSeq(c) /\ Upto[d][k] = Len(Given[d])
        /\ \A i \in 1..Len(c) : CleanRule(d, "probe", s, k, i)
        /\ \A x \in Sure[d] : Has(s, k, x) /\ NotBefore(c, Len(c) + 1, x)
    BY <1>1 DEF ProbeRule, Forgives
  <1>3. \A e \in Transient[d] :
              \/ \A j \in 1..(k - 1) : ~Takes(s[j], e)
              \/ \E i \in 1..Len(c) :
                    /\ Drops(c[i], e)
                    /\ \A r \in Driver[d].needs[e] :
                         /\ r = "code" \/ Has(s, k, r)
                         /\ \A j \in 1..i : Drops(c[j], r) =>
                                Except(d, "probe", e, r) /\ Except(d, "failing", e, r)
    BY <1>1 DEF ProbeRule, Diverts, Forgives
  <1>4. \A m : \A i \in 1..Len(c) :
            Ordered(d, "probe", c, i) /\ Neat(d, "probe", c, i, h, f, m) /\ c[i].op # "unregister"
    BY <1>2, CleanupPlan DEF Got
  <1>5. ASSUME NEW e \in Transient[d] \cap h, NEW b PROVE Doomed(d, "probe", c, e, b)
    <2>0. \E j \in 1..(k - 1) : Takes(s[j], e)
      BY DEF Got
    <2>1. PICK i \in 1..Len(c) :
            /\ Drops(c[i], e)
            /\ \A r \in Driver[d].needs[e] : \A j \in 1..i :
                  Drops(c[j], r) => Except(d, "probe", e, r)
      BY <1>3, <2>0
    <2>2. Len(c) \in Nat
      BY <1>2 DEF IsSeq
    <2>3. \A j \in 1..i : c[j].op # "unregister"
      <3>1. \A j \in 1..Len(c) : c[j].op # "unregister"
        BY <1>4
      <3> QED
        BY <2>2, <3>1
    <2> QED
      BY <2>1, <2>3 DEF Doomed
  <1> QED
    BY <1>2, <1>4, <1>5 DEF Plan, Got, Settled

\* A plan ends with the code of the module.
LEMMA EndsWithCode ==
    ASSUME NEW a, IsSeq(a)
    PROVE  LET w == a \o <<Put("code")>> IN
           /\ IsSeq(w) /\ Len(a) \in Nat /\ Len(w) = Len(a) + 1
           /\ \A i \in 1..Len(a) : w[i] = a[i]
           /\ w[Len(a) + 1] = Put("code")
  <1> DEFINE b == <<Put("code")>>
  <1>0. IsSeq(b)
    BY DEF IsSeq
  <1>1. Len(b) = 1 /\ b[1] = Put("code")
    OBVIOUS
  <1> HIDE DEF b
  <1>2. /\ IsSeq(a \o b) /\ Len(a \o b) = Len(a) + Len(b)
        /\ \A i \in 1..Len(a) : (a \o b)[i] = a[i]
        /\ \A i \in 1..Len(b) : (a \o b)[Len(a) + i] = b[i]
    BY <1>0, Joined
  <1>3. Len(a) \in Nat
    BY DEF IsSeq
  <1> QED
    BY <1>1, <1>2, <1>3 DEF b

\* init fails.
LEMMA PlanInit ==
    ASSUME NEW d, Rules(d), NEW k \in 1..Len(Driver[d].init), NEW h, NEW f, NEW m, NEW b,
           \A x : Has(Driver[d].init, k, x) => Presumed(d, h, f, x), "code" \in h,
           Firm(d) \cap h = {}
    PROVE  LET w == Driver[d].init[k].cleanup \o <<Put("code")>> IN
           IsSeq(w) /\ Plan(d, "exit", w, h, f, m, b)
  <1> DEFINE s == Driver[d].init  c == s[k].cleanup  w == c \o <<Put("code")>>
  <1>1. IsSeq(c) /\ \A i \in 1..Len(c) : CleanRule(d, "exit", s, k, i)
    BY DEF Rules, InitRule
  <1>2. \A i \in 1..Len(c) : Ordered(d, "exit", c, i) /\ Neat(d, "exit", c, i, h, f, m)
                             /\ c[i].op # "unregister" /\ c[i].x # "code"
    <2>1. \A i \in 1..Len(c) : CleanRule(d, "exit", s, k, i)
      BY <1>1
    <2>2. \A x : Has(s, k, x) => Presumed(d, h, f, x)
      OBVIOUS
    <2> HIDE DEF s
    <2>3. \A i \in 1..Len(c) : Ordered(d, "exit", c, i) /\ Neat(d, "exit", c, i, h, f, m)
                               /\ c[i].op # "unregister"
      BY <2>1, <2>2, CleanupPlan
    <2>4. \A i \in 1..Len(c) : c[i].x # "code"
      BY <2>1 DEF CleanRule
    <2> QED
      BY <2>3, <2>4
  <1> HIDE DEF c
  <1>3. /\ IsSeq(w) /\ Len(c) \in Nat /\ Len(w) = Len(c) + 1
        /\ \A i \in 1..Len(c) : w[i] = c[i]
        /\ w[Len(c) + 1] = Put("code")
    BY <1>1, EndsWithCode
  <1> HIDE DEF w
  <1>l. /\ Len(c) \in Nat /\ Len(w) \in Nat /\ Len(c) <= Len(w)
        /\ \A j \in 1..Len(c) : w[j] = c[j]
    BY <1>3
  <1>4. ASSUME NEW i \in 1..Len(c) PROVE Ordered(d, "exit", w, i) /\ Neat(d, "exit", w, i, h, f, m)
    BY <1>2, <1>l, Longer
  <1>5. Ordered(d, "exit", w, Len(c) + 1) /\ Neat(d, "exit", w, Len(c) + 1, h, f, m)
    <2>1. NotBefore(w, Len(c) + 1, "code")
      BY <1>2, <1>3 DEF NotBefore, Drops
    <2> QED
      BY <2>1, <1>3, FieldsOfPut DEF Ordered, Neat, UndoOps, Presumed
  <1>6. \A i \in 1..Len(w) : Ordered(d, "exit", w, i) /\ Neat(d, "exit", w, i, h, f, m)
    <2>1. \A i \in 1..Len(w) : i \in 1..Len(c) \/ i = Len(c) + 1
      BY <1>3
    <2> QED
      BY <2>1, <1>4, <1>5
  <1> QED
    BY <1>3, <1>6 DEF Plan, Firm, w, c

\* rmmod
LEMMA PlanUnload ==
    ASSUME NEW d, Rules(d), TypeRule(d), NEW h, NEW f, NEW m, NEW b,
           \A x : InitSure(d, x) => Presumed(d, h, f, x), "code" \in h, f \cap KeptBy(d) = {},
           \A n \in 1..Len(m) : m[n] \notin KeptBy(d),
           Transient[d] \cap h # {} => b
    PROVE  LET w == Driver[d].exit \o <<Put("code")>> IN
           IsSeq(w) /\ Plan(d, "exit", w, h, f, m, b)
  <1> DEFINE c == Driver[d].exit  w == c \o <<Put("code")>>
  <1>1. IsSeq(c) /\ \A i \in 1..Len(c) : ExitRule(d, i)
    BY DEF Rules, TypeRule
  <1>e. \A e \in Firm(d) : UnloadRule(d, e)
    BY DEF Rules
  <1> HIDE DEF c
  <1>3. /\ IsSeq(w) /\ Len(c) \in Nat /\ Len(w) = Len(c) + 1
        /\ \A i \in 1..Len(c) : w[i] = c[i]
        /\ w[Len(c) + 1] = Put("code")
    BY <1>1, EndsWithCode
  <1> HIDE DEF w
  <1>l. /\ Len(c) \in Nat /\ Len(w) \in Nat /\ Len(c) <= Len(w)
        /\ \A j \in 1..Len(c) : w[j] = c[j]
    BY <1>3
  <1>4. ASSUME NEW i \in 1..Len(c) PROVE Ordered(d, "exit", w, i) /\ Neat(d, "exit", w, i, h, f, m)
    <2>1. /\ c[i].op \in {"put", "kfree", "unregister"} /\ c[i].fails = "never"
          /\ c[i].x \notin {"code", "work"}
          /\ c[i].op # "unregister" =>
              \/ Excused(d, "exit", c[i].x)
              \/ /\ \/ c[i].op = "put" /\ InitSure(d, c[i].x)
                    \/ c[i].x \in Kept[d] /\ (c[i].op = "kfree" \/ Passed(d, c[i].x))
                 /\ NotBefore(c, i, c[i].x)
          /\ c[i].op = "unregister" => \A j \in (i + 1)..Len(c) :
              c[j].op = "put" /\ c[j].x \in KeptBy(d) \ {"driver"}
      BY <1>1 DEF ExitRule, c
    <2>2. Ordered(d, "exit", w, i)
      <3>1. ASSUME c[i].op = "unregister", NEW j \in (i + 1)..Len(w)
            PROVE  w[j].op = "put" /\ w[j].x \in KeptBy(d) \ {"driver"}
        <4>1. CASE j = Len(c) + 1
          BY <4>1, <1>3, FieldsOfPut DEF KeptBy
        <4>2. CASE j # Len(c) + 1
          <5>1. j \in (i + 1)..Len(c) /\ j \in 1..Len(c)
            BY <4>2, <1>3
          <5> QED
            BY <5>1, <3>1, <2>1, <1>3
        <4> QED
          BY <4>1, <4>2
      <3> QED
        BY <2>1, <3>1, <1>3 DEF Ordered, UndoOps
    <2>3. Neat(d, "exit", c, i, h, f, m)
      <3>1. c[i].x \in Kept[d] => c[i].x \notin f /\ \A n \in 1..Len(m) : m[n] # c[i].x
        BY DEF KeptBy
      <3> QED
        BY <2>1, <3>1 DEF Neat, Presumed
    <2> QED
      BY <2>2, <2>3, <1>l, Longer
  <1>5. Ordered(d, "exit", w, Len(c) + 1) /\ Neat(d, "exit", w, Len(c) + 1, h, f, m)
    <2>1. NotBefore(w, Len(c) + 1, "code")
      BY <1>1, <1>3 DEF NotBefore, Drops, ExitRule, c
    <2> QED
      BY <2>1, <1>3, FieldsOfPut DEF Ordered, Neat, UndoOps, Presumed
  <1>6. \A i \in 1..Len(w) : Ordered(d, "exit", w, i) /\ Neat(d, "exit", w, i, h, f, m)
    <2>1. \A i \in 1..Len(w) : i \in 1..Len(c) \/ i = Len(c) + 1
      BY <1>3
    <2> QED
      BY <2>1, <1>4, <1>5
  <1>7. ASSUME NEW e \in Firm(d) \cap h PROVE Doomed(d, "exit", w, e, b)
    <2>1. Doomed(d, "exit", c, e, b)
      <3>1. PICK i \in 1..Len(c) :
              /\ Drops(c[i], e) \/ (c[i].op = "unregister" /\ e \in Transient[d])
              /\ \A j \in 1..i :
                  /\ e \in Lasting[d] => c[j].op # "unregister"
                  /\ \A r \in Driver[d].needs[e] : Drops(c[j], r) => Except(d, "exit", e, r)
        BY <1>e DEF UnloadRule, c
      <3> QED
        BY <3>1 DEF Doomed
    <2> QED
      BY <2>1, <1>3, DoomedLonger
  <1> QED
    BY <1>3, <1>6, <1>7 DEF Plan, Firm, w, c

-----------------------------------------------------------------------------
(* The rules, evaluated for each driver *)

\* What the calls of the table are.
LEMMA Fields ==
    /\ Check.op = "check" /\ Check.x = "none"
    /\ Check.fails = "error" /\ Check.cleanup = <<>>
    /\ Unregister.op = "unregister" /\ Unregister.x = "driver"
    /\ Unregister.fails = "never" /\ Unregister.cleanup = <<>>
    /\ \A x :
          /\ Get(x).op = "get" /\ Get(x).x = x
          /\ Get(x).fails = "error" /\ Get(x).cleanup = <<>>
          /\ Managed(x).op = "managed" /\ Managed(x).x = x
          /\ Managed(x).fails = "error" /\ Managed(x).cleanup = <<>>
          /\ Always(x).op = "get" /\ Always(x).x = x
          /\ Always(x).fails = "never" /\ Always(x).cleanup = <<>>
          /\ Unchecked(x).op = "get" /\ Unchecked(x).x = x
          /\ Unchecked(x).fails = "ignored" /\ Unchecked(x).cleanup = <<>>
          /\ Put(x).op = "put" /\ Put(x).x = x
          /\ Put(x).fails = "never" /\ Put(x).cleanup = <<>>
          /\ Kfree(x).op = "kfree" /\ Kfree(x).x = x
          /\ Kfree(x).fails = "never" /\ Kfree(x).cleanup = <<>>
          /\ Use(x).op = "use" /\ Use(x).x = x
          /\ Use(x).fails = "never" /\ Use(x).cleanup = <<>>
    /\ \A x, c :
          /\ GetOr(x, c).op = "get" /\ GetOr(x, c).x = x
          /\ GetOr(x, c).fails = "error" /\ GetOr(x, c).cleanup = c
    /\ \A op, x, f, c :
          /\ Call(op, x, f, c).op = op /\ Call(op, x, f, c).x = x
          /\ Call(op, x, f, c).fails = f /\ Call(op, x, f, c).cleanup = c
  BY DEF Check, Call, Unregister, Get, Managed, Always, Unchecked, Put, Kfree, Use, GetOr

\* Before the k-th call of probe no transient entry is taken; the call adds nothing, or x, to
\* what the driver core manages.
Early(d, k) == \A j \in 1..(k - 1) : Driver[d].probe[j].x \notin Transient[d]
Backed(d, k, x) == \A r \in Driver[d].needs[x] :
    r = "code" \/ Has(Driver[d].probe, k, r) \/ (Except(d, "probe", x, r) /\ r \in Sure[d])
\* The m-th call of the cleanup of the k-th call ends e, before what e needs.
EndsWith(d, k, e, m) == LET c == Driver[d].probe[k].cleanup IN
    /\ Drops(c[m], e)
    /\ \A r \in Driver[d].needs[e] :
         /\ r = "code" \/ Has(Driver[d].probe, k, r)
         /\ \A j \in 1..m : Drops(c[j], r) =>
                Except(d, "probe", e, r) /\ Except(d, "failing", e, r)
Ends(d, k, e) == \E m \in 1..Len(Driver[d].probe[k].cleanup) : EndsWith(d, k, e, m)
\* It gives back nothing that the driver core gives back afterwards.
Harmless(d, k) == LET s == Driver[d].probe  c == s[k].cleanup  g == Given[d] IN
    \A i \in 1..Len(c) :
        /\ CleanRule(d, "failing", s, k, i)
        /\ \A n \in 1..Upto[d][k] : Drops(c[i], g[n]) => Excused(d, "failing", g[n])
Stays(d, k) == Upto[d][k] \in 0..Len(Given[d]) /\ Upto[d][k + 1] = Upto[d][k]
Adds(d, k, x) ==
    /\ Upto[d][k] \in 0..Len(Given[d]) /\ Upto[d][k + 1] = Upto[d][k] + 1
    /\ Given[d][Upto[d][k] + 1] = x

\* The calls of probe without a cleanup keep the rule when they take nothing that ends, and
\* no failure comes after a transient entry.
LEMMA PlainCall ==
    ASSUME NEW d, NEW k \in Nat, Upto[d][k] \in 0..Len(Given[d]),
           LET s == Driver[d].probe  c == s[k] IN
           /\ c.cleanup = <<>>
           /\ \/ c.op = "check" /\ c.fails = "error"
              \/ c.op = "use" /\ c.fails = "never" /\ Has(s, k, c.x)
              \/ /\ c.op \in {"get", "managed"} /\ c.fails \in {"error", "ignored", "never"}
                 /\ c.x \notin {"code", "work"} /\ (c.x \in Firm(d) => Backed(d, k, c.x))
           /\ IF c.op = "managed"
              THEN /\ Upto[d][k + 1] = Upto[d][k] + 1 /\ Given[d][Upto[d][k] + 1] = c.x
                   /\ c.fails = "error"
              ELSE Upto[d][k + 1] = Upto[d][k]
           /\ c.fails = "error" => \A j \in 1..(k - 1) : s[j].x \notin Transient[d]
           /\ c.fails = "ignored" => Passed(d, c.x)
    PROVE  ProbeRule(d, k)
  <1> DEFINE s == Driver[d].probe  c == s[k]
  <1>1. IsSeq(c.cleanup) /\ Len(c.cleanup) = 0
    BY Empty
  <1>2. \A e \in Firm(d) : Takes(c, e) => Backed(d, k, e)
    BY DEF Takes
  <1>3. Diverts(c) => \A e \in Transient[d] : \A j \in 1..(k - 1) : ~Takes(s[j], e)
    BY DEF Diverts, Takes
  <1> HIDE DEF s
  <1> QED
    BY <1>1, <1>2, <1>3 DEF ProbeRule, Backed, s

LEMMA CheckAt ==
    ASSUME NEW d, NEW k \in Nat, Driver[d].probe[k] = Check, Stays(d, k), Early(d, k)
    PROVE  ProbeRule(d, k)
  BY PlainCall, Fields DEF Stays, Adds, Early

LEMMA GetAt ==
    ASSUME NEW d, NEW k \in Nat, NEW x, Driver[d].probe[k] = Get(x), Stays(d, k),
           x \notin Firm(d) \/ Backed(d, k, x), x # "code", x # "work", Early(d, k)
    PROVE  ProbeRule(d, k)
  BY PlainCall, Fields DEF Stays, Adds, Early

LEMMA AlwaysAt ==
    ASSUME NEW d, NEW k \in Nat, NEW x, Driver[d].probe[k] = Always(x), Stays(d, k),
           x \notin Firm(d) \/ Backed(d, k, x), x # "code", x # "work"
    PROVE  ProbeRule(d, k)
  BY PlainCall, Fields DEF Stays, Adds, Early

LEMMA UncheckedAt ==
    ASSUME NEW d, NEW k \in Nat, NEW x, Driver[d].probe[k] = Unchecked(x), Stays(d, k),
           Passed(d, x),
           x \notin Firm(d) \/ Backed(d, k, x), x # "code", x # "work"
    PROVE  ProbeRule(d, k)
  BY PlainCall, Fields DEF Stays, Adds, Early

LEMMA UseAt ==
    ASSUME NEW d, NEW k \in Nat, NEW x, Driver[d].probe[k] = Use(x), Stays(d, k),
           Has(Driver[d].probe, k, x)
    PROVE  ProbeRule(d, k)
  BY PlainCall, Fields DEF Stays, Adds, Early

LEMMA ManagedAt ==
    ASSUME NEW d, NEW k \in Nat, NEW x, Driver[d].probe[k] = Managed(x), Adds(d, k, x),
           x \notin Firm(d) \/ Backed(d, k, x), x # "code", x # "work", Early(d, k)
    PROVE  ProbeRule(d, k)
  BY PlainCall, Fields DEF Stays, Adds, Early

\* A cleanup puts what has been taken for sure, or the table excuses it.
LEMMA PutRule ==
    ASSUME NEW d, NEW p, NEW s, NEW k, NEW i, NEW x, s[k].cleanup[i] = Put(x),
           x # "code", x # "work", p = "exit" \/ x \notin KeptBy(d),
           Has(s, k, x), NotBefore(s[k].cleanup, i, x)
    PROVE  CleanRule(d, p, s, k, i)
  BY Fields DEF CleanRule, UndoOps

LEMMA ExcusedRule ==
    ASSUME NEW d, NEW p, NEW s, NEW k, NEW i, NEW x,
           s[k].cleanup[i] = Put(x) \/ s[k].cleanup[i] = Kfree(x),
           x # "code", x # "work", x \notin KeptBy(d), Excused(d, p, x)
    PROVE  CleanRule(d, p, s, k, i)
  BY Fields DEF CleanRule, UndoOps

LEMMA CleanedAt ==
    ASSUME NEW d, NEW k \in Nat, NEW x, Stays(d, k), Harmless(d, k),
           LET c == Driver[d].probe[k] IN
           c.op = "get" /\ c.x = x /\ c.fails = "error" /\ IsSeq(c.cleanup),
           Early(d, k) \/ \A e \in Transient[d] : Ends(d, k, e),
           x \notin Firm(d) \/ Backed(d, k, x), x # "code", x # "work"
    PROVE  ProbeRule(d, k)
  <1> DEFINE s == Driver[d].probe  c == s[k].cleanup  g == Given[d]
  <1>1. \A e \in Transient[d] : (\A j \in 1..(k - 1) : ~Takes(s[j], e)) \/ Ends(d, k, e)
    BY DEF Early, Takes
  <1>2. \A i \in 1..Len(c) :
          /\ CleanRule(d, "failing", s, k, i)
          /\ \A n \in 1..Upto[d][k] : Drops(c[i], g[n]) => Excused(d, "failing", g[n])
    BY DEF Harmless
  <1> QED
    BY <1>1, <1>2 DEF ProbeRule, Stays, Ends, EndsWith, Backed, Takes

\* The same of a call whose failure probe answers, after its cleanup, with success.
LEMMA SwallowedAt ==
    ASSUME NEW d, NEW k \in Nat, NEW x, Stays(d, k), Harmless(d, k),
           LET c == Driver[d].probe[k] IN
           /\ c.op = "get" /\ c.x = x /\ c.fails = "success" /\ IsSeq(c.cleanup)
           /\ \A l \in 1..Len(c.cleanup) : CleanRule(d, "probe", Driver[d].probe, k, l),
           Sure[d] = {}, Upto[d][k] = Len(Given[d]),
           Early(d, k) \/ \A e \in Transient[d] : Ends(d, k, e),
           x \notin Firm(d), x # "code", x # "work"
    PROVE  ProbeRule(d, k)
  <1> DEFINE s == Driver[d].probe  c == s[k].cleanup  g == Given[d]
  <1>1. \A e \in Transient[d] : (\A j \in 1..(k - 1) : ~Takes(s[j], e)) \/ Ends(d, k, e)
    BY DEF Early, Takes
  <1>2. \A i \in 1..Len(c) :
          /\ CleanRule(d, "failing", s, k, i)
          /\ \A n \in 1..Upto[d][k] : Drops(c[i], g[n]) => Excused(d, "failing", g[n])
    BY DEF Harmless
  <1> QED
    BY <1>1, <1>2 DEF ProbeRule, Stays, Ends, EndsWith, Takes

\* The same of the calls of init that can fail.
LEMMA InitAt ==
    ASSUME NEW d, NEW k \in Nat, NEW x,
           LET s == Driver[d].init  c == s[k] IN
           /\ c.op = "get" /\ c.x = x /\ c.fails = "error" /\ IsSeq(c.cleanup)
           /\ \A l \in 1..Len(c.cleanup) : CleanRule(d, "exit", s, k, l)
           /\ x \in DOMAIN Driver[d].needs => \A r \in Driver[d].needs[x] :
                 r = "code" \/ Except(d, "init", x, r) \/ Has(s, k, r),
           x \in KeptBy(d), x \notin Firm(d), x # "code", x # "work",
           \A j \in 1..(k - 1) : Driver[d].init[j].x \notin Firm(d)
    PROVE  InitRule(d, k)
  BY DEF InitRule, Firm, Surely

\* Of those whose failure init does not notice, and of a use of what it has taken.
LEMMA UncheckedInitAt ==
    ASSUME NEW d, NEW k \in Nat, NEW x, Driver[d].init[k] = Unchecked(x), Passed(d, x),
           x \in KeptBy(d),
           x \in DOMAIN Driver[d].needs => \A r \in Driver[d].needs[x] :
                 r = "code" \/ Except(d, "init", x, r) \/ Has(Driver[d].init, k, r),
           x \notin Transient[d], x # "code", x # "work"
    PROVE  InitRule(d, k)
  BY Fields, Empty DEF InitRule, Surely

LEMMA UseInitAt ==
    ASSUME NEW d, NEW k \in Nat, NEW x, Driver[d].init[k] = Use(x),
           Has(Driver[d].init, k, x), x \notin Transient[d], x # "code", x # "work"
    PROVE  InitRule(d, k)
  BY Fields, Empty DEF InitRule, Surely, Takes

\* Small numbers, one by one.
LEMMA UpTo1 == \A k \in 1..1 : k = 1
  OBVIOUS

LEMMA UpTo2 == \A k \in 1..2 : k = 1 \/ k = 2
  OBVIOUS

LEMMA UpTo3 == \A k \in 1..3 : k = 1 \/ k = 2 \/ k = 3
  OBVIOUS

LEMMA UpTo4 == \A k \in 1..4 : k = 1 \/ k = 2 \/ k = 3 \/ k = 4
  OBVIOUS

LEMMA UpTo5 == \A k \in 1..5 : k = 1 \/ k = 2 \/ k = 3 \/ k = 4 \/ k = 5
  OBVIOUS

LEMMA UpTo6 == \A k \in 1..6 : k = 1 \/ k = 2 \/ k = 3 \/ k = 4 \/ k = 5 \/ k = 6
  OBVIOUS

LEMMA UpTo7 == \A k \in 1..7 : k = 1 \/ k = 2 \/ k = 3 \/ k = 4 \/ k = 5 \/ k = 6 \/ k = 7
  OBVIOUS

LEMMA UpTo8 == \A k \in 1..8 :
      k = 1 \/ k = 2 \/ k = 3 \/ k = 4 \/ k = 5 \/ k = 6 \/ k = 7 \/ k = 8
  OBVIOUS

LEMMA UpTo9 == \A k \in 1..9 :
      k = 1 \/ k = 2 \/ k = 3 \/ k = 4 \/ k = 5 \/ k = 6 \/ k = 7 \/ k = 8
      \/ k = 9
  OBVIOUS

LEMMA UpTo10 == \A k \in 1..10 :
      k = 1 \/ k = 2 \/ k = 3 \/ k = 4 \/ k = 5 \/ k = 6 \/ k = 7 \/ k = 8
      \/ k = 9 \/ k = 10
  OBVIOUS

LEMMA UpTo11 == \A k \in 1..11 :
      k = 1 \/ k = 2 \/ k = 3 \/ k = 4 \/ k = 5 \/ k = 6 \/ k = 7 \/ k = 8
      \/ k = 9 \/ k = 10 \/ k = 11
  OBVIOUS

LEMMA UpTo12 == \A k \in 1..12 :
      k = 1 \/ k = 2 \/ k = 3 \/ k = 4 \/ k = 5 \/ k = 6 \/ k = 7 \/ k = 8
      \/ k = 9 \/ k = 10 \/ k = 11 \/ k = 12
  OBVIOUS

LEMMA UpTo13 == \A k \in 1..13 :
      k = 1 \/ k = 2 \/ k = 3 \/ k = 4 \/ k = 5 \/ k = 6 \/ k = 7 \/ k = 8
      \/ k = 9 \/ k = 10 \/ k = 11 \/ k = 12 \/ k = 13
  OBVIOUS

LEMMA Numbers ==
    /\ 1..0 = {} /\ (\A k \in 1..1 : k = 1) /\ (\A k \in 1..2 : k = 1 \/ k = 2)
    /\ (\A k \in 1..3 : k = 1 \/ k = 2 \/ k = 3)
    /\ (\A k \in 1..4 : k = 1 \/ k = 2 \/ k = 3 \/ k = 4)
  OBVIOUS

\* A cleanup has one or two calls.
LEMMA OneCall == \A x : IsSeq(<<x>>) /\ Len(<<x>>) = 1 /\ <<x>>[1] = x
  BY DEF IsSeq

LEMMA TwoCalls == \A x, y :
    IsSeq(<<x, y>>) /\ Len(<<x, y>>) = 2 /\ <<x, y>>[1] = x /\ <<x, y>>[2] = y
  BY DEF IsSeq

LEMMA ThreeCalls == \A x, y, z :
    /\ IsSeq(<<x, y, z>>) /\ Len(<<x, y, z>>) = 3
    /\ <<x, y, z>>[1] = x /\ <<x, y, z>>[2] = y /\ <<x, y, z>>[3] = z
  BY DEF IsSeq

\* The entries of a driver have different names, and so each its needs.
LEMMA NeedsAre ==
    ASSUME NEW entries, \A y, z \in entries : y[1] = z[1] => y[2] = z[2]
    PROVE  \A y \in entries : Needs(entries)[y[1]] = y[2]
  <1> TAKE y \in entries
  <1>1. /\ (CHOOSE x \in entries : x[1] = y[1]) \in entries
        /\ (CHOOSE x \in entries : x[1] = y[1])[1] = y[1]
    OBVIOUS
  <1>2. y[1] \in {x[1] : x \in entries}
    OBVIOUS
  <1> QED
    BY <1>1, <1>2 DEF Needs

\* What most drivers share: class_create and driver_register, or a registration alone.
LEMMA ClassInitIs ==
    /\ IsSeq(ClassInit) /\ Len(ClassInit) = 2
    /\ ClassInit[1] = Get("class") /\ ClassInit[2] = GetOr("driver", <<Put("class")>>)
    /\ IsSeq(ClassExit) /\ Len(ClassExit) = 2
    /\ ClassExit[1] = Unregister /\ ClassExit[2] = Put("class")
  BY DEF ClassInit, ClassExit, IsSeq

LEMMA ClassInitRules ==
    ASSUME NEW d, Driver[d].init = ClassInit, "class" \in Kept[d],
           "class" \notin Firm(d), "driver" \notin Firm(d),
           "class" \notin DOMAIN Driver[d].needs, "driver" \notin DOMAIN Driver[d].needs
    PROVE  /\ IsSeq(Driver[d].init) /\ \A k \in 1..Len(Driver[d].init) : InitRule(d, k)
           /\ \A x \in {"class", "driver"} : InitSure(d, x)
  <1> DEFINE s == Driver[d].init
  <1>1. /\ IsSeq(s) /\ Len(s) = 2 /\ s[1] = Get("class") /\ s[2] = GetOr("driver", <<Put("class")>>)
    BY ClassInitIs
  <1> HIDE DEF s
  <1>2. InitRule(d, 1)
    BY <1>1, Fields, Empty DEF InitRule, s, Surely, KeptBy, Firm, Takes
  <1>3. InitRule(d, 2)
    <2>1. s[2].cleanup = <<Put("class")>>
      BY <1>1, Fields
    <2>2. IsSeq(s[2].cleanup) /\ Len(s[2].cleanup) = 1 /\ s[2].cleanup[1] = Put("class")
      BY <2>1, OneCall
    <2>3. Has(s, 2, "class") /\ NotBefore(s[2].cleanup, 1, "class")
      BY <1>1, Fields DEF Has, Surely, Takes, NotBefore
    <2>4. CleanRule(d, "exit", s, 2, 1)
      BY <2>2, <2>3, PutRule
    <2>5. \A l \in 1..Len(s[2].cleanup) : CleanRule(d, "exit", s, 2, l)
      BY <2>2, <2>4, UpTo1
    <2>6. s[2].op = "get" /\ s[2].x = "driver" /\ s[2].fails = "error"
      BY <1>1, Fields
    <2>7. \A j \in 1..1 : s[j].x \notin Firm(d)
      BY <1>1, Fields, UpTo1
    <2>8. "driver" \in KeptBy(d) /\ 2 - 1 = 1
      BY DEF KeptBy
    <2> QED
      BY <2>2, <2>5, <2>6, <2>7, <2>8, InitAt DEF s
  <1>4. InitSure(d, "class") /\ InitSure(d, "driver")
    BY <1>1, Fields DEF InitSure, Surely, Takes, IsSeq, s
  <1>5. \A k \in 1..2 : k = 1 \/ k = 2
    OBVIOUS
  <1> QED
    BY <1>1, <1>2, <1>3, <1>4, <1>5 DEF s

LEMMA ModuleInitIs ==
   /\ IsSeq(ModuleInit) /\ Len(ModuleInit) = 1 /\ ModuleInit[1] = Get("driver")
   /\ IsSeq(ModuleExit) /\ Len(ModuleExit) = 1 /\ ModuleExit[1] = Unregister
  BY DEF ModuleInit, ModuleExit, IsSeq

LEMMA ModuleInitRules ==
    ASSUME NEW d, Driver[d].init = ModuleInit,
           "driver" \notin Firm(d), "driver" \notin DOMAIN Driver[d].needs
    PROVE  /\ IsSeq(Driver[d].init) /\ \A k \in 1..Len(Driver[d].init) : InitRule(d, k)
           /\ InitSure(d, "driver")
  <1> DEFINE s == ModuleInit
  <1>1. /\ IsSeq(s) /\ Len(s) = 1 /\ s[1] = Get("driver")
    BY ModuleInitIs
  <1> HIDE DEF s
  <1>2. InitRule(d, 1)
    BY <1>1, Fields, Empty DEF InitRule, s, Surely, KeptBy, Firm, Takes
  <1>4. InitSure(d, "driver")
    BY <1>1, Fields DEF InitSure, Surely, Takes, IsSeq, s
  <1>5. \A k \in 1..1 : k = 1
    OBVIOUS
  <1> QED
    BY <1>1, <1>2, <1>4, <1>5 DEF s

LEMMA ClassExitRules ==
    ASSUME NEW d, Driver[d].exit = ClassExit, InitSure(d, "class"), "class" \in Kept[d]
    PROVE  /\ IsSeq(Driver[d].exit) /\ \A k \in 1..Len(Driver[d].exit) : ExitRule(d, k)
           /\ \A x : x # "class" => Untouched(d, x)
  <1> DEFINE s == ClassExit
  <1>1. /\ IsSeq(s) /\ Len(s) = 2 /\ s[1] = Unregister /\ s[2] = Put("class")
    BY ClassInitIs
  <1> HIDE DEF s
  <1>5. \A k \in 1..2 : k = 1 \/ k = 2
    OBVIOUS
  <1>2. ExitRule(d, 1)
    BY <1>1, Fields DEF ExitRule, s, KeptBy
  <1>3. ExitRule(d, 2)
    BY <1>1, <1>5, Fields DEF ExitRule, s, KeptBy, NotBefore, Drops
  <1>4. \A x : x # "class" => Untouched(d, x)
    BY <1>1, <1>5, Fields DEF Untouched, NotBefore, s, Drops
  <1> QED
    BY <1>1, <1>2, <1>3, <1>4, <1>5 DEF s

LEMMA ModuleExitRules ==
    ASSUME NEW d, Driver[d].exit = ModuleExit
    PROVE  /\ IsSeq(Driver[d].exit) /\ \A k \in 1..Len(Driver[d].exit) : ExitRule(d, k)
           /\ \A x : Untouched(d, x)
  <1> DEFINE s == ModuleExit
  <1>1. /\ IsSeq(s) /\ Len(s) = 1 /\ s[1] = Unregister
    BY ModuleInitIs
  <1> HIDE DEF s
  <1>5. \A k \in 1..1 : k = 1
    OBVIOUS
  <1>2. ExitRule(d, 1)
    BY <1>1, Fields DEF ExitRule, s, KeptBy
  <1>4. \A x : Untouched(d, x)
    BY <1>1, <1>5, Fields DEF Untouched, NotBefore, s, Drops
  <1> QED
    BY <1>1, <1>2, <1>4, <1>5 DEF s

\* a transient entry ends with the driver
LEMMA UnregisterEnds ==
    ASSUME NEW d, NEW e \in Transient[d], e \notin Lasting[d],
           Driver[d].exit \in {ClassExit, ModuleExit}
    PROVE  UnloadRule(d, e)
  <1> DEFINE s == Driver[d].exit
  <1>1. Len(s) \in Nat \ {0} /\ s[1] = Unregister
    BY ClassInitIs, ModuleInitIs
  <1> HIDE DEF s
  <1>2. 1 \in 1..Len(s) /\ \A j \in 1..1 : j = 1
    BY <1>1
  <1>3. \A r : ~Drops(s[1], r)
    BY <1>1, Fields DEF Drops
  <1> QED
    BY <1>1, <1>2, <1>3, Fields DEF UnloadRule, s

-----------------------------------------------------------------------------

LEMMA MlxCalls ==
    LET t == Driver["mlx90640"]  p == t.probe  r == t.remove  x == t.exit IN
    /\ t.init = ClassInit
    /\ IsSeq(p)
    /\ Len(p) = 11 /\ p[1] = Managed("dev") /\ p[2] = Check /\ p[3] = Check
    /\ p[4] = Check /\ p[5] = Check /\ p[6] = Get("chrdev")
    /\ p[7] = GetOr("node", <<Kfree("dev")>>) /\ p[8] = Get("page")
    /\ p[9] = Unchecked("new_frame") /\ p[10] = Unchecked("read_frame")
    /\ p[11] = Use("read_frame")
    /\ IsSeq(r)
    /\ Len(r) = 2 /\ r[1] = Put("read_frame") /\ r[2] = Kfree("dev")
    /\ IsSeq(x)
    /\ Len(x) = 6 /\ x[1] = Kfree("page") /\ x[2] = Put("read_frame")
    /\ x[3] = Put("new_frame") /\ x[4] = Kfree("dev") /\ x[5] = Unregister
    /\ x[6] = Put("class")
  <1>1. Driver["mlx90640"] = Mlx90640
    BY DEF Driver
  <1> QED
    BY <1>1 DEF IsSeq, Mlx90640

LEMMA MlxTables ==
    LET g == Given["mlx90640"]  u == Upto["mlx90640"] IN
    /\ IsSeq(g) /\ Len(g) = 1 /\ g[1] = "dev"
    /\ u[1] = 0 /\ u[2] = 1 /\ u[3] = 1 /\ u[4] = 1 /\ u[5] = 1 /\ u[6] = 1
    /\ u[7] = 1 /\ u[8] = 1 /\ u[9] = 1 /\ u[10] = 1 /\ u[11] = 1 /\ u[12] = 1
    /\ Sure["mlx90640"] = {"dev", "page", "read_frame"}
    /\ Kept["mlx90640"] = {"class", "page", "new_frame"}
    /\ Transient["mlx90640"] = {"read_frame"} /\ Lasting["mlx90640"] = {"new_frame"}
    /\ Firm("mlx90640") = {"read_frame", "new_frame"}
    /\ \A y : Passed("mlx90640", y) <=> y \in {"new_frame", "read_frame"}
  <1>1. Lasting["mlx90640"] = {"new_frame"}
    BY DEF Lasting, Drivers, Driver
  <1> QED
    BY <1>1 DEF Given, Upto, Sure, Kept, Transient, Firm, IsSeq, Passed, Overlooked

LEMMA MlxNeeds ==
    LET n == Driver["mlx90640"].needs IN
    /\ DOMAIN n = {"chrdev", "new_frame", "read_frame"}
    /\ n["chrdev"] = {"dev", "page", "code"}
    /\ n["new_frame"] = {"dev", "page", "code"}
    /\ n["read_frame"] = {"dev", "code"}
  <1> DEFINE E == {Entry("chrdev", {"dev", "page"}),
                    Entry("new_frame", {"dev", "page"}),
                    Entry("read_frame", {"dev"})}
  <1>1. Driver["mlx90640"].needs = Needs(E)
    BY DEF Driver, Mlx90640
  <1>2. E = {<<"chrdev", {"dev", "page", "code"}>>,
             <<"new_frame", {"dev", "page", "code"}>>,
             <<"read_frame", {"dev", "code"}>>}
    BY DEF Entry
  <1> HIDE DEF E
  <1>3. DOMAIN Needs(E) = {"chrdev", "new_frame", "read_frame"}
    BY <1>2 DEF Needs
  <1>4. \A y, z \in E : y[1] = z[1] => y[2] = z[2]
    BY <1>2, SMTT(30)
  <1>5. \A y \in E : Needs(E)[y[1]] = y[2]
    BY <1>4, NeedsAre
  <1> QED
    BY <1>1, <1>2, <1>3, <1>5

LEMMA MlxExceptions ==
    /\ \A p, x : Excused("mlx90640", p, x) <=>
           \/ p \in {"failing"} \cup Releasing /\ x = "dev"
           \/ p \in {"exit"} /\ x = "read_frame"
    /\ \A p, e, r : Except("mlx90640", p, e, r) <=>
           \/ p \in Unbound /\ e = "chrdev" /\ r \in {"dev", "page"}
           \/ p \in Ending /\ e = "chrdev" /\ r = "code"
           \/ p \in Unbound /\ e = "new_frame" /\ r = "dev"
           \/ p \in {"exit"} /\ e = "new_frame" /\ r = "page"
  <1>1. "mlx90640" \in DOMAIN Mishandled /\ Mishandled["mlx90640"] =
            {<<{"failing"} \cup Releasing, {"dev"}>>,
             <<{"exit"}, {"read_frame"}>>}
    BY DEF Mishandled
  <1>2. Exposed["mlx90640"] =
            {<<Unbound, "chrdev", {"dev", "page"}>>,
             <<Ending, "chrdev", {"code"}>>,
             <<Unbound, "new_frame", {"dev"}>>,
             <<{"exit"}, "new_frame", {"page"}>>}
    BY DEF Exposed
  <1>3. \A p, x : Excused("mlx90640", p, x) <=>
            \E m \in Mishandled["mlx90640"] : p \in m[1] /\ x \in m[2]
    BY <1>1 DEF Excused
  <1>4. \A p, e, r : Except("mlx90640", p, e, r) <=>
            \E x \in Exposed["mlx90640"] : p \in x[1] /\ x[2] = e /\ r \in x[3]
    BY DEF Except
  <1> QED
    BY <1>1, <1>2, <1>3, <1>4

LEMMA MlxProbe ==
    \A k \in 1..Len(Driver["mlx90640"].probe) : ProbeRule("mlx90640", k)
  <1> DEFINE d == "mlx90640"  p == Driver[d].probe  g == Given[d]  u == Upto[d]
  <1>s. /\ Surely(p[1], "dev") /\ Surely(p[8], "page")
        /\ Surely(p[10], "read_frame")
    BY MlxCalls, Fields DEF Surely, Takes
  <1>h. /\ Has(p, 9, "dev") /\ Has(p, 9, "page") /\ Has(p, 10, "dev")
        /\ Has(p, 11, "read_frame")
    BY <1>s DEF Has
  <1>c. /\ IsSeq(p[7].cleanup) /\ Len(p[7].cleanup) = 1
        /\ p[7].cleanup[1] = Kfree("dev")
    BY MlxCalls, Fields, OneCall
  <1>d. \A y : (Drops(p[7].cleanup[1], y) <=> y = "dev")
    BY <1>c, Fields DEF Drops
  <1>t. /\ Early(d, 1) /\ Early(d, 2) /\ Early(d, 3) /\ Early(d, 4) /\ Early(d, 5)
        /\ Early(d, 6) /\ Early(d, 7) /\ Early(d, 8)
    <2>1. /\ p[1].x = "dev" /\ p[2].x = "none" /\ p[3].x = "none" /\ p[4].x = "none"
          /\ p[5].x = "none" /\ p[6].x = "chrdev" /\ p[7].x = "node"
      BY MlxCalls, Fields
    <2>2. \A j \in 1..7 : p[j].x \notin Transient[d]
      BY <2>1, MlxTables, UpTo7
    <2> QED
      BY <2>2 DEF Early
  <1>1. ProbeRule(d, 1)
    <2>1. /\ p[1] = Managed("dev") /\ Adds(d, 1, "dev") /\ "dev" \notin Firm(d)
      BY MlxCalls, MlxTables DEF Adds
    <2> QED
      BY <2>1, <1>t, ManagedAt
  <1>2. ProbeRule(d, 2)
    <2>1. /\ p[2] = Check /\ Stays(d, 2)
      BY MlxCalls, MlxTables DEF Stays
    <2> QED
      BY <2>1, <1>t, CheckAt
  <1>3. ProbeRule(d, 3)
    <2>1. /\ p[3] = Check /\ Stays(d, 3)
      BY MlxCalls, MlxTables DEF Stays
    <2> QED
      BY <2>1, <1>t, CheckAt
  <1>4. ProbeRule(d, 4)
    <2>1. /\ p[4] = Check /\ Stays(d, 4)
      BY MlxCalls, MlxTables DEF Stays
    <2> QED
      BY <2>1, <1>t, CheckAt
  <1>5. ProbeRule(d, 5)
    <2>1. /\ p[5] = Check /\ Stays(d, 5)
      BY MlxCalls, MlxTables DEF Stays
    <2> QED
      BY <2>1, <1>t, CheckAt
  <1>6. ProbeRule(d, 6)
    <2>1. /\ p[6] = Get("chrdev") /\ Stays(d, 6) /\ "chrdev" \notin Firm(d)
      BY MlxCalls, MlxTables DEF Stays
    <2> QED
      BY <2>1, <1>t, GetAt
  <1>7. ProbeRule(d, 7)
    <2>1. /\ p[7].op = "get" /\ p[7].x = "node" /\ p[7].fails = "error"
          /\ Stays(d, 7) /\ u[7] = 1 /\ "node" \notin Firm(d)
      BY MlxCalls, MlxTables, Fields DEF Stays
    <2>2. /\ "dev" \notin KeptBy(d) /\ Excused(d, "failing", "dev")
      BY MlxTables, MlxExceptions DEF KeptBy
    <2>3. CleanRule(d, "failing", p, 7, 1)
      BY <2>2, <1>c, ExcusedRule
    <2>4. Harmless(d, 7)
      <3>1. \A l \in 1..1 : CleanRule(d, "failing", p, 7, l)
        BY <2>3, UpTo1
      <3>2. \A l \in 1..1 : \A n \in 1..1 :
              Drops(p[7].cleanup[l], g[n]) => Excused(d, "failing", g[n])
        BY <1>d, UpTo1, MlxTables, MlxExceptions
      <3> QED
        BY <3>1, <2>1, <1>c, <3>2 DEF Harmless
    <2> QED
      BY <2>1, <2>4, <1>t, <1>c, CleanedAt
  <1>8. ProbeRule(d, 8)
    <2>1. /\ p[8] = Get("page") /\ Stays(d, 8) /\ "page" \notin Firm(d)
      BY MlxCalls, MlxTables DEF Stays
    <2> QED
      BY <2>1, <1>t, GetAt
  <1>9. ProbeRule(d, 9)
    <2>1. /\ p[9] = Unchecked("new_frame") /\ Stays(d, 9) /\ Passed(d, "new_frame")
      BY MlxCalls, MlxTables DEF Stays
    <2>2. Backed(d, 9, "new_frame")
      BY <1>h, MlxNeeds, SMTT(30) DEF Backed
    <2> QED
      BY <2>1, <2>2, UncheckedAt
  <1>10. ProbeRule(d, 10)
    <2>1. /\ p[10] = Unchecked("read_frame") /\ Stays(d, 10)
          /\ Passed(d, "read_frame")
      BY MlxCalls, MlxTables DEF Stays
    <2>2. Backed(d, 10, "read_frame")
      BY <1>h, MlxNeeds, SMTT(30) DEF Backed
    <2> QED
      BY <2>1, <2>2, UncheckedAt
  <1>11. ProbeRule(d, 11)
    <2>1. /\ p[11] = Use("read_frame") /\ Stays(d, 11)
      BY MlxCalls, MlxTables DEF Stays
    <2> QED
      BY <2>1, <1>h, UseAt
  <1> QED
    BY MlxCalls, UpTo11, <1>1, <1>2, <1>3, <1>4, <1>5, <1>6, <1>7, <1>8, <1>9, <1>10, <1>11

LEMMA MlxRules == Rules("mlx90640") /\ TypeRule("mlx90640")
  <1> DEFINE d == "mlx90640"  i == Driver[d].init  p == Driver[d].probe  r == Driver[d].remove
             x == Driver[d].exit  g == Given[d]
  <1> USE MlxTables
  <1>1. \A k \in 1..Len(i) : InitRule(d, k)
    BY MlxCalls, MlxNeeds, ClassInitRules
  <1>2. IsSeq(i) /\ InitSure(d, "class") /\ InitSure(d, "driver")
    BY MlxCalls, MlxNeeds, ClassInitRules
  <1>3. \A k \in 1..Len(p) : ProbeRule(d, k)
    BY MlxProbe
  <1>4. \A y \in Sure[d] : Has(p, Len(p) + 1, y)
    <2>1. /\ Surely(p[1], "dev") /\ Surely(p[8], "page")
          /\ Surely(p[10], "read_frame") /\ Len(p) = 11
      BY MlxCalls, Fields DEF Surely, Takes
    <2> QED
      BY <2>1 DEF Has
  <1>5. \A k \in 1..Len(x) : ExitRule(d, k)
    <2> USE MlxCalls, <1>2, Fields, Numbers, MlxExceptions
            DEF ExitRule, Drops, NotBefore, KeptBy, Releasing
    <2>1. ExitRule(d, 1)
      BY SMTT(30)
    <2>2. ExitRule(d, 2)
      BY SMTT(30)
    <2>3. ExitRule(d, 3)
      BY SMTT(30)
    <2>4. ExitRule(d, 4)
      BY SMTT(30)
    <2>5. ExitRule(d, 5)
      BY SMTT(30)
    <2>6. ExitRule(d, 6)
      BY UpTo5, SMTT(30)
    <2> HIDE DEF ExitRule
    <2> QED
      BY UpTo6, <2>1, <2>2, <2>3, <2>4, <2>5, <2>6
  <1>6. /\ IsSeq(x)
        /\ \A y : y \notin {"page", "read_frame", "new_frame", "dev", "class"} =>
                Untouched(d, y)
    <2>1. IsSeq(x)
      BY MlxCalls
    <2>2. \A y : y \notin {"page", "read_frame", "new_frame", "dev", "class"} =>
                Untouched(d, y)
      BY MlxCalls, Fields, UpTo6 DEF Untouched, NotBefore, Drops
    <2> QED
      BY <2>1, <2>2
  <1>7. \A k \in 1..Len(r) : RemoveRule(d, k)
    <2> USE MlxCalls, <1>6, Fields, Numbers, MlxExceptions
            DEF RemoveRule, ExcusedAfter, NotBefore, UndoOps, KeptBy, Drops, Releasing
    <2>1. RemoveRule(d, 1)
      BY SMTT(30)
    <2>2. RemoveRule(d, 2)
      BY SMTT(30)
    <2> HIDE DEF RemoveRule
    <2> QED
      BY UpTo2, <2>1, <2>2
  <1>8. \A k \in 1..Len(g) : GivenRule(d, k)
    <2> USE <1>6, MlxCalls, Fields, Numbers, MlxExceptions
            DEF GivenRule, ExcusedAfter, NotBefore, KeptBy, Drops, Releasing
    <2>1. GivenRule(d, 1)
      BY SMTT(30)
    <2> HIDE DEF GivenRule
    <2> QED
      BY UpTo1, <2>1
  <1>9. \A e \in Transient[d] : EndRule(d, e)
    <2>1. \A y : (Drops(r[1], y) <=> y = "read_frame")
      BY MlxCalls, Fields DEF Drops
    <2>2. Len(r) = 2
      BY MlxCalls
    <2> QED
      BY <2>1, <2>2, MlxNeeds, MlxExceptions, UpTo1, SMTT(30) DEF EndRule, ExceptAfter
  <1>10. \A e \in Firm(d) : UnloadRule(d, e)
    <2>1. /\ x[1].op # "unregister" /\ x[2].op # "unregister"
          /\ x[3].op # "unregister"
      BY MlxCalls, Fields
    <2>2. \A y : /\ (Drops(x[1], y) <=> y = "page")
                /\ (Drops(x[2], y) <=> y = "read_frame")
                /\ (Drops(x[3], y) <=> y = "new_frame")
      BY MlxCalls, Fields DEF Drops
    <2>l. Len(x) = 6
      BY MlxCalls
    <2>3. UnloadRule(d, "read_frame")
      BY <2>1, <2>2, <2>l, MlxNeeds, MlxExceptions, UpTo2, SMTT(30) DEF UnloadRule
    <2>4. UnloadRule(d, "new_frame")
      BY <2>1, <2>2, <2>l, MlxNeeds, MlxExceptions, UpTo3, SMTT(30) DEF UnloadRule
    <2> QED
      BY <2>3, <2>4
  <1>11. \A e \in DOMAIN Driver[d].needs : NeedRule(d, e)
    <2>1. NeedRule(d, "chrdev")
      BY <1>2, MlxNeeds, MlxExceptions DEF NeedRule, Unbound, Ending, Phases, KeptBy
    <2>2. NeedRule(d, "new_frame")
      BY <1>2, MlxNeeds, MlxExceptions DEF NeedRule, Unbound, Ending, Phases, KeptBy
    <2>3. NeedRule(d, "read_frame")
      BY <1>2, MlxNeeds, MlxExceptions DEF NeedRule, Unbound, Ending, Phases, KeptBy
    <2> QED
      BY <2>1, <2>2, <2>3, MlxNeeds
  <1>12. TypeRule(d)
    BY <1>2, <1>6, MlxCalls, MlxNeeds DEF TypeRule, KeptBy
  <1> QED
    BY <1>1, <1>3, <1>4, <1>5, <1>7, <1>8, <1>9, <1>10, <1>11, <1>12 DEF Rules

-----------------------------------------------------------------------------

LEMMA CameraCalls ==
    LET t == Driver["camera"]  p == t.probe  r == t.remove IN
    /\ t.init = ModuleInit
    /\ IsSeq(p)
    /\ Len(p) = 13 /\ p[1] = Managed("conf") /\ p[2] = Get("frameData")
    /\ p[3] = Get("auxData") /\ p[4] = Managed("dev") /\ p[5] = Check
    /\ p[6] = Unchecked("chrdev") /\ p[7] = Unchecked("class") /\ p[8] = Use("class")
    /\ p[9] = GetOr("node", <<Kfree("dev"), Kfree("conf")>>)
    /\ p[10] = Get("attribute") /\ p[11] = Unchecked("thread")
    /\ p[12] = Use("thread") /\ p[13] = Always("completion")
    /\ IsSeq(r)
    /\ Len(r) = 2 /\ r[1] = Put("thread") /\ r[2] = Use("completion")
    /\ t.exit = ModuleExit
  <1>1. Driver["camera"] = Camera
    BY DEF Driver
  <1> QED
    BY <1>1 DEF IsSeq, Camera

LEMMA CameraTables ==
    LET g == Given["camera"]  u == Upto["camera"] IN
    /\ IsSeq(g) /\ Len(g) = 2 /\ g[1] = "conf" /\ g[2] = "dev"
    /\ u[1] = 0 /\ u[2] = 1 /\ u[3] = 1 /\ u[4] = 1 /\ u[5] = 2 /\ u[6] = 2
    /\ u[7] = 2 /\ u[8] = 2 /\ u[9] = 2 /\ u[10] = 2 /\ u[11] = 2 /\ u[12] = 2
    /\ u[13] = 2 /\ u[14] = 2
    /\ Sure["camera"] = {"conf", "dev", "thread", "completion"} /\ Kept["camera"] = {}
    /\ Transient["camera"] = {"thread"} /\ Lasting["camera"] = {}
    /\ Firm("camera") = {"thread"}
    /\ \A y : Passed("camera", y) <=> y \in {"chrdev", "class", "thread"}
  <1>1. Lasting["camera"] = {}
    BY DEF Lasting, Drivers, Driver
  <1> QED
    BY <1>1 DEF Given, Upto, Sure, Kept, Transient, Firm, IsSeq, Passed, Overlooked

LEMMA CameraNeeds ==
    LET n == Driver["camera"].needs IN
    /\ DOMAIN n = {"chrdev", "attribute", "thread"}
    /\ n["chrdev"] = {"dev", "completion", "code"}
    /\ n["attribute"] = {"dev", "code"}
    /\ n["thread"] = {"dev", "completion", "code"}
  <1> DEFINE E == {Entry("chrdev", {"dev", "completion"}),
                    Entry("attribute", {"dev"}),
                    Entry("thread", {"dev", "completion"})}
  <1>1. Driver["camera"].needs = Needs(E)
    BY DEF Driver, Camera
  <1>2. E = {<<"chrdev", {"dev", "completion", "code"}>>,
             <<"attribute", {"dev", "code"}>>,
             <<"thread", {"dev", "completion", "code"}>>}
    BY DEF Entry
  <1> HIDE DEF E
  <1>3. DOMAIN Needs(E) = {"chrdev", "attribute", "thread"}
    BY <1>2 DEF Needs
  <1>4. \A y, z \in E : y[1] = z[1] => y[2] = z[2]
    BY <1>2, SMTT(30)
  <1>5. \A y \in E : Needs(E)[y[1]] = y[2]
    BY <1>4, NeedsAre
  <1> QED
    BY <1>1, <1>2, <1>3, <1>5

LEMMA CameraExceptions ==
    /\ \A p, x : Excused("camera", p, x) <=>
           \/ p \in {"failing"} /\ x \in {"dev", "conf"}
    /\ \A p, e, r : Except("camera", p, e, r) <=>
           \/ p \in Unbound /\ e = "chrdev" /\ r \in {"dev", "completion"}
           \/ p \in Unbound /\ e = "attribute" /\ r = "dev"
           \/ p \in {"probe"} /\ e = "thread" /\ r = "completion"
           \/ p \in Ending /\ e = "chrdev" /\ r = "code"
           \/ p \in Ending /\ e = "attribute" /\ r = "code"
  <1>1. "camera" \in DOMAIN Mishandled /\ Mishandled["camera"] =
            {<<{"failing"}, {"dev", "conf"}>>}
    BY DEF Mishandled
  <1>2. Exposed["camera"] =
            {<<Unbound, "chrdev", {"dev", "completion"}>>,
             <<Unbound, "attribute", {"dev"}>>,
             <<{"probe"}, "thread", {"completion"}>>,
             <<Ending, "chrdev", {"code"}>>,
             <<Ending, "attribute", {"code"}>>}
    BY DEF Exposed
  <1>3. \A p, x : Excused("camera", p, x) <=>
            \E m \in Mishandled["camera"] : p \in m[1] /\ x \in m[2]
    BY <1>1 DEF Excused
  <1>4. \A p, e, r : Except("camera", p, e, r) <=>
            \E x \in Exposed["camera"] : p \in x[1] /\ x[2] = e /\ r \in x[3]
    BY DEF Except
  <1> QED
    BY <1>1, <1>2, <1>3, <1>4

LEMMA CameraProbe ==
    \A k \in 1..Len(Driver["camera"].probe) : ProbeRule("camera", k)
  <1> DEFINE d == "camera"  p == Driver[d].probe  g == Given[d]  u == Upto[d]
  <1>s. /\ Surely(p[7], "class") /\ Surely(p[4], "dev") /\ Surely(p[11], "thread")
    BY CameraCalls, Fields DEF Surely, Takes
  <1>h. /\ Has(p, 8, "class") /\ Has(p, 11, "dev") /\ Has(p, 12, "thread")
    BY <1>s DEF Has
  <1>c. /\ IsSeq(p[9].cleanup) /\ Len(p[9].cleanup) = 2
        /\ p[9].cleanup[1] = Kfree("dev") /\ p[9].cleanup[2] = Kfree("conf")
    BY CameraCalls, Fields, TwoCalls
  <1>d. \A y : /\ (Drops(p[9].cleanup[1], y) <=> y = "dev")
              /\ (Drops(p[9].cleanup[2], y) <=> y = "conf")
    BY <1>c, Fields DEF Drops
  <1>t. /\ Early(d, 1) /\ Early(d, 2) /\ Early(d, 3) /\ Early(d, 4) /\ Early(d, 5)
        /\ Early(d, 9) /\ Early(d, 10)
    <2>1. /\ p[1].x = "conf" /\ p[2].x = "frameData" /\ p[3].x = "auxData"
          /\ p[4].x = "dev" /\ p[5].x = "none" /\ p[6].x = "chrdev"
          /\ p[7].x = "class" /\ p[8].x = "class" /\ p[9].x = "node"
      BY CameraCalls, Fields
    <2>2. \A j \in 1..9 : p[j].x \notin Transient[d]
      BY <2>1, CameraTables, UpTo9
    <2> QED
      BY <2>2 DEF Early
  <1>1. ProbeRule(d, 1)
    <2>1. /\ p[1] = Managed("conf") /\ Adds(d, 1, "conf") /\ "conf" \notin Firm(d)
      BY CameraCalls, CameraTables DEF Adds
    <2> QED
      BY <2>1, <1>t, ManagedAt
  <1>2. ProbeRule(d, 2)
    <2>1. /\ p[2] = Get("frameData") /\ Stays(d, 2) /\ "frameData" \notin Firm(d)
      BY CameraCalls, CameraTables DEF Stays
    <2> QED
      BY <2>1, <1>t, GetAt
  <1>3. ProbeRule(d, 3)
    <2>1. /\ p[3] = Get("auxData") /\ Stays(d, 3) /\ "auxData" \notin Firm(d)
      BY CameraCalls, CameraTables DEF Stays
    <2> QED
      BY <2>1, <1>t, GetAt
  <1>4. ProbeRule(d, 4)
    <2>1. /\ p[4] = Managed("dev") /\ Adds(d, 4, "dev") /\ "dev" \notin Firm(d)
      BY CameraCalls, CameraTables DEF Adds
    <2> QED
      BY <2>1, <1>t, ManagedAt
  <1>5. ProbeRule(d, 5)
    <2>1. /\ p[5] = Check /\ Stays(d, 5)
      BY CameraCalls, CameraTables DEF Stays
    <2> QED
      BY <2>1, <1>t, CheckAt
  <1>6. ProbeRule(d, 6)
    <2>1. /\ p[6] = Unchecked("chrdev") /\ Stays(d, 6) /\ "chrdev" \notin Firm(d)
          /\ Passed(d, "chrdev")
      BY CameraCalls, CameraTables DEF Stays
    <2> QED
      BY <2>1, UncheckedAt
  <1>7. ProbeRule(d, 7)
    <2>1. /\ p[7] = Unchecked("class") /\ Stays(d, 7) /\ "class" \notin Firm(d)
          /\ Passed(d, "class")
      BY CameraCalls, CameraTables DEF Stays
    <2> QED
      BY <2>1, UncheckedAt
  <1>8. ProbeRule(d, 8)
    <2>1. /\ p[8] = Use("class") /\ Stays(d, 8)
      BY CameraCalls, CameraTables DEF Stays
    <2> QED
      BY <2>1, <1>h, UseAt
  <1>9. ProbeRule(d, 9)
    <2>1. /\ p[9].op = "get" /\ p[9].x = "node" /\ p[9].fails = "error"
          /\ Stays(d, 9) /\ u[9] = 2 /\ "node" \notin Firm(d)
      BY CameraCalls, CameraTables, Fields DEF Stays
    <2>2. /\ "dev" \notin KeptBy(d) /\ "conf" \notin KeptBy(d)
          /\ Excused(d, "failing", "dev") /\ Excused(d, "failing", "conf")
      BY CameraTables, CameraExceptions DEF KeptBy
    <2>3. /\ CleanRule(d, "failing", p, 9, 1) /\ CleanRule(d, "failing", p, 9, 2)
      BY <2>2, <1>c, ExcusedRule
    <2>4. Harmless(d, 9)
      <3>1. \A l \in 1..2 : CleanRule(d, "failing", p, 9, l)
        BY <2>3, UpTo2
      <3>2. \A l \in 1..2 : \A n \in 1..2 :
              Drops(p[9].cleanup[l], g[n]) => Excused(d, "failing", g[n])
        BY <1>d, UpTo2, CameraTables, CameraExceptions
      <3> QED
        BY <3>1, <2>1, <1>c, <3>2 DEF Harmless
    <2> QED
      BY <2>1, <2>4, <1>t, <1>c, CleanedAt
  <1>10. ProbeRule(d, 10)
    <2>1. /\ p[10] = Get("attribute") /\ Stays(d, 10) /\ "attribute" \notin Firm(d)
      BY CameraCalls, CameraTables DEF Stays
    <2> QED
      BY <2>1, <1>t, GetAt
  <1>11. ProbeRule(d, 11)
    <2>1. /\ p[11] = Unchecked("thread") /\ Stays(d, 11) /\ Passed(d, "thread")
      BY CameraCalls, CameraTables DEF Stays
    <2>2. Backed(d, 11, "thread")
      BY <1>h, CameraNeeds, CameraTables, CameraExceptions, SMTT(30) DEF Backed
    <2> QED
      BY <2>1, <2>2, UncheckedAt
  <1>12. ProbeRule(d, 12)
    <2>1. /\ p[12] = Use("thread") /\ Stays(d, 12)
      BY CameraCalls, CameraTables DEF Stays
    <2> QED
      BY <2>1, <1>h, UseAt
  <1>13. ProbeRule(d, 13)
    <2>1. /\ p[13] = Always("completion") /\ Stays(d, 13)
          /\ "completion" \notin Firm(d)
      BY CameraCalls, CameraTables DEF Stays
    <2> QED
      BY <2>1, AlwaysAt
  <1> QED
    BY CameraCalls, UpTo13, <1>1, <1>2, <1>3, <1>4, <1>5, <1>6, <1>7, <1>8, <1>9, <1>10, <1>11,
       <1>12, <1>13

LEMMA CameraRules == Rules("camera") /\ TypeRule("camera")
  <1> DEFINE d == "camera"  i == Driver[d].init  p == Driver[d].probe  r == Driver[d].remove
             x == Driver[d].exit  g == Given[d]
  <1> USE CameraTables
  <1>1. \A k \in 1..Len(i) : InitRule(d, k)
    BY CameraCalls, CameraNeeds, ModuleInitRules
  <1>2. IsSeq(i) /\ InitSure(d, "driver")
    BY CameraCalls, CameraNeeds, ModuleInitRules
  <1>3. \A k \in 1..Len(p) : ProbeRule(d, k)
    BY CameraProbe
  <1>4. \A y \in Sure[d] : Has(p, Len(p) + 1, y)
    <2>1. /\ Surely(p[1], "conf") /\ Surely(p[4], "dev") /\ Surely(p[11], "thread")
          /\ Surely(p[13], "completion") /\ Len(p) = 13
      BY CameraCalls, Fields DEF Surely, Takes
    <2> QED
      BY <2>1 DEF Has
  <1>5. \A k \in 1..Len(x) : ExitRule(d, k)
    BY <1>2, CameraCalls, ModuleExitRules
  <1>6. /\ IsSeq(x)
        /\ \A y : Untouched(d, y)
    BY <1>2, CameraCalls, ModuleExitRules
  <1>7. \A k \in 1..Len(r) : RemoveRule(d, k)
    <2> USE CameraCalls, <1>6, Fields, Numbers, CameraExceptions
            DEF RemoveRule, ExcusedAfter, NotBefore, UndoOps, KeptBy, Drops, Releasing
    <2>1. RemoveRule(d, 1)
      BY SMTT(30)
    <2>2. RemoveRule(d, 2)
      BY SMTT(30)
    <2> HIDE DEF RemoveRule
    <2> QED
      BY UpTo2, <2>1, <2>2
  <1>8. \A k \in 1..Len(g) : GivenRule(d, k)
    <2> USE <1>6, CameraCalls, Fields, Numbers, CameraExceptions
            DEF GivenRule, ExcusedAfter, NotBefore, KeptBy, Drops, Releasing
    <2>1. GivenRule(d, 1)
      BY SMTT(30)
    <2>2. GivenRule(d, 2)
      BY SMTT(30)
    <2> HIDE DEF GivenRule
    <2> QED
      BY UpTo2, <2>1, <2>2
  <1>9. \A e \in Transient[d] : EndRule(d, e)
    <2>1. \A y : (Drops(r[1], y) <=> y = "thread")
      BY CameraCalls, Fields DEF Drops
    <2>2. Len(r) = 2
      BY CameraCalls
    <2> QED
      BY <2>1, <2>2, CameraNeeds, CameraExceptions, UpTo1, SMTT(30) DEF EndRule, ExceptAfter
  <1>10. \A e \in Firm(d) : UnloadRule(d, e)
    BY CameraCalls, UnregisterEnds
  <1>11. \A e \in DOMAIN Driver[d].needs : NeedRule(d, e)
    <2>1. NeedRule(d, "chrdev")
      BY <1>2, CameraNeeds, CameraExceptions DEF NeedRule, Unbound, Ending, Phases, KeptBy
    <2>2. NeedRule(d, "attribute")
      BY <1>2, CameraNeeds, CameraExceptions DEF NeedRule, Unbound, Ending, Phases, KeptBy
    <2>3. NeedRule(d, "thread")
      BY <1>2, CameraNeeds, CameraExceptions DEF NeedRule, Unbound, Ending, Phases, KeptBy
    <2> QED
      BY <2>1, <2>2, <2>3, CameraNeeds
  <1>12. TypeRule(d)
    BY <1>2, <1>6, CameraCalls, CameraNeeds DEF TypeRule, KeptBy
  <1> QED
    BY <1>1, <1>3, <1>4, <1>5, <1>7, <1>8, <1>9, <1>10, <1>11, <1>12 DEF Rules

-----------------------------------------------------------------------------

LEMMA KthreadCalls ==
    LET t == Driver["kthread"]  p == t.probe  r == t.remove  i == t.init  x == t.exit IN
    /\ IsSeq(i)
    /\ Len(i) = 8 /\ i[1] = Get("region") /\ i[2] = GetOr("chrdev", <<Put("region")>>)
    /\ i[3] = GetOr("class", <<Put("region")>>)
    /\ i[4] = GetOr("node", <<Put("class"), Put("region")>>) /\ i[5] = Get("page")
    /\ i[6] = Unchecked("kthread_2") /\ i[7] = Unchecked("kthread_1")
    /\ i[8] = Use("kthread_1")
    /\ IsSeq(p)
    /\ Len(p) = 0
    /\ IsSeq(r)
    /\ Len(r) = 0
    /\ IsSeq(x)
    /\ Len(x) = 6 /\ x[1] = Put("kthread_1") /\ x[2] = Put("kthread_2")
    /\ x[3] = Put("node") /\ x[4] = Put("class") /\ x[5] = Put("chrdev")
    /\ x[6] = Put("region")
  <1>1. Driver["kthread"] = Kthread
    BY DEF Driver
  <1> QED
    BY <1>1 DEF IsSeq, Kthread

LEMMA KthreadTables ==
    LET g == Given["kthread"]  u == Upto["kthread"] IN
    /\ IsSeq(g) /\ Len(g) = 0
    /\ u[1] = 0
    /\ Sure["kthread"] = {}
    /\ Kept["kthread"] = {"region", "chrdev", "class", "node", "page", "kthread_1", "kthread_2"}
    /\ Transient["kthread"] = {} /\ Lasting["kthread"] = {"kthread_1", "kthread_2"}
    /\ Firm("kthread") = {"kthread_1", "kthread_2"}
    /\ \A y : Passed("kthread", y) <=> y \in {"kthread_2", "kthread_1"}
  <1>1. Lasting["kthread"] = {"kthread_1", "kthread_2"}
    BY DEF Lasting, Drivers, Driver
  <1> QED
    BY <1>1 DEF Given, Upto, Sure, Kept, Transient, Firm, IsSeq, Passed, Overlooked

LEMMA KthreadNeeds ==
    LET n == Driver["kthread"].needs IN
    /\ DOMAIN n = {"chrdev", "kthread_1", "kthread_2"}
    /\ n["chrdev"] = {"page", "code"}
    /\ n["kthread_1"] = {"code"}
    /\ n["kthread_2"] = {"page", "code"}
  <1> DEFINE E == {Entry("chrdev", {"page"}),
                    Entry("kthread_1", {}),
                    Entry("kthread_2", {"page"})}
  <1>1. Driver["kthread"].needs = Needs(E)
    BY DEF Driver, Kthread
  <1>2. E = {<<"chrdev", {"page", "code"}>>,
             <<"kthread_1", {"code"}>>,
             <<"kthread_2", {"page", "code"}>>}
    BY DEF Entry
  <1> HIDE DEF E
  <1>3. DOMAIN Needs(E) = {"chrdev", "kthread_1", "kthread_2"}
    BY <1>2 DEF Needs
  <1>4. \A y, z \in E : y[1] = z[1] => y[2] = z[2]
    BY <1>2, SMTT(30)
  <1>5. \A y \in E : Needs(E)[y[1]] = y[2]
    BY <1>4, NeedsAre
  <1> QED
    BY <1>1, <1>2, <1>3, <1>5

LEMMA KthreadExceptions ==
    /\ \A p, x : ~Excused("kthread", p, x)
    /\ \A p, e, r : Except("kthread", p, e, r) <=>
           \/ p \in {"init"} \cup Ending /\ e = "chrdev" /\ r = "page"
           \/ p \in Ending /\ e = "chrdev" /\ r = "code"
  <1>1. "kthread" \notin DOMAIN Mishandled
    BY DEF Mishandled
  <1>2. Exposed["kthread"] =
            {<<{"init"} \cup Ending, "chrdev", {"page"}>>,
             <<Ending, "chrdev", {"code"}>>}
    BY DEF Exposed
  <1>3. \A p, x : Excused("kthread", p, x) <=> FALSE
    BY <1>1 DEF Excused
  <1>4. \A p, e, r : Except("kthread", p, e, r) <=>
            \E x \in Exposed["kthread"] : p \in x[1] /\ x[2] = e /\ r \in x[3]
    BY DEF Except
  <1> QED
    BY <1>1, <1>2, <1>3, <1>4

LEMMA KthreadRules == Rules("kthread") /\ TypeRule("kthread")
  <1> DEFINE d == "kthread"  i == Driver[d].init  p == Driver[d].probe  r == Driver[d].remove
             x == Driver[d].exit  g == Given[d]
  <1> USE KthreadTables
  <1>1. \A k \in 1..Len(i) : InitRule(d, k)
    <2>s. /\ Surely(i[1], "region") /\ Surely(i[3], "class") /\ Surely(i[5], "page")
          /\ Surely(i[7], "kthread_1")
      BY KthreadCalls, Fields DEF Surely, Takes
    <2>h. /\ Has(i, 2, "region") /\ Has(i, 3, "region") /\ Has(i, 4, "class")
          /\ Has(i, 4, "region") /\ Has(i, 6, "page") /\ Has(i, 8, "kthread_1")
      BY <2>s DEF Has
    <2>c. /\ IsSeq(i[2].cleanup) /\ Len(i[2].cleanup) = 1
          /\ i[2].cleanup[1] = Put("region") /\ IsSeq(i[3].cleanup)
          /\ Len(i[3].cleanup) = 1 /\ i[3].cleanup[1] = Put("region")
          /\ IsSeq(i[4].cleanup) /\ Len(i[4].cleanup) = 2
          /\ i[4].cleanup[1] = Put("class") /\ i[4].cleanup[2] = Put("region")
      BY KthreadCalls, Fields, OneCall, TwoCalls
    <2>d. \A y : /\ (Drops(i[2].cleanup[1], y) <=> y = "region")
                /\ (Drops(i[3].cleanup[1], y) <=> y = "region")
                /\ (Drops(i[4].cleanup[1], y) <=> y = "class")
                /\ (Drops(i[4].cleanup[2], y) <=> y = "region")
      BY <2>c, Fields DEF Drops
    <2>x. /\ i[1].x = "region" /\ i[2].x = "chrdev" /\ i[3].x = "class"
          /\ i[4].x = "node"
      BY KthreadCalls, Fields
    <2>f. \A j \in 1..4 : i[j].x \notin Firm(d)
      BY <2>x, UpTo4
    <2>1. InitRule(d, 1)
      <3>3. \A l \in 1..Len(i[1].cleanup) : CleanRule(d, "exit", i, 1, l)
        BY KthreadCalls, Fields, Empty
      <3>4. /\ i[1].op = "get" /\ i[1].x = "region" /\ i[1].fails = "error"
            /\ IsSeq(i[1].cleanup)
        BY <2>c, KthreadCalls, Fields, Empty
      <3>5. "region" \in KeptBy(d) /\ "region" \notin Firm(d)
        BY DEF KeptBy
      <3>6. "region" \in DOMAIN Driver[d].needs => \A y \in Driver[d].needs["region"] :
              y = "code" \/ Except(d, "init", "region", y) \/ Has(i, 1, y)
        BY <2>h, KthreadNeeds, KthreadExceptions
      <3> QED
        BY <3>3, <3>4, <3>5, <3>6, <2>f, InitAt
    <2>2. InitRule(d, 2)
      <3>n. NotBefore(i[2].cleanup, 1, "region")
        BY <2>d DEF NotBefore
      <3>2. CleanRule(d, "exit", i, 2, 1)
        BY <3>n, <2>h, <2>c, PutRule
      <3>3. \A l \in 1..Len(i[2].cleanup) : CleanRule(d, "exit", i, 2, l)
        BY <3>2, <2>c, UpTo1
      <3>4. /\ i[2].op = "get" /\ i[2].x = "chrdev" /\ i[2].fails = "error"
            /\ IsSeq(i[2].cleanup)
        BY <2>c, KthreadCalls, Fields, Empty
      <3>5. "chrdev" \in KeptBy(d) /\ "chrdev" \notin Firm(d)
        BY DEF KeptBy
      <3>6. "chrdev" \in DOMAIN Driver[d].needs => \A y \in Driver[d].needs["chrdev"] :
              y = "code" \/ Except(d, "init", "chrdev", y) \/ Has(i, 2, y)
        BY <2>h, KthreadNeeds, KthreadExceptions
      <3> QED
        BY <3>3, <3>4, <3>5, <3>6, <2>f, InitAt
    <2>3. InitRule(d, 3)
      <3>n. NotBefore(i[3].cleanup, 1, "region")
        BY <2>d DEF NotBefore
      <3>2. CleanRule(d, "exit", i, 3, 1)
        BY <3>n, <2>h, <2>c, PutRule
      <3>3. \A l \in 1..Len(i[3].cleanup) : CleanRule(d, "exit", i, 3, l)
        BY <3>2, <2>c, UpTo1
      <3>4. /\ i[3].op = "get" /\ i[3].x = "class" /\ i[3].fails = "error"
            /\ IsSeq(i[3].cleanup)
        BY <2>c, KthreadCalls, Fields, Empty
      <3>5. "class" \in KeptBy(d) /\ "class" \notin Firm(d)
        BY DEF KeptBy
      <3>6. "class" \in DOMAIN Driver[d].needs => \A y \in Driver[d].needs["class"] :
              y = "code" \/ Except(d, "init", "class", y) \/ Has(i, 3, y)
        BY <2>h, KthreadNeeds, KthreadExceptions
      <3> QED
        BY <3>3, <3>4, <3>5, <3>6, <2>f, InitAt
    <2>4. InitRule(d, 4)
      <3>n. /\ NotBefore(i[4].cleanup, 1, "class")
            /\ NotBefore(i[4].cleanup, 2, "region")
        BY <2>d, UpTo1 DEF NotBefore
      <3>2. /\ CleanRule(d, "exit", i, 4, 1) /\ CleanRule(d, "exit", i, 4, 2)
        BY <3>n, <2>h, <2>c, PutRule
      <3>3. \A l \in 1..Len(i[4].cleanup) : CleanRule(d, "exit", i, 4, l)
        BY <3>2, <2>c, UpTo2
      <3>4. /\ i[4].op = "get" /\ i[4].x = "node" /\ i[4].fails = "error"
            /\ IsSeq(i[4].cleanup)
        BY <2>c, KthreadCalls, Fields, Empty
      <3>5. "node" \in KeptBy(d) /\ "node" \notin Firm(d)
        BY DEF KeptBy
      <3>6. "node" \in DOMAIN Driver[d].needs => \A y \in Driver[d].needs["node"] :
              y = "code" \/ Except(d, "init", "node", y) \/ Has(i, 4, y)
        BY <2>h, KthreadNeeds, KthreadExceptions
      <3> QED
        BY <3>3, <3>4, <3>5, <3>6, <2>f, InitAt
    <2>5. InitRule(d, 5)
      <3>3. \A l \in 1..Len(i[5].cleanup) : CleanRule(d, "exit", i, 5, l)
        BY KthreadCalls, Fields, Empty
      <3>4. /\ i[5].op = "get" /\ i[5].x = "page" /\ i[5].fails = "error"
            /\ IsSeq(i[5].cleanup)
        BY <2>c, KthreadCalls, Fields, Empty
      <3>5. "page" \in KeptBy(d) /\ "page" \notin Firm(d)
        BY DEF KeptBy
      <3>6. "page" \in DOMAIN Driver[d].needs => \A y \in Driver[d].needs["page"] :
              y = "code" \/ Except(d, "init", "page", y) \/ Has(i, 5, y)
        BY <2>h, KthreadNeeds, KthreadExceptions
      <3> QED
        BY <3>3, <3>4, <3>5, <3>6, <2>f, InitAt
    <2>6. InitRule(d, 6)
      <3>1. i[6] = Unchecked("kthread_2") /\ "kthread_2" \notin Transient[d]
            /\ Passed(d, "kthread_2") /\ "kthread_2" \in KeptBy(d)
        BY KthreadCalls DEF KeptBy
      <3>2. "kthread_2" \in DOMAIN Driver[d].needs => \A y \in Driver[d].needs["kthread_2"] :
              y = "code" \/ Except(d, "init", "kthread_2", y) \/ Has(i, 6, y)
        BY <2>h, KthreadNeeds, KthreadExceptions
      <3> QED
        BY <3>1, <3>2, UncheckedInitAt
    <2>7. InitRule(d, 7)
      <3>1. i[7] = Unchecked("kthread_1") /\ "kthread_1" \notin Transient[d]
            /\ Passed(d, "kthread_1") /\ "kthread_1" \in KeptBy(d)
        BY KthreadCalls DEF KeptBy
      <3>2. "kthread_1" \in DOMAIN Driver[d].needs => \A y \in Driver[d].needs["kthread_1"] :
              y = "code" \/ Except(d, "init", "kthread_1", y) \/ Has(i, 7, y)
        BY <2>h, KthreadNeeds, KthreadExceptions
      <3> QED
        BY <3>1, <3>2, UncheckedInitAt
    <2>8. InitRule(d, 8)
      <3>1. i[8] = Use("kthread_1") /\ "kthread_1" \notin Transient[d]
        BY KthreadCalls
      <3> QED
        BY <3>1, <2>h, UseInitAt
    <2> QED
      BY UpTo8, KthreadCalls, <2>1, <2>2, <2>3, <2>4, <2>5, <2>6, <2>7, <2>8
  <1>2. IsSeq(i) /\ \A y \in {"region", "chrdev", "class", "node", "page"} : InitSure(d, y)
    <2>1. IsSeq(i) /\ DOMAIN i = 1..8
      BY KthreadCalls DEF IsSeq
    <2>2. /\ Surely(i[1], "region") /\ Surely(i[2], "chrdev") /\ Surely(i[3], "class")
          /\ Surely(i[4], "node") /\ Surely(i[5], "page")
      BY KthreadCalls, Fields DEF Surely, Takes
    <2>3. /\ InitSure(d, "region") /\ InitSure(d, "chrdev") /\ InitSure(d, "class")
          /\ InitSure(d, "node") /\ InitSure(d, "page")
      BY <2>1, <2>2 DEF InitSure
    <2> QED
      BY <2>1, <2>3
  <1>3. \A k \in 1..Len(p) : ProbeRule(d, k)
    BY KthreadCalls
  <1>4. \A y \in Sure[d] : Has(p, Len(p) + 1, y)
    OBVIOUS
  <1>5. \A k \in 1..Len(x) : ExitRule(d, k)
    <2> USE KthreadCalls, <1>2, Fields, Numbers, KthreadExceptions
            DEF ExitRule, Drops, NotBefore, KeptBy, Releasing
    <2>1. ExitRule(d, 1)
      BY SMTT(30)
    <2>2. ExitRule(d, 2)
      BY SMTT(30)
    <2>3. ExitRule(d, 3)
      BY SMTT(30)
    <2>4. ExitRule(d, 4)
      BY SMTT(30)
    <2>5. ExitRule(d, 5)
      BY SMTT(30)
    <2>6. ExitRule(d, 6)
      BY UpTo5, SMTT(30)
    <2> HIDE DEF ExitRule
    <2> QED
      BY UpTo6, <2>1, <2>2, <2>3, <2>4, <2>5, <2>6
  <1>6. /\ IsSeq(x)
        /\ \A y : y \notin {"kthread_1", "kthread_2", "node", "class", "chrdev", "region"} =>
                Untouched(d, y)
    <2>1. IsSeq(x)
      BY KthreadCalls
    <2>2. \A y : y \notin {"kthread_1", "kthread_2", "node", "class", "chrdev", "region"} =>
                Untouched(d, y)
      BY KthreadCalls, Fields, UpTo6 DEF Untouched, NotBefore, Drops
    <2> QED
      BY <2>1, <2>2
  <1>7. \A k \in 1..Len(r) : RemoveRule(d, k)
    BY KthreadCalls
  <1>8. \A k \in 1..Len(g) : GivenRule(d, k)
    OBVIOUS
  <1>9. \A e \in Transient[d] : EndRule(d, e)
    OBVIOUS
  <1>10. \A e \in Firm(d) : UnloadRule(d, e)
    <2>1. /\ x[1].op # "unregister" /\ x[2].op # "unregister"
      BY KthreadCalls, Fields
    <2>2. \A y : /\ (Drops(x[1], y) <=> y = "kthread_1")
                /\ (Drops(x[2], y) <=> y = "kthread_2")
      BY KthreadCalls, Fields DEF Drops
    <2>l. Len(x) = 6
      BY KthreadCalls
    <2>3. UnloadRule(d, "kthread_1")
      BY <2>1, <2>2, <2>l, KthreadNeeds, KthreadExceptions, UpTo1, SMTT(30) DEF UnloadRule
    <2>4. UnloadRule(d, "kthread_2")
      BY <2>1, <2>2, <2>l, KthreadNeeds, KthreadExceptions, UpTo2, SMTT(30) DEF UnloadRule
    <2> QED
      BY <2>3, <2>4
  <1>11. \A e \in DOMAIN Driver[d].needs : NeedRule(d, e)
    <2>1. NeedRule(d, "chrdev")
      BY <1>2, KthreadNeeds, KthreadExceptions DEF NeedRule, Unbound, Ending, Phases, KeptBy
    <2>2. NeedRule(d, "kthread_1")
      BY <1>2, KthreadNeeds, KthreadExceptions DEF NeedRule, Unbound, Ending, Phases, KeptBy
    <2>3. NeedRule(d, "kthread_2")
      BY <1>2, KthreadNeeds, KthreadExceptions DEF NeedRule, Unbound, Ending, Phases, KeptBy
    <2> QED
      BY <2>1, <2>2, <2>3, KthreadNeeds
  <1>12. TypeRule(d)
    BY <1>2, <1>6, KthreadCalls, KthreadNeeds DEF TypeRule, KeptBy
  <1> QED
    BY <1>1, <1>3, <1>4, <1>5, <1>7, <1>8, <1>9, <1>10, <1>11, <1>12 DEF Rules

-----------------------------------------------------------------------------

LEMMA BluetoothCalls ==
    LET t == Driver["bluetooth"]  p == t.probe  r == t.remove  x == t.exit IN
    /\ t.init = ClassInit
    /\ IsSeq(p)
    /\ Len(p) = 5 /\ p[1] = Get("chrdev") /\ p[2] = Get("node") /\ p[3] = Get("port")
    /\ p[4] = Call("get", "datafromuser", "either", <<>>)
    /\ p[5] = Call("get", "datatopc", "either", <<>>)
    /\ IsSeq(r)
    /\ Len(r) = 1 /\ r[1] = Put("port")
    /\ IsSeq(x)
    /\ Len(x) = 3 /\ x[1] = Kfree("datafromuser") /\ x[2] = Kfree("datatopc")
    /\ x[3] = Unregister
  <1>1. Driver["bluetooth"] = Bluetooth
    BY DEF Driver
  <1> QED
    BY <1>1 DEF IsSeq, Bluetooth

LEMMA BluetoothTables ==
    LET g == Given["bluetooth"]  u == Upto["bluetooth"] IN
    /\ IsSeq(g) /\ Len(g) = 0
    /\ u[1] = 0 /\ u[2] = 0 /\ u[3] = 0 /\ u[4] = 0 /\ u[5] = 0 /\ u[6] = 0
    /\ Sure["bluetooth"] = {"port"}
    /\ Kept["bluetooth"] = {"class", "datafromuser", "datatopc"}
    /\ Transient["bluetooth"] = {} /\ Lasting["bluetooth"] = {}
    /\ Firm("bluetooth") = {}
  <1>1. Lasting["bluetooth"] = {}
    BY DEF Lasting, Drivers, Driver
  <1> QED
    BY <1>1 DEF Given, Upto, Sure, Kept, Transient, Firm, IsSeq

LEMMA BluetoothNeeds ==
    LET n == Driver["bluetooth"].needs IN
    /\ DOMAIN n = {"chrdev", "port"}
    /\ n["chrdev"] = {"port", "datafromuser", "code"}
    /\ n["port"] = {"code"}
  <1> DEFINE E == {Entry("chrdev", {"port", "datafromuser"}),
                    Entry("port", {})}
  <1>1. Driver["bluetooth"].needs = Needs(E)
    BY DEF Driver, Bluetooth
  <1>2. E = {<<"chrdev", {"port", "datafromuser", "code"}>>,
             <<"port", {"code"}>>}
    BY DEF Entry
  <1> HIDE DEF E
  <1>3. DOMAIN Needs(E) = {"chrdev", "port"}
    BY <1>2 DEF Needs
  <1>4. \A y, z \in E : y[1] = z[1] => y[2] = z[2]
    BY <1>2, SMTT(30)
  <1>5. \A y \in E : Needs(E)[y[1]] = y[2]
    BY <1>4, NeedsAre
  <1> QED
    BY <1>1, <1>2, <1>3, <1>5

LEMMA BluetoothExceptions ==
    /\ \A p, x : ~Excused("bluetooth", p, x)
    /\ \A p, e, r : Except("bluetooth", p, e, r) <=>
           \/ p \in Phases /\ e = "chrdev" /\ r = "datafromuser"
           \/ p \in Unbound /\ e = "chrdev" /\ r = "port"
           \/ p \in Ending /\ e = "chrdev" /\ r = "code"
           \/ p \in Ending /\ e = "port" /\ r = "code"
  <1>1. "bluetooth" \notin DOMAIN Mishandled
    BY DEF Mishandled
  <1>2. Exposed["bluetooth"] =
            {<<Phases, "chrdev", {"datafromuser"}>>,
             <<Unbound, "chrdev", {"port"}>>,
             <<Ending, "chrdev", {"code"}>>,
             <<Ending, "port", {"code"}>>}
    BY DEF Exposed
  <1>3. \A p, x : Excused("bluetooth", p, x) <=> FALSE
    BY <1>1 DEF Excused
  <1>4. \A p, e, r : Except("bluetooth", p, e, r) <=>
            \E x \in Exposed["bluetooth"] : p \in x[1] /\ x[2] = e /\ r \in x[3]
    BY DEF Except
  <1> QED
    BY <1>1, <1>2, <1>3, <1>4

LEMMA BluetoothProbe ==
    \A k \in 1..Len(Driver["bluetooth"].probe) : ProbeRule("bluetooth", k)
  <1> DEFINE d == "bluetooth"  p == Driver[d].probe  g == Given[d]  u == Upto[d]
  <1>s. Surely(p[3], "port")
    BY BluetoothCalls, Fields DEF Surely, Takes
  <1>h. /\ Has(p, 4, "port") /\ Has(p, 5, "port")
    BY <1>s DEF Has
  <1>t. /\ Early(d, 1) /\ Early(d, 2) /\ Early(d, 3) /\ Early(d, 4) /\ Early(d, 5)
    BY BluetoothTables DEF Early
  <1>1. ProbeRule(d, 1)
    <2>1. /\ p[1] = Get("chrdev") /\ Stays(d, 1) /\ "chrdev" \notin Firm(d)
      BY BluetoothCalls, BluetoothTables DEF Stays
    <2> QED
      BY <2>1, <1>t, GetAt
  <1>2. ProbeRule(d, 2)
    <2>1. /\ p[2] = Get("node") /\ Stays(d, 2) /\ "node" \notin Firm(d)
      BY BluetoothCalls, BluetoothTables DEF Stays
    <2> QED
      BY <2>1, <1>t, GetAt
  <1>3. ProbeRule(d, 3)
    <2>1. /\ p[3] = Get("port") /\ Stays(d, 3) /\ "port" \notin Firm(d)
      BY BluetoothCalls, BluetoothTables DEF Stays
    <2> QED
      BY <2>1, <1>t, GetAt
  <1>4. ProbeRule(d, 4)
    BY BluetoothCalls, BluetoothTables, Fields, Empty, <1>h, Numbers, SMTT(60)
       DEF ProbeRule, Takes, NotBefore, Drops
  <1>5. ProbeRule(d, 5)
    BY BluetoothCalls, BluetoothTables, Fields, Empty, <1>h, Numbers, SMTT(60)
       DEF ProbeRule, Takes, NotBefore, Drops
  <1> QED
    BY BluetoothCalls, UpTo5, <1>1, <1>2, <1>3, <1>4, <1>5

LEMMA BluetoothRules == Rules("bluetooth") /\ TypeRule("bluetooth")
  <1> DEFINE d == "bluetooth"  i == Driver[d].init  p == Driver[d].probe  r == Driver[d].remove
             x == Driver[d].exit  g == Given[d]
  <1> USE BluetoothTables
  <1>1. \A k \in 1..Len(i) : InitRule(d, k)
    BY BluetoothCalls, BluetoothNeeds, ClassInitRules
  <1>2. IsSeq(i) /\ InitSure(d, "class") /\ InitSure(d, "driver")
    BY BluetoothCalls, BluetoothNeeds, ClassInitRules
  <1>3. \A k \in 1..Len(p) : ProbeRule(d, k)
    BY BluetoothProbe
  <1>4. \A y \in Sure[d] : Has(p, Len(p) + 1, y)
    <2>1. /\ Surely(p[3], "port") /\ Len(p) = 5
      BY BluetoothCalls, Fields DEF Surely, Takes
    <2> QED
      BY <2>1 DEF Has
  <1>5. \A k \in 1..Len(x) : ExitRule(d, k)
    <2> USE BluetoothCalls, <1>2, Fields, Numbers, BluetoothExceptions
            DEF ExitRule, Drops, NotBefore, KeptBy, Releasing
    <2>1. ExitRule(d, 1)
      BY SMTT(30)
    <2>2. ExitRule(d, 2)
      BY SMTT(30)
    <2>3. ExitRule(d, 3)
      BY SMTT(30)
    <2> HIDE DEF ExitRule
    <2> QED
      BY UpTo3, <2>1, <2>2, <2>3
  <1>6. /\ IsSeq(x)
        /\ \A y : y \notin {"datafromuser", "datatopc"} =>
                Untouched(d, y)
    <2>1. IsSeq(x)
      BY BluetoothCalls
    <2>2. \A y : y \notin {"datafromuser", "datatopc"} =>
                Untouched(d, y)
      BY BluetoothCalls, Fields, UpTo3 DEF Untouched, NotBefore, Drops
    <2> QED
      BY <2>1, <2>2
  <1>7. \A k \in 1..Len(r) : RemoveRule(d, k)
    <2> USE BluetoothCalls, <1>6, Fields, Numbers, BluetoothExceptions
            DEF RemoveRule, ExcusedAfter, NotBefore, UndoOps, KeptBy, Drops, Releasing
    <2>1. RemoveRule(d, 1)
      BY SMTT(30)
    <2> HIDE DEF RemoveRule
    <2> QED
      BY UpTo1, <2>1
  <1>8. \A k \in 1..Len(g) : GivenRule(d, k)
    OBVIOUS
  <1>9. \A e \in Transient[d] : EndRule(d, e)
    OBVIOUS
  <1>10. \A e \in Firm(d) : UnloadRule(d, e)
    OBVIOUS
  <1>11. \A e \in DOMAIN Driver[d].needs : NeedRule(d, e)
    <2>1. NeedRule(d, "chrdev")
      BY <1>2, BluetoothNeeds, BluetoothExceptions DEF NeedRule, Unbound, Ending, Phases, KeptBy
    <2>2. NeedRule(d, "port")
      BY <1>2, BluetoothNeeds, BluetoothExceptions DEF NeedRule, Unbound, Ending, Phases, KeptBy
    <2> QED
      BY <2>1, <2>2, BluetoothNeeds
  <1>12. TypeRule(d)
    BY <1>2, <1>6, BluetoothCalls, BluetoothNeeds DEF TypeRule, KeptBy
  <1> QED
    BY <1>1, <1>3, <1>4, <1>5, <1>7, <1>8, <1>9, <1>10, <1>11, <1>12 DEF Rules

-----------------------------------------------------------------------------

LEMMA LidarSerialCalls ==
    LET t == Driver["lidar_serial"]  p == t.probe  r == t.remove IN
    /\ t.init = ClassInit
    /\ IsSeq(p)
    /\ Len(p) = 3 /\ p[1] = Get("chrdev") /\ p[2] = Get("node") /\ p[3] = Get("port")
    /\ IsSeq(r)
    /\ Len(r) = 1 /\ r[1] = Put("port")
    /\ t.exit = ModuleExit
  <1>1. Driver["lidar_serial"] = LidarSerial
    BY DEF Driver
  <1> QED
    BY <1>1 DEF IsSeq, LidarSerial

LEMMA LidarSerialTables ==
    LET g == Given["lidar_serial"]  u == Upto["lidar_serial"] IN
    /\ IsSeq(g) /\ Len(g) = 0
    /\ u[1] = 0 /\ u[2] = 0 /\ u[3] = 0 /\ u[4] = 0
    /\ Sure["lidar_serial"] = {"port"} /\ Kept["lidar_serial"] = {"class"}
    /\ Transient["lidar_serial"] = {"port"} /\ Lasting["lidar_serial"] = {}
    /\ Firm("lidar_serial") = {"port"}
  <1>1. Lasting["lidar_serial"] = {}
    BY DEF Lasting, Drivers, Driver
  <1> QED
    BY <1>1 DEF Given, Upto, Sure, Kept, Transient, Firm, IsSeq

LEMMA LidarSerialNeeds ==
    LET n == Driver["lidar_serial"].needs IN
    /\ DOMAIN n = {"chrdev", "port"}
    /\ n["chrdev"] = {"code"}
    /\ n["port"] = {"code"}
  <1> DEFINE E == {Entry("chrdev", {}),
                    Entry("port", {})}
  <1>1. Driver["lidar_serial"].needs = Needs(E)
    BY DEF Driver, LidarSerial
  <1>2. E = {<<"chrdev", {"code"}>>,
             <<"port", {"code"}>>}
    BY DEF Entry
  <1> HIDE DEF E
  <1>3. DOMAIN Needs(E) = {"chrdev", "port"}
    BY <1>2 DEF Needs
  <1>4. \A y, z \in E : y[1] = z[1] => y[2] = z[2]
    <2>1. \A y \in E : y[2] = {"code"}
      BY <1>2
    <2> QED
      BY <2>1
  <1>5. \A y \in E : Needs(E)[y[1]] = y[2]
    BY <1>4, NeedsAre
  <1> QED
    BY <1>1, <1>2, <1>3, <1>5

LEMMA LidarSerialExceptions ==
    /\ \A p, x : ~Excused("lidar_serial", p, x)
    /\ \A p, e, r : Except("lidar_serial", p, e, r) <=>
           \/ p \in Ending /\ e = "chrdev" /\ r = "code"
  <1>1. "lidar_serial" \notin DOMAIN Mishandled
    BY DEF Mishandled
  <1>2. Exposed["lidar_serial"] =
            {<<Ending, "chrdev", {"code"}>>}
    BY DEF Exposed
  <1>3. \A p, x : Excused("lidar_serial", p, x) <=> FALSE
    BY <1>1 DEF Excused
  <1>4. \A p, e, r : Except("lidar_serial", p, e, r) <=>
            \E x \in Exposed["lidar_serial"] : p \in x[1] /\ x[2] = e /\ r \in x[3]
    BY DEF Except
  <1> QED
    BY <1>1, <1>2, <1>3, <1>4

LEMMA LidarSerialProbe ==
    \A k \in 1..Len(Driver["lidar_serial"].probe) : ProbeRule("lidar_serial", k)
  <1> DEFINE d == "lidar_serial"  p == Driver[d].probe  g == Given[d]  u == Upto[d]
  <1>t. /\ Early(d, 1) /\ Early(d, 2) /\ Early(d, 3)
    <2>1. /\ p[1].x = "chrdev" /\ p[2].x = "node"
      BY LidarSerialCalls, Fields
    <2>2. \A j \in 1..2 : p[j].x \notin Transient[d]
      BY <2>1, LidarSerialTables, UpTo2
    <2> QED
      BY <2>2 DEF Early
  <1>1. ProbeRule(d, 1)
    <2>1. /\ p[1] = Get("chrdev") /\ Stays(d, 1) /\ "chrdev" \notin Firm(d)
      BY LidarSerialCalls, LidarSerialTables DEF Stays
    <2> QED
      BY <2>1, <1>t, GetAt
  <1>2. ProbeRule(d, 2)
    <2>1. /\ p[2] = Get("node") /\ Stays(d, 2) /\ "node" \notin Firm(d)
      BY LidarSerialCalls, LidarSerialTables DEF Stays
    <2> QED
      BY <2>1, <1>t, GetAt
  <1>3. ProbeRule(d, 3)
    <2>1. /\ p[3] = Get("port") /\ Stays(d, 3)
      BY LidarSerialCalls, LidarSerialTables DEF Stays
    <2>2. Backed(d, 3, "port")
      BY LidarSerialNeeds, SMTT(30) DEF Backed
    <2> QED
      BY <2>1, <2>2, <1>t, GetAt
  <1> QED
    BY LidarSerialCalls, UpTo3, <1>1, <1>2, <1>3

LEMMA LidarSerialRules == Rules("lidar_serial") /\ TypeRule("lidar_serial")
  <1> DEFINE d == "lidar_serial"  i == Driver[d].init  p == Driver[d].probe  r == Driver[d].remove
             x == Driver[d].exit  g == Given[d]
  <1> USE LidarSerialTables
  <1>1. \A k \in 1..Len(i) : InitRule(d, k)
    BY LidarSerialCalls, LidarSerialNeeds, ClassInitRules
  <1>2. IsSeq(i) /\ InitSure(d, "class") /\ InitSure(d, "driver")
    BY LidarSerialCalls, LidarSerialNeeds, ClassInitRules
  <1>3. \A k \in 1..Len(p) : ProbeRule(d, k)
    BY LidarSerialProbe
  <1>4. \A y \in Sure[d] : Has(p, Len(p) + 1, y)
    <2>1. /\ Surely(p[3], "port") /\ Len(p) = 3
      BY LidarSerialCalls, Fields DEF Surely, Takes
    <2> QED
      BY <2>1 DEF Has
  <1>5. \A k \in 1..Len(x) : ExitRule(d, k)
    BY <1>2, LidarSerialCalls, ModuleExitRules
  <1>6. /\ IsSeq(x)
        /\ \A y : Untouched(d, y)
    BY <1>2, LidarSerialCalls, ModuleExitRules
  <1>7. \A k \in 1..Len(r) : RemoveRule(d, k)
    <2> USE LidarSerialCalls, <1>6, Fields, Numbers, LidarSerialExceptions
            DEF RemoveRule, ExcusedAfter, NotBefore, UndoOps, KeptBy, Drops, Releasing
    <2>1. RemoveRule(d, 1)
      BY SMTT(30)
    <2> HIDE DEF RemoveRule
    <2> QED
      BY UpTo1, <2>1
  <1>8. \A k \in 1..Len(g) : GivenRule(d, k)
    OBVIOUS
  <1>9. \A e \in Transient[d] : EndRule(d, e)
    <2>1. \A y : (Drops(r[1], y) <=> y = "port")
      BY LidarSerialCalls, Fields DEF Drops
    <2>2. Len(r) = 1
      BY LidarSerialCalls
    <2> QED
      BY <2>1, <2>2, LidarSerialNeeds, LidarSerialExceptions, UpTo1, SMTT(30)
         DEF EndRule, ExceptAfter
  <1>10. \A e \in Firm(d) : UnloadRule(d, e)
    BY LidarSerialCalls, UnregisterEnds
  <1>11. \A e \in DOMAIN Driver[d].needs : NeedRule(d, e)
    <2>1. NeedRule(d, "chrdev")
      BY <1>2, LidarSerialNeeds, LidarSerialExceptions DEF NeedRule, Unbound, Ending, Phases,
         KeptBy
    <2>2. NeedRule(d, "port")
      BY <1>2, LidarSerialNeeds, LidarSerialExceptions DEF NeedRule, Unbound, Ending, Phases,
         KeptBy
    <2> QED
      BY <2>1, <2>2, LidarSerialNeeds
  <1>12. TypeRule(d)
    BY <1>2, <1>6, LidarSerialCalls, LidarSerialNeeds DEF TypeRule, KeptBy
  <1> QED
    BY <1>1, <1>3, <1>4, <1>5, <1>7, <1>8, <1>9, <1>10, <1>11, <1>12 DEF Rules

-----------------------------------------------------------------------------

LEMMA LidarI2cCalls ==
    LET t == Driver["lidar_i2c"]  p == t.probe  r == t.remove IN
    /\ t.init = ClassInit
    /\ IsSeq(p)
    /\ Len(p) = 5 /\ p[1] = Check /\ p[2] = Check /\ p[3] = Managed("dev")
    /\ p[4] = Get("chrdev") /\ p[5] = GetOr("node", <<Kfree("dev")>>)
    /\ IsSeq(r)
    /\ Len(r) = 1 /\ r[1] = Put("node")
    /\ t.exit = ClassExit
  <1>1. Driver["lidar_i2c"] = LidarI2c
    BY DEF Driver
  <1> QED
    BY <1>1 DEF IsSeq, LidarI2c, LidarI2cRemove

LEMMA LidarI2cTables ==
    LET g == Given["lidar_i2c"]  u == Upto["lidar_i2c"] IN
    /\ IsSeq(g) /\ Len(g) = 1 /\ g[1] = "dev"
    /\ u[1] = 0 /\ u[2] = 0 /\ u[3] = 0 /\ u[4] = 1 /\ u[5] = 1 /\ u[6] = 1
    /\ Sure["lidar_i2c"] = {"dev", "node"} /\ Kept["lidar_i2c"] = {"class"}
    /\ Transient["lidar_i2c"] = {} /\ Lasting["lidar_i2c"] = {}
    /\ Firm("lidar_i2c") = {}
  <1>1. Lasting["lidar_i2c"] = {}
    BY DEF Lasting, Drivers, Driver
  <1> QED
    BY <1>1 DEF Given, Upto, Sure, Kept, Transient, Firm, IsSeq

LEMMA LidarI2cNeeds ==
    LET n == Driver["lidar_i2c"].needs IN
    /\ DOMAIN n = {"chrdev"}
    /\ n["chrdev"] = {"code"}
  <1> DEFINE E == {Entry("chrdev", {})}
  <1>1. Driver["lidar_i2c"].needs = Needs(E)
    BY DEF Driver, LidarI2c, LidarI2cRemove
  <1>2. E = {<<"chrdev", {"code"}>>}
    BY DEF Entry
  <1> HIDE DEF E
  <1>3. DOMAIN Needs(E) = {"chrdev"}
    BY <1>2 DEF Needs
  <1>4. \A y, z \in E : y[1] = z[1] => y[2] = z[2]
    BY <1>2, SMTT(30)
  <1>5. \A y \in E : Needs(E)[y[1]] = y[2]
    BY <1>4, NeedsAre
  <1> QED
    BY <1>1, <1>2, <1>3, <1>5

LEMMA LidarI2cExceptions ==
    /\ \A p, x : Excused("lidar_i2c", p, x) <=>
           \/ p \in {"failing"} /\ x = "dev"
    /\ \A p, e, r : Except("lidar_i2c", p, e, r) <=>
           \/ p \in Ending /\ e = "chrdev" /\ r = "code"
  <1>1. "lidar_i2c" \in DOMAIN Mishandled /\ Mishandled["lidar_i2c"] =
            {<<{"failing"}, {"dev"}>>}
    BY DEF Mishandled
  <1>2. Exposed["lidar_i2c"] =
            {<<Ending, "chrdev", {"code"}>>}
    BY DEF Exposed
  <1>3. \A p, x : Excused("lidar_i2c", p, x) <=>
            \E m \in Mishandled["lidar_i2c"] : p \in m[1] /\ x \in m[2]
    BY <1>1 DEF Excused
  <1>4. \A p, e, r : Except("lidar_i2c", p, e, r) <=>
            \E x \in Exposed["lidar_i2c"] : p \in x[1] /\ x[2] = e /\ r \in x[3]
    BY DEF Except
  <1> QED
    BY <1>1, <1>2, <1>3, <1>4

LEMMA LidarI2cProbe ==
    \A k \in 1..Len(Driver["lidar_i2c"].probe) : ProbeRule("lidar_i2c", k)
  <1> DEFINE d == "lidar_i2c"  p == Driver[d].probe  g == Given[d]  u == Upto[d]
  <1>c. /\ IsSeq(p[5].cleanup) /\ Len(p[5].cleanup) = 1
        /\ p[5].cleanup[1] = Kfree("dev")
    BY LidarI2cCalls, Fields, OneCall
  <1>d. \A y : (Drops(p[5].cleanup[1], y) <=> y = "dev")
    BY <1>c, Fields DEF Drops
  <1>t. /\ Early(d, 1) /\ Early(d, 2) /\ Early(d, 3) /\ Early(d, 4) /\ Early(d, 5)
    BY LidarI2cTables DEF Early
  <1>1. ProbeRule(d, 1)
    <2>1. /\ p[1] = Check /\ Stays(d, 1)
      BY LidarI2cCalls, LidarI2cTables DEF Stays
    <2> QED
      BY <2>1, <1>t, CheckAt
  <1>2. ProbeRule(d, 2)
    <2>1. /\ p[2] = Check /\ Stays(d, 2)
      BY LidarI2cCalls, LidarI2cTables DEF Stays
    <2> QED
      BY <2>1, <1>t, CheckAt
  <1>3. ProbeRule(d, 3)
    <2>1. /\ p[3] = Managed("dev") /\ Adds(d, 3, "dev") /\ "dev" \notin Firm(d)
      BY LidarI2cCalls, LidarI2cTables DEF Adds
    <2> QED
      BY <2>1, <1>t, ManagedAt
  <1>4. ProbeRule(d, 4)
    <2>1. /\ p[4] = Get("chrdev") /\ Stays(d, 4) /\ "chrdev" \notin Firm(d)
      BY LidarI2cCalls, LidarI2cTables DEF Stays
    <2> QED
      BY <2>1, <1>t, GetAt
  <1>5. ProbeRule(d, 5)
    <2>1. /\ p[5].op = "get" /\ p[5].x = "node" /\ p[5].fails = "error"
          /\ Stays(d, 5) /\ u[5] = 1 /\ "node" \notin Firm(d)
      BY LidarI2cCalls, LidarI2cTables, Fields DEF Stays
    <2>2. /\ "dev" \notin KeptBy(d) /\ Excused(d, "failing", "dev")
      BY LidarI2cTables, LidarI2cExceptions DEF KeptBy
    <2>3. CleanRule(d, "failing", p, 5, 1)
      BY <2>2, <1>c, ExcusedRule
    <2>4. Harmless(d, 5)
      <3>1. \A l \in 1..1 : CleanRule(d, "failing", p, 5, l)
        BY <2>3, UpTo1
      <3>2. \A l \in 1..1 : \A n \in 1..1 :
              Drops(p[5].cleanup[l], g[n]) => Excused(d, "failing", g[n])
        BY <1>d, UpTo1, LidarI2cTables, LidarI2cExceptions
      <3> QED
        BY <3>1, <2>1, <1>c, <3>2 DEF Harmless
    <2> QED
      BY <2>1, <2>4, <1>t, <1>c, CleanedAt
  <1> QED
    BY LidarI2cCalls, UpTo5, <1>1, <1>2, <1>3, <1>4, <1>5

LEMMA LidarI2cRules == Rules("lidar_i2c") /\ TypeRule("lidar_i2c")
  <1> DEFINE d == "lidar_i2c"  i == Driver[d].init  p == Driver[d].probe  r == Driver[d].remove
             x == Driver[d].exit  g == Given[d]
  <1> USE LidarI2cTables
  <1>1. \A k \in 1..Len(i) : InitRule(d, k)
    BY LidarI2cCalls, LidarI2cNeeds, ClassInitRules
  <1>2. IsSeq(i) /\ InitSure(d, "class") /\ InitSure(d, "driver")
    BY LidarI2cCalls, LidarI2cNeeds, ClassInitRules
  <1>3. \A k \in 1..Len(p) : ProbeRule(d, k)
    BY LidarI2cProbe
  <1>4. \A y \in Sure[d] : Has(p, Len(p) + 1, y)
    <2>1. /\ Surely(p[3], "dev") /\ Surely(p[5], "node") /\ Len(p) = 5
      BY LidarI2cCalls, Fields DEF Surely, Takes
    <2> QED
      BY <2>1 DEF Has
  <1>5. \A k \in 1..Len(x) : ExitRule(d, k)
    BY <1>2, LidarI2cCalls, ClassExitRules
  <1>6. /\ IsSeq(x)
        /\ \A y : y # "class" => Untouched(d, y)
    BY <1>2, LidarI2cCalls, ClassExitRules
  <1>7. \A k \in 1..Len(r) : RemoveRule(d, k)
    <2> USE LidarI2cCalls, <1>6, Fields, Numbers, LidarI2cExceptions
            DEF RemoveRule, ExcusedAfter, NotBefore, UndoOps, KeptBy, Drops, Releasing
    <2>1. RemoveRule(d, 1)
      BY SMTT(30)
    <2> HIDE DEF RemoveRule
    <2> QED
      BY UpTo1, <2>1
  <1>8. \A k \in 1..Len(g) : GivenRule(d, k)
    <2> USE <1>6, LidarI2cCalls, Fields, Numbers, LidarI2cExceptions
            DEF GivenRule, ExcusedAfter, NotBefore, KeptBy, Drops, Releasing
    <2>1. GivenRule(d, 1)
      BY SMTT(30)
    <2> HIDE DEF GivenRule
    <2> QED
      BY UpTo1, <2>1
  <1>9. \A e \in Transient[d] : EndRule(d, e)
    OBVIOUS
  <1>10. \A e \in Firm(d) : UnloadRule(d, e)
    OBVIOUS
  <1>11. \A e \in DOMAIN Driver[d].needs : NeedRule(d, e)
    <2>1. NeedRule(d, "chrdev")
      BY <1>2, LidarI2cNeeds, LidarI2cExceptions DEF NeedRule, Unbound, Ending, Phases, KeptBy
    <2> QED
      BY <2>1, LidarI2cNeeds
  <1>12. TypeRule(d)
    BY <1>2, <1>6, LidarI2cCalls, LidarI2cNeeds DEF TypeRule, KeptBy
  <1> QED
    BY <1>1, <1>3, <1>4, <1>5, <1>7, <1>8, <1>9, <1>10, <1>11, <1>12 DEF Rules

-----------------------------------------------------------------------------

LEMMA PwmCalls ==
    LET t == Driver["pwm"]  p == t.probe  r == t.remove IN
    /\ t.init = ClassInit
    /\ IsSeq(p)
    /\ Len(p) = 6 /\ p[1] = Check /\ p[2] = Managed("dev") /\ p[3] = Get("chrdev")
    /\ p[4] = GetOr("node", <<Kfree("dev")>>) /\ p[5] = Managed("pwm") /\ p[6] = Check
    /\ IsSeq(r)
    /\ Len(r) = 2 /\ r[1] = Use("pwm") /\ r[2] = Put("node")
    /\ t.exit = ClassExit
  <1>1. Driver["pwm"] = Pwm
    BY DEF Driver
  <1> QED
    BY <1>1 DEF IsSeq, Pwm

LEMMA PwmTables ==
    LET g == Given["pwm"]  u == Upto["pwm"] IN
    /\ IsSeq(g) /\ Len(g) = 2 /\ g[1] = "dev" /\ g[2] = "pwm"
    /\ u[1] = 0 /\ u[2] = 0 /\ u[3] = 1 /\ u[4] = 1 /\ u[5] = 1 /\ u[6] = 2
    /\ u[7] = 2
    /\ Sure["pwm"] = {"dev", "node", "pwm"} /\ Kept["pwm"] = {"class"}
    /\ Transient["pwm"] = {} /\ Lasting["pwm"] = {}
    /\ Firm("pwm") = {}
  <1>1. Lasting["pwm"] = {}
    BY DEF Lasting, Drivers, Driver
  <1> QED
    BY <1>1 DEF Given, Upto, Sure, Kept, Transient, Firm, IsSeq

LEMMA PwmNeeds ==
    LET n == Driver["pwm"].needs IN
    /\ DOMAIN n = {"chrdev"}
    /\ n["chrdev"] = {"dev", "pwm", "code"}
  <1> DEFINE E == {Entry("chrdev", {"dev", "pwm"})}
  <1>1. Driver["pwm"].needs = Needs(E)
    BY DEF Driver, Pwm
  <1>2. E = {<<"chrdev", {"dev", "pwm", "code"}>>}
    BY DEF Entry
  <1> HIDE DEF E
  <1>3. DOMAIN Needs(E) = {"chrdev"}
    BY <1>2 DEF Needs
  <1>4. \A y, z \in E : y[1] = z[1] => y[2] = z[2]
    BY <1>2, SMTT(30)
  <1>5. \A y \in E : Needs(E)[y[1]] = y[2]
    BY <1>4, NeedsAre
  <1> QED
    BY <1>1, <1>2, <1>3, <1>5

LEMMA PwmExceptions ==
    /\ \A p, x : Excused("pwm", p, x) <=>
           \/ p \in {"failing"} /\ x = "dev"
    /\ \A p, e, r : Except("pwm", p, e, r) <=>
           \/ p \in Unbound /\ e = "chrdev" /\ r \in {"dev", "pwm"}
           \/ p \in Ending /\ e = "chrdev" /\ r = "code"
  <1>1. "pwm" \in DOMAIN Mishandled /\ Mishandled["pwm"] =
            {<<{"failing"}, {"dev"}>>}
    BY DEF Mishandled
  <1>2. Exposed["pwm"] =
            {<<Unbound, "chrdev", {"dev", "pwm"}>>,
             <<Ending, "chrdev", {"code"}>>}
    BY DEF Exposed
  <1>3. \A p, x : Excused("pwm", p, x) <=>
            \E m \in Mishandled["pwm"] : p \in m[1] /\ x \in m[2]
    BY <1>1 DEF Excused
  <1>4. \A p, e, r : Except("pwm", p, e, r) <=>
            \E x \in Exposed["pwm"] : p \in x[1] /\ x[2] = e /\ r \in x[3]
    BY DEF Except
  <1> QED
    BY <1>1, <1>2, <1>3, <1>4

LEMMA PwmProbe ==
    \A k \in 1..Len(Driver["pwm"].probe) : ProbeRule("pwm", k)
  <1> DEFINE d == "pwm"  p == Driver[d].probe  g == Given[d]  u == Upto[d]
  <1>c. /\ IsSeq(p[4].cleanup) /\ Len(p[4].cleanup) = 1
        /\ p[4].cleanup[1] = Kfree("dev")
    BY PwmCalls, Fields, OneCall
  <1>d. \A y : (Drops(p[4].cleanup[1], y) <=> y = "dev")
    BY <1>c, Fields DEF Drops
  <1>t. /\ Early(d, 1) /\ Early(d, 2) /\ Early(d, 3) /\ Early(d, 4) /\ Early(d, 5)
        /\ Early(d, 6)
    BY PwmTables DEF Early
  <1>1. ProbeRule(d, 1)
    <2>1. /\ p[1] = Check /\ Stays(d, 1)
      BY PwmCalls, PwmTables DEF Stays
    <2> QED
      BY <2>1, <1>t, CheckAt
  <1>2. ProbeRule(d, 2)
    <2>1. /\ p[2] = Managed("dev") /\ Adds(d, 2, "dev") /\ "dev" \notin Firm(d)
      BY PwmCalls, PwmTables DEF Adds
    <2> QED
      BY <2>1, <1>t, ManagedAt
  <1>3. ProbeRule(d, 3)
    <2>1. /\ p[3] = Get("chrdev") /\ Stays(d, 3) /\ "chrdev" \notin Firm(d)
      BY PwmCalls, PwmTables DEF Stays
    <2> QED
      BY <2>1, <1>t, GetAt
  <1>4. ProbeRule(d, 4)
    <2>1. /\ p[4].op = "get" /\ p[4].x = "node" /\ p[4].fails = "error"
          /\ Stays(d, 4) /\ u[4] = 1 /\ "node" \notin Firm(d)
      BY PwmCalls, PwmTables, Fields DEF Stays
    <2>2. /\ "dev" \notin KeptBy(d) /\ Excused(d, "failing", "dev")
      BY PwmTables, PwmExceptions DEF KeptBy
    <2>3. CleanRule(d, "failing", p, 4, 1)
      BY <2>2, <1>c, ExcusedRule
    <2>4. Harmless(d, 4)
      <3>1. \A l \in 1..1 : CleanRule(d, "failing", p, 4, l)
        BY <2>3, UpTo1
      <3>2. \A l \in 1..1 : \A n \in 1..1 :
              Drops(p[4].cleanup[l], g[n]) => Excused(d, "failing", g[n])
        BY <1>d, UpTo1, PwmTables, PwmExceptions
      <3> QED
        BY <3>1, <2>1, <1>c, <3>2 DEF Harmless
    <2> QED
      BY <2>1, <2>4, <1>t, <1>c, CleanedAt
  <1>5. ProbeRule(d, 5)
    <2>1. /\ p[5] = Managed("pwm") /\ Adds(d, 5, "pwm") /\ "pwm" \notin Firm(d)
      BY PwmCalls, PwmTables DEF Adds
    <2> QED
      BY <2>1, <1>t, ManagedAt
  <1>6. ProbeRule(d, 6)
    <2>1. /\ p[6] = Check /\ Stays(d, 6)
      BY PwmCalls, PwmTables DEF Stays
    <2> QED
      BY <2>1, <1>t, CheckAt
  <1> QED
    BY PwmCalls, UpTo6, <1>1, <1>2, <1>3, <1>4, <1>5, <1>6

LEMMA PwmRules == Rules("pwm") /\ TypeRule("pwm")
  <1> DEFINE d == "pwm"  i == Driver[d].init  p == Driver[d].probe  r == Driver[d].remove
             x == Driver[d].exit  g == Given[d]
  <1> USE PwmTables
  <1>1. \A k \in 1..Len(i) : InitRule(d, k)
    BY PwmCalls, PwmNeeds, ClassInitRules
  <1>2. IsSeq(i) /\ InitSure(d, "class") /\ InitSure(d, "driver")
    BY PwmCalls, PwmNeeds, ClassInitRules
  <1>3. \A k \in 1..Len(p) : ProbeRule(d, k)
    BY PwmProbe
  <1>4. \A y \in Sure[d] : Has(p, Len(p) + 1, y)
    <2>1. /\ Surely(p[2], "dev") /\ Surely(p[4], "node") /\ Surely(p[5], "pwm")
          /\ Len(p) = 6
      BY PwmCalls, Fields DEF Surely, Takes
    <2> QED
      BY <2>1 DEF Has
  <1>5. \A k \in 1..Len(x) : ExitRule(d, k)
    BY <1>2, PwmCalls, ClassExitRules
  <1>6. /\ IsSeq(x)
        /\ \A y : y # "class" => Untouched(d, y)
    BY <1>2, PwmCalls, ClassExitRules
  <1>7. \A k \in 1..Len(r) : RemoveRule(d, k)
    <2> USE PwmCalls, <1>6, Fields, Numbers, PwmExceptions
            DEF RemoveRule, ExcusedAfter, NotBefore, UndoOps, KeptBy, Drops, Releasing
    <2>1. RemoveRule(d, 1)
      BY SMTT(30)
    <2>2. RemoveRule(d, 2)
      BY SMTT(30)
    <2> HIDE DEF RemoveRule
    <2> QED
      BY UpTo2, <2>1, <2>2
  <1>8. \A k \in 1..Len(g) : GivenRule(d, k)
    <2> USE <1>6, PwmCalls, Fields, Numbers, PwmExceptions
            DEF GivenRule, ExcusedAfter, NotBefore, KeptBy, Drops, Releasing
    <2>1. GivenRule(d, 1)
      BY SMTT(30)
    <2>2. GivenRule(d, 2)
      BY SMTT(30)
    <2> HIDE DEF GivenRule
    <2> QED
      BY UpTo2, <2>1, <2>2
  <1>9. \A e \in Transient[d] : EndRule(d, e)
    OBVIOUS
  <1>10. \A e \in Firm(d) : UnloadRule(d, e)
    OBVIOUS
  <1>11. \A e \in DOMAIN Driver[d].needs : NeedRule(d, e)
    <2>1. NeedRule(d, "chrdev")
      BY <1>2, PwmNeeds, PwmExceptions DEF NeedRule, Unbound, Ending, Phases, KeptBy
    <2> QED
      BY <2>1, PwmNeeds
  <1>12. TypeRule(d)
    BY <1>2, <1>6, PwmCalls, PwmNeeds DEF TypeRule, KeptBy
  <1> QED
    BY <1>1, <1>3, <1>4, <1>5, <1>7, <1>8, <1>9, <1>10, <1>11, <1>12 DEF Rules

-----------------------------------------------------------------------------

LEMMA PwmSysfsCalls ==
    LET t == Driver["pwm_sys"]  p == t.probe  r == t.remove IN
    /\ t.init = ModuleInit
    /\ IsSeq(p)
    /\ Len(p) = 6 /\ p[1] = Check /\ p[2] = Unchecked("pins") /\ p[3] = Managed("dev")
    /\ p[4] = Managed("pwm") /\ p[5] = Check /\ p[6] = Get("attributes")
    /\ IsSeq(r)
    /\ Len(r) = 1 /\ r[1] = Use("pwm")
    /\ t.exit = ModuleExit
  <1>1. Driver["pwm_sys"] = PwmSysfs
    BY DEF Driver
  <1> QED
    BY <1>1 DEF IsSeq, PwmSysfs

LEMMA PwmSysfsTables ==
    LET g == Given["pwm_sys"]  u == Upto["pwm_sys"] IN
    /\ IsSeq(g) /\ Len(g) = 2 /\ g[1] = "dev" /\ g[2] = "pwm"
    /\ u[1] = 0 /\ u[2] = 0 /\ u[3] = 0 /\ u[4] = 1 /\ u[5] = 2 /\ u[6] = 2
    /\ u[7] = 2
    /\ Sure["pwm_sys"] = {"dev", "pwm"} /\ Kept["pwm_sys"] = {}
    /\ Transient["pwm_sys"] = {} /\ Lasting["pwm_sys"] = {}
    /\ Firm("pwm_sys") = {}
    /\ \A y : Passed("pwm_sys", y) <=> y \in {"pins"}
  <1>1. Lasting["pwm_sys"] = {}
    BY DEF Lasting, Drivers, Driver
  <1> QED
    BY <1>1 DEF Given, Upto, Sure, Kept, Transient, Firm, IsSeq, Passed, Overlooked

LEMMA PwmSysfsNeeds ==
    LET n == Driver["pwm_sys"].needs IN
    /\ DOMAIN n = {"attributes"}
    /\ n["attributes"] = {"dev", "pwm", "code"}
  <1> DEFINE E == {Entry("attributes", {"dev", "pwm"})}
  <1>1. Driver["pwm_sys"].needs = Needs(E)
    BY DEF Driver, PwmSysfs
  <1>2. E = {<<"attributes", {"dev", "pwm", "code"}>>}
    BY DEF Entry
  <1> HIDE DEF E
  <1>3. DOMAIN Needs(E) = {"attributes"}
    BY <1>2 DEF Needs
  <1>4. \A y, z \in E : y[1] = z[1] => y[2] = z[2]
    BY <1>2, SMTT(30)
  <1>5. \A y \in E : Needs(E)[y[1]] = y[2]
    BY <1>4, NeedsAre
  <1> QED
    BY <1>1, <1>2, <1>3, <1>5

LEMMA PwmSysfsExceptions ==
    /\ \A p, x : ~Excused("pwm_sys", p, x)
    /\ \A p, e, r : Except("pwm_sys", p, e, r) <=>
           \/ p \in Unbound /\ e = "attributes" /\ r \in {"dev", "pwm"}
           \/ p \in Ending /\ e = "attributes" /\ r = "code"
  <1>1. "pwm_sys" \notin DOMAIN Mishandled
    BY DEF Mishandled
  <1>2. Exposed["pwm_sys"] =
            {<<Unbound, "attributes", {"dev", "pwm"}>>,
             <<Ending, "attributes", {"code"}>>}
    BY DEF Exposed
  <1>3. \A p, x : Excused("pwm_sys", p, x) <=> FALSE
    BY <1>1 DEF Excused
  <1>4. \A p, e, r : Except("pwm_sys", p, e, r) <=>
            \E x \in Exposed["pwm_sys"] : p \in x[1] /\ x[2] = e /\ r \in x[3]
    BY DEF Except
  <1> QED
    BY <1>1, <1>2, <1>3, <1>4

LEMMA PwmSysfsProbe ==
    \A k \in 1..Len(Driver["pwm_sys"].probe) : ProbeRule("pwm_sys", k)
  <1> DEFINE d == "pwm_sys"  p == Driver[d].probe  g == Given[d]  u == Upto[d]
  <1>t. /\ Early(d, 1) /\ Early(d, 3) /\ Early(d, 4) /\ Early(d, 5) /\ Early(d, 6)
    BY PwmSysfsTables DEF Early
  <1>1. ProbeRule(d, 1)
    <2>1. /\ p[1] = Check /\ Stays(d, 1)
      BY PwmSysfsCalls, PwmSysfsTables DEF Stays
    <2> QED
      BY <2>1, <1>t, CheckAt
  <1>2. ProbeRule(d, 2)
    <2>1. /\ p[2] = Unchecked("pins") /\ Stays(d, 2) /\ "pins" \notin Firm(d)
          /\ Passed(d, "pins")
      BY PwmSysfsCalls, PwmSysfsTables DEF Stays
    <2> QED
      BY <2>1, UncheckedAt
  <1>3. ProbeRule(d, 3)
    <2>1. /\ p[3] = Managed("dev") /\ Adds(d, 3, "dev") /\ "dev" \notin Firm(d)
      BY PwmSysfsCalls, PwmSysfsTables DEF Adds
    <2> QED
      BY <2>1, <1>t, ManagedAt
  <1>4. ProbeRule(d, 4)
    <2>1. /\ p[4] = Managed("pwm") /\ Adds(d, 4, "pwm") /\ "pwm" \notin Firm(d)
      BY PwmSysfsCalls, PwmSysfsTables DEF Adds
    <2> QED
      BY <2>1, <1>t, ManagedAt
  <1>5. ProbeRule(d, 5)
    <2>1. /\ p[5] = Check /\ Stays(d, 5)
      BY PwmSysfsCalls, PwmSysfsTables DEF Stays
    <2> QED
      BY <2>1, <1>t, CheckAt
  <1>6. ProbeRule(d, 6)
    <2>1. /\ p[6] = Get("attributes") /\ Stays(d, 6) /\ "attributes" \notin Firm(d)
      BY PwmSysfsCalls, PwmSysfsTables DEF Stays
    <2> QED
      BY <2>1, <1>t, GetAt
  <1> QED
    BY PwmSysfsCalls, UpTo6, <1>1, <1>2, <1>3, <1>4, <1>5, <1>6

LEMMA PwmSysfsRules == Rules("pwm_sys") /\ TypeRule("pwm_sys")
  <1> DEFINE d == "pwm_sys"  i == Driver[d].init  p == Driver[d].probe  r == Driver[d].remove
             x == Driver[d].exit  g == Given[d]
  <1> USE PwmSysfsTables
  <1>1. \A k \in 1..Len(i) : InitRule(d, k)
    BY PwmSysfsCalls, PwmSysfsNeeds, ModuleInitRules
  <1>2. IsSeq(i) /\ InitSure(d, "driver")
    BY PwmSysfsCalls, PwmSysfsNeeds, ModuleInitRules
  <1>3. \A k \in 1..Len(p) : ProbeRule(d, k)
    BY PwmSysfsProbe
  <1>4. \A y \in Sure[d] : Has(p, Len(p) + 1, y)
    <2>1. /\ Surely(p[3], "dev") /\ Surely(p[4], "pwm") /\ Len(p) = 6
      BY PwmSysfsCalls, Fields DEF Surely, Takes
    <2> QED
      BY <2>1 DEF Has
  <1>5. \A k \in 1..Len(x) : ExitRule(d, k)
    BY <1>2, PwmSysfsCalls, ModuleExitRules
  <1>6. /\ IsSeq(x)
        /\ \A y : Untouched(d, y)
    BY <1>2, PwmSysfsCalls, ModuleExitRules
  <1>7. \A k \in 1..Len(r) : RemoveRule(d, k)
    <2> USE PwmSysfsCalls, <1>6, Fields, Numbers, PwmSysfsExceptions
            DEF RemoveRule, ExcusedAfter, NotBefore, UndoOps, KeptBy, Drops, Releasing
    <2>1. RemoveRule(d, 1)
      BY SMTT(30)
    <2> HIDE DEF RemoveRule
    <2> QED
      BY UpTo1, <2>1
  <1>8. \A k \in 1..Len(g) : GivenRule(d, k)
    <2> USE <1>6, PwmSysfsCalls, Fields, Numbers, PwmSysfsExceptions
            DEF GivenRule, ExcusedAfter, NotBefore, KeptBy, Drops, Releasing
    <2>1. GivenRule(d, 1)
      BY SMTT(30)
    <2>2. GivenRule(d, 2)
      BY SMTT(30)
    <2> HIDE DEF GivenRule
    <2> QED
      BY UpTo2, <2>1, <2>2
  <1>9. \A e \in Transient[d] : EndRule(d, e)
    OBVIOUS
  <1>10. \A e \in Firm(d) : UnloadRule(d, e)
    OBVIOUS
  <1>11. \A e \in DOMAIN Driver[d].needs : NeedRule(d, e)
    <2>1. NeedRule(d, "attributes")
      BY <1>2, PwmSysfsNeeds, PwmSysfsExceptions DEF NeedRule, Unbound, Ending, Phases, KeptBy
    <2> QED
      BY <2>1, PwmSysfsNeeds
  <1>12. TypeRule(d)
    BY <1>2, <1>6, PwmSysfsCalls, PwmSysfsNeeds DEF TypeRule, KeptBy
  <1> QED
    BY <1>1, <1>3, <1>4, <1>5, <1>7, <1>8, <1>9, <1>10, <1>11, <1>12 DEF Rules

-----------------------------------------------------------------------------

LEMMA PwmWorkqueueCalls ==
    LET t == Driver["pwm_workqueue"]  p == t.probe  r == t.remove IN
    /\ t.init = ModuleInit
    /\ IsSeq(p)
    /\ Len(p) = 6 /\ p[1] = Check /\ p[2] = Managed("dev") /\ p[3] = Managed("pwm")
    /\ p[4] = Check /\ p[5] = Managed("input_dev") /\ p[6] = Managed("input")
    /\ IsSeq(r)
    /\ Len(r) = 0
    /\ t.exit = ModuleExit
  <1>1. Driver["pwm_workqueue"] = PwmWorkqueue
    BY DEF Driver
  <1> QED
    BY <1>1 DEF IsSeq, PwmWorkqueue

LEMMA PwmWorkqueueTables ==
    LET g == Given["pwm_workqueue"]  u == Upto["pwm_workqueue"] IN
    /\ IsSeq(g) /\ Len(g) = 4 /\ g[1] = "dev" /\ g[2] = "pwm" /\ g[3] = "input_dev"
    /\ g[4] = "input"
    /\ u[1] = 0 /\ u[2] = 0 /\ u[3] = 1 /\ u[4] = 2 /\ u[5] = 2 /\ u[6] = 3
    /\ u[7] = 4
    /\ Sure["pwm_workqueue"] = {"dev", "pwm", "input_dev", "input"}
    /\ Kept["pwm_workqueue"] = {}
    /\ Transient["pwm_workqueue"] = {"input"} /\ Lasting["pwm_workqueue"] = {}
    /\ Firm("pwm_workqueue") = {"input"}
  <1>1. Lasting["pwm_workqueue"] = {}
    BY DEF Lasting, Drivers, Driver
  <1> QED
    BY <1>1 DEF Given, Upto, Sure, Kept, Transient, Firm, IsSeq

LEMMA PwmWorkqueueNeeds ==
    LET n == Driver["pwm_workqueue"].needs IN
    /\ DOMAIN n = {"input", "work"}
    /\ n["input"] = {"dev", "input_dev", "code"}
    /\ n["work"] = {"dev", "pwm", "code"}
  <1> DEFINE E == {Entry("input", {"dev", "input_dev"}),
                    Entry("work", {"dev", "pwm"})}
  <1>1. Driver["pwm_workqueue"].needs = Needs(E)
    BY DEF Driver, PwmWorkqueue
  <1>2. E = {<<"input", {"dev", "input_dev", "code"}>>,
             <<"work", {"dev", "pwm", "code"}>>}
    BY DEF Entry
  <1> HIDE DEF E
  <1>3. DOMAIN Needs(E) = {"input", "work"}
    BY <1>2 DEF Needs
  <1>4. \A y, z \in E : y[1] = z[1] => y[2] = z[2]
    BY <1>2, SMTT(30)
  <1>5. \A y \in E : Needs(E)[y[1]] = y[2]
    BY <1>4, NeedsAre
  <1> QED
    BY <1>1, <1>2, <1>3, <1>5

LEMMA PwmWorkqueueExceptions ==
    /\ \A p, x : ~Excused("pwm_workqueue", p, x)
    /\ \A p, e, r : Except("pwm_workqueue", p, e, r) <=>
           \/ p \in Unbound /\ e = "work" /\ r \in {"dev", "pwm"}
           \/ p \in Ending /\ e = "work" /\ r = "code"
  <1>1. "pwm_workqueue" \notin DOMAIN Mishandled
    BY DEF Mishandled
  <1>2. Exposed["pwm_workqueue"] =
            {<<Unbound, "work", {"dev", "pwm"}>>,
             <<Ending, "work", {"code"}>>}
    BY DEF Exposed
  <1>3. \A p, x : Excused("pwm_workqueue", p, x) <=> FALSE
    BY <1>1 DEF Excused
  <1>4. \A p, e, r : Except("pwm_workqueue", p, e, r) <=>
            \E x \in Exposed["pwm_workqueue"] : p \in x[1] /\ x[2] = e /\ r \in x[3]
    BY DEF Except
  <1> QED
    BY <1>1, <1>2, <1>3, <1>4

LEMMA PwmWorkqueueProbe ==
    \A k \in 1..Len(Driver["pwm_workqueue"].probe) : ProbeRule("pwm_workqueue", k)
  <1> DEFINE d == "pwm_workqueue"  p == Driver[d].probe  g == Given[d]  u == Upto[d]
  <1>s. /\ Surely(p[2], "dev") /\ Surely(p[5], "input_dev")
    BY PwmWorkqueueCalls, Fields DEF Surely, Takes
  <1>h. /\ Has(p, 6, "dev") /\ Has(p, 6, "input_dev")
    BY <1>s DEF Has
  <1>t. /\ Early(d, 1) /\ Early(d, 2) /\ Early(d, 3) /\ Early(d, 4) /\ Early(d, 5)
        /\ Early(d, 6)
    <2>1. /\ p[1].x = "none" /\ p[2].x = "dev" /\ p[3].x = "pwm" /\ p[4].x = "none"
          /\ p[5].x = "input_dev"
      BY PwmWorkqueueCalls, Fields
    <2>2. \A j \in 1..5 : p[j].x \notin Transient[d]
      BY <2>1, PwmWorkqueueTables, UpTo5
    <2> QED
      BY <2>2 DEF Early
  <1>1. ProbeRule(d, 1)
    <2>1. /\ p[1] = Check /\ Stays(d, 1)
      BY PwmWorkqueueCalls, PwmWorkqueueTables DEF Stays
    <2> QED
      BY <2>1, <1>t, CheckAt
  <1>2. ProbeRule(d, 2)
    <2>1. /\ p[2] = Managed("dev") /\ Adds(d, 2, "dev") /\ "dev" \notin Firm(d)
      BY PwmWorkqueueCalls, PwmWorkqueueTables DEF Adds
    <2> QED
      BY <2>1, <1>t, ManagedAt
  <1>3. ProbeRule(d, 3)
    <2>1. /\ p[3] = Managed("pwm") /\ Adds(d, 3, "pwm") /\ "pwm" \notin Firm(d)
      BY PwmWorkqueueCalls, PwmWorkqueueTables DEF Adds
    <2> QED
      BY <2>1, <1>t, ManagedAt
  <1>4. ProbeRule(d, 4)
    <2>1. /\ p[4] = Check /\ Stays(d, 4)
      BY PwmWorkqueueCalls, PwmWorkqueueTables DEF Stays
    <2> QED
      BY <2>1, <1>t, CheckAt
  <1>5. ProbeRule(d, 5)
    <2>1. /\ p[5] = Managed("input_dev") /\ Adds(d, 5, "input_dev")
          /\ "input_dev" \notin Firm(d)
      BY PwmWorkqueueCalls, PwmWorkqueueTables DEF Adds
    <2> QED
      BY <2>1, <1>t, ManagedAt
  <1>6. ProbeRule(d, 6)
    <2>1. /\ p[6] = Managed("input") /\ Adds(d, 6, "input")
      BY PwmWorkqueueCalls, PwmWorkqueueTables DEF Adds
    <2>2. Backed(d, 6, "input")
      BY <1>h, PwmWorkqueueNeeds, SMTT(30) DEF Backed
    <2> QED
      BY <2>1, <2>2, <1>t, ManagedAt
  <1> QED
    BY PwmWorkqueueCalls, UpTo6, <1>1, <1>2, <1>3, <1>4, <1>5, <1>6

LEMMA PwmWorkqueueRules == Rules("pwm_workqueue") /\ TypeRule("pwm_workqueue")
  <1> DEFINE d == "pwm_workqueue"  i == Driver[d].init  p == Driver[d].probe  r == Driver[d].remove
             x == Driver[d].exit  g == Given[d]
  <1> USE PwmWorkqueueTables
  <1>1. \A k \in 1..Len(i) : InitRule(d, k)
    BY PwmWorkqueueCalls, PwmWorkqueueNeeds, ModuleInitRules
  <1>2. IsSeq(i) /\ InitSure(d, "driver")
    BY PwmWorkqueueCalls, PwmWorkqueueNeeds, ModuleInitRules
  <1>3. \A k \in 1..Len(p) : ProbeRule(d, k)
    BY PwmWorkqueueProbe
  <1>4. \A y \in Sure[d] : Has(p, Len(p) + 1, y)
    <2>1. /\ Surely(p[2], "dev") /\ Surely(p[3], "pwm") /\ Surely(p[5], "input_dev")
          /\ Surely(p[6], "input") /\ Len(p) = 6
      BY PwmWorkqueueCalls, Fields DEF Surely, Takes
    <2> QED
      BY <2>1 DEF Has
  <1>5. \A k \in 1..Len(x) : ExitRule(d, k)
    BY <1>2, PwmWorkqueueCalls, ModuleExitRules
  <1>6. /\ IsSeq(x)
        /\ \A y : Untouched(d, y)
    BY <1>2, PwmWorkqueueCalls, ModuleExitRules
  <1>7. \A k \in 1..Len(r) : RemoveRule(d, k)
    BY PwmWorkqueueCalls
  <1>8. \A k \in 1..Len(g) : GivenRule(d, k)
    <2> USE <1>6, PwmWorkqueueCalls, Fields, Numbers, PwmWorkqueueExceptions
            DEF GivenRule, ExcusedAfter, NotBefore, KeptBy, Drops, Releasing
    <2>1. GivenRule(d, 1)
      BY SMTT(30)
    <2>2. GivenRule(d, 2)
      BY SMTT(30)
    <2>3. GivenRule(d, 3)
      BY SMTT(30)
    <2>4. GivenRule(d, 4)
      BY SMTT(30)
    <2> HIDE DEF GivenRule
    <2> QED
      BY UpTo4, <2>1, <2>2, <2>3, <2>4
  <1>9. \A e \in Transient[d] : EndRule(d, e)
    <2>2. Len(r) = 0
      BY PwmWorkqueueCalls
    <2>3. \A y \in Driver[d].needs["input"] : NotBefore(r, 1, y)
      BY PwmWorkqueueNeeds DEF NotBefore
    <2>4. \A y \in Driver[d].needs["input"] : \A m \in 4..4 : g[m] # y
      BY PwmWorkqueueNeeds
    <2> QED
      BY <2>2, <2>3, <2>4 DEF EndRule
  <1>10. \A e \in Firm(d) : UnloadRule(d, e)
    BY PwmWorkqueueCalls, UnregisterEnds
  <1>11. \A e \in DOMAIN Driver[d].needs : NeedRule(d, e)
    <2>1. NeedRule(d, "input")
      BY <1>2, PwmWorkqueueNeeds, PwmWorkqueueExceptions DEF NeedRule, Unbound, Ending, Phases,
         KeptBy
    <2>2. NeedRule(d, "work")
      BY <1>2, PwmWorkqueueNeeds, PwmWorkqueueExceptions DEF NeedRule, Unbound, Ending, Phases,
         KeptBy
    <2> QED
      BY <2>1, <2>2, PwmWorkqueueNeeds
  <1>12. TypeRule(d)
    BY <1>2, <1>6, PwmWorkqueueCalls, PwmWorkqueueNeeds DEF TypeRule, KeptBy
  <1> QED
    BY <1>1, <1>3, <1>4, <1>5, <1>7, <1>8, <1>9, <1>10, <1>11, <1>12 DEF Rules

-----------------------------------------------------------------------------

LEMMA GpioIrqCalls ==
    LET t == Driver["gpio_irq"]  p == t.probe  r == t.remove IN
    /\ t.init = ClassInit
    /\ IsSeq(p)
    /\ Len(p) = 6 /\ p[1] = Check /\ p[2] = Unchecked("led")
    /\ p[3] = Unchecked("btn") /\ p[4] = GetOr("irq", <<Put("btn"), Put("led")>>)
    /\ p[5] = Call("get", "chrdev", "success", <<Put("btn"), Put("led"), Put("irq")>>)
    /\ p[6] = GetOr("node", <<Put("btn"), Put("led"), Put("irq")>>)
    /\ IsSeq(r)
    /\ Len(r) = 3 /\ r[1] = Put("irq") /\ r[2] = Put("btn") /\ r[3] = Put("led")
    /\ t.exit = ClassExit
  <1>1. Driver["gpio_irq"] = GpioIrq
    BY DEF Driver
  <1> QED
    BY <1>1 DEF IsSeq, GpioIrq, GpioIrqRemove

LEMMA GpioIrqTables ==
    LET g == Given["gpio_irq"]  u == Upto["gpio_irq"] IN
    /\ IsSeq(g) /\ Len(g) = 0
    /\ u[1] = 0 /\ u[2] = 0 /\ u[3] = 0 /\ u[4] = 0 /\ u[5] = 0 /\ u[6] = 0
    /\ u[7] = 0
    /\ Sure["gpio_irq"] = {} /\ Kept["gpio_irq"] = {"class"}
    /\ Transient["gpio_irq"] = {"irq"} /\ Lasting["gpio_irq"] = {}
    /\ Firm("gpio_irq") = {"irq"}
    /\ \A y : Passed("gpio_irq", y) <=> y \in {"led", "btn"}
  <1>1. Lasting["gpio_irq"] = {}
    BY DEF Lasting, Drivers, Driver
  <1> QED
    BY <1>1 DEF Given, Upto, Sure, Kept, Transient, Firm, IsSeq, Passed, Overlooked

LEMMA GpioIrqNeeds ==
    LET n == Driver["gpio_irq"].needs IN
    /\ DOMAIN n = {"irq", "chrdev"}
    /\ n["irq"] = {"btn", "code"}
    /\ n["chrdev"] = {"btn", "led", "code"}
  <1> DEFINE E == {Entry("irq", {"btn"}),
                    Entry("chrdev", {"btn", "led"})}
  <1>1. Driver["gpio_irq"].needs = Needs(E)
    BY DEF Driver, GpioIrq, GpioIrqRemove
  <1>2. E = {<<"irq", {"btn", "code"}>>,
             <<"chrdev", {"btn", "led", "code"}>>}
    BY DEF Entry
  <1> HIDE DEF E
  <1>3. DOMAIN Needs(E) = {"irq", "chrdev"}
    BY <1>2 DEF Needs
  <1>4. \A y, z \in E : y[1] = z[1] => y[2] = z[2]
    BY <1>2, SMTT(30)
  <1>5. \A y \in E : Needs(E)[y[1]] = y[2]
    BY <1>4, NeedsAre
  <1> QED
    BY <1>1, <1>2, <1>3, <1>5

LEMMA GpioIrqExceptions ==
    /\ \A p, x : Excused("gpio_irq", p, x) <=>
           \/ p \in Releasing /\ x \in {"irq", "btn", "led"}
    /\ \A p, e, r : Except("gpio_irq", p, e, r) <=>
           \/ p \in Phases /\ e = "chrdev" /\ r \in {"btn", "led"}
           \/ p \in Ending /\ e = "chrdev" /\ r = "code"
           \/ p \in {"probe", "failing"} /\ e = "irq" /\ r = "btn"
  <1>1. "gpio_irq" \in DOMAIN Mishandled /\ Mishandled["gpio_irq"] =
            {<<Releasing, {"irq", "btn", "led"}>>}
    BY DEF Mishandled
  <1>2. Exposed["gpio_irq"] =
            {<<Phases, "chrdev", {"btn", "led"}>>,
             <<Ending, "chrdev", {"code"}>>,
             <<{"probe", "failing"}, "irq", {"btn"}>>}
    BY DEF Exposed
  <1>3. \A p, x : Excused("gpio_irq", p, x) <=>
            \E m \in Mishandled["gpio_irq"] : p \in m[1] /\ x \in m[2]
    BY <1>1 DEF Excused
  <1>4. \A p, e, r : Except("gpio_irq", p, e, r) <=>
            \E x \in Exposed["gpio_irq"] : p \in x[1] /\ x[2] = e /\ r \in x[3]
    BY DEF Except
  <1> QED
    BY <1>1, <1>2, <1>3, <1>4

LEMMA GpioIrqProbe ==
    \A k \in 1..Len(Driver["gpio_irq"].probe) : ProbeRule("gpio_irq", k)
  <1> DEFINE d == "gpio_irq"  p == Driver[d].probe  g == Given[d]  u == Upto[d]
  <1>s. /\ Surely(p[3], "btn") /\ Surely(p[2], "led") /\ Surely(p[4], "irq")
    BY GpioIrqCalls, Fields DEF Surely, Takes
  <1>h. /\ Has(p, 4, "btn") /\ Has(p, 4, "led") /\ Has(p, 5, "btn")
        /\ Has(p, 5, "led") /\ Has(p, 5, "irq") /\ Has(p, 6, "btn")
        /\ Has(p, 6, "led") /\ Has(p, 6, "irq")
    BY <1>s DEF Has
  <1>c. /\ IsSeq(p[4].cleanup) /\ Len(p[4].cleanup) = 2
        /\ p[4].cleanup[1] = Put("btn") /\ p[4].cleanup[2] = Put("led")
        /\ IsSeq(p[5].cleanup) /\ Len(p[5].cleanup) = 3
        /\ p[5].cleanup[1] = Put("btn") /\ p[5].cleanup[2] = Put("led")
        /\ p[5].cleanup[3] = Put("irq") /\ IsSeq(p[6].cleanup)
        /\ Len(p[6].cleanup) = 3 /\ p[6].cleanup[1] = Put("btn")
        /\ p[6].cleanup[2] = Put("led") /\ p[6].cleanup[3] = Put("irq")
    BY GpioIrqCalls, Fields, ThreeCalls, TwoCalls
  <1>d. \A y : /\ (Drops(p[4].cleanup[1], y) <=> y = "btn")
              /\ (Drops(p[4].cleanup[2], y) <=> y = "led")
              /\ (Drops(p[5].cleanup[1], y) <=> y = "btn")
              /\ (Drops(p[5].cleanup[2], y) <=> y = "led")
              /\ (Drops(p[5].cleanup[3], y) <=> y = "irq")
              /\ (Drops(p[6].cleanup[1], y) <=> y = "btn")
              /\ (Drops(p[6].cleanup[2], y) <=> y = "led")
              /\ (Drops(p[6].cleanup[3], y) <=> y = "irq")
    BY <1>c, Fields DEF Drops
  <1>t. /\ Early(d, 1) /\ Early(d, 4)
    <2>1. /\ p[1].x = "none" /\ p[2].x = "led" /\ p[3].x = "btn"
      BY GpioIrqCalls, Fields
    <2>2. \A j \in 1..3 : p[j].x \notin Transient[d]
      BY <2>1, GpioIrqTables, UpTo3
    <2> QED
      BY <2>2 DEF Early
  <1>1. ProbeRule(d, 1)
    <2>1. /\ p[1] = Check /\ Stays(d, 1)
      BY GpioIrqCalls, GpioIrqTables DEF Stays
    <2> QED
      BY <2>1, <1>t, CheckAt
  <1>2. ProbeRule(d, 2)
    <2>1. /\ p[2] = Unchecked("led") /\ Stays(d, 2) /\ "led" \notin Firm(d)
          /\ Passed(d, "led")
      BY GpioIrqCalls, GpioIrqTables DEF Stays
    <2> QED
      BY <2>1, UncheckedAt
  <1>3. ProbeRule(d, 3)
    <2>1. /\ p[3] = Unchecked("btn") /\ Stays(d, 3) /\ "btn" \notin Firm(d)
          /\ Passed(d, "btn")
      BY GpioIrqCalls, GpioIrqTables DEF Stays
    <2> QED
      BY <2>1, UncheckedAt
  <1>4. ProbeRule(d, 4)
    <2>1. /\ p[4].op = "get" /\ p[4].x = "irq" /\ p[4].fails = "error"
          /\ Stays(d, 4) /\ u[4] = 0
      BY GpioIrqCalls, GpioIrqTables, Fields DEF Stays
    <2>n. /\ NotBefore(p[4].cleanup, 1, "btn") /\ NotBefore(p[4].cleanup, 2, "led")
      BY <1>d, UpTo1 DEF NotBefore
    <2>2. /\ "btn" \notin KeptBy(d) /\ "led" \notin KeptBy(d)
      BY GpioIrqTables DEF KeptBy
    <2>3. /\ CleanRule(d, "failing", p, 4, 1) /\ CleanRule(d, "failing", p, 4, 2)
      BY <2>n, <2>2, <1>h, <1>c, PutRule
    <2>4. Harmless(d, 4)
      <3>1. \A l \in 1..2 : CleanRule(d, "failing", p, 4, l)
        BY <2>3, UpTo2
      <3> QED
        BY <3>1, <2>1, <1>c DEF Harmless
    <2>5. Backed(d, 4, "irq")
      BY <1>h, GpioIrqNeeds, SMTT(30) DEF Backed
    <2> QED
      BY <2>1, <2>4, <1>t, <2>5, <1>c, CleanedAt
  <1>5. ProbeRule(d, 5)
    <2>1. /\ p[5].op = "get" /\ p[5].x = "chrdev" /\ p[5].fails = "success"
          /\ Stays(d, 5) /\ u[5] = 0 /\ Len(g) = 0 /\ "chrdev" \notin Firm(d)
      BY GpioIrqCalls, GpioIrqTables, Fields DEF Stays
    <2>n. /\ NotBefore(p[5].cleanup, 1, "btn") /\ NotBefore(p[5].cleanup, 2, "led")
          /\ NotBefore(p[5].cleanup, 3, "irq")
      BY <1>d, UpTo1 DEF NotBefore
    <2>2. /\ "btn" \notin KeptBy(d) /\ "led" \notin KeptBy(d)
          /\ "irq" \notin KeptBy(d)
      BY GpioIrqTables DEF KeptBy
    <2>3. /\ CleanRule(d, "failing", p, 5, 1) /\ CleanRule(d, "failing", p, 5, 2)
          /\ CleanRule(d, "failing", p, 5, 3) /\ CleanRule(d, "probe", p, 5, 1)
          /\ CleanRule(d, "probe", p, 5, 2) /\ CleanRule(d, "probe", p, 5, 3)
      BY <2>n, <2>2, <1>h, <1>c, PutRule
    <2>4. Harmless(d, 5)
      <3>1. \A l \in 1..3 : CleanRule(d, "failing", p, 5, l)
        BY <2>3, UpTo3
      <3> QED
        BY <3>1, <2>1, <1>c DEF Harmless
    <2>5. \A l \in 1..3 : CleanRule(d, "probe", p, 5, l)
      BY <2>3, UpTo3
    <2>6. \A y \in Driver[d].needs["irq"] :
           /\ y = "code" \/ Has(p, 5, y)
           /\ \A l \in 1..3 : Drops(p[5].cleanup[l], y) =>
                  Except(d, "probe", "irq", y) /\ Except(d, "failing", "irq", y)
      BY <1>d, <1>h, GpioIrqNeeds, GpioIrqExceptions, UpTo3
    <2>7. EndsWith(d, 5, "irq", 3)
      BY <2>6, <1>d DEF EndsWith
    <2>8. \A e \in Transient[d] : Ends(d, 5, e)
      BY <2>7, <1>c, GpioIrqTables DEF Ends
    <2> QED
      BY <2>1, <2>4, <2>5, <2>8, <1>c, GpioIrqTables, SwallowedAt
  <1>6. ProbeRule(d, 6)
    <2>1. /\ p[6].op = "get" /\ p[6].x = "node" /\ p[6].fails = "error"
          /\ Stays(d, 6) /\ u[6] = 0 /\ "node" \notin Firm(d)
      BY GpioIrqCalls, GpioIrqTables, Fields DEF Stays
    <2>n. /\ NotBefore(p[6].cleanup, 1, "btn") /\ NotBefore(p[6].cleanup, 2, "led")
          /\ NotBefore(p[6].cleanup, 3, "irq")
      BY <1>d, UpTo1 DEF NotBefore
    <2>2. /\ "btn" \notin KeptBy(d) /\ "led" \notin KeptBy(d)
          /\ "irq" \notin KeptBy(d)
      BY GpioIrqTables DEF KeptBy
    <2>3. /\ CleanRule(d, "failing", p, 6, 1) /\ CleanRule(d, "failing", p, 6, 2)
          /\ CleanRule(d, "failing", p, 6, 3)
      BY <2>n, <2>2, <1>h, <1>c, PutRule
    <2>4. Harmless(d, 6)
      <3>1. \A l \in 1..3 : CleanRule(d, "failing", p, 6, l)
        BY <2>3, UpTo3
      <3> QED
        BY <3>1, <2>1, <1>c DEF Harmless
    <2>5. \A y \in Driver[d].needs["irq"] :
           /\ y = "code" \/ Has(p, 6, y)
           /\ \A l \in 1..3 : Drops(p[6].cleanup[l], y) =>
                  Except(d, "probe", "irq", y) /\ Except(d, "failing", "irq", y)
      BY <1>d, <1>h, GpioIrqNeeds, GpioIrqExceptions, UpTo3
    <2>6. EndsWith(d, 6, "irq", 3)
      BY <2>5, <1>d DEF EndsWith
    <2>7. \A e \in Transient[d] : Ends(d, 6, e)
      BY <2>6, <1>c, GpioIrqTables DEF Ends
    <2> QED
      BY <2>1, <2>4, <2>7, <1>c, CleanedAt
  <1> QED
    BY GpioIrqCalls, UpTo6, <1>1, <1>2, <1>3, <1>4, <1>5, <1>6

LEMMA GpioIrqRules == Rules("gpio_irq") /\ TypeRule("gpio_irq")
  <1> DEFINE d == "gpio_irq"  i == Driver[d].init  p == Driver[d].probe  r == Driver[d].remove
             x == Driver[d].exit  g == Given[d]
  <1> USE GpioIrqTables
  <1>1. \A k \in 1..Len(i) : InitRule(d, k)
    BY GpioIrqCalls, GpioIrqNeeds, ClassInitRules
  <1>2. IsSeq(i) /\ InitSure(d, "class") /\ InitSure(d, "driver")
    BY GpioIrqCalls, GpioIrqNeeds, ClassInitRules
  <1>3. \A k \in 1..Len(p) : ProbeRule(d, k)
    BY GpioIrqProbe
  <1>4. \A y \in Sure[d] : Has(p, Len(p) + 1, y)
    OBVIOUS
  <1>5. \A k \in 1..Len(x) : ExitRule(d, k)
    BY <1>2, GpioIrqCalls, ClassExitRules
  <1>6. /\ IsSeq(x)
        /\ \A y : y # "class" => Untouched(d, y)
    BY <1>2, GpioIrqCalls, ClassExitRules
  <1>7. \A k \in 1..Len(r) : RemoveRule(d, k)
    <2> USE GpioIrqCalls, <1>6, Fields, Numbers, GpioIrqExceptions
            DEF RemoveRule, ExcusedAfter, NotBefore, UndoOps, KeptBy, Drops, Releasing
    <2>1. RemoveRule(d, 1)
      BY SMTT(30)
    <2>2. RemoveRule(d, 2)
      BY SMTT(30)
    <2>3. RemoveRule(d, 3)
      BY SMTT(30)
    <2> HIDE DEF RemoveRule
    <2> QED
      BY UpTo3, <2>1, <2>2, <2>3
  <1>8. \A k \in 1..Len(g) : GivenRule(d, k)
    OBVIOUS
  <1>9. \A e \in Transient[d] : EndRule(d, e)
    <2>1. \A y : (Drops(r[1], y) <=> y = "irq")
      BY GpioIrqCalls, Fields DEF Drops
    <2>2. Len(r) = 3
      BY GpioIrqCalls
    <2> QED
      BY <2>1, <2>2, GpioIrqNeeds, GpioIrqExceptions, UpTo1, SMTT(30)
         DEF EndRule, ExceptAfter
  <1>10. \A e \in Firm(d) : UnloadRule(d, e)
    BY GpioIrqCalls, UnregisterEnds
  <1>11. \A e \in DOMAIN Driver[d].needs : NeedRule(d, e)
    <2>1. NeedRule(d, "irq")
      BY <1>2, GpioIrqNeeds, GpioIrqExceptions DEF NeedRule, Unbound, Ending, Phases, KeptBy
    <2>2. NeedRule(d, "chrdev")
      BY <1>2, GpioIrqNeeds, GpioIrqExceptions DEF NeedRule, Unbound, Ending, Phases, KeptBy
    <2> QED
      BY <2>1, <2>2, GpioIrqNeeds
  <1>12. TypeRule(d)
    BY <1>2, <1>6, GpioIrqCalls, GpioIrqNeeds DEF TypeRule, KeptBy
  <1> QED
    BY <1>1, <1>3, <1>4, <1>5, <1>7, <1>8, <1>9, <1>10, <1>11, <1>12 DEF Rules

-----------------------------------------------------------------------------

LEMMA GpioInputCalls ==
    LET t == Driver["gpio_input"]  p == t.probe  r == t.remove IN
    /\ t.init = ModuleInit
    /\ IsSeq(p)
    /\ Len(p) = 5 /\ p[1] = Managed("dev") /\ p[2] = Get("input_dev")
    /\ p[3] = Get("gpio") /\ p[4] = GetOr("input", <<Put("input_dev")>>)
    /\ p[5] = GetOr("irq", <<Put("gpio"), Put("input_dev")>>)
    /\ IsSeq(r)
    /\ Len(r) = 5 /\ r[1] = Put("input") /\ r[2] = Put("input_dev")
    /\ r[3] = Put("input_dev") /\ r[4] = Put("irq") /\ r[5] = Put("gpio")
    /\ t.exit = ModuleExit
  <1>1. Driver["gpio_input"] = GpioInput
    BY DEF Driver
  <1> QED
    BY <1>1 DEF IsSeq, GpioInput

LEMMA GpioInputTables ==
    LET g == Given["gpio_input"]  u == Upto["gpio_input"] IN
    /\ IsSeq(g) /\ Len(g) = 1 /\ g[1] = "dev"
    /\ u[1] = 0 /\ u[2] = 1 /\ u[3] = 1 /\ u[4] = 1 /\ u[5] = 1 /\ u[6] = 1
    /\ Sure["gpio_input"] = {"dev", "input_dev", "gpio", "input", "irq"}
    /\ Kept["gpio_input"] = {}
    /\ Transient["gpio_input"] = {"irq"} /\ Lasting["gpio_input"] = {}
    /\ Firm("gpio_input") = {"irq"}
  <1>1. Lasting["gpio_input"] = {}
    BY DEF Lasting, Drivers, Driver
  <1> QED
    BY <1>1 DEF Given, Upto, Sure, Kept, Transient, Firm, IsSeq

LEMMA GpioInputNeeds ==
    LET n == Driver["gpio_input"].needs IN
    /\ DOMAIN n = {"input", "irq"}
    /\ n["input"] = {"input_dev", "code"}
    /\ n["irq"] = {"dev", "input_dev", "gpio", "code"}
  <1> DEFINE E == {Entry("input", {"input_dev"}),
                    Entry("irq", {"dev", "input_dev", "gpio"})}
  <1>1. Driver["gpio_input"].needs = Needs(E)
    BY DEF Driver, GpioInput
  <1>2. E = {<<"input", {"input_dev", "code"}>>,
             <<"irq", {"dev", "input_dev", "gpio", "code"}>>}
    BY DEF Entry
  <1> HIDE DEF E
  <1>3. DOMAIN Needs(E) = {"input", "irq"}
    BY <1>2 DEF Needs
  <1>4. \A y, z \in E : y[1] = z[1] => y[2] = z[2]
    BY <1>2, SMTT(30)
  <1>5. \A y \in E : Needs(E)[y[1]] = y[2]
    BY <1>4, NeedsAre
  <1> QED
    BY <1>1, <1>2, <1>3, <1>5

LEMMA GpioInputExceptions ==
    /\ \A p, x : Excused("gpio_input", p, x) <=>
           \/ p \in Releasing /\ x = "input_dev"
    /\ \A p, e, r : Except("gpio_input", p, e, r) <=>
           \/ p \in Unbound /\ e = "input" /\ r = "input_dev"
           \/ p \in Ending /\ e = "input" /\ r = "code"
           \/ p \in {"remove", "exit"} /\ e = "irq" /\ r = "input_dev"
  <1>1. "gpio_input" \in DOMAIN Mishandled /\ Mishandled["gpio_input"] =
            {<<Releasing, {"input_dev"}>>}
    BY DEF Mishandled
  <1>2. Exposed["gpio_input"] =
            {<<Unbound, "input", {"input_dev"}>>,
             <<Ending, "input", {"code"}>>,
             <<{"remove", "exit"}, "irq", {"input_dev"}>>}
    BY DEF Exposed
  <1>3. \A p, x : Excused("gpio_input", p, x) <=>
            \E m \in Mishandled["gpio_input"] : p \in m[1] /\ x \in m[2]
    BY <1>1 DEF Excused
  <1>4. \A p, e, r : Except("gpio_input", p, e, r) <=>
            \E x \in Exposed["gpio_input"] : p \in x[1] /\ x[2] = e /\ r \in x[3]
    BY DEF Except
  <1> QED
    BY <1>1, <1>2, <1>3, <1>4

LEMMA GpioInputProbe ==
    \A k \in 1..Len(Driver["gpio_input"].probe) : ProbeRule("gpio_input", k)
  <1> DEFINE d == "gpio_input"  p == Driver[d].probe  g == Given[d]  u == Upto[d]
  <1>s. /\ Surely(p[2], "input_dev") /\ Surely(p[1], "dev") /\ Surely(p[3], "gpio")
    BY GpioInputCalls, Fields DEF Surely, Takes
  <1>h. /\ Has(p, 4, "input_dev") /\ Has(p, 5, "dev") /\ Has(p, 5, "input_dev")
        /\ Has(p, 5, "gpio")
    BY <1>s DEF Has
  <1>c. /\ IsSeq(p[4].cleanup) /\ Len(p[4].cleanup) = 1
        /\ p[4].cleanup[1] = Put("input_dev") /\ IsSeq(p[5].cleanup)
        /\ Len(p[5].cleanup) = 2 /\ p[5].cleanup[1] = Put("gpio")
        /\ p[5].cleanup[2] = Put("input_dev")
    BY GpioInputCalls, Fields, OneCall, TwoCalls
  <1>d. \A y : /\ (Drops(p[4].cleanup[1], y) <=> y = "input_dev")
              /\ (Drops(p[5].cleanup[1], y) <=> y = "gpio")
              /\ (Drops(p[5].cleanup[2], y) <=> y = "input_dev")
    BY <1>c, Fields DEF Drops
  <1>t. /\ Early(d, 1) /\ Early(d, 2) /\ Early(d, 3) /\ Early(d, 4) /\ Early(d, 5)
    <2>1. /\ p[1].x = "dev" /\ p[2].x = "input_dev" /\ p[3].x = "gpio"
          /\ p[4].x = "input"
      BY GpioInputCalls, Fields
    <2>2. \A j \in 1..4 : p[j].x \notin Transient[d]
      BY <2>1, GpioInputTables, UpTo4
    <2> QED
      BY <2>2 DEF Early
  <1>1. ProbeRule(d, 1)
    <2>1. /\ p[1] = Managed("dev") /\ Adds(d, 1, "dev") /\ "dev" \notin Firm(d)
      BY GpioInputCalls, GpioInputTables DEF Adds
    <2> QED
      BY <2>1, <1>t, ManagedAt
  <1>2. ProbeRule(d, 2)
    <2>1. /\ p[2] = Get("input_dev") /\ Stays(d, 2) /\ "input_dev" \notin Firm(d)
      BY GpioInputCalls, GpioInputTables DEF Stays
    <2> QED
      BY <2>1, <1>t, GetAt
  <1>3. ProbeRule(d, 3)
    <2>1. /\ p[3] = Get("gpio") /\ Stays(d, 3) /\ "gpio" \notin Firm(d)
      BY GpioInputCalls, GpioInputTables DEF Stays
    <2> QED
      BY <2>1, <1>t, GetAt
  <1>4. ProbeRule(d, 4)
    <2>1. /\ p[4].op = "get" /\ p[4].x = "input" /\ p[4].fails = "error"
          /\ Stays(d, 4) /\ u[4] = 1 /\ "input" \notin Firm(d)
      BY GpioInputCalls, GpioInputTables, Fields DEF Stays
    <2>n. NotBefore(p[4].cleanup, 1, "input_dev")
      BY <1>d DEF NotBefore
    <2>2. "input_dev" \notin KeptBy(d)
      BY GpioInputTables DEF KeptBy
    <2>3. CleanRule(d, "failing", p, 4, 1)
      BY <2>n, <2>2, <1>h, <1>c, PutRule
    <2>4. Harmless(d, 4)
      <3>1. \A l \in 1..1 : CleanRule(d, "failing", p, 4, l)
        BY <2>3, UpTo1
      <3>2. \A l \in 1..1 : \A n \in 1..1 :
              Drops(p[4].cleanup[l], g[n]) => Excused(d, "failing", g[n])
        BY <1>d, UpTo1, GpioInputTables, GpioInputExceptions
      <3> QED
        BY <3>1, <2>1, <1>c, <3>2 DEF Harmless
    <2> QED
      BY <2>1, <2>4, <1>t, <1>c, CleanedAt
  <1>5. ProbeRule(d, 5)
    <2>1. /\ p[5].op = "get" /\ p[5].x = "irq" /\ p[5].fails = "error"
          /\ Stays(d, 5) /\ u[5] = 1
      BY GpioInputCalls, GpioInputTables, Fields DEF Stays
    <2>n. /\ NotBefore(p[5].cleanup, 1, "gpio")
          /\ NotBefore(p[5].cleanup, 2, "input_dev")
      BY <1>d, UpTo1 DEF NotBefore
    <2>2. /\ "gpio" \notin KeptBy(d) /\ "input_dev" \notin KeptBy(d)
      BY GpioInputTables DEF KeptBy
    <2>3. /\ CleanRule(d, "failing", p, 5, 1) /\ CleanRule(d, "failing", p, 5, 2)
      BY <2>n, <2>2, <1>h, <1>c, PutRule
    <2>4. Harmless(d, 5)
      <3>1. \A l \in 1..2 : CleanRule(d, "failing", p, 5, l)
        BY <2>3, UpTo2
      <3>2. \A l \in 1..2 : \A n \in 1..1 :
              Drops(p[5].cleanup[l], g[n]) => Excused(d, "failing", g[n])
        BY <1>d, UpTo1, UpTo2, GpioInputTables, GpioInputExceptions
      <3> QED
        BY <3>1, <2>1, <1>c, <3>2 DEF Harmless
    <2>5. Backed(d, 5, "irq")
      BY <1>h, GpioInputNeeds, SMTT(30) DEF Backed
    <2> QED
      BY <2>1, <2>4, <1>t, <2>5, <1>c, CleanedAt
  <1> QED
    BY GpioInputCalls, UpTo5, <1>1, <1>2, <1>3, <1>4, <1>5

LEMMA GpioInputRules == Rules("gpio_input") /\ TypeRule("gpio_input")
  <1> DEFINE d == "gpio_input"  i == Driver[d].init  p == Driver[d].probe  r == Driver[d].remove
             x == Driver[d].exit  g == Given[d]
  <1> USE GpioInputTables
  <1>1. \A k \in 1..Len(i) : InitRule(d, k)
    BY GpioInputCalls, GpioInputNeeds, ModuleInitRules
  <1>2. IsSeq(i) /\ InitSure(d, "driver")
    BY GpioInputCalls, GpioInputNeeds, ModuleInitRules
  <1>3. \A k \in 1..Len(p) : ProbeRule(d, k)
    BY GpioInputProbe
  <1>4. \A y \in Sure[d] : Has(p, Len(p) + 1, y)
    <2>1. /\ Surely(p[1], "dev") /\ Surely(p[2], "input_dev") /\ Surely(p[3], "gpio")
          /\ Surely(p[4], "input") /\ Surely(p[5], "irq") /\ Len(p) = 5
      BY GpioInputCalls, Fields DEF Surely, Takes
    <2> QED
      BY <2>1 DEF Has
  <1>5. \A k \in 1..Len(x) : ExitRule(d, k)
    BY <1>2, GpioInputCalls, ModuleExitRules
  <1>6. /\ IsSeq(x)
        /\ \A y : Untouched(d, y)
    BY <1>2, GpioInputCalls, ModuleExitRules
  <1>7. \A k \in 1..Len(r) : RemoveRule(d, k)
    <2> USE GpioInputCalls, <1>6, Fields, Numbers, GpioInputExceptions
            DEF RemoveRule, ExcusedAfter, NotBefore, UndoOps, KeptBy, Drops, Releasing
    <2>1. RemoveRule(d, 1)
      BY SMTT(30)
    <2>2. RemoveRule(d, 2)
      BY SMTT(30)
    <2>3. RemoveRule(d, 3)
      BY SMTT(30)
    <2>4. RemoveRule(d, 4)
      BY SMTT(30)
    <2>5. RemoveRule(d, 5)
      BY SMTT(30)
    <2> HIDE DEF RemoveRule
    <2> QED
      BY UpTo5, <2>1, <2>2, <2>3, <2>4, <2>5
  <1>8. \A k \in 1..Len(g) : GivenRule(d, k)
    <2> USE <1>6, GpioInputCalls, Fields, Numbers, GpioInputExceptions
            DEF GivenRule, ExcusedAfter, NotBefore, KeptBy, Drops, Releasing
    <2>1. GivenRule(d, 1)
      BY SMTT(30)
    <2> HIDE DEF GivenRule
    <2> QED
      BY UpTo1, <2>1
  <1>9. \A e \in Transient[d] : EndRule(d, e)
    <2>1. \A y : /\ (Drops(r[1], y) <=> y = "input")
                /\ (Drops(r[2], y) <=> y = "input_dev")
                /\ (Drops(r[3], y) <=> y = "input_dev")
                /\ (Drops(r[4], y) <=> y = "irq")
      BY GpioInputCalls, Fields DEF Drops
    <2>2. Len(r) = 5
      BY GpioInputCalls
    <2> QED
      BY <2>1, <2>2, GpioInputNeeds, GpioInputExceptions, UpTo4, SMTT(30)
         DEF EndRule, ExceptAfter
  <1>10. \A e \in Firm(d) : UnloadRule(d, e)
    BY GpioInputCalls, UnregisterEnds
  <1>11. \A e \in DOMAIN Driver[d].needs : NeedRule(d, e)
    <2>1. NeedRule(d, "input")
      BY <1>2, GpioInputNeeds, GpioInputExceptions DEF NeedRule, Unbound, Ending, Phases, KeptBy
    <2>2. NeedRule(d, "irq")
      BY <1>2, GpioInputNeeds, GpioInputExceptions DEF NeedRule, Unbound, Ending, Phases, KeptBy
    <2> QED
      BY <2>1, <2>2, GpioInputNeeds
  <1>12. TypeRule(d)
    BY <1>2, <1>6, GpioInputCalls, GpioInputNeeds DEF TypeRule, KeptBy
  <1> QED
    BY <1>1, <1>3, <1>4, <1>5, <1>7, <1>8, <1>9, <1>10, <1>11, <1>12 DEF Rules

-----------------------------------------------------------------------------

LEMMA ExampleI2cCalls ==
    LET t == Driver["example_i2c"]  p == t.probe  r == t.remove IN
    /\ t.init = ModuleInit
    /\ IsSeq(p)
    /\ Len(p) = 5 /\ p[1] = Managed("dev") /\ p[2] = Check /\ p[3] = Managed("gpio")
    /\ p[4] = Check /\ p[5] = Managed("irq")
    /\ IsSeq(r)
    /\ Len(r) = 0
    /\ t.exit = ModuleExit
  <1>1. Driver["example_i2c"] = ExampleI2c
    BY DEF Driver
  <1> QED
    BY <1>1 DEF IsSeq, ExampleI2c

LEMMA ExampleI2cTables ==
    LET g == Given["example_i2c"]  u == Upto["example_i2c"] IN
    /\ IsSeq(g) /\ Len(g) = 3 /\ g[1] = "dev" /\ g[2] = "gpio" /\ g[3] = "irq"
    /\ u[1] = 0 /\ u[2] = 1 /\ u[3] = 1 /\ u[4] = 2 /\ u[5] = 2 /\ u[6] = 3
    /\ Sure["example_i2c"] = {"dev", "gpio", "irq"} /\ Kept["example_i2c"] = {}
    /\ Transient["example_i2c"] = {"irq"} /\ Lasting["example_i2c"] = {}
    /\ Firm("example_i2c") = {"irq"}
  <1>1. Lasting["example_i2c"] = {}
    BY DEF Lasting, Drivers, Driver
  <1> QED
    BY <1>1 DEF Given, Upto, Sure, Kept, Transient, Firm, IsSeq

LEMMA ExampleI2cNeeds ==
    LET n == Driver["example_i2c"].needs IN
    /\ DOMAIN n = {"irq"}
    /\ n["irq"] = {"dev", "gpio", "code"}
  <1> DEFINE E == {Entry("irq", {"dev", "gpio"})}
  <1>1. Driver["example_i2c"].needs = Needs(E)
    BY DEF Driver, ExampleI2c
  <1>2. E = {<<"irq", {"dev", "gpio", "code"}>>}
    BY DEF Entry
  <1> HIDE DEF E
  <1>3. DOMAIN Needs(E) = {"irq"}
    BY <1>2 DEF Needs
  <1>4. \A y, z \in E : y[1] = z[1] => y[2] = z[2]
    BY <1>2, SMTT(30)
  <1>5. \A y \in E : Needs(E)[y[1]] = y[2]
    BY <1>4, NeedsAre
  <1> QED
    BY <1>1, <1>2, <1>3, <1>5

LEMMA ExampleI2cExceptions ==
    /\ \A p, x : ~Excused("example_i2c", p, x)
    /\ \A p, e, r : ~Except("example_i2c", p, e, r)
  <1>1. "example_i2c" \notin DOMAIN Mishandled
    BY DEF Mishandled
  <1>2. Exposed["example_i2c"] =
            {}
    BY DEF Exposed
  <1>3. \A p, x : Excused("example_i2c", p, x) <=> FALSE
    BY <1>1 DEF Excused
  <1>4. \A p, e, r : Except("example_i2c", p, e, r) <=>
            \E x \in Exposed["example_i2c"] : p \in x[1] /\ x[2] = e /\ r \in x[3]
    BY DEF Except
  <1> QED
    BY <1>1, <1>2, <1>3, <1>4

LEMMA ExampleI2cProbe ==
    \A k \in 1..Len(Driver["example_i2c"].probe) : ProbeRule("example_i2c", k)
  <1> DEFINE d == "example_i2c"  p == Driver[d].probe  g == Given[d]  u == Upto[d]
  <1>s. /\ Surely(p[1], "dev") /\ Surely(p[3], "gpio")
    BY ExampleI2cCalls, Fields DEF Surely, Takes
  <1>h. /\ Has(p, 5, "dev") /\ Has(p, 5, "gpio")
    BY <1>s DEF Has
  <1>t. /\ Early(d, 1) /\ Early(d, 2) /\ Early(d, 3) /\ Early(d, 4) /\ Early(d, 5)
    <2>1. /\ p[1].x = "dev" /\ p[2].x = "none" /\ p[3].x = "gpio" /\ p[4].x = "none"
      BY ExampleI2cCalls, Fields
    <2>2. \A j \in 1..4 : p[j].x \notin Transient[d]
      BY <2>1, ExampleI2cTables, UpTo4
    <2> QED
      BY <2>2 DEF Early
  <1>1. ProbeRule(d, 1)
    <2>1. /\ p[1] = Managed("dev") /\ Adds(d, 1, "dev") /\ "dev" \notin Firm(d)
      BY ExampleI2cCalls, ExampleI2cTables DEF Adds
    <2> QED
      BY <2>1, <1>t, ManagedAt
  <1>2. ProbeRule(d, 2)
    <2>1. /\ p[2] = Check /\ Stays(d, 2)
      BY ExampleI2cCalls, ExampleI2cTables DEF Stays
    <2> QED
      BY <2>1, <1>t, CheckAt
  <1>3. ProbeRule(d, 3)
    <2>1. /\ p[3] = Managed("gpio") /\ Adds(d, 3, "gpio") /\ "gpio" \notin Firm(d)
      BY ExampleI2cCalls, ExampleI2cTables DEF Adds
    <2> QED
      BY <2>1, <1>t, ManagedAt
  <1>4. ProbeRule(d, 4)
    <2>1. /\ p[4] = Check /\ Stays(d, 4)
      BY ExampleI2cCalls, ExampleI2cTables DEF Stays
    <2> QED
      BY <2>1, <1>t, CheckAt
  <1>5. ProbeRule(d, 5)
    <2>1. /\ p[5] = Managed("irq") /\ Adds(d, 5, "irq")
      BY ExampleI2cCalls, ExampleI2cTables DEF Adds
    <2>2. Backed(d, 5, "irq")
      BY <1>h, ExampleI2cNeeds, SMTT(30) DEF Backed
    <2> QED
      BY <2>1, <2>2, <1>t, ManagedAt
  <1> QED
    BY ExampleI2cCalls, UpTo5, <1>1, <1>2, <1>3, <1>4, <1>5

LEMMA ExampleI2cRules == Rules("example_i2c") /\ TypeRule("example_i2c")
  <1> DEFINE d == "example_i2c"  i == Driver[d].init  p == Driver[d].probe  r == Driver[d].remove
             x == Driver[d].exit  g == Given[d]
  <1> USE ExampleI2cTables
  <1>1. \A k \in 1..Len(i) : InitRule(d, k)
    BY ExampleI2cCalls, ExampleI2cNeeds, ModuleInitRules
  <1>2. IsSeq(i) /\ InitSure(d, "driver")
    BY ExampleI2cCalls, ExampleI2cNeeds, ModuleInitRules
  <1>3. \A k \in 1..Len(p) : ProbeRule(d, k)
    BY ExampleI2cProbe
  <1>4. \A y \in Sure[d] : Has(p, Len(p) + 1, y)
    <2>1. /\ Surely(p[1], "dev") /\ Surely(p[3], "gpio") /\ Surely(p[5], "irq")
          /\ Len(p) = 5
      BY ExampleI2cCalls, Fields DEF Surely, Takes
    <2> QED
      BY <2>1 DEF Has
  <1>5. \A k \in 1..Len(x) : ExitRule(d, k)
    BY <1>2, ExampleI2cCalls, ModuleExitRules
  <1>6. /\ IsSeq(x)
        /\ \A y : Untouched(d, y)
    BY <1>2, ExampleI2cCalls, ModuleExitRules
  <1>7. \A k \in 1..Len(r) : RemoveRule(d, k)
    BY ExampleI2cCalls
  <1>8. \A k \in 1..Len(g) : GivenRule(d, k)
    <2> USE <1>6, ExampleI2cCalls, Fields, Numbers, ExampleI2cExceptions
            DEF GivenRule, ExcusedAfter, NotBefore, KeptBy, Drops, Releasing
    <2>1. GivenRule(d, 1)
      BY SMTT(30)
    <2>2. GivenRule(d, 2)
      BY SMTT(30)
    <2>3. GivenRule(d, 3)
      BY SMTT(30)
    <2> HIDE DEF GivenRule
    <2> QED
      BY UpTo3, <2>1, <2>2, <2>3
  <1>9. \A e \in Transient[d] : EndRule(d, e)
    <2>2. Len(r) = 0
      BY ExampleI2cCalls
    <2>3. \A y \in Driver[d].needs["irq"] : NotBefore(r, 1, y)
      BY ExampleI2cNeeds DEF NotBefore
    <2>4. \A y \in Driver[d].needs["irq"] : \A m \in 3..3 : g[m] # y
      BY ExampleI2cNeeds
    <2> QED
      BY <2>2, <2>3, <2>4 DEF EndRule
  <1>10. \A e \in Firm(d) : UnloadRule(d, e)
    BY ExampleI2cCalls, UnregisterEnds
  <1>11. \A e \in DOMAIN Driver[d].needs : NeedRule(d, e)
    <2>1. NeedRule(d, "irq")
      BY <1>2, ExampleI2cNeeds, ExampleI2cExceptions DEF NeedRule, Unbound, Ending, Phases,
         KeptBy
    <2> QED
      BY <2>1, ExampleI2cNeeds
  <1>12. TypeRule(d)
    BY <1>2, <1>6, ExampleI2cCalls, ExampleI2cNeeds DEF TypeRule, KeptBy
  <1> QED
    BY <1>1, <1>3, <1>4, <1>5, <1>7, <1>8, <1>9, <1>10, <1>11, <1>12 DEF Rules

-----------------------------------------------------------------------------

LEMMA Example2I2cCalls ==
    LET t == Driver["example2_i2c"]  p == t.probe  r == t.remove IN
    /\ t.init = ModuleInit
    /\ IsSeq(p)
    /\ Len(p) = 4 /\ p[1] = Managed("dev") /\ p[2] = Managed("gpio") /\ p[3] = Check
    /\ p[4] = Managed("irq")
    /\ IsSeq(r)
    /\ Len(r) = 0
    /\ t.exit = ModuleExit
  <1>1. Driver["example2_i2c"] = Example2I2c
    BY DEF Driver
  <1>2. /\ Example2I2c.init = ModuleInit /\ Example2I2c.exit = ModuleExit
        /\ Example2I2c.remove = <<>>
        /\ Example2I2c.probe = <<Managed("dev"), Managed("gpio"), Check, Managed("irq")>>
    BY DEF Example2I2c, ExampleI2c
  <1> QED
    BY <1>1, <1>2 DEF IsSeq

LEMMA Example2I2cTables ==
    LET g == Given["example2_i2c"]  u == Upto["example2_i2c"] IN
    /\ IsSeq(g) /\ Len(g) = 3 /\ g[1] = "dev" /\ g[2] = "gpio" /\ g[3] = "irq"
    /\ u[1] = 0 /\ u[2] = 1 /\ u[3] = 2 /\ u[4] = 2 /\ u[5] = 3
    /\ Sure["example2_i2c"] = {"dev", "gpio", "irq"} /\ Kept["example2_i2c"] = {}
    /\ Transient["example2_i2c"] = {"irq"} /\ Lasting["example2_i2c"] = {}
    /\ Firm("example2_i2c") = {"irq"}
  <1>1. Lasting["example2_i2c"] = {}
    BY DEF Lasting, Drivers, Driver
  <1> QED
    BY <1>1 DEF Given, Upto, Sure, Kept, Transient, Firm, IsSeq

LEMMA Example2I2cNeeds ==
    LET n == Driver["example2_i2c"].needs IN
    /\ DOMAIN n = {"irq"}
    /\ n["irq"] = {"dev", "gpio", "code"}
  <1> DEFINE E == {Entry("irq", {"dev", "gpio"})}
  <1>1. Driver["example2_i2c"].needs = Needs(E)
    BY DEF Driver, Example2I2c, ExampleI2c
  <1>2. E = {<<"irq", {"dev", "gpio", "code"}>>}
    BY DEF Entry
  <1> HIDE DEF E
  <1>3. DOMAIN Needs(E) = {"irq"}
    BY <1>2 DEF Needs
  <1>4. \A y, z \in E : y[1] = z[1] => y[2] = z[2]
    BY <1>2, SMTT(30)
  <1>5. \A y \in E : Needs(E)[y[1]] = y[2]
    BY <1>4, NeedsAre
  <1> QED
    BY <1>1, <1>2, <1>3, <1>5

LEMMA Example2I2cExceptions ==
    /\ \A p, x : ~Excused("example2_i2c", p, x)
    /\ \A p, e, r : ~Except("example2_i2c", p, e, r)
  <1>1. "example2_i2c" \notin DOMAIN Mishandled
    BY DEF Mishandled
  <1>2. Exposed["example2_i2c"] =
            {}
    BY DEF Exposed
  <1>3. \A p, x : Excused("example2_i2c", p, x) <=> FALSE
    BY <1>1 DEF Excused
  <1>4. \A p, e, r : Except("example2_i2c", p, e, r) <=>
            \E x \in Exposed["example2_i2c"] : p \in x[1] /\ x[2] = e /\ r \in x[3]
    BY DEF Except
  <1> QED
    BY <1>1, <1>2, <1>3, <1>4

LEMMA Example2I2cProbe ==
    \A k \in 1..Len(Driver["example2_i2c"].probe) : ProbeRule("example2_i2c", k)
  <1> DEFINE d == "example2_i2c"  p == Driver[d].probe  g == Given[d]  u == Upto[d]
  <1>s. /\ Surely(p[1], "dev") /\ Surely(p[2], "gpio")
    BY Example2I2cCalls, Fields DEF Surely, Takes
  <1>h. /\ Has(p, 4, "dev") /\ Has(p, 4, "gpio")
    BY <1>s DEF Has
  <1>t. /\ Early(d, 1) /\ Early(d, 2) /\ Early(d, 3) /\ Early(d, 4)
    <2>1. /\ p[1].x = "dev" /\ p[2].x = "gpio" /\ p[3].x = "none"
      BY Example2I2cCalls, Fields
    <2>2. \A j \in 1..3 : p[j].x \notin Transient[d]
      BY <2>1, Example2I2cTables, UpTo3
    <2> QED
      BY <2>2 DEF Early
  <1>1. ProbeRule(d, 1)
    <2>1. /\ p[1] = Managed("dev") /\ Adds(d, 1, "dev") /\ "dev" \notin Firm(d)
      BY Example2I2cCalls, Example2I2cTables DEF Adds
    <2> QED
      BY <2>1, <1>t, ManagedAt
  <1>2. ProbeRule(d, 2)
    <2>1. /\ p[2] = Managed("gpio") /\ Adds(d, 2, "gpio") /\ "gpio" \notin Firm(d)
      BY Example2I2cCalls, Example2I2cTables DEF Adds
    <2> QED
      BY <2>1, <1>t, ManagedAt
  <1>3. ProbeRule(d, 3)
    <2>1. /\ p[3] = Check /\ Stays(d, 3)
      BY Example2I2cCalls, Example2I2cTables DEF Stays
    <2> QED
      BY <2>1, <1>t, CheckAt
  <1>4. ProbeRule(d, 4)
    <2>1. /\ p[4] = Managed("irq") /\ Adds(d, 4, "irq")
      BY Example2I2cCalls, Example2I2cTables DEF Adds
    <2>2. Backed(d, 4, "irq")
      BY <1>h, Example2I2cNeeds, SMTT(30) DEF Backed
    <2> QED
      BY <2>1, <2>2, <1>t, ManagedAt
  <1> QED
    BY Example2I2cCalls, UpTo4, <1>1, <1>2, <1>3, <1>4

LEMMA Example2I2cRules == Rules("example2_i2c") /\ TypeRule("example2_i2c")
  <1> DEFINE d == "example2_i2c"  i == Driver[d].init  p == Driver[d].probe  r == Driver[d].remove
             x == Driver[d].exit  g == Given[d]
  <1> USE Example2I2cTables
  <1>1. \A k \in 1..Len(i) : InitRule(d, k)
    BY Example2I2cCalls, Example2I2cNeeds, ModuleInitRules
  <1>2. IsSeq(i) /\ InitSure(d, "driver")
    BY Example2I2cCalls, Example2I2cNeeds, ModuleInitRules
  <1>3. \A k \in 1..Len(p) : ProbeRule(d, k)
    BY Example2I2cProbe
  <1>4. \A y \in Sure[d] : Has(p, Len(p) + 1, y)
    <2>1. /\ Surely(p[1], "dev") /\ Surely(p[2], "gpio") /\ Surely(p[4], "irq")
          /\ Len(p) = 4
      BY Example2I2cCalls, Fields DEF Surely, Takes
    <2> QED
      BY <2>1 DEF Has
  <1>5. \A k \in 1..Len(x) : ExitRule(d, k)
    BY <1>2, Example2I2cCalls, ModuleExitRules
  <1>6. /\ IsSeq(x)
        /\ \A y : Untouched(d, y)
    BY <1>2, Example2I2cCalls, ModuleExitRules
  <1>7. \A k \in 1..Len(r) : RemoveRule(d, k)
    BY Example2I2cCalls
  <1>8. \A k \in 1..Len(g) : GivenRule(d, k)
    <2> USE <1>6, Example2I2cCalls, Fields, Numbers, Example2I2cExceptions
            DEF GivenRule, ExcusedAfter, NotBefore, KeptBy, Drops, Releasing
    <2>1. GivenRule(d, 1)
      BY SMTT(30)
    <2>2. GivenRule(d, 2)
      BY SMTT(30)
    <2>3. GivenRule(d, 3)
      BY SMTT(30)
    <2> HIDE DEF GivenRule
    <2> QED
      BY UpTo3, <2>1, <2>2, <2>3
  <1>9. \A e \in Transient[d] : EndRule(d, e)
    <2>2. Len(r) = 0
      BY Example2I2cCalls
    <2>3. \A y \in Driver[d].needs["irq"] : NotBefore(r, 1, y)
      BY Example2I2cNeeds DEF NotBefore
    <2>4. \A y \in Driver[d].needs["irq"] : \A m \in 3..3 : g[m] # y
      BY Example2I2cNeeds
    <2> QED
      BY <2>2, <2>3, <2>4 DEF EndRule
  <1>10. \A e \in Firm(d) : UnloadRule(d, e)
    BY Example2I2cCalls, UnregisterEnds
  <1>11. \A e \in DOMAIN Driver[d].needs : NeedRule(d, e)
    <2>1. NeedRule(d, "irq")
      BY <1>2, Example2I2cNeeds, Example2I2cExceptions DEF NeedRule, Unbound, Ending, Phases,
         KeptBy
    <2> QED
      BY <2>1, Example2I2cNeeds
  <1>12. TypeRule(d)
    BY <1>2, <1>6, Example2I2cCalls, Example2I2cNeeds DEF TypeRule, KeptBy
  <1> QED
    BY <1>1, <1>3, <1>4, <1>5, <1>7, <1>8, <1>9, <1>10, <1>11, <1>12 DEF Rules

-----------------------------------------------------------------------------

LEMMA ExampleRegmapCalls ==
    LET t == Driver["example_regmap"]  p == t.probe  r == t.remove IN
    /\ t.init = ModuleInit
    /\ IsSeq(p)
    /\ Len(p) = 5 /\ p[1] = Managed("dev") /\ p[2] = Managed("regmap")
    /\ p[3] = Managed("gpio") /\ p[4] = Check /\ p[5] = Managed("irq")
    /\ IsSeq(r)
    /\ Len(r) = 1 /\ r[1] = Call("cancel", "work", "never", <<>>)
    /\ t.exit = ModuleExit
  <1>1. Driver["example_regmap"] = ExampleRegmap
    BY DEF Driver
  <1> QED
    BY <1>1 DEF IsSeq, ExampleRegmap

LEMMA ExampleRegmapTables ==
    LET g == Given["example_regmap"]  u == Upto["example_regmap"] IN
    /\ IsSeq(g) /\ Len(g) = 4 /\ g[1] = "dev" /\ g[2] = "regmap" /\ g[3] = "gpio"
    /\ g[4] = "irq"
    /\ u[1] = 0 /\ u[2] = 1 /\ u[3] = 2 /\ u[4] = 3 /\ u[5] = 3 /\ u[6] = 4
    /\ Sure["example_regmap"] = {"dev", "regmap", "gpio", "irq"}
    /\ Kept["example_regmap"] = {}
    /\ Transient["example_regmap"] = {"irq"} /\ Lasting["example_regmap"] = {}
    /\ Firm("example_regmap") = {"irq"}
  <1>1. Lasting["example_regmap"] = {}
    BY DEF Lasting, Drivers, Driver
  <1> QED
    BY <1>1 DEF Given, Upto, Sure, Kept, Transient, Firm, IsSeq

LEMMA ExampleRegmapNeeds ==
    LET n == Driver["example_regmap"].needs IN
    /\ DOMAIN n = {"irq", "work"}
    /\ n["irq"] = {"dev", "gpio", "code"}
    /\ n["work"] = {"dev", "regmap", "code"}
  <1> DEFINE E == {Entry("irq", {"dev", "gpio"}),
                    Entry("work", {"dev", "regmap"})}
  <1>1. Driver["example_regmap"].needs = Needs(E)
    BY DEF Driver, ExampleRegmap
  <1>2. E = {<<"irq", {"dev", "gpio", "code"}>>,
             <<"work", {"dev", "regmap", "code"}>>}
    BY DEF Entry
  <1> HIDE DEF E
  <1>3. DOMAIN Needs(E) = {"irq", "work"}
    BY <1>2 DEF Needs
  <1>4. \A y, z \in E : y[1] = z[1] => y[2] = z[2]
    BY <1>2, SMTT(30)
  <1>5. \A y \in E : Needs(E)[y[1]] = y[2]
    BY <1>4, NeedsAre
  <1> QED
    BY <1>1, <1>2, <1>3, <1>5

LEMMA ExampleRegmapExceptions ==
    /\ \A p, x : ~Excused("example_regmap", p, x)
    /\ \A p, e, r : Except("example_regmap", p, e, r) <=>
           \/ p \in Unbound /\ e = "work" /\ r \in {"dev", "regmap"}
           \/ p \in Ending /\ e = "work" /\ r = "code"
  <1>1. "example_regmap" \notin DOMAIN Mishandled
    BY DEF Mishandled
  <1>2. Exposed["example_regmap"] =
            {<<Unbound, "work", {"dev", "regmap"}>>,
             <<Ending, "work", {"code"}>>}
    BY DEF Exposed
  <1>3. \A p, x : Excused("example_regmap", p, x) <=> FALSE
    BY <1>1 DEF Excused
  <1>4. \A p, e, r : Except("example_regmap", p, e, r) <=>
            \E x \in Exposed["example_regmap"] : p \in x[1] /\ x[2] = e /\ r \in x[3]
    BY DEF Except
  <1> QED
    BY <1>1, <1>2, <1>3, <1>4

LEMMA ExampleRegmapProbe ==
    \A k \in 1..Len(Driver["example_regmap"].probe) : ProbeRule("example_regmap", k)
  <1> DEFINE d == "example_regmap"  p == Driver[d].probe  g == Given[d]  u == Upto[d]
  <1>s. /\ Surely(p[1], "dev") /\ Surely(p[3], "gpio")
    BY ExampleRegmapCalls, Fields DEF Surely, Takes
  <1>h. /\ Has(p, 5, "dev") /\ Has(p, 5, "gpio")
    BY <1>s DEF Has
  <1>t. /\ Early(d, 1) /\ Early(d, 2) /\ Early(d, 3) /\ Early(d, 4) /\ Early(d, 5)
    <2>1. /\ p[1].x = "dev" /\ p[2].x = "regmap" /\ p[3].x = "gpio"
          /\ p[4].x = "none"
      BY ExampleRegmapCalls, Fields
    <2>2. \A j \in 1..4 : p[j].x \notin Transient[d]
      BY <2>1, ExampleRegmapTables, UpTo4
    <2> QED
      BY <2>2 DEF Early
  <1>1. ProbeRule(d, 1)
    <2>1. /\ p[1] = Managed("dev") /\ Adds(d, 1, "dev") /\ "dev" \notin Firm(d)
      BY ExampleRegmapCalls, ExampleRegmapTables DEF Adds
    <2> QED
      BY <2>1, <1>t, ManagedAt
  <1>2. ProbeRule(d, 2)
    <2>1. /\ p[2] = Managed("regmap") /\ Adds(d, 2, "regmap")
          /\ "regmap" \notin Firm(d)
      BY ExampleRegmapCalls, ExampleRegmapTables DEF Adds
    <2> QED
      BY <2>1, <1>t, ManagedAt
  <1>3. ProbeRule(d, 3)
    <2>1. /\ p[3] = Managed("gpio") /\ Adds(d, 3, "gpio") /\ "gpio" \notin Firm(d)
      BY ExampleRegmapCalls, ExampleRegmapTables DEF Adds
    <2> QED
      BY <2>1, <1>t, ManagedAt
  <1>4. ProbeRule(d, 4)
    <2>1. /\ p[4] = Check /\ Stays(d, 4)
      BY ExampleRegmapCalls, ExampleRegmapTables DEF Stays
    <2> QED
      BY <2>1, <1>t, CheckAt
  <1>5. ProbeRule(d, 5)
    <2>1. /\ p[5] = Managed("irq") /\ Adds(d, 5, "irq")
      BY ExampleRegmapCalls, ExampleRegmapTables DEF Adds
    <2>2. Backed(d, 5, "irq")
      BY <1>h, ExampleRegmapNeeds, SMTT(30) DEF Backed
    <2> QED
      BY <2>1, <2>2, <1>t, ManagedAt
  <1> QED
    BY ExampleRegmapCalls, UpTo5, <1>1, <1>2, <1>3, <1>4, <1>5

LEMMA ExampleRegmapRules == Rules("example_regmap") /\ TypeRule("example_regmap")
  <1> DEFINE d == "example_regmap"  i == Driver[d].init  p == Driver[d].probe  r == Driver[d].remove
             x == Driver[d].exit  g == Given[d]
  <1> USE ExampleRegmapTables
  <1>1. \A k \in 1..Len(i) : InitRule(d, k)
    BY ExampleRegmapCalls, ExampleRegmapNeeds, ModuleInitRules
  <1>2. IsSeq(i) /\ InitSure(d, "driver")
    BY ExampleRegmapCalls, ExampleRegmapNeeds, ModuleInitRules
  <1>3. \A k \in 1..Len(p) : ProbeRule(d, k)
    BY ExampleRegmapProbe
  <1>4. \A y \in Sure[d] : Has(p, Len(p) + 1, y)
    <2>1. /\ Surely(p[1], "dev") /\ Surely(p[2], "regmap") /\ Surely(p[3], "gpio")
          /\ Surely(p[5], "irq") /\ Len(p) = 5
      BY ExampleRegmapCalls, Fields DEF Surely, Takes
    <2> QED
      BY <2>1 DEF Has
  <1>5. \A k \in 1..Len(x) : ExitRule(d, k)
    BY <1>2, ExampleRegmapCalls, ModuleExitRules
  <1>6. /\ IsSeq(x)
        /\ \A y : Untouched(d, y)
    BY <1>2, ExampleRegmapCalls, ModuleExitRules
  <1>7. \A k \in 1..Len(r) : RemoveRule(d, k)
    <2> USE ExampleRegmapCalls, <1>6, Fields, Numbers, ExampleRegmapExceptions
            DEF RemoveRule, ExcusedAfter, NotBefore, UndoOps, KeptBy, Drops, Releasing
    <2>1. RemoveRule(d, 1)
      BY SMTT(30)
    <2> HIDE DEF RemoveRule
    <2> QED
      BY UpTo1, <2>1
  <1>8. \A k \in 1..Len(g) : GivenRule(d, k)
    <2> USE <1>6, ExampleRegmapCalls, Fields, Numbers, ExampleRegmapExceptions
            DEF GivenRule, ExcusedAfter, NotBefore, KeptBy, Drops, Releasing
    <2>1. GivenRule(d, 1)
      BY SMTT(30)
    <2>2. GivenRule(d, 2)
      BY SMTT(30)
    <2>3. GivenRule(d, 3)
      BY SMTT(30)
    <2>4. GivenRule(d, 4)
      BY SMTT(30)
    <2> HIDE DEF GivenRule
    <2> QED
      BY UpTo4, <2>1, <2>2, <2>3, <2>4
  <1>9. \A e \in Transient[d] : EndRule(d, e)
    <2>1. \A y : (Drops(r[1], y) <=> y = "work")
      BY ExampleRegmapCalls, Fields DEF Drops
    <2>2. Len(r) = 1
      BY ExampleRegmapCalls
    <2>3. \A y \in Driver[d].needs["irq"] : NotBefore(r, 2, y)
      BY <2>1, UpTo1, ExampleRegmapNeeds DEF NotBefore
    <2>4. \A y \in Driver[d].needs["irq"] : \A m \in 4..4 : g[m] # y
      BY ExampleRegmapNeeds
    <2> QED
      BY <2>2, <2>3, <2>4 DEF EndRule
  <1>10. \A e \in Firm(d) : UnloadRule(d, e)
    BY ExampleRegmapCalls, UnregisterEnds
  <1>11. \A e \in DOMAIN Driver[d].needs : NeedRule(d, e)
    <2>1. NeedRule(d, "irq")
      BY <1>2, ExampleRegmapNeeds, ExampleRegmapExceptions DEF NeedRule, Unbound, Ending,
         Phases, KeptBy
    <2>2. NeedRule(d, "work")
      BY <1>2, ExampleRegmapNeeds, ExampleRegmapExceptions DEF NeedRule, Unbound, Ending,
         Phases, KeptBy
    <2> QED
      BY <2>1, <2>2, ExampleRegmapNeeds
  <1>12. TypeRule(d)
    BY <1>2, <1>6, ExampleRegmapCalls, ExampleRegmapNeeds DEF TypeRule, KeptBy
  <1> QED
    BY <1>1, <1>3, <1>4, <1>5, <1>7, <1>8, <1>9, <1>10, <1>11, <1>12 DEF Rules

-----------------------------------------------------------------------------

LEMMA Ov7670Calls ==
    LET t == Driver["ov7670"]  p == t.probe  r == t.remove IN
    /\ t.init = ModuleInit
    /\ IsSeq(p)
    /\ Len(p) = 3 /\ p[1] = Check /\ p[2] = Managed("dev") /\ p[3] = Check
    /\ IsSeq(r)
    /\ Len(r) = 0
    /\ t.exit = ModuleExit
  <1>1. Driver["ov7670"] = Ov7670
    BY DEF Driver
  <1> QED
    BY <1>1 DEF IsSeq, Ov7670

LEMMA Ov7670Tables ==
    LET g == Given["ov7670"]  u == Upto["ov7670"] IN
    /\ IsSeq(g) /\ Len(g) = 1 /\ g[1] = "dev"
    /\ u[1] = 0 /\ u[2] = 0 /\ u[3] = 1 /\ u[4] = 1
    /\ Sure["ov7670"] = {"dev"} /\ Kept["ov7670"] = {}
    /\ Transient["ov7670"] = {} /\ Lasting["ov7670"] = {}
    /\ Firm("ov7670") = {}
  <1>1. Lasting["ov7670"] = {}
    BY DEF Lasting, Drivers, Driver
  <1> QED
    BY <1>1 DEF Given, Upto, Sure, Kept, Transient, Firm, IsSeq

LEMMA Ov7670Needs ==
    LET n == Driver["ov7670"].needs IN
    /\ DOMAIN n = {}
  <1> DEFINE E == {}
  <1>1. Driver["ov7670"].needs = Needs(E)
    BY DEF Driver, Ov7670
  <1>2. E = {}
    BY DEF Entry
  <1> HIDE DEF E
  <1>3. DOMAIN Needs(E) = {}
    BY <1>2 DEF Needs
  <1>4. \A y, z \in E : y[1] = z[1] => y[2] = z[2]
    BY <1>2, SMTT(30)
  <1>5. \A y \in E : Needs(E)[y[1]] = y[2]
    BY <1>4, NeedsAre
  <1> QED
    BY <1>1, <1>2, <1>3, <1>5

LEMMA Ov7670Exceptions ==
    /\ \A p, x : ~Excused("ov7670", p, x)
    /\ \A p, e, r : ~Except("ov7670", p, e, r)
  <1>1. "ov7670" \notin DOMAIN Mishandled
    BY DEF Mishandled
  <1>2. Exposed["ov7670"] =
            {}
    BY DEF Exposed
  <1>3. \A p, x : Excused("ov7670", p, x) <=> FALSE
    BY <1>1 DEF Excused
  <1>4. \A p, e, r : Except("ov7670", p, e, r) <=>
            \E x \in Exposed["ov7670"] : p \in x[1] /\ x[2] = e /\ r \in x[3]
    BY DEF Except
  <1> QED
    BY <1>1, <1>2, <1>3, <1>4

LEMMA Ov7670Probe ==
    \A k \in 1..Len(Driver["ov7670"].probe) : ProbeRule("ov7670", k)
  <1> DEFINE d == "ov7670"  p == Driver[d].probe  g == Given[d]  u == Upto[d]
  <1>t. /\ Early(d, 1) /\ Early(d, 2) /\ Early(d, 3)
    BY Ov7670Tables DEF Early
  <1>1. ProbeRule(d, 1)
    <2>1. /\ p[1] = Check /\ Stays(d, 1)
      BY Ov7670Calls, Ov7670Tables DEF Stays
    <2> QED
      BY <2>1, <1>t, CheckAt
  <1>2. ProbeRule(d, 2)
    <2>1. /\ p[2] = Managed("dev") /\ Adds(d, 2, "dev") /\ "dev" \notin Firm(d)
      BY Ov7670Calls, Ov7670Tables DEF Adds
    <2> QED
      BY <2>1, <1>t, ManagedAt
  <1>3. ProbeRule(d, 3)
    <2>1. /\ p[3] = Check /\ Stays(d, 3)
      BY Ov7670Calls, Ov7670Tables DEF Stays
    <2> QED
      BY <2>1, <1>t, CheckAt
  <1> QED
    BY Ov7670Calls, UpTo3, <1>1, <1>2, <1>3

LEMMA Ov7670Rules == Rules("ov7670") /\ TypeRule("ov7670")
  <1> DEFINE d == "ov7670"  i == Driver[d].init  p == Driver[d].probe  r == Driver[d].remove
             x == Driver[d].exit  g == Given[d]
  <1> USE Ov7670Tables
  <1>1. \A k \in 1..Len(i) : InitRule(d, k)
    BY Ov7670Calls, Ov7670Needs, ModuleInitRules
  <1>2. IsSeq(i) /\ InitSure(d, "driver")
    BY Ov7670Calls, Ov7670Needs, ModuleInitRules
  <1>3. \A k \in 1..Len(p) : ProbeRule(d, k)
    BY Ov7670Probe
  <1>4. \A y \in Sure[d] : Has(p, Len(p) + 1, y)
    <2>1. /\ Surely(p[2], "dev") /\ Len(p) = 3
      BY Ov7670Calls, Fields DEF Surely, Takes
    <2> QED
      BY <2>1 DEF Has
  <1>5. \A k \in 1..Len(x) : ExitRule(d, k)
    BY <1>2, Ov7670Calls, ModuleExitRules
  <1>6. /\ IsSeq(x)
        /\ \A y : Untouched(d, y)
    BY <1>2, Ov7670Calls, ModuleExitRules
  <1>7. \A k \in 1..Len(r) : RemoveRule(d, k)
    BY Ov7670Calls
  <1>8. \A k \in 1..Len(g) : GivenRule(d, k)
    <2> USE <1>6, Ov7670Calls, Fields, Numbers, Ov7670Exceptions
            DEF GivenRule, ExcusedAfter, NotBefore, KeptBy, Drops, Releasing
    <2>1. GivenRule(d, 1)
      BY SMTT(30)
    <2> HIDE DEF GivenRule
    <2> QED
      BY UpTo1, <2>1
  <1>9. \A e \in Transient[d] : EndRule(d, e)
    OBVIOUS
  <1>10. \A e \in Firm(d) : UnloadRule(d, e)
    OBVIOUS
  <1>11. \A e \in DOMAIN Driver[d].needs : NeedRule(d, e)
    BY Ov7670Needs
  <1>12. TypeRule(d)
    BY <1>2, <1>6, Ov7670Calls, Ov7670Needs DEF TypeRule, KeptBy
  <1> QED
    BY <1>1, <1>3, <1>4, <1>5, <1>7, <1>8, <1>9, <1>10, <1>11, <1>12 DEF Rules

-----------------------------------------------------------------------------
\* The rules hold of every driver.
AllRules == \A d \in Drivers : Rules(d) /\ TypeRule(d)

\* Every driver keeps the rules.
LEMMA RulesHold == AllRules
  <1>1. Drivers = {"mlx90640", "camera", "kthread", "bluetooth", "lidar_serial", "lidar_i2c",
                   "pwm", "pwm_sys", "pwm_workqueue", "gpio_irq", "gpio_input", "example_i2c",
                   "example2_i2c", "example_regmap", "ov7670"}
    BY DEF Drivers, Driver
  <1> QED
    BY <1>1, MlxRules, CameraRules, KthreadRules, BluetoothRules, LidarSerialRules,
       LidarI2cRules, PwmRules, PwmSysfsRules, PwmWorkqueueRules, GpioIrqRules,
       GpioInputRules, ExampleI2cRules, Example2I2cRules, ExampleRegmapRules, Ov7670Rules
    DEF AllRules

-----------------------------------------------------------------------------
(* The steps *)

\* A misuse is excused by the table or it is none.
LEMMA OnceAsExcused ==
    ReleasedOnce <=> \A m \in misused : Excused(drv, m[1], m[2]) \/ (Passed(drv, m[2]) /\ ~m[3])
  BY DEF ReleasedOnce, Excused, Overlooks, Passed

LEMMA Misused ==
    ASSUME ReleasedOnce, NEW wrong \in BOOLEAN, NEW x, Misuse(wrong, x), drv' = drv,
           wrong => Excused(drv, phase, x) \/ (Passed(drv, x) /\ x \notin freed)
    PROVE  ReleasedOnce'
  <1> DEFINE Fine(m) == Excused(drv, m[1], m[2]) \/ (Passed(drv, m[2]) /\ ~m[3])
  <1>1. \A m \in misused : Fine(m)
    BY OnceAsExcused
  <1>2. ReleasedOnce' <=> \A m \in misused' : Fine(m)
    BY DEF ReleasedOnce, Excused, Overlooks, Passed
  <1>3. \A m \in misused' : Fine(m)
    <2>1. CASE wrong
      <3> DEFINE n == <<phase, x, x \in freed>>
      <3>1. misused' = misused \cup {n}
        BY <2>1 DEF Misuse
      <3>2. n[1] = phase /\ n[2] = x /\ n[3] = (x \in freed)
        OBVIOUS
      <3>3. Fine(n)
        BY <2>1, <3>2
      <3> HIDE DEF n, Fine
      <3> QED
        BY <3>1, <3>3, <1>1
    <2>2. CASE ~wrong
      BY <2>2, <1>1 DEF Misuse
    <2> QED
      BY <2>1, <2>2
  <1> QED
    BY <1>2, <1>3

LEMMA OnceKept == ReleasedOnce /\ UNCHANGED <<drv, misused>> => ReleasedOnce'
  BY DEF ReleasedOnce, Overlooks

LEMMA HasNext ==
    ASSUME NEW s, NEW k \in Nat \ {0}, NEW x
    PROVE  Has(s, k + 1, x) <=> Has(s, k, x) \/ Surely(s[k], x)
  <1>1. 1..((k + 1) - 1) = 1..(k - 1) \cup {k}
    OBVIOUS
  <1> QED
    BY <1>1 DEF Has

LEMMA InitSureKept ==
    ASSUME NEW d, Rules(d), TypeRule(d), NEW x, InitSure(d, x)
    PROVE  x \in KeptBy(d)
  <1> DEFINE s == Driver[d].init
  <1>1. DOMAIN s = 1..Len(s)
    BY DEF TypeRule, IsSeq
  <1>2. PICK k \in 1..Len(s) : Surely(s[k], x)
    BY <1>1 DEF InitSure
  <1>3. s[k].x = x
    BY <1>2 DEF Surely, Takes
  <1>4. InitRule(d, k)
    BY DEF Rules
  <1> QED
    BY <1>2, <1>3, <1>4 DEF InitRule

\* The invariant holds at the start, ...
LEMMA LInit == AllRules /\ Init => LInv
  <1> SUFFICES ASSUME AllRules, Init PROVE LInv
    OBVIOUS
  <1> USE DEF Init
  <1>1. drv \in Drivers /\ TypeRule(drv)
    BY DEF AllRules
  <1>2. IsSeq(This.init) /\ IsSeq(<<>>)
    BY <1>1, Empty DEF TypeRule, This
  <1>3. Types
    BY <1>1, <1>2 DEF Types, Phases
  <1>4. InitPart
    <2>1. todo = Rest(This.init, 1) /\ 1 \in 1..(Len(This.init) + 1)
      BY <1>2 DEF IsSeq, Rest
    <2>2. \A x : ~Has(This.init, 1, x)
      BY DEF Has
    <2> QED
      BY <2>1, <2>2 DEF InitPart
  <1>5. BoundPart /\ ProbePart /\ KeepPart /\ FirmPart /\ ReleasedOnce
    BY <1>1 DEF BoundPart, ProbePart, KeepPart, FirmPart, ReleasedOnce, TypeRule, Ending, Firm
  <1> QED
    BY <1>3, <1>4, <1>5 DEF LInv

\* ... in init, ...
LEMMA InitStep ==
    ASSUME AllRules, LInv, phase = "init", Step
    PROVE  LInv'
  <1> DEFINE d == drv  s == Driver[d].init
  <1>1. d \in Drivers /\ Rules(d) /\ TypeRule(d)
    BY DEF AllRules, LInv, Types
  <1>2. IsSeq(s) /\ Len(s) \in Nat
    BY <1>1 DEF TypeRule, IsSeq
  <1>3. PICK k \in 1..(Len(s) + 1) :
          /\ todo = Rest(s, k)
          /\ \A x : Has(s, k, x) => Presumed(d, held, freed, x)
          /\ \A x \in held : x = "code" \/ \E j \in 1..(k - 1) : s[j].op = "get" /\ x = s[j].x
    BY DEF LInv, InitPart, This
  <1>4. todo # <<>>
    BY DEF Step
  <1>5. k \in 1..Len(s) /\ Head(todo) = s[k] /\ Tail(todo) = Rest(s, k + 1) /\ IsSeq(Rest(s, k + 1))
        /\ k \in Nat \ {0} /\ k + 1 \in 1..(Len(s) + 1)
    <2>1. k # Len(s) + 1
      BY <1>2, <1>3, <1>4, RestStep
    <2>2. k \in 1..Len(s) /\ k \in Nat \ {0} /\ k + 1 \in 1..(Len(s) + 1)
      BY <2>1, <1>2
    <2> HIDE DEF s
    <2>3. Head(todo) = s[k] /\ Tail(todo) = Rest(s, k + 1)
      BY <2>1, <1>2, <1>3, RestStep
    <2>4. IsSeq(Rest(s, k + 1))
      BY <2>2, <1>2, RestStep
    <2> QED
      BY <2>2, <2>3, <2>4
  <1> DEFINE c == s[k]
  <1>6. InitRule(d, k)
    BY <1>1, <1>5 DEF Rules
  <1>7. /\ c.op \in {"get", "use"} /\ c.fails \in {"error", "ignored", "never"}
        /\ c.op = "use" => c.fails = "never" /\ Has(s, k, c.x)
        /\ c.fails = "ignored" => Passed(d, c.x)
        /\ c.x \notin Transient[d] \cup {"code", "work"}
        /\ c.fails = "error" => \A j \in 1..(k - 1) : s[j].x \notin Firm(d)
        /\ c.op = "get" /\ c.x \in DOMAIN Driver[d].needs =>
              \A r \in Driver[d].needs[c.x] :
                  r = "code" \/ Except(d, "init", c.x, r) \/ Has(s, k, r)
    BY <1>6 DEF InitRule
  <1>8. /\ ~bound /\ managed = <<>> /\ freed = {} /\ "code" \in held
        /\ Transient[d] \cap held = {}
        /\ \A e \in Firm(d) \cap held : \A r \in Driver[d].needs[e] :
              Presumed(d, held, freed, r) \/ Except(d, "init", e, r)
        /\ ReleasedOnce /\ IsSeq(managed)
    BY DEF LInv, InitPart, KeepPart, FirmPart, Types, This, Ending
  <1>f. Firm(d) \subseteq DOMAIN Driver[d].needs \ {"code", "work"}
    BY <1>1 DEF TypeRule
  <1> HIDE DEF s, c
  <1>9. ASSUME drv' = drv, phase' = phase, todo' = Tail(todo), bound' = bound,
               managed' = managed, freed' = {}, held \subseteq held',
               \A x \in held' : x \in held \/ (c.op = "get" /\ x = c.x),
               Surely(c, c.x) => Presumed(d, held', freed', c.x), ReleasedOnce'
        PROVE  LInv'
    <2>1. Types'
      BY <1>9, <1>5 DEF LInv, Types
    <2>2. InitPart'
      <3>1. \A x : Has(s, k + 1, x) => Presumed(d, held', freed', x)
        <4> TAKE x
        <4>1. Surely(c, x) => c.x = x
          BY DEF Surely, Takes
        <4> QED
          BY <4>1, <1>3, <1>5, <1>8, <1>9, HasNext DEF c, Presumed
      <3>2. \A x \in held' :
                x = "code" \/ \E j \in 1..((k + 1) - 1) : s[j].op = "get" /\ x = s[j].x
        <4>1. 1..((k + 1) - 1) = 1..(k - 1) \cup {k}
          BY <1>5
        <4> QED
          BY <4>1, <1>3, <1>9 DEF c
      <3>3. s = This'.init
        BY <1>9 DEF s, This
      <3> QED
        BY <3>1, <3>2, <3>3, <1>5, <1>8, <1>9 DEF InitPart
    <2>3. BoundPart' /\ ProbePart'
      BY <1>8, <1>9 DEF BoundPart, ProbePart
    <2>4. KeepPart'
      BY <1>8, <1>9 DEF KeepPart
    <2>5. FirmPart'
      <3>1. Transient[d] \cap held' = {}
        BY <1>7, <1>8, <1>9
      <3>2. ASSUME NEW e \in Firm(d) \cap held', NEW r \in Driver[d].needs[e]
            PROVE  Presumed(d, held', freed', r) \/ Except(d, "init", e, r)
        <4>1. CASE e \in held
          BY <4>1, <3>2, <1>8, <1>9 DEF Presumed
        <4>2. CASE c.op = "get" /\ e = c.x
          BY <4>2, <3>2, <1>3, <1>7, <1>8, <1>9, <1>f DEF Presumed
        <4> QED
          BY <4>1, <4>2, <1>9
      <3> QED
        BY <3>1, <3>2, <1>9 DEF FirmPart, This
    <2> QED
      BY <2>1, <2>2, <2>3, <2>4, <2>5, <1>9 DEF LInv
  <1>10. CASE Acquire(c.op, c.x)
    <2>1. c.op = "get"
      BY <1>10, <1>7 DEF Acquire
    <2>2. /\ drv' = drv /\ phase' = phase /\ todo' = Tail(todo) /\ bound' = bound
          /\ managed' = managed /\ freed' = {} /\ held' = held \cup {c.x}
          /\ UNCHANGED <<drv, misused>>
      BY <1>10, <2>1, <1>8 DEF Acquire
    <2>3. ReleasedOnce'
      BY <2>2, <1>8, OnceKept
    <2>4. Presumed(d, held', freed', c.x)
      BY <2>2 DEF Presumed
    <2> QED
      BY <2>1, <2>2, <2>3, <2>4, <1>9
  <1>11. CASE Ignore(c.fails, c.x)
    <2>1. /\ c.fails = "ignored" /\ UNCHANGED <<drv, phase, held, managed, bound, misused>>
          /\ freed' = {} /\ todo' = Tail(todo)
      BY <1>11, <1>8 DEF Ignore
    <2>2. ReleasedOnce'
      BY <2>1, <1>8, OnceKept
    <2>3. Presumed(d, held', freed', c.x)
      BY <2>1, <1>7 DEF Presumed
    <2> QED
      BY <2>1, <2>2, <2>3, <1>8, <1>9
  <1>12. CASE UseCall(c.op, c.x)
    <2>1. /\ c.op = "use" /\ UNCHANGED <<drv, phase, held, freed, managed, bound>>
          /\ todo' = Tail(todo) /\ Misuse(c.x \notin held, c.x)
      BY <1>12 DEF UseCall
    <2>2. ReleasedOnce'
      <3>1. c.x \notin held => Passed(d, c.x) /\ c.x \notin freed
        BY <2>1, <1>3, <1>7 DEF Presumed
      <3> QED
        BY <2>1, <3>1, <1>8, Misused
    <2>3. ~Surely(c, c.x)
      BY <2>1 DEF Surely, Takes
    <2> QED
      BY <2>1, <2>2, <2>3, <1>8, <1>9
  <1>13. CASE Fail(c.fails, c.cleanup)
    <2> DEFINE w == c.cleanup \o <<Put("code")>>
    <2>1. /\ c.fails = "error" /\ phase' = "exit" /\ todo' = w
          /\ UNCHANGED <<drv, held, freed, managed, bound, misused>>
      BY <1>13, <1>7 DEF Fail
    <2>2. Firm(d) \cap held = {}
      BY <2>1, <1>3, <1>7, <1>f
    <2>3. IsSeq(w) /\ Plan(d, "exit", w, held, freed, managed, bound)
      BY <2>2, <1>1, <1>3, <1>5, <1>8, PlanInit DEF s, c
    <2> HIDE DEF w
    <2>4. Types' /\ Undo'
      BY <2>1, <2>3 DEF LInv, Types, Undo, Phases
    <2>5. InitPart' /\ BoundPart' /\ ProbePart' /\ KeepPart'
      BY <2>1, <1>8 DEF InitPart, BoundPart, ProbePart, KeepPart, Ending
    <2>6. FirmPart'
      BY <2>1, <2>2 DEF FirmPart
    <2>7. ReleasedOnce'
      BY <2>1, <1>8, OnceKept
    <2> QED
      BY <2>1, <2>4, <2>5, <2>6, <2>7 DEF LInv
  <1> QED
    <2>1. \/ Acquire(c.op, c.x) \/ Pass(c.op)
          \/ Ignore(c.fails, c.x) \/ Fail(c.fails, c.cleanup) \/ FailWithSuccess(c.fails, c.cleanup)
          \/ Release(c.op, c.x) \/ KfreeCall(c.op, c.x) \/ UseCall(c.op, c.x)
          \/ Cancel(c.op, c.x) \/ UnregisterDriver(c.op)
      BY <1>5 DEF Step, c
    <2>2. /\ ~Pass(c.op) /\ ~FailWithSuccess(c.fails, c.cleanup) /\ ~Release(c.op, c.x)
          /\ ~KfreeCall(c.op, c.x) /\ ~Cancel(c.op, c.x) /\ ~UnregisterDriver(c.op)
      <3>1. ~UnregisterDriver(c.op)
        BY <1>7 DEF UnregisterDriver
      <3> QED
        BY <3>1, <1>7 DEF Pass, FailWithSuccess, Release, KfreeCall, Cancel
    <2> QED
      BY <2>1, <2>2, <1>10, <1>11, <1>12, <1>13

\* Where a plan is being carried out.
UndoState ==
    /\ Undo
    /\ \/ phase \in {"failing", "remove", "exit"}
       \/ /\ phase = "probe" /\ managed = Given[drv] /\ Settled(drv, held, freed)
          /\ \A x \in Sure[drv] : NotBefore(todo, Len(todo) + 1, x)

\* The calls after the next are still a plan.
LEMMA UndoShift ==
    ASSUME AllRules, LInv, UndoState, todo # <<>>,
           drv' = drv, phase' = phase, todo' = Tail(todo), managed' = managed, bound' = bound,
           held' \subseteq held,
           \A x \in held : x \notin held' =>
               Drops(todo[1], x) \/ (todo[1].op = "unregister" /\ x = "driver"),
           \A x : Drops(todo[1], x) => x \notin held',
           \A x \in freed' : x \in freed \/ Drops(todo[1], x),
           todo[1].op = "unregister" => ~bound,
           ReleasedOnce'
    PROVE  LInv'
  <1> DEFINE d == drv  c == todo[1]
  <1>1. d \in Drivers /\ Rules(d) /\ TypeRule(d) /\ IsSeq(todo) /\ phase \in Phases
    BY DEF AllRules, LInv, Types
  <1>2. /\ Len(todo) \in Nat \ {0} /\ IsSeq(Tail(todo)) /\ Len(Tail(todo)) = Len(todo) - 1
        /\ \A i \in 1..(Len(todo) - 1) : Tail(todo)[i] = todo[i + 1]
    BY <1>1, Dropped
  <1>3. Undo'
    <2>1. Plan(d, phase, Tail(todo), held', freed', managed, bound)
      BY <1>1, PlanTail DEF UndoState, Undo
    <2> QED
      BY <2>1 DEF Undo
  <1>4. Ordered(d, phase, todo, 1)
    BY <1>2 DEF UndoState, Undo, Plan
  <1>5. \A x : NotBefore(todo, Len(todo) + 1, x) =>
            ~Drops(c, x) /\ NotBefore(Tail(todo), Len(Tail(todo)) + 1, x)
    <2>1. \A i \in 1..((Len(todo) - 1) + 1 - 1) : i + 1 \in 1..(Len(todo) + 1 - 1)
                                             /\ Tail(todo)[i] = todo[i + 1]
      BY <1>2
    <2>2. 1 \in 1..(Len(todo) + 1 - 1)
      BY <1>2
    <2> QED
      BY <2>1, <2>2, <1>2 DEF NotBefore
  <1>p. \A x : Presumed(d, held, freed, x) /\ ~Drops(c, x)
              /\ (c.op = "unregister" => x # "driver") => Presumed(d, held', freed', x)
    BY DEF Presumed
  <1>6. Types'
    BY <1>2 DEF LInv, Types
  <1>7. InitPart'
    BY DEF UndoState, InitPart
  <1>8. BoundPart'
    <2>1. ASSUME phase = "exit", bound, NEW x \in Sure[d], Untouched(d, x)
          PROVE  /\ Presumed(d, held', freed', x)
                 /\ NotBefore(todo', Len(todo') + 1, x)
      <3>1. Presumed(d, held, freed, x) /\ NotBefore(todo, Len(todo) + 1, x)
        BY <2>1 DEF LInv, BoundPart
      <3>2. c.op # "unregister"
        BY <2>1
      <3> QED
        BY <3>1, <3>2, <2>1, <1>5, <1>p
    <2>2. (bound => phase \in {"bound", "exit", "gone"} /\ managed = Given[drv])
          /\ (~bound /\ phase # "probe" => managed = <<>>)
      BY DEF LInv, BoundPart
    <2>3. phase # "bound"
      BY DEF UndoState
    <2> QED
      BY <2>1, <2>2, <2>3 DEF BoundPart
  <1>9. ProbePart'
    <2> SUFFICES ASSUME phase = "probe" PROVE ProbePart'
      BY DEF ProbePart
    <2>1. managed = Given[drv] /\ Settled(drv, held, freed)
          /\ \A x \in Sure[drv] : NotBefore(todo, Len(todo) + 1, x)
      BY DEF UndoState
    <2>2. c.op # "unregister"
      BY <1>4 DEF Ordered
    <2>3. Settled(drv, held', freed')
      BY <2>1, <2>2, <1>5, <1>p DEF Settled
    <2> QED
      BY <2>1, <2>3, <1>3, <1>5 DEF ProbePart
  <1>10. ASSUME phase # "exit" PROVE \A x \in held \ held' : x \notin KeptBy(d)
    BY <1>10, <1>4 DEF Ordered
  <1>11. KeepPart'
    <2> SUFFICES ASSUME phase \notin Ending PROVE KeepPart'
      BY DEF KeepPart
    <2>1. phase # "exit"
      BY DEF Ending
    <2>2. "code" \in held' /\ freed' \cap KeptBy(d) = {}
      <3>1. "code" \in held /\ freed \cap KeptBy(d) = {}
        BY DEF LInv, KeepPart
      <3> QED
        BY <3>1, <2>1, <1>4, <1>10 DEF Ordered, KeptBy
    <2>3. phase \notin Ending \cup {"init"}
      BY DEF UndoState
    <2>4. \A x : InitSure(d, x) => Presumed(d, held', freed', x)
      <3>1. \A x : InitSure(d, x) => Presumed(d, held, freed, x)
        BY <2>3 DEF LInv, KeepPart
      <3>2. c.op # "unregister" /\ \A x \in KeptBy(d) : ~Drops(c, x)
        BY <2>1, <1>4 DEF Ordered
      <3> QED
        BY <3>1, <3>2, <1>1, <1>p, InitSureKept
    <2> QED
      BY <2>2, <2>4 DEF KeepPart
  <1>12. FirmPart'
    <2>1. phase \notin {"init", "idle", "gone"}
      BY DEF UndoState
    <2>2. ASSUME NEW e \in Firm(d) \cap held', NEW r \in Driver[d].needs[e]
          PROVE  Presumed(d, held', freed', r) \/ Except(d, phase, e, r)
      <3>1. Presumed(d, held, freed, r) \/ Except(d, phase, e, r)
        BY DEF LInv, FirmPart, This
      <3> SUFFICES ASSUME Presumed(d, held, freed, r), ~Presumed(d, held', freed', r)
                   PROVE  Except(d, phase, e, r)
        BY <3>1
      <3>2. e \in DOMAIN Driver[d].needs /\ NeedRule(d, e)
        BY <1>1 DEF TypeRule, Rules
      <3>3. r # "driver"
        BY <3>2 DEF NeedRule
      <3>4. Drops(c, r)
        BY <3>3, <1>p
      <3>5. ASSUME Doomed(d, phase, todo, e, bound) PROVE Except(d, phase, e, r)
        <4>1. PICK i \in 1..Len(todo) :
                \A j \in 1..i : \A q \in Driver[d].needs[e] :
                    Drops(todo[j], q) => Except(d, phase, e, q)
          BY <3>5 DEF Doomed
        <4>2. 1 \in 1..i
          BY <1>2
        <4> QED
          BY <4>1, <4>2, <3>4
      <3>6. CASE e \in Transient[d] \/ phase = "exit"
        <4>1. Doomed(d, phase, todo, e, bound)
          BY <3>6 DEF UndoState, Undo, Plan, Firm
        <4> QED
          BY <4>1, <3>5
      <3>7. CASE e \in Lasting[d] /\ phase # "exit"
        <4>1. \/ r \in KeptBy(d)
              \/ \A p \in Unbound : Except(d, p, e, r)
          BY <3>2, <3>7 DEF NeedRule
        <4>2. r \notin KeptBy(d)
          BY <3>4, <3>7, <1>4 DEF Ordered
        <4>3. phase \in Unbound
          BY <1>1 DEF UndoState, Unbound
        <4> QED
          BY <4>1, <4>2, <4>3
      <3> QED
        BY <3>6, <3>7 DEF Firm
    <2> QED
      BY <2>1, <2>2 DEF FirmPart, This
  <1>13. phase \notin {"idle", "bound", "gone"}
    BY DEF UndoState
  <1> QED
    BY <1>3, <1>6, <1>7, <1>8, <1>9, <1>11, <1>12, <1>13 DEF LInv

\* ... in the calls that give back, ...
LEMMA UndoStep ==
    ASSUME AllRules, LInv, UndoState, Step
    PROVE  LInv'
  <1> DEFINE d == drv  c == todo[1]
  <1>1. d \in Drivers /\ Rules(d) /\ TypeRule(d) /\ IsSeq(todo) /\ IsSeq(managed)
        /\ phase \in Phases /\ ReleasedOnce
    BY DEF AllRules, LInv, Types
  <1>2. todo # <<>>
    BY DEF Step
  <1>3. Len(todo) \in Nat \ {0} /\ Head(todo) = c /\ 1 \in 1..Len(todo)
    BY <1>1, <1>2, Dropped
  <1>4. /\ c.fails = "never" /\ c.op \in UndoOps \cup {"unregister"}
        /\ phase # "exit" => c.op # "unregister"
        /\ Neat(d, phase, todo, 1, held, freed, managed)
    BY <1>3 DEF UndoState, Undo, Plan, Ordered
  <1>5. CASE Release(c.op, c.x)
    <2>1. /\ c.op = "put" /\ held' = held \ {c.x} /\ freed' = freed \cup (held \cap {c.x})
          /\ Misuse(c.x \notin held, c.x) /\ todo' = Tail(todo)
          /\ UNCHANGED <<drv, phase, managed, bound>>
      BY <1>3, <1>5 DEF Release, Released
    <2>2. ReleasedOnce'
      <3>1. c.x \notin held =>
                Excused(d, phase, c.x) \/ (Passed(d, c.x) /\ c.x \notin freed)
        BY <2>1, <1>4 DEF Neat, Presumed
      <3> QED
        BY <2>1, <3>1, <1>1, Misused
    <2>3. \A x : Drops(c, x) <=> x = c.x
      BY <2>1 DEF Drops
    <2> QED
      BY <2>1, <2>2, <2>3, <1>2, UndoShift
  <1>6. CASE KfreeCall(c.op, c.x)
    <2>1. /\ c.op = "kfree" /\ held' = held \ {c.x} /\ freed' = freed \cup (held \cap {c.x})
          /\ Misuse(c.x \in freed \/ \E i \in DOMAIN managed : managed[i] = c.x, c.x)
          /\ todo' = Tail(todo)
          /\ UNCHANGED <<drv, phase, managed, bound>>
      BY <1>3, <1>6 DEF KfreeCall, Released
    <2>2. ReleasedOnce'
      <3> DEFINE wrong == c.x \in freed \/ \E i \in DOMAIN managed : managed[i] = c.x
      <3>1. wrong => Excused(d, phase, c.x)
        <4>1. DOMAIN managed = 1..Len(managed)
          BY <1>1 DEF IsSeq
        <4> QED
          BY <2>1, <4>1, <1>4 DEF Neat
      <3>2. wrong \in BOOLEAN /\ Misuse(wrong, c.x)
        BY <2>1
      <3> HIDE DEF wrong
      <3> QED
        BY <2>1, <3>1, <3>2, <1>1, Misused
    <2>3. \A x : Drops(c, x) <=> x = c.x
      BY <2>1 DEF Drops
    <2> QED
      BY <2>1, <2>2, <2>3, <1>2, UndoShift
  <1>7. CASE UseCall(c.op, c.x)
    <2>1. /\ c.op = "use" /\ Misuse(c.x \notin held, c.x) /\ todo' = Tail(todo)
          /\ UNCHANGED <<drv, phase, held, freed, managed, bound>>
      BY <1>3, <1>7 DEF UseCall
    <2>2. ReleasedOnce'
      <3>1. c.x \notin held =>
                Excused(d, phase, c.x) \/ (Passed(d, c.x) /\ c.x \notin freed)
        BY <2>1, <1>4 DEF Neat, Presumed
      <3> QED
        BY <2>1, <3>1, <1>1, Misused
    <2>3. \A x : ~Drops(c, x)
      BY <2>1 DEF Drops
    <2> QED
      BY <2>1, <2>2, <2>3, <1>2, UndoShift
  <1>8. CASE Cancel(c.op, c.x)
    <2>1. /\ c.op = "cancel" /\ held' = held \ {c.x} /\ todo' = Tail(todo)
          /\ UNCHANGED <<drv, phase, freed, managed, bound, misused>>
      BY <1>3, <1>8 DEF Cancel
    <2>2. ReleasedOnce'
      BY <2>1, <1>1, OnceKept
    <2>3. \A x : Drops(c, x) <=> x = c.x
      BY <2>1 DEF Drops
    <2> QED
      BY <2>1, <2>2, <2>3, <1>2, UndoShift
  <1>9. CASE UnregisterDriver(c.op) /\ ~bound
    <2>1. /\ c.op = "unregister" /\ held' = held \ {"driver"} /\ todo' = Tail(todo)
          /\ UNCHANGED <<drv, phase, freed, managed, misused>> /\ bound' = bound
      BY <1>3, <1>9 DEF UnregisterDriver, LInv, Types
    <2>2. ReleasedOnce'
      BY <2>1, <1>1, OnceKept
    <2>3. \A x : ~Drops(c, x)
      BY <2>1 DEF Drops
    <2> QED
      BY <2>1, <2>2, <2>3, <1>2, <1>9, UndoShift
  <1>10. CASE UnregisterDriver(c.op) /\ bound
    <2> DEFINE s == Driver[d].remove  w == s \o Unwinding
    <2>1. /\ c.op = "unregister" /\ held' = held \ {"driver"}
          /\ todo' = s \o Unwinding \o Tail(todo) /\ managed' = <<>>
          /\ bound' = FALSE
          /\ UNCHANGED <<drv, phase, freed, misused>>
      BY <1>10 DEF UnregisterDriver, This
    <2>2. phase = "exit"
      BY <2>1, <1>4
    <2>3. managed = Given[d] /\ \A x \in Sure[d] :
                              Untouched(d, x) => Presumed(d, held, freed, x)
      BY <2>2, <1>10 DEF LInv, BoundPart
    <2>4. Clears(d, w)
      BY <2>3, <1>1, UnwindingPuts, RemoveClears
    <2> HIDE DEF w
    <2>5. IsSeq(w \o Tail(todo)) /\ Plan(d, "exit", w \o Tail(todo), held', freed, <<>>, FALSE)
      <3>1. Plan(d, "exit", todo, held, freed, managed, TRUE)
        BY <2>2, <1>10 DEF UndoState, Undo, LInv, Types
      <3>2. Transient[d] \cap Lasting[d] = {}
        BY <1>1 DEF TypeRule
      <3> QED
        BY <3>1, <3>2, <2>1, <2>3, <2>4, <1>1, <1>2, PlanUnregister
    <2>6. Types' /\ Undo'
      BY <2>1, <2>2, <2>5, Empty DEF LInv, Types, Undo, w
    <2>7. InitPart' /\ BoundPart' /\ ProbePart' /\ KeepPart'
      BY <2>1, <2>2 DEF InitPart, BoundPart, ProbePart, KeepPart, Ending
    <2>8. FirmPart'
      <3>1. ASSUME NEW e \in Firm(d) \cap held', NEW r \in Driver[d].needs[e]
            PROVE  Presumed(d, held', freed', r) \/ Except(d, phase, e, r)
        <4>1. Presumed(d, held, freed, r) \/ Except(d, phase, e, r)
          BY <2>1 DEF LInv, FirmPart, This
        <4>2. NeedRule(d, e)
          BY <1>1 DEF TypeRule, Rules
        <4>3. r # "driver"
          BY <4>2 DEF NeedRule
        <4> QED
          BY <4>1, <4>3, <2>1 DEF Presumed
      <3> QED
        BY <3>1, <2>1, <2>2 DEF FirmPart, This
    <2>9. ReleasedOnce'
      BY <2>1, <1>1, OnceKept
    <2> QED
      BY <2>1, <2>2, <2>6, <2>7, <2>8, <2>9 DEF LInv
  <1> QED
    <2>1. \/ Acquire(c.op, c.x) \/ Pass(c.op)
          \/ Ignore(c.fails, c.x) \/ Fail(c.fails, c.cleanup) \/ FailWithSuccess(c.fails, c.cleanup)
          \/ Release(c.op, c.x) \/ KfreeCall(c.op, c.x) \/ UseCall(c.op, c.x)
          \/ Cancel(c.op, c.x) \/ UnregisterDriver(c.op)
      BY <1>3 DEF Step
    <2>2. /\ ~Pass(c.op) /\ ~FailWithSuccess(c.fails, c.cleanup) /\ ~Acquire(c.op, c.x)
          /\ ~Ignore(c.fails, c.x) /\ ~Fail(c.fails, c.cleanup)
      BY <1>4 DEF Pass, FailWithSuccess, Acquire, Ignore, Fail, UndoOps
    <2> QED
      BY <2>1, <2>2, <1>5, <1>6, <1>7, <1>8, <1>9, <1>10

\* ... in probe, ...
LEMMA ProbeStep ==
    ASSUME AllRules, LInv, phase = "probe", Step, NEW k \in 1..(Len(This.probe) + 1), At(k)
    PROVE  LInv'
  <1> DEFINE d == drv  s == Driver[d].probe  g == Given[d]  u == Upto[d]
  <1>1. d \in Drivers /\ Rules(d) /\ TypeRule(d)
    BY DEF AllRules, LInv, Types
  <1>2. IsSeq(s) /\ Len(s) \in Nat /\ s = This.probe
    BY <1>1 DEF TypeRule, IsSeq, This
  <1>3. /\ todo = Rest(s, k)
        /\ Len(managed) = u[k]
        /\ \A n \in 1..Len(managed) : managed[n] = g[n] /\ managed[n] \in held
        /\ \A x : Has(s, k, x) => Presumed(d, held, freed, x)
        /\ \A e \in Transient[d] \cap held : \E j \in 1..(k - 1) : Takes(s[j], e)
    BY DEF At, This
  <1>4. todo # <<>>
    BY DEF Step
  <1>5. k \in 1..Len(s) /\ Head(todo) = s[k] /\ Tail(todo) = Rest(s, k + 1) /\ IsSeq(Rest(s, k + 1))
        /\ k \in Nat \ {0} /\ k + 1 \in 1..(Len(s) + 1)
    <2>0. k \in 1..(Len(s) + 1)
      BY <1>2
    <2>1. k # Len(s) + 1
      BY <2>0, <1>2, <1>3, <1>4, RestStep
    <2>2. k \in 1..Len(s) /\ k \in Nat \ {0} /\ k + 1 \in 1..(Len(s) + 1)
      BY <2>0, <2>1, <1>2
    <2> HIDE DEF s
    <2>3. Head(todo) = s[k] /\ Tail(todo) = Rest(s, k + 1)
      BY <2>0, <2>1, <1>2, <1>3, RestStep
    <2>4. IsSeq(Rest(s, k + 1))
      BY <2>2, <1>2, RestStep
    <2> QED
      BY <2>2, <2>3, <2>4
  <1> DEFINE c == s[k]
  <1>6. ProbeRule(d, k)
    BY <1>1, <1>5 DEF Rules
  <1>7. /\ u[k + 1] = IF c.op = "managed" THEN u[k] + 1 ELSE u[k]
        /\ c.op \in {"get", "managed", "check", "use"}
        /\ c.fails \in {"error", "ignored", "never", "success", "either"}
        /\ c.op = "managed" => g[u[k] + 1] = c.x /\ c.fails = "error"
        /\ c.op = "check" => c.fails = "error"
        /\ c.op = "use" => c.fails = "never" /\ Has(s, k, c.x)
        /\ c.fails = "ignored" => Passed(d, c.x)
        /\ c.op \in {"get", "managed"} => c.x \notin {"code", "work"}
        /\ \A e \in Firm(d) : Takes(c, e) => \A r \in Driver[d].needs[e] :
              r = "code" \/ Has(s, k, r) \/ (Except(d, "probe", e, r) /\ r \in Sure[d])
    BY <1>6 DEF ProbeRule
  <1>8. /\ ~bound /\ "code" \in held /\ freed \cap KeptBy(d) = {}
        /\ \A x : InitSure(d, x) => Presumed(d, held, freed, x)
        /\ \A e \in Firm(d) \cap held : \A r \in Driver[d].needs[e] :
              Presumed(d, held, freed, r) \/ Except(d, "probe", e, r)
        /\ ReleasedOnce /\ IsSeq(managed) /\ IsSeq(todo)
    BY DEF LInv, BoundPart, KeepPart, FirmPart, Types, This, Ending
  <1>f. /\ Firm(d) \subseteq DOMAIN Driver[d].needs \ {"code", "work"}
        /\ \A e \in Firm(d) : NeedRule(d, e)
    BY <1>1 DEF TypeRule, Rules
  <1> HIDE DEF s, c, u, g
  <1>9. ASSUME drv' = drv, phase' = phase, todo' = Tail(todo), bound' = bound,
               held \subseteq held', freed' \subseteq freed, IsSeq(managed'),
               Len(managed') = u[k + 1],
               \A n \in 1..Len(managed') : managed'[n] = g[n] /\ managed'[n] \in held',
               \A x \in held' : x \in held \/ Takes(c, x),
               Surely(c, c.x) => Presumed(d, held', freed', c.x), ReleasedOnce'
        PROVE  LInv'
    <2>m. \A x : Presumed(d, held, freed, x) => Presumed(d, held', freed', x)
      BY <1>9 DEF Presumed
    <2>d. \A x : Presumed(d, held', freed', x) <=> Presumed(drv', held', freed', x)
      BY <1>9
    <2>1. Types'
      BY <1>9, <1>5 DEF LInv, Types
    <2>2. ProbePart'
      <3>1. \A x : Has(s, k + 1, x) => Presumed(d, held', freed', x)
        <4> TAKE x
        <4>1. Surely(c, x) => c.x = x
          BY DEF Surely, Takes
        <4> QED
          BY <4>1, <2>m, <1>3, <1>5, <1>9, HasNext DEF c
      <3>2. \A e \in Transient[d] \cap held' : \E j \in 1..((k + 1) - 1) : Takes(s[j], e)
        <4>1. 1..((k + 1) - 1) = 1..(k - 1) \cup {k}
          BY <1>5
        <4> QED
          BY <4>1, <1>3, <1>9 DEF c
      <3>3. s = This'.probe
        BY <1>9 DEF s, This
      <3>4. At(k + 1)'
        BY <3>1, <3>2, <3>3, <1>5, <1>9 DEF At, u, g
      <3> QED
        BY <3>3, <3>4, <1>5 DEF ProbePart
    <2>3. BoundPart' /\ InitPart'
      BY <1>8, <1>9 DEF BoundPart, InitPart
    <2>4. KeepPart'
      BY <2>m, <2>d, <1>8, <1>9 DEF KeepPart
    <2>5. FirmPart'
      <3>2. ASSUME NEW e \in Firm(d) \cap held', NEW r \in Driver[d].needs[e]
            PROVE  Presumed(d, held', freed', r) \/ Except(d, "probe", e, r)
        <4>1. CASE e \in held
          BY <4>1, <3>2, <2>m, <1>8, <1>9
        <4>2. CASE Takes(c, e)
          <5>1. r = "code" \/ Has(s, k, r) \/ Except(d, "probe", e, r)
            BY <4>2, <3>2, <1>7
          <5>2. "code" \in held'
            BY <1>8, <1>9
          <5>3. Presumed(d, held', freed', "code")
            BY <5>2 DEF Presumed
          <5> QED
            BY <5>1, <5>3, <2>m, <1>3
        <4> QED
          BY <4>1, <4>2, <1>9
      <3> QED
        BY <3>2, <1>9 DEF FirmPart, This
    <2> QED
      BY <2>1, <2>2, <2>3, <2>4, <2>5, <1>9 DEF LInv
  <1>10. CASE Acquire(c.op, c.x)
    <2>1. /\ c.op \in {"get", "managed"}
          /\ held' = held \cup {c.x} /\ freed' = freed \ {c.x}
          /\ managed' = IF c.op = "managed" THEN Append(managed, c.x) ELSE managed
          /\ todo' = Tail(todo)
          /\ UNCHANGED <<drv, phase, bound, misused>>
      BY <1>10 DEF Acquire
    <2>2. ReleasedOnce'
      BY <2>1, <1>8, OnceKept
    <2>3. \A x \in held' : x \in held \/ Takes(c, x)
      BY <2>1 DEF Takes
    <2>4. /\ IsSeq(managed') /\ Len(managed') = u[k + 1]
          /\ \A n \in 1..Len(managed') : managed'[n] = g[n] /\ managed'[n] \in held'
      <3>1. CASE c.op = "managed"
        <4>1. /\ IsSeq(managed') /\ Len(managed') = Len(managed) + 1
              /\ \A i \in 1..Len(managed) : managed'[i] = managed[i]
              /\ managed'[Len(managed) + 1] = c.x
          BY <3>1, <2>1, <1>8, Appended
        <4>2. u[k + 1] = Len(managed) + 1 /\ g[Len(managed) + 1] = c.x
          BY <3>1, <1>3, <1>7
        <4>3. Len(managed) \in Nat
          BY <1>8 DEF IsSeq
        <4>4. \A n \in 1..Len(managed') : n \in 1..Len(managed) \/ n = Len(managed) + 1
          BY <4>1, <4>3
        <4> QED
          BY <4>1, <4>2, <4>4, <2>1, <1>3
      <3>2. CASE c.op # "managed"
        BY <3>2, <2>1, <1>3, <1>7, <1>8
      <3> QED
        BY <3>1, <3>2
    <2>5. Presumed(d, held', freed', c.x)
      BY <2>1 DEF Presumed
    <2> QED
      BY <2>1, <2>2, <2>3, <2>4, <2>5, <1>9
  <1>11. CASE Pass(c.op) \/ Ignore(c.fails, c.x)
    <2>1. /\ UNCHANGED <<drv, phase, held, managed, bound, misused>>
          /\ todo' = Tail(todo) /\ freed' \subseteq freed
          /\ c.op = "check" \/ (c.fails = "ignored" /\ freed' = freed \ {c.x})
      BY <1>11 DEF Ignore, Pass
    <2>2. ReleasedOnce'
      BY <2>1, <1>8, OnceKept
    <2>3. (Surely(c, c.x) => Presumed(d, held', freed', c.x)) /\ c.op # "managed"
      BY <2>1, <1>7 DEF Surely, Takes, Presumed
    <2> QED
      BY <2>1, <2>2, <2>3, <1>3, <1>7, <1>8, <1>9
  <1>12. CASE UseCall(c.op, c.x)
    <2>1. /\ c.op = "use" /\ UNCHANGED <<drv, phase, held, freed, managed, bound>>
          /\ todo' = Tail(todo) /\ Misuse(c.x \notin held, c.x)
      BY <1>12 DEF UseCall
    <2>4. c.x \notin held => Passed(d, c.x) /\ c.x \notin freed
      BY <2>1, <1>3, <1>7 DEF Presumed
    <2>2. ReleasedOnce'
      BY <2>1, <2>4, <1>8, Misused
    <2>3. ~Surely(c, c.x)
      BY <2>1 DEF Surely, Takes
    <2> QED
      BY <2>1, <2>2, <2>3, <1>3, <1>7, <1>8, <1>9
  <1>13. CASE Fail(c.fails, c.cleanup)
    <2> DEFINE w == c.cleanup \o Unwinding
    <2>1. /\ c.fails \in {"error", "either"} /\ phase' = "failing" /\ todo' = w
          /\ managed' = <<>> /\ UNCHANGED <<drv, held, freed, bound, misused>>
      BY <1>13 DEF Fail
    <2>2. IsSeq(w) /\ Plan(d, "failing", w, held, freed, <<>>, FALSE)
      <3>1. Puts(Unwinding, managed)
        BY <1>8, UnwindingPuts
      <3>2. Diverts(c)
        BY <2>1 DEF Diverts
      <3> QED
        BY <3>1, <3>2, <1>1, <1>3, <1>5, <1>8, PlanFail DEF s, c, u, g
    <2> HIDE DEF w
    <2>3. ~bound'
      BY <2>1, <1>8
    <2>4. Types' /\ Undo'
      BY <2>1, <2>2, <2>3, Empty DEF LInv, Types, Undo, Phases
    <2>5. InitPart' /\ BoundPart' /\ ProbePart' /\ KeepPart'
      BY <2>1, <2>3, <1>8 DEF InitPart, BoundPart, ProbePart, KeepPart, Ending
    <2>6. FirmPart'
      <3>1. ASSUME NEW e \in Firm(d) \cap held, NEW r \in Driver[d].needs[e]
            PROVE  Presumed(d, held, freed, r) \/ Except(d, "failing", e, r)
        <4>1. CASE e \in Transient[d]
          <5>1. \A j \in 1..(k - 1) : Takes(s[j], e) => Diverts(c)
            BY <2>1 DEF Diverts
          <5>2. \/ \A j \in 1..(k - 1) : ~Takes(s[j], e)
                \/ \A q \in Driver[d].needs[e] : q = "code" \/ Has(s, k, q)
            BY <4>1, <2>1, <1>6 DEF ProbeRule, Diverts, s, c
          <5>3. Presumed(d, held, freed, "code")
            BY <1>8 DEF Presumed
          <5> QED
            BY <4>1, <3>1, <5>2, <5>3, <1>3
        <4>2. CASE e \in Lasting[d]
          <5>1. \/ ~Except(d, "probe", e, r)
                \/ \A p \in Unbound : Except(d, p, e, r)
            BY <4>2, <3>1, <1>f DEF NeedRule, Phases, Ending
          <5> QED
            BY <5>1, <3>1, <1>8 DEF Unbound, Phases
        <4> QED
          BY <4>1, <4>2, <3>1 DEF Firm
      <3> QED
        BY <2>1, <3>1 DEF FirmPart, This
    <2>7. ReleasedOnce'
      BY <2>1, <1>8, OnceKept
    <2> QED
      BY <2>1, <2>4, <2>5, <2>6, <2>7 DEF LInv
  <1>14. CASE FailWithSuccess(c.fails, c.cleanup)
    <2>1. /\ c.fails \in {"success", "either"} /\ todo' = c.cleanup
          /\ UNCHANGED <<drv, phase, held, freed, managed, bound, misused>>
      BY <1>14 DEF FailWithSuccess
    <2>2. /\ IsSeq(c.cleanup) /\ Plan(d, "probe", c.cleanup, held, freed, managed, bound)
          /\ u[k] = Len(g)
          /\ Settled(d, held, freed)
          /\ \A x \in Sure[d] : NotBefore(c.cleanup, Len(c.cleanup) + 1, x)
      <3>1. Got(d, k, held, freed) /\ Forgives(Driver[d].probe[k]) /\ k \in 1..Len(Driver[d].probe)
        BY <2>1, <1>3, <1>5 DEF s, c, Got, Forgives
      <3>2. /\ IsSeq(s[k].cleanup)
            /\ \A m, b : Plan(d, "probe", s[k].cleanup, held, freed, m, b)
            /\ Upto[d][k] = Len(Given[d]) /\ Settled(d, held, freed)
            /\ \A x \in Sure[d] : NotBefore(s[k].cleanup, Len(s[k].cleanup) + 1, x)
        BY <3>1, <1>1, PlanSuccess DEF s
      <3> QED
        BY <3>2 DEF c, u, g
    <2>3. managed = g
      <3>1. IsSeq(g)
        BY <1>1 DEF TypeRule, g
      <3> QED
        BY <3>1, <2>2, <1>3, <1>8 DEF IsSeq
    <2>4. Types' /\ Undo'
      BY <2>1, <2>2 DEF LInv, Types, Undo
    <2>5. ProbePart'
      BY <2>1, <2>2, <2>3, <2>4 DEF ProbePart, g
    <2>6. InitPart' /\ BoundPart' /\ KeepPart' /\ FirmPart'
      BY <2>1, <1>8 DEF InitPart, BoundPart, KeepPart, FirmPart, Ending, This
    <2>7. ReleasedOnce'
      BY <2>1, <1>8, OnceKept
    <2> QED
      BY <2>1, <2>4, <2>5, <2>6, <2>7 DEF LInv
  <1> QED
    <2>1. \/ Acquire(c.op, c.x) \/ Pass(c.op)
          \/ Ignore(c.fails, c.x) \/ Fail(c.fails, c.cleanup) \/ FailWithSuccess(c.fails, c.cleanup)
          \/ Release(c.op, c.x) \/ KfreeCall(c.op, c.x) \/ UseCall(c.op, c.x)
          \/ Cancel(c.op, c.x) \/ UnregisterDriver(c.op)
      BY <1>5 DEF Step, c
    <2>2. ~Release(c.op, c.x) /\ ~KfreeCall(c.op, c.x) /\ ~Cancel(c.op, c.x)
      BY <1>7 DEF Release, KfreeCall, Cancel
    <2>3. ~UnregisterDriver(c.op)
      BY <1>7 DEF UnregisterDriver
    <2> QED
      BY <2>1, <2>2, <2>3, <1>10, <1>11, <1>12, <1>13, <1>14

LEMMA AllHeld ==
    ASSUME NEW d, Rules(d), NEW h, NEW f,
           \A x : Has(Driver[d].probe, Len(Driver[d].probe) + 1, x) => Presumed(d, h, f, x)
    PROVE  Settled(d, h, f)
  BY DEF Rules, Settled

\* ... when the last call has returned, ...
LEMMA ReturnStep ==
    ASSUME AllRules, LInv, Return
    PROVE  LInv'
  <1> DEFINE d == drv
  <1>1. d \in Drivers /\ Rules(d) /\ TypeRule(d) /\ ReleasedOnce
    BY DEF AllRules, LInv, Types
  <1>2. /\ todo = <<>> /\ Len(todo) = 0 /\ bound' = (bound \/ phase = "probe")
        /\ UNCHANGED <<drv, todo, held, freed, managed, misused>>
    BY Empty DEF Return
  <1>n. \A e \in Firm(d) : NeedRule(d, e)
    BY <1>1 DEF TypeRule, Rules
  <1>r. ReleasedOnce'
    BY <1>1, <1>2, OnceKept
  <1>t. phase' \in Phases => Types'
    BY <1>2 DEF LInv, Types
  <1>f. \A e \in Firm(d) \cap held : \A r \in Driver[d].needs[e] :
              Presumed(d, held, freed, r) \/ Except(d, phase, e, r)
    BY DEF LInv, FirmPart, This
  <1>p. \A x : Presumed(drv', held', freed', x) <=> Presumed(d, held, freed, x)
    BY <1>2
  <1>d. Undo => /\ Transient[d] \cap held = {}
                /\ phase = "exit" => Lasting[d] \cap held = {}
    BY <1>2 DEF Undo, Plan, Doomed
  <1>3. CASE phase \in {"init", "failing", "remove"} /\ phase' = "idle"
    <2>1. ~bound /\ ~bound'
      BY <1>2, <1>3 DEF LInv, BoundPart, Types
    <2>2. Transient[d] \cap held = {}
      BY <1>3, <1>d DEF LInv, FirmPart
    <2>3. BoundPart' /\ InitPart' /\ ProbePart'
      BY <2>1, <1>2, <1>3 DEF LInv, BoundPart, InitPart, ProbePart
    <2>4. KeepPart'
      <3>1. "code" \in held /\ freed \cap KeptBy(d) = {}
        BY <1>3 DEF LInv, KeepPart, Ending
      <3>2. ASSUME NEW x, InitSure(d, x) PROVE Presumed(d, held, freed, x)
        <4>1. CASE phase = "init"
          <5> DEFINE s == Driver[d].init
          <5>1. IsSeq(s) /\ DOMAIN s = 1..Len(s)
            BY <1>1 DEF TypeRule, IsSeq
          <5>2. PICK k \in 1..(Len(s) + 1) :
                  todo = Rest(s, k) /\ \A y : Has(s, k, y) => Presumed(d, held, freed, y)
            BY <4>1 DEF LInv, InitPart, This
          <5>3. Has(s, Len(s) + 1, x)
            <6>1. 1..((Len(s) + 1) - 1) = 1..Len(s)
              BY <5>1 DEF IsSeq
            <6> QED
              BY <6>1, <5>1, <3>2 DEF InitSure, Has
          <5> HIDE DEF s
          <5>4. k = Len(s) + 1
            BY <5>1, <5>2, <1>2, RestStep
          <5> QED
            BY <5>2, <5>3, <5>4
        <4>2. CASE phase # "init"
          BY <4>2, <1>3, <3>2 DEF LInv, KeepPart, Ending
        <4> QED
          BY <4>1, <4>2
      <3> QED
        BY <3>1, <3>2, <1>p, <1>2, <1>3 DEF KeepPart
    <2>5. FirmPart'
      <3>1. ASSUME NEW e \in Firm(d) \cap held, NEW r \in Driver[d].needs[e]
            PROVE  Presumed(d, held, freed, r) \/ Except(d, "idle", e, r)
        <4>1. e \in Lasting[d]
          BY <2>2, <3>1 DEF Firm
        <4>2. /\ ~Except(d, "init", e, r)
              /\ \/ \A p \in Phases \ Ending : ~Except(d, p, e, r)
                 \/ \A p \in Unbound : Except(d, p, e, r)
          BY <4>1, <3>1, <1>n DEF NeedRule
        <4> QED
          BY <4>2, <3>1, <1>f, <1>3 DEF Unbound, Phases, Ending
      <3> QED
        BY <3>1, <2>2, <1>p, <1>2, <1>3 DEF FirmPart, This
    <2> QED
      BY <2>3, <2>4, <2>5, <1>2, <1>3, <1>r, <1>t DEF LInv, Phases
  <1>4. CASE phase = "probe" /\ phase' = "bound"
    <2>1. Settled(d, held, freed) /\ managed = Given[d]
          /\ \A e \in Transient[d] \cap held : \A r \in Driver[d].needs[e] :
                Presumed(d, held, freed, r)
      <3>1. CASE \E k \in 1..(Len(This.probe) + 1) : At(k)
        <4> DEFINE s == Driver[d].probe
        <4>1. IsSeq(s) /\ IsSeq(Given[d]) /\ Upto[d][Len(s) + 1] = Len(Given[d])
          BY <1>1 DEF TypeRule
        <4>2. PICK k \in 1..(Len(s) + 1) : At(k)
          BY <3>1 DEF This
        <4>3. /\ todo = Rest(s, k)
              /\ Len(managed) = Upto[d][k]
              /\ \A n \in 1..Len(managed) : managed[n] = Given[d][n]
              /\ \A x : Has(s, k, x) => Presumed(d, held, freed, x)
              /\ \A e \in Transient[d] \cap held : \E j \in 1..(k - 1) : Takes(s[j], e)
          BY <4>2 DEF At, This
        <4>4. k = Len(s) + 1
          <5> HIDE DEF s
          <5> QED
            BY <4>1, <4>3, <1>2, RestStep
        <4>5. Settled(d, held, freed)
          BY <4>3, <4>4, <1>1, AllHeld
        <4>6. managed = Given[d]
          <5>1. IsSeq(managed)
            BY DEF LInv, Types
          <5> QED
            BY <5>1, <4>1, <4>3, <4>4 DEF IsSeq
        <4>7. ASSUME NEW e \in Transient[d] \cap held, NEW r \in Driver[d].needs[e]
              PROVE  Presumed(d, held, freed, r)
          <5>1. PICK j \in 1..(k - 1) : Takes(s[j], e)
            BY <4>3
          <5>2. Len(s) \in Nat
            BY <4>1 DEF IsSeq
          <5>3. j \in 1..Len(s)
            BY <5>2, <4>4
          <5>4. ProbeRule(d, j)
            BY <5>3, <1>1 DEF Rules
          <5>5. r = "code" \/ Has(s, j, r) \/ r \in Sure[d]
            BY <5>1, <5>4 DEF ProbeRule, Firm
          <5>6. Has(s, j, r) => Has(s, k, r)
            BY <5>2, <5>3, <4>4 DEF Has
          <5>7. "code" \in held
            BY <1>4 DEF LInv, KeepPart, Ending
          <5> QED
            BY <5>5, <5>6, <5>7, <4>3, <4>5 DEF Presumed, Settled
        <4> QED
          BY <4>5, <4>6, <4>7
      <3>2. CASE Undo /\ managed = Given[drv] /\ Settled(drv, held, freed)
        BY <3>2, <1>d
      <3> QED
        BY <3>1, <3>2, <1>4 DEF LInv, ProbePart
    <2>2. BoundPart' /\ InitPart' /\ ProbePart'
      BY <2>1, <1>p, <1>2, <1>4 DEF BoundPart, InitPart, ProbePart, Settled
    <2>3. KeepPart'
      BY <1>p, <1>2, <1>4 DEF LInv, KeepPart, Ending
    <2>4. FirmPart'
      <3>1. ASSUME NEW e \in Firm(d) \cap held, NEW r \in Driver[d].needs[e]
            PROVE  Presumed(d, held, freed, r)
        <4>1. CASE e \in Transient[d]
          BY <4>1, <2>1, <3>1
        <4>2. CASE e \in Lasting[d]
          <5>1. r = "code" \/ r \in Sure[d] \/ InitSure(d, r)
            BY <4>2, <3>1, <1>n DEF NeedRule
          <5>2. "code" \in held /\ \A x : InitSure(d, x) => Presumed(d, held, freed, x)
            BY <1>4 DEF LInv, KeepPart, Ending
          <5> QED
            BY <5>1, <5>2, <2>1 DEF Presumed, Settled
        <4> QED
          BY <4>1, <4>2, <3>1 DEF Firm
      <3> QED
        BY <3>1, <1>p, <1>2, <1>4 DEF FirmPart, This
    <2> QED
      BY <2>2, <2>3, <2>4, <1>2, <1>4, <1>r, <1>t DEF LInv, Phases
  <1>5. CASE phase = "exit" /\ phase' = "gone"
    <2>1. Transient[d] \cap held = {} /\ Lasting[d] \cap held = {}
      BY <1>5, <1>d DEF LInv
    <2>2. BoundPart' /\ InitPart' /\ ProbePart' /\ KeepPart'
      BY <1>2, <1>5 DEF LInv, BoundPart, InitPart, ProbePart, KeepPart, Ending, Types
    <2>3. FirmPart'
      BY <2>1, <1>2, <1>5 DEF FirmPart, Firm
    <2> QED
      BY <2>2, <2>3, <1>2, <1>5, <1>r, <1>t DEF LInv, Phases
  <1> QED
    BY <1>3, <1>4, <1>5 DEF Return

\* ... when a device comes ...
LEMMA BindStep ==
    ASSUME AllRules, LInv, Bind
    PROVE  LInv'
  <1> DEFINE d == drv  s == Driver[d].probe
  <1>1. d \in Drivers /\ Rules(d) /\ TypeRule(d) /\ ReleasedOnce
    BY DEF AllRules, LInv, Types
  <1>2. /\ phase = "idle" /\ phase' = "probe" /\ todo' = s
        /\ UNCHANGED <<drv, held, freed, misused, managed, bound>>
    BY DEF Bind, Begin, This
  <1>3. ~bound /\ managed = <<>> /\ Len(managed) = 0 /\ Transient[d] \cap held = {}
    BY <1>2, Empty DEF LInv, BoundPart, FirmPart
  <1>4. IsSeq(s) /\ 1 \in 1..(Len(s) + 1) /\ Upto[d][1] = 0
    BY <1>1 DEF TypeRule, IsSeq
  <1>5. ProbePart'
    <2>1. s = Rest(s, 1)
      BY <1>4 DEF IsSeq, Rest
    <2>2. \A x : ~Has(s, 1, x)
      BY DEF Has
    <2>3. At(1)'
      BY <2>1, <2>2, <1>2, <1>3, <1>4 DEF At, This
    <2> QED
      BY <2>3, <1>2, <1>4 DEF ProbePart, This
  <1>6. Types'
    BY <1>2, <1>4 DEF LInv, Types, Phases
  <1>p. \A x : Presumed(drv', held', freed', x) <=> Presumed(d, held, freed, x)
    BY <1>2
  <1>7. InitPart' /\ BoundPart' /\ KeepPart'
    BY <1>p, <1>2, <1>3 DEF LInv, InitPart, BoundPart, KeepPart, Ending
  <1>8. FirmPart'
    <2>1. ASSUME NEW e \in Firm(d) \cap held, NEW r \in Driver[d].needs[e]
          PROVE  Presumed(d, held, freed, r) \/ Except(d, "probe", e, r)
      <3>1. e \in Lasting[d] /\ NeedRule(d, e)
        BY <1>1, <1>3, <2>1 DEF Firm, TypeRule, Rules
      <3>2. Presumed(d, held, freed, r) \/ Except(d, "idle", e, r)
        BY <2>1, <1>2 DEF LInv, FirmPart, This
      <3>3. ~Except(d, "idle", e, r) \/ \A p \in Unbound : Except(d, p, e, r)
        BY <3>1, <2>1 DEF NeedRule, Phases, Ending
      <3> QED
        BY <3>2, <3>3 DEF Unbound, Phases
    <2> QED
      BY <2>1, <1>p, <1>2 DEF FirmPart, This
  <1>9. ReleasedOnce'
    BY <1>1, <1>2, OnceKept
  <1> QED
    BY <1>2, <1>5, <1>6, <1>7, <1>8, <1>9 DEF LInv

\* ... or goes, ...
LEMMA UnbindStep ==
    ASSUME AllRules, LInv, Unbind
    PROVE  LInv'
  <1> DEFINE d == drv  w == Driver[d].remove \o Unwinding
  <1>1. d \in Drivers /\ Rules(d) /\ TypeRule(d) /\ ReleasedOnce /\ IsSeq(managed)
    BY DEF AllRules, LInv, Types
  <1>2. /\ phase = "bound" /\ phase' = "remove" /\ todo' = w /\ managed' = <<>> /\ bound' = FALSE
        /\ UNCHANGED <<drv, held, freed, misused>>
    BY DEF Unbind, Begin, This
  <1>3. managed = Given[d] /\ Settled(d, held, freed)
    BY <1>2 DEF LInv, BoundPart
  <1>4. Clears(d, w)
    BY <1>1, <1>3, UnwindingPuts, RemoveClears
  <1> HIDE DEF w
  <1>5. Transient[d] \cap Lasting[d] = {}
    BY <1>1 DEF TypeRule
  <1>6. Plan(d, "remove", w, held, freed, <<>>, FALSE) /\ IsSeq(w)
    BY <1>3, <1>4, <1>5, PlanRemove DEF Clears
  <1>7. Types' /\ Undo'
    BY <1>2, <1>6, Empty DEF LInv, Types, Undo, Phases
  <1>p. \A x : Presumed(drv', held', freed', x) <=> Presumed(d, held, freed, x)
    BY <1>2
  <1>8. InitPart' /\ BoundPart' /\ ProbePart' /\ KeepPart'
    BY <1>p, <1>2 DEF LInv, InitPart, BoundPart, ProbePart, KeepPart, Ending
  <1>9. FirmPart'
    <2>1. ASSUME NEW e \in Firm(d) \cap held, NEW r \in Driver[d].needs[e]
          PROVE  Presumed(d, held, freed, r)
      <3>1. NeedRule(d, e) /\ (Presumed(d, held, freed, r) \/ Except(d, "bound", e, r))
        BY <1>1, <1>2, <2>1 DEF TypeRule, Rules, LInv, FirmPart, This
      <3> QED
        BY <3>1, <2>1 DEF NeedRule
    <2> QED
      BY <2>1, <1>p, <1>2 DEF FirmPart, This
  <1>10. ReleasedOnce'
    BY <1>1, <1>2, OnceKept
  <1> QED
    BY <1>2, <1>7, <1>8, <1>9, <1>10 DEF LInv

\* ... at rmmod ...
LEMMA UnloadStep ==
    ASSUME AllRules, LInv, Unload
    PROVE  LInv'
  <1> DEFINE d == drv  s == Driver[d].exit  w == s \o <<Put("code")>>
  <1>1. d \in Drivers /\ Rules(d) /\ TypeRule(d) /\ ReleasedOnce
    BY DEF AllRules, LInv, Types
  <1>2. /\ phase \in {"idle", "bound"} /\ phase' = "exit" /\ todo' = w
        /\ UNCHANGED <<drv, held, freed, misused, managed, bound>>
    BY DEF Unload, Begin, This
  <1>3. /\ phase = "idle" => ~bound /\ managed = <<>> /\ Transient[d] \cap held = {}
        /\ phase = "bound" => bound /\ managed = Given[d] /\ Settled(d, held, freed)
    BY DEF LInv, BoundPart, FirmPart
  <1>4. \A n \in 1..Len(managed) : managed[n] \notin KeptBy(d)
    <2>1. CASE phase = "idle"
      BY <2>1, <1>3, Empty
    <2>2. CASE phase = "bound"
      BY <2>2, <1>1, <1>3 DEF Rules, GivenRule
    <2> QED
      BY <2>1, <2>2, <1>2
  <1>5. /\ \A x : InitSure(d, x) => Presumed(d, held, freed, x)
        /\ "code" \in held /\ freed \cap KeptBy(d) = {}
        /\ Transient[d] \cap held # {} => bound
    BY <1>2, <1>3 DEF LInv, KeepPart, Ending
  <1>6. IsSeq(w) /\ Plan(d, "exit", w, held, freed, managed, bound)
    BY <1>1, <1>4, <1>5, PlanUnload
  <1>7. \A x \in Sure[d] : Untouched(d, x) => NotBefore(w, Len(w) + 1, x)
    <2>1. /\ Len(s) \in Nat /\ Len(w) = Len(s) + 1
          /\ \A i \in 1..Len(s) : w[i] = s[i]
          /\ w[Len(s) + 1] = Put("code")
      BY <1>1, EndsWithCode DEF TypeRule
    <2>2. "code" \notin Sure[d]
      BY <1>1 DEF TypeRule
    <2>3. \A i \in 1..(Len(w) + 1 - 1) : i \in 1..(Len(s) + 1 - 1) \/ i = Len(s) + 1
      BY <2>1
    <2>4. ASSUME NEW x \in Sure[d], Untouched(d, x), NEW i \in 1..(Len(w) + 1 - 1)
          PROVE  ~Drops(w[i], x)
      <3>1. CASE i \in 1..(Len(s) + 1 - 1)
        BY <3>1, <2>1, <2>4 DEF Untouched, NotBefore
      <3>2. CASE i = Len(s) + 1
        BY <3>2, <2>1, <2>2, <2>4, FieldsOfPut
      <3> QED
        BY <2>3, <2>4, <3>1, <3>2
    <2> HIDE DEF w
    <2> QED
      BY <2>4 DEF NotBefore
  <1> HIDE DEF w
  <1>8. Types' /\ Undo'
    BY <1>2, <1>6 DEF LInv, Types, Undo, Phases
  <1>9. InitPart' /\ ProbePart' /\ KeepPart'
    BY <1>2 DEF InitPart, ProbePart, KeepPart, Ending
  <1>p. \A x : Presumed(drv', held', freed', x) <=> Presumed(d, held, freed, x)
    BY <1>2
  <1>10. BoundPart'
    BY <1>p, <1>2, <1>3, <1>7 DEF BoundPart, Settled
  <1>11. FirmPart'
    <2>1. ASSUME NEW e \in Firm(d) \cap held, NEW r \in Driver[d].needs[e]
          PROVE  Presumed(d, held, freed, r) \/ Except(d, "exit", e, r)
      <3>1. NeedRule(d, e) /\ (Presumed(d, held, freed, r) \/ Except(d, phase, e, r))
        BY <1>1, <2>1 DEF TypeRule, Rules, LInv, FirmPart, This
      <3>2. CASE phase = "bound"
        BY <3>1, <3>2, <2>1 DEF NeedRule
      <3>3. CASE phase = "idle"
        <4>1. e \in Lasting[d]
          BY <3>3, <1>3, <2>1 DEF Firm
        <4>2. ~Except(d, "idle", e, r) \/ \A p \in Unbound : Except(d, p, e, r)
          BY <4>1, <3>1, <2>1 DEF NeedRule, Phases, Ending
        <4> QED
          BY <3>1, <3>3, <4>2 DEF Unbound, Phases
      <3> QED
        BY <3>2, <3>3, <1>2
    <2> QED
      BY <2>1, <1>p, <1>2 DEF FirmPart, This
  <1>12. ReleasedOnce'
    BY <1>1, <1>2, OnceKept
  <1> QED
    BY <1>2, <1>8, <1>9, <1>10, <1>11, <1>12 DEF LInv

\* The work items.
LEMMA WorkStep ==
    ASSUME AllRules, LInv, Queue \/ WorkDone, "irq" \in Transient["example_regmap"]
    PROVE  LInv'
  <1> DEFINE d == drv
  <1>1. d \in Drivers /\ Rules(d) /\ TypeRule(d) /\ ReleasedOnce
    BY DEF AllRules, LInv, Types
  <1>2. /\ UNCHANGED <<drv, phase, todo, freed, managed, bound, misused>>
        /\ \A x : x # "work" => (x \in held <=> x \in held')
        /\ phase = "init" => FALSE
    <2>1. phase = "init" => Transient[d] \cap held = {} /\ "work" \notin held
      <3> SUFFICES ASSUME phase = "init" PROVE Transient[d] \cap held = {} /\ "work" \notin held
        OBVIOUS
      <3>1. Transient[d] \cap held = {}
        BY DEF LInv, FirmPart
      <3> DEFINE s == Driver[d].init
      <3>2. PICK k \in 1..(Len(s) + 1) :
              \A x \in held : x = "code" \/ \E j \in 1..(k - 1) : s[j].op = "get" /\ x = s[j].x
        BY DEF LInv, InitPart, This
      <3>3. Len(s) \in Nat
        BY <1>1 DEF TypeRule, IsSeq
      <3>4. \A j \in 1..(k - 1) : s[j].x # "work"
        BY <1>1, <3>3 DEF Rules, InitRule
      <3> QED
        BY <3>1, <3>2, <3>4
    <2>2. CASE Queue
      BY <2>1, <2>2 DEF Queue
    <2>3. CASE WorkDone
      BY <2>1, <2>3 DEF WorkDone
    <2> QED
      BY <2>2, <2>3
  <1>3. "work" \notin KeptBy(d) \cup Sure[d] \cup Firm(d)
    BY <1>1 DEF TypeRule
  <1>p. \A x : x # "work" => (Presumed(drv', held', freed', x) <=> Presumed(d, held, freed, x))
    BY <1>2 DEF Presumed
  <1>4. Undo => Undo'
    BY <1>2, <1>3, PlanWork DEF Undo
  <1>5. Types' /\ InitPart'
    BY <1>2 DEF LInv, Types, InitPart
  <1>s. Settled(drv', held', freed') <=> Settled(d, held, freed)
    BY <1>p, <1>2, <1>3 DEF Settled
  <1>6. BoundPart'
    BY <1>p, <1>s, <1>2, <1>3 DEF LInv, BoundPart
  <1>7. KeepPart'
    <2>1. \A x : InitSure(d, x) => x # "work"
      BY <1>1, <1>3, InitSureKept
    <2> QED
      BY <2>1, <1>p, <1>2 DEF LInv, KeepPart
  <1>8. FirmPart'
    <2>1. ASSUME NEW e \in Firm(d) \cap held', NEW r \in Driver[d].needs[e]
          PROVE  Presumed(drv', held', freed', r) \/ Except(d, phase, e, r)
      <3>1. e \in held
        BY <2>1, <1>2, <1>3
      <3>2. r # "work"
        BY <2>1, <1>1 DEF TypeRule, Rules, NeedRule
      <3> QED
        BY <3>1, <3>2, <2>1, <1>p, <1>2 DEF LInv, FirmPart, This
    <2> QED
      BY <2>1, <1>2, <1>3 DEF LInv, FirmPart, This, Firm
  <1>9. ProbePart'
    <2> SUFFICES ASSUME phase = "probe" PROVE ProbePart'
      BY <1>2 DEF ProbePart
    <2>1. CASE \E k \in 1..(Len(This.probe) + 1) : At(k)
      <3> DEFINE s == Driver[d].probe
      <3>1. PICK k \in 1..(Len(s) + 1) : At(k)
        BY <2>1 DEF This
      <3>2. /\ todo = Rest(s, k)
            /\ Len(managed) = Upto[d][k]
            /\ \A n \in 1..Len(managed) : managed[n] = Given[d][n] /\ managed[n] \in held
            /\ \A x : Has(s, k, x) => Presumed(d, held, freed, x)
            /\ \A e \in Transient[d] \cap held : \E j \in 1..(k - 1) : Takes(s[j], e)
        BY <3>1 DEF At, This
      <3>3. Len(s) \in Nat /\ k \in 1..(Len(s) + 1)
        BY <1>1 DEF TypeRule, IsSeq
      <3>4. \A x : Has(s, k, x) => x # "work"
        <4>1. ASSUME NEW x, Has(s, k, x) PROVE x # "work"
          <5>1. PICK j \in 1..(k - 1) : Surely(s[j], x)
            BY <4>1 DEF Has
          <5>2. j \in 1..Len(s)
            BY <3>3
          <5>3. ProbeRule(d, j)
            BY <5>2, <1>1 DEF Rules
          <5> QED
            BY <5>1, <5>3 DEF ProbeRule, Surely, Takes
        <4> QED
          BY <4>1
      <3>5. \A n \in 1..Len(managed) : managed[n] # "work"
        <4>1. Len(managed) <= Len(Given[d]) /\ Len(managed) \in Nat /\ Len(Given[d]) \in Nat
          <5>1. IsSeq(managed) /\ IsSeq(Given[d]) /\ Upto[d][Len(s) + 1] = Len(Given[d])
            BY <1>1 DEF LInv, Types, TypeRule
          <5>2. k \in 1..Len(s) => Upto[d][k] \in 0..Len(Given[d])
            BY <1>1 DEF Rules, ProbeRule
          <5>3. Len(Given[d]) \in Nat
            BY <5>1 DEF IsSeq
          <5>4. k \in 1..Len(s) \/ k = Len(s) + 1
            BY <3>3
          <5> QED
            BY <5>1, <5>2, <5>3, <5>4, <3>2
        <4>2. \A n \in 1..Len(Given[d]) : GivenRule(d, n)
          BY <1>1 DEF Rules
        <4> QED
          BY <4>1, <4>2, <3>2 DEF GivenRule
      <3>6. At(k)'
        BY <3>2, <3>4, <3>5, <1>p, <1>2, <1>3 DEF At, This, Firm
      <3> QED
        BY <3>6, <3>1, <1>2 DEF ProbePart, This
    <2>2. CASE /\ Undo /\ managed = Given[drv] /\ Settled(drv, held, freed)
               /\ \A x \in Sure[drv] : NotBefore(todo, Len(todo) + 1, x)
      BY <2>2, <1>s, <1>2, <1>3, <1>4 DEF ProbePart
    <2> QED
      BY <2>1, <2>2 DEF LInv, ProbePart
  <1>10. ReleasedOnce'
    BY <1>1, <1>2, OnceKept
  <1> QED
    BY <1>2, <1>4, <1>5, <1>6, <1>7, <1>8, <1>9, <1>10 DEF LInv

\* Every step keeps the invariant, ...
LEMMA LStep ==
    ASSUME AllRules, LInv, [Next]_vars, "irq" \in Transient["example_regmap"]
    PROVE  LInv'
  <1>1. CASE Step
    <2>1. CASE UndoState
      BY <1>1, <2>1, UndoStep
    <2>2. CASE phase = "init"
      BY <1>1, <2>2, InitStep
    <2>3. CASE phase = "probe" /\ ~UndoState
      <3>1. PICK k \in 1..(Len(This.probe) + 1) : At(k)
        BY <2>3 DEF LInv, ProbePart, UndoState
      <3> QED
        BY <1>1, <2>3, <3>1, ProbeStep
    <2>4. phase \in {"init", "probe", "failing", "remove", "exit"}
      BY <1>1 DEF LInv, Types, Phases, Step
    <2>5. phase \in {"failing", "remove", "exit"} => UndoState
      BY DEF LInv, UndoState
    <2> QED
      BY <2>1, <2>2, <2>3, <2>4, <2>5
  <1>2. CASE UNCHANGED vars
    BY <1>2 DEF vars, LInv, Types, InitPart, BoundPart, ProbePart, KeepPart, FirmPart, Undo, At,
                ReleasedOnce, This, Overlooks, Settled, Presumed
  <1> QED
    BY <1>1, <1>2, ReturnStep, BindStep, UnbindStep, UnloadStep, WorkStep DEF Next

\* ... and under it every entry has what it needs, or the table has the exception.
LEMMA LBacked == ASSUME AllRules, LInv PROVE EntriesBacked
  <1> DEFINE d == drv
  <1>1. d \in Drivers /\ Rules(d) /\ TypeRule(d) /\ phase \in Phases
    BY DEF AllRules, LInv, Types
  <1> SUFFICES ASSUME NEW e \in DOMAIN Driver[d].needs \cap held, NEW r \in Driver[d].needs[e],
                      r \notin held, ~(Passed(d, r) /\ r \notin freed)
               PROVE  Except(d, phase, e, r)
    BY DEF EntriesBacked, Live, This, Except, Overlooks, Passed
  <1>p. ~Presumed(d, held, freed, r)
    BY DEF Presumed
  <1>2. CASE e \in Firm(d)
    BY <1>p, <1>2 DEF LInv, FirmPart, This
  <1>3. CASE e \notin Firm(d)
    <2>1. /\ r = "code" \/ r \in Sure[d] \/ InitSure(d, r) \/ Except(d, "bound", e, r)
          /\ \A p \in Unbound :
              Except(d, p, e, r) \/ (p \notin Ending /\ (r = "code" \/ InitSure(d, r)))
      BY <1>1, <1>3 DEF Rules, NeedRule
    <2>2. phase \notin Ending => "code" \in held
      BY DEF LInv, KeepPart
    <2>3. phase \notin Ending \cup {"init"} => \A x : InitSure(d, x) => Presumed(d, held, freed, x)
      BY DEF LInv, KeepPart
    <2>4. CASE phase = "init"
      <3> DEFINE s == Driver[d].init
      <3>1. PICK k \in 1..(Len(s) + 1) :
              /\ \A x : Has(s, k, x) => Presumed(d, held, freed, x)
              /\ \A x \in held : x = "code" \/ \E j \in 1..(k - 1) : s[j].op = "get" /\ x = s[j].x
        BY <2>4 DEF LInv, InitPart, This
      <3>2. e # "code"
        BY <1>1 DEF TypeRule
      <3>3. PICK j \in 1..(k - 1) : s[j].op = "get" /\ e = s[j].x
        BY <3>1, <3>2
      <3>4. Len(s) \in Nat
        BY <1>1 DEF TypeRule, IsSeq
      <3>5. j \in 1..Len(s)
        BY <3>4
      <3>6. r = "code" \/ Except(d, "init", e, r) \/ Has(s, j, r)
        BY <1>1, <3>3, <3>5 DEF Rules, InitRule
      <3>7. Has(s, j, r) => Has(s, k, r)
        BY <3>4, <3>5 DEF Has
      <3> QED
        BY <3>1, <3>6, <3>7, <1>p, <2>2, <2>4 DEF Ending
    <2>5. CASE phase = "bound"
      BY <1>p, <2>1, <2>2, <2>3, <2>5 DEF Ending, LInv, BoundPart, Settled
    <2>6. CASE phase \notin {"init", "bound"}
      BY <1>p, <2>1, <2>2, <2>3, <2>6, <1>1 DEF Ending, Unbound
    <2> QED
      BY <2>4, <2>5, <2>6
  <1> QED
    BY <1>2, <1>3

LEMMA LifecycleInvariant == Spec => [](LInv /\ AllRules)
  <1>1. Init => LInv
    BY RulesHold, LInit
  <1>2. LInv /\ [Next]_vars => LInv'
    <2>2. "irq" \in Transient["example_regmap"]
      BY ExampleRegmapTables
    <2> QED
      BY <2>2, RulesHold, LStep
  <1>3. AllRules
    BY RulesHold
  <1> QED
    BY <1>1, <1>2, <1>3, PTL DEF Spec

\* No entry of a driver (character device, attribute, interrupt, thread, work item) runs
\* without its code and the resources it uses, but for the exceptions of the table Exposed
\* and for what probe or init went on without (Overlooked), which nothing has taken from it
\* since: in init, probe, remove and exit of every driver, whichever call fails, the calls
\* that nobody looks at (gpio_request, kthread_run, class_create) included.
THEOREM LifecycleBacked == Spec => []EntriesBacked
  <1>1. LInv /\ AllRules => EntriesBacked
    BY LBacked
  <1> QED
    BY <1>1, LifecycleInvariant, PTL

\* No driver gives back, frees or uses what it does not have, nor frees twice, but for the
\* exceptions of the table Mishandled and for what it went on without (Overlooked), which it
\* gives back as if it were there, but once: in init, probe, remove and exit of every driver.
THEOREM LifecycleOnce == Spec => []ReleasedOnce
  <1>1. LInv => ReleasedOnce
    BY DEF LInv
  <1> QED
    BY <1>1, LifecycleInvariant, PTL
=============================================================================
