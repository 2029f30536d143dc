------------------------------ MODULE PwmSysfs ------------------------------
(***************************************************************************)
(* The servo driver kernel/pwm_device_driver_sys: the sysfs attributes     *)
(* angle and standby.  Writes through different open files run side by     *)
(* side, and each is made of a test or a read of the PWM's state, an       *)
(* application of a new state and the update of the driver's copy.         *)
(***************************************************************************)
EXTENDS Integers, Sequences, FiniteSets

CONSTANTS
    Writers,   \* open files on the attributes
    Angles     \* numbers written to angle

MaxAngle == 180
MinDuty == 500000                          \* SERVO_MIN_DUTY
Degree == (2550000 - MinDuty) \div 180     \* SERVO_DEGREE
Duty(angle) == MinDuty + Degree * angle

VARIABLES
    enabled, duty,               \* the PWM's state
    angle, angleDuty, standby,   \* struct pwm_servo_motor
    pc, val,                     \* per writer: next step, the number being written
    was, wasDuty,                \* per writer: the state the PWM core has read
    alone,                       \* history: the last values (at most two) one writer has
                                 \* stored in standby while no other write ran
    overlapped                   \* history: two writes have run at the same time

hwVars == <<enabled, duty>>
devVars == <<angle, angleDuty, standby>>
localVars == <<val, was, wasDuty>>
history == <<alone, overlapped>>
vars == <<hwVars, devVars, pc, localVars, history>>

NoWriter == "nobody"

Init ==
    /\ enabled = FALSE /\ duty = MinDuty
    /\ angle = 0 /\ angleDuty = MinDuty /\ standby = 1
    /\ pc = [w \in Writers |-> "idle"]
    /\ val = [w \in Writers |-> 0]
    /\ was = [w \in Writers |-> FALSE] /\ wasDuty = [w \in Writers |-> MinDuty]
    /\ alone = [by |-> NoWriter, last |-> <<>>] /\ overlapped = FALSE

Quiet(w) == \A v \in Writers \ {w} : pc[v] = "idle"

\* A write begins: a history of lone stores goes on only with its own writer.
Begins(w, next, v) ==
    /\ pc[w] = "idle"
    /\ pc' = [pc EXCEPT ![w] = next]
    /\ val' = [val EXCEPT ![w] = v]
    /\ alone' = IF alone.by = w /\ Quiet(w) THEN alone
                ELSE [by |-> IF Quiet(w) THEN w ELSE NoWriter, last |-> <<>>]
    /\ overlapped' = (overlapped \/ ~Quiet(w))
    /\ UNCHANGED <<hwVars, devVars, was, wasDuty>>

-----------------------------------------------------------------------------
(* pwm_servo_store_angle *)

\* Slip: the range is that of an unsigned byte.
InRange_Byte(v) == v <= 255

InRange(v) == v <= MaxAngle

\* kstrtoul and the range check: anything else is refused and changes nothing.
AngleBegin(w) == \E v \in Angles : InRange(v) /\ Begins(w, "angle", v)

\* pwm_config: the core reads the state ...
AngleGet(w) ==
    /\ pc[w] = "angle"
    /\ was' = [was EXCEPT ![w] = enabled] /\ wasDuty' = [wasDuty EXCEPT ![w] = duty]
    /\ pc' = [pc EXCEPT ![w] = "angle_apply"]
    /\ UNCHANGED <<hwVars, devVars, val, history>>

\* ... and applies it with the new duty cycle; or the controller fails.
AngleApply(w) ==
    /\ pc[w] = "angle_apply"
    /\ \/ /\ enabled' = was[w] /\ duty' = Duty(val[w])
          /\ pc' = [pc EXCEPT ![w] = "angle_store"]
       \/ /\ pc' = [pc EXCEPT ![w] = "idle"]
          /\ UNCHANGED hwVars
    /\ UNCHANGED <<devVars, localVars, history>>

AngleStore(w) ==
    /\ pc[w] = "angle_store"
    /\ angle' = val[w] /\ angleDuty' = Duty(val[w])
    /\ pc' = [pc EXCEPT ![w] = "idle"]
    /\ UNCHANGED <<hwVars, standby, localVars, history>>

-----------------------------------------------------------------------------
(* pwm_servo_store_standby *)
StandbyBegin(w) == \E v \in {0, 1} : Begins(w, "standby", v)

\* The test of standby; a store of the value it has does not touch the PWM.
StandbyTest(w) ==
    /\ pc[w] = "standby"
    /\ pc' = [pc EXCEPT ![w] = IF standby # val[w] THEN "standby_get" ELSE "standby_store"]
    /\ UNCHANGED <<hwVars, devVars, localVars, history>>

\* pwm_disable, pwm_enable: the core reads the state ...
StandbyGet(w) ==
    /\ pc[w] = "standby_get"
    /\ was' = [was EXCEPT ![w] = enabled] /\ wasDuty' = [wasDuty EXCEPT ![w] = duty]
    /\ pc' = [pc EXCEPT ![w] = "standby_apply"]
    /\ UNCHANGED <<hwVars, devVars, val, history>>

\* Slip: an enable that fails is stored all the same.
StandbyApply_IgnoresError(w) ==
    /\ pc[w] = "standby_apply"
    /\ \/ enabled' = (val[w] = 0) /\ duty' = wasDuty[w]
       \/ val[w] = 0 /\ UNCHANGED hwVars
    /\ pc' = [pc EXCEPT ![w] = "standby_store"]
    /\ UNCHANGED <<devVars, localVars, history>>

\* ... and applies it.  Only an enable that fails is noticed; a disable is taken not to.
StandbyApply(w) ==
    /\ pc[w] = "standby_apply"
    /\ \/ /\ enabled' = (val[w] = 0) /\ duty' = wasDuty[w]
          /\ pc' = [pc EXCEPT ![w] = "standby_store"]
       \/ /\ val[w] = 0
          /\ pc' = [pc EXCEPT ![w] = "idle"]
          /\ UNCHANGED hwVars
    /\ UNCHANGED <<devVars, localVars, history>>

StandbyStore(w) ==
    /\ pc[w] = "standby_store"
    /\ standby' = val[w]
    /\ pc' = [pc EXCEPT ![w] = "idle"]
    /\ alone' = IF alone.by = w
                THEN [alone EXCEPT !.last = (IF Len(@) < 2 THEN @ ELSE Tail(@)) \o <<val[w]>>]
                ELSE alone
    /\ UNCHANGED <<hwVars, angle, angleDuty, localVars, overlapped>>

Next ==
    \E w \in Writers :
        \/ AngleBegin(w) \/ AngleGet(w) \/ AngleApply(w) \/ AngleStore(w)
        \/ StandbyBegin(w) \/ StandbyTest(w) \/ StandbyGet(w) \/ StandbyApply(w)
        \/ StandbyStore(w)

Spec == Init /\ [][Next]_vars

-----------------------------------------------------------------------------
(* Properties *)

\* However the writes race, the servo only ever gets the pulse width of an angle from 0
\* to 180 degrees: applications of stale states mix old widths with new switches, but
\* never make up a width, and a refused angle leaves none behind.
TypeOK ==
    /\ enabled \in BOOLEAN /\ standby \in {0, 1}
    /\ {duty, angleDuty} \subseteq {Duty(v) : v \in 0..MaxAngle}
    /\ pc \in [Writers -> {"idle", "angle", "angle_apply", "angle_store", "standby",
                           "standby_get", "standby_apply", "standby_store"}]
    /\ val \in [Writers -> Angles \cup {0, 1}]
    /\ was \in [Writers -> BOOLEAN]
    /\ alone \in [by : Writers \cup {NoWriter}, last : Seq({0, 1})]

AllIdle == \A w \in Writers : pc[w] = "idle"

\* After any write that no other has overlapped, the driver's copy tells what the PWM does,
\* whichever calls of pwm_config and pwm_enable failed; pwm_disable is taken never to fail,
\* for it returns nothing the driver could look at.  Racing writes can leave the servo on
\* in standby, or off out of it, and a store of the right value then does nothing, for it
\* looks at the copy; but storing both values in turn, with nobody else at work, brings
\* them together again.
CopyTells ==
    AllIdle =>
        /\ ~overlapped => enabled = (standby = 0) /\ duty = angleDuty /\ angleDuty = Duty(angle)
        /\ Len(alone.last) = 2 /\ alone.last[1] # alone.last[2] => enabled = (standby = 0)
=============================================================================
