------------------------------ MODULE PwmMotor ------------------------------
(***************************************************************************)
(* The servo driver kernel/pwm_device_driver: ioctls on /dev/w_pwm_motor   *)
(* read the PWM's state, change a field and apply the state, in steps that *)
(* nothing serialises, for the programs user_pwm, display_st7796s and      *)
(* uav_project: each turns the servo on first and then sets duty cycles.   *)
(* The driver can be unbound at any time.                                  *)
(***************************************************************************)
EXTENDS Integers, FiniteSets

CONSTANTS
    Programs,    \* tasks that have the device open
    Duties,      \* duty cycles the programs ask for
    Period,      \* the PWM's period: a longer duty cycle is refused
    MaxFail      \* bound: applications of a state the controller fails

State == [enabled : BOOLEAN, duty : Duties \cup {0}]

VARIABLES
    hw,       \* the PWM's state; the period is the device tree's
    pc,       \* per program: "start", "idle", "got", "dead"
    cmd,      \* per program: the ioctl in progress
    arg,      \* per program: its argument
    local,    \* per program: state, the ioctl's local variable
    fails,    \* states the controller has failed to apply
    onOK,     \* history, per program: its PWM_MOTOR_ON was applied
    bound     \* the driver is bound

vars == <<hw, pc, cmd, arg, local, fails, onOK, bound>>

\* pwm_init_state, disabled.
Init ==
    /\ hw = [enabled |-> FALSE, duty |-> 0]
    /\ pc = [p \in Programs |-> "start"]
    /\ cmd = [p \in Programs |-> "ON"]
    /\ arg = [p \in Programs |-> 0]
    /\ local = [p \in Programs |-> hw]
    /\ fails = 0
    /\ onOK = [p \in Programs |-> FALSE]
    /\ bound = TRUE

\* An ioctl up to and with pwm_get_state.  A duty cycle the driver fails to copy from the
\* program is 0.  After remove an ioctl would use a freed servo_motor: that is left out.
Ioctl(p, c, d) ==
    /\ bound
    /\ pc' = [pc EXCEPT ![p] = "got"]
    /\ cmd' = [cmd EXCEPT ![p] = c] /\ arg' = [arg EXCEPT ![p] = d]
    /\ local' = [local EXCEPT ![p] = hw]
    /\ UNCHANGED <<hw, fails, onOK, bound>>

\* PWM_MOTOR_ON
OnGet(p) == pc[p] = "start" /\ \E d \in Duties \cup {0} : Ioctl(p, "ON", d)

\* PWM_MOTOR_SET_DUTYCYCLE
SetGet(p) == pc[p] = "idle" /\ \E d \in Duties \cup {0} : Ioctl(p, "SET", d)

\* PWM_MOTOR_OFF, which no program of the repository uses, falls to default and does
\* nothing.
Off(p) ==
    /\ pc[p] = "idle"
    /\ cmd' = [cmd EXCEPT ![p] = "OFF"]
    /\ UNCHANGED <<hw, pc, arg, local, fails, onOK, bound>>

\* Slip: SET starts from pwm_init_state, as probe does, instead of pwm_get_state.
Changed_FromInit(p) == [enabled |-> cmd[p] = "ON", duty |-> arg[p]]

Changed(p) == [enabled |-> cmd[p] = "ON" \/ local[p].enabled, duty |-> arg[p]]

\* pwm_apply_state refuses a duty cycle longer than the period.
Accepted(s) == s.duty <= Period

\* pwm_apply_state.  An error is returned by the helper and ignored by the ioctl.
Apply(p) ==
    /\ pc[p] = "got"
    /\ \/ /\ Accepted(Changed(p))
          /\ hw' = Changed(p)
          /\ onOK' = [onOK EXCEPT ![p] = @ \/ cmd[p] = "ON"]
          /\ UNCHANGED fails
       \/ /\ ~Accepted(Changed(p))
          /\ UNCHANGED <<hw, onOK, fails>>
       \/ /\ Accepted(Changed(p)) /\ fails < MaxFail
          /\ fails' = fails + 1
          /\ UNCHANGED <<hw, onOK>>
    /\ pc' = [pc EXCEPT ![p] = "idle"]
    /\ UNCHANGED <<cmd, arg, local, bound>>

\* A program ends between two calls; the driver has no release.
Quit(p) ==
    /\ pc[p] = "idle"
    /\ pc' = [pc EXCEPT ![p] = "dead"]
    /\ UNCHANGED <<hw, cmd, arg, local, fails, onOK, bound>>

\* pwm_servo_motor_remove.  It does not wait for an ioctl that has read the state.
Remove ==
    /\ bound
    /\ hw' = [hw EXCEPT !.enabled = FALSE]
    /\ bound' = FALSE
    /\ UNCHANGED <<pc, cmd, arg, local, fails, onOK>>

Next ==
    \/ \E p \in Programs : OnGet(p) \/ SetGet(p) \/ Off(p) \/ Apply(p) \/ Quit(p)
    \/ Remove

Spec == Init /\ [][Next]_vars

-----------------------------------------------------------------------------
(* Properties *)

\* Types, and the controller is never given a duty cycle longer than its period.
TypeOK ==
    /\ hw \in State /\ hw.duty <= Period
    /\ pc \in [Programs -> {"start", "idle", "got", "dead"}]
    /\ cmd \in [Programs -> {"ON", "OFF", "SET"}]
    /\ arg \in [Programs -> Duties \cup {0}]
    /\ local \in [Programs -> State]
    /\ fails \in 0..MaxFail
    /\ onOK \in [Programs -> BOOLEAN] /\ bound \in BOOLEAN

\* Get and apply of different programs interleave, so an apply may write back an old
\* "disabled".  It never turns off a servo that its own program has turned on: as long as
\* every program's ON was applied before its next call, the servo stays on until remove.
\* (One ON that failed, unnoticed, is enough to lose the others' ON, also much later: a
\* third program may have read the state in between.)
StaysOn ==
    [][hw.enabled /\ ~hw'.enabled =>
          ~bound' \/ \E p \in Programs : cmd[p] # "ON" /\ ~onOK[p]]_vars
=============================================================================
