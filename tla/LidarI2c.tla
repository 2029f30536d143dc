------------------------------ MODULE LidarI2c ------------------------------
(***************************************************************************)
(* open and release of kernel/lidar_i2c-device-driver against each other   *)
(* and against rmmod: the device is exclusive, and the driver takes a      *)
(* module reference beside the one the kernel takes for fops.owner.        *)
(***************************************************************************)
EXTENDS Integers, FiniteSets

CONSTANTS Programs    \* processes that open /dev/w_lidar_i2c, user_lidar among them

NOT_USED == 0
EXCLUSIVE_OPEN == 1

VARIABLES
    already_open,   \* the atomic flag
    refs,           \* the module's reference count
    loaded,         \* the module's code is there
    pc              \* per program: its next step

vars == <<already_open, refs, loaded, pc>>

Init ==
    /\ already_open = NOT_USED /\ refs = 0 /\ loaded = TRUE
    /\ pc = [p \in Programs |-> "closed"]

Goto(p, next) == pc' = [pc EXCEPT ![p] = next]

\* open() in the kernel: a reference for fops.owner, then lidar_open is called.  The node
\* goes with the module.
VfsOpen(p) ==
    /\ pc[p] = "closed" /\ loaded
    /\ refs' = refs + 1 /\ Goto(p, "open_flag")
    /\ UNCHANGED <<already_open, loaded>>

\* Slip: the flag is read but not set.
OpenFlag_ReadOnly(p) ==
    /\ pc[p] = "open_flag"
    /\ Goto(p, IF already_open = NOT_USED THEN "open_get" ELSE "vfs_put")
    /\ UNCHANGED <<already_open, refs, loaded>>

\* atomic_cmpxchg: the loser gets EBUSY, and the kernel puts its reference.
OpenFlag(p) ==
    /\ pc[p] = "open_flag"
    /\ IF already_open = NOT_USED
       THEN already_open' = EXCLUSIVE_OPEN /\ Goto(p, "open_get")
       ELSE Goto(p, "vfs_put") /\ UNCHANGED already_open
    /\ UNCHANGED <<refs, loaded>>

\* try_module_get, which cannot fail here.
OpenGet(p) ==
    /\ pc[p] = "open_get"
    /\ refs' = refs + 1 /\ Goto(p, "open")
    /\ UNCHANGED <<already_open, loaded>>

\* The last descriptor is closed and lidar_release called; a killed program's too.
Close(p) ==
    /\ pc[p] = "open"
    /\ Goto(p, "release_flag")
    /\ UNCHANGED <<already_open, refs, loaded>>

\* atomic_set
ReleaseFlag(p) ==
    /\ pc[p] = "release_flag"
    /\ already_open' = NOT_USED /\ Goto(p, "release_put")
    /\ UNCHANGED <<refs, loaded>>

\* module_put
ReleasePut(p) ==
    /\ pc[p] = "release_put"
    /\ refs' = refs - 1 /\ Goto(p, "vfs_put")
    /\ UNCHANGED <<already_open, loaded>>

\* The kernel puts the reference it took for fops.owner.
VfsPut(p) ==
    /\ pc[p] = "vfs_put"
    /\ refs' = refs - 1 /\ Goto(p, "closed")
    /\ UNCHANGED <<already_open, loaded>>

\* rmmod: refused while there are references; lidar_drv_exit removes the node.
Unload ==
    /\ loaded /\ refs = 0
    /\ loaded' = FALSE
    /\ UNCHANGED <<already_open, refs, pc>>

\* insmod: the flag is initialised with the module's data.
Load ==
    /\ ~loaded
    /\ loaded' = TRUE /\ already_open' = NOT_USED
    /\ UNCHANGED <<refs, pc>>

Next ==
    \/ \E p \in Programs :
        \/ VfsOpen(p) \/ OpenFlag(p) \/ OpenGet(p) \/ Close(p)
        \/ ReleaseFlag(p) \/ ReleasePut(p) \/ VfsPut(p)
    \/ Unload \/ Load

Spec == Init /\ [][Next]_vars

-----------------------------------------------------------------------------
(* Properties *)

Holders == {p \in Programs : pc[p] \in {"open_get", "open", "release_flag"}}

\* CDEV_EXCLUSIVE_OPEN: opens and releases racing, at most one program has the device,
\* and the device is never marked in use with nobody to release it.
Exclusive == Cardinality(Holders) = already_open

\* Every program in one of the module's functions holds a reference of its own, so rmmod
\* cannot take the code away under it; and none is left over to block rmmod for ever.
References ==
    /\ refs = Cardinality({p \in Programs : pc[p] # "closed"})
                + Cardinality({p \in Programs : pc[p] \in {"open", "release_flag", "release_put"}})
    /\ ~loaded => \A p \in Programs : pc[p] = "closed"
=============================================================================
