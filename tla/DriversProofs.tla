---------------------------- MODULE DriversProofs ----------------------------
(***************************************************************************)
(* Proofs about what MCDrivers puts side by side.  The small drivers, for  *)
(* any number of programs and any bounds: each has an inductive invariant  *)
(* of its own, and the steps of the others leave its variables alone.      *)
(*                                                                         *)
(* What MLX90640_API makes of the sensor's words, for any number of pixels *)
(* and any EEPROM: the image is never older than the frame it is accepted  *)
(* for; the pixels accepted are few and apart; the offsets and             *)
(* coefficients are those the EEPROM means.                                *)
(*                                                                         *)
(* The lifecycles: DriverLifecycleProofs, carried over to this state.      *)
(***************************************************************************)
EXTENDS MCDrivers, SequenceTheorems, FiniteSetTheorems, TLAPS

-----------------------------------------------------------------------------
(* The lidar over I2C *)

Users == Programs \cup {"user_lidar"}
Among(states) == {p \in Users : lpc[p] \in states}
InCode == Among({"open_flag", "open_get", "open", "release_flag", "release_put", "vfs_put"})
Counted == Among({"open", "release_flag", "release_put"})

LidarTypes ==
    /\ lpc \in [Users -> {"closed", "open_flag", "open_get", "open", "release_flag",
                          "release_put", "vfs_put"}]
    /\ already_open \in {0, 1} /\ refs \in Int /\ loaded \in BOOLEAN

LidarInv ==
    /\ LidarTypes
    /\ Cardinality(Lidar!Holders) = already_open
    /\ refs = Cardinality(InCode) + Cardinality(Counted)
    /\ ~loaded => InCode = {}

\* A program enters or leaves one of the sets the references count.
LEMMA OneMore ==
    ASSUME NEW S, NEW T, NEW x, IsFiniteSet(S), x \notin S, T = S \cup {x}
    PROVE  IsFiniteSet(T) /\ Cardinality(T) = Cardinality(S) + 1
  BY FS_AddElement

LEMMA OneLess ==
    ASSUME NEW S, NEW T, NEW x, IsFiniteSet(S), x \in S, T = S \ {x}
    PROVE  IsFiniteSet(T) /\ Cardinality(T) = Cardinality(S) - 1
  BY FS_RemoveElement

\* The module of the driver has the operator under a name of its own.
LEMMA SameCardinality == \A S : Lidar!Cardinality(S) = Cardinality(S)
  BY DEF Lidar!Cardinality, Cardinality

LEMMA Counts ==
    ASSUME NEW states
    PROVE  /\ IsFiniteSet(Among(states)) /\ Cardinality(Among(states)) \in Nat
           /\ Cardinality(Among(states)) = 0 <=> Among(states) = {}
  <1>1. IsFiniteSet(Users)
    BY ProgramsAssumption, FS_AddElement DEF Users
  <1>2. IsFiniteSet(Among(states))
    BY <1>1, FS_Subset, Among(states) \subseteq Users DEF Among
  <1> QED
    BY <1>2, FS_CardinalityType, FS_EmptySet

LEMMA LidarInit == Init => LidarInv
  <1> SUFFICES ASSUME Init PROVE LidarInv
    OBVIOUS
  <1>1. lpc = [p \in Users |-> "closed"] /\ already_open = 0 /\ refs = 0 /\ loaded = TRUE
    BY DEF Init, Lidar!Init, Lidar!NOT_USED, Users
  <1>2. InCode = {} /\ Counted = {} /\ Lidar!Holders = {}
    BY <1>1 DEF InCode, Counted, Among, Lidar!Holders, Users
  <1> QED
    BY <1>1, <1>2, FS_EmptySet DEF LidarInv, LidarTypes

\* The holders as one of the sets that Counts is about.
LEMMA HoldersAmong == Lidar!Holders = Among({"open_get", "open", "release_flag"})
  BY DEF Lidar!Holders, Among, Users

\* A move of p within the module's code that leaves all three sets as they are.
LEMMA LidarStep == LidarInv /\ Lidar!Next => LidarInv'
  <1> USE DEF Lidar!NOT_USED, Lidar!EXCLUSIVE_OPEN, Lidar!Goto
  <1> SUFFICES ASSUME LidarInv, Lidar!Next PROVE LidarInv'
    OBVIOUS
  <1> DEFINE Holding == Among({"open_get", "open", "release_flag"})
  <1>t. LidarTypes
    BY DEF LidarInv
  <1>0. /\ Cardinality(Holding) = already_open
        /\ refs = Cardinality(InCode) + Cardinality(Counted)
        /\ ~loaded => InCode = {}
    BY HoldersAmong DEF LidarInv
  <1>c. /\ IsFiniteSet(Holding) /\ Cardinality(Holding) \in Nat
        /\ IsFiniteSet(InCode) /\ Cardinality(InCode) \in Nat
        /\ IsFiniteSet(Counted) /\ Cardinality(Counted) \in Nat
        /\ Cardinality(Holding) = 0 => Holding = {}
        /\ Cardinality(InCode) = 0 => InCode = {}
    BY Counts DEF InCode, Counted
  <1>g. SUFFICES /\ LidarTypes'
                 /\ Cardinality(Holding') = already_open'
                 /\ refs' = Cardinality(InCode') + Cardinality(Counted')
                 /\ ~loaded' => InCode' = {}
    <2>1. Holding' = Lidar!Holders'
      BY DEF Lidar!Holders, Among, Users
    <2> QED
      BY <2>1 DEF LidarInv
  <1>1. ASSUME NEW p \in Users, Lidar!VfsOpen(p)
        PROVE  LidarTypes' /\ InCode' = InCode \cup {p} /\ p \notin InCode
               /\ Counted' = Counted /\ Holding' = Holding
               /\ refs' = refs + 1 /\ loaded' /\ UNCHANGED already_open
    BY <1>1, <1>t DEF Lidar!VfsOpen, LidarTypes, InCode, Counted, Among
  <1>2. ASSUME NEW p \in Users, Lidar!OpenFlag(p)
        PROVE  LidarTypes' /\ InCode' = InCode /\ Counted' = Counted
               /\ UNCHANGED <<refs, loaded>>
               /\ \/ /\ already_open = 0 /\ already_open' = 1
                     /\ Holding' = Holding \cup {p} /\ p \notin Holding
                  \/ Holding' = Holding /\ UNCHANGED already_open
    BY <1>2, <1>t DEF Lidar!OpenFlag, LidarTypes, InCode, Counted, Among
  <1>3. ASSUME NEW p \in Users, Lidar!OpenGet(p)
        PROVE  LidarTypes' /\ InCode' = InCode
               /\ Counted' = Counted \cup {p} /\ p \notin Counted /\ Holding' = Holding
               /\ refs' = refs + 1 /\ UNCHANGED <<already_open, loaded>>
    BY <1>3, <1>t DEF Lidar!OpenGet, LidarTypes, InCode, Counted, Among
  <1>4. ASSUME NEW p \in Users, Lidar!Close(p)
        PROVE  LidarTypes' /\ InCode' = InCode /\ Counted' = Counted /\ Holding' = Holding
               /\ UNCHANGED <<refs, already_open, loaded>>
    BY <1>4, <1>t DEF Lidar!Close, LidarTypes, InCode, Counted, Among
  <1>5. ASSUME NEW p \in Users, Lidar!ReleaseFlag(p)
        PROVE  LidarTypes' /\ InCode' = InCode /\ Counted' = Counted
               /\ Holding' = Holding \ {p} /\ p \in Holding
               /\ already_open' = 0 /\ UNCHANGED <<refs, loaded>>
    BY <1>5, <1>t DEF Lidar!ReleaseFlag, LidarTypes, InCode, Counted, Among
  <1>6. ASSUME NEW p \in Users, Lidar!ReleasePut(p)
        PROVE  LidarTypes' /\ InCode' = InCode
               /\ Counted' = Counted \ {p} /\ p \in Counted /\ Holding' = Holding
               /\ refs' = refs - 1 /\ UNCHANGED <<already_open, loaded>>
    BY <1>6, <1>t DEF Lidar!ReleasePut, LidarTypes, InCode, Counted, Among
  <1>7. ASSUME NEW p \in Users, Lidar!VfsPut(p)
        PROVE  LidarTypes' /\ InCode' = InCode \ {p} /\ p \in InCode
               /\ Counted' = Counted /\ Holding' = Holding
               /\ refs' = refs - 1 /\ UNCHANGED <<already_open, loaded>>
    BY <1>7, <1>t DEF Lidar!VfsPut, LidarTypes, InCode, Counted, Among
  <1>8. CASE Lidar!Unload
    <2>1. Cardinality(InCode) = 0
      BY <1>8, <1>0, <1>c DEF Lidar!Unload
    <2>2. LidarTypes' /\ InCode' = InCode /\ Counted' = Counted /\ Holding' = Holding
          /\ UNCHANGED <<refs, already_open>>
      BY <1>8, <1>t DEF Lidar!Unload, LidarTypes, InCode, Counted, Among
    <2> QED
      BY <2>1, <2>2, <1>0, <1>c
  <1>9. CASE Lidar!Load
    <2>1. InCode = {} /\ loaded'
      BY <1>9, <1>0 DEF Lidar!Load
    <2>2. Holding = {}
      BY <2>1 DEF InCode, Among
    <2>3. LidarTypes' /\ InCode' = InCode /\ Counted' = Counted /\ Holding' = Holding
          /\ UNCHANGED refs /\ already_open' = 0
      BY <1>9, <1>t DEF Lidar!Load, LidarTypes, InCode, Counted, Among
    <2> QED
      BY <2>1, <2>2, <2>3, <1>0, <1>c, FS_EmptySet
  <1> DEFINE Goal == /\ LidarTypes'
                     /\ Cardinality(Holding') = already_open'
                     /\ refs' = Cardinality(InCode') + Cardinality(Counted')
                     /\ ~loaded' => InCode' = {}
  <1>a. ASSUME NEW p \in Users, Lidar!VfsOpen(p) PROVE Goal
    <2>1. Cardinality(InCode') = Cardinality(InCode) + 1
      BY <1>a, <1>1, <1>c, OneMore
    <2> QED
      BY <2>1, <1>a, <1>1, <1>c, <1>0
  <1>b. ASSUME NEW p \in Users, Lidar!OpenFlag(p) PROVE Goal
    <2>1. Holding' = Holding \cup {p} /\ p \notin Holding =>
              Cardinality(Holding') = Cardinality(Holding) + 1
      BY <1>c, OneMore
    <2> QED
      BY <2>1, <1>b, <1>2, <1>c, <1>0
  <1>d. ASSUME NEW p \in Users, Lidar!OpenGet(p) PROVE Goal
    <2>1. Cardinality(Counted') = Cardinality(Counted) + 1
      BY <1>d, <1>3, <1>c, OneMore
    <2> QED
      BY <2>1, <1>d, <1>3, <1>c, <1>0
  <1>e. ASSUME NEW p \in Users, Lidar!Close(p) PROVE Goal
    BY <1>e, <1>4, <1>0
  <1>f. ASSUME NEW p \in Users, Lidar!ReleaseFlag(p) PROVE Goal
    <2>1. Cardinality(Holding') = Cardinality(Holding) - 1 /\ Cardinality(Holding') \in Nat
      BY <1>f, <1>5, <1>c, OneLess, FS_CardinalityType
    <2>2. already_open \in {0, 1}
      BY <1>t DEF LidarTypes
    <2> QED
      BY <2>1, <2>2, <1>0, <1>5, <1>f
  <1>h. ASSUME NEW p \in Users, Lidar!ReleasePut(p) PROVE Goal
    <2>1. Cardinality(Counted') = Cardinality(Counted) - 1
      BY <1>h, <1>6, <1>c, OneLess
    <2> QED
      BY <2>1, <1>h, <1>6, <1>c, <1>0
  <1>i. ASSUME NEW p \in Users, Lidar!VfsPut(p) PROVE Goal
    <2>1. Cardinality(InCode') = Cardinality(InCode) - 1
      BY <1>i, <1>7, <1>c, OneLess
    <2> QED
      BY <2>1, <1>i, <1>7, <1>c, <1>0
  <1> QED
    BY <1>8, <1>9, <1>a, <1>b, <1>d, <1>e, <1>f, <1>h, <1>i DEF Lidar!Next, Users

\* lidar_i2c's open, release and their module references against rmmod, for any number of
\* programs: one program at most has the device, it is never marked in use with nobody to
\* release it, and the module's references are just those of the programs in its code.
THEOREM LidarIsKept == Spec => []LidarKept
  <1>1. LidarInv /\ [Next]_vars => LidarInv'
    <2> SUFFICES ASSUME LidarInv, [Next]_vars PROVE LidarInv'
      OBVIOUS
    <2>1. CASE Lidar!Next
      BY <2>1, LidarStep
    <2>2. CASE UNCHANGED lidarVars
      BY <2>2 DEF lidarVars, LidarInv, LidarTypes, Lidar!Holders, InCode, Counted, Among
    <2> QED
      BY <2>1, <2>2 DEF vars, Next, Pwm_Step, Sysfs_Step, Gpio_Step, Lidar_Step, Serial_Step,
                         Display_Step, Lifecycle_Step, Calibration_Step, Image_Step
  <1>2. LidarInv => LidarKept
    <2> SUFFICES ASSUME LidarInv PROVE LidarKept
      OBVIOUS
    <2>1. InCode = {p \in Users : lpc[p] # "closed"}
      BY DEF LidarInv, LidarTypes, InCode, Among
    <2>2. Counted = {p \in Users : lpc[p] \in {"open", "release_flag", "release_put"}}
      BY DEF Counted, Among
    <2> QED
      BY <2>1, <2>2, SameCardinality DEF LidarInv, LidarTypes, InCode, Among, LidarKept,
                                         Lidar!Exclusive, Lidar!References, Users
  <1> QED
    BY LidarInit, <1>1, <1>2, PTL DEF Spec

-----------------------------------------------------------------------------
(* The lidar over a serial line *)

Cells == 0..(BufLen - 1)
Contents == [Cells -> Nat]

SerialTypes ==
    /\ buf \in Contents /\ received \in Nat
    /\ spc \in {"idle", "copy"} /\ size \in 0..BufLen /\ at \in 0..size
    /\ spc = "idle" => at = 0
    /\ next \in [{"user_lidar"} -> -1..BufLen]
    /\ got \in [{"user_lidar"} -> Contents] /\ before \in [{"user_lidar"} -> Contents]

\* No cell holds a byte later than the one that would be put into it now, so the cells only
\* grow; and a reader that has begun has seen them no larger than they are.
SerialInv ==
    /\ SerialTypes
    /\ echo = [i \in 1..received |-> i]
    /\ \A c \in Cells : buf[c] <= received + c + 1
    /\ \A r \in {"user_lidar"} : next[r] # -1 =>
           \A c \in Cells : before[r][c] <= buf[c]
    /\ \A r \in {"user_lidar"} : \A c \in Cells : c < next[r] => before[r][c] <= got[r][c]

LEMMA SerialInit == Init => SerialInv
  BY BoundsAssumption
     DEF Init, Serial!Init, Serial!Empty, Serial!Cells, Serial!Idle, SerialInv, SerialTypes,
         Cells, Contents

\* The bytes up to r, followed by the m next ones.
LEMMA Continued ==
    ASSUME NEW r \in Nat, NEW m \in Nat
    PROVE  [i \in 1..r |-> i] \o [i \in 1..m |-> r + i] = [i \in 1..(r + m) |-> i]
  <1> DEFINE s == [i \in 1..r |-> i]
             t == [i \in 1..m |-> r + i]
  <1>1. s \in Seq(Nat) /\ Len(s) = r /\ t \in Seq(Nat) /\ Len(t) = m
    OBVIOUS
  <1>2. /\ Len(s \o t) = r + m /\ s \o t \in Seq(Nat)
        /\ \A i \in 1..(r + m) : (s \o t)[i] = IF i <= r THEN s[i] ELSE t[i - r]
    BY <1>1
  <1>3. \A i \in 1..(r + m) : (s \o t)[i] = i
    BY <1>2
  <1> QED
    BY <1>2, <1>3

LEMMA SerialStep == SerialInv /\ Serial!Next => SerialInv'
  <1> SUFFICES ASSUME SerialInv, Serial!Next PROVE SerialInv'
    OBVIOUS
  <1> USE BoundsAssumption DEF SerialInv, SerialTypes, Cells, Contents, Serial!Idle,
          Serial!Cells, Serial!Empty, Serial!readVars, Serial!recvVars
  <1>1. CASE Serial!RecvBegin
    BY <1>1 DEF Serial!RecvBegin
  <1>2. CASE Serial!RecvCopy
    <2>1. at \in Cells /\ buf[at] <= received + at + 1
      BY <1>2 DEF Serial!RecvCopy
    <2>2. /\ buf' \in Contents /\ \A c \in Cells : buf[c] <= buf'[c]
          /\ \A c \in Cells : buf'[c] <= received + c + 1
      BY <1>2, <2>1 DEF Serial!RecvCopy
    <2>3. SerialTypes' /\ echo' = [i \in 1..received' |-> i]
      BY <1>2, <2>2 DEF Serial!RecvCopy
    <2>4. UNCHANGED <<received, next, got, before>>
      BY <1>2 DEF Serial!RecvCopy
    <2>5. ASSUME NEW r \in {"user_lidar"}, NEW c \in Cells, next[r] # -1
          PROVE  before[r][c] <= buf'[c]
      <3>1. before[r][c] \in Nat /\ buf[c] \in Nat /\ buf'[c] \in Nat
        BY <2>2
      <3>2. before[r][c] <= buf[c] /\ buf[c] <= buf'[c]
        BY <2>2, <2>5
      <3> QED
        BY <3>1, <3>2
    <2> QED
      BY <2>2, <2>3, <2>4, <2>5
  <1>3. CASE Serial!RecvEcho
    <2>1. PICK m \in 0..size : echo' = echo \o Serial!Sent(m) /\ received' = received + m
      BY <1>3 DEF Serial!RecvEcho
    <2>2. echo' = [i \in 1..received' |-> i]
      BY <2>1, Continued, m \in Nat DEF Serial!Sent
    <2>3. SerialTypes' /\ UNCHANGED <<buf, next, got, before>>
      BY <1>3, <2>1 DEF Serial!RecvEcho, Serial!RecvReturn
    <2>4. \A c \in Cells : buf'[c] <= received' + c + 1
      BY <2>1, <2>3
    <2> QED
      BY <2>2, <2>3, <2>4
  <1>4. ASSUME NEW r \in {"user_lidar"}, Serial!ReadBegin(r)
        PROVE  SerialInv'
    BY <1>4 DEF Serial!ReadBegin
  <1>5. ASSUME NEW r \in {"user_lidar"}, Serial!ReadCopy(r)
        PROVE  SerialInv'
    <2>1. /\ next[r] \in Cells /\ next' = [next EXCEPT ![r] = @ + 1]
          /\ got' = [got EXCEPT ![r][next[r]] = buf[next[r]]]
          /\ UNCHANGED <<buf, received, echo, spc, size, at, before>>
      BY <1>5 DEF Serial!ReadCopy
    <2>2. /\ next'[r] = next[r] + 1 /\ next' \in [{"user_lidar"} -> -1..BufLen]
      BY <2>1
    <2>3. got'[r] = [got[r] EXCEPT ![next[r]] = buf[next[r]]]
      BY <2>1
    <2>4. got'[r] \in Contents /\ buf[next[r]] \in Nat
      BY <2>1, <2>3
    <2>5. got' \in [{"user_lidar"} -> Contents]
      BY <2>1, <2>4
    <2>a. next[r] # -1 /\ next[r] \in Int
      BY <2>1
    <2>6. \A c \in Cells : before[r][c] <= buf[c]
      BY <2>a DEF SerialInv
    <2>7. ASSUME NEW c \in Cells, c < next'[r]
          PROVE  before[r][c] <= got'[r][c]
      <3>1. CASE c = next[r]
        <4>1. got'[r][c] = buf[c]
          BY <2>3, <3>1, <2>1
        <4> QED
          BY <4>1, <2>6
      <3>2. CASE c # next[r]
        <4>1. c < next[r]
          BY <2>2, <2>7, <2>a, <3>2
        <4>2. got'[r][c] = got[r][c]
          BY <2>3, <3>2
        <4> QED
          BY <4>1, <4>2 DEF SerialInv
      <3> QED
        BY <3>1, <3>2
    <2>8. r = "user_lidar"
      OBVIOUS
    <2> QED
      BY <2>1, <2>2, <2>5, <2>6, <2>7, <2>8
  <1>6. ASSUME NEW r \in {"user_lidar"}, Serial!ReadEnd(r)
        PROVE  SerialInv'
    BY <1>6 DEF Serial!ReadEnd
  <1> QED
    BY <1>1, <1>2, <1>3, <1>4, <1>5, <1>6 DEF Serial!Next, Serial!Receive, Serial!Read

LEMMA SerialInvariant == Spec => []SerialInv
  <1>1. SerialInv /\ [Next]_vars => SerialInv'
    <2> SUFFICES ASSUME SerialInv, [Next]_vars PROVE SerialInv'
      OBVIOUS
    <2>1. CASE Serial!Next
      BY <2>1, SerialStep
    <2>2. CASE UNCHANGED serialVars
      BY <2>2 DEF serialVars, SerialInv, SerialTypes
    <2> QED
      BY <2>1, <2>2 DEF vars, Next, Pwm_Step, Sysfs_Step, Gpio_Step, Lidar_Step, Serial_Step,
                         Display_Step, Lifecycle_Step, Calibration_Step, Image_Step
  <1> QED
    BY SerialInit, <1>1, PTL DEF Spec

\* Whatever the UART core hands over and hands over again, and however a read interleaves
\* with it: no byte a read has copied is older than the one there was when it began.
THEOREM SerialReadsAreNotOlder == Spec => []SerialReadNotOlder
  <1>1. SerialInv => SerialReadNotOlder
    <2> SUFFICES ASSUME SerialInv, NEW r \in {"user_lidar"}, NEW c \in 0..(next[r] - 1)
                 PROVE  before[r][c] <= got[r][c]
      BY DEF SerialReadNotOlder, Serial!ReadNotOlder
    <2>1. next[r] \in -1..BufLen
      BY DEF SerialInv, SerialTypes
    <2>2. c \in Cells /\ c < next[r]
      BY <2>1, BoundsAssumption DEF Cells
    <2> QED
      BY <2>2 DEF SerialInv
  <1> QED
    BY SerialInvariant, <1>1, PTL

\* What the driver sends back is what it has consumed, once and in order, for any chunks and
\* whatever part of them the line takes.
THEOREM SerialEchoesOnce == Spec => []SerialEchoedOnce
  <1>1. SerialInv => SerialEchoedOnce
    BY DEF SerialInv, SerialEchoedOnce, Serial!EchoedOnce
  <1> QED
    BY SerialInvariant, <1>1, PTL
-----------------------------------------------------------------------------
(* The button *)

GpioTypes ==
    /\ level \in {0, 1} /\ reported \in {0, 1}
    /\ edges \in Nat /\ seen \in Nat
    /\ latched \in BOOLEAN /\ irq \in BOOLEAN
    /\ handler \in {"idle", "read", "test", "send"}
    /\ task \in Programs \cup {"none"} /\ latest = task
    /\ prog \in [Programs -> {"new", "registered", "dead"}]
    /\ signalled \in [Programs -> Nat]

\* Once the handler has read the level, an edge that it has missed is latched.  Handler and
\* latch need the interrupt, which is requested once; a program needs a bound driver.
GpioInv ==
    /\ GpioTypes
    /\ handler # "idle" \/ latched \/ life \in {"creating", "bound"} => irq
    /\ life = "requesting" => ~irq /\ seen = 0
    /\ life \in {"requesting", "creating"} => \A p \in Programs : prog[p] = "new"
    /\ handler \in {"test", "send"} /\ ~latched => reported = level /\ seen = edges
    /\ irq /\ handler = "idle" /\ ~latched /\ seen > 0 => reported = level
    /\ handler = "idle" /\ ~latched /\ life = "bound" =>
           \A p \in Programs : latest = p /\ prog[p] = "registered" => signalled[p] >= edges

LEMMA GpioInit == Init => GpioInv
  <1>1. Init => Gpio!Init
    BY DEF Init
  <1>2. ASSUME Gpio!Init PROVE GpioInv
    <2>1. ~irq /\ ~latched /\ handler = "idle" /\ life = "requesting" /\ seen = 0
      BY <1>2 DEF Gpio!Init
    <2>2. GpioTypes /\ \A p \in Programs : prog[p] = "new"
      BY <1>2 DEF Gpio!Init, Gpio!None, GpioTypes
    <2> QED
      BY <2>1, <2>2 DEF GpioInv
  <1> QED
    BY <1>1, <1>2

LEMMA GpioStep == GpioInv /\ Gpio!Next => GpioInv'
  <1> SUFFICES ASSUME GpioInv, Gpio!Next PROVE GpioInv'
    OBVIOUS
  <1> USE DEF GpioInv, GpioTypes, Gpio!None, Gpio!button, Gpio!handlerVars, Gpio!programs
  <1>1. CASE Gpio!RequestIrq
    <2>1. /\ life = "requesting" /\ life' \in {"creating", "gone"}
          /\ life' = "creating" => irq'
          /\ UNCHANGED <<level, edges, latched, handler, reported, seen, task, prog, latest,
                          signalled>>
      BY <1>1 DEF Gpio!RequestIrq
    <2>2. irq' \in BOOLEAN /\ handler = "idle" /\ ~latched
      BY <1>1 DEF Gpio!RequestIrq
    <2> QED
      BY <2>1, <2>2
  <1>2. CASE Gpio!CreateNode
    BY <1>2 DEF Gpio!CreateNode
  <1>3. CASE Gpio!RemoveBegin
    BY <1>3 DEF Gpio!RemoveBegin
  <1>4. CASE Gpio!FreeIrq
    BY <1>4 DEF Gpio!FreeIrq, Gpio!Failing
  <1>5. CASE Gpio!Edge
    BY <1>5 DEF Gpio!Edge, Gpio!Triggers
  <1>6. CASE Gpio!IrqWake
    BY <1>6 DEF Gpio!IrqWake
  <1>7. CASE Gpio!IrqRead
    BY <1>7 DEF Gpio!IrqRead
  <1>8. CASE Gpio!IrqTest
    BY <1>8, ProgramsAssumption DEF Gpio!IrqTest
  <1>9. CASE Gpio!IrqSend
    BY <1>9, ProgramsAssumption DEF Gpio!IrqSend
  <1>10. ASSUME NEW p \in Programs, Gpio!Register(p)
         PROVE  GpioInv'
    BY <1>10 DEF Gpio!Register
  <1>11. ASSUME NEW p \in Programs, Gpio!Close(p)
         PROVE  GpioInv'
    BY <1>11 DEF Gpio!Close
  <1> QED
    BY <1>1, <1>2, <1>3, <1>4, <1>5, <1>6, <1>7, <1>8, <1>9, <1>10, <1>11
       DEF Gpio!Next, Gpio!Handler

LEMMA GpioInvariant == Spec => []GpioInv
  <1>1. GpioInv /\ [Next]_vars => GpioInv'
    <2> SUFFICES ASSUME GpioInv, [Next]_vars PROVE GpioInv'
      OBVIOUS
    <2>1. CASE Gpio!Next
      BY <2>1, GpioStep
    <2>2. CASE UNCHANGED gpioVars
      BY <2>2 DEF gpioVars, GpioInv, GpioTypes
    <2> QED
      BY <2>1, <2>2 DEF vars, Next, Pwm_Step, Sysfs_Step, Gpio_Step, Lidar_Step, Serial_Step,
                         Display_Step, Lifecycle_Step, Calibration_Step, Image_Step
  <1> QED
    BY GpioInit, <1>1, PTL DEF Spec

\* However many edges fall into the handler's run and merge into one more: at rest, the
\* level the driver reported last is the line's.
THEOREM GpioReportsLastLevel == Spec => []GpioLastLevelReported
  <1>1. GpioInv => GpioLastLevelReported
    BY DEF GpioInv, GpioLastLevelReported, Gpio!LastLevelReported
  <1> QED
    BY GpioInvariant, <1>1, PTL

\* Whichever programs register, end and leave their registration behind: at rest, the one
\* that registered last, if it lives, has been signalled after the last edge.
THEOREM GpioSignalsEveryEdge == Spec => []GpioEdgeSignalled
  <1>1. GpioInv => GpioEdgeSignalled
    BY DEF GpioInv, GpioEdgeSignalled, Gpio!EdgeSignalled
  <1> QED
    BY GpioInvariant, <1>1, PTL
-----------------------------------------------------------------------------
(* The servo *)

PwmTypes ==
    /\ hw \in Pwm!State /\ local \in [Programs -> Pwm!State]
    /\ pc \in [Programs -> {"start", "idle", "got", "dead"}]
    /\ cmd \in [Programs -> {"ON", "OFF", "SET"}]
    /\ arg \in [Programs -> Duties \cup {0}]
    /\ onOK \in [Programs -> BOOLEAN] /\ bound \in BOOLEAN
    /\ \A p \in Programs :
           /\ pc[p] = "start" => cmd[p] = "ON"
           /\ pc[p] = "got" => cmd[p] # "OFF"

\* No program has gone past an ON that failed.  Once that is false, it stays so.
AllOn == \A p \in Programs : cmd[p] # "ON" => onOK[p]

\* Until then the servo is on while it is bound, and so it is in what was read of it.
PwmInv ==
    /\ PwmTypes
    /\ AllOn => /\ bound /\ (\E p \in Programs : onOK[p]) => hw.enabled
                /\ \A p \in Programs : pc[p] = "got" /\ cmd[p] = "SET" => local[p].enabled

LEMMA PwmInit == Init => PwmInv
  <1>1. Init => Pwm!Init
    BY DEF Init
  <1>2. ASSUME Pwm!Init PROVE PwmInv
    <2>1. PwmTypes /\ \A p \in Programs : ~onOK[p] /\ pc[p] = "start"
      BY <1>2 DEF Pwm!Init, PwmTypes, Pwm!State
    <2> QED
      BY <2>1 DEF PwmInv
  <1> QED
    BY <1>1, <1>2

\* What an ioctl would apply is a state that has the servo on, but for a SET that read it off.
LEMMA PwmChanged ==
    ASSUME PwmTypes, NEW p \in Programs
    PROVE  /\ Pwm!Changed(p) \in [enabled : BOOLEAN, duty : Duties \cup {0}]
           /\ Pwm!Changed(p).enabled <=> cmd[p] = "ON" \/ local[p].enabled
  BY DEF PwmTypes, Pwm!Changed, Pwm!State

LEMMA PwmStep == PwmInv /\ Pwm!Next => PwmInv'
  <1> SUFFICES ASSUME PwmInv, Pwm!Next PROVE PwmInv'
    OBVIOUS
  <1> USE DEF PwmInv, PwmTypes, AllOn
  <1>1. ASSUME NEW p \in Programs, Pwm!OnGet(p)
        PROVE  PwmInv'
    <2>1. PICK d \in Duties \cup {0} : pc[p] = "start" /\ Pwm!Ioctl(p, "ON", d)
      BY <1>1 DEF Pwm!OnGet
    <2>2. PwmTypes' /\ cmd' = cmd /\ pc' = [pc EXCEPT ![p] = "got"]
      BY <2>1 DEF Pwm!Ioctl
    <2>3. UNCHANGED <<hw, onOK, bound>> /\ \A q \in Programs \ {p} : local'[q] = local[q]
      BY <2>1 DEF Pwm!Ioctl
    <2> QED
      BY <2>1, <2>2, <2>3
  <1>2. ASSUME NEW p \in Programs, Pwm!SetGet(p)
        PROVE  PwmInv'
    <2>1. PICK d \in Duties \cup {0} : pc[p] = "idle" /\ Pwm!Ioctl(p, "SET", d)
      BY <1>2 DEF Pwm!SetGet
    <2>2. PwmTypes' /\ cmd' = [cmd EXCEPT ![p] = "SET"] /\ pc' = [pc EXCEPT ![p] = "got"]
      BY <2>1 DEF Pwm!Ioctl
    <2>3. UNCHANGED <<hw, onOK, bound>> /\ bound /\ local' = [local EXCEPT ![p] = hw]
      BY <2>1 DEF Pwm!Ioctl
    <2>4. SUFFICES ASSUME AllOn'
                   PROVE  /\ hw.enabled
                          /\ \A q \in Programs :
                                 pc'[q] = "got" /\ cmd'[q] = "SET" => local'[q].enabled
      BY <2>2, <2>3
    <2>5. AllOn /\ onOK[p]
      BY <2>2, <2>3, <2>4
    <2>6. hw.enabled
      BY <2>3, <2>5
    <2> QED
      BY <2>2, <2>3, <2>5, <2>6
  <1>3. ASSUME NEW p \in Programs, Pwm!Off(p)
        PROVE  PwmInv'
    <2>1. /\ PwmTypes' /\ pc[p] = "idle" /\ cmd' = [cmd EXCEPT ![p] = "OFF"]
          /\ UNCHANGED <<hw, pc, local, onOK, bound>>
      BY <1>3 DEF Pwm!Off
    <2> QED
      BY <2>1
  <1>4. ASSUME NEW p \in Programs, Pwm!Apply(p)
        PROVE  PwmInv'
    <2>1. pc[p] = "got" /\ pc' = [pc EXCEPT ![p] = "idle"] /\ UNCHANGED <<cmd, arg, local, bound>>
      BY <1>4 DEF Pwm!Apply
    <2>2. CASE UNCHANGED <<hw, onOK>>
      BY <2>1, <2>2
    <2>3. CASE hw' = Pwm!Changed(p) /\ onOK' = [onOK EXCEPT ![p] = @ \/ cmd[p] = "ON"]
      <3>1. PwmTypes'
        BY <2>1, <2>3, PwmChanged DEF Pwm!State
      <3>2. ASSUME AllOn' PROVE AllOn /\ hw'.enabled
        <4>1. AllOn
          BY <2>1, <2>3, <3>2
        <4>2. cmd[p] = "ON" \/ local[p].enabled
          BY <2>1, <4>1
        <4> QED
          BY <4>1, <4>2, <2>3, PwmChanged
      <3> QED
        BY <2>1, <3>1, <3>2
    <2> QED
      BY <1>4, <2>2, <2>3 DEF Pwm!Apply
  <1>5. ASSUME NEW p \in Programs, Pwm!Quit(p)
        PROVE  PwmInv'
    BY <1>5 DEF Pwm!Quit
  <1>6. CASE Pwm!Remove
    <2>1. PwmTypes' /\ ~bound' /\ UNCHANGED <<pc, cmd, local, onOK>>
      BY <1>6 DEF Pwm!Remove, Pwm!State
    <2> QED
      BY <2>1
  <1> QED
    BY <1>1, <1>2, <1>3, <1>4, <1>5, <1>6 DEF Pwm!Next

LEMMA PwmInvariant == Spec => []PwmInv
  <1>1. PwmInv /\ [Next]_vars => PwmInv'
    <2> SUFFICES ASSUME PwmInv, [Next]_vars PROVE PwmInv'
      OBVIOUS
    <2>1. CASE Pwm!Next
      BY <2>1, PwmStep
    <2>2. CASE UNCHANGED pwmVars
      BY <2>2 DEF pwmVars, PwmInv, PwmTypes, AllOn
    <2> QED
      BY <2>1, <2>2 DEF vars, Next, Pwm_Step, Sysfs_Step, Gpio_Step, Lidar_Step, Serial_Step,
                         Display_Step, Lifecycle_Step, Calibration_Step, Image_Step
  <1> QED
    BY PwmInit, <1>1, PTL DEF Spec

\* pwm_device_driver reads the state, changes and applies it without a lock, yet for any
\* number of programs no interleaving turns off a servo unless some program went on after
\* an ON that was not applied.
THEOREM ServoStaysOn == Spec => PwmStaysOn
  <1> DEFINE Kept == hw.enabled /\ ~hw'.enabled =>
                        ~bound' \/ \E p \in Programs : cmd[p] # "ON" /\ ~onOK[p]
  <1>1. PwmInv /\ [Next]_vars => [Kept]_(Pwm!vars)
    <2> SUFFICES ASSUME PwmInv, [Next]_vars, hw.enabled, ~hw'.enabled, bound', AllOn
                 PROVE  FALSE
      BY DEF AllOn
    <2>1. hw' # hw
      OBVIOUS
    <2>2. Pwm!Next
      BY <2>1 DEF vars, pwmVars, Next, Pwm_Step, Sysfs_Step, Gpio_Step, Lidar_Step,
                  Serial_Step, Display_Step, Lifecycle_Step, Calibration_Step, Image_Step
    <2>3. PICK p \in Programs : Pwm!Apply(p)
      BY <2>1, <2>2 DEF Pwm!Next, Pwm!OnGet, Pwm!SetGet, Pwm!Ioctl, Pwm!Off, Pwm!Quit,
                        Pwm!Remove
    <2>4. pc[p] = "got" /\ hw' = Pwm!Changed(p)
      BY <2>1, <2>3 DEF Pwm!Apply
    <2>5. cmd[p] = "ON" \/ local[p].enabled
      BY <2>4 DEF PwmInv, PwmTypes
    <2> QED
      BY <2>4, <2>5, PwmChanged DEF PwmInv
  <1> QED
    BY PwmInvariant, <1>1, PTL DEF Spec, PwmStaysOn, Pwm!StaysOn
-----------------------------------------------------------------------------
(* The servo with sysfs attributes *)

\* The pulse widths of the angles.
Widths == {Sysfs!Duty(v) : v \in 0..Sysfs!MaxAngle}

SysfsTypes ==
    /\ Sysfs!TypeOK /\ angle \in 0..Sysfs!MaxAngle
    /\ wasDuty \in [Programs -> Widths]
    /\ \A w \in Programs :
           /\ wpc[w] \in {"angle", "angle_apply", "angle_store"} => val[w] \in 0..Sysfs!MaxAngle
           /\ wpc[w] \in {"standby", "standby_get", "standby_apply", "standby_store"} =>
                  val[w] \in {0, 1}

\* What w has read of the PWM and of the copy still holds.
Fresh(w) ==
    /\ wpc[w] \in {"angle_apply", "standby_apply"} => (was[w] <=> enabled) /\ wasDuty[w] = duty
    /\ wpc[w] \in {"standby_get", "standby_apply"} => standby # val[w]

OthersIdle(w) == \A v \in Programs : v # w => wpc[v] = "idle"
Tells == enabled <=> standby = 0
\* The PWM is ahead of the copy: w has switched it and not stored that yet.
Switches(w) == wpc[w] = "standby_store" /\ val[w] # standby

\* While no two writes have overlapped, the copy is behind by one write at most.
Undisturbed ==
    /\ \A w \in Programs : wpc[w] # "idle" => OthersIdle(w) /\ Fresh(w)
    /\ \A w \in Programs : Switches(w) => (enabled <=> val[w] = 0)
    /\ Tells \/ \E w \in Programs : Switches(w)
    /\ \A w \in Programs : wpc[w] = "angle_store" => duty = Sysfs!Duty(val[w])
    /\ duty = angleDuty \/ \E w \in Programs : wpc[w] = "angle_store"
    /\ angleDuty = Sysfs!Duty(angle)

\* Once w is alone at work, the copy is what it stored last, and a store of another value
\* has gone through to the PWM.
Alone(w) ==
    /\ OthersIdle(w) /\ Fresh(w)
    /\ Len(alone.last) \in {0, 1, 2}
    /\ Len(alone.last) = 1 => standby = alone.last[1]
    /\ Len(alone.last) = 2 => standby = alone.last[2]
    /\ Switches(w) => (enabled <=> val[w] = 0)
    /\ Len(alone.last) = 2 /\ alone.last[1] # alone.last[2] => Switches(w) \/ Tells

SysfsInv ==
    /\ SysfsTypes
    /\ ~overlapped => Undisturbed
    /\ \A w \in Programs : alone.by = w => Alone(w)
    /\ alone.by = "nobody" => alone.last = <<>>

\* A sequence with one more value.
LEMMA Pushed ==
    ASSUME NEW S, NEW s \in Seq(S), NEW v \in S
    PROVE  /\ s \o <<v>> \in Seq(S) /\ Len(s \o <<v>>) = Len(s) + 1
           /\ (s \o <<v>>)[Len(s) + 1] = v
           /\ \A i \in 1..Len(s) : (s \o <<v>>)[i] = s[i]
  <1>1. <<v>> \in Seq(S) /\ Len(<<v>>) = 1 /\ <<v>>[1] = v
    OBVIOUS
  <1>2. Len(s) \in Nat
    OBVIOUS
  <1> QED
    BY <1>1, <1>2, ConcatProperties

\* What is left of the last two values when one more comes.
Younger(s) == IF Len(s) < 2 THEN s ELSE Tail(s)

LEMMA YoungerLast ==
    ASSUME NEW S, NEW s \in Seq(S), Len(s) \in {0, 1, 2}
    PROVE  /\ Younger(s) \in Seq(S)
           /\ \/ Len(Younger(s)) = 0
              \/ Len(Younger(s)) = 1 /\ Len(s) = 1 /\ Younger(s)[1] = s[1]
              \/ Len(Younger(s)) = 1 /\ Len(s) = 2 /\ Younger(s)[1] = s[2]
  <1>1. CASE Len(s) = 0 \/ Len(s) = 1
    <2>1. Younger(s) = s
      BY <1>1 DEF Younger
    <2> QED
      BY <1>1, <2>1
  <1>2. CASE Len(s) = 2
    <2>1. Younger(s) = Tail(s) /\ s # <<>>
      BY <1>2 DEF Younger
    <2>2. /\ Tail(s) \in Seq(S) /\ Len(Tail(s)) = Len(s) - 1
          /\ \A i \in 1..Len(Tail(s)) : Tail(s)[i] = s[i + 1]
      BY <2>1, HeadTailProperties
    <2> QED
      BY <1>2, <2>1, <2>2
  <1> QED
    BY <1>1, <1>2

LEMMA LastTwo ==
    ASSUME NEW S, NEW s \in Seq(S), Len(s) \in {0, 1, 2}, NEW v \in S
    PROVE  LET t == Younger(s) \o <<v>> IN
           \/ Len(t) = 1 /\ t[1] = v
           \/ Len(t) = 2 /\ t[2] = v /\ Len(s) = 1 /\ t[1] = s[1]
           \/ Len(t) = 2 /\ t[2] = v /\ Len(s) = 2 /\ t[1] = s[2]
  <1> DEFINE u == Younger(s)
             t == u \o <<v>>
  <1>1. /\ u \in Seq(S)
        /\ \/ Len(u) = 0
           \/ Len(u) = 1 /\ Len(s) = 1 /\ u[1] = s[1]
           \/ Len(u) = 1 /\ Len(s) = 2 /\ u[1] = s[2]
    BY YoungerLast
  <1>2. /\ t \in Seq(S) /\ Len(t) = Len(u) + 1 /\ t[Len(u) + 1] = v
        /\ \A i \in 1..Len(u) : t[i] = u[i]
    BY <1>1, Pushed
  <1> HIDE DEF u, t
  <1> DEFINE Goal == \/ Len(t) = 1 /\ t[1] = v
                     \/ Len(t) = 2 /\ t[2] = v /\ Len(s) = 1 /\ t[1] = s[1]
                     \/ Len(t) = 2 /\ t[2] = v /\ Len(s) = 2 /\ t[1] = s[2]
  <1>3. CASE Len(u) = 0
    <2>1. Goal
      BY <1>2, <1>3
    <2> QED
      BY <2>1 DEF u, t
  <1>4. CASE Len(u) = 1
    <2>1. Goal
      BY <1>1, <1>2, <1>4
    <2> QED
      BY <2>1 DEF u, t
  <1> QED
    BY <1>1, <1>3, <1>4 DEF u, t

\* The width at rest is that of an angle of 0.
LEMMA RestWidth ==
    Sysfs!MinDuty = Sysfs!Duty(0) /\ Sysfs!MinDuty \in Widths /\ 0 \in 0..Sysfs!MaxAngle
  <1>1. Sysfs!MinDuty = Sysfs!Duty(0)
    BY SMT DEF Sysfs!Duty, Sysfs!MinDuty, Sysfs!Degree
  <1>2. 0 \in 0..Sysfs!MaxAngle
    BY SMT DEF Sysfs!MaxAngle
  <1> QED
    BY <1>1, <1>2 DEF Widths

LEMMA SysfsInit == Init => SysfsInv
  <1>1. Init => Sysfs!Init
    BY DEF Init
  <1>2. ASSUME Sysfs!Init PROVE SysfsInv
    <2>1. /\ \A w \in Programs : wpc[w] = "idle"
          /\ alone = [by |-> "nobody", last |-> <<>>] /\ ~overlapped
      BY <1>2 DEF Sysfs!Init, Sysfs!NoWriter
    <2>types. Sysfs!TypeOK
      <3>1. {duty, angleDuty} \subseteq Widths
        BY <1>2, RestWidth DEF Sysfs!Init
      <3>2. alone \in [by : Programs \cup {"nobody"}, last : Seq({0, 1})]
        BY <2>1
      <3>3. val \in [Programs -> Angles \cup {0, 1}] /\ was \in [Programs -> BOOLEAN]
        BY <1>2 DEF Sysfs!Init
      <3>4. enabled \in BOOLEAN /\ standby \in {0, 1}
        BY <1>2 DEF Sysfs!Init
      <3>5. wpc \in [Programs -> {"idle"}]
        BY <1>2 DEF Sysfs!Init
      <3> QED
        BY <3>1, <3>2, <3>3, <3>4, <3>5 DEF Sysfs!TypeOK, Sysfs!NoWriter, Widths
    <2>2. SysfsTypes
      BY <1>2, <2>1, <2>types, RestWidth DEF Sysfs!Init, SysfsTypes
    <2>3. Undisturbed
      BY <1>2, <2>1, RestWidth DEF Sysfs!Init, Undisturbed, Switches, Tells
    <2> QED
      BY <2>1, <2>2, <2>3, ProgramsAssumption DEF SysfsInv
  <1> QED
    BY <1>1, <1>2

\* An angle that is applied has one of the widths.
LEMMA AngleWidth ==
    ASSUME SysfsTypes, NEW w \in Programs,
           wpc[w] \in {"angle", "angle_apply", "angle_store"}
    PROVE  Sysfs!Duty(val[w]) \in Widths
  BY DEF SysfsTypes, Widths

\* The types in full.
SysfsTyped ==
    /\ enabled \in BOOLEAN /\ standby \in {0, 1}
    /\ duty \in Widths /\ angleDuty \in Widths
    /\ wpc \in [Programs -> {"idle", "angle", "angle_apply", "angle_store", "standby",
                             "standby_get", "standby_apply", "standby_store"}]
    /\ val \in [Programs -> Angles \cup {0, 1}]
    /\ was \in [Programs -> BOOLEAN]
    /\ alone \in [by : Programs \cup {"nobody"}, last : Seq({0, 1})]

LEMMA SysfsTyping == Sysfs!TypeOK <=> SysfsTyped
  BY DEF Sysfs!TypeOK, SysfsTyped, Widths, Sysfs!NoWriter

\* A store of w in the history of lone stores.
LEMMA LoneStore ==
    ASSUME NEW w, NEW a \in [by : Programs \cup {"nobody"}, last : Seq({0, 1})],
           NEW v \in {0, 1}, Sysfs!StandbyStore(w), alone = a, v = val[w]
    PROVE  /\ alone' \in [by : Programs \cup {"nobody"}, last : Seq({0, 1})]
           /\ alone'.by = a.by
           /\ a.by # w => alone' = a
           /\ a.by = w => alone'.last = Younger(a.last) \o <<v>>
  <1>1. alone' = IF a.by = w THEN [a EXCEPT !.last = Younger(a.last) \o <<v>>] ELSE a
    BY DEF Sysfs!StandbyStore, Younger
  <1>2. Younger(a.last) \in Seq({0, 1})
    <2>1. a.last \in Seq({0, 1})
      OBVIOUS
    <2> QED
      BY <2>1 DEF Younger
  <1>3. Younger(a.last) \o <<v>> \in Seq({0, 1})
    BY <1>2, Pushed
  <1> QED
    BY <1>1, <1>3

LEMMA SysfsTypesStep == SysfsTypes /\ Sysfs!Next => SysfsTypes'
  <1> SUFFICES ASSUME SysfsTypes, Sysfs!Next PROVE SysfsTypes'
    OBVIOUS
  <1> USE DEF Sysfs!hwVars, Sysfs!devVars, Sysfs!localVars, Sysfs!history
  <1>types. SysfsTyped
    BY SysfsTyping DEF SysfsTypes
  <1>values. /\ angle \in 0..Sysfs!MaxAngle
             /\ wasDuty \in [Programs -> Widths]
             /\ \A w \in Programs :
                /\ wpc[w] \in {"angle", "angle_apply", "angle_store"} => val[w] \in 0..Sysfs!MaxAngle
                /\ wpc[w] \in {"standby", "standby_get", "standby_apply", "standby_store"} =>
                       val[w] \in {0, 1}
    BY DEF SysfsTypes
  <1> DEFINE Goal == /\ SysfsTyped'
                     /\ angle' \in 0..Sysfs!MaxAngle
                     /\ wasDuty' \in [Programs -> Widths]
                     /\ \A w \in Programs :
                        /\ wpc'[w] \in {"angle", "angle_apply", "angle_store"} =>
                               val'[w] \in 0..Sysfs!MaxAngle
                        /\ wpc'[w] \in {"standby", "standby_get", "standby_apply",
                                        "standby_store"} =>
                               val'[w] \in {0, 1}
  <1>goal. SUFFICES Goal
    <2>1. SysfsTyped' => Sysfs!TypeOK'
      BY DEF Sysfs!TypeOK, SysfsTyped, Widths, Sysfs!NoWriter
    <2> QED
      BY <2>1 DEF SysfsTypes
  <1>begin. ASSUME NEW w \in Programs, NEW first \in {"angle", "standby"},
                   NEW v \in Angles \cup {0, 1}, Sysfs!Begins(w, first, v),
                   v \in 0..Sysfs!MaxAngle, first = "standby" => v \in {0, 1}
            PROVE Goal
    <2>1. alone' \in [by : Programs \cup {"nobody"}, last : Seq({0, 1})]
      BY <1>begin, <1>types DEF Sysfs!Begins, Sysfs!NoWriter, SysfsTyped
    <2>2. /\ wpc' = [wpc EXCEPT ![w] = first] /\ val' = [val EXCEPT ![w] = v]
          /\ UNCHANGED <<enabled, duty, angle, angleDuty, standby, was, wasDuty>>
      BY <1>begin DEF Sysfs!Begins
    <2> QED
      BY <1>begin, <2>1, <2>2, <1>types, <1>values DEF SysfsTyped
  <1>1. ASSUME NEW w \in Programs, Sysfs!AngleBegin(w) PROVE Goal
    <2>1. PICK v \in Angles : Sysfs!InRange(v) /\ Sysfs!Begins(w, "angle", v)
      BY <1>1 DEF Sysfs!AngleBegin
    <2>2. v \in 0..Sysfs!MaxAngle
      BY <2>1, BoundsAssumption DEF Sysfs!InRange, Sysfs!MaxAngle
    <2>3. v \in Angles \cup {0, 1}
      BY <2>1
    <2> QED
      <3>1. "angle" # "standby" /\ v \in 0..Sysfs!MaxAngle
        BY <2>2
      <3> QED
        BY <2>1, <3>1, <2>3, <1>begin
  <1>2. ASSUME NEW w \in Programs, Sysfs!AngleGet(w) PROVE Goal
    BY <1>2, <1>types, <1>values DEF Sysfs!AngleGet, SysfsTyped
  <1>3. ASSUME NEW w \in Programs, Sysfs!AngleApply(w) PROVE Goal
    BY <1>3, <1>types, <1>values, AngleWidth DEF Sysfs!AngleApply, SysfsTyped
  <1>4. ASSUME NEW w \in Programs, Sysfs!AngleStore(w) PROVE Goal
    BY <1>4, <1>types, <1>values, AngleWidth DEF Sysfs!AngleStore, SysfsTyped
  <1>5. ASSUME NEW w \in Programs, Sysfs!StandbyBegin(w) PROVE Goal
    <2>1. PICK v \in {0, 1} : Sysfs!Begins(w, "standby", v)
      BY <1>5 DEF Sysfs!StandbyBegin
    <2>2. v \in Angles \cup {0, 1} /\ v \in 0..Sysfs!MaxAngle
      BY <2>1 DEF Sysfs!MaxAngle
    <2> QED
      BY <2>1, <2>2, <1>begin
  <1>6. ASSUME NEW w \in Programs, Sysfs!StandbyTest(w) PROVE Goal
    BY <1>6, <1>types, <1>values DEF Sysfs!StandbyTest, SysfsTyped
  <1>7. ASSUME NEW w \in Programs, Sysfs!StandbyGet(w) PROVE Goal
    BY <1>7, <1>types, <1>values DEF Sysfs!StandbyGet, SysfsTyped
  <1>8. ASSUME NEW w \in Programs, Sysfs!StandbyApply(w) PROVE Goal
    <2>1. enabled' \in BOOLEAN
      BY <1>8, <1>types DEF Sysfs!StandbyApply, SysfsTyped
    <2>2. /\ \/ duty' = wasDuty[w] /\ wpc' = [wpc EXCEPT ![w] = "standby_store"]
             \/ duty' = duty /\ wpc' = [wpc EXCEPT ![w] = "idle"]
          /\ wpc[w] = "standby_apply"
          /\ UNCHANGED <<angle, angleDuty, standby, val, was, wasDuty, alone>>
      BY <1>8 DEF Sysfs!StandbyApply
    <2> QED
      BY <2>1, <2>2, <1>types, <1>values DEF SysfsTyped
  <1>9. ASSUME NEW w \in Programs, Sysfs!StandbyStore(w) PROVE Goal
    <2>1. alone' \in [by : Programs \cup {"nobody"}, last : Seq({0, 1})]
      BY <1>9, <1>types, <1>values, LoneStore DEF Sysfs!StandbyStore, SysfsTyped
    <2>2. /\ standby' = val[w] /\ wpc' = [wpc EXCEPT ![w] = "idle"]
          /\ wpc[w] = "standby_store"
          /\ UNCHANGED <<enabled, duty, angle, angleDuty, val, was, wasDuty>>
      BY <1>9 DEF Sysfs!StandbyStore
    <2> QED
      BY <2>1, <2>2, <1>types, <1>values DEF SysfsTyped
  <1> QED
    BY <1>1, <1>2, <1>3, <1>4, <1>5, <1>6, <1>7, <1>8, <1>9 DEF Sysfs!Next

LEMMA SysfsStep == SysfsInv /\ Sysfs!Next => SysfsInv'
  <1> SUFFICES ASSUME SysfsInv, Sysfs!Next PROVE SysfsInv'
    OBVIOUS
  <1> USE DEF Sysfs!hwVars, Sysfs!devVars, Sysfs!localVars, Sysfs!history
  <1>types. SysfsTyped
    BY SysfsTyping DEF SysfsInv, SysfsTypes
  <1>shape.
        /\ DOMAIN wpc = Programs /\ wpc = [w \in Programs |-> wpc[w]]
        /\ val \in [Programs -> Angles \cup {0, 1}]
        /\ wasDuty \in [Programs -> Widths] /\ DOMAIN was = Programs
    BY <1>types DEF SysfsTyped, SysfsInv, SysfsTypes
  <1>calm. ~overlapped => Undisturbed
    BY DEF SysfsInv
  <1>alone. \A w \in Programs : alone.by = w => Alone(w)
    BY DEF SysfsInv
  <1>nobody. alone.by = "nobody" => alone.last = <<>>
    BY DEF SysfsInv
  <1> DEFINE Goal == /\ ~overlapped' => Undisturbed'
                     /\ \A w \in Programs : alone'.by = w => Alone(w)'
                     /\ alone'.by = "nobody" => alone'.last = <<>>
  <1>goal. SUFFICES Goal
    BY SysfsTypesStep DEF SysfsInv
  \* A step of a write under way: it is the one that nobody has disturbed, if any.
  <1>own. ASSUME NEW w \in Programs, wpc[w] # "idle"
          PROVE  /\ ~overlapped => OthersIdle(w) /\ Fresh(w)
                 /\ \A x \in Programs : alone.by = x => x = w /\ Alone(w)
    BY <1>own, <1>calm, <1>alone DEF Undisturbed, Alone, OthersIdle
  <1>2. ASSUME NEW w \in Programs, Sysfs!AngleGet(w) PROVE Goal
    <2>1. wpc[w] # "idle" /\ UNCHANGED <<alone, overlapped>>
      BY <1>2 DEF Sysfs!AngleGet
    <2>bool. was'[w] <=> enabled
      BY <1>2, <1>types DEF Sysfs!AngleGet, SysfsTyped
    <2>effect. /\ wpc[w] = "angle" /\ wpc' = [wpc EXCEPT ![w] = "angle_apply"]
               /\ wasDuty' = [wasDuty EXCEPT ![w] = duty]
               /\ was'[w] <=> enabled
               /\ enabled' <=> enabled
               /\ UNCHANGED <<duty, angle, angleDuty, standby, val>>
      BY <1>2, <2>bool, <1>types DEF Sysfs!AngleGet, SysfsTyped
    <2>2. ASSUME ~overlapped PROVE Undisturbed'
      BY <2>effect, <2>1, <2>2, <1>own, <1>calm, <1>shape
         DEF Undisturbed, OthersIdle, Fresh, Switches, Tells
    <2>3. ASSUME alone.by = w PROVE Alone(w)'
      BY <2>effect, <2>1, <2>3, <1>own, <1>shape DEF Alone, OthersIdle, Fresh, Switches, Tells
    <2> QED
      BY <2>1, <2>2, <2>3, <1>own, <1>nobody
  <1>3. ASSUME NEW w \in Programs, Sysfs!AngleApply(w) PROVE Goal
    <2>1. wpc[w] # "idle" /\ UNCHANGED <<alone, overlapped>>
      BY <1>3 DEF Sysfs!AngleApply
    <2>bool. \/ /\ enabled' = was[w]
                /\ duty' = Sysfs!Duty(val[w]) /\ wpc' = [wpc EXCEPT ![w] = "angle_store"]
             \/ /\ enabled' = enabled
                /\ duty' = duty /\ wpc' = [wpc EXCEPT ![w] = "idle"]
      BY <1>3, Zenon DEF Sysfs!AngleApply
    <2>effect. /\ wpc[w] = "angle_apply"
               /\ \/ /\ enabled' <=> was[w]
                     /\ duty' = Sysfs!Duty(val[w]) /\ wpc' = [wpc EXCEPT ![w] = "angle_store"]
                  \/ /\ enabled' <=> enabled
                     /\ duty' = duty /\ wpc' = [wpc EXCEPT ![w] = "idle"]
               /\ UNCHANGED <<angle, angleDuty, standby, val, was, wasDuty>>
      BY <1>3, <2>bool DEF Sysfs!AngleApply
    <2>2. ASSUME ~overlapped PROVE Undisturbed'
      BY <2>effect, <2>1, <2>2, <1>own, <1>calm, <1>shape
         DEF Undisturbed, OthersIdle, Fresh, Switches, Tells
    <2>3. ASSUME alone.by = w PROVE Alone(w)'
      BY <2>effect, <2>1, <2>3, <1>own, <1>shape DEF Alone, OthersIdle, Fresh, Switches, Tells
    <2> QED
      BY <2>1, <2>2, <2>3, <1>own, <1>nobody
  <1>4. ASSUME NEW w \in Programs, Sysfs!AngleStore(w) PROVE Goal
    <2>1. wpc[w] # "idle" /\ UNCHANGED <<alone, overlapped>>
      BY <1>4 DEF Sysfs!AngleStore
    <2>effect. /\ wpc[w] = "angle_store" /\ wpc' = [wpc EXCEPT ![w] = "idle"]
               /\ angle' = val[w] /\ angleDuty' = Sysfs!Duty(val[w])
               /\ enabled' <=> enabled
               /\ UNCHANGED <<duty, standby, val, was, wasDuty>>
      BY <1>4 DEF Sysfs!AngleStore
    <2>2. ASSUME ~overlapped PROVE Undisturbed'
      BY <2>effect, <2>1, <2>2, <1>own, <1>calm, <1>shape
         DEF Undisturbed, OthersIdle, Fresh, Switches, Tells
    <2>3. ASSUME alone.by = w PROVE Alone(w)'
      BY <2>effect, <2>1, <2>3, <1>own, <1>shape DEF Alone, OthersIdle, Fresh, Switches, Tells
    <2> QED
      BY <2>1, <2>2, <2>3, <1>own, <1>nobody
  <1>6. ASSUME NEW w \in Programs, Sysfs!StandbyTest(w) PROVE Goal
    <2>1. wpc[w] # "idle" /\ UNCHANGED <<alone, overlapped>>
      BY <1>6 DEF Sysfs!StandbyTest
    <2>effect. /\ wpc[w] = "standby"
               /\ \/ standby # val[w] /\ wpc' = [wpc EXCEPT ![w] = "standby_get"]
                  \/ standby = val[w] /\ wpc' = [wpc EXCEPT ![w] = "standby_store"]
               /\ enabled' <=> enabled
               /\ UNCHANGED <<duty, angle, angleDuty, standby, val, was, wasDuty>>
      BY <1>6 DEF Sysfs!StandbyTest
    <2>2. ASSUME ~overlapped PROVE Undisturbed'
      BY <2>effect, <2>1, <2>2, <1>own, <1>calm, <1>shape
         DEF Undisturbed, OthersIdle, Fresh, Switches, Tells
    <2>3. ASSUME alone.by = w PROVE Alone(w)'
      BY <2>effect, <2>1, <2>3, <1>own, <1>shape DEF Alone, OthersIdle, Fresh, Switches, Tells
    <2> QED
      BY <2>1, <2>2, <2>3, <1>own, <1>nobody
  <1>7. ASSUME NEW w \in Programs, Sysfs!StandbyGet(w) PROVE Goal
    <2>1. wpc[w] # "idle" /\ UNCHANGED <<alone, overlapped>>
      BY <1>7 DEF Sysfs!StandbyGet
    <2>bool. was'[w] <=> enabled
      BY <1>7, <1>types DEF Sysfs!StandbyGet, SysfsTyped
    <2>effect. /\ wpc[w] = "standby_get" /\ wpc' = [wpc EXCEPT ![w] = "standby_apply"]
               /\ wasDuty' = [wasDuty EXCEPT ![w] = duty]
               /\ was'[w] <=> enabled
               /\ enabled' <=> enabled
               /\ UNCHANGED <<duty, angle, angleDuty, standby, val>>
      BY <1>7, <2>bool, <1>types DEF Sysfs!StandbyGet, SysfsTyped
    <2>2. ASSUME ~overlapped PROVE Undisturbed'
      BY <2>effect, <2>1, <2>2, <1>own, <1>calm, <1>shape
         DEF Undisturbed, OthersIdle, Fresh, Switches, Tells
    <2>3. ASSUME alone.by = w PROVE Alone(w)'
      BY <2>effect, <2>1, <2>3, <1>own, <1>shape DEF Alone, OthersIdle, Fresh, Switches, Tells
    <2> QED
      BY <2>1, <2>2, <2>3, <1>own, <1>nobody
  <1>8. ASSUME NEW w \in Programs, Sysfs!StandbyApply(w) PROVE Goal
    <2>1. wpc[w] # "idle" /\ UNCHANGED <<alone, overlapped>>
      BY <1>8 DEF Sysfs!StandbyApply
    <2>bool. \/ /\ enabled' <=> val[w] = 0
                /\ duty' = wasDuty[w] /\ wpc' = [wpc EXCEPT ![w] = "standby_store"]
             \/ /\ enabled' = enabled
                /\ duty' = duty /\ wpc' = [wpc EXCEPT ![w] = "idle"]
      BY <1>8, Zenon DEF Sysfs!StandbyApply
    <2>effect. /\ wpc[w] = "standby_apply"
               /\ \/ /\ enabled' <=> val[w] = 0
                     /\ duty' = wasDuty[w] /\ wpc' = [wpc EXCEPT ![w] = "standby_store"]
                  \/ /\ enabled' <=> enabled
                     /\ duty' = duty /\ wpc' = [wpc EXCEPT ![w] = "idle"]
               /\ UNCHANGED <<angle, angleDuty, standby, val, was, wasDuty>>
      BY <1>8, <2>bool DEF Sysfs!StandbyApply
    <2>2. ASSUME ~overlapped PROVE Undisturbed'
      BY <2>effect, <2>1, <2>2, <1>own, <1>calm, <1>shape
         DEF Undisturbed, OthersIdle, Fresh, Switches, Tells
    <2>3. ASSUME alone.by = w PROVE Alone(w)'
      BY <2>effect, <2>1, <2>3, <1>own, <1>shape DEF Alone, OthersIdle, Fresh, Switches, Tells
    <2> QED
      BY <2>1, <2>2, <2>3, <1>own, <1>nobody
  <1>9. ASSUME NEW w \in Programs, Sysfs!StandbyStore(w) PROVE Goal
    <2>1. /\ wpc[w] = "standby_store" /\ wpc' = [wpc EXCEPT ![w] = "idle"]
          /\ standby' = val[w]
          /\ UNCHANGED <<enabled, duty, angle, angleDuty, val, was, wasDuty, overlapped>>
      BY <1>9 DEF Sysfs!StandbyStore
    <2>bit. val[w] \in {0, 1}
      BY <2>1 DEF SysfsInv, SysfsTypes
    <2>history. alone \in [by : Programs \cup {"nobody"}, last : Seq({0, 1})]
      BY <1>types DEF SysfsTyped
    <2>pushed. /\ alone'.by = alone.by
               /\ alone.by # w => alone' = alone
               /\ alone.by = w => alone'.last = Younger(alone.last) \o <<val[w]>>
      BY <1>9, <2>bit, <2>history, LoneStore
    <2>2. ASSUME ~overlapped PROVE Undisturbed'
      BY <2>1, <2>2, <1>own, <1>calm, <1>types
         DEF Undisturbed, OthersIdle, Fresh, Switches, Tells, SysfsTyped
    <2>3. ASSUME alone.by = w PROVE Alone(w)'
      <3> DEFINE n == Len(alone.last)
                 t == alone'.last
      <3>1. Alone(w) /\ alone.last \in Seq({0, 1}) /\ n \in {0, 1, 2}
        BY <2>3, <1>alone, <2>history DEF Alone
      <3>2. \/ Len(t) = 1 /\ t[1] = val[w]
            \/ Len(t) = 2 /\ t[2] = val[w] /\ n = 1 /\ t[1] = alone.last[1]
            \/ Len(t) = 2 /\ t[2] = val[w] /\ n = 2 /\ t[1] = alone.last[2]
        <4> DEFINE s == alone.last
                   v == val[w]
                   Bits == {0, 1}
        <4>1. s \in Seq(Bits) /\ Len(s) \in {0, 1, 2} /\ v \in Bits
          BY <3>1, <2>bit
        <4>2. t = Younger(s) \o <<v>>
          BY <2>3, <2>pushed
        <4> HIDE DEF s, v, t, Bits
        <4>3. \/ Len(t) = 1 /\ t[1] = v
              \/ Len(t) = 2 /\ t[2] = v /\ Len(s) = 1 /\ t[1] = s[1]
              \/ Len(t) = 2 /\ t[2] = v /\ Len(s) = 2 /\ t[1] = s[2]
          BY <4>1, <4>2, LastTwo
        <4> QED
          BY <4>3 DEF s, v
      <3>3. OthersIdle(w)' /\ Fresh(w)' /\ ~Switches(w)'
        BY <3>1, <2>1, <1>types DEF Alone, OthersIdle, Fresh, Switches, SysfsTyped
      <3>4. Len(t) = 2 /\ t[1] # t[2] => Tells'
        <4>1. SUFFICES ASSUME Len(t) = 2, t[1] # t[2] PROVE Tells'
          OBVIOUS
        <4>2. standby # val[w]
          BY <4>1, <3>1, <3>2 DEF Alone
        <4>3. enabled <=> val[w] = 0
          BY <4>2, <3>1, <2>1 DEF Alone, Switches
        <4> QED
          BY <4>3, <2>1 DEF Tells
      <3>5. /\ Len(t) \in {0, 1, 2}
            /\ Len(t) = 1 => standby' = t[1]
            /\ Len(t) = 2 => standby' = t[2]
        BY <2>1, <3>2
      <3> QED
        BY <3>3, <3>4, <3>5 DEF Alone
    <2> QED
      <3>1. w # "nobody"
        BY ProgramsAssumption
      <3> QED
        BY <3>1, <2>1, <2>2, <2>3, <2>pushed, <1>own, <1>nobody
  <1>begin. ASSUME NEW w \in Programs, NEW first \in {"angle", "standby"}, NEW v,
                   Sysfs!Begins(w, first, v)
            PROVE  Goal
    <2>1. /\ wpc[w] = "idle" /\ wpc' = [wpc EXCEPT ![w] = first]
          /\ val' = [val EXCEPT ![w] = v]
          /\ UNCHANGED <<enabled, duty, angle, angleDuty, standby, was, wasDuty>>
      BY <1>begin DEF Sysfs!Begins
    <2>2. Sysfs!Quiet(w) <=> OthersIdle(w)
      BY DEF Sysfs!Quiet, OthersIdle
    <2>3. ASSUME ~overlapped' PROVE Undisturbed'
      <3>1. ~overlapped /\ OthersIdle(w)
        BY <1>begin, <2>2, <2>3 DEF Sysfs!Begins
      <3> QED
        BY <3>1, <2>1, <1>calm, <1>types DEF Undisturbed, OthersIdle, Fresh, Switches, Tells,
                                      SysfsTyped
    <2>4. CASE OthersIdle(w) /\ alone.by = w
      <3>1. alone' = alone
        BY <1>begin, <2>2, <2>4 DEF Sysfs!Begins
      <3>2. Alone(w)'
        BY <3>1, <2>1, <2>4, <1>alone, <1>types DEF Alone, OthersIdle, Fresh, Switches, Tells,
                                            SysfsTyped
      <3> QED
        BY <3>1, <3>2, <2>3, <2>4, <1>nobody
    <2>5. CASE OthersIdle(w) /\ alone.by # w
      <3>1. alone' = [by |-> w, last |-> <<>>]
        BY <1>begin, <2>2, <2>5 DEF Sysfs!Begins
      <3>2. alone'.by = w /\ alone'.last = <<>>
        BY <3>1
      <3>3. Alone(w)'
        BY <3>2, <2>1, <2>5, <1>types DEF Alone, OthersIdle, Fresh, Switches, SysfsTyped
      <3> QED
        BY <3>2, <3>3, <2>3
    <2>6. CASE ~OthersIdle(w)
      <3>1. alone' = [by |-> "nobody", last |-> <<>>]
        BY <1>begin, <2>2, <2>6 DEF Sysfs!Begins, Sysfs!NoWriter
      <3>2. alone'.by = "nobody" /\ alone'.last = <<>>
        BY <3>1
      <3> QED
        BY <3>2, <2>3, ProgramsAssumption
    <2> QED
      BY <2>4, <2>5, <2>6
  <1>1. ASSUME NEW w \in Programs, Sysfs!AngleBegin(w) PROVE Goal
    <2>1. PICK v \in Angles : Sysfs!Begins(w, "angle", v)
      BY <1>1 DEF Sysfs!AngleBegin
    <2> QED
      BY <2>1, <1>begin
  <1>5. ASSUME NEW w \in Programs, Sysfs!StandbyBegin(w) PROVE Goal
    <2>1. PICK v \in {0, 1} : Sysfs!Begins(w, "standby", v)
      BY <1>5 DEF Sysfs!StandbyBegin
    <2> QED
      BY <2>1, <1>begin
  <1> QED
    BY <1>1, <1>2, <1>3, <1>4, <1>5, <1>6, <1>7, <1>8, <1>9 DEF Sysfs!Next

LEMMA SysfsInvariant == Spec => []SysfsInv
  <1>1. SysfsInv /\ [Next]_vars => SysfsInv'
    <2> SUFFICES ASSUME SysfsInv, [Next]_vars PROVE SysfsInv'
      OBVIOUS
    <2>1. CASE Sysfs!Next
      BY <2>1, SysfsStep
    <2>2. CASE UNCHANGED sysfsVars
      BY <2>2 DEF sysfsVars, SysfsInv, SysfsTypes, Sysfs!TypeOK, Undisturbed, Alone, OthersIdle,
                  Fresh, Switches, Tells
    <2> QED
      BY <2>1, <2>2 DEF vars, Next, Pwm_Step, Sysfs_Step, Gpio_Step, Lidar_Step, Serial_Step,
                         Display_Step, Lifecycle_Step, Calibration_Step, Image_Step
  <1> QED
    BY SysfsInit, <1>1, PTL DEF Spec

\* For any number of files open on the attributes and any angles written to them: a write
\* that no other has overlapped leaves a copy that tells what the PWM does, whichever
\* calls of pwm_config and pwm_enable failed (pwm_disable, which returns nothing, is taken
\* never to fail); and after any race, storing both values of standby in turn does.
THEOREM SysfsCopyIsTrue == Spec => []SysfsCopyTells
  <1>1. SysfsInv => SysfsCopyTells
    <2> SUFFICES ASSUME SysfsInv, \A w \in Programs : wpc[w] = "idle"
                 PROVE  /\ ~overlapped =>
                               enabled = (standby = 0) /\ duty = angleDuty
                               /\ angleDuty = Sysfs!Duty(angle)
                        /\ Len(alone.last) = 2 /\ alone.last[1] # alone.last[2] =>
                               enabled = (standby = 0)
      BY DEF SysfsCopyTells, Sysfs!CopyTells, Sysfs!AllIdle
    <2>1. Tells => enabled = (standby = 0)
      BY SysfsTyping DEF SysfsInv, SysfsTypes, SysfsTyped, Tells
    <2>2. ~overlapped => Tells /\ duty = angleDuty /\ angleDuty = Sysfs!Duty(angle)
      BY DEF SysfsInv, Undisturbed, Switches
    <2>3. Len(alone.last) = 2 /\ alone.last[1] # alone.last[2] => Tells
      <3>1. alone.by \in Programs \cup {"nobody"}
        BY SysfsTyping DEF SysfsInv, SysfsTypes, SysfsTyped
      <3>2. alone.by = "nobody" => Len(alone.last) = 0
        BY DEF SysfsInv
      <3> QED
        BY <3>1, <3>2 DEF SysfsInv, Alone, Switches
    <2> QED
      BY <2>1, <2>2, <2>3
  <1> QED
    BY SysfsInvariant, <1>1, PTL
-----------------------------------------------------------------------------
(* The display *)

\* Two sequences in a row, by the places of each.
LEMMA Split ==
    ASSUME NEW u, NEW s, NEW t, NEW m \in Nat, NEW n \in Nat,
           \A j \in 1..(m + n) : u[j] = IF j <= m THEN s[j] ELSE t[j - m]
    PROVE  (\A i \in 1..m : u[i] = s[i]) /\ (\A i \in 1..n : u[i + m] = t[i])
  <1>1. ASSUME NEW i \in 1..m PROVE u[i] = s[i]
    <2>1. i \in 1..(m + n) /\ i <= m
      OBVIOUS
    <2> QED
      BY <2>1
  <1>2. ASSUME NEW i \in 1..n PROVE u[i + m] = t[i]
    <2>1. i + m \in 1..(m + n) /\ ~(i + m <= m) /\ (i + m) - m = i
      OBVIOUS
    <2> QED
      BY <2>1
  <1> QED
    BY <1>1, <1>2

LEMMA SeqOf ==
    ASSUME NEW s, NEW n \in Nat, s = [i \in 1..n |-> s[i]], NEW S, \A i \in 1..n : s[i] \in S
    PROVE  s \in Seq(S) /\ Len(s) = n
  OBVIOUS

\* A finite set of integers has a largest.
LEMMA Largest ==
    ASSUME NEW T \in SUBSET Int, IsFiniteSet(T), NEW e \in T
    PROVE  \E i \in T : \A j \in T : j <= i
  <1> DEFINE Above(i) == {j \in T : j > i}
             R == StrictSubsetOrdering(T)
             D == {Above(i) : i \in T}
  <1>1. D \subseteq FiniteSubsetsOf(T) /\ D # {}
    <2>1. \A d \in D : d \subseteq T
      OBVIOUS
    <2>2. \A d \in D : IsFiniteSet(d)
      BY <2>1, FS_Subset
    <2>3. Above(e) \in D
      OBVIOUS
    <2> HIDE DEF D
    <2> QED
      BY <2>1, <2>2, <2>3 DEF FiniteSubsetsOf
  <1>2. PICK d \in D : \A f \in D : ~(<<f, d>> \in R)
    <2>1. IsWellFoundedOn(R, FiniteSubsetsOf(T))
      BY FS_StrictSubsetOrderingWellFounded
    <2> HIDE DEF D, R
    <2> QED
      BY <1>1, <2>1, WFMin
  <1>3. PICK i \in T : d = Above(i)
    OBVIOUS
  <1>4. SUFFICES ASSUME NEW j \in T, j > i PROVE FALSE
    OBVIOUS
  <1>5. j \in Above(i) /\ j \notin Above(j)
    BY <1>4
  <1>6. Above(j) \subseteq Above(i)
    <2>1. \A k \in T : k > j => k > i
      BY <1>4
    <2> QED
      BY <2>1
  <1>7. <<Above(j), d>> \in R
    BY <1>3, <1>5, <1>6, Zenon DEF StrictSubsetOrdering
  <1> QED
    BY <1>2, <1>7

-----------------------------------------------------------------------------
N == Len(Display!Script)
Entry(n) == Display!Script[n]

LEMMA ScriptFacts ==
    /\ N = 20 /\ Len(Display!Setup) = 16
    /\ Entry(1).cmd = Display!SWRESET /\ Entry(1).data = <<>>
    /\ \A n \in 2..20 : Entry(n).cmd # Display!SWRESET
  <1> DEFINE s == Display!Setup
             t == [i \in 1..4 |-> Display!Reg(Display!RAMWR, Display!Pictures[i])]
             S == {s[i] : i \in 1..16} \cup {t[i] : i \in 1..4}
  <1>1. s = [i \in 1..16 |-> s[i]] /\ Len(s) = 16
    BY SMT DEF Display!Setup
  <1>2. Len(Display!Pictures) = 4
    BY SMT DEF Display!Pictures
  <1>3. Display!Script = s \o t
    BY <1>2, Zenon DEF Display!Script
  <1>4. s[1].cmd = 1 /\ s[1].data = <<>>
    BY SMT DEF Display!Setup, Display!Tx, Display!Reg
  <1>5. \A n \in 2..16 : s[n].cmd # 1
    <2>1. s[2].cmd # 1 /\ s[3].cmd # 1 /\ s[4].cmd # 1 /\ s[5].cmd # 1 /\ s[6].cmd # 1
      BY SMTT(30) DEF Display!Setup, Display!Reg
    <2>2. s[7].cmd # 1 /\ s[8].cmd # 1 /\ s[9].cmd # 1 /\ s[10].cmd # 1 /\ s[11].cmd # 1
      BY SMTT(30) DEF Display!Setup, Display!Reg
    <2>3. s[12].cmd # 1 /\ s[13].cmd # 1 /\ s[14].cmd # 1 /\ s[15].cmd # 1 /\ s[16].cmd # 1
      BY SMTT(30) DEF Display!Setup, Display!Tx, Display!Reg
    <2> HIDE DEF s
    <2> QED
      BY <2>1, <2>2, <2>3
  <1>6. \A i \in 1..4 : t[i].cmd # 1
    BY SMT DEF Display!Reg, Display!RAMWR
  <1>7. t = [i \in 1..4 |-> t[i]]
    OBVIOUS
  <1> HIDE DEF s, t
  <1>8. s \in Seq(S)
    BY <1>1, SeqOf
  <1>9. t \in Seq(S) /\ Len(t) = 4
    BY <1>7, SeqOf
  <1> HIDE DEF S
  <1> DEFINE u == s \o t
  <1>10. /\ Len(u) = 16 + 4
         /\ \A i \in 1..16 : u[i] = s[i]
         /\ \A i \in 1..4 : u[i + 16] = t[i]
    <2> DEFINE m == Len(s)
               n == Len(t)
    <2>1. m = 16 /\ n = 4
      BY <1>1, <1>9
    <2>2. /\ Len(u) = m + n
          /\ \A i \in 1..m : u[i] = s[i]
          /\ \A i \in 1..n : u[i + m] = t[i]
      <3>1. m \in Nat /\ n \in Nat
        BY <2>1
      <3>2. Len(u) = m + n
        BY <1>8, <1>9, ConcatProperties
      <3>3. \A j \in 1..(m + n) : u[j] = IF j <= m THEN s[j] ELSE t[j - m]
        BY <1>8, <1>9, ConcatProperties
      <3>4. (\A i \in 1..m : u[i] = s[i]) /\ \A i \in 1..n : u[i + m] = t[i]
        <4> HIDE DEF u, m, n
        <4> QED
          BY <3>1, <3>3, Split
      <3> QED
        BY <3>2, <3>4
    <2> HIDE DEF u, m, n
    <2> QED
      BY <2>1, <2>2
  <1>11. Display!Script = u
    BY <1>3
  <1> HIDE DEF u
  <1>12. \A n \in 2..20 : u[n].cmd # 1
    <2>1. \A n \in 2..16 : u[n].cmd # 1
      BY <1>5, <1>10
    <2>2. ASSUME NEW n \in 17..20 PROVE u[n].cmd # 1
      <3>1. n - 16 \in 1..4 /\ (n - 16) + 16 = n
        OBVIOUS
      <3> QED
        BY <3>1, <1>6, <1>10
    <2> QED
      BY <2>1, <2>2
  <1>13. u[1] = s[1] /\ Len(u) = 20
    BY <1>10
  <1> QED
    BY <1>1, <1>4, <1>11, <1>12, <1>13 DEF N, Entry, Display!SWRESET, s

\* The entries of the script that are through, sent or failed.
Done == IF dpc \in {"prepare", "alloc", "command", "data"} THEN pos - 1 ELSE pos
LastBy(n, c, i) ==
    i \in 1..n /\ Entry(i).cmd = c /\ \A j \in 1..n : Entry(j).cmd = c => j <= i
Spoilt(c) == \E f \in failed : Entry(f[1]).cmd = c
FreesBy(n) == IF <<n, "data">> \in failed THEN 1 ELSE 0

DisplayTypes ==
    /\ Display!TypeOK
    /\ panel = [last |-> panel.last, set |-> panel.set]
    /\ panel.set = [c \in Display!Commands |-> panel.set[c]]

DisplayPlace ==
    /\ dpc = "prepare" => pos \in {1, 17}
    /\ dpc \in {"alloc", "free"} => pos \in 17..20
    /\ dpc = "finish" => pos \in {16, 20}
    /\ dpc = "bound" => pos = 20
    /\ \A f \in failed : f[1] <= Done

\* kfree: by write_pixel if the data have failed, and by probe.
PictureKept ==
    /\ dpc \in {"command", "data"} /\ pos > 16 => frees = 0
    /\ dpc = "free" => frees = FreesBy(pos)
    /\ dpc = "finish" /\ pos > 16 => frees = FreesBy(pos) + 1
    /\ dpc = "alloc" /\ pos > 17 => frees = FreesBy(pos - 1) + 1

\* A command is as the last of its entries has set it, unless one of them has failed.
PanelSet ==
    /\ dpc = "data" => panel.last = Entry(pos).cmd
    /\ dpc \notin {"unbound", "oops"} => \A c \in Display!Commands :
           \/ Spoilt(c)
           \/ dpc = "data" /\ c = Entry(pos).cmd
           \/ \A i \in 1..Done : LastBy(Done, c, i) => panel.set[c] = Entry(i).data

DisplayInv == DisplayTypes /\ DisplayPlace /\ PictureKept /\ PanelSet /\ Display!Framed

\* No int read back from an uint8_t is negative.
LEMMA NeverNegative == ASSUME NEW n \in Int PROVE ~(Display!Returned(n) < 0)
  BY DEF Display!Returned

LEMMA Returns ==
    ASSUME NEW err \in Int, pos \in 1..20, Display!Return(err)
    PROVE  \/ dpc' = "free" /\ pos' = pos /\ pos > 16
           \/ dpc' = "finish" /\ pos' = pos /\ pos = 16
           \/ dpc' = "command" /\ pos' = pos + 1 /\ pos < 16
  BY NeverNegative, ScriptFacts DEF Display!Return, Display!IsPicture

\* What the panel makes of a command: others keep their value, but for the reset.
LEMMA Commanded ==
    ASSUME DisplayTypes, dc' = 1, NEW err, 
           Display!Transfer("command", <<Entry(pos).cmd>>, err)
    PROVE  LET c0 == Entry(pos).cmd IN
           /\ panel' = [last |-> panel'.last, set |-> panel'.set]
           /\ panel'.set = [c \in Display!Commands |-> panel'.set[c]]
           /\ \/ err = 0 /\ failed' = failed /\ panel'.last = c0 /\ panel'.set[c0] = <<>>
              \/ /\ err = -5 /\ failed' = failed \cup {<<pos, "command">>}
                 /\ panel'.set[c0] \in {panel.set[c0], <<>>}
           /\ \A c \in Display!Commands : c # c0 =>
                  \/ panel'.set[c] = panel.set[c]
                  \/ pos = 1 /\ panel'.set[c] = <<-1>>
  <1> DEFINE c0 == Entry(pos).cmd
  <1>1. pos \in 1..20 /\ c0 \in Display!Commands
    BY ScriptFacts DEF DisplayTypes, Display!TypeOK, Display!Commands, Entry, N
  <1>2. c0 = Display!SWRESET => pos = 1
    <2>1. pos # 1 => pos \in 2..20
      BY <1>1
    <2> QED
      BY <2>1, ScriptFacts
  <1>3. /\ panel = [last |-> panel.last, set |-> panel.set]
        /\ panel.set = [c \in Display!Commands |-> panel.set[c]]
    BY DEF DisplayTypes
  <1> DEFINE P == [last |-> c0,
                   set |-> IF c0 = Display!SWRESET
                           THEN [Display!Default EXCEPT ![Display!SWRESET] = <<>>]
                           ELSE [panel.set EXCEPT ![c0] = <<>>]]
  <1>4. Display!Take(<<c0>>, dc') = P
    <2>1. <<c0>>[1] = c0
      OBVIOUS
    <2> HIDE DEF c0
    <2> QED
      BY <2>1 DEF Display!Take
  <1>5. /\ P = [last |-> P.last, set |-> P.set]
        /\ P.last = c0
        /\ P.set = [c \in Display!Commands |-> P.set[c]]
        /\ P.set[c0] = <<>>
        /\ \A c \in Display!Commands : c # c0 =>
               P.set[c] = panel.set[c] \/ (pos = 1 /\ P.set[c] = <<-1>>)
    <2> HIDE DEF c0
    <2> QED
      BY <1>1, <1>2, <1>3 DEF Display!Default
  <1>6. \/ err = 0 /\ panel' = P /\ failed' = failed
        \/ /\ err = -5 /\ panel' \in {panel, P}
           /\ failed' = failed \cup {<<pos, "command">>}
    <2> HIDE DEF P
    <2> QED
      BY <1>4 DEF Display!Transfer, Display!EIO
  <1> HIDE DEF P, c0
  <1>7. CASE panel' = P /\ err = 0
    BY <1>5, <1>6, <1>7 DEF c0
  <1>8. CASE panel' = P /\ err = -5
    BY <1>5, <1>6, <1>8 DEF c0
  <1>9. CASE panel' = panel /\ err = -5
    BY <1>3, <1>6, <1>9 DEF c0
  <1> QED
    BY <1>6, <1>7, <1>8, <1>9

\* What it makes of the data of a command.
LEMMA DataSent ==
    ASSUME DisplayTypes, dc' = 0, NEW err, panel.last = Entry(pos).cmd,
           Display!Transfer("data", Entry(pos).data, err)
    PROVE  LET c0 == Entry(pos).cmd IN
           /\ panel' = [last |-> panel'.last, set |-> panel'.set]
           /\ panel'.set = [c \in Display!Commands |-> panel'.set[c]]
           /\ \/ err = 0 /\ failed' = failed /\ panel'.set[c0] = Entry(pos).data
              \/ /\ err = -5 /\ failed' = failed \cup {<<pos, "data">>}
                 /\ panel'.set[c0] \in {panel.set[c0], Entry(pos).data}
           /\ \A c \in Display!Commands : c # c0 => panel'.set[c] = panel.set[c]
  <1> DEFINE c0 == Entry(pos).cmd
             d0 == Entry(pos).data
  <1>1. pos \in 1..20 /\ c0 \in Display!Commands
    BY ScriptFacts DEF DisplayTypes, Display!TypeOK, Display!Commands, Entry, N
  <1>3. /\ panel = [last |-> panel.last, set |-> panel.set]
        /\ panel.set = [c \in Display!Commands |-> panel.set[c]]
    BY DEF DisplayTypes
  <1> DEFINE P == [last |-> panel.last, set |-> [panel.set EXCEPT ![c0] = d0]]
  <1>4. Display!Take(d0, dc') = P
    <2>1. panel.last = c0
      OBVIOUS
    <2> HIDE DEF c0, d0
    <2> QED
      BY <2>1, <1>1, <1>3 DEF Display!Take
  <1>5. /\ P = [last |-> P.last, set |-> P.set]
        /\ P.set = [c \in Display!Commands |-> P.set[c]]
        /\ P.set[c0] = d0
        /\ \A c \in Display!Commands : c # c0 => P.set[c] = panel.set[c]
    <2> HIDE DEF c0, d0
    <2> QED
      BY <1>1, <1>3
  <1>6. \/ err = 0 /\ panel' = P /\ failed' = failed
        \/ /\ err = -5 /\ panel' \in {panel, P}
           /\ failed' = failed \cup {<<pos, "data">>}
    <2> HIDE DEF P
    <2> QED
      BY <1>4 DEF Display!Transfer, Display!EIO
  <1> HIDE DEF P, c0, d0
  <1>7. CASE panel' = P /\ err = 0
    BY <1>5, <1>6, <1>7 DEF c0, d0
  <1>8. CASE panel' = P /\ err = -5
    BY <1>5, <1>6, <1>8 DEF c0, d0
  <1>9. CASE panel' = panel /\ err = -5
    BY <1>3, <1>6, <1>9 DEF c0, d0
  <1> QED
    BY <1>6, <1>7, <1>8, <1>9

LEMMA LastOfMore ==
    ASSUME NEW n \in 1..20, NEW c, NEW i, LastBy(n, c, i)
    PROVE  IF Entry(n).cmd = c THEN i = n ELSE i \in 1..(n - 1) /\ LastBy(n - 1, c, i)
  <1>1. i \in 1..n /\ Entry(i).cmd = c /\ \A j \in 1..n : Entry(j).cmd = c => j <= i
    BY DEF LastBy
  <1>2. CASE Entry(n).cmd = c
    <2>1. n <= i
      BY <1>1, <1>2
    <2> QED
      BY <1>1, <1>2, <2>1
  <1>3. CASE Entry(n).cmd # c
    <2>1. i # n
      BY <1>1, <1>3
    <2>2. i \in 1..(n - 1) /\ \A j \in 1..(n - 1) : j \in 1..n
      BY <1>1, <2>1
    <2> QED
      BY <1>1, <1>3, <2>2 DEF LastBy
  <1> QED
    BY <1>2, <1>3

\* Probe goes past an entry that is as it should be, or that has failed.
LEMMA GoesPast ==
    ASSUME pos \in 1..20, dpc \in {"command", "data"}, PanelSet,
           Done' = pos, failed \subseteq failed',
           \/ panel'.set[Entry(pos).cmd] = Entry(pos).data
           \/ \E f \in failed' : Entry(f[1]).cmd = Entry(pos).cmd,
           \A c \in Display!Commands : c # Entry(pos).cmd =>
               panel'.set[c] = panel.set[c] \/ pos = 1
    PROVE  \A c \in Display!Commands :
               \/ Spoilt(c)'
               \/ \A i \in 1..Done' : LastBy(Done', c, i) => panel'.set[c] = Entry(i).data
  <1> SUFFICES ASSUME NEW c \in Display!Commands, ~Spoilt(c)',
                      NEW i \in 1..pos, LastBy(pos, c, i)
               PROVE  panel'.set[c] = Entry(i).data
    BY Zenon
  <1>1. ~Spoilt(c)
    BY DEF Spoilt
  <1>2. CASE Entry(pos).cmd = c
    <2>1. i = pos
      BY <1>2, LastOfMore
    <2> QED
      BY <1>2, <2>1 DEF Spoilt
  <1>3. CASE Entry(pos).cmd # c
    <2>1. i \in 1..(pos - 1) /\ LastBy(pos - 1, c, i)
      BY <1>3, LastOfMore
    <2>2. pos # 1 /\ panel'.set[c] = panel.set[c]
      BY <1>3, <2>1
    <2>3. Done = pos - 1
      BY DEF Done
    <2>4. panel.set[c] = Entry(i).data
      BY <1>1, <1>3, <2>1, <2>3 DEF PanelSet
    <2> QED
      BY <2>2, <2>4
  <1> QED
    BY <1>2, <1>3

LEMMA DisplayInit == Init => DisplayInv
  <1> SUFFICES ASSUME Init PROVE DisplayInv
    OBVIOUS
  <1>1. /\ dpc = "unbound" /\ pos = 1 /\ cs = 0 /\ dc = 0
        /\ panel = [last |-> 0, set |-> Display!Default]
        /\ frees = 0 /\ failed = {}
    BY DEF Init, Display!Init
  <1>2. panel.set = [c \in Display!Commands |-> <<-1>>]
    BY <1>1 DEF Display!Default
  <1>3. DisplayTypes
    BY <1>1, <1>2, ScriptFacts DEF DisplayTypes, Display!TypeOK, N
  <1>4. DisplayPlace /\ PictureKept /\ PanelSet
    BY <1>1 DEF DisplayPlace, PictureKept, PanelSet
  <1>5. Display!Framed
    BY <1>2 DEF Display!Framed
  <1> QED
    BY <1>3, <1>4, <1>5 DEF DisplayInv

LEMMA FramedStays ==
    ASSUME Display!Framed,
           \A c \in Display!Commands :
               \/ panel'.set[c] \in {panel.set[c], <<-1>>, <<>>}
               \/ \E n \in 1..N : Entry(n).cmd = c /\ panel'.set[c] = Entry(n).data
    PROVE  Display!Framed'
  BY DEF Display!Framed, N, Entry

LEMMA DisplayStep == DisplayInv /\ Display!Next => DisplayInv'
  <1> SUFFICES ASSUME DisplayInv, Display!Next PROVE DisplayInv'
    OBVIOUS
  <1>t. DisplayTypes /\ DisplayPlace /\ PictureKept /\ PanelSet /\ Display!Framed
    BY DEF DisplayInv
  <1>0. /\ dpc \in {"unbound", "prepare", "alloc", "command", "data", "free", "finish",
                    "bound", "oops"}
        /\ pos \in 1..20 /\ cs \in {0, 1} /\ dc \in {0, 1} /\ frees \in 0..2
        /\ failed \subseteq (1..20) \X {"command", "data"}
    BY <1>t, ScriptFacts DEF DisplayTypes, Display!TypeOK, N
  <1>N. N = 20
    BY ScriptFacts
  <1>p. \A n \in Int : Display!IsPicture(n) <=> n > 16
    BY ScriptFacts DEF Display!IsPicture
  <1> DEFINE Types ==
        /\ dpc' \in {"unbound", "prepare", "alloc", "command", "data", "free", "finish",
                     "bound", "oops"}
        /\ pos' \in 1..20 /\ cs' \in {0, 1} /\ dc' \in {0, 1} /\ frees' \in 0..2
        /\ failed' \subseteq (1..20) \X {"command", "data"}
        /\ panel' = [last |-> panel'.last, set |-> panel'.set]
        /\ panel'.set = [c \in Display!Commands |-> panel'.set[c]]
  <1>T. Types => DisplayTypes'
    BY ScriptFacts DEF DisplayTypes, Display!TypeOK, N
  <1>pan. /\ panel = [last |-> panel.last, set |-> panel.set]
          /\ panel.set = [c \in Display!Commands |-> panel.set[c]]
    BY <1>t DEF DisplayTypes
  \* The steps that leave the panel alone.
  <1> DEFINE Still ==
        /\ UNCHANGED <<panel, failed>> /\ Done' = Done
        /\ dpc' \notin {"data"} /\ dpc \notin {"data", "unbound", "oops"}
  <1>S. Still => PanelSet' /\ Display!Framed'
    <2> SUFFICES ASSUME Still PROVE PanelSet' /\ Display!Framed'
      OBVIOUS
    <2>1. Display!Framed'
      BY <1>t DEF Display!Framed
    <2> QED
      BY <1>t, <2>1 DEF PanelSet, Spoilt
  <1>1. CASE Display!Probe
    <2>1. /\ dpc' \in {"prepare", "unbound", "oops"} /\ pos' = 1 /\ frees' = 0
          /\ failed' = {} /\ panel' = panel /\ cs' \in {0, 1} /\ dc' \in {0, 1}
      BY <1>0, <1>1 DEF Display!Probe
    <2>2. DisplayTypes'
      BY <1>T, <1>pan, <2>1
    <2>3. DisplayPlace' /\ PictureKept'
      BY <2>1 DEF DisplayPlace, PictureKept
    <2>4. PanelSet'
      <3>1. dpc' \notin {"unbound", "oops"} => Done' = 0
        BY <2>1 DEF Done
      <3> QED
        BY <2>1, <3>1 DEF PanelSet
    <2>5. Display!Framed'
      BY <1>t, <2>1 DEF Display!Framed
    <2> QED
      BY <2>2, <2>3, <2>4, <2>5 DEF DisplayInv
  <1>2. CASE Display!Prepare
    <2>1. /\ dpc = "prepare" /\ dpc' = IF pos > 16 THEN "alloc" ELSE "command"
          /\ cs' = 1 /\ UNCHANGED <<pos, dc, panel, frees, failed>>
      BY <1>0, <1>2, <1>p DEF Display!Prepare
    <2>2. pos \in {1, 17} /\ Done = pos - 1 /\ Done' = Done
      BY <1>t, <2>1 DEF DisplayPlace, Done
    <2>3. DisplayTypes'
      BY <1>0, <1>T, <1>pan, <2>1
    <2>4. DisplayPlace' /\ PictureKept'
      BY <1>t, <2>1, <2>2 DEF DisplayPlace, PictureKept
    <2> QED
      BY <1>S, <2>1, <2>2, <2>3, <2>4 DEF DisplayInv
  <1>3. CASE Display!Alloc
    <2>1. /\ dpc = "alloc" /\ dpc' \in {"command", "oops"} /\ frees' = 0
          /\ UNCHANGED <<pos, cs, dc, panel, failed>>
      BY <1>3 DEF Display!Alloc
    <2>2. pos \in 17..20 /\ \A f \in failed : f[1] <= pos - 1
      BY <1>t, <2>1 DEF DisplayPlace, Done
    <2>3. DisplayTypes'
      BY <1>0, <1>T, <1>pan, <2>1
    <2>4. \A f \in failed : f[1] \in Int
      BY <1>0
    <2>5. DisplayPlace' /\ PictureKept'
      BY <2>1, <2>2, <2>4 DEF DisplayPlace, PictureKept, Done
    <2>6. CASE dpc' = "command"
      <3>1. Done' = Done
        BY <2>1, <2>6 DEF Done
      <3> QED
        BY <1>S, <2>1, <2>3, <2>5, <2>6, <3>1 DEF DisplayInv
    <2>7. CASE dpc' = "oops"
      <3>1. PanelSet' /\ Display!Framed'
        BY <1>t, <2>1, <2>7 DEF PanelSet, Display!Framed
      <3> QED
        BY <2>3, <2>5, <3>1 DEF DisplayInv
    <2> QED
      BY <2>1, <2>6, <2>7
  <1>4. CASE Display!SendCommand
    <2> DEFINE c0 == Entry(pos).cmd
    <2>1. dpc = "command" /\ dc' = 1 /\ UNCHANGED <<cs, frees>>
      BY <1>4 DEF Display!SendCommand
    <2>2. PICK err \in {0, -5} :
              /\ Display!Transfer("command", <<Entry(pos).cmd>>, err)
              /\ IF err < 0 \/ Entry(pos).data = <<>> THEN Display!Return(err)
                 ELSE dpc' = "data" /\ pos' = pos
      BY <1>4 DEF Display!SendCommand, Display!EIO, Entry
    <2>3. /\ panel' = [last |-> panel'.last, set |-> panel'.set]
          /\ panel'.set = [c \in Display!Commands |-> panel'.set[c]]
          /\ \/ err = 0 /\ failed' = failed /\ panel'.last = c0 /\ panel'.set[c0] = <<>>
             \/ /\ err = -5 /\ failed' = failed \cup {<<pos, "command">>}
                /\ panel'.set[c0] \in {panel.set[c0], <<>>}
          /\ \A c \in Display!Commands : c # c0 =>
                 \/ panel'.set[c] = panel.set[c]
                 \/ pos = 1 /\ panel'.set[c] = <<-1>>
      BY <1>t, <2>1, <2>2, Commanded
    <2>4. Done = pos - 1 /\ \A f \in failed : f[1] <= pos - 1
      BY <1>t, <2>1 DEF Done, DisplayPlace
    <2>5. c0 \in Display!Commands
      BY <1>0, <1>N DEF Display!Commands, Entry, N
    <2>6. Display!Framed'
      <3>1. \A c \in Display!Commands : panel'.set[c] \in {panel.set[c], <<-1>>, <<>>}
        BY <2>3, <2>5
      <3> HIDE DEF c0
      <3> QED
        BY <1>t, <3>1, FramedStays
    <2>7. /\ failed' \subseteq (1..20) \X {"command", "data"}
          /\ failed \subseteq failed'
          /\ <<pos, "data">> \in failed' <=> <<pos, "data">> \in failed
          /\ \A f \in failed' : f[1] <= pos
          /\ err = 0 => \A f \in failed' : f[1] <= pos - 1
      <3>1. \A f \in failed : f[1] \in Int
        BY <1>0
      <3>2. failed' = failed \/ failed' = failed \cup {<<pos, "command">>}
        BY <2>3
      <3>3. \A f \in failed' : f \in failed \/ f[1] = pos
        BY <3>2
      <3>4. \A f \in failed' : f[1] <= pos
        BY <1>0, <2>4, <3>1, <3>3
      <3> QED
        BY <1>0, <2>3, <2>4, <3>2, <3>4
    <2>8. <<pos, "data">> \notin failed
      <3>1. ~(pos <= pos - 1) /\ <<pos, "data">>[1] = pos
        BY <1>0
      <3> QED
        BY <2>4, <3>1
    <2>9. CASE err = 0 /\ dpc' = "data" /\ pos' = pos
      <3>1. DisplayTypes'
        BY <1>0, <1>T, <2>1, <2>3, <2>7, <2>9
      <3>2. DisplayPlace'
        BY <2>7, <2>9 DEF DisplayPlace, Done
      <3>3. PictureKept'
        BY <1>t, <2>1, <2>9 DEF PictureKept
      <3>4. PanelSet'
        <4>1. Done' = Done
          BY <2>1, <2>9 DEF Done
        <4>2. panel'.last = c0 /\ failed' = failed
          BY <2>3, <2>9
        <4>3. ASSUME NEW c \in Display!Commands, c # c0, ~Spoilt(c),
                     NEW i \in 1..Done, LastBy(Done, c, i)
              PROVE  panel'.set[c] = Entry(i).data
          <5>1. pos # 1
            BY <1>0, <2>4, <4>3
          <5>2. panel'.set[c] = panel.set[c]
            BY <2>3, <4>3, <5>1
          <5> QED
            BY <1>t, <2>1, <4>3, <5>2 DEF PanelSet
        <4>5. \A c \in Display!Commands : Spoilt(c)' <=> Spoilt(c)
          BY <4>2 DEF Spoilt
        <4> QED
          BY <2>9, <4>1, <4>2, <4>3, <4>5 DEF PanelSet
      <3> QED
        BY <2>6, <3>1, <3>2, <3>3, <3>4 DEF DisplayInv
    <2>10. CASE (err = -5 \/ Entry(pos).data = <<>>) /\ Display!Return(err)
      <3>1. \/ dpc' = "free" /\ pos' = pos /\ pos > 16
            \/ dpc' = "finish" /\ pos' = pos /\ pos = 16
            \/ dpc' = "command" /\ pos' = pos + 1 /\ pos < 16
        BY <1>0, <2>2, <2>10, Returns
      <3>2. Done' = pos
        BY <1>0, <3>1 DEF Done
      <3>3. DisplayTypes'
        BY <1>0, <1>T, <2>1, <2>3, <2>7, <3>1
      <3>4. DisplayPlace'
        BY <1>0, <2>7, <3>1, <3>2 DEF DisplayPlace
      <3>5. PictureKept'
        BY <1>0, <1>t, <2>1, <2>7, <2>8, <3>1 DEF PictureKept, FreesBy
      <3>6. panel'.set[c0] = Entry(pos).data \/ \E f \in failed' : Entry(f[1]).cmd = c0
        <4>1. err = -5 => <<pos, "command">> \in failed'
          BY <2>3
        <4>2. <<pos, "command">>[1] = pos
          OBVIOUS
        <4> QED
          BY <2>3, <2>10, <4>1, <4>2
      <3>7. PanelSet'
        <4>1. \A c \in Display!Commands :
                  \/ Spoilt(c)'
                  \/ \A i \in 1..Done' : LastBy(Done', c, i) => panel'.set[c] = Entry(i).data
          BY <1>0, <1>t, <2>1, <2>3, <2>7, <3>2, <3>6, GoesPast
        <4> QED
          BY <3>1, <4>1 DEF PanelSet
      <3> QED
        BY <2>6, <3>3, <3>4, <3>5, <3>7 DEF DisplayInv
    <2> QED
      BY <2>2, <2>9, <2>10
  <1>5. CASE Display!SendData
    <2> DEFINE c0 == Entry(pos).cmd
    <2>1. dpc = "data" /\ dc' = 0 /\ UNCHANGED cs
      BY <1>5 DEF Display!SendData
    <2>2. PICK err \in {0, -5} :
              /\ Display!Transfer("data", Entry(pos).data, err) /\ Display!Return(err)
              /\ frees' = IF err = -5 /\ pos > 16 THEN frees + 1 ELSE frees
      BY <1>0, <1>5, <1>p DEF Display!SendData, Display!EIO, Entry
    <2>3. /\ panel' = [last |-> panel'.last, set |-> panel'.set]
          /\ panel'.set = [c \in Display!Commands |-> panel'.set[c]]
          /\ \/ err = 0 /\ failed' = failed /\ panel'.set[c0] = Entry(pos).data
             \/ /\ err = -5 /\ failed' = failed \cup {<<pos, "data">>}
                /\ panel'.set[c0] \in {panel.set[c0], Entry(pos).data}
          /\ \A c \in Display!Commands : c # c0 => panel'.set[c] = panel.set[c]
      <3>1. panel.last = Entry(pos).cmd
        BY <1>t, <2>1 DEF PanelSet
      <3> QED
        BY <1>t, <2>1, <2>2, <3>1, DataSent
    <2>4. Done = pos - 1 /\ \A f \in failed : f[1] <= pos - 1
      BY <1>t, <2>1 DEF Done, DisplayPlace
    <2>5. c0 \in Display!Commands
      BY <1>0, <1>N DEF Display!Commands, Entry, N
    <2>6. Display!Framed'
      <3>1. \A c \in Display!Commands :
                \/ panel'.set[c] \in {panel.set[c], <<-1>>, <<>>}
                \/ \E n \in 1..N : Entry(n).cmd = c /\ panel'.set[c] = Entry(n).data
        <4>1. pos \in 1..N
          BY <1>0, <1>N
        <4> QED
          BY <2>3, <2>5, <4>1
      <3> HIDE DEF c0
      <3> QED
        BY <1>t, <3>1, FramedStays
    <2>8. <<pos, "data">> \notin failed
      <3>1. ~(pos <= pos - 1) /\ <<pos, "data">>[1] = pos
        BY <1>0
      <3> QED
        BY <2>4, <3>1
    <2>7. /\ failed' \subseteq (1..20) \X {"command", "data"}
          /\ failed \subseteq failed'
          /\ <<pos, "data">> \in failed' <=> err = -5
          /\ \A f \in failed' : f[1] <= pos
      <3>1. \A f \in failed : f[1] \in Int
        BY <1>0
      <3>2. \/ err = 0 /\ failed' = failed
            \/ err = -5 /\ failed' = failed \cup {<<pos, "data">>}
        BY <2>3
      <3>3. \A f \in failed' : f \in failed \/ f[1] = pos
        BY <3>2
      <3>4. \A f \in failed' : f[1] <= pos
        BY <1>0, <2>4, <3>1, <3>3
      <3> QED
        BY <1>0, <2>8, <3>2, <3>4
    <2>10. \/ dpc' = "free" /\ pos' = pos /\ pos > 16
           \/ dpc' = "finish" /\ pos' = pos /\ pos = 16
           \/ dpc' = "command" /\ pos' = pos + 1 /\ pos < 16
      BY <1>0, <2>2, Returns
    <2>11. Done' = pos
      BY <1>0, <2>10 DEF Done
    <2>12. pos > 16 => frees = 0
      BY <1>t, <2>1 DEF PictureKept
    <2>13. DisplayTypes'
      <3>1. frees' \in 0..2
        BY <1>0, <2>2, <2>12
      <3> QED
        BY <1>0, <1>T, <2>1, <2>3, <2>7, <2>10, <3>1
    <2>14. DisplayPlace'
      BY <1>0, <2>7, <2>10, <2>11 DEF DisplayPlace
    <2>15. PictureKept'
      BY <1>0, <2>2, <2>7, <2>10, <2>12 DEF PictureKept, FreesBy
    <2>16. panel'.set[c0] = Entry(pos).data \/ \E f \in failed' : Entry(f[1]).cmd = c0
      <3>1. err = -5 => <<pos, "data">> \in failed'
        BY <2>3
      <3>2. <<pos, "data">>[1] = pos
        OBVIOUS
      <3> QED
        BY <2>3, <3>1, <3>2
    <2>17. PanelSet'
      <3>1. \A c \in Display!Commands :
                \/ Spoilt(c)'
                \/ \A i \in 1..Done' : LastBy(Done', c, i) => panel'.set[c] = Entry(i).data
        BY <1>0, <1>t, <2>1, <2>3, <2>7, <2>11, <2>16, GoesPast
      <3> QED
        BY <2>10, <3>1 DEF PanelSet
    <2> QED
      BY <2>6, <2>13, <2>14, <2>15, <2>17 DEF DisplayInv
  <1>6. CASE Display!Free
    <2>1. /\ dpc = "free" /\ frees' = frees + 1 /\ UNCHANGED <<cs, dc, panel, failed>>
          /\ IF pos = 20 THEN dpc' = "finish" /\ pos' = pos
             ELSE dpc' = "alloc" /\ pos' = pos + 1
      BY <1>6, <1>N DEF Display!Free, N
    <2>2. pos \in 17..20 /\ Done = pos /\ Done' = pos /\ frees = FreesBy(pos)
      BY <1>0, <1>t, <2>1 DEF DisplayPlace, PictureKept, Done
    <2>3. FreesBy(pos) \in {0, 1}
      BY <2>1 DEF FreesBy
    <2>4. DisplayTypes'
      BY <1>0, <1>T, <1>pan, <2>1, <2>2, <2>3
    <2>5. DisplayPlace'
      BY <1>t, <2>1, <2>2 DEF DisplayPlace
    <2>6. PictureKept'
      BY <2>1, <2>2 DEF PictureKept, FreesBy
    <2> QED
      BY <1>S, <2>1, <2>2, <2>4, <2>5, <2>6 DEF DisplayInv
  <1>7. CASE Display!Finish
    <2>1. /\ dpc = "finish" /\ cs' = 0 /\ UNCHANGED <<dc, panel, frees, failed>>
          /\ IF pos = 20 THEN dpc' = "bound" /\ pos' = pos
             ELSE dpc' = "prepare" /\ pos' = pos + 1
      BY <1>7, <1>N DEF Display!Finish, N
    <2>2. pos \in {16, 20} /\ Done = pos /\ Done' = pos
      BY <1>0, <1>t, <2>1 DEF DisplayPlace, Done
    <2>4. DisplayTypes'
      BY <1>0, <1>T, <1>pan, <2>1, <2>2
    <2>5. DisplayPlace'
      BY <1>t, <2>1, <2>2 DEF DisplayPlace
    <2>6. PictureKept'
      BY <2>1 DEF PictureKept
    <2> QED
      BY <1>S, <2>1, <2>2, <2>4, <2>5, <2>6 DEF DisplayInv
  <1>8. CASE Display!Remove
    <2>1. /\ dpc = "bound" /\ dpc' = "unbound"
          /\ UNCHANGED <<pos, cs, dc, panel, frees, failed>>
      BY <1>8 DEF Display!Remove
    <2>2. DisplayTypes'
      BY <1>0, <1>T, <1>pan, <2>1
    <2>3. DisplayPlace' /\ PictureKept' /\ PanelSet'
      BY <1>t, <2>1 DEF DisplayPlace, PictureKept, PanelSet, Done
    <2>4. Display!Framed'
      BY <1>t, <2>1 DEF Display!Framed
    <2> QED
      BY <2>2, <2>3, <2>4 DEF DisplayInv
  <1> QED
    BY <1>1, <1>2, <1>3, <1>4, <1>5, <1>6, <1>7, <1>8 DEF Display!Next

LEMMA DisplayInvariant == Spec => []DisplayInv
  <1>1. DisplayInv /\ [Next]_vars => DisplayInv'
    <2> SUFFICES ASSUME DisplayInv, [Next]_vars PROVE DisplayInv'
      OBVIOUS
    <2>1. CASE Display_Step
      BY <2>1, DisplayStep DEF Display_Step
    <2>2. CASE UNCHANGED displayVars
      BY <2>2 DEF displayVars, DisplayInv, DisplayTypes, DisplayPlace, PictureKept, PanelSet,
                  Display!Framed, Display!TypeOK, Done, Spoilt, FreesBy
    <2> QED
      BY <2>1, <2>2 DEF Next, vars, Pwm_Step, Sysfs_Step, Gpio_Step, Lidar_Step, Serial_Step,
                        Lifecycle_Step, Calibration_Step, Image_Step
  <1> QED
    BY <1>1, DisplayInit, PTL DEF Spec

\* Whatever transfers fail, the panel never takes the data of one command for that of
\* another.
THEOREM DisplayIsFramed == Spec => []DisplayFramed
  <1>1. DisplayInv => DisplayFramed
    BY DEF DisplayInv, DisplayFramed
  <1> QED
    BY <1>1, DisplayInvariant, PTL

\* Once probe is through, what is wrong on the panel is what failed transfers were to set.
THEOREM DisplayFailuresAreLocal == Spec => []DisplayFailuresStayLocal
  <1>1. DisplayInv => DisplayFailuresStayLocal
    <2> SUFFICES ASSUME DisplayInv, dpc = "bound",
                        NEW c \in Display!Commands, ~Spoilt(c)
                 PROVE  panel.set[c] = Display!Meant(c)
      BY DEF DisplayFailuresStayLocal, Display!FailuresStayLocal, Spoilt, Entry
    <2>1. Done = 20
      BY DEF DisplayInv, DisplayPlace, Done
    <2>2. \A i : LastBy(20, c, i) => panel.set[c] = Entry(i).data
      <3>1. \A i : LastBy(20, c, i) => i \in 1..20
        BY DEF LastBy
      <3> QED
        BY <2>1, <3>1 DEF DisplayInv, PanelSet
    <2>3. \E i \in 1..20 : LastBy(20, c, i)
      <3> DEFINE T == {i \in 1..20 : Entry(i).cmd = c}
      <3>1. T \subseteq Int /\ IsFiniteSet(T)
        <4>1. IsFiniteSet(1..N)
          <5>1. N \in Int
            BY ScriptFacts
          <5> QED
            BY <5>1, FS_Interval
        <4>2. T \subseteq 1..N /\ T \subseteq Int
          BY ScriptFacts
        <4>3. IsFiniteSet(T)
          <5> HIDE DEF T
          <5> QED
            BY <4>1, <4>2, FS_Subset
        <4> QED
          BY <4>2, <4>3
      <3>2. PICK e \in 1..20 : Entry(e).cmd = c
        BY ScriptFacts DEF Display!Commands, Entry, N
      <3>3. PICK i \in T : \A j \in T : j <= i
        BY <3>1, <3>2, e \in T, Largest
      <3> QED
        BY <3>3 DEF LastBy
    <2>4. Display!Meant(c) = Entry(CHOOSE i \in 1..20 : LastBy(20, c, i)).data
      <3>1. \A i \in 1..20 : LastBy(20, c, i) <=>
                /\ Entry(i).cmd = c
                /\ \A j \in 1..20 : Entry(j).cmd = c => j <= i
        BY DEF LastBy
      <3> QED
        BY <3>1, ScriptFacts DEF Display!Meant, Entry, N
    <2> QED
      BY <2>2, <2>3, <2>4
  <1> QED
    BY <1>1, DisplayInvariant, PTL

\* A picture is freed once, or twice if its pixels could not be sent.
THEOREM DisplayPicturesAreFreed == Spec => []DisplayPicturesFreed
  <1>1. DisplayInv => DisplayPicturesFreed
    <2> SUFFICES ASSUME DisplayInv, NEW n \in 1..20, n > 16,
                        <<dpc, pos>> \in {<<"finish", n>>, <<"alloc", n + 1>>}
                 PROVE  frees = IF <<n, "data">> \in failed THEN 2 ELSE 1
      BY ScriptFacts DEF DisplayPicturesFreed, Display!PicturesFreed, Display!IsPicture, N
    <2>1. \/ dpc = "finish" /\ pos = n
          \/ dpc = "alloc" /\ pos = n + 1
      OBVIOUS
    <2>2. frees = FreesBy(n) + 1
      BY <2>1 DEF DisplayInv, PictureKept
    <2> QED
      BY <2>2 DEF FreesBy
  <1> QED
    BY <1>1, DisplayInvariant, PTL
-----------------------------------------------------------------------------
(* The types *)

\* What is applied has been accepted; no more applications fail than can.
PwmLimits == PwmTypes /\ hw.duty <= Period /\ fails \in 0..PwmFails

LEMMA PwmLimited == Spec => []PwmLimits
  <1>1. Init => PwmLimits
    <2>1. Init => Pwm!Init /\ PwmInv
      BY PwmInit DEF Init
    <2> QED
      BY <2>1, BoundsAssumption DEF Pwm!Init, PwmInv, PwmLimits
  <1>2. PwmInv /\ PwmLimits /\ [Next]_vars => PwmLimits'
    <2> SUFFICES ASSUME PwmInv, PwmLimits, [Next]_vars PROVE PwmLimits'
      OBVIOUS
    <2>1. CASE Pwm!Next
      <3>1. PwmTypes'
        BY <2>1, PwmStep DEF PwmInv
      <3>2. ASSUME NEW p \in Programs, Pwm!Apply(p) PROVE PwmLimits'
        <4>1. CASE UNCHANGED hw
          <5>1. fails' \in 0..PwmFails
            BY <3>2, BoundsAssumption DEF Pwm!Apply, PwmLimits
          <5> QED
            BY <3>1, <4>1, <5>1 DEF PwmLimits
        <4>2. CASE Pwm!Accepted(Pwm!Changed(p)) /\ hw' = Pwm!Changed(p) /\ fails' = fails
          BY <3>1, <4>2 DEF PwmLimits, Pwm!Accepted
        <4> QED
          BY <3>2, <4>1, <4>2 DEF Pwm!Apply
      <3>3. CASE UNCHANGED <<hw, fails>>
        BY <3>1, <3>3 DEF PwmLimits
      <3>4. CASE Pwm!Remove
        BY <3>1, <3>4 DEF Pwm!Remove, PwmLimits, PwmTypes, Pwm!State
      <3> QED
        BY <2>1, <3>2, <3>3, <3>4 DEF Pwm!Next, Pwm!OnGet, Pwm!SetGet, Pwm!Ioctl, Pwm!Off,
                                      Pwm!Quit
    <2>2. CASE UNCHANGED pwmVars
      BY <2>2 DEF pwmVars, PwmLimits, PwmTypes
    <2> QED
      BY <2>1, <2>2 DEF vars, Next, Pwm_Step, Sysfs_Step, Gpio_Step, Lidar_Step, Serial_Step,
                         Display_Step, Lifecycle_Step, Calibration_Step, Image_Step
  <1>3. Spec => []PwmInv
    BY PwmInvariant
  <1> QED
    BY <1>1, <1>2, <1>3, PTL DEF Spec

LEMMA GpioLimited == Spec => []Gpio!TypeOK
  <1> USE DEF Gpio!button, Gpio!handlerVars, Gpio!programs, Gpio!None, Gpio!TypeOK
  <1>1. Init => Gpio!TypeOK
    <2>1. Init => Gpio!Init
      BY DEF Init
    <2>2. ASSUME Gpio!Init PROVE Gpio!TypeOK
      <3>1. latched \in BOOLEAN /\ irq \in BOOLEAN /\ life \in Gpio!Lives
        BY <2>2, Zenon DEF Gpio!Init, Gpio!Lives
      <3>2. /\ level \in {0, 1} /\ reported \in {0, 1}
            /\ edges \in 0..MaxEdge /\ seen \in 0..edges
            /\ signalled \in [Programs -> 0..MaxEdge]
        <4>1. level = 0 /\ edges = 0 /\ reported = 0 /\ seen = 0
              /\ signalled = [p \in Programs |-> 0]
          BY <2>2, Zenon DEF Gpio!Init
        <4> QED
          BY <4>1, BoundsAssumption
      <3>3. /\ handler \in {"idle", "read", "test", "send"}
            /\ task \in Programs \cup {Gpio!None} /\ latest \in Programs \cup {Gpio!None}
            /\ prog \in [Programs -> {"new", "registered", "dead"}]
        BY <2>2 DEF Gpio!Init
      <3> QED
        BY <3>1, <3>2, <3>3
    <2> QED
      BY <2>1, <2>2
  <1>2. Gpio!TypeOK /\ [Next]_vars => (Gpio!TypeOK)'
    <2> SUFFICES ASSUME Gpio!TypeOK, [Next]_vars PROVE (Gpio!TypeOK)'
      OBVIOUS
    <2>1. CASE Gpio!RequestIrq
      BY <2>1 DEF Gpio!RequestIrq, Gpio!Lives
    <2>2. CASE Gpio!CreateNode
      BY <2>2 DEF Gpio!CreateNode, Gpio!Lives
    <2>3. CASE Gpio!RemoveBegin
      BY <2>3 DEF Gpio!RemoveBegin, Gpio!Lives
    <2>4. CASE Gpio!FreeIrq
      BY <2>4 DEF Gpio!FreeIrq, Gpio!Lives
    <2>5. CASE Gpio!Edge
      BY <2>5, BoundsAssumption DEF Gpio!Edge, Gpio!Triggers
    <2>6. CASE Gpio!IrqWake
      BY <2>6 DEF Gpio!IrqWake
    <2>7. CASE Gpio!IrqRead
      BY <2>7, BoundsAssumption DEF Gpio!IrqRead
    <2>8. CASE Gpio!IrqTest
      BY <2>8 DEF Gpio!IrqTest
    <2>9. CASE Gpio!IrqSend
      BY <2>9, BoundsAssumption, ProgramsAssumption DEF Gpio!IrqSend
    <2>10. ASSUME NEW p \in Programs, Gpio!Register(p) PROVE (Gpio!TypeOK)'
      BY <2>10 DEF Gpio!Register
    <2>11. ASSUME NEW p \in Programs, Gpio!Close(p) PROVE (Gpio!TypeOK)'
      BY <2>11 DEF Gpio!Close
    <2>12. CASE UNCHANGED gpioVars
      BY <2>12 DEF gpioVars, Gpio!Lives
    <2> QED
      BY <2>1, <2>2, <2>3, <2>4, <2>5, <2>6, <2>7, <2>8, <2>9, <2>10, <2>11, <2>12
         DEF vars, Next, Pwm_Step, Sysfs_Step, Gpio_Step, Lidar_Step, Serial_Step, Display_Step,
             Lifecycle_Step, Calibration_Step, Image_Step, Gpio!Next, Gpio!Handler
  <1> QED
    BY <1>1, <1>2, PTL DEF Spec

\* The drivers' state keeps its types; the PWM is never given a duty cycle longer than its
\* period, nor, however writes to angle and standby race, a pulse width that is not that of
\* an angle from 0 to 180 degrees.
THEOREM TypesAreKept == Spec => []TypeOK
  <1>1. PwmLimits /\ Gpio!TypeOK /\ SysfsInv /\ DisplayInv => TypeOK
    BY DEF PwmLimits, PwmTypes, Pwm!TypeOK, SysfsInv, SysfsTypes, DisplayInv, DisplayTypes,
           TypeOK
  <1> QED
    BY PwmLimited, GpioLimited, SysfsInvariant, DisplayInvariant, <1>1, PTL

-----------------------------------------------------------------------------
(* The image *)

\* A natural number divided.
LEMMA Division ==
    ASSUME NEW p \in Nat, NEW C \in Nat \ {0}
    PROVE  /\ p \div C \in Nat /\ p % C \in 0..(C - 1)
           /\ p = C * (p \div C) + (p % C)
  <1> DEFINE q == p \div C
             r == p % C
  <1>1. q \in Nat
    OBVIOUS
  <1>2. r \in 0..(C - 1)
    OBVIOUS
  <1>3. p = C * q + r
    BY SMTT(30)
  <1> QED
    BY <1>1, <1>2, <1>3

LEMMA Parity ==
    ASSUME NEW n \in Nat
    PROVE  /\ n % 2 \in {0, 1} /\ (n + 1) % 2 # n % 2
           /\ n - (n \div 2) * 2 = n % 2
  OBVIOUS

LEMMA ParityOfSum ==
    ASSUME NEW m \in Nat, NEW n \in Nat
    PROVE  (m + n) % 2 = IF m % 2 = n % 2 THEN 0 ELSE 1
  OBVIOUS

\* A line has an even number of pixels, so a pixel's column tells its parity.
LEMMA EvenLines ==
    ASSUME NEW p \in Nat
    PROVE  (p % Columns) % 2 = p % 2 /\ p \div (2 * Columns) = (p \div Columns) \div 2
  <1>1. Columns \in Nat \ {0} /\ Columns % 2 = 0
    BY SensorAssumption
  <1> DEFINE h == Columns \div 2
             q == p \div Columns
             r == p % Columns
  <1>2. h \in Nat /\ Columns = 2 * h
    BY <1>1
  <1>3. q \in Nat /\ r \in Nat /\ p = Columns * q + r
    BY <1>1, Division
  <1>4. r % 2 = p % 2
    <2> HIDE DEF h, q, r
    <2>1. h * q \in Nat /\ Columns * q = 2 * (h * q)
      BY <1>2, <1>3
    <2>2. \A k \in Nat : (2 * k + r) % 2 = r % 2
      BY <1>3
    <2> QED
      BY <1>3, <2>1, <2>2
  <1>5. p \div (2 * Columns) = q \div 2
    BY <1>1
  <1> QED
    BY <1>4, <1>5

LEMMA InPixels ==
    ASSUME NEW p \in Image!Pixels
    PROVE  p \in Nat /\ Image!Line(p) \in Nat /\ p % Columns \in Nat
  <1>1. p \in Nat
    BY DEF Image!Pixels
  <1> QED
    BY <1>1, Division, SensorAssumption DEF Image!Line

\* The pattern the program works out for a pixel is the subpage that the sensor puts it in.
LEMMA PatternIsSubpage ==
    ASSUME NEW p \in Image!Pixels
    PROVE  /\ Image!Subpage(p) \in {0, 1}
           /\ Image!Pattern(p) = Image!Subpage(p)
           /\ p % Columns = 0 => Image!Subpage(p) = Image!Line(p) % 2
  <1> DEFINE q == Image!Line(p)
             r == p % Columns
  <1>1. p \in Nat /\ q \in Nat /\ r \in Nat
    BY InPixels
  <1>2. r % 2 = p % 2 /\ q - (p \div (2 * Columns)) * 2 = q % 2
    BY <1>1, EvenLines, Parity DEF Image!Line
  <1>3. (q + r) % 2 = IF q % 2 = r % 2 THEN 0 ELSE 1
    BY <1>1, ParityOfSum
  <1>4. Image!Subpage(p) = IF mode = "interleaved" THEN q % 2 ELSE (q + r) % 2
    BY DEF Image!Subpage
  <1>5. Image!Pattern(p) = IF mode = "interleaved" THEN q % 2
                           ELSE IF q % 2 = p % 2 THEN 0 ELSE 1
    BY <1>2 DEF Image!Pattern, Image!Line
  <1>6. r = 0 => (q + r) % 2 = q % 2
    BY <1>1
  <1> HIDE DEF q, r
  <1>7. q % 2 \in {0, 1}
    BY <1>1
  <1> QED
    BY <1>2, <1>3, <1>4, <1>5, <1>6, <1>7 DEF q, r

\* What a pixel of an accepted subpage may be calculated from.
Current(x, p) ==
    LET s == Image!Subpage(p) IN
    accepted[s] # 0 =>
        /\ x # Image!None
        /\ x = Image!Bad => p % Columns = 0 /\ ~checked[s]
        /\ x # Image!Bad => x >= accepted[s]

ImageTypes ==
    /\ frame \in Nat /\ status \in 0..frame
    /\ ram \in [Image!Pixels -> Int] /\ ramAux \in [AuxWords -> Int]
    /\ frame_data.subpage \in {0, 1}
    /\ frame_data.pixels \in [Image!Pixels -> Int]
    /\ frame_data.aux \in [AuxWords -> Int]
    /\ accepted \in [{0, 1} -> Nat] /\ checked = [s \in {0, 1} |-> checked[s]]

\* A word of the RAM is of the last measurement of its subpage, or out of order.
RamFresh ==
    \A p \in Image!Pixels :
        \/ ram[p] = Image!Bad /\ p % Columns = 0
        \/ /\ ram[p] \in Nat /\ ram[p] >= frame - 1
           /\ frame % 2 = Image!Subpage(p) => ram[p] >= frame

\* The image stays current also while it is calculated anew from a frame taken over before.
ImageInv ==
    /\ ImageTypes /\ RamFresh
    /\ \A a \in AuxWords \cap Image!Tested : frame_data.aux[a] # Image!Bad
    /\ \A p \in Image!Pixels :
           /\ \A a \in DOMAIN image[p].aux : image[p].aux[a] # Image!Bad
           /\ Current(image[p].data, p)
           /\ Image!Subpage(p) = frame_data.subpage => Current(frame_data.pixels[p], p)

LEMMA ImageInit == Init => ImageInv
  <1> SUFFICES ASSUME Init PROVE ImageInv
    OBVIOUS
  <1>1. /\ frame = 0 /\ ram = [p \in Image!Pixels |-> 0] /\ ramAux = Image!NoAux
        /\ status = 0
        /\ frame_data = [pixels |-> [p \in Image!Pixels |-> 0], aux |-> Image!NoAux,
                         subpage |-> 0]
        /\ image = [p \in Image!Pixels |-> [data |-> Image!None, aux |-> Image!NoAux]]
        /\ accepted = [s \in {0, 1} |-> 0] /\ checked = [s \in {0, 1} |-> TRUE]
    BY DEF Init, Image!Init, Image!Subpages
  <1>2. ImageTypes
    <2>1. checked = [s \in {0, 1} |-> checked[s]]
      BY <1>1
    <2> QED
      BY <1>1, <2>1 DEF ImageTypes, Image!NoAux
  <1>3. RamFresh
    BY <1>1 DEF RamFresh
  <1>4. \A p \in Image!Pixels : accepted[Image!Subpage(p)] = 0
    BY <1>1, PatternIsSubpage
  <1>5. \A p \in Image!Pixels : \A x : Current(x, p)
    BY <1>4 DEF Current
  <1> QED
    BY <1>1, <1>2, <1>3, <1>5 DEF ImageInv, Image!NoAux, Image!Bad

LEMMA ImageMeasure == ImageInv /\ Image!Measure => ImageInv'
  <1> SUFFICES ASSUME ImageInv, Image!Measure PROVE ImageInv'
    OBVIOUS
  <1>t. ImageTypes /\ RamFresh
    BY DEF ImageInv
  <1>1. /\ frame' = frame + 1
        /\ UNCHANGED <<mode, status, frame_data, image, accepted, checked>>
    BY DEF Image!Measure, Image!programVars
  <1>2. PICK badLines \in SUBSET (0..(Lines - 1)) :
            ram' = [p \in Image!Pixels |->
                        IF Image!Subpage(p) # frame' % 2 THEN ram[p]
                        ELSE IF p % Columns = 0 /\ Image!Line(p) \in badLines THEN Image!Bad
                        ELSE frame']
    BY DEF Image!Measure
  <1>3. ramAux' \in [AuxWords -> Int]
    BY <1>t, <1>1 DEF Image!Measure, ImageTypes, Image!Bad
  <1>4. \A p \in Image!Pixels : Image!Subpage(p)' = Image!Subpage(p)
    BY <1>1 DEF Image!Subpage
  <1>5. ASSUME NEW p \in Image!Pixels
        PROVE  /\ ram'[p] \in Int
               /\ \/ ram'[p] = Image!Bad /\ p % Columns = 0
                  \/ /\ ram'[p] \in Nat /\ ram'[p] >= frame' - 1
                     /\ frame' % 2 = Image!Subpage(p) => ram'[p] >= frame'
    <2>1. frame \in Nat /\ ram[p] \in Int
      BY <1>t DEF ImageTypes
    <2>2. \/ ram[p] = Image!Bad /\ p % Columns = 0
          \/ /\ ram[p] \in Nat /\ ram[p] >= frame - 1
             /\ frame % 2 = Image!Subpage(p) => ram[p] >= frame
      BY <1>t DEF RamFresh
    <2>3. /\ frame % 2 \in {0, 1} /\ frame' % 2 \in {0, 1} /\ frame' % 2 # frame % 2
          /\ Image!Subpage(p) \in {0, 1}
      BY <1>1, <2>1, Parity, PatternIsSubpage
    <2>4. CASE Image!Subpage(p) # frame' % 2
      <3>1. ram'[p] = ram[p] /\ frame % 2 = Image!Subpage(p)
        BY <1>2, <2>3, <2>4
      <3> QED
        BY <1>1, <2>1, <2>2, <2>4, <3>1
    <2>5. CASE Image!Subpage(p) = frame' % 2
      <3>1. \/ ram'[p] = Image!Bad /\ p % Columns = 0
            \/ ram'[p] = frame'
        BY <1>2, <2>5
      <3> QED
        BY <1>1, <2>1, <3>1 DEF Image!Bad
    <2> QED
      BY <2>4, <2>5
  <1>6. ram' \in [Image!Pixels -> Int]
    BY <1>2, <1>5
  <1>7. ImageTypes'
    BY <1>t, <1>1, <1>3, <1>6 DEF ImageTypes
  <1>8. RamFresh'
    BY <1>4, <1>5 DEF RamFresh
  <1>9. \A p \in Image!Pixels : \A x : Current(x, p)' <=> Current(x, p)
    BY <1>1, <1>4 DEF Current
  <1> QED
    BY <1>1, <1>4, <1>7, <1>8, <1>9 DEF ImageInv

LEMMA ImageSignal == ImageInv /\ Image!Signal => ImageInv'
  <1> SUFFICES ASSUME ImageInv, Image!Signal PROVE ImageInv'
    OBVIOUS
  <1>1. /\ status' \in (status + 1)..frame
        /\ UNCHANGED <<mode, frame, ram, ramAux, frame_data, image, accepted, checked>>
    BY DEF Image!Signal, Image!sensorVars, Image!programVars
  <1>2. ImageTypes'
    BY <1>1 DEF ImageInv, ImageTypes
  <1>3. \A p \in Image!Pixels : Image!Subpage(p)' = Image!Subpage(p)
    BY <1>1 DEF Image!Subpage
  <1>4. \A p \in Image!Pixels : \A x : Current(x, p)' <=> Current(x, p)
    BY <1>1, <1>3 DEF Current
  <1>5. RamFresh'
    BY <1>1, <1>3 DEF ImageInv, RamFresh
  <1> QED
    BY <1>1, <1>2, <1>3, <1>4, <1>5 DEF ImageInv

\* A frame that is taken over is current for the subpage of its signal.
LEMMA Takes ==
    ASSUME ImageInv, NEW beyond \in {0, 1, 2}, Image!LinesValid(beyond), mode' = mode,
           accepted' = [accepted EXCEPT ![status % 2] = status],
           checked' = [checked EXCEPT ![status % 2] = beyond = status % 2]
    PROVE  /\ status % 2 \in {0, 1}
           /\ \A p \in Image!Pixels : \A x :
                  Image!Subpage(p) = status % 2 /\ x = ram[p] => Current(x, p)'
           /\ \A p \in Image!Pixels : \A x :
                  Image!Subpage(p) # status % 2 => (Current(x, p)' <=> Current(x, p))
  <1>t. ImageTypes /\ RamFresh
    BY DEF ImageInv
  <1>1. status % 2 \in {0, 1} /\ status \in Nat /\ frame \in Nat /\ status <= frame
    <2>1. status \in Nat /\ frame \in Nat /\ status <= frame
      BY <1>t DEF ImageTypes
    <2> QED
      BY <2>1, Parity
  <1>2. \A p \in Image!Pixels : Image!Subpage(p)' = Image!Subpage(p)
    BY DEF Image!Subpage
  <1>3. /\ accepted'[status % 2] = status
        /\ \A s \in {0, 1} : s # status % 2 => accepted'[s] = accepted[s]
    BY <1>t, <1>1 DEF ImageTypes
  <1>4. /\ checked'[status % 2] <=> beyond = status % 2
        /\ \A s \in {0, 1} : s # status % 2 => (checked'[s] <=> checked[s])
    <2>1. checked = [s \in {0, 1} |-> checked[s]]
      BY <1>t DEF ImageTypes
    <2> QED
      BY <1>1, <2>1
  <1>5. ASSUME NEW p \in Image!Pixels, Image!Subpage(p) = status % 2, NEW x, x = ram[p]
        PROVE  Current(x, p)'
    <2>1. \/ ram[p] = Image!Bad /\ p % Columns = 0
          \/ /\ ram[p] \in Nat /\ ram[p] >= frame - 1
             /\ frame % 2 = Image!Subpage(p) => ram[p] >= frame
      BY <1>t DEF RamFresh
    <2>2. CASE ram[p] = Image!Bad /\ p % Columns = 0
      <3>1. Image!Line(p) % 2 = status % 2
        BY <1>5, <2>2, PatternIsSubpage
      <3>2. beyond # status % 2
        BY <2>2, <3>1 DEF Image!LinesValid
      <3> QED
        BY <1>2, <1>4, <1>5, <2>2, <3>2 DEF Current, Image!Bad, Image!None
    <2>3. CASE /\ ram[p] \in Nat /\ ram[p] >= frame - 1
               /\ frame % 2 = Image!Subpage(p) => ram[p] >= frame
      <3>1. ram[p] >= status
        <4>1. frame % 2 = status % 2 => ram[p] >= frame
          BY <1>5, <2>3
        <4>2. frame % 2 # status % 2 => status # frame
          OBVIOUS
        <4> QED
          BY <1>1, <2>3, <4>1, <4>2
      <3>2. ram[p] # Image!Bad /\ ram[p] # Image!None
        BY <2>3 DEF Image!Bad, Image!None
      <3> QED
        BY <1>2, <1>3, <1>5, <3>1, <3>2 DEF Current
    <2> QED
      BY <2>1, <2>2, <2>3
  <1>6. ASSUME NEW p \in Image!Pixels, NEW x, Image!Subpage(p) # status % 2
        PROVE  Current(x, p)' <=> Current(x, p)
    <2>1. Image!Subpage(p) \in {0, 1}
      BY PatternIsSubpage
    <2>2. /\ accepted'[Image!Subpage(p)] = accepted[Image!Subpage(p)]
          /\ checked'[Image!Subpage(p)] <=> checked[Image!Subpage(p)]
      BY <1>3, <1>4, <1>6, <2>1
    <2> QED
      BY <1>2, <2>2 DEF Current
  <1> QED
    BY <1>1, <1>5, <1>6

LEMMA UsedAreTested == Image!UsedAux \subseteq Image!Tested
  BY DEF Image!UsedAux, Image!Tested

LEMMA ImageHandle == ImageInv /\ Image!Handle => ImageInv'
  <1> SUFFICES ASSUME ImageInv, Image!Handle PROVE ImageInv'
    OBVIOUS
  <1>t. ImageTypes /\ RamFresh
    BY DEF ImageInv
  <1>1. /\ UNCHANGED <<mode, frame, ram, ramAux, status>>
        /\ image' = [p \in Image!Pixels |->
                        IF Image!Pattern(p) = frame_data'.subpage
                        THEN Image!Calculated(frame_data', p) ELSE image[p]]
    BY DEF Image!Handle, Image!sensorVars
  <1>2. PICK beyond \in {0, 1, 2} :
            IF Image!LinesValid(beyond)
            THEN /\ frame_data' = Image!Taken
                 /\ accepted' = [accepted EXCEPT ![status % 2] = status]
                 /\ checked' = [checked EXCEPT ![status % 2] = beyond = status % 2]
            ELSE UNCHANGED <<frame_data, accepted, checked>>
    BY DEF Image!Handle
  <1>3. \A p \in Image!Pixels : Image!Subpage(p)' = Image!Subpage(p)
    BY <1>1 DEF Image!Subpage
  <1>4. RamFresh'
    BY <1>1, <1>3, <1>t DEF RamFresh
  \* What the new image needs of the frame it is calculated from.
  <1> DEFINE Fine ==
        /\ ImageTypes'
        /\ \A a \in AuxWords \cap Image!Tested : frame_data'.aux[a] # Image!Bad
        /\ \A p \in Image!Pixels : \A x :
               Image!Subpage(p) = frame_data'.subpage /\ x = frame_data'.pixels[p] =>
                   Current(x, p)'
        /\ \A p \in Image!Pixels : \A x :
               Image!Subpage(p) # frame_data'.subpage /\ x = image[p].data =>
                   Current(x, p)'
  <1>5. Fine
    <2>1. CASE Image!LinesValid(beyond)
      <3>1. /\ frame_data'.pixels = ram /\ frame_data'.subpage = status % 2
            /\ frame_data'.aux = IF Image!AuxValid THEN ramAux ELSE frame_data.aux
        BY <1>2, <2>1 DEF Image!Taken
      <3>2. /\ accepted' = [accepted EXCEPT ![status % 2] = status]
            /\ checked' = [checked EXCEPT ![status % 2] = beyond = status % 2]
        BY <1>2, <2>1
      <3>3. /\ status % 2 \in {0, 1}
            /\ \A p \in Image!Pixels : \A x :
                   Image!Subpage(p) = status % 2 /\ x = ram[p] => Current(x, p)'
            /\ \A p \in Image!Pixels : \A x :
                   Image!Subpage(p) # status % 2 => (Current(x, p)' <=> Current(x, p))
        BY <1>1, <2>1, <3>2, Takes
      <3>4. ImageTypes'
        <4>1. status \in Nat
          BY <1>t DEF ImageTypes
        <4>2. accepted' \in [{0, 1} -> Nat]
          BY <1>t, <3>2, <3>3, <4>1 DEF ImageTypes
        <4>3. checked' = [s \in {0, 1} |-> checked'[s]]
          BY <1>t, <3>2, <3>3 DEF ImageTypes
        <4> QED
          BY <1>1, <1>t, <3>1, <3>3, <4>2, <4>3 DEF ImageTypes
      <3>5. \A a \in AuxWords \cap Image!Tested : frame_data'.aux[a] # Image!Bad
        BY <3>1 DEF ImageInv, Image!AuxValid
      <3>6. \A p \in Image!Pixels : \A x :
                Image!Subpage(p) # status % 2 /\ x = image[p].data => Current(x, p)'
        BY <3>3 DEF ImageInv
      <3> QED
        BY <3>1, <3>3, <3>4, <3>5, <3>6
    <2>2. CASE ~Image!LinesValid(beyond)
      <3>1. UNCHANGED <<frame_data, accepted, checked>>
        BY <1>2, <2>2
      <3>2. \A p \in Image!Pixels : \A x : Current(x, p)' <=> Current(x, p)
        BY <1>1, <1>3, <3>1 DEF Current
      <3>3. ImageTypes'
        BY <1>1, <1>t, <3>1 DEF ImageTypes
      <3> QED
        BY <3>1, <3>2, <3>3 DEF ImageInv
    <2> QED
      BY <2>1, <2>2
  <1>6. ASSUME NEW p \in Image!Pixels
        PROVE  /\ \A a \in DOMAIN image'[p].aux : image'[p].aux[a] # Image!Bad
               /\ \A x : x = image'[p].data => Current(x, p)'
    <2>1. Image!Pattern(p) = Image!Subpage(p)
      BY PatternIsSubpage
    <2>2. CASE Image!Subpage(p) = frame_data'.subpage
      <3>1. image'[p] = Image!Calculated(frame_data', p)
        BY <1>1, <2>1, <2>2
      <3>2. /\ image'[p].data = frame_data'.pixels[p]
            /\ image'[p].aux = [a \in AuxWords \cap Image!UsedAux |-> frame_data'.aux[a]]
        BY <3>1 DEF Image!Calculated
      <3> QED
        BY <1>5, <2>2, <3>2, UsedAreTested
    <2>3. CASE Image!Subpage(p) # frame_data'.subpage
      <3>1. image'[p] = image[p]
        BY <1>1, <2>1, <2>3
      <3> QED
        BY <1>5, <2>3, <3>1 DEF ImageInv
    <2> QED
      BY <2>2, <2>3
  <1> HIDE DEF Fine
  <1>7. /\ ImageTypes'
        /\ \A a \in AuxWords \cap Image!Tested : frame_data'.aux[a] # Image!Bad
        /\ \A p \in Image!Pixels : \A x :
               Image!Subpage(p) = frame_data'.subpage /\ x = frame_data'.pixels[p] =>
                   Current(x, p)'
    BY <1>5 DEF Fine
  <1> QED
    BY <1>3, <1>4, <1>6, <1>7 DEF ImageInv

\* The pixels of an accepted subpage come from measurements no older than its signal,
\* whatever frames are refused and however the signals queue up.
THEOREM ImageStaysCurrent == Spec => []ImageCurrent
  <1>1. ImageInv /\ [Next]_vars => ImageInv'
    <2> SUFFICES ASSUME ImageInv, [Next]_vars PROVE ImageInv'
      OBVIOUS
    <2>1. CASE Image!Next
      BY <2>1, ImageMeasure, ImageSignal, ImageHandle DEF Image!Next
    <2>2. CASE UNCHANGED imageVars
      <3>1. \A p \in Image!Pixels : Image!Subpage(p)' = Image!Subpage(p)
        BY <2>2 DEF imageVars, Image!Subpage
      <3>2. \A p \in Image!Pixels : \A x : Current(x, p)' <=> Current(x, p)
        BY <2>2, <3>1 DEF imageVars, Current
      <3> QED
        BY <2>2, <3>1, <3>2 DEF imageVars, ImageInv, ImageTypes, RamFresh
    <2> QED
      BY <2>1, <2>2 DEF vars, Next, Pwm_Step, Sysfs_Step, Gpio_Step, Lidar_Step, Serial_Step,
                         Display_Step, Lifecycle_Step, Calibration_Step, Image_Step
  <1>2. ImageInv => ImageCurrent
    BY DEF ImageInv, Current, ImageCurrent, Image!ImageCurrent
  <1> QED
    BY ImageInit, <1>1, <1>2, PTL DEF Spec
-----------------------------------------------------------------------------
(* The deviating pixels *)

\* The bad pixels among the first n.
Broken(n) == {p \in 0..(n - 1) : ee[p] = 0}
Outliers(n) == {p \in 0..(n - 1) : ee[p] % 2 = 1}

\* s lists the pixels of S in order.
Lists(s, S) ==
    /\ s \in Seq(Calibration!Pixels) /\ Len(s) = Cardinality(S)
    /\ \A i \in 1..Len(s) : s[i] \in S
    /\ \A p \in S : \E i \in 1..Len(s) : s[i] = p
    /\ \A i, j \in 1..Len(s) : i < j => s[i] < s[j]

PixelInv ==
    job = "pixels" =>
        /\ ee \in [Calibration!Pixels -> {0, 1, 2}] /\ pixCnt \in 0..(Lines * Columns)
        /\ bad = [broken |-> bad.broken, outlier |-> bad.outlier]
        /\ Lists(bad.broken, Broken(pixCnt)) /\ Lists(bad.outlier, Outliers(pixCnt))
        /\ cpc \in {"run", "done"}
        /\ cpc = "done" =>
               /\ ~Calibration!Scanning
               /\ out = <<Calibration!Warn(bad.broken, bad.outlier),
                          Calibration!Filled(bad.broken), Calibration!Filled(bad.outlier)>>

LEMMA PixelsFinite ==
    ASSUME NEW S \in SUBSET Calibration!Pixels
    PROVE  IsFiniteSet(S) /\ Cardinality(S) \in Nat
  <1>1. Lines * Columns - 1 \in Int
    BY SensorAssumption
  <1>2. IsFiniteSet(Calibration!Pixels)
    BY <1>1, FS_Interval DEF Calibration!Pixels
  <1>3. IsFiniteSet(S)
    BY <1>2, FS_Subset
  <1> QED
    BY <1>3, FS_CardinalityType

LEMMA ListsNone == Lists(<<>>, {})
  BY FS_EmptySet DEF Lists

LEMMA Listed ==
    ASSUME NEW S \in SUBSET Calibration!Pixels, NEW s, Lists(s, S),
           NEW p \in Calibration!Pixels, \A x \in S : x < p
    PROVE  Lists(Append(s, p), S \cup {p})
  <1> DEFINE t == Append(s, p)
             n == Len(s)
  <1>1. /\ s \in Seq(Calibration!Pixels) /\ n = Cardinality(S)
        /\ \A i \in 1..n : s[i] \in S
        /\ \A x \in S : \E i \in 1..n : s[i] = x
        /\ \A i, j \in 1..n : i < j => s[i] < s[j]
    BY DEF Lists
  <1>2. n \in Nat
    BY <1>1
  <1>3. /\ t \in Seq(Calibration!Pixels) /\ Len(t) = n + 1 /\ t[n + 1] = p
        /\ \A i \in 1..n : t[i] = s[i]
    BY <1>1, AppendProperties
  <1>4. p \notin S
    BY DEF Calibration!Pixels
  <1>5. Cardinality(S \cup {p}) = Cardinality(S) + 1
    BY <1>4, PixelsFinite, FS_AddElement
  <1> HIDE DEF t, n
  <1>6. \A i \in 1..(n + 1) : i \in 1..n \/ i = n + 1
    BY <1>2
  <1>7. \A i \in 1..n : i \in 1..(n + 1)
    BY <1>2
  <1>8. n + 1 \in 1..(n + 1)
    BY <1>2
  <1>9. \A i \in 1..(n + 1) : t[i] \in S \cup {p}
    BY <1>1, <1>3, <1>6
  <1>10. \A x \in S \cup {p} : \E i \in 1..(n + 1) : t[i] = x
    BY <1>1, <1>3, <1>7, <1>8
  <1>11. ASSUME NEW i \in 1..(n + 1), NEW j \in 1..(n + 1), i < j PROVE t[i] < t[j]
    <2>1. i \in 1..n
      BY <1>2, <1>11
    <2>2. CASE j \in 1..n
      BY <1>1, <1>3, <1>11, <2>1, <2>2
    <2>3. CASE j = n + 1
      BY <1>1, <1>3, <2>1, <2>3
    <2> QED
      BY <1>6, <2>2, <2>3
  <1>12. Lists(t, S \cup {p})
    <2>1. Len(t) = Cardinality(S \cup {p})
      BY <1>1, <1>3, <1>5
    <2> QED
      BY <1>3, <1>9, <1>10, <1>11, <2>1 DEF Lists
  <1> QED
    BY <1>12 DEF t

LEMMA PixelInit == Init => PixelInv
  <1> SUFFICES ASSUME Init, job = "pixels" PROVE PixelInv
    BY DEF PixelInv
  <1>1. /\ pixCnt = 0 /\ bad = [broken |-> <<>>, outlier |-> <<>>] /\ cpc = "run"
        /\ ee \in [Calibration!Pixels -> {0, 1, 2}]
    BY DEF Init, Calibration!Init, Calibration!Words
  <1>2. Broken(0) = {} /\ Outliers(0) = {}
    BY DEF Broken, Outliers
  <1>3. 0 \in 0..(Lines * Columns)
    BY SensorAssumption
  <1> QED
    BY <1>1, <1>2, <1>3, ListsNone DEF PixelInv

LEMMA PixelStep == PixelInv /\ Calibration!Next => PixelInv'
  <1> SUFFICES ASSUME PixelInv, Calibration!Next, job' = "pixels" PROVE PixelInv'
    BY DEF PixelInv
  <1>0. job = "pixels" /\ ee' = ee
    BY DEF Calibration!Next, Calibration!ExtractOffset, Calibration!Double,
           Calibration!StoreScaled, Calibration!ListPixel, Calibration!ExtractDeviating
  <1>1. /\ ee \in [Calibration!Pixels -> {0, 1, 2}] /\ pixCnt \in 0..(Lines * Columns)
        /\ bad = [broken |-> bad.broken, outlier |-> bad.outlier]
        /\ Lists(bad.broken, Broken(pixCnt)) /\ Lists(bad.outlier, Outliers(pixCnt))
    BY <1>0 DEF PixelInv
  <1>2. CASE Calibration!ListPixel
    <2>1. /\ cpc = "run" /\ cpc' = cpc /\ pixCnt < Lines * Columns /\ pixCnt' = pixCnt + 1
          /\ bad' = IF ee[pixCnt] = 0 THEN [bad EXCEPT !.broken = Append(@, pixCnt)]
                    ELSE IF ee[pixCnt] % 2 = 1 THEN [bad EXCEPT !.outlier = Append(@, pixCnt)]
                    ELSE bad
      BY <1>2 DEF Calibration!ListPixel, Calibration!Scanning
    <2>2. /\ pixCnt \in Calibration!Pixels /\ pixCnt' \in 0..(Lines * Columns)
          /\ pixCnt \in Nat
      BY <1>1, <2>1, SensorAssumption DEF Calibration!Pixels
    <2>3. \A x : x \in 0..((pixCnt + 1) - 1) <=> x \in 0..(pixCnt - 1) \/ x = pixCnt
      BY <2>2
    <2>4. /\ Broken(pixCnt + 1) = IF ee[pixCnt] = 0 THEN Broken(pixCnt) \cup {pixCnt}
                                  ELSE Broken(pixCnt)
          /\ Outliers(pixCnt + 1) =
                 IF ee[pixCnt] % 2 = 1 THEN Outliers(pixCnt) \cup {pixCnt}
                 ELSE Outliers(pixCnt)
      BY <2>3 DEF Broken, Outliers
    <2>5. /\ Broken(pixCnt) \subseteq Calibration!Pixels
          /\ Outliers(pixCnt) \subseteq Calibration!Pixels
          /\ \A x \in Broken(pixCnt) \cup Outliers(pixCnt) : x < pixCnt
      BY <2>1, <2>2, SensorAssumption DEF Broken, Outliers, Calibration!Pixels
    <2>6. /\ Broken(pixCnt)' = Broken(pixCnt + 1)
          /\ Outliers(pixCnt)' = Outliers(pixCnt + 1)
      BY <1>0, <2>1 DEF Broken, Outliers
    <2>7. /\ bad' = [broken |-> bad'.broken, outlier |-> bad'.outlier]
          /\ Lists(bad'.broken, Broken(pixCnt + 1)) /\ Lists(bad'.outlier, Outliers(pixCnt + 1))
      <3>1. CASE ee[pixCnt] = 0
        <4>1. bad' = [broken |-> Append(bad.broken, pixCnt), outlier |-> bad.outlier]
          BY <1>1, <2>1, <3>1
        <4>2. Outliers(pixCnt + 1) = Outliers(pixCnt)
          BY <2>4, <3>1
        <4>3. Lists(Append(bad.broken, pixCnt), Broken(pixCnt) \cup {pixCnt})
          BY <1>1, <2>2, <2>5, Listed
        <4> QED
          BY <1>1, <2>4, <3>1, <4>1, <4>2, <4>3
      <3>2. CASE ee[pixCnt] # 0 /\ ee[pixCnt] % 2 = 1
        <4>1. bad' = [broken |-> bad.broken, outlier |-> Append(bad.outlier, pixCnt)]
          BY <1>1, <2>1, <3>2
        <4>2. Broken(pixCnt + 1) = Broken(pixCnt)
          BY <2>4, <3>2
        <4>3. Lists(Append(bad.outlier, pixCnt), Outliers(pixCnt) \cup {pixCnt})
          BY <1>1, <2>2, <2>5, Listed
        <4> QED
          BY <1>1, <2>4, <3>2, <4>1, <4>2, <4>3
      <3>3. CASE ee[pixCnt] # 0 /\ ee[pixCnt] % 2 # 1
        BY <1>1, <2>1, <2>4, <3>3
      <3> QED
        BY <3>1, <3>2, <3>3
    <2> QED
      BY <1>0, <1>1, <2>1, <2>2, <2>6, <2>7 DEF PixelInv
  <1>3. CASE Calibration!ExtractDeviating
    <2>1. /\ cpc' = "done" /\ UNCHANGED <<pixCnt, bad>> /\ ~Calibration!Scanning
          /\ out' = <<Calibration!Warn(bad.broken, bad.outlier),
                      Calibration!Filled(bad.broken), Calibration!Filled(bad.outlier)>>
      BY <1>3 DEF Calibration!ExtractDeviating
    <2>2. Broken(pixCnt)' = Broken(pixCnt) /\ Outliers(pixCnt)' = Outliers(pixCnt)
      BY <1>0, <2>1 DEF Broken, Outliers
    <2>3. ~Calibration!Scanning'
      BY <2>1 DEF Calibration!Scanning
    <2> QED
      BY <1>0, <1>1, <2>1, <2>2, <2>3 DEF PixelInv
  <1> QED
    BY <1>0, <1>2, <1>3 DEF Calibration!Next, Calibration!ExtractOffset, Calibration!Double,
           Calibration!StoreScaled

LEMMA AdjacentBothWays ==
    ASSUME NEW p \in Calibration!Pixels, NEW q \in Calibration!Pixels
    PROVE  Calibration!Adjacent(p, q) <=> Calibration!Adjacent(q, p)
  <1>1. p \in Nat /\ q \in Nat /\ Columns \in Nat \ {0}
    BY SensorAssumption DEF Calibration!Pixels
  <1>2. /\ p \div Columns \in Int /\ q \div Columns \in Int
        /\ p % Columns \in Int /\ q % Columns \in Int
    BY <1>1
  <1>3. \A a, b \in Int : a - b \in -1..1 <=> b - a \in -1..1
    OBVIOUS
  <1> QED
    BY <1>2, <1>3 DEF Calibration!Adjacent

\* The three loops over pairs find two pixels that touch if there are any.
LEMMA Touching ==
    ASSUME NEW S \in SUBSET Calibration!Pixels, NEW T \in SUBSET Calibration!Pixels,
           NEW s, NEW t, Lists(s, S), Lists(t, T), S \cap T = {}
    PROVE  Calibration!AnyAdjacent(s, t) <=>
               \E p, q \in S \cup T : p # q /\ Calibration!Adjacent(q, p)
  <1> DEFINE u == s \o t
             m == Len(s)
             n == Len(t)
  <1>1. /\ s \in Seq(Calibration!Pixels)
        /\ \A i \in 1..m : s[i] \in S
        /\ \A x \in S : \E i \in 1..m : s[i] = x
        /\ \A i, j \in 1..m : i < j => s[i] < s[j]
    BY DEF Lists
  <1>2. /\ t \in Seq(Calibration!Pixels)
        /\ \A i \in 1..n : t[i] \in T
        /\ \A x \in T : \E i \in 1..n : t[i] = x
        /\ \A i, j \in 1..n : i < j => t[i] < t[j]
    BY DEF Lists
  <1>3. m \in Nat /\ n \in Nat
    BY <1>1, <1>2
  <1>4. /\ u \in Seq(Calibration!Pixels) /\ Len(u) = m + n
        /\ \A j \in 1..(m + n) : u[j] = IF j <= m THEN s[j] ELSE t[j - m]
    BY <1>1, <1>2, ConcatProperties
  <1>5. DOMAIN u = 1..(m + n)
    BY <1>4, LenProperties
  <1>6. Calibration!AnyAdjacent(s, t) <=>
            \E i, j \in 1..(m + n) : i < j /\ Calibration!Adjacent(u[i], u[j])
    <2>1. Calibration!AnyAdjacent(s, t) <=>
              \E i, j \in DOMAIN u : i < j /\ Calibration!Adjacent(u[i], u[j])
      BY DEF Calibration!AnyAdjacent
    <2> HIDE DEF u
    <2> QED
      BY <1>5, <2>1
  <1> HIDE DEF u, m, n
  <1>7. (\A i \in 1..m : u[i] = s[i]) /\ (\A i \in 1..n : u[i + m] = t[i])
    BY <1>3, <1>4, Split
  <1>8. \A j \in 1..(m + n) : j \in 1..m \/ \E i \in 1..n : j = i + m
    <2> SUFFICES ASSUME NEW j \in 1..(m + n), j \notin 1..m PROVE \E i \in 1..n : j = i + m
      OBVIOUS
    <2>1. j - m \in 1..n /\ j = (j - m) + m
      BY <1>3
    <2> QED
      BY <2>1
  <1>9. ASSUME NEW j \in 1..(m + n)
        PROVE  /\ u[j] \in S \cup T
               /\ u[j] \in S <=> j \in 1..m
    <2>1. CASE j \in 1..m
      BY <1>1, <1>7, <2>1
    <2>2. CASE j \notin 1..m
      <3>1. PICK i \in 1..n : j = i + m
        BY <1>8, <2>2
      <3> QED
        BY <1>2, <1>7, <2>2, <3>1
    <2> QED
      BY <2>1, <2>2
  <1>10. ASSUME NEW x \in S \cup T PROVE \E i \in 1..(m + n) : u[i] = x
    <2>1. CASE x \in S
      <3>1. PICK i \in 1..m : s[i] = x
        BY <1>1, <2>1
      <3> QED
        BY <1>3, <1>7, <3>1
    <2>2. CASE x \in T
      <3>1. PICK i \in 1..n : t[i] = x
        BY <1>2, <2>2
      <3>2. i + m \in 1..(m + n)
        BY <1>3
      <3> QED
        BY <1>7, <3>1, <3>2
    <2> QED
      BY <2>1, <2>2
  <1>i. \A x, y \in S \cup T : x < y => x # y
    <2>1. \A x \in Calibration!Pixels : x \in Int
      BY SensorAssumption DEF Calibration!Pixels
    <2>2. \A x, y \in Int : x < y => x # y
      OBVIOUS
    <2> QED
      BY <2>1, <2>2
  <1>11. ASSUME NEW i \in 1..(m + n), NEW j \in 1..(m + n), i < j PROVE u[i] # u[j]
    <2>1. CASE i \in 1..m /\ j \in 1..m
      <3>1. u[i] < u[j] /\ u[i] \in S /\ u[j] \in S
        BY <1>1, <1>7, <1>11, <2>1
      <3> QED
        BY <1>i, <3>1
    <2>2. CASE i \in 1..m /\ j \notin 1..m
      BY <1>9, <2>2
    <2>3. CASE i \notin 1..m
      <3>1. j \notin 1..m
        BY <1>3, <1>11, <2>3
      <3>2. PICK k \in 1..n : i = k + m
        BY <1>8, <2>3
      <3>3. PICK l \in 1..n : j = l + m
        BY <1>8, <3>1
      <3>4. k < l
        BY <1>3, <1>11, <3>2, <3>3
      <3>5. t[k] < t[l] /\ t[k] \in T /\ t[l] \in T
        BY <1>2, <3>4
      <3> QED
        BY <1>i, <1>7, <3>2, <3>3, <3>5
    <2> QED
      BY <2>1, <2>2, <2>3
  <1>12. ASSUME NEW i \in 1..(m + n), NEW j \in 1..(m + n), i < j,
                Calibration!Adjacent(u[i], u[j])
         PROVE  \E p, q \in S \cup T : p # q /\ Calibration!Adjacent(q, p)
    BY <1>9, <1>11, <1>12
  <1>13. ASSUME NEW p \in S \cup T, NEW q \in S \cup T, p # q, Calibration!Adjacent(q, p)
         PROVE  \E i, j \in 1..(m + n) : i < j /\ Calibration!Adjacent(u[i], u[j])
    <2>1. PICK i \in 1..(m + n) : u[i] = q
      BY <1>10
    <2>2. PICK j \in 1..(m + n) : u[j] = p
      BY <1>10
    <2>3. i < j \/ j < i
      BY <1>3, <1>13, <2>1, <2>2
    <2>4. Calibration!Adjacent(u[i], u[j]) /\ Calibration!Adjacent(u[j], u[i])
      BY <1>13, <2>1, <2>2, AdjacentBothWays
    <2> QED
      BY <2>3, <2>4
  <1> QED
    BY <1>6, <1>12, <1>13

\* A list that is not too long is stored whole and in order.
LEMMA FilledLists ==
    ASSUME NEW S \in SUBSET Calibration!Pixels, NEW s, Lists(s, S), Cardinality(S) <= Limit
    PROVE  /\ Calibration!ToSet(Calibration!Filled(s)) \ {Calibration!NoPixel} = S
           /\ \A i \in 1..Limit : Calibration!Filled(s)[i] <= Calibration!Filled(s)[i + 1]
  <1> DEFINE n == Len(s)
             f == [i \in 1..(Limit + 1) |-> IF i <= n THEN s[i] ELSE 65535]
  <1>1. /\ n = Cardinality(S)
        /\ \A i \in 1..n : s[i] \in S
        /\ \A x \in S : \E i \in 1..n : s[i] = x
        /\ \A i, j \in 1..n : i < j => s[i] < s[j]
    BY DEF Lists
  <1>2. n \in Nat /\ Limit \in Nat /\ n <= Limit
    BY <1>1, PixelsFinite, SensorAssumption
  <1>3. Calibration!Filled(s) = f
    BY DEF Calibration!Filled, Calibration!NoPixel
  <1>4. \A x \in S : x \in Int /\ x < 65535
    BY SensorAssumption DEF Calibration!Pixels
  <1>5. Calibration!ToSet(f) = {f[i] : i \in 1..(Limit + 1)}
    BY DEF Calibration!ToSet
  <1> HIDE DEF n
  <1>6. \A i \in 1..(Limit + 1) : f[i] = IF i \in 1..n THEN s[i] ELSE 65535
    BY <1>2
  <1>7. \A i \in 1..n : i \in 1..(Limit + 1)
    BY <1>2
  <1> HIDE DEF f
  <1>8. {f[i] : i \in 1..(Limit + 1)} \ {65535} = S
    <2>1. \A i \in 1..(Limit + 1) : f[i] # 65535 => f[i] \in S
      BY <1>1, <1>6
    <2>2. \A x \in S : x # 65535 /\ \E i \in 1..(Limit + 1) : f[i] = x
      BY <1>1, <1>4, <1>6, <1>7
    <2> QED
      BY <2>1, <2>2
  <1>9. ASSUME NEW i \in 1..Limit PROVE f[i] <= f[i + 1]
    <2>1. i \in 1..(Limit + 1) /\ i + 1 \in 1..(Limit + 1) /\ i < i + 1
      BY <1>2
    <2>2. CASE i + 1 \in 1..n
      <3>1. i \in 1..n
        BY <1>2, <2>2
      <3>2. s[i] < s[i + 1] /\ s[i] \in S /\ s[i + 1] \in S
        BY <1>1, <2>1, <2>2, <3>1
      <3> QED
        BY <1>4, <1>6, <2>1, <2>2, <3>1, <3>2
    <2>3. CASE i + 1 \notin 1..n
      <3>1. f[i + 1] = 65535
        BY <1>6, <2>1, <2>3
      <3>2. f[i] = 65535 \/ (f[i] \in Int /\ f[i] < 65535)
        BY <1>1, <1>4, <1>6, <2>1
      <3> QED
        BY <3>1, <3>2
    <2> QED
      BY <2>2, <2>3
  <1> QED
    BY <1>3, <1>5, <1>8, <1>9 DEF Calibration!NoPixel

\* More bad pixels than there may be, wherever the loop has stopped.
LEMMA TooMany ==
    ASSUME NEW S \in SUBSET Calibration!Pixels, NEW T \in SUBSET S, Cardinality(T) > Limit
    PROVE  Cardinality(S) > Limit
  <1>1. IsFiniteSet(S) /\ Cardinality(S) \in Nat /\ T \subseteq Calibration!Pixels
    BY PixelsFinite
  <1>2. Cardinality(T) \in Nat
    BY <1>1, PixelsFinite
  <1>3. Cardinality(T) <= Cardinality(S)
    BY <1>1, FS_Subset
  <1> QED
    BY <1>1, <1>2, <1>3, SensorAssumption

LEMMA Disjoint ==
    ASSUME NEW S \in SUBSET Calibration!Pixels, NEW T \in SUBSET Calibration!Pixels,
           S \cap T = {}
    PROVE  Cardinality(S \cup T) = Cardinality(S) + Cardinality(T)
  <1>1. /\ IsFiniteSet(S) /\ IsFiniteSet(T)
        /\ Cardinality(S) \in Nat /\ Cardinality(T) \in Nat
    BY PixelsFinite
  <1>2. Cardinality(S \cup T) = Cardinality(S) + Cardinality(T) - Cardinality(S \cap T)
    BY <1>1, FS_Union
  <1>3. Cardinality(S \cap T) = 0
    BY FS_EmptySet
  <1> QED
    BY <1>1, <1>2, <1>3

\* An EEPROM is accepted just if it has few bad pixels and no two of them touch, and then
\* the two lists are those of its broken pixels and its outliers.
THEOREM FewPixelsApart == Spec => []CalibrationPixelsAccepted
  <1>1. PixelInv /\ [Next]_vars => PixelInv'
    <2> SUFFICES ASSUME PixelInv, [Next]_vars PROVE PixelInv'
      OBVIOUS
    <2>1. CASE Calibration!Next
      BY <2>1, PixelStep
    <2>2. CASE UNCHANGED calibrationVars
      BY <2>2 DEF calibrationVars, PixelInv, Broken, Outliers, Calibration!Scanning
    <2> QED
      BY <2>1, <2>2 DEF vars, Next, Pwm_Step, Sysfs_Step, Gpio_Step, Lidar_Step, Serial_Step,
                         Display_Step, Lifecycle_Step, Calibration_Step, Image_Step
  <1>2. PixelInv => CalibrationPixelsAccepted
    <2> SUFFICES ASSUME PixelInv, job = "pixels", cpc = "done"
                 PROVE  Calibration!PixelsAccepted
      BY DEF CalibrationPixelsAccepted, Calibration!PixelsAccepted
    <2> DEFINE broken == {p \in Calibration!Pixels : ee[p] = 0}
               outliers == {p \in Calibration!Pixels : ee[p] % 2 = 1}
               all == broken \cup outliers
               touch == \E p, q \in all : p # q /\ Calibration!Adjacent(q, p)
               m == Cardinality(Broken(pixCnt))
               n == Cardinality(Outliers(pixCnt))
               w == Calibration!Warn(bad.broken, bad.outlier)
               fb == Calibration!Filled(bad.broken)
               fo == Calibration!Filled(bad.outlier)
               Goal ==
                   /\ w = 0 <=> Cardinality(all) <= Limit /\ ~touch
                   /\ w = -6 <=> Cardinality(all) <= Limit /\ touch
                   /\ w \in {0, -6} =>
                        /\ Calibration!ToSet(fb) \ {Calibration!NoPixel} = broken
                        /\ Calibration!ToSet(fo) \ {Calibration!NoPixel} = outliers
                        /\ \A i \in 1..Limit : fb[i] <= fb[i + 1] /\ fo[i] <= fo[i + 1]
    <2>1. /\ ee \in [Calibration!Pixels -> {0, 1, 2}] /\ pixCnt \in 0..(Lines * Columns)
          /\ Lists(bad.broken, Broken(pixCnt)) /\ Lists(bad.outlier, Outliers(pixCnt))
          /\ ~Calibration!Scanning
          /\ out = <<w, fb, fo>>
      BY DEF PixelInv
    <2>2. /\ Broken(pixCnt) \subseteq broken /\ Outliers(pixCnt) \subseteq outliers
          /\ broken \cap outliers = {}
      <3>1. 0..(pixCnt - 1) \subseteq Calibration!Pixels
        BY <2>1, SensorAssumption DEF Calibration!Pixels
      <3>2. \A p \in Calibration!Pixels : ~(ee[p] = 0 /\ ee[p] % 2 = 1)
        BY <2>1
      <3> QED
        BY <3>1, <3>2 DEF Broken, Outliers
    <2>3. /\ m = Len(bad.broken) /\ n = Len(bad.outlier)
      BY <2>1 DEF Lists
    <2>4. m \in Nat /\ n \in Nat /\ Limit \in Nat /\ Cardinality(all) \in Nat
      <3>1. /\ Broken(pixCnt) \subseteq Calibration!Pixels
            /\ Outliers(pixCnt) \subseteq Calibration!Pixels
        BY <2>2
      <3>2. all \subseteq Calibration!Pixels
        OBVIOUS
      <3> HIDE DEF all
      <3> QED
        BY <3>1, <3>2, PixelsFinite, SensorAssumption
    <2>5. w = IF m > Limit THEN -3 ELSE IF n > Limit THEN -4
              ELSE IF m + n > Limit THEN -5
              ELSE IF Calibration!AnyAdjacent(bad.broken, bad.outlier) THEN -6 ELSE 0
      <3> HIDE DEF m, n
      <3> QED
        BY <2>3 DEF Calibration!Warn
    <2>6. m <= Limit /\ n <= Limit => pixCnt = Lines * Columns
      <3>1. pixCnt < Lines * Columns => ~(m <= Limit) \/ ~(n <= Limit)
        <4> HIDE DEF m, n
        <4> QED
          BY <2>1, <2>3 DEF Calibration!Scanning
      <3> QED
        BY <2>1, <3>1, SensorAssumption
    <2>7. CASE m > Limit \/ n > Limit
      <3>1. Cardinality(all) > Limit
        <4>1. all \subseteq Calibration!Pixels /\ Broken(pixCnt) \subseteq all
              /\ Outliers(pixCnt) \subseteq all
          BY <2>2
        <4> HIDE DEF all
        <4> QED
          BY <2>7, <4>1, TooMany
      <3>2. w \in {-3, -4}
        <4> HIDE DEF m, n
        <4> QED
          BY <2>4, <2>5, <2>7
      <3>3. ~(Cardinality(all) <= Limit) /\ w # 0 /\ w # -6
        <4> HIDE DEF all, w
        <4> QED
          BY <2>4, <3>1, <3>2
      <3>4. Goal
        <4> HIDE DEF all, w, touch, fb, fo, broken, outliers
        <4> QED
          BY <3>3
      <3> QED
        BY <2>1, <3>4 DEF Calibration!PixelsAccepted, Calibration!Cardinality, Cardinality
    <2>8. CASE m <= Limit /\ n <= Limit
      <3>1. Broken(pixCnt) = broken /\ Outliers(pixCnt) = outliers
        BY <2>6, <2>8 DEF Broken, Outliers, Calibration!Pixels
      <3>2. Cardinality(all) = m + n
        BY <2>2, <3>1, Disjoint
      <3>3. Calibration!AnyAdjacent(bad.broken, bad.outlier) <=> touch
        <4>1. /\ Lists(bad.broken, broken) /\ Lists(bad.outlier, outliers)
              /\ broken \subseteq Calibration!Pixels /\ outliers \subseteq Calibration!Pixels
          BY <2>1, <3>1
        <4> HIDE DEF broken, outliers
        <4> QED
          BY <2>2, <4>1, Touching
      <3>4. /\ Calibration!ToSet(fb) \ {Calibration!NoPixel} = broken
            /\ \A i \in 1..Limit : fb[i] <= fb[i + 1]
        BY <2>1, <2>8, <3>1, FilledLists
      <3>5. /\ Calibration!ToSet(fo) \ {Calibration!NoPixel} = outliers
            /\ \A i \in 1..Limit : fo[i] <= fo[i + 1]
        BY <2>1, <2>8, <3>1, FilledLists
      <3>6. Goal
        <4> HIDE DEF all, w, touch, fb, fo, broken, outliers, m, n
        <4>1. CASE m + n > Limit
          <5>1. w = -5 /\ ~(Cardinality(all) <= Limit)
            BY <2>4, <2>5, <2>8, <3>2, <4>1
          <5> QED
            BY <5>1
        <4>2. CASE m + n <= Limit
          <5>1. w = IF touch THEN -6 ELSE 0
            BY <2>4, <2>5, <2>8, <3>3, <4>2
          <5>2. Cardinality(all) <= Limit
            BY <3>2, <4>2
          <5> QED
            BY <5>1, <5>2, <3>4, <3>5
        <4> QED
          BY <2>4, <4>1, <4>2
      <3> QED
        BY <2>1, <3>6 DEF Calibration!PixelsAccepted, Calibration!Cardinality, Cardinality
    <2> QED
      BY <2>4, <2>7, <2>8
  <1> QED
    BY PixelInit, <1>1, <1>2, PTL DEF Spec
-----------------------------------------------------------------------------
(* The offsets and the coefficients *)

\* Any number divided, with the bounds of what is left as inequalities.
LEMMA Divided ==
    ASSUME NEW n \in Int, NEW C \in Nat \ {0}
    PROVE  /\ n \div C \in Int /\ n % C \in Int /\ 0 <= n % C /\ n % C < C
           /\ n = C * (n \div C) + (n % C)
  <1> DEFINE q == n \div C
             r == n % C
  <1>1. q \in Int
    OBVIOUS
  <1>2. r \in 0..(C - 1)
    OBVIOUS
  <1>3. n = C * q + r
    BY SMTT(30)
  <1> HIDE DEF q, r
  <1>4. r \in Int /\ 0 <= r /\ r < C
    BY <1>2
  <1> QED
    BY <1>1, <1>3, <1>4 DEF q, r

\* An int16_t keeps a number but for a multiple of 2^16.
LEMMA Int16Is ==
    ASSUME NEW n \in Int
    PROVE  /\ Calibration!Int16(n) \in Int
           /\ -32768 <= Calibration!Int16(n) /\ Calibration!Int16(n) <= 32767
           /\ \E k \in Int : Calibration!Int16(n) = n - 65536 * k
  <1> DEFINE k == n \div 65536
             m == n % 65536
  <1>0. 65536 \in Nat \ {0}
    BY SMT
  <1>1. k \in Int /\ m \in Int /\ 0 <= m /\ m < 65536 /\ n = 65536 * k + m
    BY <1>0, Divided, SMT
  <1>2. Calibration!Int16(n) = IF m > 32767 THEN m - 65536 ELSE m
    BY SMT DEF Calibration!Int16
  <1> HIDE DEF k, m
  <1>3. CASE m > 32767
    <2>1. Calibration!Int16(n) = n - 65536 * (k + 1)
      BY <1>1, <1>2, <1>3, SMT
    <2>2. k + 1 \in Int
      BY <1>1, SMT
    <2>3. Calibration!Int16(n) \in Int
          /\ -32768 <= Calibration!Int16(n) /\ Calibration!Int16(n) <= 32767
      BY <1>1, <1>2, <1>3, SMT
    <2> QED
      BY <2>1, <2>2, <2>3, SMT
  <1>4. CASE ~(m > 32767)
    <2>1. Calibration!Int16(n) = n - 65536 * k
      BY <1>1, <1>2, <1>4, SMT
    <2>3. Calibration!Int16(n) \in Int
          /\ -32768 <= Calibration!Int16(n) /\ Calibration!Int16(n) <= 32767
      BY <1>1, <1>2, <1>4, SMT
    <2> QED
      BY <1>1, <2>1, <2>3, SMT
  <1> QED
    BY <1>3, <1>4, SMT

\* What overflows on the way comes out in the end.
LEMMA Wraps ==
    ASSUME NEW a \in Int, NEW b \in Int, -32768 <= a + b, a + b <= 32767
    PROVE  Calibration!Int16(a + Calibration!Int16(b)) = a + b
  <1> DEFINE d == Calibration!Int16(b)
             c == a + d
             e == Calibration!Int16(c)
  <1>1. PICK k \in Int : d = b - 65536 * k
    BY Int16Is, SMT
  <1>0. d \in Int
    BY Int16Is, SMT
  <1> HIDE DEF d
  <1>2. c \in Int /\ c = (a + b) - 65536 * k
    BY <1>0, <1>1, SMT
  <1> HIDE DEF c
  <1>3. PICK l \in Int : e = c - 65536 * l
    BY <1>2, Int16Is, SMT
  <1>4. e \in Int /\ -32768 <= e /\ e <= 32767
    BY <1>2, Int16Is, SMT
  <1> HIDE DEF e
  <1>5. k + l \in Int /\ e = (a + b) - 65536 * (k + l)
    BY <1>2, <1>3, SMT
  <1>6. \A i \in Int : e = (a + b) - 65536 * i => i = 0
    BY <1>4, SMT
  <1>7. e = a + b
    BY <1>5, <1>6, SMT
  <1> QED
    BY <1>7, SMT DEF c, d, e

\* The code's test for a negative field reads it as two's complement.
LEMMA SignedIsValue ==
    /\ \A x \in 0..15 : Calibration!Signed(x, 4) = Calibration!Value(x, 4)
                        /\ Calibration!Value(x, 4) \in Int
    /\ \A x \in 0..63 : Calibration!Signed(x, 6) = Calibration!Value(x, 6)
                        /\ Calibration!Value(x, 6) \in Int
    /\ \A x \in Int : 0 <= x /\ x < 65536 =>
           Calibration!Int16(x) = Calibration!Value(x, 16) /\ Calibration!Value(x, 16) \in Int
  <1>1. 2^3 = 8 /\ 2^4 = 16 /\ 2^5 = 32 /\ 2^6 = 64 /\ 2^15 = 32768 /\ 2^16 = 65536
    BY SMT
  <1>2. \A x \in 0..15 : /\ Calibration!Signed(x, 4) = IF x > 7 THEN x - 16 ELSE x
                         /\ Calibration!Value(x, 4) = x - 16 * (x \div 8)
    BY <1>1, SMT DEF Calibration!Signed, Calibration!Value
  <1>3. \A x \in 0..63 : /\ Calibration!Signed(x, 6) = IF x > 31 THEN x - 64 ELSE x
                         /\ Calibration!Value(x, 6) = x - 64 * (x \div 32)
    BY <1>1, SMT DEF Calibration!Signed, Calibration!Value
  <1>4. ASSUME NEW x \in Int, 0 <= x, x < 65536
        PROVE  Calibration!Int16(x) = Calibration!Value(x, 16) /\ Calibration!Value(x, 16) \in Int
    <2>1. x % 65536 = x
      BY <1>4, SMT
    <2>2. Calibration!Int16(x) = IF x > 32767 THEN x - 65536 ELSE x
      BY <2>1, SMT DEF Calibration!Int16
    <2>3. Calibration!Value(x, 16) = x - 65536 * (x \div 32768)
      BY <1>1, SMT DEF Calibration!Value
    <2>4. x \div 32768 = IF x > 32767 THEN 1 ELSE 0
      BY <1>4, SMT
    <2> QED
      BY <2>2, <2>3, <2>4, SMT
  <1>5. \A x \in 0..15 : x \div 8 = IF x > 7 THEN 1 ELSE 0
    BY SMT
  <1>6. \A x \in 0..63 : x \div 32 = IF x > 31 THEN 1 ELSE 0
    BY SMT
  <1>7. \A x \in 0..15 : Calibration!Signed(x, 4) = Calibration!Value(x, 4)
                        /\ Calibration!Value(x, 4) \in Int
    BY <1>2, <1>5, SMT
  <1>8. \A x \in 0..63 : Calibration!Signed(x, 6) = Calibration!Value(x, 6)
                        /\ Calibration!Value(x, 6) \in Int
    BY <1>3, <1>6, SMT
  <1> QED
    BY <1>4, <1>7, <1>8, SMT
\* Powers of two, of which tlapm evaluates constant ones only.
Two(n) == 2^n

LEMMA PowersOfTwo ==
    /\ Two(0) = 1 /\ Two(29) = 536870912 /\ \A n \in 0..23 : Two(n) <= 8388608
    /\ \A n \in 0..29 : Two(n) \in Nat \ {0} /\ Two(n + 1) = 2 * Two(n)
  <1>1. /\ Two(0) = 1 /\ Two(1) = 2 /\ Two(2) = 4 /\ Two(3) = 8 /\ Two(4) = 16 /\ Two(5) = 32
        /\ Two(6) = 64 /\ Two(7) = 128 /\ Two(8) = 256 /\ Two(9) = 512 /\ Two(10) = 1024
    BY SMT DEF Two
  <1>2. /\ Two(11) = 2048 /\ Two(12) = 4096 /\ Two(13) = 8192 /\ Two(14) = 16384
        /\ Two(15) = 32768 /\ Two(16) = 65536 /\ Two(17) = 131072 /\ Two(18) = 262144
        /\ Two(19) = 524288 /\ Two(20) = 1048576
    BY SMT DEF Two
  <1>3. /\ Two(21) = 2097152 /\ Two(22) = 4194304 /\ Two(23) = 8388608
        /\ Two(24) = 16777216 /\ Two(25) = 33554432 /\ Two(26) = 67108864
        /\ Two(27) = 134217728 /\ Two(28) = 268435456 /\ Two(29) = 536870912
        /\ Two(30) = 1073741824
    BY SMT DEF Two
  <1>5. \A n \in 0..10 : Two(n) \in Nat \ {0} /\ Two(n + 1) = 2 * Two(n) /\ Two(n) <= 1024
    BY <1>1, <1>2, SMT
  <1>6. \A n \in 11..20 : Two(n) \in Nat \ {0} /\ Two(n + 1) = 2 * Two(n) /\ Two(n) <= 1048576
    BY <1>2, <1>3, SMT
  <1>7. \A n \in 21..29 : Two(n) \in Nat \ {0} /\ Two(n + 1) = 2 * Two(n)
    BY <1>3, SMT
  <1>8. \A n \in 21..23 : Two(n) <= 8388608
    BY <1>3, SMT
  <1>9. \A n \in 0..29 : Two(n) \in Nat \ {0} /\ Two(n + 1) = 2 * Two(n)
    BY <1>5, <1>6, <1>7, SMT
  <1>10. \A n \in 0..23 : Two(n) <= 8388608
    BY <1>5, <1>6, <1>8, <1>9, SMT
  <1> QED
    BY <1>1, <1>3, <1>9, <1>10, SMT

\* What is needed of them where their numbers do not matter.
LEMMA Doubled ==
    ASSUME NEW n \in 0..29
    PROVE  Two(n) \in Nat \ {0} /\ Two(n + 1) = 2 * Two(n)
  BY PowersOfTwo, SMT

LEMMA TwoToNone == Two(0) = 1
  BY PowersOfTwo, SMT

\* Of two powers the later one is not smaller: by steps of one, two, four, ...
LEMMA TwoMonotone ==
    ASSUME NEW p \in 0..30, NEW s \in 0..30, p <= s
    PROVE  Two(p) <= Two(s)
  <1> DEFINE Far(m) == \A a, b \in 0..30 : a <= b /\ b <= a + m => Two(a) <= Two(b)
  <1>1. \A a \in 0..30 : Two(a) \in Nat
    <2>1. Two(30) = 2 * Two(29) /\ Two(29) \in Nat
      BY Doubled
    <2> QED
      BY <2>1, Doubled
  <1>2. Far(1)
    <2> SUFFICES ASSUME NEW a \in 0..30, NEW b \in 0..30, a <= b, b <= a + 1
                 PROVE  Two(a) <= Two(b)
      OBVIOUS
    <2>1. CASE b = a
      BY <2>1, <1>1
    <2>2. CASE b = a + 1
      <3>1. a \in 0..29 /\ Two(b) = 2 * Two(a) /\ Two(a) \in Nat
        BY <2>2, Doubled
      <3> QED
        BY <3>1
    <2> QED
      BY <2>1, <2>2
  <1>3. ASSUME NEW m \in 1..16, Far(m) PROVE Far(m + m)
    <2> SUFFICES ASSUME NEW a \in 0..30, NEW b \in 0..30, a <= b, b <= a + (m + m)
                 PROVE  Two(a) <= Two(b)
      OBVIOUS
    <2>1. CASE b <= a + m
      BY <2>1, <1>3
    <2>2. CASE ~(b <= a + m)
      <3>1. a + m \in 0..30 /\ a <= a + m /\ a + m <= b /\ b <= (a + m) + m
        BY <2>2
      <3>2. Two(a) <= Two(a + m) /\ Two(a + m) <= Two(b)
        BY <3>1, <1>3
      <3> QED
        BY <3>1, <3>2, <1>1
    <2> QED
      BY <2>1, <2>2
  <1> HIDE DEF Far
  <1>4. Far(2)
    BY <1>2, <1>3, 1 + 1 = 2
  <1>5. Far(4)
    BY <1>3, <1>4, 2 + 2 = 4
  <1>6. Far(8)
    BY <1>3, <1>5, 4 + 4 = 8
  <1>7. Far(16)
    BY <1>3, <1>6, 8 + 8 = 16
  <1>8. Far(32)
    BY <1>3, <1>7, 16 + 16 = 32
  <1> QED
    BY <1>8 DEF Far

LEMMA AbsIs ==
    ASSUME NEW n \in Int
    PROVE  /\ Calibration!Abs(n) \in Nat
           /\ n >= 0 => Calibration!Abs(n) = n
           /\ n < 0 => Calibration!Abs(n) = -n
  BY SMT DEF Calibration!Abs

\* What the code makes of a field is what the field means.
LEMMA FieldsMean ==
    ASSUME NEW f \in OffsetFields
    PROVE  /\ /\ Calibration!Int16(f.ref) = Calibration!Value(f.ref, 16)
              /\ Calibration!Value(f.ref, 16) \in Int
           /\ /\ Calibration!Signed(f.row, 4) = Calibration!Value(f.row, 4)
              /\ Calibration!Value(f.row, 4) \in Int
           /\ /\ Calibration!Signed(f.column, 4) = Calibration!Value(f.column, 4)
              /\ Calibration!Value(f.column, 4) \in Int
           /\ /\ Calibration!Signed(f.pixel, 6) = Calibration!Value(f.pixel, 6)
              /\ Calibration!Value(f.pixel, 6) \in Int
           /\ 2^f.remScale \in Int /\ 2^f.rowScale \in Int /\ 2^f.columnScale \in Int
  <1>0. 2^16 = 65536 /\ 2^6 - 1 = 63 /\ 2^4 - 1 = 15
    BY SMT
  <1>1. f.ref \in 0..(2^16 - 1)
    BY CalibrationAssumption, Zenon DEF Field
  <1>2. /\ f.row \in Field(4) /\ f.column \in Field(4) /\ f.pixel \in Field(6)
        /\ f.remScale \in Field(4) /\ f.rowScale \in Field(4) /\ f.columnScale \in Field(4)
    BY CalibrationAssumption, SMT
  <1>3. Field(4) = 0..15 /\ Field(6) = 0..63
    BY <1>0, SMT DEF Field
  <1>4. 2^16 \in Int
    BY <1>0, SMT
  <1>5. f.ref \in Int /\ 0 <= f.ref /\ f.ref <= 2^16 - 1
    BY <1>1, <1>4, SMT
  <1>6. f.ref \in Int /\ 0 <= f.ref /\ f.ref < 65536
    BY <1>0, <1>5, SMT
  <1>7. f.remScale \in 0..29 /\ f.rowScale \in 0..29 /\ f.columnScale \in 0..29
    BY <1>2, <1>3, SMT
  <1>8. 2^f.remScale \in Int /\ 2^f.rowScale \in Int /\ 2^f.columnScale \in Int
    <2>1. Two(f.remScale) \in Int /\ Two(f.rowScale) \in Int /\ Two(f.columnScale) \in Int
      BY <1>7, Doubled
    <2> QED
      BY <2>1 DEF Two
  <1>9. /\ Calibration!Int16(f.ref) = Calibration!Value(f.ref, 16)
        /\ Calibration!Value(f.ref, 16) \in Int
    BY <1>6, SignedIsValue, SMT
  <1>10. /\ Calibration!Signed(f.row, 4) = Calibration!Value(f.row, 4)
         /\ Calibration!Value(f.row, 4) \in Int
    BY <1>2, <1>3, SignedIsValue, SMT
  <1>11. /\ Calibration!Signed(f.column, 4) = Calibration!Value(f.column, 4)
         /\ Calibration!Value(f.column, 4) \in Int
    BY <1>2, <1>3, SignedIsValue, SMT
  <1>12. /\ Calibration!Signed(f.pixel, 6) = Calibration!Value(f.pixel, 6)
         /\ Calibration!Value(f.pixel, 6) \in Int
    BY <1>2, <1>3, SignedIsValue, SMT
  <1> QED
    BY <1>8, <1>9, <1>10, <1>11, <1>12

\* The offset a pixel's fields mean.
Meant(f) ==
    Calibration!Value(f.ref, 16) + Calibration!Value(f.row, 4) * 2^f.rowScale
      + Calibration!Value(f.column, 4) * 2^f.columnScale
      + Calibration!Value(f.pixel, 6) * 2^f.remScale

\* The sum in 16 bits is the sum.
LEMMA OffsetExact ==
    ASSUME NEW f \in OffsetFields, -32768 <= Meant(f), Meant(f) <= 32767
    PROVE  Calibration!PixelOffset(f) = Meant(f)
  <1> DEFINE v == Calibration!Value(f.ref, 16)
             r == Calibration!Value(f.row, 4)
             c == Calibration!Value(f.column, 4)
             p == Calibration!Value(f.pixel, 6)
             tr == 2^f.rowScale
             tc == 2^f.columnScale
             tp == 2^f.remScale
             a == v + r * tr + c * tc
             b == p * tp
  <1>1. /\ v \in Int /\ r \in Int /\ c \in Int /\ p \in Int
        /\ tr \in Int /\ tc \in Int /\ tp \in Int
    BY FieldsMean
  <1>2. Calibration!PixelOffset(f) = Calibration!Int16(a + Calibration!Int16(b))
    <2>1. Calibration!PixelOffset(f) =
              Calibration!Int16(Calibration!Int16(f.ref) + Calibration!Signed(f.row, 4) * tr
                + Calibration!Signed(f.column, 4) * tc
                + Calibration!Int16(Calibration!Signed(f.pixel, 6) * tp))
      BY DEF Calibration!PixelOffset
    <2>2. /\ Calibration!Int16(f.ref) = v /\ Calibration!Signed(f.row, 4) = r
          /\ Calibration!Signed(f.column, 4) = c /\ Calibration!Signed(f.pixel, 6) = p
      BY FieldsMean
    <2> HIDE DEF v, r, c, p, tr, tc, tp
    <2> QED
      BY <2>1, <2>2
  <1>3. Meant(f) = a + b
    BY DEF Meant
  <1> HIDE DEF v, r, c, p, tr, tc, tp
  <1>4. a \in Int /\ b \in Int
    BY <1>1, SMT
  <1> HIDE DEF a, b
  <1>5. Calibration!Int16(a + Calibration!Int16(b)) = a + b
    BY <1>3, <1>4, Wraps, SMT
  <1> QED
    BY <1>2, <1>3, <1>5

\* The quotient of the code's division, which rounds A / Q, scaled by S.
Size(A, S, Q) == (2 * A * S + Q) \div (2 * Q)

LEMMA SizeIs ==
    ASSUME NEW A \in Nat, NEW S \in Nat \ {0}, NEW Q \in Nat \ {0}
    PROVE  /\ Size(A, S, Q) \in Int
           /\ 2 * (Size(A, S, Q) * Q) <= 2 * (A * S) + Q
           /\ 2 * (A * S) < 2 * (Size(A, S, Q) * Q) + Q
  <1> DEFINE t == 2 * A * S + Q
             D == 2 * Q
             q == t \div D
             m == t % D
  <1>1. D \in Nat \ {0} /\ t \in Int /\ t = 2 * (A * S) + Q /\ A * S \in Nat
    OBVIOUS
  <1>2. Size(A, S, Q) = q
    BY DEF Size
  <1>3. q \in Int /\ m \in Int /\ 0 <= m /\ m < D /\ t = D * q + m
    <2> HIDE DEF t, D
    <2> QED
      BY <1>1, Divided
  <1> HIDE DEF q, m
  <1>4. q * Q \in Int /\ D * q = 2 * (q * Q)
    BY <1>3
  <1> DEFINE Y == q * Q
             X == A * S
  <1>5. 2 * X + Q = 2 * Y + m /\ m < 2 * Q /\ 0 <= m /\ X \in Nat /\ Y \in Int
    BY <1>1, <1>3, <1>4
  <1>6. 2 * Y <= 2 * X + Q /\ 2 * X < 2 * Y + Q
    <2> HIDE DEF X, Y
    <2> QED
      BY <1>3, <1>5
  <1> QED
    BY <1>2, <1>3, <1>6

\* The bounds on a quotient.
LEMMA SizeBounds ==
    ASSUME NEW s \in Int, NEW Q \in Nat \ {0}, NEW X \in Nat, NEW Y \in Int, Y = s * Q,
           2 * Y <= 2 * X + Q, 2 * X < 2 * Y + Q
    PROVE  /\ s >= 0
           /\ 634 * Q <= 10 * X => s >= 63
           /\ 2 * X < 255 * Q => s <= 127
  <1>1. s <= 62 => Y <= 62 * Q
    OBVIOUS
  <1>2. s >= 128 => Y >= 128 * Q
    OBVIOUS
  <1>3. s <= -1 => Y <= -Q
    OBVIOUS
  <1> QED
    BY <1>1, <1>2, <1>3

\* The sign is taken off before and put back after the rounding.
LEMMA SignedProduct ==
    ASSUME NEW n \in Int, NEW S \in Int, NEW Q \in Int, NEW s \in Int, NEW r,
           r = IF n < 0 THEN -s ELSE s
    PROVE  Calibration!Abs(r * Q - n * S) \in
               {Calibration!Abs(n) * S - s * Q, s * Q - Calibration!Abs(n) * S}
  <1>1. CASE n < 0
    <2>1. Calibration!Abs(n) = -n /\ r = -s
      BY <1>1, AbsIs
    <2>2. r * Q = -(s * Q) /\ n * S = -((-n) * S)
      BY <2>1
    <2>3. r * Q - n * S = (-n) * S - s * Q /\ r * Q - n * S \in Int
      BY <2>2
    <2>4. -(r * Q - n * S) = s * Q - (-n) * S
      BY <2>3
    <2> QED
      BY <2>1, <2>3, <2>4 DEF Calibration!Abs
  <1>2. CASE ~(n < 0)
    <2>1. Calibration!Abs(n) = n /\ r = s
      BY <1>2, AbsIs
    <2>2. r * Q - n * S = s * Q - n * S /\ r * Q - n * S \in Int
      BY <2>1
    <2>3. -(r * Q - n * S) = n * S - s * Q
      BY <2>2
    <2> QED
      BY <2>1, <2>2, <2>3 DEF Calibration!Abs
  <1> QED
    BY <1>1, <1>2

\* A numerator n over Q, scaled by S, rounded to the nearest whole number.
Nearby(n, S, Q) ==
    IF n < 0 THEN -Size(Calibration!Abs(n), S, Q) ELSE Size(Calibration!Abs(n), S, Q)

LEMMA Nearest ==
    ASSUME NEW n \in Int, NEW S \in Nat \ {0}, NEW Q \in Nat \ {0}
    PROVE  /\ 2 * Calibration!Abs(Nearby(n, S, Q) * Q - n * S) <= Q
           /\ 634 * Q <= 10 * (Calibration!Abs(n) * S) => Calibration!Abs(Nearby(n, S, Q)) >= 63
           /\ 2 * (Calibration!Abs(n) * S) < 255 * Q => Nearby(n, S, Q) \in -128..127
  <1> DEFINE A == Calibration!Abs(n)
             r == Nearby(n, S, Q)
             s == Size(A, S, Q)
             X == A * S
             Y == s * Q
  <1>1. A \in Nat
    BY AbsIs
  <1>2. s \in Int /\ 2 * Y <= 2 * X + Q /\ 2 * X < 2 * Y + Q
    BY <1>1, SizeIs
  <1>3. X \in Nat /\ Y \in Int
    BY <1>1, <1>2
  <1>4. r = IF n < 0 THEN -s ELSE s
    BY DEF Nearby
  <1> HIDE DEF r
  <1>5. Calibration!Abs(r * Q - n * S) \in {X - Y, Y - X}
    BY <1>2, <1>4, SignedProduct
  <1>6. s >= 0 /\ (634 * Q <= 10 * X => s >= 63) /\ (2 * X < 255 * Q => s <= 127)
    BY <1>2, <1>3, SizeBounds
  <1> HIDE DEF A, s
  <1>7. 2 * Calibration!Abs(r * Q - n * S) <= Q
    <2> HIDE DEF X, Y
    <2> QED
      BY <1>2, <1>3, <1>5
  <1> HIDE DEF X, Y
  <1>8. r \in Int /\ (s >= 63 => Calibration!Abs(r) >= 63) /\ (s <= 127 => r \in -128..127)
    BY <1>2, <1>4, <1>6 DEF Calibration!Abs
  <1> QED
    BY <1>6, <1>7, <1>8 DEF X, A, r
-----------------------------------------------------------------------------
\* What is stored is what the fields give; the largest coefficient has been doubled
\* scale times, and only while it was small.
StoredInv ==
    /\ cpc \in {"run", "done"}
    /\ job = "offset" =>
           ee \in OffsetFields /\ (cpc = "done" => out = <<Calibration!PixelOffset(ee)>>)
    /\ job = "scale" =>
           /\ ee \in Coefficients \X Calibration!Numerators
           /\ Calibration!Abs(ee[2]) <= Calibration!Abs(ee[1][1])
           /\ ee[1][1] = 0 => temp = 0 /\ cpc = "run"
           /\ ee[1][1] # 0 =>
                  /\ scale \in 0..29 /\ scale <= ee[1][2] + 6
                  /\ temp = Calibration!Abs(ee[1][1]) * Two(scale)
                  /\ scale # 0 => 10 * temp < 1268 * Two(ee[1][2])
           /\ cpc = "done" =>
                  /\ ~Calibration!Small
                  /\ out = <<Calibration!Rounded(ee[1][1]), Calibration!Rounded(ee[2])>>

\* The types of a pair of coefficients.
LEMMA CoefficientTypes ==
    ASSUME NEW e \in Coefficients \X Calibration!Numerators
    PROVE  e[1][1] \in Int /\ e[1][2] \in 0..23 /\ e[2] \in Int
  <1>1. e[1] \in Int \X (0..23)
    BY CalibrationAssumption
  <1>2. e[2] \in Int
    BY CalibrationAssumption DEF Calibration!Numerators
  <1> QED
    BY <1>1, <1>2

\* A power of two that is below 63.4 times one of the coefficients' is less than the sixth
\* one above it.
LEMMA StillSmall ==
    ASSUME NEW s \in 0..29, NEW p \in 0..23, NEW A \in Nat \ {0},
           10 * (A * Two(s)) < 634 * Two(p)
    PROVE  s < 29 /\ s < p + 6
  <1> DEFINE S == Two(s)
             P == Two(p)
  <1>1. S \in Nat /\ P \in Nat \ {0}
    BY Doubled
  <1>2. 64 * P = Two(p + 6)
    <2>1. /\ Two(p + 1) = 2 * Two(p) /\ Two(p + 2) = 2 * Two(p + 1)
          /\ Two(p + 3) = 2 * Two(p + 2) /\ Two(p + 4) = 2 * Two(p + 3)
          /\ Two(p + 5) = 2 * Two(p + 4) /\ Two(p + 6) = 2 * Two(p + 5)
      <3>1. \A k \in 0..5 : p + k \in 0..29 /\ (p + k) + 1 = p + (k + 1)
        OBVIOUS
      <3>2. \A k \in 0..5 : Two(p + (k + 1)) = 2 * Two(p + k)
        BY <3>1, Doubled
      <3>3. /\ Two(p + (0 + 1)) = 2 * Two(p + 0) /\ Two(p + (1 + 1)) = 2 * Two(p + 1)
            /\ Two(p + (2 + 1)) = 2 * Two(p + 2) /\ Two(p + (3 + 1)) = 2 * Two(p + 3)
            /\ Two(p + (4 + 1)) = 2 * Two(p + 4) /\ Two(p + (5 + 1)) = 2 * Two(p + 5)
        BY <3>2
      <3>4. p + 0 = p
        OBVIOUS
      <3> QED
        BY <3>3, <3>4
    <2> HIDE DEF P
    <2>2. Two(p) = P
      BY DEF P
    <2> QED
      BY <2>1, <2>2, <1>1
  <1>3. ASSUME s >= p + 6 PROVE FALSE
    <2>1. Two(p + 6) <= S
      BY <1>3, TwoMonotone
    <2>2. S <= A * S /\ A * S \in Nat
      <3> HIDE DEF S
      <3> QED
        BY <1>1, SMT
    <2> DEFINE X == A * S
    <2>3. X \in Nat /\ S <= X /\ 10 * X < 634 * P
      BY <2>2
    <2> HIDE DEF X, S, P
    <2> QED
      BY <1>1, <1>2, <2>1, <2>3, SMT
  <1> QED
    BY <1>3

\* What StoreScaled stores, in these terms.
LEMMA RoundedIs ==
    ASSUME NEW n
    PROVE  Calibration!Rounded(n) = Nearby(n, Two(scale), Two(ee[1][2]))
  BY DEF Calibration!Rounded, Calibration!Power, Nearby, Size, Two

LEMMA StoredInit == Init => StoredInv
  <1> SUFFICES ASSUME Init PROVE StoredInv
    OBVIOUS
  <1>1. Calibration!Init
    BY DEF Init
  <1>2. cpc = "run" /\ scale = 0
    BY <1>1 DEF Calibration!Init
  <1>3. ASSUME job = "offset" PROVE ee \in OffsetFields
    BY <1>1, <1>3 DEF Calibration!Init
  <1>4. ASSUME job = "scale"
        PROVE  /\ ee \in Coefficients \X Calibration!Numerators
               /\ Calibration!Abs(ee[2]) <= Calibration!Abs(ee[1][1])
               /\ temp = Calibration!Abs(ee[1][1])
    BY <1>1, <1>4 DEF Calibration!Init
  <1>5. ASSUME job = "scale"
        PROVE  /\ ee[1][1] = 0 => temp = 0
               /\ ee[1][1] # 0 =>
                      /\ scale \in 0..29 /\ scale <= ee[1][2] + 6
                      /\ temp = Calibration!Abs(ee[1][1]) * Two(scale)
    <2>1. ee[1][1] \in Int /\ ee[1][2] \in 0..23
      BY <1>4, <1>5, CoefficientTypes
    <2>2. temp \in Nat /\ (ee[1][1] = 0 => temp = 0)
      BY <1>4, <1>5, <2>1, AbsIs
    <2>4. temp = temp * Two(0)
      BY <2>2, TwoToNone
    <2> QED
      BY <1>2, <1>4, <1>5, <2>1, <2>2, <2>4
  <1> QED
    BY <1>2, <1>3, <1>4, <1>5 DEF StoredInv

LEMMA StoredStep == StoredInv /\ [Next]_vars => StoredInv'
  <1> SUFFICES ASSUME StoredInv, [Next]_vars PROVE StoredInv'
    OBVIOUS
  <1>1. CASE Calibration_Step
    <2>1. CASE Calibration!ExtractOffset
      BY <2>1 DEF StoredInv, Calibration!ExtractOffset, Calibration!PixelOffset
    <2>2. CASE Calibration!Double
      <3> DEFINE n == ee[1][1]
                 A == Calibration!Abs(n)
                 Q == Two(ee[1][2])
                 S == Two(scale)
      <3>1. /\ job = "scale" /\ cpc = "run" /\ 10 * temp < 634 * Q
            /\ temp' = 2 * temp /\ scale' = (scale + 1) % 256
            /\ UNCHANGED <<job, ee, cpc, out>>
        BY <2>2 DEF Calibration!Double, Calibration!Small, Calibration!Power, Two
      <3>2. n \in Int /\ ee[1][2] \in 0..23
        BY <3>1, CoefficientTypes DEF StoredInv
      <3>3. CASE n = 0
        <4>1. temp = 0 /\ temp' = 0
          BY <3>1, <3>3 DEF StoredInv
        <4> QED
          BY <3>1, <3>3, <4>1 DEF StoredInv
      <3>4. CASE n # 0
        <4>1. scale \in 0..29 /\ temp = A * S
          BY <3>1, <3>4 DEF StoredInv
        <4>2. A \in Nat \ {0}
          BY <3>2, <3>4, AbsIs
        <4>3. scale < 29 /\ scale < ee[1][2] + 6
          BY <3>1, <3>2, <4>1, <4>2, StillSmall
        <4>4. scale' = scale + 1 /\ scale' \in 0..29 /\ scale' <= ee[1][2] + 6
          BY <3>1, <3>2, <4>1, <4>3
        <4>5. S \in Nat \ {0} /\ Two(scale + 1) = 2 * S
          BY <4>1, Doubled
        <4>6. Q \in Nat
          BY <3>2, Doubled
        <4>7. temp' = A * Two(scale')
          <5>1. A * (2 * S) = 2 * (A * S)
            <6> HIDE DEF A, S
            <6> QED
              BY <4>2, <4>5
          <5> QED
            BY <3>1, <4>1, <4>4, <4>5, <5>1
        <4>8. 10 * temp' < 1268 * Q
          <5>1. A * S \in Nat
            <6> HIDE DEF A, S
            <6> QED
              BY <4>2, <4>5
          <5> HIDE DEF Q, A, S
          <5> QED
            BY <3>1, <4>1, <4>6, <5>1
        <4> QED
          BY <3>1, <3>4, <4>4, <4>7, <4>8 DEF StoredInv
      <3> QED
        BY <3>3, <3>4
    <2>3. CASE Calibration!StoreScaled
      <3>1. /\ job = "scale" /\ ~Calibration!Small /\ cpc' = "done"
            /\ out' = <<Calibration!Rounded(ee[1][1]), Calibration!Rounded(ee[2])>>
            /\ UNCHANGED <<job, ee, temp, scale>>
        BY <2>3 DEF Calibration!StoreScaled
      <3>2. ee[1][1] # 0
        <4>1. ASSUME ee[1][1] = 0 PROVE FALSE
          <5>1. temp = 0
            BY <3>1, <4>1 DEF StoredInv
          <5>2. ee[1][2] \in 0..29
            BY <3>1, CoefficientTypes DEF StoredInv
          <5>3. Two(ee[1][2]) \in Nat \ {0}
            BY <5>2, Doubled
          <5>4. Calibration!Small
            <6> DEFINE Q == Two(ee[1][2])
            <6>1. Calibration!Small <=> 10 * temp < 634 * Q
              BY DEF Calibration!Small, Calibration!Power, Two
            <6> HIDE DEF Q
            <6> QED
              BY <5>1, <5>3, <6>1 DEF Q
          <5> QED
            BY <3>1, <5>4
        <4> QED
          BY <4>1
      <3>3. (~Calibration!Small)'
        BY <3>1 DEF Calibration!Small, Calibration!Power
      <3>4. out' = <<Calibration!Rounded(ee[1][1])', Calibration!Rounded(ee[2])'>>
        BY <3>1 DEF Calibration!Rounded, Calibration!Power
      <3> QED
        BY <3>1, <3>2, <3>3, <3>4 DEF StoredInv
    <2>4. CASE Calibration!ListPixel
      BY <2>4 DEF StoredInv, Calibration!ListPixel
    <2>5. CASE Calibration!ExtractDeviating
      BY <2>5 DEF StoredInv, Calibration!ExtractDeviating
    <2> QED
      BY <1>1, <2>1, <2>2, <2>3, <2>4, <2>5 DEF Calibration_Step, Calibration!Next
  <1>2. ASSUME UNCHANGED calibrationVars PROVE StoredInv'
    BY <1>2 DEF StoredInv, calibrationVars, Calibration!Small, Calibration!Power,
                Calibration!Rounded
  <1> QED
    BY <1>1, <1>2 DEF Next, vars, Pwm_Step, Sysfs_Step, Gpio_Step, Lidar_Step, Serial_Step,
                      Display_Step, Lifecycle_Step, Image_Step

LEMMA StoredMeans == StoredInv => CalibrationStoredExactly
  <1> SUFFICES ASSUME StoredInv PROVE Calibration!StoredExactly
    BY DEF CalibrationStoredExactly
  <1>0. ASSUME job = "scale", ee[1][1] # 0 PROVE scale <= ee[1][2] + 6
    BY <1>0 DEF StoredInv
  <1>1. ASSUME cpc = "done", job = "offset", Meant(ee) \in -2^15..(2^15 - 1) PROVE out = <<Meant(ee)>>
    <2>1. ee \in OffsetFields /\ out = <<Calibration!PixelOffset(ee)>>
      BY <1>1 DEF StoredInv
    <2>2. \A x : x \in -2^15..(2^15 - 1) => -32768 <= x /\ x <= 32767
      BY SMT
    <2>3. -32768 <= Meant(ee) /\ Meant(ee) <= 32767
      BY <1>1, <2>2
    <2> QED
      BY <2>1, <2>3, OffsetExact
  <1>2. ASSUME cpc = "done", job = "scale"
        PROVE  /\ ee[1][1] # 0 /\ Calibration!Abs(out[1]) >= 63
               /\ 2 * Calibration!Abs(ee[1][1]) < 255 * Two(ee[1][2]) =>
                      \A i \in 1..2 : out[i] \in -128..127
               /\ 2 * Calibration!Abs(out[1] * Two(ee[1][2]) - ee[1][1] * Two(scale))
                      <= Two(ee[1][2])
               /\ 2 * Calibration!Abs(out[2] * Two(ee[1][2]) - ee[2] * Two(scale))
                      <= Two(ee[1][2])
    <2> DEFINE n == ee[1][1]
               m == ee[2]
               A == Calibration!Abs(n)
               B == Calibration!Abs(m)
               Q == Two(ee[1][2])
               S == Two(scale)
    <2>1. n # 0 /\ n \in Int /\ m \in Int /\ A \in Nat \ {0} /\ B \in Nat /\ B <= A
      <3>1. n # 0 /\ n \in Int /\ m \in Int
        BY <1>2, CoefficientTypes DEF StoredInv
      <3> QED
        BY <1>2, <3>1, AbsIs DEF StoredInv
    <2>2. S \in Nat \ {0} /\ Q \in Nat \ {0} /\ (scale = 0 => S = 1)
      <3>1. scale \in 0..29 /\ ee[1][2] \in 0..29
        BY <1>2, <2>1, CoefficientTypes DEF StoredInv
      <3> QED
        BY <3>1, Doubled, TwoToNone
    <2>3. temp = A * S /\ (scale # 0 => 10 * temp < 1268 * Q)
      BY <1>2, <2>1 DEF StoredInv
    <2>4. ~(10 * temp < 634 * Q)
      BY <1>2 DEF StoredInv, Calibration!Small, Calibration!Power, Two
    <2>5. out[1] = Nearby(n, S, Q) /\ out[2] = Nearby(m, S, Q)
      BY <1>2, RoundedIs DEF StoredInv
    <2>6. A * S \in Nat /\ B * S \in Nat /\ B * S <= A * S
      <3> HIDE DEF A, B, S
      <3> QED
        BY <2>1, <2>2
    <2>7. 634 * Q <= 10 * (A * S)
      <3> HIDE DEF A, S, Q
      <3> QED
        BY <2>2, <2>3, <2>4, <2>6
    <2>8. 2 * A < 255 * Q => 2 * (A * S) < 255 * Q /\ 2 * (B * S) < 255 * Q
      <3> HIDE DEF A, B, S, Q
      <3>1. CASE scale = 0
        <4>1. A * S = A
          BY <3>1, <2>1, <2>2
        <4> QED
          BY <4>1, <2>1, <2>2, <2>6
      <3>2. CASE scale # 0
        <4> DEFINE X == A * S
                   Y == B * S
        <4>1. X \in Nat /\ Y \in Nat /\ Y <= X /\ 10 * X < 1268 * Q
          BY <3>2, <2>2, <2>3, <2>6
        <4> HIDE DEF X, Y
        <4>2. 2 * X < 255 * Q /\ 2 * Y < 255 * Q
          BY <4>1, <2>2
        <4> QED
          BY <4>2 DEF X, Y
      <3> QED
        BY <3>1, <3>2
    <2>9. /\ 2 * Calibration!Abs(out[1] * Q - n * S) <= Q
          /\ Calibration!Abs(out[1]) >= 63
          /\ 2 * (A * S) < 255 * Q => out[1] \in -128..127
      <3> HIDE DEF n, S, Q
      <3> QED
        BY <2>1, <2>2, <2>5, <2>7, Nearest
    <2>10. /\ 2 * Calibration!Abs(out[2] * Q - m * S) <= Q
           /\ 2 * (B * S) < 255 * Q => out[2] \in -128..127
      <3> HIDE DEF m, S, Q
      <3> QED
        BY <2>1, <2>2, <2>5, Nearest
    <2> QED
      BY <2>1, <2>8, <2>9, <2>10
  <1> QED
    BY <1>0, <1>1, <1>2 DEF Calibration!StoredExactly, Calibration!Power, Meant, Two

\* For any EEPROM: a pixel's offset is what its signed fields add up to whenever that fits in
\* 16 bits, whatever overflows on the way; the coefficients are the nearest whole numbers
\* over a common power of two that gives the largest six bits, and fit in 8 bits as long as
\* it was below 127.5.  The loop takes six turns at most above that power, unless all
\* coefficients are zero.
THEOREM StoredIsExact == Spec => []CalibrationStoredExactly
  BY StoredInit, StoredStep, StoredMeans, PTL DEF Spec

-----------------------------------------------------------------------------
(* The lifecycles: the theorems of DriverLifecycleProofs, of this state *)

LP == INSTANCE DriverLifecycleProofs WITH bound <- isBound

\* The two instances have the same tables, ...
LEMMA SameTables ==
    /\ LP!Driver = Lifecycle!Driver /\ LP!Drivers = Lifecycle!Drivers
    /\ LP!Exposed = Lifecycle!Exposed /\ LP!Mishandled = Lifecycle!Mishandled
    /\ LP!Overlooked = Lifecycle!Overlooked
  <1>1. LP!Driver = Lifecycle!Driver
    BY Zenon DEF LP!Always, Lifecycle!Always, LP!Bluetooth, Lifecycle!Bluetooth, LP!Call,
           Lifecycle!Call, LP!Camera, Lifecycle!Camera, LP!Check, Lifecycle!Check,
           LP!ClassExit, Lifecycle!ClassExit, LP!ClassInit, Lifecycle!ClassInit, LP!Driver,
           Lifecycle!Driver, LP!Entry, Lifecycle!Entry, LP!Example2I2c, Lifecycle!Example2I2c,
           LP!ExampleI2c, Lifecycle!ExampleI2c, LP!ExampleRegmap, Lifecycle!ExampleRegmap,
           LP!Get, Lifecycle!Get, LP!GetOr, Lifecycle!GetOr, LP!GpioInput,
           Lifecycle!GpioInput, LP!GpioIrq, Lifecycle!GpioIrq, LP!GpioIrqRemove,
           Lifecycle!GpioIrqRemove, LP!Kfree, Lifecycle!Kfree, LP!Kthread, Lifecycle!Kthread,
           LP!LidarI2c, Lifecycle!LidarI2c, LP!LidarI2cRemove, Lifecycle!LidarI2cRemove,
           LP!LidarSerial, Lifecycle!LidarSerial, LP!Managed, Lifecycle!Managed, LP!Mlx90640,
           Lifecycle!Mlx90640, LP!ModuleExit, Lifecycle!ModuleExit, LP!ModuleInit,
           Lifecycle!ModuleInit, LP!Needs, Lifecycle!Needs, LP!Ov7670, Lifecycle!Ov7670,
           LP!Put, Lifecycle!Put, LP!Pwm, Lifecycle!Pwm, LP!PwmSysfs, Lifecycle!PwmSysfs,
           LP!PwmWorkqueue, Lifecycle!PwmWorkqueue, LP!Unchecked, Lifecycle!Unchecked,
           LP!Unregister, Lifecycle!Unregister, LP!Use, Lifecycle!Use
  <1>2. LP!Exposed = Lifecycle!Exposed
    BY Zenon DEF LP!Ending, Lifecycle!Ending, LP!Exposed, Lifecycle!Exposed, LP!Phases,
           Lifecycle!Phases, LP!Unbound, Lifecycle!Unbound
  <1>3. LP!Mishandled = Lifecycle!Mishandled
    BY Zenon DEF LP!Mishandled, Lifecycle!Mishandled, LP!Releasing, Lifecycle!Releasing
  <1>4. LP!Drivers = Lifecycle!Drivers
    BY <1>1 DEF LP!Drivers, Lifecycle!Drivers
  <1>5. LP!Overlooked = Lifecycle!Overlooked
    BY Zenon DEF LP!Overlooked, Lifecycle!Overlooked
  <1> QED
    BY <1>1, <1>2, <1>3, <1>4, <1>5

LEMMA SameCalls ==
    /\ \A x : LP!Put(x) = Lifecycle!Put(x)
    /\ LP!Unwinding = Lifecycle!Unwinding
  <1>1. \A x : LP!Put(x) = Lifecycle!Put(x)
    BY Zenon DEF LP!Put, Lifecycle!Put, LP!Call, Lifecycle!Call
  <1>2. LP!Unwinding = Lifecycle!Unwinding
    BY <1>1, Zenon DEF LP!Unwinding, Lifecycle!Unwinding, LP!Reverse, Lifecycle!Reverse
  <1> QED
    BY <1>1, <1>2

\* ... the same steps ...
LEMMA SameSteps ==
    /\ Lifecycle!Init => LP!Init
    /\ Lifecycle!Next => LP!Next
  <1>1. Lifecycle!Init => LP!Init
    BY SameTables DEF LP!Init, Lifecycle!Init, LP!This, Lifecycle!This
  <1>2. Lifecycle!Step => LP!Step
    BY SameTables, SameCalls, Zenon
       DEF LP!Acquire, Lifecycle!Acquire, LP!Cancel, Lifecycle!Cancel, LP!Fail,
           Lifecycle!Fail, LP!FailWithSuccess, Lifecycle!FailWithSuccess, LP!Ignore,
           Lifecycle!Ignore, LP!KfreeCall, Lifecycle!KfreeCall, LP!Misuse, Lifecycle!Misuse,
           LP!Named, Lifecycle!Named, LP!Pass, Lifecycle!Pass, LP!Release, Lifecycle!Release,
           LP!Released, Lifecycle!Released, LP!Step, Lifecycle!Step, LP!This, Lifecycle!This,
           LP!UnregisterDriver, Lifecycle!UnregisterDriver, LP!UseCall, Lifecycle!UseCall
  <1>3. Lifecycle!Return => LP!Return
    BY DEF LP!Return, Lifecycle!Return
  <1>4. (Lifecycle!Bind => LP!Bind) /\ (Lifecycle!Unbind => LP!Unbind)
        /\ (Lifecycle!Unload => LP!Unload)
    BY SameTables, SameCalls
       DEF LP!Begin, Lifecycle!Begin, LP!Bind, Lifecycle!Bind, LP!This, Lifecycle!This,
           LP!Unbind, Lifecycle!Unbind, LP!Unload, Lifecycle!Unload
  <1>5. (Lifecycle!Queue => LP!Queue) /\ (Lifecycle!WorkDone => LP!WorkDone)
    BY DEF LP!Queue, Lifecycle!Queue, LP!WorkDone, Lifecycle!WorkDone
  <1> QED
    BY <1>1, <1>2, <1>3, <1>4, <1>5 DEF LP!Next, Lifecycle!Next

\* ... and the same properties.
LEMMA SameProperties ==
    /\ LP!EntriesBacked => Lifecycle!EntriesBacked
    /\ LP!ReleasedOnce => Lifecycle!ReleasedOnce
  <1>1. LP!EntriesBacked => Lifecycle!EntriesBacked
    BY SameTables
       DEF LP!EntriesBacked, Lifecycle!EntriesBacked, LP!Live, Lifecycle!Live, LP!Overlooks,
           Lifecycle!Overlooks, LP!This, Lifecycle!This
  <1>2. LP!ReleasedOnce => Lifecycle!ReleasedOnce
    BY SameTables DEF LP!Overlooks, Lifecycle!Overlooks, LP!ReleasedOnce, Lifecycle!ReleasedOnce
  <1> QED
    BY <1>1, <1>2

LEMMA LifecycleSpec == Spec => LP!Spec
  <1>1. Init => LP!Init
    BY SameSteps DEF Init
  <1>2. [Next]_vars => [LP!Next]_(LP!vars)
    <2> SUFFICES ASSUME [Next]_vars PROVE LP!Next \/ UNCHANGED LP!vars
      OBVIOUS
    <2>1. CASE Lifecycle_Step
      BY <2>1, SameSteps DEF Lifecycle_Step
    <2>2. CASE UNCHANGED lifecycleVars
      BY <2>2 DEF lifecycleVars, LP!vars
    <2> QED
      BY <2>1, <2>2 DEF Next, vars, Pwm_Step, Sysfs_Step, Gpio_Step, Lidar_Step, Serial_Step,
         Display_Step, Calibration_Step, Image_Step
  <1> QED
    BY <1>1, <1>2, PTL DEF Spec, LP!Spec

\* No entry of a driver (character device, attribute, interrupt, thread, work item) runs
\* without its code and the resources it uses, but for the exceptions of the table
\* Lifecycle!Exposed and for what the driver went on without (Lifecycle!Overlooked), which
\* nothing has taken from it since: in init, probe, remove and exit of every driver, whichever
\* call fails, those that nobody looks at included.
THEOREM LifecycleBacked == Spec => []EntriesBacked
  <1>1. LP!EntriesBacked => EntriesBacked
    BY SameProperties DEF EntriesBacked
  <1> QED
    BY <1>1, LifecycleSpec, LP!LifecycleBacked, PTL

\* No driver gives back, frees or uses what it does not have, nor frees twice, but for the
\* exceptions of the table Lifecycle!Mishandled and for what it went on without
\* (Lifecycle!Overlooked), which it gives back as if it were there, but once: in init, probe,
\* remove and exit of every driver, whichever call fails.
THEOREM LifecycleOnce == Spec => []ReleasedOnce
  <1>1. LP!ReleasedOnce => ReleasedOnce
    BY SameProperties DEF ReleasedOnce
  <1> QED
    BY <1>1, LifecycleSpec, LP!LifecycleOnce, PTL
=============================================================================
