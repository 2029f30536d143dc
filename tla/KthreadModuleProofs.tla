------------------------ MODULE KthreadModuleProofs ------------------------
(***************************************************************************)
(* What the kthread module keeps whatever the number of programs, the      *)
(* length of their signal queues and the number of passes.                 *)
(***************************************************************************)
EXTENDS KthreadModule, FiniteSetTheorems, TLAPS

\* The page has two halves.
LEMMA HalvesCount == Cardinality(Halves) = 2
<1>1. IsFiniteSet({1}) /\ Cardinality({1}) = 1
  BY FS_Singleton, Zenon
<1>2. Cardinality({1} \cup {2}) = IF 2 \in {1} THEN Cardinality({1}) ELSE Cardinality({1}) + 1
  BY <1>1, FS_AddElement, Zenon
<1>3. Halves = {1} \cup {2}
  BY SMT DEF Halves
<1>4. 2 \notin {1}
  BY SMT
<1> QED
  BY <1>1, <1>2, <1>3, <1>4, SMT

\* Every variable keeps its type: sends respect the queue's bound, and a handler copies
\* the page's two halves and no more.
THEOREM TypeCorrect == Spec => []TypeOK
<1>1. Init => TypeOK
  <2> SUFFICES ASSUME Init PROVE TypeOK
    OBVIOUS
  <2>1. seen = [a \in Apps |-> <<>>] /\ sigq = [a \in Apps |-> <<>>]
    BY Zenon DEF Init
  <2>2. <<>> \in Seq(0..MaxPass) /\ Len(<<>>) = 0
    BY SMT
  <2>3. seen \in [Apps -> Seq(0..MaxPass)] /\ sigq \in [Apps -> Seq(0..MaxPass)]
    BY <2>1, <2>2, Zenon
  <2>4. \A a \in Apps : Len(seen[a]) <= Cardinality(Halves)
    BY <2>1, <2>2, HalvesCount, SMT
  <2>5. page \in [Halves -> 0..MaxPass] /\ pass \in 0..MaxPass /\ cur \in [Apps -> 0..MaxPass]
    BY KthreadAssumption, SMT DEF Init
  <2>6. pcA \in [Apps -> Alive \cup {"start", "dead"}]
    BY SMT DEF Init
  <2>7. flag \in BOOLEAN /\ task \in Apps \cup {NoTask} /\ stopF \in BOOLEAN /\ stopW \in BOOLEAN
    BY Zenon DEF Init
  <2>8. /\ turn \in 0..2 /\ pcF \in {"top", "exited"}
        /\ pcW \in {"top", "wait", "fill1", "fill2", "test", "send", "reset", "exited", "oops"}
        /\ pcX \in {"loaded", "join_1", "join_2", "unloaded"}
    BY SMT DEF Init
  <2> QED
    BY <2>3, <2>4, <2>5, <2>6, <2>7, <2>8, Zenon DEF TypeOK
<1>2. TypeOK /\ [Next]_vars => TypeOK'
  <2> SUFFICES ASSUME TypeOK, [Next]_vars PROVE TypeOK'
    OBVIOUS
  <2> USE KthreadAssumption, HalvesCount DEF TypeOK, modVars, exitVars, appVars
  <2>1. CASE FunctionTurn
    BY <2>1 DEF FunctionTurn
  <2>2. CASE FunctionExit
    BY <2>2 DEF FunctionExit
  <2>3. CASE WaitTop
    BY <2>3 DEF WaitTop
  <2>4. CASE WaitWake
    BY <2>4 DEF WaitWake
  <2>5. CASE WaitFill
    BY <2>5 DEF WaitFill, Halves
  <2>6. CASE WaitTest
    BY <2>6 DEF WaitTest
  <2>7. CASE WaitSend
    <3>1. CASE task \in Apps
      <4>1. Append(sigq[task], pass) \in Seq(0..MaxPass)
        BY <3>1, SMT
      <4>2. [sigq EXCEPT ![task] = Append(@, pass)] \in [Apps -> Seq(0..MaxPass)]
        BY <3>1, <4>1
      <4>3. sigq' \in [Apps -> Seq(0..MaxPass)]
        BY <2>7, <3>1, <4>2 DEF WaitSend
      <4> QED
        BY <2>7, <4>3 DEF WaitSend
    <3>2. CASE task = NoTask
      BY <2>7, <3>2 DEF WaitSend
    <3> QED
      BY <3>1, <3>2
  <2>8. CASE WaitReset
    BY <2>8 DEF WaitReset
  <2>9. ASSUME NEW a \in Apps, AppOpen(a) \/ AppRegister(a) PROVE TypeOK'
    <3>1. CASE AppOpen(a)
      BY <3>1 DEF AppOpen, Alive
    <3>2. CASE AppRegister(a)
      BY <3>2 DEF AppRegister, Alive
    <3> QED
      BY <2>9, <3>1, <3>2
  <2>10. ASSUME NEW a \in Apps, AppHandle(a) PROVE TypeOK'
    <3>1. sigq[a] \in Seq(0..MaxPass) /\ sigq[a] # <<>>
      BY <2>10 DEF AppHandle
    <3>2. Head(sigq[a]) \in 0..MaxPass /\ Tail(sigq[a]) \in Seq(0..MaxPass)
      BY <3>1, SMT
    <3>3. seen' \in [Apps -> Seq(0..MaxPass)] /\ \A b \in Apps : Len(seen'[b]) <= 2
      BY <2>10 DEF AppHandle
    <3> QED
      BY <2>10, <3>2, <3>3 DEF AppHandle, Alive
  <2>11. ASSUME NEW a \in Apps, AppCopy(a) PROVE TypeOK'
    <3>1. CASE Len(seen[a]) < 2
      <4>0. seen[a] \in Seq(0..MaxPass) /\ Len(seen[a]) \in Nat
        OBVIOUS
      <4>1. Len(seen[a]) + 1 \in Halves
        BY <3>1, <4>0, SMT DEF Halves
      <4>2. Append(seen[a], page[Len(seen[a]) + 1]) \in Seq(0..MaxPass)
        BY <4>1, SMT
      <4>3. Len(Append(seen[a], page[Len(seen[a]) + 1])) <= 2
        BY <3>1, <4>1, SMT
      <4>4. seen' = [seen EXCEPT ![a] = Append(@, page[Len(@) + 1])] /\ pcA' = pcA
        BY <2>11, <3>1, HalvesCount DEF AppCopy
      <4>5. seen' \in [Apps -> Seq(0..MaxPass)] /\ \A b \in Apps : Len(seen'[b]) <= 2
        BY <4>2, <4>3, <4>4
      <4> QED
        BY <2>11, <4>4, <4>5 DEF AppCopy
    <3>2. CASE ~(Len(seen[a]) < 2)
      BY <2>11, <3>2 DEF AppCopy, Alive
    <3> QED
      BY <3>1, <3>2
  <2>12. ASSUME NEW a \in Apps, AppKilled(a) PROVE TypeOK'
    BY <2>12 DEF AppKilled, Alive
  <2>13. CASE CleanupBegin \/ CleanupSecond \/ CleanupEnd
    <3>1. CASE CleanupBegin
      BY <3>1 DEF CleanupBegin
    <3>2. CASE CleanupSecond
      BY <3>2 DEF CleanupSecond
    <3>3. CASE CleanupEnd
      BY <3>3 DEF CleanupEnd
    <3> QED
      BY <2>13, <3>1, <3>2, <3>3
  <2>14. CASE UNCHANGED vars
    BY <2>14 DEF vars
  <2> QED
    BY <2>1, <2>2, <2>3, <2>4, <2>5, <2>6, <2>7, <2>8, <2>9, <2>10, <2>11, <2>12, <2>13, <2>14
       DEF Next, WaitThread, AppRuns
<1> QED
  BY <1>1, <1>2, PTL DEF Spec

-----------------------------------------------------------------------------
(* The registered task *)

\* The registered task is alive, for any number of programs that register over each other
\* and die in any order: etx_release clears task only for its own program, and always then.
THEOREM RegistrationEndsWithProgram == Spec => []RegisteredAlive
<1>1. Init => RegisteredAlive
  BY DEF Init, RegisteredAlive
<1>2. TypeOK /\ RegisteredAlive /\ [Next]_vars => RegisteredAlive'
  <2> SUFFICES ASSUME TypeOK, RegisteredAlive, [Next]_vars PROVE RegisteredAlive'
    OBVIOUS
  <2> USE DEF RegisteredAlive, modVars, exitVars, appVars
  <2>1. CASE UNCHANGED <<task, pcA>>
    BY <2>1 DEF Alive
  <2>2. ASSUME NEW a \in Apps, AppOpen(a) PROVE RegisteredAlive'
    BY <2>2 DEF AppOpen, Alive, TypeOK
  <2>3. ASSUME NEW a \in Apps, AppRegister(a) PROVE RegisteredAlive'
    BY <2>3 DEF AppRegister, Alive, TypeOK
  <2>4. ASSUME NEW a \in Apps, AppRuns(a) PROVE RegisteredAlive'
    BY <2>4 DEF AppRuns, AppHandle, AppCopy, Alive, TypeOK
  <2>5. ASSUME NEW a \in Apps, AppKilled(a) PROVE RegisteredAlive'
    BY <2>5 DEF AppKilled, Alive, TypeOK
  <2>6. CASE FunctionTurn \/ FunctionExit
    BY <2>1, <2>6 DEF FunctionTurn, FunctionExit
  <2>7. CASE WaitThread
    BY <2>1, <2>7 DEF WaitThread, WaitTop, WaitWake, WaitFill, WaitTest, WaitSend, WaitReset
  <2>8. CASE CleanupBegin \/ CleanupSecond \/ CleanupEnd
    BY <2>1, <2>8 DEF CleanupBegin, CleanupSecond, CleanupEnd
  <2>9. CASE UNCHANGED vars
    BY <2>1, <2>9 DEF vars
  <2> QED
    BY <2>2, <2>3, <2>4, <2>5, <2>6, <2>7, <2>8, <2>9 DEF Next
<1> QED
  BY <1>1, <1>2, TypeCorrect, PTL DEF Spec

-----------------------------------------------------------------------------
(* The page and its signals *)

\* thread_wait sends a pass only once both halves of the page are of that pass.
PageFilled ==
    /\ \A h \in Halves : page[h] <= pass
    /\ pcW = "fill2" => page[1] = pass
    /\ pcW \in {"test", "send"} => \A h \in Halves : page[h] = pass

\* No half of the page is older than a signal that is pending or being handled.
PageKeepsUp ==
    \A a \in Apps : \A h \in Halves :
        /\ cur[a] <= page[h]
        /\ \A i \in 1..Len(sigq[a]) : sigq[a][i] <= page[h]

CopyInv == PageFilled /\ PageKeepsUp /\ CopyNotOlderThanSignal

\* Steps that touch neither the page nor a program.
LEMMA CopyInvUntouched ==
    ASSUME CopyInv, UNCHANGED <<page, pass, sigq, cur, seen>>,
           pcW' = pcW \/ pcW' \notin {"fill2", "test", "send"} \/ (pcW = "test" /\ pcW' = "send")
    PROVE  CopyInv'
  BY SMT DEF CopyInv, PageFilled, PageKeepsUp, CopyNotOlderThanSignal

LEMMA CopyInvariant == Spec => []CopyInv
<1>1. Init => CopyInv
  BY KthreadAssumption, SMT DEF Init, CopyInv, PageFilled, PageKeepsUp, CopyNotOlderThanSignal
<1>2. TypeOK /\ TypeOK' /\ CopyInv /\ [Next]_vars => CopyInv'
  <2> SUFFICES ASSUME TypeOK, TypeOK', CopyInv, [Next]_vars PROVE CopyInv'
    OBVIOUS
  <2> USE DEF modVars, exitVars, appVars
  <2>1. CASE WaitFill
    <3>1. \A h \in Halves : page[h] <= page'[h] /\ page'[h] <= pass
      BY <2>1, SMT DEF WaitFill, CopyInv, PageFilled, TypeOK, Halves
    <3>2. PageFilled'
      BY <2>1, <3>1, SMT DEF WaitFill, CopyInv, PageFilled, TypeOK, Halves
    <3>3. PageKeepsUp'
      <4> SUFFICES ASSUME NEW a \in Apps, NEW h \in Halves
                   PROVE  cur[a] <= page'[h] /\ \A i \in 1..Len(sigq[a]) : sigq[a][i] <= page'[h]
        BY <2>1 DEF WaitFill, PageKeepsUp
      <4>1. cur[a] <= page[h] /\ \A i \in 1..Len(sigq[a]) : sigq[a][i] <= page[h]
        BY DEF CopyInv, PageKeepsUp
      <4>2. cur[a] \in Int /\ page[h] \in Int /\ page'[h] \in Int /\ sigq[a] \in Seq(0..MaxPass)
        BY KthreadAssumption DEF TypeOK
      <4>3. \A i \in 1..Len(sigq[a]) : sigq[a][i] \in Int
        BY <4>2, KthreadAssumption, SMT
      <4> QED
        BY <3>1, <4>1, <4>2, <4>3, SMT
    <3> QED
      BY <2>1, <3>2, <3>3 DEF WaitFill, CopyInv, CopyNotOlderThanSignal
  <2>2. CASE WaitWake
    BY <2>2, SMT DEF WaitWake, CopyInv, PageFilled, PageKeepsUp, CopyNotOlderThanSignal, TypeOK
  <2>3. CASE WaitSend
    <3>1. ASSUME NEW a \in Apps, NEW h \in Halves, NEW i \in 1..Len(sigq'[a])
          PROVE  sigq'[a][i] <= page[h]
      <4>1. page[h] = pass /\ \A j \in 1..Len(sigq[a]) : sigq[a][j] <= page[h]
        <5>1. pcW = "send" /\ page' = page
          BY <2>3 DEF WaitSend
        <5>2. page[h] = pass
          BY <5>1 DEF CopyInv, PageFilled
        <5> QED
          BY <5>2 DEF CopyInv, PageKeepsUp
      <4>2. CASE sigq'[a] = sigq[a]
        BY <3>1, <4>1, <4>2
      <4>3. CASE sigq'[a] = Append(sigq[a], pass)
        <5> DEFINE longer == Append(sigq[a], pass)
        <5>1. sigq[a] \in Seq(0..MaxPass) /\ pass \in 0..MaxPass
          BY DEF TypeOK
        <5>2. \A j \in 1..Len(longer) :
                 longer[j] = pass \/ (j \in 1..Len(sigq[a]) /\ longer[j] = sigq[a][j])
          BY <5>1, SMT
        <5> HIDE DEF longer
        <5>3. sigq'[a] = longer
          BY <4>3 DEF longer
        <5>4. longer[i] = pass \/ longer[i] <= page[h]
          BY <3>1, <4>1, <5>2, <5>3
        <5>5. pass <= page[h]
          BY <4>1, <5>1, KthreadAssumption, SMT
        <5> QED
          BY <5>3, <5>4, <5>5
      <4> QED
        BY <2>3, <4>2, <4>3, SMT DEF WaitSend, TypeOK
    <3> QED
      BY <2>3, <3>1, SMT DEF WaitSend, CopyInv, PageFilled, PageKeepsUp, CopyNotOlderThanSignal
  <2>4. CASE WaitTop \/ WaitTest \/ WaitReset
    BY <2>4, CopyInvUntouched DEF WaitTop, WaitTest, WaitReset
  <2>5. ASSUME NEW a \in Apps, AppHandle(a) PROVE CopyInv'
    <3>1. sigq[a] \in Seq(0..MaxPass) /\ sigq[a] # <<>>
      BY <2>5 DEF AppHandle, TypeOK
    <3>2. \A h \in Halves : Head(sigq[a]) <= page[h]
      BY <3>1, SMT DEF CopyInv, PageKeepsUp
    <3>3. \A h \in Halves : \A i \in 1..Len(Tail(sigq[a])) : Tail(sigq[a])[i] <= page[h]
      <4>1. \A i \in 1..Len(Tail(sigq[a])) :
               Tail(sigq[a])[i] = sigq[a][i + 1] /\ i + 1 \in 1..Len(sigq[a])
        BY <3>1, SMT
      <4> QED
        BY <4>1 DEF CopyInv, PageKeepsUp
    <3>4. PageKeepsUp'
      BY <2>5, <3>2, <3>3, SMT DEF AppHandle, CopyInv, PageKeepsUp, TypeOK
    <3>5. CopyNotOlderThanSignal'
      BY <2>5, SMT DEF AppHandle, CopyInv, CopyNotOlderThanSignal, TypeOK
    <3> QED
      BY <2>5, <3>4, <3>5 DEF AppHandle, CopyInv, PageFilled
  <2>6. ASSUME NEW a \in Apps, AppCopy(a) PROVE CopyInv'
    <3>1. CASE Len(seen[a]) < 2
      <4>1. Len(seen[a]) + 1 \in Halves /\ seen[a] \in Seq(0..MaxPass)
        <5>1. seen[a] \in Seq(0..MaxPass)
          BY DEF TypeOK
        <5>2. Len(seen[a]) \in Nat
          BY <5>1, SMT
        <5> QED
          BY <3>1, <5>1, <5>2, SMT DEF Halves
      <4>2. page[Len(seen[a]) + 1] \in 0..MaxPass /\ cur[a] <= page[Len(seen[a]) + 1]
        BY <4>1, SMT DEF CopyInv, PageKeepsUp, TypeOK
      <4>3. seen' = [seen EXCEPT ![a] = Append(@, page[Len(@) + 1])]
        BY <2>6, <3>1, HalvesCount DEF AppCopy
      <4> DEFINE copied == page[Len(seen[a]) + 1]
      <4>4. copied \in 0..MaxPass
        BY <4>2
      <4> HIDE DEF copied
      <4>5. \A i \in 1..Len(Append(seen[a], copied)) :
               \/ i \in 1..Len(seen[a]) /\ Append(seen[a], copied)[i] = seen[a][i]
               \/ Append(seen[a], copied)[i] = copied
        BY <4>1, <4>4, SMT
      <4>6. \A i \in 1..Len(Append(seen[a], copied)) : Append(seen[a], copied)[i] >= cur[a]
        <5>1. copied >= cur[a]
          BY <4>2, KthreadAssumption, SMT DEF copied, TypeOK
        <5>2. \A i \in 1..Len(seen[a]) : seen[a][i] >= cur[a]
          BY DEF CopyInv, CopyNotOlderThanSignal
        <5> QED
          BY <4>5, <5>1, <5>2
      <4>7. \A b \in Apps : seen'[b] = IF b = a THEN Append(seen[a], copied) ELSE seen[b]
        BY <4>3 DEF copied, TypeOK
      <4>8. CopyNotOlderThanSignal'
        BY <2>6, <4>6, <4>7 DEF AppCopy, CopyInv, CopyNotOlderThanSignal
      <4> QED
        BY <2>6, <4>8 DEF AppCopy, CopyInv, PageFilled, PageKeepsUp
    <3>2. CASE ~(Len(seen[a]) < 2)
      BY <2>6, <3>2, HalvesCount, CopyInvUntouched DEF AppCopy
    <3> QED
      BY <3>1, <3>2
  <2>7. ASSUME NEW a \in Apps, AppOpen(a) \/ AppRegister(a) PROVE CopyInv'
    BY <2>7, CopyInvUntouched DEF AppOpen, AppRegister
  <2>8. ASSUME NEW a \in Apps, AppKilled(a) PROVE CopyInv'
    <3>1. \A b \in Apps : sigq'[b] = sigq[b] \/ sigq'[b] = <<>>
      BY <2>8, SMT DEF AppKilled, TypeOK
    <3> QED
      BY <2>8, <3>1, SMT DEF AppKilled, CopyInv, PageFilled, PageKeepsUp, CopyNotOlderThanSignal
  <2>9. CASE FunctionTurn \/ FunctionExit \/ CleanupBegin \/ CleanupSecond \/ CleanupEnd
    BY <2>9, CopyInvUntouched DEF FunctionTurn, FunctionExit, CleanupBegin, CleanupSecond, CleanupEnd
  <2>10. CASE UNCHANGED vars
    BY <2>10, CopyInvUntouched DEF vars
  <2> QED
    BY <2>1, <2>2, <2>3, <2>4, <2>5, <2>6, <2>7, <2>8, <2>9, <2>10 DEF Next, WaitThread, AppRuns
<1> QED
  BY <1>1, <1>2, TypeCorrect, PTL DEF Spec

\* The page is not locked, and the handler may copy it while later passes refill it; still
\* nothing it copies is older than the pass its signal announced, whatever the number of
\* programs and the length of their queues.
THEOREM CopiesFollowSignals == Spec => []CopyNotOlderThanSignal
<1>1. CopyInv => CopyNotOlderThanSignal
  BY DEF CopyInv
<1> QED
  BY <1>1, CopyInvariant, PTL

-----------------------------------------------------------------------------
(* The channel *)

chanVars == <<pass, Reached, PassUnderWay, task, Dead, sigq, Handling, cur, seen>>

LEMMA ChannelInit == Init => Channel!Init
<1> SUFFICES ASSUME Init PROVE Channel!Init
  OBVIOUS
<1>1. Reached = {0}
  BY KthreadAssumption, SMT DEF Init, Reached, Halves
<1>2. PassUnderWay = FALSE /\ Dead = {} /\ Handling = {}
  BY DEF Init, PassUnderWay, Dead, Handling
<1> QED
  BY <1>1, <1>2 DEF Init, Channel!Init

\* A step is seen if it touches the page, a signal, the registration or a program.
LEMMA Unseen ==
    ASSUME UNCHANGED <<pass, page, task, pcA, sigq, cur, seen>>, PassUnderWay' = PassUnderWay
    PROVE  UNCHANGED chanVars
  BY DEF chanVars, Reached, Dead, Handling

\* The wake-up begins a pass.
LEMMA WakeBegins == TypeOK /\ WaitWake => Channel!Begin
<1> SUFFICES ASSUME TypeOK, WaitWake PROVE Channel!Begin
  OBVIOUS
<1>1. PassUnderWay = FALSE /\ PassUnderWay' = TRUE
  BY DEF WaitWake, PassUnderWay
<1>2. UNCHANGED <<Reached, Dead, Handling, task, sigq, cur, seen>>
  BY DEF WaitWake, Reached, Dead, Handling, appVars
<1>3. pass' \in {pass, pass + 1}
  BY DEF WaitWake
<1> QED
  BY <1>1, <1>2, <1>3 DEF Channel!Begin

\* Either half filled makes the page newer.
LEMMA FillRenews ==
    ASSUME TypeOK, TypeOK', CopyInv, WaitFill
    PROVE  Channel!Renew
<1>1. PassUnderWay = TRUE /\ PassUnderWay' = TRUE
  BY DEF WaitFill, PassUnderWay
<1>2. UNCHANGED <<pass, Dead, Handling, task, sigq, cur, seen>>
  BY DEF WaitFill, Dead, Handling, appVars
<1>3. \A h \in Halves : page[h] \in 0..MaxPass /\ page'[h] \in 0..MaxPass
  BY DEF TypeOK
<1>4. \A h \in Halves : page[h] <= page'[h] /\ page'[h] <= pass
  BY SMT DEF WaitFill, CopyInv, PageFilled, TypeOK, Halves
<1>5. Reached \subseteq Reached'
  BY <1>3, <1>4, KthreadAssumption, SMT DEF Reached
<1>6. Reached' \subseteq 0..pass
  <2> SUFFICES ASSUME NEW p \in 0..MaxPass, \A h \in Halves : page'[h] >= p PROVE p \in 0..pass
    BY DEF Reached
  <2>1. page'[1] >= p /\ page'[1] <= pass /\ page'[1] \in 0..MaxPass
    BY <1>3, <1>4 DEF Halves
  <2> QED
    BY <2>1, KthreadAssumption, SMT DEF TypeOK
<1> QED
  BY <1>1, <1>2, <1>5, <1>6 DEF Channel!Renew

\* Without a task a pass ends and nobody hears of it.
LEMMA TestEnds ==
    ASSUME TypeOK, CopyInv, WaitTest
    PROVE  UNCHANGED chanVars \/ \E v \in Reached : Channel!Announce(v)
<1>1. UNCHANGED <<pass, page, task, pcA, sigq, cur, seen>> /\ pcW = "test"
  BY DEF WaitTest, appVars
<1>2. CASE task = NoTask
  <2>1. PassUnderWay = TRUE /\ PassUnderWay' = FALSE
    BY <1>1, <1>2 DEF WaitTest, PassUnderWay
  <2>2. pass \in Reached
    BY <1>1, KthreadAssumption, SMT DEF CopyInv, PageFilled, Reached, TypeOK
  <2>3. sigq = [a \in Apps |-> sigq[a]]
    BY DEF TypeOK
  <2>4. \A a \in Apps : a # task
    BY <1>2, KthreadAssumption
  <2>5. sigq' = [a \in Apps |-> IF a = task /\ a \notin Dead /\ Len(sigq[a]) < MaxQueue
                                THEN Append(sigq[a], pass) ELSE sigq[a]]
    BY <1>1, <2>3, <2>4
  <2>6. UNCHANGED <<Reached, Dead, Handling>>
    BY <1>1 DEF Reached, Dead, Handling
  <2>7. Channel!Announce(pass)
    BY <1>1, <2>1, <2>2, <2>5, <2>6 DEF Channel!Announce
  <2> QED
    BY <2>2, <2>7
<1>3. CASE task # NoTask
  BY <1>1, <1>3, Unseen DEF WaitTest, PassUnderWay
<1> QED
  BY <1>2, <1>3

\* The whole page has reached the pass that is sent, and the task it is sent to is alive.
LEMMA SendAnnounces ==
    ASSUME TypeOK, CopyInv, RegisteredAlive, WaitSend
    PROVE  Channel!Announce(pass)
<1>1. UNCHANGED <<pass, page, task, pcA, cur, seen>> /\ pcW = "send"
  BY DEF WaitSend, appVars
<1>2. PassUnderWay = TRUE /\ PassUnderWay' = FALSE
  BY DEF WaitSend, PassUnderWay
<1>3. pass \in Reached
  BY <1>1, KthreadAssumption, SMT DEF CopyInv, PageFilled, Reached, TypeOK
<1>4. UNCHANGED <<Reached, Dead, Handling>>
  BY <1>1 DEF Reached, Dead, Handling
<1>5. task # NoTask => task \in Apps /\ task \notin Dead
  BY DEF RegisteredAlive, Alive, Dead, TypeOK
<1>6. sigq = [a \in Apps |-> sigq[a]]
  BY DEF TypeOK
<1>7. sigq' = [a \in Apps |-> IF a = task /\ a \notin Dead /\ Len(sigq[a]) < MaxQueue
                              THEN Append(sigq[a], pass) ELSE sigq[a]]
  <2>1. CASE task = NoTask
    <3>1. sigq' = sigq /\ \A a \in Apps : a # task
      BY <2>1, KthreadAssumption DEF WaitSend
    <3> QED
      BY <3>1, <1>6
  <2>2. CASE task # NoTask /\ Len(sigq[task]) < MaxQueue
    <3>1. sigq' = [sigq EXCEPT ![task] = Append(sigq[task], pass)]
      BY <2>2 DEF WaitSend
    <3> QED
      BY <2>2, <3>1, <1>5, <1>6
  <2>3. CASE task # NoTask /\ ~(Len(sigq[task]) < MaxQueue)
    <3>1. sigq' = sigq
      BY <2>3 DEF WaitSend
    <3> QED
      BY <2>3, <3>1, <1>6
  <2> QED
    BY <2>1, <2>2, <2>3
<1> QED
  BY <1>1, <1>2, <1>3, <1>4, <1>7 DEF Channel!Announce

\* What one program does.
LEMMA ProgramStep ==
    ASSUME TypeOK, TypeOK', CopyInv, NEW a \in Apps,
           AppOpen(a) \/ AppRegister(a) \/ AppRuns(a) \/ AppKilled(a)
    PROVE  UNCHANGED chanVars \/ Channel!Next
<1>0. pcA \in [Apps -> Alive \cup {"start", "dead"}]
  BY DEF TypeOK
<1>1. UNCHANGED <<pass, pcW, page, Reached, PassUnderWay>>
  BY DEF AppOpen, AppRegister, AppRuns, AppHandle, AppCopy, AppKilled, modVars, Reached,
         PassUnderWay
<1>2. CASE AppOpen(a)
  <2>1. UNCHANGED <<task, sigq, cur, seen>> /\ pcA[a] = "start" /\ pcA' = [pcA EXCEPT ![a] = "open"]
    BY <1>2 DEF AppOpen, modVars
  <2>2. UNCHANGED <<Dead, Handling>>
    BY <1>0, <2>1 DEF Dead, Handling
  <2> QED
    BY <1>1, <2>1, <2>2 DEF chanVars
<1>3. CASE AppRegister(a)
  <2>1. /\ UNCHANGED <<sigq, cur, seen>> /\ task' = a
        /\ pcA[a] = "open" /\ pcA' = [pcA EXCEPT ![a] = "spin"]
    BY <1>3 DEF AppRegister
  <2>2. UNCHANGED <<Dead, Handling>> /\ a \notin Dead
    BY <1>0, <2>1 DEF Dead, Handling
  <2>3. Channel!Register(a)
    BY <1>1, <2>1, <2>2 DEF Channel!Register
  <2> QED
    BY <2>3 DEF Channel!Next
<1>4. CASE AppHandle(a)
  <2>1. /\ UNCHANGED task
        /\ pcA[a] = "spin" /\ sigq[a] # <<>> /\ pcA' = [pcA EXCEPT ![a] = "handle"]
        /\ cur' = [cur EXCEPT ![a] = Head(sigq[a])]
        /\ sigq' = [sigq EXCEPT ![a] = Tail(sigq[a])]
        /\ seen' = [seen EXCEPT ![a] = <<>>]
    BY <1>4 DEF AppHandle, modVars
  <2>2. Dead' = Dead /\ Handling' = Handling \cup {a} /\ a \notin Handling
    BY <1>0, <2>1 DEF Dead, Handling
  <2>3. Channel!Enter(a)
    BY <1>1, <2>1, <2>2 DEF Channel!Enter
  <2> QED
    BY <2>3 DEF Channel!Next
<1>5. CASE AppCopy(a)
  <2>1. UNCHANGED <<task, sigq, cur>> /\ pcA[a] = "handle"
    BY <1>5 DEF AppCopy, modVars
  <2>2. a \in Handling
    BY <2>1 DEF Handling
  <2>3. CASE Len(seen[a]) < 2
    <3>1. pcA' = pcA /\ seen' = [seen EXCEPT ![a] = Append(seen[a], page[Len(seen[a]) + 1])]
      BY <1>5, <2>3, HalvesCount DEF AppCopy
    <3>2. Len(seen[a]) + 1 \in Halves
      <4>1. seen[a] \in Seq(0..MaxPass)
        BY DEF TypeOK
      <4>2. Len(seen[a]) \in Nat
        BY <4>1, SMT
      <4> QED
        BY <2>3, <4>2, SMT DEF Halves
    <3> DEFINE x == page[Len(seen[a]) + 1]
    <3>3. x \in 0..pass /\ \A v \in Reached : v <= x
      <4>1. x \in 0..MaxPass /\ x <= pass
        BY <3>2 DEF CopyInv, PageFilled, TypeOK
      <4>2. \A v \in Reached : x >= v /\ v \in Int
        BY <3>2 DEF Reached
      <4> HIDE DEF x
      <4> QED
        BY <4>1, <4>2, KthreadAssumption, SMT DEF TypeOK
    <3>4. UNCHANGED <<Dead, Handling>>
      BY <3>1 DEF Dead, Handling
    <3>5. Channel!Copy(a, x)
      BY <1>1, <2>1, <2>2, <3>1, <3>3, <3>4 DEF Channel!Copy
    <3> QED
      BY <3>3, <3>5 DEF Channel!Next
  <2>4. CASE ~(Len(seen[a]) < 2)
    <3>1. seen' = seen /\ pcA' = [pcA EXCEPT ![a] = "spin"]
      BY <1>5, <2>4, HalvesCount DEF AppCopy
    <3>2. Dead' = Dead /\ Handling' = Handling \ {a}
      BY <1>0, <2>1, <3>1 DEF Dead, Handling
    <3>3. Channel!Leave(a)
      BY <1>1, <2>1, <2>2, <3>1, <3>2 DEF Channel!Leave
    <3> QED
      BY <3>3 DEF Channel!Next
  <2> QED
    BY <2>3, <2>4
<1>6. CASE AppKilled(a)
  <2>1. /\ UNCHANGED <<cur, seen>> /\ pcA[a] \in Alive /\ pcA' = [pcA EXCEPT ![a] = "dead"]
        /\ sigq' = [sigq EXCEPT ![a] = <<>>]
        /\ task' = IF TRUE /\ task = a THEN NoTask ELSE task
    BY <1>6 DEF AppKilled
  <2>2. Dead' = Dead \cup {a} /\ Handling' = Handling \ {a} /\ a \notin Dead
    BY <1>0, <2>1 DEF Dead, Handling, Alive
  <2>3. Channel!Die(a)
    BY <1>1, <2>1, <2>2 DEF Channel!Die
  <2> QED
    BY <2>3 DEF Channel!Next
<1> QED
  BY <1>2, <1>3, <1>4, <1>5, <1>6 DEF AppRuns

\* The module is a channel to its programs, for any set of programs, queue limit and number
\* of passes, though thread_wait fills the page in parts and holds no lock while it does
\* that, tests the task and sends the signal.
THEOREM ChannelImplemented == Spec => ImplementsChannel
<1>1. TypeOK /\ TypeOK' /\ CopyInv /\ RegisteredAlive /\ [Next]_vars => [Channel!Next]_chanVars
  <2> SUFFICES ASSUME TypeOK, TypeOK', CopyInv, RegisteredAlive, [Next]_vars
               PROVE  [Channel!Next]_chanVars
    OBVIOUS
  <2>1. CASE WaitThread
    <3>1. CASE WaitTop \/ WaitReset
      BY <3>1, Unseen DEF WaitTop, WaitReset, PassUnderWay, appVars
    <3>2. CASE WaitWake
      BY <3>2, WakeBegins DEF Channel!Next
    <3>3. CASE WaitFill
      BY <3>3, FillRenews DEF Channel!Next
    <3>4. CASE WaitTest
      BY <3>4, TestEnds DEF Channel!Next
    <3>5. CASE WaitSend
      <4>1. pass \in Reached
        BY <3>5, SendAnnounces DEF Channel!Announce
      <4> QED
        BY <3>5, <4>1, SendAnnounces DEF Channel!Next
    <3> QED
      BY <2>1, <3>1, <3>2, <3>3, <3>4, <3>5 DEF WaitThread
  <2>2. CASE \E a \in Apps : AppOpen(a) \/ AppRegister(a) \/ AppRuns(a) \/ AppKilled(a)
    BY <2>2, ProgramStep
  <2>3. CASE FunctionTurn \/ FunctionExit \/ CleanupBegin \/ CleanupSecond \/ CleanupEnd
    BY <2>3, Unseen DEF FunctionTurn, FunctionExit, CleanupBegin, CleanupSecond, CleanupEnd,
                        PassUnderWay, modVars, appVars
  <2>4. CASE UNCHANGED vars
    BY <2>4, Unseen DEF vars, PassUnderWay, modVars, appVars
  <2> QED
    BY <2>1, <2>2, <2>3, <2>4 DEF Next
<1> QED
  BY ChannelInit, TypeCorrect, CopyInvariant, RegistrationEndsWithProgram, <1>1, PTL
     DEF Spec, ImplementsChannel, Channel!Spec, Channel!vars, chanVars
=============================================================================
