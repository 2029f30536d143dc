----------------------- MODULE CameraReadThreadProofs -----------------------
(***************************************************************************)
(* Racing readers do not multiply the passes over the sensor: proved for   *)
(* any finite set of readers.                                              *)
(***************************************************************************)
EXTENDS CameraReadThread, FiniteSetTheorems, TLAPS

\* The count is a number, and above zero it stands for a read() since the last pass; before
\* probe has initialised the completion nobody can have posted it.
PostInv ==
    /\ done \in Nat
    /\ ~inited => done = 0 /\ pcX = "woken"
    /\ NoSpuriousPass

LEMMA PostInit == Init => PostInv
  BY DEF Init, PostInv, NoSpuriousPass

\* The steps that leave the completion alone.
LEMMA PostUntouched ==
    PostInv /\ UNCHANGED <<inited, done, pcX, asked>> => PostInv'
  BY DEF PostInv, NoSpuriousPass

LEMMA ThreadStep == PostInv /\ Thread => PostInv'
<1> SUFFICES ASSUME PostInv, Thread PROVE PostInv'
  OBVIOUS
<1>1. CASE ThreadTop \/ ThreadCheck \/ ThreadWork
  BY <1>1, PostUntouched DEF ThreadTop, ThreadCheck, ThreadWork
<1>2. CASE ThreadWait
  <2>1. CASE inited
    <3>1. done \in Nat /\ done > 0 /\ done' = done - 1 /\ UNCHANGED <<inited, pcX, asked>>
      BY <1>2, <2>1 DEF ThreadWait, PostInv
    <3>2. done' \in Nat
      BY <3>1
    <3> QED BY <2>1, <3>1, <3>2 DEF PostInv, NoSpuriousPass
  <2>2. CASE ~inited
    BY <1>2, <2>2, PostUntouched DEF ThreadWait
  <2> QED BY <2>1, <2>2
<1>3. CASE ThreadReinit
  <2>1. done' = 0 /\ UNCHANGED <<inited, pcX>>
    BY <1>3 DEF ThreadReinit
  <2> QED BY <2>1 DEF PostInv, NoSpuriousPass
<1> QED
  BY <1>1, <1>2, <1>3 DEF Thread

LEMMA ReaderStep ==
    ASSUME NEW r \in Readers, PostInv, ReadBegin(r) \/ ReadComplete(r)
    PROVE  PostInv'
<1>1. CASE ReadBegin(r)
  BY <1>1, PostUntouched DEF ReadBegin
<1>2. CASE ReadComplete(r)
  <2>1. CASE inited
    <3>1. done' = done + 1 /\ asked' = TRUE /\ inited' = inited
      BY <1>2, <2>1 DEF ReadComplete
    <3>2. done' \in Nat
      BY <3>1 DEF PostInv
    <3> QED BY <2>1, <3>1, <3>2 DEF PostInv, NoSpuriousPass
  <2>2. CASE ~inited
    BY <1>2, <2>2, PostUntouched DEF ReadComplete
  <2> QED BY <2>1, <2>2
<1> QED
  BY <1>1, <1>2

LEMMA RemoveStep == PostInv /\ (ProbeEnd \/ RemoveBegin \/ RemoveEnd) => PostInv'
<1> SUFFICES ASSUME PostInv, ProbeEnd \/ RemoveBegin \/ RemoveEnd PROVE PostInv'
  OBVIOUS
<1>1. CASE ProbeEnd
  <2>1. done' = 0 /\ inited' = TRUE
    BY <1>1 DEF ProbeEnd
  <2> QED BY <2>1 DEF PostInv, NoSpuriousPass
<1>2. CASE RemoveBegin
  BY <1>2 DEF RemoveBegin, PostInv, NoSpuriousPass
<1>3. CASE RemoveEnd
  <2>1. inited /\ done \in Nat
    BY <1>3 DEF RemoveEnd, PostInv
  <2>2. done' = done + 1 /\ pcX' = "removed" /\ inited' = inited
    BY <1>3 DEF RemoveEnd
  <2>3. done' \in Nat
    BY <2>1, <2>2
  <2> QED BY <2>1, <2>2, <2>3 DEF PostInv, NoSpuriousPass
<1> QED
  BY <1>1, <1>2, <1>3

\* However many programs race past completion_done in mlx90640_read and post the completion
\* more than once, it never stands for anything but a read() since the thread's last pass:
\* what is left of the count goes with the reinitialisation.
THEOREM PassesAreAskedFor == Spec => []NoSpuriousPass
<1>1. PostInv /\ [Next]_vars => PostInv'
  <2> SUFFICES ASSUME PostInv, [Next]_vars PROVE PostInv'
    OBVIOUS
  <2>1. CASE UNCHANGED vars
    BY <2>1, PostUntouched DEF vars
  <2>2. CASE Next
    BY <2>2, ThreadStep, ReaderStep, RemoveStep DEF Next
  <2> QED BY <2>1, <2>2
<1>2. PostInv => NoSpuriousPass
  BY DEF PostInv
<1> QED
  BY <1>1, <1>2, PostInit, PTL DEF Spec

-----------------------------------------------------------------------------
(* How far the completion counts *)

\* The readers between completion_done and complete.
Posting == {r \in Readers : pcR[r] = "complete"}
ByRemove == IF pcX = "removed" THEN 1 ELSE 0

Shapes ==
    /\ inited \in BOOLEAN /\ stop \in BOOLEAN /\ asked \in BOOLEAN
    /\ pcT \in {"top", "wait", "woken", "work", "reinit", "exited", "oops"}
    /\ pcR \in [Readers -> {"idle", "complete", "oops"}]
    /\ pcX \in {"woken", "bound", "joining", "removed"}

\* A reader that has found the completion down posts it once: what has been posted and what
\* is on its way to be is not more than there are readers, and remove posts once.
CountInv ==
    /\ Shapes /\ done \in Nat
    /\ done + Cardinality(Posting) <= Cardinality(Readers) + ByRemove

\* A smaller count stays within its bound.
LEMMA Within ==
    \A d, e, c, n, b \in Nat : d + c <= n + b /\ e <= d => e + c <= n + b
  OBVIOUS

LEMMA PostingCount ==
    /\ IsFiniteSet(Posting) /\ Cardinality(Posting) \in Nat /\ Cardinality(Readers) \in Nat
    /\ Cardinality(Posting) <= Cardinality(Readers)
<1>1. IsFiniteSet(Readers) /\ Posting \subseteq Readers
  BY CameraAssumption DEF Posting
<1> QED
  BY <1>1, FS_Subset, FS_CardinalityType

LEMMA CountInit == Init => CountInv
<1> SUFFICES ASSUME Init PROVE CountInv
  OBVIOUS
<1>1. Shapes /\ done = 0 /\ ByRemove = 0
  BY DEF Init, Shapes, ByRemove
<1> QED
  BY <1>1, PostingCount DEF CountInv

LEMMA ShapesStep == Shapes /\ [Next]_vars => Shapes'
  BY DEF Shapes, Next, vars, ProbeEnd, RemoveBegin, RemoveEnd, Thread, ThreadTop, ThreadWait,
         ThreadCheck, ThreadWork, ThreadReinit, ReadBegin, ReadComplete

LEMMA CountStep == CountInv /\ [Next]_vars => CountInv'
<1> SUFFICES ASSUME CountInv, [Next]_vars
             PROVE  /\ done' \in Nat
                    /\ done' + Cardinality(Posting)' <= Cardinality(Readers) + ByRemove'
  BY ShapesStep DEF CountInv
<1>1. /\ done \in Nat /\ done + Cardinality(Posting) <= Cardinality(Readers) + ByRemove
      /\ ByRemove \in Nat /\ pcR \in [Readers -> {"idle", "complete", "oops"}]
  BY DEF CountInv, Shapes, ByRemove
<1>natural. done \in Nat /\ ByRemove \in Nat
  BY <1>1
\* Nobody begins or ends a read, and the count does not grow.
<1>2. ASSUME UNCHANGED pcR, done' \in Nat, done' <= done, ByRemove' = ByRemove
      PROVE  /\ done' \in Nat
             /\ done' + Cardinality(Posting)' <= Cardinality(Readers) + ByRemove'
  <2>1. Cardinality(Posting)' = Cardinality(Posting)
    BY <1>2 DEF Posting
  <2> DEFINE c == Cardinality(Posting)
             n == Cardinality(Readers)
  <2>2. c \in Nat /\ n \in Nat
    BY PostingCount
  <2>3. done + c <= n + ByRemove
    BY <1>1
  <2> HIDE DEF c, n
  <2>4. done' + c <= n + ByRemove
    BY <1>1, <1>2, <2>2, <2>3, Within
  <2> QED
    BY <1>2, <2>1, <2>4 DEF c, n
<1>3. CASE Thread
  <2>1. UNCHANGED <<pcR, pcX>> /\ done' \in Nat /\ done' <= done
    BY <1>1, <1>3 DEF Thread, ThreadTop, ThreadWait, ThreadCheck, ThreadWork, ThreadReinit
  <2> QED
    BY <1>2, <2>1 DEF ByRemove
<1>4. CASE ProbeEnd \/ RemoveBegin
  <2>1. /\ UNCHANGED pcR /\ done' \in Nat /\ done' <= done
        /\ pcX # "removed" /\ pcX' # "removed"
    BY <1>1, <1>4 DEF ProbeEnd, RemoveBegin
  <2> QED
    BY <1>2, <2>1 DEF ByRemove
<1>5. CASE RemoveEnd
  <2>1. UNCHANGED pcR /\ done' = done + 1 /\ pcX = "joining" /\ pcX' = "removed"
    BY <1>5 DEF RemoveEnd
  <2>2. ByRemove = 0 /\ ByRemove' = 1
    BY <2>1 DEF ByRemove
  <2>3. Cardinality(Posting)' = Cardinality(Posting)
    BY <2>1 DEF Posting
  <2> QED
    BY <1>1, <2>1, <2>2, <2>3, PostingCount
<1>6. ASSUME NEW r \in Readers, ReadBegin(r)
      PROVE  /\ done' \in Nat
             /\ done' + Cardinality(Posting)' <= Cardinality(Readers) + ByRemove'
  <2>1. done = 0 /\ done' = 0 /\ ByRemove' = ByRemove
    BY <1>6 DEF ReadBegin, ByRemove
  <2>2. Cardinality(Posting)' \in Nat /\ Cardinality(Posting)' <= Cardinality(Readers)
    <3>1. IsFiniteSet(Readers) /\ Posting' \subseteq Readers
      BY CameraAssumption DEF Posting
    <3> QED
      BY <3>1, FS_Subset, FS_CardinalityType
  <2> QED
    BY <1>1, <2>1, <2>2, PostingCount
<1>7. ASSUME NEW r \in Readers, ReadComplete(r)
      PROVE  /\ done' \in Nat
             /\ done' + Cardinality(Posting)' <= Cardinality(Readers) + ByRemove'
  <2>1. /\ done' \in {done, done + 1} /\ ByRemove' = ByRemove
        /\ r \in Posting /\ Posting' = Posting \ {r}
    BY <1>1, <1>7 DEF ReadComplete, ByRemove, Posting
  <2>2. Cardinality(Posting)' = Cardinality(Posting) - 1
    BY <2>1, PostingCount, FS_RemoveElement
  <2> QED
    BY <1>1, <2>1, <2>2, PostingCount
<1>8. CASE UNCHANGED vars
  <2>1. UNCHANGED <<pcR, done, pcX>>
    BY <1>8 DEF vars
  <2> QED
    BY <1>1, <1>2, <2>1 DEF ByRemove
<1> QED
  BY <1>3, <1>4, <1>5, <1>6, <1>7, <1>8 DEF Next

\* The types; in particular, readers that race past completion_done in mlx90640_read post
\* the completion at most once each, however often they read, so that its count stays
\* within the number of readers and the one post of mlx90640_remove.
THEOREM PostsAreBounded == Spec => []TypeOK
<1>1. CountInv => TypeOK
  <2> SUFFICES ASSUME CountInv PROVE done \in 0..(Cardinality(Readers) + 1)
    BY DEF CountInv, Shapes, TypeOK
  <2>1. ByRemove \in {0, 1} /\ done \in Nat
        /\ done + Cardinality(Posting) <= Cardinality(Readers) + ByRemove
    BY DEF CountInv, ByRemove
  <2> QED
    BY <2>1, PostingCount
<1> QED
  BY CountInit, CountStep, <1>1, PTL DEF Spec
=============================================================================
