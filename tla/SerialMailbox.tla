---------------------------- MODULE SerialMailbox ----------------------------
(***************************************************************************)
(* What the serial link driver promises its readers, without its buffer,   *)
(* its mutex and its terminators: a text that each chunk from the line is  *)
(* laid over, from its start on, and that a read takes whole or leaves     *)
(* alone.  BluetoothSerial implements it.                                  *)
(*                                                                         *)
(* A byte is its position 1, 2, ... in the stream.                         *)
(***************************************************************************)
EXTENDS Integers, Sequences

CONSTANTS Chunks, MaxStream, Readers

VARIABLES
    text,   \* what there is to read
    sent,   \* bytes the line has handed over
    given   \* per task: what its last read() got

Init ==
    /\ text = <<>> /\ sent = 0
    /\ given = [r \in Readers |-> <<>>]

\* The chunk n bytes long that follows the first s bytes, over t.
Overlaid(t, s, n) == [i \in 1..(IF n > Len(t) THEN n ELSE Len(t)) |->
                         IF i <= n THEN s + i ELSE t[i]]

Put(n) ==
    /\ sent + n <= MaxStream
    /\ text' = Overlaid(text, sent, n) /\ sent' = sent + n
    /\ UNCHANGED given

Take(r) ==
    /\ given' = [given EXCEPT ![r] = text] /\ text' = <<>>
    /\ UNCHANGED sent

\* The reader's memory could not be written.
Fail(r) ==
    /\ given' = [given EXCEPT ![r] = <<>>]
    /\ UNCHANGED <<text, sent>>

Next == (\E n \in Chunks : Put(n)) \/ (\E r \in Readers : Take(r) \/ Fail(r))

Spec == Init /\ [][Next]_<<text, sent, given>>
=============================================================================
