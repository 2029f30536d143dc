------------------------- MODULE MCBluetoothSerial -------------------------
(* Instances of BluetoothSerial for TLC: two tasks read and two write. *)
EXTENDS BluetoothSerial, TLC

CONSTANTS r1, r2, w1, w2
TwoReaders == {r1, r2}
TwoWriters == {w1, w2}
OneReader == {r1}
NoWriters == {}
ChunkSizes == {1, 2, 3}
Tasks == Permutations(TwoReaders) \cup Permutations(TwoWriters)
=============================================================================
