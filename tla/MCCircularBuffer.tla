--------------------------- MODULE MCCircularBuffer ---------------------------
(* The circular buffer with the code's own ten slots; commands of one and  *)
(* of two bytes, so that positions, slots and commands are all different.  *)
EXTENDS CircularBufferSpec

CONSTANT Memory   \* some address that is not NULL

MCEntries == [buffptr : {Memory}, size : {1, 2}]
=============================================================================
