---------------------------- MODULE MCThreadList ----------------------------
(* A small instance of the list of threads.                                *)
EXTENDS ThreadListSpec, TLC

(* Two threads; the second thread's number is also on another descriptor.  *)
SomeData ==
  [thread_id : {1}, file_descriptor : {3, 4}, completion : {FALSE}]
    \cup [thread_id : {2}, file_descriptor : {3}, completion : {FALSE}]

Interchangeable == Permutations(Nodes) \cup Permutations(Procs)
=============================================================================
