---------------------------- MODULE MCAesdThreads ----------------------------
(* Small instances of the server's threads.                                *)
EXTENDS AesdThreads

CONSTANTS
  FewConns, FewNodes, FewIds  \* what is in use when a signal comes

AllThreads == Conns \cup {Joiner, Listener} \cup Handlers

(* A bound: signals come while only a few connections are there, and no    *)
(* others are accepted afterwards.  Nodes and ids are interchangeable.     *)
(* Accepting, a signal and the choice of a node are not forced by the      *)
(* fairness, so the bound blocks no step that is.                          *)
Bounded ==
  SignalCame =>
    /\ \A c \in Conns : at[c] # "none" => c \in FewConns /\ id[c] \in FewIds
    /\ \A a \in Nodes \ FewNodes : node[a] = Free

MCNext == Next /\ Bounded'

MCSpec == Init /\ [][MCNext]_vars /\ Fairness
=============================================================================
