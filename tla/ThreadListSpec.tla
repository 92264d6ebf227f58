--------------------------- MODULE ThreadListSpec ---------------------------
(***************************************************************************)
(* The list of linkedlist.c as a library: threads that call any of its     *)
(* functions, under the contract its code needs.  insert, set_status and   *)
(* print do everything under the mutex and may be called at any time.  The *)
(* others follow pointers without it, so whoever calls one of them is      *)
(* alone in the library.                                                   *)
(***************************************************************************)
EXTENDS ThreadList

CONSTANTS Data   \* what threads are described by

(* The data of a node: that of a call, its status perhaps set; that of a   *)
(* get's node is not set at first.                                         *)
Given == Data \cup {[d EXCEPT !.completion = TRUE] : d \in Data}

ASSUME ThreadListSpecAssumption ==
  /\ Free \notin [next : Nodes \cup {NULL, Garbage}, data : Given \cup {NULL}]
  /\ Garbage \notin Given

VARIABLE copy    \* the node a get has given to its caller

vars == <<listvars, copy>>

Init == ListInit /\ exists = FALSE /\ copy = [p \in Procs |-> NULL]

Guarded == {"insert", "set_status", "print"}

(* malloc and init_linked_list, once there is no list (any more).          *)
init_linked_list ==
  /\ ~exists /\ \A p \in Procs : pc[p] = "idle"
  /\ exists' = TRUE /\ head' = NULL /\ mutex' = Nobody
  /\ UNCHANGED <<node, pc, call, reg, copy>>

(* Bound: calls are made only while there is memory for all of them.       *)
Room == Cardinality(Nodes \ Live) > Cardinality({p \in Procs : pc[p] # "idle"})

(* A caller frees the copy it was given before it calls again.             *)
Call(p) ==
  /\ exists /\ copy[p] = NULL
  /\ \E fn \in Functions : \E data \in Data :
       /\ \A q \in Procs \ {p} :
            \/ pc[q] = "idle"
            \/ fn \in Guarded /\ call[q].fn \in Guarded
       /\ Entry[fn] = "malloc" \/ fn \in Gets => Room
       /\ Enter(p, fn, data)
  /\ UNCHANGED copy

Receive(p) ==
  /\ Return(p)
  /\ copy' = [copy EXCEPT ![p] = IF call[p].fn \in Gets THEN reg[p].new ELSE NULL]

FreeCopy(p) ==
  /\ pc[p] = "idle" /\ copy[p] # NULL
  /\ node' = [node EXCEPT ![copy[p]] = Free]
  /\ copy' = [copy EXCEPT ![p] = NULL]
  /\ UNCHANGED <<exists, head, mutex, pc, call, reg>>

Next ==
  \/ init_linked_list
  \/ \E p \in Procs : \/ Call(p) \/ Receive(p) \/ FreeCopy(p)
                      \/ Run(p) /\ UNCHANGED copy

Spec == Init /\ [][Next]_vars

-----------------------------------------------------------------------------
(* The places of a thread in a function, and the owner of the mutex.       *)
TypeOK ==
  /\ pc \in [Procs -> {"idle", "malloc", "lock", "unlock", "read", "publish", "link",
                       "start", "walk", "mark", "unlink", "fetch", "release", "return"}]
  /\ head \in Nodes \cup {NULL}
  /\ mutex \in Procs \cup {Nobody}
  /\ \A p \in Procs :
       /\ call[p].fn \in Functions \cup {"none"}
       /\ {reg[p].new, reg[p].old, reg[p].temp, reg[p].prev} \subseteq Nodes \cup {NULL}

(* The list as its users see it.  A node counts from the moment it is      *)
(* published, though its next pointer is set one step later; a list being  *)
(* freed is gone from the start.                                           *)
InsertLinks == \E p \in Procs : pc[p] = "link"
Releasing == {p \in Procs : pc[p] = "release"}
Linked ==
  IF ~exists \/ Releasing # {} THEN << >>
  ELSE IF InsertLinks
       THEN <<head>> \o NodesFrom(reg[CHOOSE p \in Procs : pc[p] = "link"].old)
       ELSE NodesFrom(head)

answer ==
  [p \in Procs |->
     IF pc[p] \in {"link", "unlock", "release", "return"}
     THEN IF call[p].fn \in Gets /\ reg[p].new # NULL THEN node[reg[p].new].data ELSE NULL
     ELSE Garbage]

List == INSTANCE ThreadSeq WITH
  list <- [i \in DOMAIN Linked |-> node[Linked[i]].data],
  Calls <- [fn : Functions, data : Data],
  Pending <- Garbage

(* Under the contract every function is atomic: insert at the head, remove *)
(* the first match, set or copy the first match, free all (linkedlist.c).  *)
AtomicList == List!Spec

(* No thread is about to follow a dangling pointer, and no node is lost:   *)
(* each one that is allocated is in the list, on its way in or out, or a   *)
(* copy that belongs to a caller ("needs to be freed", linkedlist.h:43).   *)
ListMemory ==
  /\ \A p \in Procs : Sound(p)
  /\ Live \ {ll} =
       Range(Linked)
         \cup (UNION {Range(NodesFrom(reg[p].temp)) : p \in Releasing})
         \cup ({IF pc[p] = "idle" THEN copy[p] ELSE reg[p].new : p \in Procs} \ {NULL})
=============================================================================
