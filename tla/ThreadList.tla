----------------------------- MODULE ThreadList -----------------------------
(***************************************************************************)
(* server/linkedlist.c: the list of finished threads and its functions,    *)
(* step by step, as threads execute them.  A step reads or writes at most  *)
(* one shared pointer, except that a node is taken out of the list and     *)
(* freed in one.  Memory that was freed or never set must not be touched:  *)
(* a thread about to do so goes no further here.  malloc is assumed to     *)
(* succeed; the set Nodes bounds what is allocated at once.                *)
(***************************************************************************)
EXTENDS Integers, Sequences, FiniteSets, Functions

CONSTANTS
  Procs,    \* threads that call the functions
  Nodes,    \* addresses of nodes
  ll,       \* address of the list itself
  NULL,
  Garbage,  \* the next pointer of a node that nobody has set yet
  Free,     \* contents of memory that is not allocated
  Nobody    \* "the mutex is not held"

ASSUME ThreadListAssumption ==
  /\ IsFiniteSet(Nodes)
  /\ {ll, NULL, Garbage} \cap Nodes = {}
  /\ ll # NULL /\ ll # Garbage /\ NULL # Garbage
  /\ Nobody \notin Procs

VARIABLES
  exists,  \* the list itself is allocated
  head,    \* linked_list->head
  node,    \* contents of the nodes: [next, data]
  mutex,   \* linked_list->mutex
  pc,      \* each thread's place in the function it is in
  call,    \* that function and the data it was called with
  reg      \* its pointers: new, old, temp, prev

heap == <<exists, head, node>>
listvars == <<heap, mutex, pc, call, reg>>

NoPointers == [new |-> NULL, old |-> NULL, temp |-> NULL, prev |-> NULL]
NoCall == [fn |-> "none", data |-> NULL]

Live == {a \in Nodes : node[a] # Free} \cup (IF exists THEN {ll} ELSE {})

ListInit ==
  /\ head = NULL
  /\ node = [a \in Nodes |-> Free]
  /\ mutex = Nobody
  /\ pc = [p \in Procs |-> "idle"]
  /\ call = [p \in Procs |-> NoCall]
  /\ reg = [p \in Procs |-> NoPointers]

-----------------------------------------------------------------------------
(* The control of the functions: what each starts with, and what it does   *)
(* after malloc, after the lock and when a node matches.                   *)
Entry ==
  [insert |-> "malloc", insert_no_mutex |-> "malloc",
   set_status |-> "lock", print |-> "lock", set_status_no_mutex |-> "start",
   remove |-> "start", remove_no_mutex |-> "start", free_list |-> "start",
   get |-> "start", get_by_fd |-> "start", get_no_mutex |-> "start"]

(* Mutant of AfterMalloc: insert does not take the mutex.                  *)
AfterMalloc_NoLock ==
  [insert |-> "read", insert_no_mutex |-> "read",
   get |-> "lock", get_by_fd |-> "lock", get_no_mutex |-> "fetch"]

AfterMalloc ==
  [insert |-> "lock", insert_no_mutex |-> "read",
   get |-> "lock", get_by_fd |-> "lock", get_no_mutex |-> "fetch"]

AfterLock ==
  [insert |-> "read", set_status |-> "start", print |-> "start",
   remove |-> "unlink", get |-> "fetch", get_by_fd |-> "fetch"]

AfterMatch ==
  [remove |-> "lock", remove_no_mutex |-> "unlink",
   set_status |-> "mark", set_status_no_mutex |-> "mark",
   get |-> "malloc", get_by_fd |-> "malloc", get_no_mutex |-> "malloc"]

Functions == DOMAIN Entry
Gets == {"get", "get_by_fd", "get_no_mutex"}

(* What comes last: the functions that have the mutex give it back.        *)
Finish(fn, locked) == IF locked /\ fn \in DOMAIN AfterLock THEN "unlock" ELSE "return"

Matches(p, data) ==
  CASE call[p].fn = "get_by_fd" -> data.file_descriptor = call[p].data.file_descriptor
    [] call[p].fn \in {"print", "free_list"} -> FALSE
    [] OTHER -> data.thread_id = call[p].data.thread_id

(* The memory that a thread's next step uses.                              *)
Touches(p) ==
  CASE pc[p] \in {"lock", "read", "publish", "start", "unlock"} -> {ll}
    [] pc[p] = "link"   -> {ll, head}
    [] pc[p] = "walk"   -> {reg[p].temp} \ {NULL}
    [] pc[p] = "release" -> IF reg[p].temp = NULL THEN {ll} ELSE {reg[p].temp}
    [] pc[p] = "unlink" ->
         {reg[p].temp, IF reg[p].prev = reg[p].temp THEN ll ELSE reg[p].prev}
    [] pc[p] \in {"mark", "fetch"} -> {reg[p].temp}
    [] OTHER -> {}

Sound(p) == Touches(p) \subseteq Live
Step(p, at) == pc[p] = at /\ Sound(p)
Goto(p, at) == pc' = [pc EXCEPT ![p] = at]

Enter(p, fn, data) ==
  /\ Step(p, "idle")
  /\ call' = [call EXCEPT ![p] = [fn |-> fn, data |-> data]]
  /\ Goto(p, Entry[fn])
  /\ UNCHANGED <<heap, mutex, reg>>

Malloc(p) ==
  /\ Step(p, "malloc")
  /\ \E a \in Nodes \ Live :
       /\ node' = [node EXCEPT ![a] =
            IF call[p].fn \in Gets THEN [next |-> NULL, data |-> NULL]
            ELSE [next |-> Garbage, data |-> call[p].data]]
       /\ reg' = [reg EXCEPT ![p].new = a]
  /\ Goto(p, AfterMalloc[call[p].fn])
  /\ UNCHANGED <<exists, head, mutex, call>>

Lock(p) ==
  /\ Step(p, "lock") /\ mutex = Nobody
  /\ mutex' = p
  /\ Goto(p, AfterLock[call[p].fn])
  /\ UNCHANGED <<heap, call, reg>>

Unlock(p) ==
  /\ Step(p, "unlock")
  /\ mutex' = Nobody
  /\ Goto(p, "return")
  /\ UNCHANGED <<heap, call, reg>>

Return(p) ==
  /\ Step(p, "return")
  /\ call' = [call EXCEPT ![p] = NoCall]
  /\ reg' = [reg EXCEPT ![p] = NoPointers]
  /\ Goto(p, "idle")
  /\ UNCHANGED <<heap, mutex>>

-----------------------------------------------------------------------------
(* Insertion at the head: the new node is published before its next        *)
(* pointer is set, through whatever is the head by then.                   *)
Read(p) ==
  /\ Step(p, "read")
  /\ reg' = [reg EXCEPT ![p].old = head]
  /\ Goto(p, "publish")
  /\ UNCHANGED <<heap, mutex, call>>

Publish(p) ==
  /\ Step(p, "publish")
  /\ head' = reg[p].new
  /\ reg' = [reg EXCEPT ![p].new = NULL]
  /\ Goto(p, "link")
  /\ UNCHANGED <<exists, node, mutex, call>>

(* Mutant of Link: the next pointer is not set.                            *)
Link_NoNext(p) ==
  /\ Step(p, "link")
  /\ Goto(p, Finish(call[p].fn, TRUE))
  /\ UNCHANGED <<heap, mutex, call, reg>>

Link(p) ==
  /\ Step(p, "link")
  /\ node' = [node EXCEPT ![head].next = reg[p].old]
  /\ Goto(p, Finish(call[p].fn, TRUE))
  /\ UNCHANGED <<exists, head, mutex, call, reg>>

-----------------------------------------------------------------------------
(* The loop over the nodes that all other functions share.                 *)
Start(p) ==
  /\ Step(p, "start")
  /\ reg' = [reg EXCEPT ![p].temp = head, ![p].prev = head]
  /\ Goto(p, IF call[p].fn = "free_list" THEN "release" ELSE "walk")
  /\ UNCHANGED <<heap, mutex, call>>

Walk(p) ==
  LET at == reg[p].temp
  IN  /\ Step(p, "walk")
      /\ \/ /\ at = NULL
            /\ Goto(p, Finish(call[p].fn, mutex = p))
            /\ UNCHANGED reg
         \/ /\ at # NULL /\ Matches(p, node[at].data)
            /\ Goto(p, AfterMatch[call[p].fn])
            /\ UNCHANGED reg
         \/ /\ at # NULL /\ ~Matches(p, node[at].data)
            /\ reg' = [reg EXCEPT ![p].prev = at, ![p].temp = node[at].next]
            /\ UNCHANGED pc
      /\ UNCHANGED <<heap, mutex, call>>

(* The status that is set is true in every call of the program.            *)
Mark(p) ==
  /\ Step(p, "mark")
  /\ node' = [node EXCEPT ![reg[p].temp].data.completion = TRUE]
  /\ Goto(p, Finish(call[p].fn, TRUE))
  /\ UNCHANGED <<exists, head, mutex, call, reg>>

(* Mutant of Unlink: the node taken out is not freed.                      *)
Unlink_Keeps(p) ==
  LET at == reg[p].temp
  IN  /\ Step(p, "unlink")
      /\ IF reg[p].prev = at
         THEN head' = node[at].next /\ UNCHANGED node
         ELSE node' = [node EXCEPT ![reg[p].prev].next = node[at].next] /\ UNCHANGED head
      /\ Goto(p, Finish(call[p].fn, TRUE))
      /\ UNCHANGED <<exists, mutex, call, reg>>

Unlink(p) ==
  LET at == reg[p].temp
  IN  /\ Step(p, "unlink")
      /\ IF reg[p].prev = at
         THEN head' = node[at].next /\ node' = [node EXCEPT ![at] = Free]
         ELSE /\ node' = [node EXCEPT ![reg[p].prev].next = node[at].next, ![at] = Free]
              /\ UNCHANGED head
      /\ Goto(p, Finish(call[p].fn, TRUE))
      /\ UNCHANGED <<exists, mutex, call, reg>>

(* A copy of the data, in a node that becomes the caller's.                *)
Fetch(p) ==
  /\ Step(p, "fetch")
  /\ node' = [node EXCEPT ![reg[p].new].data = node[reg[p].temp].data]
  /\ Goto(p, Finish(call[p].fn, TRUE))
  /\ UNCHANGED <<exists, head, mutex, call, reg>>

(* free_linked_list: node after node, then the list.                       *)
Release(p) ==
  /\ Step(p, "release")
  /\ \/ /\ reg[p].temp # NULL
        /\ reg' = [reg EXCEPT ![p].temp = node[reg[p].temp].next]
        /\ node' = [node EXCEPT ![reg[p].temp] = Free]
        /\ UNCHANGED <<exists, pc>>
     \/ /\ reg[p].temp = NULL
        /\ exists' = FALSE
        /\ Goto(p, "return")
        /\ UNCHANGED <<reg, node>>
  /\ UNCHANGED <<head, mutex, call>>

Run(p) ==
  \/ Malloc(p) \/ Lock(p) \/ Unlock(p) \/ Read(p) \/ Publish(p)
  \/ Link(p) \/ Start(p) \/ Walk(p) \/ Mark(p) \/ Unlink(p) \/ Fetch(p)
  \/ Release(p)

-----------------------------------------------------------------------------
(* The nodes met from a pointer on, as a sequence.                         *)
NodesFrom(a) ==
  LET at[k \in 0 .. Cardinality(Nodes)] ==
        IF k = 0 THEN a
        ELSE IF at[k - 1] \in Nodes \cap Live THEN node[at[k - 1]].next ELSE NULL
      n == Cardinality({k \in 0 .. Cardinality(Nodes) : at[k] \in Nodes \cap Live})
  IN  [i \in 1 .. n |-> at[i - 1]]
=============================================================================
