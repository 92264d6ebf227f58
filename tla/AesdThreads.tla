---------------------------- MODULE AesdThreads ----------------------------
(***************************************************************************)
(* The life of the server's threads: main and socket_listen set the server *)
(* up, a connection's thread enters itself into the list when it is done,  *)
(* joining_thread_handler joins it and frees its node, and signal_handler  *)
(* frees everything and exits.  The serving itself (AesdSocket) is one     *)
(* step here that uses the reply buffer.                                   *)
(*                                                                         *)
(* The joiner works on the list without its mutex and may wake without     *)
(* being asked, and each signal's handler runs on top of whichever thread  *)
(* the signal found: undefined behaviour is reachable.  Where it happens   *)
(* fault is set and the model stops.                                       *)
(***************************************************************************)
EXTENDS ThreadList

CONSTANTS
  Conns,     \* threads of connections
  Joiner,    \* the thread of joining_thread_handler
  Listener,  \* the thread of main and socket_listen
  Handlers,  \* frames of signal_handler, one for each signal that comes
  Ids        \* values of pthread_t

(* What a connection enters itself with: struct thread_data.               *)
Descriptions ==
  [thread_id : Ids \cup {NULL}, file_descriptor : {NULL}, completion : BOOLEAN]

ASSUME AesdThreadsAssumption ==
  /\ Procs = Conns \cup {Joiner, Listener} \cup Handlers
  /\ {Joiner, Listener} \cap Conns = {} /\ Joiner # Listener
  /\ Handlers \cap (Conns \cup {Joiner, Listener}) = {}
  /\ Free \notin [next : Nodes \cup {NULL, Garbage}, data : Descriptions]

VARIABLES
  at,           \* where each thread is outside of the list's functions
  id,           \* thread_id of each connection
  join_mutex,   \* thread_join_mutex
  signalled,    \* the joiner was woken
  lost,         \* connections whose signal found nobody waiting
  joined,       \* connections whose thread was joined
  old_head, new_head,
  to_write,     \* the reply buffer: "none", "allocated", "freed"
  interrupted,  \* the thread on top of which each handler runs
  inside,       \* what that thread was inside of: "nothing", "heap", "log"
  exited,
  fault,        \* undefined behaviour was met
  raced         \* the joiner and a connection were in the list at once, or the
                \* joiner woke up unasked and found the list empty

joining == <<signalled, lost, joined, old_head, new_head>>
signals == <<interrupted, inside, exited>>
faults == <<fault, raced>>
vars == <<listvars, at, id, join_mutex, joining, to_write, signals, faults>>

Init ==
  /\ ListInit /\ exists = FALSE
  /\ at = [p \in Procs |-> IF p = Listener THEN "main" ELSE "none"]
  /\ id = [c \in Conns |-> NULL]
  /\ join_mutex = Nobody /\ signalled = FALSE
  /\ lost = {} /\ joined = {}
  /\ old_head = NULL /\ new_head = NULL
  /\ to_write = "none"
  /\ interrupted = [h \in Handlers |-> Nobody]
  /\ inside = [h \in Handlers |-> "nothing"]
  /\ exited = FALSE /\ fault = FALSE /\ raced = FALSE

(* A thread moves from one place to the next, between the list's functions *)
(* and unless a handler runs on top of it.                                 *)
Runs(p) == \A h \in Handlers : interrupted[h] # p
Move(p, here, there) ==
  /\ at[p] = here /\ pc[p] = "idle" /\ Runs(p)
  /\ at' = [at EXCEPT ![p] = there]

Waiting == at[Joiner] = "wait" /\ ~signalled
InPass == at[Joiner] \in {"next", "store", "join", "remove", "free"}

-----------------------------------------------------------------------------
(* main: with -d the program forks and goes on in the child, which we      *)
(* follow.                                                                 *)
Main ==
  /\ Move(Listener, "main", "listen")
  /\ UNCHANGED <<listvars, id, join_mutex, joining, to_write, signals, faults>>

(* setup_signal_handler or fork, getaddrinfo or poll failed: the process   *)
(* ends, whatever its other threads do.                                    *)
Leave ==
  /\ \E here \in {"main", "listen", "accept"} : Move(Listener, here, "ended")
  /\ exited' = TRUE
  /\ UNCHANGED <<listvars, id, join_mutex, joining, to_write, interrupted,
                 inside, faults>>

(* socket_listen: the socket and the reply buffer.                         *)
Listen ==
  /\ Move(Listener, "listen", "make_list")
  /\ to_write' = "allocated"
  /\ UNCHANGED <<listvars, id, join_mutex, joining, signals, faults>>

(* The list comes from malloc, which does not set its head.                *)
MakeList ==
  /\ Move(Listener, "make_list", "start_joiner")
  /\ exists' = TRUE /\ head' = Garbage
  /\ UNCHANGED <<node, mutex, pc, call, reg, id, join_mutex, joining, to_write,
                 signals, faults>>

(* init_linked_list, and the joiner's thread.                              *)
StartJoiner ==
  /\ at[Listener] = "start_joiner" /\ Runs(Listener) /\ ll \in Live
  /\ at' = [at EXCEPT ![Listener] = "accept", ![Joiner] = "lock"]
  /\ head' = NULL
  /\ UNCHANGED <<exists, node, mutex, pc, call, reg, id, join_mutex, joining,
                 to_write, signals, faults>>

(* A new thread may get the id of one that was joined.                     *)
Accept(c) ==
  /\ at[Listener] = "accept" /\ Runs(Listener)
  /\ Move(c, "none", "serve")
  /\ \E t \in Ids \ {id[d] : d \in Conns \ joined} : id' = [id EXCEPT ![c] = t]
  /\ UNCHANGED <<listvars, join_mutex, joining, to_write, signals, faults>>

(* All up to the end; a text message uses the reply buffer (see Crash), a  *)
(* seek request does not.                                                  *)
Serve(c) ==
  /\ Move(c, "serve", "end")
  /\ UNCHANGED <<listvars, id, join_mutex, joining, to_write, signals, faults>>

-----------------------------------------------------------------------------
(* The end of connection_handler, on either of its paths.                  *)
EndLock(c) ==
  /\ Move(c, "end", "insert")
  /\ ll \in Live /\ mutex = Nobody
  /\ mutex' = c
  /\ raced' = (raced \/ InPass)
  /\ UNCHANGED <<heap, pc, call, reg, id, join_mutex, joining, to_write,
                 signals, fault>>

Described(c) ==
  [thread_id |-> id[c], file_descriptor |-> NULL, completion |-> FALSE]

EndInsert(c) ==
  /\ Move(c, "insert", "status")
  /\ Enter(c, "insert_no_mutex", Described(c))
  /\ UNCHANGED <<id, join_mutex, joining, to_write, signals, faults>>

EndStatus(c) ==
  /\ Move(c, "status", "unlock")
  /\ Enter(c, "set_status_no_mutex", Described(c))
  /\ UNCHANGED <<id, join_mutex, joining, to_write, signals, faults>>

(* Mutant of EndUnlock: the list's mutex is kept.                          *)
EndUnlock_Keeps(c) ==
  /\ Move(c, "unlock", "signal_lock")
  /\ UNCHANGED <<listvars, id, join_mutex, joining, to_write, signals, faults>>

EndUnlock(c) ==
  /\ Move(c, "unlock", "signal_lock")
  /\ ll \in Live
  /\ mutex' = Nobody
  /\ UNCHANGED <<heap, pc, call, reg, id, join_mutex, joining, to_write,
                 signals, faults>>

SignalLock(c) ==
  /\ Move(c, "signal_lock", "signal")
  /\ join_mutex = Nobody
  /\ join_mutex' = c
  /\ UNCHANGED <<listvars, id, joining, to_write, signals, faults>>

(* Mutant of Signal: no signal is sent.                                    *)
Signal_Forgotten(c) ==
  /\ Move(c, "signal", "ended")
  /\ join_mutex' = Nobody
  /\ UNCHANGED <<listvars, id, joining, to_write, signals, faults>>

(* pthread_cond_signal wakes the joiner if it waits, and is lost if not.   *)
Signal(c) ==
  /\ Move(c, "signal", "ended")
  /\ IF Waiting THEN signalled' = TRUE /\ UNCHANGED lost
                ELSE lost' = lost \cup {c} /\ UNCHANGED signalled
  /\ join_mutex' = Nobody
  /\ UNCHANGED <<listvars, id, joined, old_head, new_head, to_write,
                 signals, faults>>

-----------------------------------------------------------------------------
(* joining_thread_handler.                                                 *)
JoinerWait ==
  /\ Move(Joiner, "lock", "wait")
  /\ join_mutex = Nobody
  /\ UNCHANGED <<listvars, id, join_mutex, joining, to_write, signals, faults>>

JoinerWake ==
  /\ Move(Joiner, "wait", "unlock")
  /\ signalled /\ join_mutex = Nobody
  /\ join_mutex' = Joiner /\ signalled' = FALSE
  /\ UNCHANGED <<listvars, id, lost, joined, old_head, new_head, to_write,
                 signals, faults>>

(* pthread_cond_wait may also return when nobody has signalled, and the    *)
(* code does not ask why it did.                                           *)
JoinerWakeUnasked ==
  /\ Move(Joiner, "wait", "unlock")
  /\ ~signalled /\ join_mutex = Nobody
  /\ join_mutex' = Joiner
  /\ raced' = (raced \/ head = NULL)
  /\ UNCHANGED <<listvars, id, joining, to_write, signals, fault>>

(* Mutant of JoinerUnlock: thread_join_mutex is kept until the next wait.  *)
JoinerUnlock_Keeps ==
  /\ Move(Joiner, "unlock", "head")
  /\ UNCHANGED <<listvars, id, join_mutex, joining, to_write, signals, faults>>

JoinerUnlock ==
  /\ Move(Joiner, "unlock", "head")
  /\ join_mutex' = Nobody
  /\ UNCHANGED <<listvars, id, joining, to_write, signals, faults>>

JoinerHead ==
  /\ Move(Joiner, "head", "next")
  /\ ll \in Live
  /\ old_head' = head
  /\ raced' = (raced \/ mutex # Nobody)
  /\ UNCHANGED <<listvars, id, join_mutex, signalled, lost, joined, new_head,
                 to_write, signals, fault>>

(* The head is read again for its next pointer.                            *)
JoinerNext ==
  /\ Move(Joiner, "next", "store")
  /\ {ll, head} \subseteq Live
  /\ new_head' = node[head].next
  /\ UNCHANGED <<listvars, id, join_mutex, signalled, lost, joined, old_head,
                 to_write, signals, faults>>

(* Mutant of JoinerStore: the node stays in the list.                      *)
JoinerStore_Keeps ==
  /\ Move(Joiner, "store", "join")
  /\ UNCHANGED <<listvars, id, join_mutex, joining, to_write, signals, faults>>

JoinerStore ==
  /\ Move(Joiner, "store", "join")
  /\ ll \in Live
  /\ head' = new_head
  /\ UNCHANGED <<exists, node, mutex, pc, call, reg, id, join_mutex, joining,
                 to_write, signals, faults>>

(* pthread_join: returns when the thread that has this id has ended.       *)
Named(t) == {c \in Conns \ joined : id[c] = t}
JoinerJoin ==
  /\ Move(Joiner, "join", "remove")
  /\ old_head \in Live
  /\ \E c \in Named(node[old_head].data.thread_id) :
       at[c] = "ended" /\ joined' = joined \cup {c}
  /\ UNCHANGED <<listvars, id, join_mutex, signalled, lost, old_head, new_head,
                 to_write, signals, faults>>

JoinerRemove ==
  /\ Move(Joiner, "remove", "free")
  /\ old_head \in Live
  /\ Enter(Joiner, "remove_no_mutex", node[old_head].data)
  /\ UNCHANGED <<id, join_mutex, joining, to_write, signals, faults>>

JoinerFree ==
  /\ Move(Joiner, "free", "lock")
  /\ old_head \in Live
  /\ node' = [node EXCEPT ![old_head] = Free]
  /\ old_head' = NULL /\ new_head' = NULL
  /\ UNCHANGED <<exists, head, mutex, pc, call, reg, id, join_mutex, signalled,
                 lost, joined, to_write, signals, faults>>

-----------------------------------------------------------------------------
(* SIGTERM or SIGINT comes while thread p runs, perhaps inside malloc or   *)
(* free, or syslog.  Each signal blocks itself while its handler runs, on  *)
(* that thread: the other one may come on top of it, and either on another *)
(* thread.                                                                 *)
Allocating(p) ==
  IF pc[p] = "idle"
  THEN at[p] \in {"listen", "make_list", "accept", "serve", "signal", "free",
                  "free_buffer"}
  ELSE pc[p] \in {"malloc", "unlink", "release"}

Logging(p) ==
  pc[p] = "idle" /\ at[p] \in {"main", "listen", "accept", "serve", "free_buffer"}

SignalArrives(h, p) ==
  /\ at[h] = "none" /\ at[p] \notin {"none", "ended"} /\ Runs(p)
  /\ p \in Handlers => interrupted[p] \notin Handlers
  /\ at' = [at EXCEPT ![h] = "free_buffer"]
  /\ interrupted' = [interrupted EXCEPT ![h] = p]
  /\ \E what \in {"nothing", "heap", "log"} :
       /\ what = "heap" => Allocating(p)
       /\ what = "log" => Logging(p)
       /\ inside' = [inside EXCEPT ![h] = what]
  /\ UNCHANGED <<listvars, id, join_mutex, joining, to_write, exited, faults>>

(* syslog and free wait for a lock that the thread below may hold;         *)
(* free(NULL), before there is a buffer, does not.                         *)
HandlerFree(h) ==
  /\ Move(h, "free_buffer", "free_list")
  /\ \/ to_write = "none" /\ inside[h] # "log" /\ UNCHANGED to_write
     \/ to_write = "allocated" /\ inside[h] = "nothing" /\ to_write' = "freed"
  /\ UNCHANGED <<listvars, id, join_mutex, joining, signals, faults>>

HandlerList(h) ==
  /\ Move(h, "free_list", "exit")
  /\ Enter(h, "free_list", NULL)
  /\ UNCHANGED <<id, join_mutex, joining, to_write, signals, faults>>

(* Mutant of HandlerExit: the handler returns to the thread below.         *)
HandlerExit_Returns(h) ==
  /\ Move(h, "exit", "ended")
  /\ interrupted' = [interrupted EXCEPT ![h] = Nobody]
  /\ UNCHANGED <<listvars, id, join_mutex, joining, to_write, inside, exited,
                 faults>>

HandlerExit(h) ==
  /\ Move(h, "exit", "ended")
  /\ exited' = TRUE
  /\ UNCHANGED <<listvars, id, join_mutex, joining, to_write, interrupted,
                 inside, faults>>

-----------------------------------------------------------------------------
(* What a thread's next step outside of the list's functions touches.      *)
Uses(p) ==
  CASE at[p] \in {"start_joiner", "end", "unlock", "head"} -> {ll}
    [] at[p] = "next" -> {ll, head}
    [] at[p] = "store" -> {ll}
    [] at[p] \in {"join", "remove", "free"} -> {old_head}
    [] OTHER -> {}

(* A dangling pointer is followed, freed memory is freed, the freed reply  *)
(* buffer is used or freed, or a thread is joined that does not exist.     *)
Crash(p) ==
  /\ Runs(p)
  /\ \/ ~Sound(p)
     \/ pc[p] = "idle" /\ \/ ~(Uses(p) \subseteq Live)
                          \/ at[p] \in {"serve", "free_buffer"} /\ to_write = "freed"
                          \/ /\ at[p] = "join" /\ old_head \in Live
                             /\ Named(node[old_head].data.thread_id) = {}
  /\ fault' = TRUE
  /\ UNCHANGED <<listvars, at, id, join_mutex, joining, to_write, signals,
                 raced>>

InList(p) ==
  /\ Runs(p)
  /\ Run(p) \/ Return(p)
  /\ UNCHANGED <<at, id, join_mutex, joining, to_write, signals, faults>>

connection(c) ==
  \/ Serve(c) \/ EndLock(c) \/ EndInsert(c) \/ EndStatus(c) \/ EndUnlock(c)
  \/ SignalLock(c) \/ Signal(c)
joining_thread_handler ==
  \/ JoinerWait \/ JoinerWake \/ JoinerUnlock \/ JoinerHead \/ JoinerNext
  \/ JoinerStore \/ JoinerJoin \/ JoinerRemove \/ JoinerFree
signal_handler(h) == HandlerFree(h) \/ HandlerList(h) \/ HandlerExit(h)

Up == ~exited /\ ~fault
Next ==
  /\ Up
  /\ \/ Main \/ Leave \/ Listen \/ MakeList \/ StartJoiner
     \/ \E c \in Conns : Accept(c) \/ connection(c)
     \/ joining_thread_handler \/ JoinerWakeUnasked
     \/ \E h \in Handlers :
          signal_handler(h) \/ \E p \in Procs : SignalArrives(h, p)
     \/ \E p \in Procs : InList(p) \/ Crash(p)

Spec == Init /\ [][Next]_vars

(* Threads that can run do; each connection takes each mutex once, and the *)
(* joiner takes thread_join_mutex at most once for each of them, and for   *)
(* each unasked wake-up that finds a node.  No such wake-up, and no        *)
(* signal, has to come.                                                    *)
Fairness ==
  /\ \A c \in Conns : WF_vars(Up /\ (connection(c) \/ InList(c) \/ Crash(c)))
  /\ WF_vars(Up /\ (joining_thread_handler \/ InList(Joiner) \/ Crash(Joiner)))
  /\ \A h \in Handlers : WF_vars(Up /\ (signal_handler(h) \/ InList(h) \/ Crash(h)))
  /\ WF_vars(Up /\ Crash(Listener))

FairSpec == Spec /\ Fairness

-----------------------------------------------------------------------------
(* The types of the threads' state; a connection has the list's mutex      *)
(* exactly while it enters itself.                                         *)
TypeOK ==
  /\ signalled \in BOOLEAN /\ to_write \in {"none", "allocated", "freed"}
  /\ exited \in BOOLEAN /\ fault \in BOOLEAN /\ raced \in BOOLEAN
  /\ id \in [Conns -> Ids \cup {NULL}]
  /\ mutex \in Conns \cup {Nobody}
  /\ \A c \in Conns : mutex = c <=> at[c] \in {"insert", "status", "unlock"}
  /\ join_mutex \in Conns \cup {Joiner, Nobody}
  /\ lost \subseteq Conns /\ joined \subseteq Conns
  /\ {head, old_head, new_head} \subseteq Nodes \cup {NULL, Garbage}
  /\ interrupted \in [Handlers -> Procs \cup {Nobody}]
  /\ inside \in [Handlers -> {"nothing", "heap", "log"}]

SignalCame == \E h \in Handlers : at[h] # "none"

(* While no signal comes, what breaks the list is the joiner's work        *)
(* without the list's mutex (the lock commented out at socket_core.c:67)   *)
(* while a connection is in the list, or its wake-up without a predicate   *)
(* (socket_core.c:65) on an empty list, and nothing else: however many     *)
(* threads have entered themselves and wait to be joined, whichever signal *)
(* is lost, and whichever id is used again, each node is freed exactly     *)
(* once although both remove_element_from_linked_list_no_mutex and         *)
(* joining_thread_handler (socket_core.c:72-73) free, and only threads     *)
(* that are there are joined.                                              *)
FaultNeedsRace == fault => raced \/ SignalCame

(* Every wake-up joins a thread that had not been joined: the threads that *)
(* ended and were not joined are at most as many as the signals that found *)
(* the joiner busy (socket_core.c:65, 148, 206), however the threads       *)
(* interleave, whether the joiner wakes up unasked and whichever ids are   *)
(* used again, until something faults.                                     *)
UnjoinedWereLost ==
  Waiting /\ Up =>
    Cardinality({c \in Conns : at[c] = "ended"} \ joined) <= Cardinality(lost)

(* No connection waits for ever for the list or for the joiner, which      *)
(* joins threads that have not signalled yet: it must not hold             *)
(* thread_join_mutex meanwhile (socket_core.c:66-71).                      *)
ThreadsEnd ==
  \A c \in Conns : at[c] = "end" ~> (at[c] = "ended" \/ ~Up \/ SignalCame)

(* A signal brings the process down, by exit or by a fault, whatever it    *)
(* interrupts, whatever other threads do to the list it frees and whether  *)
(* another signal comes (signal_handler.c:13-32): all but one that found   *)
(* its thread inside of malloc, free or syslog (or came beside one).       *)
SignalsEnd == SignalCame ~> (~Up \/ \E h \in Handlers : inside[h] # "nothing")

(* "Caught signal, exiting" (signal_handler.c:16).                         *)
SignalExits == SignalCame ~> ~Up
=============================================================================
