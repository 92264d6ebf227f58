------------------------------ MODULE ThreadSeq ------------------------------
(***************************************************************************)
(* What the list of threads promises: a sequence, newest first, on which   *)
(* every function is one step between its call and its return.             *)
(***************************************************************************)
EXTENDS Integers, Sequences, SequencesExt

CONSTANTS Procs, Calls, NoCall, NULL, Pending

VARIABLES
  list,    \* the data, newest first
  call,    \* each thread's call
  answer   \* its result, once it has taken effect

vars == <<list, call, answer>>

Init ==
  /\ list = << >>
  /\ call = [p \in Procs |-> NoCall]
  /\ answer = [p \in Procs |-> Pending]

Invoke(p) ==
  /\ call[p] = NoCall
  /\ \E c \in Calls : call' = [call EXCEPT ![p] = c]
  /\ UNCHANGED <<list, answer>>

Key(fn) == IF fn = "get_by_fd" THEN "file_descriptor" ELSE "thread_id"

(* The position of the first match, if there is one.                       *)
First(c) ==
  LET hit(i) == list[i][Key(c.fn)] = c.data[Key(c.fn)]
  IN  {i \in DOMAIN list : hit(i) /\ \A j \in 1 .. i - 1 : ~hit(j)}

Effect(c) ==
  CASE c.fn \in {"insert", "insert_no_mutex"} -> <<c.data>> \o list
    [] c.fn \in {"remove", "remove_no_mutex"} ->
         IF First(c) = {} THEN list ELSE RemoveAt(list, CHOOSE i \in First(c) : TRUE)
    [] c.fn \in {"set_status", "set_status_no_mutex"} ->
         [i \in DOMAIN list |-> IF i \in First(c) THEN [list[i] EXCEPT !.completion = TRUE]
                                ELSE list[i]]
    [] c.fn = "free_list" -> << >>
    [] OTHER -> list

Result(c) ==
  IF c.fn \in {"get", "get_by_fd", "get_no_mutex"} /\ First(c) # {}
  THEN list[CHOOSE i \in First(c) : TRUE] ELSE NULL

Take(p) ==
  /\ call[p] # NoCall /\ answer[p] = Pending
  /\ list' = Effect(call[p])
  /\ answer' = [answer EXCEPT ![p] = Result(call[p])]
  /\ UNCHANGED call

Return(p) ==
  /\ answer[p] # Pending
  /\ call' = [call EXCEPT ![p] = NoCall]
  /\ answer' = [answer EXCEPT ![p] = Pending]
  /\ UNCHANGED list

Next == \E p \in Procs : Invoke(p) \/ Take(p) \/ Return(p)

Spec == Init /\ [][Next]_vars
=============================================================================
