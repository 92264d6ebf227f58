---------------------------- MODULE CommandWindow ----------------------------
(***************************************************************************)
(* What the circular buffer promises: a first-in first-out window over the *)
(* MAX most recent write commands.  A new command goes to the young end;   *)
(* when the window already holds MAX of them, the oldest leaves it and is  *)
(* handed to the caller, and nothing else ever leaves.                     *)
(***************************************************************************)
EXTENDS Integers, Sequences

CONSTANTS
  MAX,      \* how many commands the window keeps
  Entries,  \* the commands
  NULL      \* "no command was displaced"

VARIABLES
  window,   \* the commands kept, oldest first
  evicted   \* what the last operation displaced

vars == <<window, evicted>>

Init == window = << >> /\ evicted = NULL

AddToRoom(e) ==
  /\ Len(window) < MAX
  /\ window' = Append(window, e)
  /\ evicted' = NULL

AddDisplacing(e) ==
  /\ Len(window) = MAX
  /\ window' = Append(Tail(window), e)
  /\ evicted' = Head(window)

Clear == window' = << >> /\ evicted' = NULL

Next == (\E e \in Entries : AddToRoom(e) \/ AddDisplacing(e)) \/ Clear

Spec == Init /\ [][Next]_vars
=============================================================================
