-------------------------- MODULE SystemCallsProofs --------------------------
(***************************************************************************)
(* Proofs about the wrappers, for every set of exit codes and every limit  *)
(* on descriptors.                                                         *)
(***************************************************************************)
EXTENDS SystemCalls, TLAPS

(* Where the two processes can be together: a child exists only in the two *)
(* exec functions, and only do_exec_redirect opens and dups.               *)
TwoProcesses ==
  /\ parent = "system" => fn \in {"do_system", "do_system(NULL)"}
  /\ parent \in {"fork", "open", "failed", "wait"} =>
       fn \in {"do_exec", "do_exec_redirect"}
  /\ parent \in {"idle", "system", "fork", "failed"} => child = "none"
  /\ fn \in {"do_system", "do_system(NULL)"} => child = "none"
  /\ fn = "do_exec" => child \notin {"open", "dup2", "stray"}

(* What is known of the command: it was started by a child that is now the *)
(* command, and a child of do_exec that ended without starting it ended in *)
(* exit(-1).                                                               *)
Command ==
  fn \in {"do_exec", "do_exec_redirect"} =>
    /\ child # "gone" => ended = Running
    /\ executed => child \in {"command", "written", "gone"}
    /\ child \in {"command", "written"} => executed
    /\ fn = "do_exec" /\ child = "gone" /\ ~executed => ended = Exited(255)

(* What the caller knows: there is a status only after the wait, which saw *)
(* the child's end, and the result is that status.                         *)
Report ==
  /\ parent # "returned" => ~waited
  /\ parent = "returned" /\ fn \in {"do_exec", "do_exec_redirect"} =>
       /\ waited => child = "gone"
       /\ result <=> waited /\ wait_result(ended)
  /\ parent = "returned" /\ fn = "do_system" =>
       (waited /\ Succeeded => result) /\ (result => waited)

(* The inductive invariant.                                                *)
ExecInv == TypeOK /\ TwoProcesses /\ Command /\ Report

(* No outcome of a process is Running, or Exited(0) and Killed at once.    *)
LEMMA Ends ==
  /\ \A end \in Outcomes : end # Running
  /\ Exited(255) # Running /\ Exited(127) # Running
  /\ ~wait_result(Exited(255)) /\ ~wait_result(Running)
  /\ wait_result(Exited(0))
  /\ \A end \in Outcomes \cup {Running, Exited(127), Exited(255)} :
       wait_result(end) <=> end = Exited(0)
  BY SystemCallsAssumption
  DEF Outcomes, Exited, Killed, Running, wait_result

LEMMA InitExec == Init => ExecInv
  <1> SUFFICES ASSUME Init PROVE ExecInv
    OBVIOUS
  <1>1. TypeOK
    <2>1. fds \in 0 .. MaxFds
      BY SystemCallsAssumption DEF Init
    <2>2. file \in {<< >>, Output}
      BY DEF Init
    <2>4. ended \in Outcomes \cup {Running, Exited(127), Exited(255)}
      BY DEF Init
    <2>3. QED
      BY <2>1, <2>2, <2>4 DEF Init, TypeOK, Functions
  <1>2. TwoProcesses /\ Command /\ Report
    BY DEF Init, TwoProcesses, Command, Report
  <1>3. QED
    BY <1>1, <1>2 DEF ExecInv

LEMMA CallExec ==
  ASSUME ExecInv, NEW f \in Functions, Call(f)
  PROVE  ExecInv'
  BY DEF ExecInv, TypeOK, TwoProcesses, Command, Report, Functions, Call

(* system(): a command that exited with 0 gives the status 0, which is     *)
(* neither of the values do_system takes for a failure; with no status it  *)
(* is handed -1, which is one.                                             *)
LEMMA SystemExec ==
  ASSUME ExecInv, SystemNull \/ System
  PROVE  ExecInv'
  <1>1. /\ parent = "system" /\ parent' = "returned"
        /\ UNCHANGED <<fn, child, fds, childfd, file>>
        /\ result' \in BOOLEAN
    BY DEF SystemNull, System, Return, do_system
  <1>2. TypeOK'
    <2>1. executed' \in BOOLEAN /\ waited' \in BOOLEAN
      BY DEF ExecInv, TypeOK, SystemNull, System
    <2>2. ended' \in Outcomes \cup {Running, Exited(127), Exited(255)}
      <3>1. ended' = ended \/ ended' = Exited(127) \/ ended' \in Outcomes
        BY Zenon DEF SystemNull, System
      <3>2. QED
        BY <3>1 DEF ExecInv, TypeOK
    <2>3. QED
      BY <1>1, <2>1, <2>2 DEF ExecInv, TypeOK
  <1>3. TwoProcesses' /\ Command'
    BY <1>1 DEF ExecInv, TwoProcesses, Command
  <1>4. fn = "do_system" => (waited' /\ Succeeded' => result') /\ (result' => waited')
    <2> SUFFICES ASSUME fn = "do_system" PROVE (waited' /\ Succeeded' => result') /\ (result' => waited')
      OBVIOUS
    <2>1. System /\ ~waited
      BY DEF ExecInv, Report, SystemNull, System
    <2>2. do_system(TRUE, Status(Exited(0))) /\ ~do_system(TRUE, -1)
      BY DEF do_system, Status, Exited
    <2>3. CASE Return(do_system(TRUE, -1)) /\ UNCHANGED <<executed, ended, waited>>
      BY <2>1, <2>2, <2>3 DEF Return
    <2>4. CASE ended' = Exited(127) /\ waited' = TRUE
      BY <2>4 DEF Succeeded, Exited
    <2>5. ASSUME NEW end \in Outcomes, Return(do_system(TRUE, Status(end))),
                 ended' = end, waited' = TRUE
          PROVE  (waited' /\ Succeeded' => result') /\ (result' => waited')
      BY <2>2, <2>5 DEF Return, Succeeded
    <2>6. QED
      BY <2>1, <2>3, <2>4, <2>5 DEF System
  <1>5. Report'
    BY <1>1, <1>4 DEF ExecInv, TwoProcesses, Report
  <1>6. QED
    BY <1>2, <1>3, <1>5 DEF ExecInv

(* The caller's steps up to the wait leave the child and its end alone.    *)
LEMMA ForkExec ==
  ASSUME ExecInv, Fork
  PROVE  ExecInv'
  BY DEF ExecInv, TypeOK, TwoProcesses, Command, Report, Functions, Fork

LEMMA ParentOpenExec ==
  ASSUME ExecInv, ParentOpen
  PROVE  ExecInv'
  <1>1. fds' \in 0 .. MaxFds /\ file' \in {<< >>, Output}
    BY SystemCallsAssumption DEF ExecInv, TypeOK, ParentOpen
  <1>2. QED
    BY <1>1 DEF ExecInv, TypeOK, TwoProcesses, Command, Report, ParentOpen, Succeeded

LEMMA ParentFailedExec ==
  ASSUME ExecInv, ParentFailed
  PROVE  ExecInv'
  BY DEF ExecInv, TypeOK, TwoProcesses, Command, Report, ParentFailed, Return

(* waitpid returns the child's end once it has ended, and nothing before.  *)
LEMMA WaitExec ==
  ASSUME ExecInv, Wait \/ WaitFails
  PROVE  ExecInv'
  <1>1. /\ parent = "wait" /\ parent' = "returned" /\ ~waited
        /\ fn \in {"do_exec", "do_exec_redirect"}
        /\ UNCHANGED <<fn, child, fds, childfd, file, ended, executed>>
    BY DEF ExecInv, TwoProcesses, Report, Wait, WaitFails, Return
  <1>2. /\ result' \in BOOLEAN /\ waited' \in BOOLEAN
        /\ waited' => child = "gone"
        /\ result' <=> waited' /\ wait_result(ended)
    <2>1. CASE Wait
      BY <2>1, Zenon DEF Wait, Return, wait_result
    <2>2. CASE WaitFails
      BY <1>1, <2>2 DEF WaitFails, Return, ExecInv, TypeOK
    <2>3. QED
      BY <2>1, <2>2
  <1>3. TypeOK'
    BY <1>1, <1>2 DEF ExecInv, TypeOK
  <1>4. TwoProcesses' /\ Command'
    BY <1>1 DEF ExecInv, TwoProcesses, Command
  <1>5. Report'
    BY <1>1, <1>2 DEF Report
  <1>6. QED
    BY <1>3, <1>4, <1>5 DEF ExecInv

(* The child's steps.  The caller may have returned already, when waitpid  *)
(* failed; then it has no status, and the result stays FALSE.              *)
LEMMA ChildExecInv ==
  ASSUME ExecInv, ChildSteps
  PROVE  ExecInv'
  <1>1. /\ child \in {"open", "dup2", "exec", "command", "written", "stray"}
        /\ UNCHANGED <<fn, parent, fds, result, waited>>
    BY DEF ChildSteps, ChildOpen, ChildDup2, ChildExec, CommandWrites, ChildEnds
  <1>2. TypeOK'
    <2>1. childfd' \in BOOLEAN /\ executed' \in BOOLEAN
      BY DEF ExecInv, TypeOK, ChildSteps, ChildOpen, ChildDup2, ChildExec,
             CommandWrites, ChildEnds
    <2>2. child' \in {"dup2", "exec", "command", "written", "stray", "gone"}
      BY DEF ChildSteps, ChildOpen, ChildDup2, ChildExec, CommandWrites, ChildEnds
    <2>3. file' \in {<< >>, Output}
      BY DEF ExecInv, TypeOK, ChildSteps, ChildOpen, ChildDup2, ChildExec,
             CommandWrites, ChildEnds
    <2>4. ended' \in Outcomes \cup {Running, Exited(127), Exited(255)}
      BY DEF ExecInv, TypeOK, ChildSteps, ChildOpen, ChildDup2, ChildExec,
             CommandWrites, ChildEnds
    <2>5. QED
      BY <1>1, <2>1, <2>2, <2>3, <2>4 DEF ExecInv, TypeOK
  <1>3. fn \in {"do_exec", "do_exec_redirect"}
    BY <1>1 DEF ExecInv, TypeOK, Functions, TwoProcesses
  <1>4. TwoProcesses' /\ Command'
    BY <1>1, <1>3
    DEF ExecInv, TypeOK, TwoProcesses, Command, ChildSteps, ChildOpen, ChildDup2,
        ChildExec, CommandWrites, ChildEnds
  <1>5. Report'
    BY <1>1, <1>3 DEF ExecInv, Report
  <1>6. QED
    BY <1>2, <1>4, <1>5 DEF ExecInv

LEMMA NextExec == ExecInv /\ [Next]_vars => ExecInv'
  <1>1. ASSUME ExecInv, UNCHANGED vars PROVE ExecInv'
    BY <1>1 DEF ExecInv, TypeOK, TwoProcesses, Command, Report, Succeeded, vars
  <1>2. QED
    BY <1>1, CallExec, SystemExec, ForkExec, ParentOpenExec, ParentFailedExec,
       WaitExec, ChildExecInv DEF Next, ParentSteps

LEMMA ExecInvHolds == Spec => []ExecInv
  BY InitExec, NextExec, PTL DEF Spec

(* The caller's descriptors stay within their limit, and every variable in *)
(* its type, whichever calls of systemcalls.c fail.                        *)
THEOREM TypesHold == Spec => []TypeOK
  <1>1. ExecInv => TypeOK
    BY DEF ExecInv
  <1>2. QED
    BY <1>1, ExecInvHolds, PTL

(* do_exec and do_exec_redirect report exactly the commands that ran and   *)
(* exited with 0, for every set of exit codes and every interleaving of    *)
(* caller and child; do_system never turns a success into a failure.       *)
THEOREM ExecResultHolds == Spec => []ExecResultIsRight
  <1>1. ASSUME ExecInv PROVE ExecResultIsRight
    <2>1. wait_result(ended) <=> ended = Exited(0)
      BY <1>1, Ends DEF ExecInv, TypeOK
    <2>2. Exited(255) # Exited(0)
      BY DEF Exited
    <2>3. QED
      BY <1>1, <2>1, <2>2
      DEF ExecInv, TypeOK, TwoProcesses, Command, Report, ExecResultIsRight, Succeeded
  <1>2. QED
    BY <1>1, ExecInvHolds, PTL
=============================================================================
