----------------------------- MODULE SystemCalls -----------------------------
(***************************************************************************)
(* examples/systemcalls/systemcalls.c: do_system, do_exec and              *)
(* do_exec_redirect, called one after the other by one process.  do_exec   *)
(* and do_exec_redirect run as two processes, parent and child, whose      *)
(* steps interleave until the parent has waited for the child.             *)
(*                                                                         *)
(* The command is what it does: it writes its output, then exits with a    *)
(* code or is killed.  fork, open, dup2, execv, waitpid and system may     *)
(* fail.                                                                   *)
(***************************************************************************)
EXTENDS Integers, Sequences

CONSTANTS
  ExitCodes,  \* codes commands exit with
  MaxFds      \* descriptors the process may have open besides stdout

ASSUME SystemCallsAssumption ==
  ExitCodes \subseteq 0 .. 255 /\ MaxFds \in Nat

(* How a process ended: WIFEXITED with WEXITSTATUS, or killed.             *)
Exited(code) == [exited |-> TRUE, code |-> code]
Killed == [exited |-> FALSE, code |-> 0]
Running == [exited |-> FALSE, code |-> -1]
Outcomes == {Exited(code) : code \in ExitCodes} \cup {Killed}

VARIABLES
  fn,        \* the function being called
  parent,    \* where the caller is
  child,     \* where the forked process is
  fds,       \* descriptors of outputfile open in the caller
  childfd,   \* the child's descriptor is good
  file,      \* contents of outputfile
  ended,     \* how the child, or the command of system(), ended
  executed,  \* the command was started
  result,    \* what the call returned
  waited     \* waitpid, or system(), gave a status

vars == <<fn, parent, child, fds, childfd, file, ended, executed, result, waited>>

Functions == {"do_system", "do_system(NULL)", "do_exec", "do_exec_redirect"}
Output == <<"output">>

Init ==
  /\ fn = "do_exec" /\ parent = "idle" /\ child = "none"
  /\ fds = 0 /\ childfd = FALSE
  /\ file = << >>
  /\ ended = Running /\ executed = FALSE /\ result = FALSE /\ waited = FALSE

Call(f) ==
  /\ parent \in {"idle", "returned"} /\ child \in {"none", "gone"}
  /\ fn' = f
  /\ parent' = IF f \in {"do_system", "do_system(NULL)"} THEN "system" ELSE "fork"
  /\ child' = "none" /\ childfd' = FALSE
  /\ ended' = Running /\ executed' = FALSE /\ result' = FALSE /\ waited' = FALSE
  /\ UNCHANGED <<fds, file>>

Return(value) == parent' = "returned" /\ result' = value

-----------------------------------------------------------------------------
(* The status word of wait(2): the exit code in the second byte, a signal  *)
(* in the first.                                                           *)
Status(end) == IF end.exited THEN end.code * 256 ELSE 9

do_system(has_cmd, sys_ret) ==
  (has_cmd \/ sys_ret # 0) /\ sys_ret # -1 /\ sys_ret # 127

(* system(NULL) asks whether there is a shell.                             *)
SystemNull ==
  /\ parent = "system" /\ fn = "do_system(NULL)"
  /\ \E shell \in {0, 1} : Return(do_system(FALSE, shell))
  /\ UNCHANGED <<fn, child, fds, childfd, file, ended, executed, waited>>

(* system(cmd) with a command: -1 when no child could be had, otherwise    *)
(* the status of the shell, which exits with 127 when it cannot run it.    *)
System ==
  /\ parent = "system" /\ fn = "do_system"
  /\ \/ /\ Return(do_system(TRUE, -1))
        /\ UNCHANGED <<executed, ended, waited>>
     \/ /\ Return(do_system(TRUE, Status(Exited(127))))
        /\ ended' = Exited(127) /\ waited' = TRUE
        /\ UNCHANGED executed
     \/ \E end \in Outcomes :
          /\ Return(do_system(TRUE, Status(end)))
          /\ executed' = TRUE /\ ended' = end /\ waited' = TRUE
  /\ UNCHANGED <<fn, child, fds, childfd, file>>

-----------------------------------------------------------------------------
(* fork(); the redirecting version opens outputfile next, in every process *)
(* there is then and before it looks at the result of fork.                *)
Fork ==
  /\ parent = "fork"
  /\ \/ child' = "none"                                       \* fork failed
     \/ child' = IF fn = "do_exec" THEN "exec" ELSE "open"
  /\ parent' = IF fn = "do_exec_redirect" THEN "open"
               ELSE IF child' = "none" THEN "failed" ELSE "wait"
  /\ UNCHANGED <<fn, fds, childfd, file, ended, executed, result, waited>>

(* open(outputfile, O_CREAT | O_WRONLY | O_TRUNC) in the parent, which may *)
(* run out of descriptors: nothing ever closes them.                       *)
ParentOpen ==
  /\ parent = "open"
  /\ \/ fds < MaxFds /\ fds' = fds + 1 /\ file' = << >>
     \/ UNCHANGED <<fds, file>>
  /\ parent' = IF child = "none" THEN "failed" ELSE "wait"
  /\ UNCHANGED <<fn, child, childfd, ended, executed, result, waited>>

(* Mutant of ParentFailed: closes the file, also one that is not open.     *)
ParentFailed_Closes ==
  /\ parent = "failed"
  /\ Return(FALSE)
  /\ fds' = fds - 1
  /\ UNCHANGED <<fn, child, childfd, file, ended, executed, waited>>

ParentFailed ==
  /\ parent = "failed"
  /\ Return(FALSE)
  /\ UNCHANGED <<fn, child, fds, childfd, file, ended, executed, waited>>

(* The child's own open, on its copy of the descriptor table as it was at  *)
(* the fork.                                                               *)
ChildOpen ==
  /\ child = "open"
  /\ \/ childfd' = TRUE /\ file' = << >>
     \/ childfd' = FALSE /\ UNCHANGED file
  /\ child' = "dup2"
  /\ UNCHANGED <<fn, parent, fds, ended, executed, result, waited>>

(* When dup2 fails the child returns false to its caller: from here on two *)
(* processes run the program.  The second one is followed until it ends,   *)
(* with whatever code the program ends with.                               *)
ChildDup2 ==
  /\ child = "dup2"
  /\ \/ childfd /\ child' = "exec"
     \/ child' = "stray"
  /\ UNCHANGED <<fn, parent, fds, childfd, file, ended, executed, result, waited>>

ChildExec ==
  /\ child = "exec"
  /\ \/ child' = "command" /\ executed' = TRUE /\ UNCHANGED ended
     \/ child' = "gone" /\ ended' = Exited(255) /\ UNCHANGED executed  \* exit(-1)
  /\ UNCHANGED <<fn, parent, fds, childfd, file, result, waited>>

(* The command writes its output.  Redirected, it goes to the file, from   *)
(* the child's own file offset, which is still 0.                          *)
CommandWrites ==
  /\ child = "command"
  /\ file' = IF fn = "do_exec_redirect" THEN Output ELSE file
  /\ child' = "written"
  /\ UNCHANGED <<fn, parent, fds, childfd, ended, executed, result, waited>>

ChildEnds ==
  /\ child \in {"written", "stray"}
  /\ \E end \in Outcomes : ended' = end
  /\ child' = "gone"
  /\ UNCHANGED <<fn, parent, fds, childfd, file, executed, result, waited>>

(* Mutant of wait_result: a status of 0 in the exit byte is success, even  *)
(* of a child that was killed.                                             *)
wait_result_NoWIFEXITED(end) == end.code = 0

wait_result(end) == end.exited /\ end.code = 0

(* Mutant of Wait: waits until there is a status with WIFEXITED.           *)
Wait_UntilExited ==
  /\ parent = "wait" /\ child = "gone" /\ ended.exited
  /\ Return(wait_result(ended)) /\ waited' = TRUE
  /\ UNCHANGED <<fn, child, fds, childfd, file, ended, executed>>

(* waitpid blocks until the child is gone, and gives its status.           *)
Wait ==
  /\ parent = "wait" /\ child = "gone"
  /\ Return(wait_result(ended)) /\ waited' = TRUE
  /\ UNCHANGED <<fn, child, fds, childfd, file, ended, executed>>

(* waitpid returns -1: a signal with a handler came, or somebody else has  *)
(* taken the status.                                                       *)
WaitFails ==
  /\ parent = "wait"
  /\ Return(FALSE)
  /\ UNCHANGED <<fn, child, fds, childfd, file, ended, executed, waited>>

ParentSteps == SystemNull \/ System \/ Fork \/ ParentOpen \/ ParentFailed \/ Wait
ChildSteps == ChildOpen \/ ChildDup2 \/ ChildExec \/ CommandWrites \/ ChildEnds

Next == (\E f \in Functions : Call(f)) \/ ParentSteps \/ WaitFails \/ ChildSteps

Spec == Init /\ [][Next]_vars

(* Both processes are scheduled, and the command ends.  Nothing makes      *)
(* waitpid fail.                                                           *)
FairSpec == Spec /\ WF_vars(ParentSteps) /\ WF_vars(ChildSteps)

-----------------------------------------------------------------------------
(* The types of the caller's, the child's and the file's state.            *)
TypeOK ==
  /\ fn \in Functions
  /\ parent \in {"idle", "system", "fork", "open", "failed", "wait", "returned"}
  /\ child \in {"none", "open", "dup2", "exec", "command", "written", "stray", "gone"}
  /\ fds \in 0 .. MaxFds
  /\ file \in {<< >>, Output}
  /\ ended \in Outcomes \cup {Running, Exited(127), Exited(255)}
  /\ childfd \in BOOLEAN /\ executed \in BOOLEAN
  /\ result \in BOOLEAN /\ waited \in BOOLEAN

Succeeded == executed /\ ended = Exited(0)

(* "true if the command ... were executed successfully using the execv()   *)
(* call, false if ... fork, waitpid, or execv() ..., or if a non-zero      *)
(* return value was returned" (systemcalls.c:48-51): do_exec returns true  *)
(* exactly when it waited for a command that ran and exited with 0,        *)
(* whichever of its calls fails and however the two processes interleave.  *)
(* So does do_exec_redirect when the command was started, although both    *)
(* processes open the file (systemcalls.c:160-205).  do_system at least    *)
(* never reports a command that succeeded as a failure, nor a system()     *)
(* that failed as a success (systemcalls.c:17-39).                         *)
ExecResultIsRight ==
  parent = "returned" =>
    LET right == result <=> waited /\ Succeeded
    IN  /\ fn = "do_exec" => right
        /\ fn = "do_exec_redirect" /\ executed => right
        /\ fn = "do_system" => (waited /\ Succeeded => result) /\ (result => waited)

(* Every call returns once its command has ended, however it ended: the    *)
(* caller blocks in waitpid (systemcalls.c:104, 182) for a child that      *)
(* runs, fails to run, is killed or went on as a second process, and never *)
(* for a child that fork did not make.                                     *)
CallsReturn == parent # "idle" ~> parent = "returned"

(* "false if an error occurred, either in invocation of the system() call, *)
(* or if a non-zero return value was returned by the command"              *)
(* (systemcalls.c:5-8).                                                    *)
SystemResultIsRight ==
  parent = "returned" /\ fn = "do_system" => (result <=> waited /\ Succeeded)

(* "The full path to the file to write with command output"                *)
(* (systemcalls.c:131): a redirected command that succeeded has left its   *)
(* output in the file.                                                     *)
OutputIsInFile ==
  parent = "returned" /\ fn = "do_exec_redirect" /\ result /\ executed => file = Output
=============================================================================
