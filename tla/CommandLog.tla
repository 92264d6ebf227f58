----------------------------- MODULE CommandLog -----------------------------
(***************************************************************************)
(* What the device promises its users: one log of bytes, to which every    *)
(* system call is a single atomic step somewhere between its invocation    *)
(* and its return.  There is no ring, no memory and no lock here.          *)
(***************************************************************************)
EXTENDS LineLog

CONSTANTS
  Procs,   \* threads
  Calls,   \* the system calls they make
  NoCall,  \* "not in a system call"
  NoReply  \* "not answered yet"

VARIABLES
  log,     \* the last MAX complete lines, then the unfinished one
  call,    \* each thread's system call
  reply    \* its answer, once the call has taken effect

vars == <<log, call, reply>>

-----------------------------------------------------------------------------
Init ==
  /\ log = << >>
  /\ call = [p \in Procs |-> NoCall]
  /\ reply = [p \in Procs |-> NoReply]

Begin(p) ==
  /\ call[p] = NoCall
  /\ call'[p] \in Calls
  /\ call' = [call EXCEPT ![p] = call'[p]]
  /\ UNCHANGED log

Invoke(p) == Begin(p) /\ UNCHANGED reply

(* Turned down on the spot: nothing to write, a bad ioctl.                 *)
Refuse(p) ==
  /\ Begin(p)
  /\ \E ret \in {0, -14, -25} :
       /\ IF ret = 0 THEN call'[p].op = "write" /\ call'[p].buf = << >>
                     ELSE call'[p].op = "ioctl"
       /\ reply' = [reply EXCEPT ![p] = [ret |-> ret, data |-> << >>]]

Pending(p, op) == call[p].op = op /\ reply[p] = NoReply

Reply(p, ret, data) ==
  /\ reply' = [reply EXCEPT ![p] = [ret |-> ret, data |-> data]]
  /\ UNCHANGED call

(* The whole buffer enters the log, and the call returns its length.       *)
Accept(p) ==
  /\ Pending(p, "write")
  /\ Reply(p, Len(call[p].buf), << >>)
  /\ log' = Recent(log \o call[p].buf)

(* Out of memory: some of the buffer's complete lines enter the log, never *)
(* a piece of a line and never all of the buffer.                          *)
AcceptLines(p) ==
  /\ Pending(p, "write")
  /\ Reply(p, -12, << >>)
  /\ \E n \in Ends(call[p].buf) \cup {0} :
       n < Len(call[p].buf) /\ log' = Recent(log \o SubSeq(call[p].buf, 1, n))

Fetch(p) ==
  /\ Pending(p, "read")
  /\ LET bytes == BytesAt(log, call[p].pos, call[p].count)
     IN  Reply(p, Len(bytes), bytes)
  /\ UNCHANGED log

Size(p) ==
  /\ Pending(p, "lseek")
  /\ Reply(p, Len(Complete(log)), << >>)
  /\ UNCHANGED log

SeekTo(p) ==
  /\ Pending(p, "ioctl")
  /\ LET at == Positions(log, call[p].to.write_cmd, call[p].to.write_cmd_offset)
     IN  \E ret \in IF at = {} THEN {-22} ELSE at : Reply(p, ret, << >>)
  /\ UNCHANGED log

(* A signal while waiting, or an unreadable user buffer: nothing happened. *)
Fail(p) ==
  /\ \E op \in {"read", "write", "lseek", "ioctl"} :
       /\ Pending(p, op)
       /\ \/ Reply(p, -512, << >>)
          \/ op \in {"read", "write"} /\ Reply(p, -14, << >>)
  /\ UNCHANGED log

Return(p) ==
  /\ reply[p] # NoReply
  /\ call' = [call EXCEPT ![p] = NoCall]
  /\ reply' = [reply EXCEPT ![p] = NoReply]
  /\ UNCHANGED log

(* The device goes away and a new one starts empty.                        *)
Unload ==
  /\ \A p \in Procs : call[p] = NoCall
  /\ log' = << >>
  /\ UNCHANGED <<call, reply>>

Next ==
  \/ \E p \in Procs :
       \/ Invoke(p) \/ Refuse(p)
       \/ Accept(p) \/ AcceptLines(p) \/ Fetch(p) \/ Size(p) \/ SeekTo(p)
       \/ Fail(p) \/ Return(p)
  \/ Unload

Spec == Init /\ [][Next]_vars
=============================================================================
