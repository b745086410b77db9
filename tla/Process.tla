------------------------------ MODULE Process ------------------------------
(***************************************************************************)
(* Child processes (process.c): process_start forks them with a pipe for   *)
(* each output stream, and fatso_process_wait_all passes on what they      *)
(* write and collects their exit statuses.  fatso_system and               *)
(* fatso_system_with_capture do so for one process.                        *)
(*                                                                         *)
(* The children run beside the parent: each writes what it has to write,   *)
(* blocks while its pipe is full, exits or is killed, and may leave a      *)
(* background process behind that keeps its pipes open.                    *)
(***************************************************************************)
EXTENDS Integers

CONSTANTS
  N,         \* how many processes wait_all is given
  Streams,   \* stdout and stderr
  Plans,     \* what a child may have to write: units of output per stream
  Codes,     \* exit codes
  Hearings,  \* the sets of streams that may have a callback
  PipeSize   \* units of output that fit into a pipe

ASSUME NAssumption == N \in Nat \ {0}
ASSUME PlansAssumption == Plans \subseteq [Streams -> Nat]
ASSUME CodesAssumption == 0 \in Codes /\ Codes \subseteq Nat
ASSUME HearingsAssumption == Hearings \subseteq SUBSET Streams
ASSUME PipeSizeAssumption == PipeSize \in Nat \ {0}

Procs == 1..N

VARIABLES
  pc,       \* where the parent is
  i,        \* index of its loop over the processes
  pid,      \* pid: 0 before the fork and after waitpid, -1 if there is none
  status,   \* out_statuses, uninitialized at first
  unread,   \* descriptors select found ready and the loop has yet to read
  heard,    \* the streams that have a callback
  child,    \* the process itself
  code,     \* its exit code
  left,     \* what it has still to write
  pipe,     \* what is in its pipes
  shared,   \* those gone that left a process behind which holds their pipes
  over      \* history: those whose process was gone when select returned

vars == <<pc, i, pid, status, unread, heard, child, code, left, pipe, shared, over>>

children == <<child, code, left, pipe, shared>>

TypeOK ==
  /\ pc \in {"start", "select", "read", "reap", "done", "failed"}
  /\ i \in 1..(N + 1)
  /\ pid \in [Procs -> {"none", "running", "reaped", "lost", "failed"}]
  /\ status \in [Procs -> Codes \cup {-1}]
  /\ unread \subseteq {p \in Procs : pid[p] = "running"} \X Streams
  /\ heard \subseteq Streams
  /\ child \in [Procs -> {"none", "alive", "exited", "killed"}]
  /\ code \in [Procs -> Codes]
  /\ left \in [Procs -> [Streams -> Nat]]
  /\ pipe \in [Procs -> [Streams -> 0..PipeSize]]
  /\ shared \subseteq Procs
  /\ over \subseteq Procs

Init ==
  /\ pc = "start" /\ i = 1
  /\ pid = [p \in Procs |-> "none"]
  /\ status = [p \in Procs |-> -1]
  /\ unread = {} /\ over = {}
  /\ heard \in Hearings
  /\ child = [p \in Procs |-> "none"]
  /\ code = [p \in Procs |-> 0]
  /\ left = [p \in Procs |-> [s \in Streams |-> 0]]
  /\ pipe = [p \in Procs |-> [s \in Streams |-> 0]]
  /\ shared = {}

-----------------------------------------------------------------------------
(* process_start, for one process after the other.                         *)
Started(p) ==
  /\ pc = "start" /\ i = p
  /\ i' = i + 1
  /\ UNCHANGED <<pc, status, unread, heard, code, pipe, shared, over>>

Fork(p) ==
  /\ Started(p)
  /\ pid' = [pid EXCEPT ![p] = "running"]
  /\ child' = [child EXCEPT ![p] = "alive"]
  /\ \E plan \in Plans : left' = [left EXCEPT ![p] = plan]

ForkFails(p) ==
  /\ Started(p)
  /\ pid' = [pid EXCEPT ![p] = "failed"]
  /\ UNCHANGED <<child, left>>

StartedAll ==
  /\ pc = "start" /\ i = N + 1
  /\ pc' = "select"
  /\ UNCHANGED <<i, pid, status, unread, heard, children, over>>

-----------------------------------------------------------------------------
(* fatso_process_wait_all.  Mutated Watched: only one of the descriptors   *)
(* is in the set.                                                          *)
WatchedOne(p) == {<<p, CHOOSE s \in Streams : TRUE>>}

Watched(p) == {p} \X Streams

Waiting == \E p \in Procs : pid[p] = "running"

Gone(p) == child[p] \in {"exited", "killed"}

(* A descriptor is ready when there is something to read or when nobody    *)
(* holds the other end of the pipe any more.  Mutated Ready: those of the  *)
(* processes that have been reaped are still in the set.                   *)
ReadyOfAll ==
  {d \in UNION {Watched(p) : p \in Procs} :
     pipe[d[1]][d[2]] > 0 \/ (Gone(d[1]) /\ d[1] \notin shared)}

Ready ==
  {d \in UNION {Watched(p) : p \in {q \in Procs : pid[q] = "running"}} :
     pipe[d[1]][d[2]] > 0 \/ (Gone(d[1]) /\ d[1] \notin shared)}

Select ==
  /\ pc = "select" /\ Waiting
  /\ Ready # {}
  /\ pc' = "read"
  /\ unread' = Ready
  /\ over' = {p \in Procs : Gone(p)}
  /\ UNCHANGED <<i, pid, status, heard, children>>

WaitedForAll ==
  /\ pc = "select" /\ ~Waiting
  /\ pc' = "done"
  /\ UNCHANGED <<i, pid, status, unread, heard, children, over>>

(* select or read fail: wait_all returns -1 at once.                       *)
WaitFails ==
  /\ \/ pc = "select" /\ Waiting
     \/ pc = "read" /\ \E d \in unread : d[2] \in heard
  /\ pc' = "failed"
  /\ UNCHANGED <<i, pid, status, unread, heard, children, over>>

(* One read of a buffer or less, passed to the callback.  The order of the *)
(* descriptors depends on the numbers pipe found free: any order.          *)
Read(p, s) ==
  /\ pc = "read" /\ <<p, s>> \in unread /\ s \in heard
  /\ \E m \in 1..pipe[p][s] : pipe' = [pipe EXCEPT ![p][s] = @ - m]
  /\ UNCHANGED <<pc, i, pid, status, unread, heard, child, code, left, shared, over>>

(* EAGAIN, the end of the file, or nobody to tell.                         *)
NothingToRead(p, s) ==
  /\ pc = "read" /\ <<p, s>> \in unread
  /\ pipe[p][s] = 0 \/ s \notin heard
  /\ unread' = unread \ {<<p, s>>}
  /\ UNCHANGED <<pc, i, pid, status, heard, children, over>>

ReadAll ==
  /\ pc = "read" /\ unread = {}
  /\ pc' = "reap" /\ i' = 1
  /\ UNCHANGED <<pid, status, unread, heard, children, over>>

(* Mutated StatusOf: statuses are filed in the order the processes end.    *)
StatusInOrder(p, c) ==
  LET ended == {q \in Procs : status[q] # -1}
  IN  [status EXCEPT ![CHOOSE q \in Procs \ ended : \A r \in Procs \ ended : q <= r] = c]

StatusOf(p, c) == [status EXCEPT ![p] = c]

(* waitpid with WNOHANG.  It fails when the kernel has reaped the process  *)
(* already (SIGCHLD ignored by whoever started fatso); then wstatus was    *)
(* never written.  A process killed by a signal has exit status 0.         *)
WaitStatus(p) == IF child[p] = "exited" THEN code[p] ELSE 0

Reap(p) ==
  /\ pc = "reap" /\ i = p
  /\ pid[p] = "running" /\ Gone(p)
  /\ \/ /\ pid' = [pid EXCEPT ![p] = "reaped"]
        /\ status' = StatusOf(p, WaitStatus(p))
     \/ /\ pid' = [pid EXCEPT ![p] = "lost"]
        /\ \E c \in Codes : status' = StatusOf(p, c)
  /\ i' = i + 1
  /\ UNCHANGED <<pc, unread, heard, children, over>>

NotYet(p) ==
  /\ pc = "reap" /\ i = p
  /\ ~(pid[p] = "running" /\ Gone(p))
  /\ i' = i + 1
  /\ UNCHANGED <<pc, pid, status, unread, heard, children, over>>

ReapedAll ==
  /\ pc = "reap" /\ i = N + 1
  /\ pc' = "select"
  /\ UNCHANGED <<i, pid, status, unread, heard, children, over>>

-----------------------------------------------------------------------------
(* The children, run by the kernel.                                        *)
parent == <<pc, i, pid, status, unread, heard, over>>

Write(p, s) ==
  /\ child[p] = "alive" /\ left[p][s] > 0 /\ pipe[p][s] < PipeSize
  /\ left' = [left EXCEPT ![p][s] = @ - 1]
  /\ pipe' = [pipe EXCEPT ![p][s] = @ + 1]
  /\ UNCHANGED <<parent, child, code, shared>>

BackgroundEnds(p) ==
  /\ p \in shared
  /\ shared' = shared \ {p}
  /\ UNCHANGED <<parent, child, code, left, pipe>>

(* A process it started may still hold its pipes when it ends.             *)
Ends(p, how) ==
  /\ child[p] = "alive"
  /\ child' = [child EXCEPT ![p] = how]
  /\ left' = [left EXCEPT ![p] = [s \in Streams |-> 0]]
  /\ shared' = shared \/ shared' = shared \cup {p}
  /\ UNCHANGED <<parent, pipe>>

Exit(p) ==
  /\ \A s \in Streams : left[p][s] = 0
  /\ Ends(p, "exited")
  /\ \E c \in Codes : code' = [code EXCEPT ![p] = c]

Killed(p) == Ends(p, "killed") /\ UNCHANGED code

-----------------------------------------------------------------------------
WaitStep ==
  \/ StartedAll \/ Select \/ WaitedForAll \/ ReadAll \/ ReapedAll
  \/ \E p \in Procs : \/ Fork(p) \/ ForkFails(p) \/ Reap(p) \/ NotYet(p)
                      \/ \E s \in Streams : Read(p, s) \/ NothingToRead(p, s)

ChildStep(p) ==
  \/ BackgroundEnds(p) \/ Exit(p) \/ Killed(p)
  \/ \E s \in Streams : Write(p, s)

Next == WaitStep \/ WaitFails \/ \E p \in Procs : ChildStep(p)

(* The parent runs, and every child gets to write and to exit once it has  *)
(* written everything; so do the processes it leaves behind.  That select  *)
(* or read fail is nothing to rely on.                                     *)
Fairness ==
  /\ WF_vars(WaitStep)
  /\ \A p \in Procs :
       /\ WF_vars(Exit(p)) /\ WF_vars(BackgroundEnds(p))
       /\ \A s \in Streams : WF_vars(Write(p, s))

Spec == Init /\ [][Next]_vars /\ Fairness

-----------------------------------------------------------------------------
(* A wait that succeeds has waited for every process that was started, and *)
(* each that waitpid knew has its own exit status, 0 if it was killed.     *)
EachItsStatus ==
  pc = "done" =>
    \A p \in Procs : /\ pid[p] = "failed" \/ Gone(p)
                     /\ pid[p] = "reaped" => status[p] = WaitStatus(p)

(* Before a process is reaped that was gone when select returned, all it   *)
(* wrote has been passed on.                                               *)
DrainedBeforeReap ==
  pc = "reap" =>
    \A p \in over, s \in heard : pid[p] = "running" => pipe[p][s] = 0

(* With a callback for every stream nobody waits for anybody for ever: not *)
(* a child for room in its pipe, nor the parent for the child.             *)
WaitReturns == (heard = Streams) ~> (pc \in {"done", "failed"})

(* The test of the capture expects all the child wrote                     *)
(* (test/test.c:239): when a process has been waited for that exited by    *)
(* itself, none of its output is left in its pipes.                        *)
OutputIsComplete ==
  pc = "done" =>
    \A p \in Procs, s \in heard :
      pid[p] = "reaped" /\ child[p] = "exited" => pipe[p][s] = 0
=============================================================================
