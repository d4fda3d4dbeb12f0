------------------------------- MODULE Pipes -------------------------------
(***************************************************************************)
(* File descriptors and pipes: the fd_mappings and open_nodes of every     *)
(* process (kernel/src/process.rs), the global table PIPES                 *)
(* (kernel/src/scheduler.rs), and the system calls on them: open, close,   *)
(* dup, dup2, pipe, fork, exit, and read and write on a pipe               *)
(* (kernel/src/syscall.rs).                                                *)
(*                                                                         *)
(* Open nodes are copied by a fork; pipes are global and counted, because  *)
(* "cloning will *NOT* increment the ref count of the underlying data".    *)
(* Indices start at 1: descriptor 0 of the code is 1 here.  The contents   *)
(* of a pipe are abstracted to the number of bytes in it, those of a node  *)
(* to its reference count; the scheduler is abstracted to one step of one  *)
(* process at a time (Scheduler).                                          *)
(***************************************************************************)
EXTENDS Naturals, Sequences, FiniteSets, FiniteSetsExt, Slots

CONSTANTS
    Procs,      \* the processes
    StdFds,     \* descriptors a new program has (3 before it closes any)
    MaxFds,     \* bound on the number of descriptors of a process
    MaxNodes,   \* bound on the number of open nodes of a process
    MaxPipes,   \* bound on the length of PIPES
    MaxBuf,     \* bound on the bytes in a pipe
    Counts      \* the counts passed to read and write

ASSUME PipesAssumption ==
    /\ IsFiniteSet(Procs)
    /\ StdFds \in 0..3 /\ MaxFds \in Nat /\ StdFds <= MaxFds /\ MaxNodes \in Nat
    /\ MaxPipes \in Nat /\ MaxBuf \in Nat /\ Counts \subseteq Nat

VARIABLES
    fds,        \* fd_mappings of each process
    nodes,      \* open_nodes of each process, as reference counts (0: None)
    pipes,      \* PIPES
    state,      \* what each process is doing
    pending,    \* the read each process is in the middle of
    dropFd,     \* the descriptor the drop of a process is at; 0 outside a drop
    dropEnd,    \* fd_mappings.len() when the drop began; 0 outside a drop
    panic       \* the kernel panic that stopped the machine

vars == <<fds, nodes, pipes, state, pending, dropFd, dropEnd, panic>>

-----------------------------------------------------------------------------
(* FdMapping, ProcessPipe and the read a process repeats *)

NoFd == [kind |-> "NONE", index |-> 0]
Stdin == [kind |-> "STDIN", index |-> 0]
Stdout == [kind |-> "STDOUT", index |-> 0]     \* Stdout or Stderr
Regular(i) == [kind |-> "REGULAR", index |-> i]
PipeReadEnd(i) == [kind |-> "READ", index |-> i]
PipeWriteEnd(i) == [kind |-> "WRITE", index |-> i]

FdMapping == [kind : {"NONE", "STDIN", "STDOUT", "REGULAR", "READ", "WRITE"}, index : Nat]

\* A Some pipe has at least one end open, so no ends stand for None.
End == {"READ", "WRITE"}
ProcessPipe == [buf : Nat, ends : [End -> Nat]]
NoPipe == [buf |-> 0, ends |-> [e \in End |-> 0]]
NewPipe == [buf |-> 0, ends |-> [e \in End |-> 1]]

\* The read a process is in the middle of, and the pipe it waits for.
PendingRead == [fd : Nat, count : Nat, pipe : Nat]
NoRead == [fd |-> 0, count |-> 0, pipe |-> 0]

SomeFds(f) == {k \in DOMAIN f : f[k] # NoFd}
SomeNodes(n) == {k \in DOMAIN n : n[k] # 0}
SomePipes(ps) == {k \in DOMAIN ps : ps[k] # NoPipe}

-----------------------------------------------------------------------------
(* What the parts of the system calls do to each table *)

\* Mutant of ClosedPipes: the last reader, or the last writer, takes the pipe
\* with it although its other end is still open.
ClosedPipesIgnoresOtherEnd(ps, m) ==
    IF m.kind \notin End THEN ps
    ELSE IF ps[m.index].ends[m.kind] = 1
         THEN Drain([ps EXCEPT ![m.index] = NoPipe], SomePipes(ps) \ {m.index})
         ELSE [ps EXCEPT ![m.index].ends[m.kind] = @ - 1]

\* close, PIPES: the last reference to a pipe takes the pipe with it; otherwise
\* one count goes down and the pipe stays, even with one of its ends all closed.
ClosedPipes(ps, m) ==
    IF m.kind \notin End THEN ps
    ELSE LET ends == ps[m.index].ends
         IN  IF ends[m.kind] = 1 /\ \A e \in End \ {m.kind} : ends[e] = 0
             THEN Drain([ps EXCEPT ![m.index] = NoPipe], SomePipes(ps) \ {m.index})
             ELSE [ps EXCEPT ![m.index].ends[m.kind] = IF @ >= 1 THEN @ - 1 ELSE @]

\* close, open_nodes: one reference less, and every None at the end is popped.
ClosedNodes(n, m) ==
    LET left == IF m.kind = "REGULAR" THEN [n EXCEPT ![m.index] = @ - 1] ELSE n
    IN  Drain(left, SomeNodes(left))

\* Mutant of ClosedFds: the entry is removed and the ones above it move down.
ClosedFdsRemoves(f, fd) == SubSeq(f, 1, fd - 1) \o SubSeq(f, fd + 1, Len(f))

\* close, fd_mappings.
ClosedFds(f, fd) == Drain([f EXCEPT ![fd] = NoFd], SomeFds(f) \ {fd})

\* dup and dup2: one reference more to what the descriptor stands for.
ReferencedPipes(ps, m) ==
    IF m.kind \in End THEN [ps EXCEPT ![m.index].ends[m.kind] = @ + 1] ELSE ps
ReferencedNodes(n, m) ==
    IF m.kind = "REGULAR" THEN [n EXCEPT ![m.index] = @ + 1] ELSE n

\* Mutant of ForkedPipes: the loop counts a pipe end once per process.
ForkedPipesCountsOnce(ps, f) ==
    [i \in DOMAIN ps |-> [ps[i] EXCEPT !.ends =
        [e \in End |-> IF \E fd \in DOMAIN f : f[fd] = [kind |-> e, index |-> i]
                       THEN @[e] + 1 ELSE @[e]]]]

\* fork: one reference more for every descriptor of the child.
ForkedPipes(ps, f) ==
    [i \in DOMAIN ps |-> [ps[i] EXCEPT !.ends =
        [e \in End |-> @[e] + Cardinality({fd \in DOMAIN f : f[fd] = [kind |-> e, index |-> i]})]]]

\* A new descriptor takes the first free number.
FreeFd(f) == FirstFree(f, SomeFds(f))
WithFd(f, m) == Put(f, FreeFd(f), m)

-----------------------------------------------------------------------------
(* The system calls of a running process *)

Init ==
    /\ fds = [p \in Procs |-> <<>>]
    /\ nodes = [p \in Procs |-> <<>>]
    /\ pipes = <<>>
    /\ state = [p \in Procs |-> "NONE"]
    /\ pending = [p \in Procs |-> NoRead]
    /\ dropFd = 0
    /\ dropEnd = 0
    /\ panic = "no"

\* The kernel has one thread: nothing runs while a process is being dropped, or
\* polls the keyboard inside its read.
Idle == panic = "no" /\ \A p \in Procs : state[p] \notin {"DROPPING", "READING_STDIN"}

\* Process p executes a system call other than the read it has to repeat.
Calls(p) == Idle /\ state[p] = "RUNNING" /\ pending[p] = NoRead

IsOpen(p, fd) == fd \in SomeFds(fds[p])

\* The shell starts a program (ProcessData::new).
Launch(p) ==
    /\ Idle
    /\ \A q \in Procs : state[q] = "NONE"
    /\ state' = [state EXCEPT ![p] = "RUNNING"]
    /\ fds' = [fds EXCEPT ![p] = [k \in 1..StdFds |-> IF k = 1 THEN Stdin ELSE Stdout]]
    /\ UNCHANGED <<nodes, pipes, pending, dropFd, dropEnd, panic>>

\* syscall open, once the node has been found or created.
Open(p) ==
    /\ Calls(p)
    /\ FreeFd(fds[p]) <= MaxFds
    /\ LET n == FirstFree(nodes[p], SomeNodes(nodes[p]))
       IN  /\ n <= MaxNodes
           /\ nodes' = [nodes EXCEPT ![p] = Put(@, n, 1)]
           /\ fds' = [fds EXCEPT ![p] = WithFd(@, Regular(n))]
    /\ UNCHANGED <<pipes, state, pending, dropFd, dropEnd, panic>>

\* close(fd): what it does to the tables of p.
CloseFd(p, fd) ==
    LET m == fds[p][fd]
    IN  /\ pipes' = ClosedPipes(pipes, m)
        /\ fds' = [fds EXCEPT ![p] = ClosedFds(@, fd)]
        /\ nodes' = [nodes EXCEPT ![p] = ClosedNodes(@, m)]

\* syscall close
Close(p) ==
    /\ Calls(p)
    /\ \E fd \in SomeFds(fds[p]) : CloseFd(p, fd)
    /\ UNCHANGED <<state, pending, dropFd, dropEnd, panic>>

\* syscall dup
Dup(p) ==
    /\ Calls(p)
    /\ FreeFd(fds[p]) <= MaxFds
    /\ \E fd \in SomeFds(fds[p]) :
         LET m == fds[p][fd]
         IN  /\ pipes' = ReferencedPipes(pipes, m)
             /\ nodes' = [nodes EXCEPT ![p] = ReferencedNodes(@, m)]
             /\ fds' = [fds EXCEPT ![p] = WithFd(@, m)]
    /\ UNCHANGED <<state, pending, dropFd, dropEnd, panic>>

\* dup2 first closes newfd; its own failure, if newfd was not open, is ignored.
AfterClose(p, newfd) ==
    LET m == fds[p][newfd]
    IN  IF IsOpen(p, newfd)
        THEN [fds |-> ClosedFds(fds[p], newfd), nodes |-> ClosedNodes(nodes[p], m),
              pipes |-> ClosedPipes(pipes, m)]
        ELSE [fds |-> fds[p], nodes |-> nodes[p], pipes |-> pipes]

\* open_nodes[node_index].unwrap() and pipes[pipe_index].unwrap() succeed.
Resolves(m, n, ps) ==
    /\ m.kind = "REGULAR" => m.index \in SomeNodes(n)
    /\ m.kind \in End => m.index \in SomePipes(ps)

\* fd_mappings.resize(newfd + 1, None) if newfd is beyond the end, and the
\* assignment to fd_mappings[newfd].
Dup2Fds(f, newfd, m) ==
    [k \in 1..newfd \cup DOMAIN f |->
        IF k = newfd THEN m ELSE IF k \in DOMAIN f THEN f[k] ELSE NoFd]

\* syscall dup2.  newfd > len does not cover newfd = len.
Dup2(p) ==
    /\ Calls(p)
    /\ \E oldfd \in SomeFds(fds[p]), newfd \in 1..MaxFds :
         LET m == fds[p][oldfd]
             closed == AfterClose(p, newfd)
         IN  /\ Resolves(m, closed.nodes, closed.pipes)
             /\ newfd # Len(closed.fds) + 1
             /\ pipes' = ReferencedPipes(closed.pipes, m)
             /\ nodes' = [nodes EXCEPT ![p] = ReferencedNodes(closed.nodes, m)]
             /\ fds' = [fds EXCEPT ![p] = Dup2Fds(closed.fds, newfd, m)]
    /\ UNCHANGED <<state, pending, dropFd, dropEnd, panic>>

\* syscall dup2, where it panics: the mapping it copied was of the descriptor it
\* has just closed, or fd_mappings[newfd] is one above the end.
Dup2Panics(p) ==
    /\ Calls(p)
    /\ \E oldfd \in SomeFds(fds[p]), newfd \in 1..MaxFds :
         LET closed == AfterClose(p, newfd)
             resolves == Resolves(fds[p][oldfd], closed.nodes, closed.pipes)
         IN  \/ ~resolves /\ panic' = "unwrap"
             \/ resolves /\ newfd = Len(closed.fds) + 1 /\ panic' = "index"
    /\ UNCHANGED <<fds, nodes, pipes, state, pending, dropFd, dropEnd>>

\* syscall pipe: the new pipe is always pushed.
Pipe(p) ==
    /\ Calls(p)
    /\ Len(pipes) < MaxPipes
    /\ LET i == Len(pipes) + 1
           f == WithFd(fds[p], PipeReadEnd(i))
       IN  /\ FreeFd(f) <= MaxFds
           /\ pipes' = Append(pipes, NewPipe)
           /\ fds' = [fds EXCEPT ![p] = WithFd(f, PipeWriteEnd(i))]
    /\ UNCHANGED <<nodes, state, pending, dropFd, dropEnd, panic>>

\* syscall fork: the child has a copy of everything.
Fork(p) ==
    /\ Calls(p)
    /\ \E c \in Procs :
         /\ state[c] = "NONE"
         /\ state' = [state EXCEPT ![c] = "RUNNING"]
         /\ fds' = [fds EXCEPT ![c] = fds[p]]
         /\ nodes' = [nodes EXCEPT ![c] = nodes[p]]
    /\ pipes' = ForkedPipes(pipes, fds[p])
    /\ UNCHANGED <<pending, dropFd, dropEnd, panic>>

\* syscall write on a pipe; without readers it returns -1.
Write(p) ==
    /\ Calls(p)
    /\ \E fd \in SomeFds(fds[p]), count \in Counts :
         LET m == fds[p][fd]
         IN  /\ m.kind = "WRITE"
             /\ pipes[m.index].ends["READ"] # 0
             /\ pipes[m.index].buf + count <= MaxBuf
             /\ pipes' = [pipes EXCEPT ![m.index].buf = @ + count]
    /\ UNCHANGED <<fds, nodes, state, pending, dropFd, dropEnd, panic>>

\* The reads p can execute: the one it repeats, or a new one on a pipe.
Reads(p) ==
    IF pending[p] # NoRead THEN {pending[p]}
    ELSE {[fd |-> fd, count |-> c, pipe |-> fds[p][fd].index] :
             fd \in {k \in SomeFds(fds[p]) : fds[p][k].kind = "READ"}, c \in Counts}

\* syscall read on a pipe that returns: data, or 0 at the end of the file.
ReadReturns(p) ==
    /\ Idle /\ state[p] = "RUNNING"
    /\ \E r \in Reads(p) :
         LET pipe == pipes[r.pipe]
             taken == IF r.count < pipe.buf THEN r.count ELSE pipe.buf
         IN  /\ taken = 0 => pipe.ends["WRITE"] = 0
             /\ pipes' = [pipes EXCEPT ![r.pipe].buf = @ - taken]
    /\ pending' = [pending EXCEPT ![p] = NoRead]
    /\ UNCHANGED <<fds, nodes, state, dropFd, dropEnd, panic>>

\* syscall read on a pipe that has to wait for a writer.
ReadBlocks(p) ==
    /\ Idle /\ state[p] = "RUNNING"
    /\ \E r \in Reads(p) :
         /\ r.count = 0 \/ pipes[r.pipe].buf = 0
         /\ pipes[r.pipe].ends["WRITE"] # 0
         /\ pending' = [pending EXCEPT ![p] = r]
    /\ state' = [state EXCEPT ![p] = "WAITING_FOR_READ_PIPE"]
    /\ UNCHANGED <<fds, nodes, pipes, dropFd, dropEnd, panic>>

\* Mutant of WaitOver: only data ends a wait, not the end of the file.
WaitOverOnData(p) ==
    /\ state[p] = "WAITING_FOR_READ_PIPE"
    /\ pipes[pending[p].pipe].buf > 0

\* There is data for a reader that waits, or nobody left to write any.
WaitOver(p) ==
    /\ state[p] = "WAITING_FOR_READ_PIPE"
    /\ pipes[pending[p].pipe].buf > 0 \/ pipes[pending[p].pipe].ends["WRITE"] = 0

\* tick() finds that the wait of a reader is over.
Wakes(p) ==
    /\ Idle /\ WaitOver(p)
    /\ state' = [state EXCEPT ![p] = "RUNNING"]
    /\ UNCHANGED <<fds, nodes, pipes, pending, dropFd, dropEnd, panic>>

\* syscall read of Stdin when no character is there: the loop that waits for one
\* does not let go of the kernel.
ReadStdin(p) ==
    /\ Calls(p)
    /\ \E fd \in SomeFds(fds[p]) : fds[p][fd] = Stdin
    /\ state' = [state EXCEPT ![p] = "READING_STDIN"]
    /\ UNCHANGED <<fds, nodes, pipes, pending, dropFd, dropEnd, panic>>

\* The user has typed a character and the read returns it.
KeyPressed(p) ==
    /\ state[p] = "READING_STDIN"
    /\ state' = [state EXCEPT ![p] = "RUNNING"]
    /\ UNCHANGED <<fds, nodes, pipes, pending, dropFd, dropEnd, panic>>

-----------------------------------------------------------------------------
(* The end of a process *)

\* syscall exit, or a signal: the descriptors stay open until the drop.
Terminate(p) ==
    /\ Calls(p)
    /\ state' = [state EXCEPT ![p] = "TERMINATED"]
    /\ UNCHANGED <<fds, nodes, pipes, pending, dropFd, dropEnd, panic>>

\* The scheduler empties the slot of p and ProcessData::drop begins.
DropBegin(p) ==
    /\ Idle /\ state[p] = "TERMINATED"
    /\ state' = [state EXCEPT ![p] = "DROPPING"]
    /\ dropFd' = 1
    /\ dropEnd' = Len(fds[p])
    /\ UNCHANGED <<fds, nodes, pipes, pending, panic>>

\* Mutant of DropStep: only read ends are closed.
DropStepKeepsWriteEnds(p) ==
    /\ state[p] = "DROPPING"
    /\ dropFd <= dropEnd
    /\ IF fds[p][dropFd].kind = "READ" THEN CloseFd(p, dropFd)
       ELSE UNCHANGED <<fds, nodes, pipes>>
    /\ dropFd' = dropFd + 1
    /\ UNCHANGED <<state, pending, dropEnd, panic>>

\* One iteration of the loop of ProcessData::drop.
DropStep(p) ==
    /\ state[p] = "DROPPING"
    /\ dropFd <= dropEnd
    /\ IF fds[p][dropFd].kind \in End THEN CloseFd(p, dropFd)
       ELSE UNCHANGED <<fds, nodes, pipes>>
    /\ dropFd' = dropFd + 1
    /\ UNCHANGED <<state, pending, dropEnd, panic>>

\* The rest of the process data is freed.
DropEnd(p) ==
    /\ state[p] = "DROPPING"
    /\ dropFd > dropEnd
    /\ state' = [state EXCEPT ![p] = "NONE"]
    /\ fds' = [fds EXCEPT ![p] = <<>>]
    /\ nodes' = [nodes EXCEPT ![p] = <<>>]
    /\ dropFd' = 0
    /\ dropEnd' = 0
    /\ UNCHANGED <<pipes, pending, panic>>

-----------------------------------------------------------------------------
ProcessStep(p) ==
    \/ Launch(p) \/ Open(p) \/ Close(p) \/ Dup(p) \/ Dup2(p) \/ Dup2Panics(p)
    \/ Pipe(p) \/ Fork(p) \/ Write(p) \/ ReadReturns(p) \/ ReadBlocks(p) \/ ReadStdin(p)
    \/ Terminate(p)

KernelStep(p) == Wakes(p) \/ DropBegin(p) \/ DropStep(p) \/ DropEnd(p) \/ KeyPressed(p)

Next == \E p \in Procs : ProcessStep(p) \/ KernelStep(p)

Spec == Init /\ [][Next]_vars

\* Executing once more the read that had to wait.
RepeatRead(p) == pending[p] # NoRead /\ (ReadReturns(p) \/ ReadBlocks(p))

\* A woken reader has its read to repeat.
Repeats(p) == state[p] = "RUNNING" /\ pending[p] # NoRead

\* As long as the kernel gets through what it is doing, the scheduler comes by
\* every process again and again (RoundRobin of module Scheduler): it finds what
\* stays so until it comes by.  A drop runs to its end.  Nothing makes the user
\* type, and nothing makes a process terminate or call anything else.
FairSpec ==
    /\ Spec
    /\ \A p \in Procs :
         /\ []<>Idle /\ <>[]WaitOver(p) => []<><<Wakes(p)>>_vars
         /\ []<>Idle /\ <>[]Repeats(p) => []<><<RepeatRead(p)>>_vars
         /\ WF_vars(DropStep(p)) /\ WF_vars(DropEnd(p))

-----------------------------------------------------------------------------
(* Properties *)

ProcessState == {"NONE", "RUNNING", "WAITING_FOR_READ_PIPE", "READING_STDIN", "TERMINATED",
                 "DROPPING"}

\* Every variable has its type (ProcessData, PIPES and the loop of drop).
TypeOK ==
    /\ fds \in [Procs -> Seq(FdMapping)]
    /\ nodes \in [Procs -> Seq(Nat)]
    /\ pipes \in Seq(ProcessPipe)
    /\ state \in [Procs -> ProcessState]
    /\ pending \in [Procs -> PendingRead]
    /\ dropFd \in Nat /\ dropEnd \in Nat
    /\ panic \in {"no", "unwrap", "index"}

\* The descriptors, of all processes, of one end of pipe i.
Holders(i, e) ==
    {h \in Procs \X (1..MaxFds) : h[2] \in DOMAIN fds[h[1]] /\ fds[h[1]][h[2]] = [kind |-> e, index |-> i]}

\* readers_count and writers_count are the numbers of descriptors there are,
\* whatever forks, dups, closes and drops came before: a reader sees the end of
\* the file when the last writer is gone, and not earlier.
EndsExact ==
    \A i \in DOMAIN pipes : \A e \in End : pipes[i].ends[e] = Cardinality(Holders(i, e))

\* "If a FdMapping exists then the pipe must exist", "then so must the node": no
\* unwrap on pipes[pipe_index] or open_nodes[node_index] can fail, dup2 apart.
MappingsResolve ==
    \A p \in Procs : \A fd \in DOMAIN fds[p] : Resolves(fds[p][fd], nodes[p], pipes)

\* The reference count of an open node is the number of its descriptors, so a
\* node is closed with the last of them and not before.
NodesExact ==
    \A p \in Procs : \A n \in DOMAIN nodes[p] :
        nodes[p][n] = Cardinality({fd \in DOMAIN fds[p] : fds[p][fd] = Regular(n)})

\* No table ends in a None, so a new descriptor, node or pipe is pushed only
\* when the table is full.
NoTrailingNone ==
    /\ pipes # <<>> => Len(pipes) \in SomePipes(pipes)
    /\ \A p \in Procs : /\ fds[p] # <<>> => Len(fds[p]) \in SomeFds(fds[p])
                        /\ nodes[p] # <<>> => Len(nodes[p]) \in SomeNodes(nodes[p])

\* ProcessData::drop loops to the length fd_mappings had when it began, while
\* close shortens it: fd_mappings[fd] is never out of bounds all the same.
DropInBounds ==
    \A p \in Procs :
        state[p] = "DROPPING" /\ dropFd <= dropEnd => dropFd \in DOMAIN fds[p]

\* The pipe a process waits for is there, and is the one its descriptor names,
\* for as long as it waits (the unwrap in tick and the repeated read).
BlockedReaderHasPipe ==
    \A p \in Procs :
        pending[p] # NoRead => /\ pending[p].pipe \in SomePipes(pipes)
                               /\ pending[p].fd \in DOMAIN fds[p]
                               /\ fds[p][pending[p].fd] = PipeReadEnd(pending[p].pipe)

\* Counts kept by hand are exact: of the ends of a pipe, over all processes, and
\* of the descriptors of an open node (readers_count, writers_count,
\* reference_count in dup, dup2, fork, close and drop).
ReferencesExact == EndsExact /\ NodesExact

\* No remembered index dangles: neither one in a descriptor nor the pipe a waiting
\* reader will be woken for.
NoDanglingIndex == MappingsResolve /\ BlockedReaderHasPipe

\* The tables that open, pipe and fork push to and close drains keep their types
\* and their last entries, and the loop of drop over one of them stays inside it.
TablesInBounds == TypeOK /\ NoTrailingNone /\ DropInBounds

\* When the last process is gone PIPES is empty: no pipe outlives the processes
\* that could have closed it.
AllPipesFreed == (\A p \in Procs : state[p] = "NONE") => pipes = <<>>

\* The user does not let a process that reads the keyboard wait for ever.
UserAnswers == []<>(\A p \in Procs : state[p] # "READING_STDIN")

\* A read on a pipe that has no writers left comes back.
EndOfFileSeen ==
    \A p \in Procs :
        (pending[p] # NoRead /\ pipes[pending[p].pipe].ends["WRITE"] = 0)
        ~> (pending[p] = NoRead \/ panic # "no")

\* Data that a process waits for is read, by it or by another reader.
DataWakesReader ==
    \A p \in Procs :
        (pending[p] # NoRead /\ pipes[pending[p].pipe].buf > 0)
        ~> \/ pending[p] = NoRead \/ panic # "no"
           \/ pipes[pending[p].pipe].buf = 0

\* Nobody waits for ever for a pipe that has something for him: data, or the end
\* of the file, also when the last writer is closed by the drop of its process, if
\* the user answers whoever reads the keyboard in between.
ReadersWake == UserAnswers => EndOfFileSeen /\ DataWakesReader

=============================================================================
