----------------------------- MODULE Scheduler -----------------------------
(***************************************************************************)
(* The round-robin scheduler of kernel/src/scheduler.rs together with the  *)
(* process life cycle it drives (kernel/src/process.rs) and the three      *)
(* system calls that change that life cycle: exit, fork and waitpid        *)
(* (kernel/src/syscall.rs).                                                *)
(*                                                                         *)
(* The kernel has one thread.  The shell launches a program and calls      *)
(* tick() until it returns false; a tick goes once through the slots of    *)
(* TASK_LIST and gives every runnable process one emulated instruction.    *)
(* One iteration of that loop is one action here: between two iterations   *)
(* any other process may have forked, died or been deallocated.            *)
(*                                                                         *)
(* Slots are numbered from 1, so slot i of the code is slot i + 1 here and *)
(* the pid the code derives from a slot (i + 1) is the slot's number.      *)
(***************************************************************************)
EXTENDS Naturals, Sequences, SequencesExt, FiniteSetsExt, Slots

CONSTANTS
    MaxTasks,       \* bound on the length of TASK_LIST (forks stop there)
    MaxLaunches,    \* bound on the number of programs the user launches
    ExitCodes,      \* the exit codes processes pass to exit
    WaitPids,       \* the positive pids processes pass to waitpid
    SIGILL,         \* the signal sent after an illegal instruction
    NoOutcome       \* "not terminated"

ASSUME SchedulerAssumption ==
    /\ MaxTasks \in Nat /\ MaxTasks > 0
    /\ MaxLaunches \in Nat
    /\ WaitPids \subseteq Nat \ {0}

VARIABLES
    list,           \* TASK_LIST: the slots, NoProcess where the code has None
    newList,        \* NEW_TASK_LIST
    numberOfTasks,  \* NUMBER_OF_TASKS
    signals,        \* SIGNAL_QUEUES
    phase,          \* where the one kernel thread is
    cursor,         \* the slot the loop of tick() is at; 0 outside the loop
    rangeEnd,       \* list.len() when the loop began; 0 outside the loop
    launches,       \* programs launched so far (bounded by MaxLaunches)
    exactLaunch     \* history: NUMBER_OF_TASKS was the length of TASK_LIST when the
                    \* program that is running was launched; no action looks at it

vars == <<list, newList, numberOfTasks, signals, phase, cursor, rangeEnd, launches, exactLaunch>>

-----------------------------------------------------------------------------
(* Processes and slots *)

\* Both kinds of termination share a state here; the outcome tells them apart:
\* ZOMBIE stands for TERMINATED_{NORMALLY,DUE_TO_SIGNAL}_CHILD_WAITING_FOR_PARENT_-
\* ACKNOWLEDGEMENT, TO_BE_DEALLOCATED for TERMINATED_*_WAITING_TO_BE_DEALLOCATED.
Terminated == {"ZOMBIE", "TO_BE_DEALLOCATED"}

\* The states in which tick() lets a process execute an instruction.
Runnable == {"RUNNING", "RUNNING_NEW_CHILD_JUST_FORKED",
             "FINISHED_WAITING_FOR_CHILD_PROCESS"}

ProcessState ==
    Runnable \cup Terminated \cup {"WAITING_FOR_CHILD_PROCESS", "WAITING_FOR_READ_PIPE"}

Outcome == ExitCodes \cup {SIGILL}

\* parent is 0 for a process the shell launched.  cpid is the pid waited for
\* (0: any child) or, once the wait has finished, the child reported (0: none).
\* outcome is the process's own, or the reported child's when a wait finished.
Process == [state : ProcessState, pid : Nat, parent : Nat, cpid : Nat,
            outcome : Outcome \cup {NoOutcome}]

\* An empty slot (Option::None).
NoProcess == [state |-> "NONE", pid |-> 0, parent |-> 0, cpid |-> 0, outcome |-> NoOutcome]

IsSome(slot) == slot.state # "NONE"

\* An entry of SIGNAL_QUEUES: Some(queue) or None.
Queue == [state : {"SOME", "NONE"}, queue : Seq({SIGILL})]
EmptyQueue == [state |-> "SOME", queue |-> <<>>]
NoQueue == [state |-> "NONE", queue |-> <<>>]

\* ProcessData::new
NewProcess(parent, state) ==
    [state |-> state, pid |-> 0, parent |-> parent, cpid |-> 0, outcome |-> NoOutcome]

\* Mutant of the next definition: a new task takes the first empty slot.
Move_into_first_free_slot(tasks, new) ==
    LET free == {k \in DOMAIN tasks : ~IsSome(tasks[k])}
    IN  IF new = <<>> \/ free = {} THEN tasks \o Reverse(new)
        ELSE [tasks EXCEPT ![Min(free)] = new[1]]

\* move_new_tasks_into_list: every task popped off new is pushed on tasks.
Move_new_tasks_into_list(tasks, new) == tasks \o Reverse(new)

-----------------------------------------------------------------------------
(* Signals *)

\* Process::recive_signal.  SIGKILL and SIGILL have the same disposition.
Recive_signal(p, signal) ==
    IF p.state \in Terminated THEN p
    ELSE [p EXCEPT !.state = IF p.parent = 0 THEN "TO_BE_DEALLOCATED" ELSE "ZOMBIE",
                   !.cpid = 0,
                   !.outcome = signal]

\* A process after its whole queue has been delivered: the first signal
\* terminates it, and a terminated process ignores the others.
Delivered(p, queue) == IF queue = <<>> THEN p ELSE Recive_signal(p, Head(queue))

\* The process the loop is at, once its queued signals have been delivered,
\* and the list and the queues at that point.
Here == Delivered(list[cursor], signals[cursor].queue)
SignalledList == [list EXCEPT ![cursor] = Here]
EmptiedQueues == [signals EXCEPT ![cursor].queue = <<>>]

-----------------------------------------------------------------------------
(* The shell *)

Init ==
    /\ list = <<>>
    /\ newList = <<>>
    /\ numberOfTasks = 0
    /\ signals = <<>>
    /\ phase = "shell"
    /\ cursor = 0
    /\ rangeEnd = 0
    /\ launches = 0
    /\ exactLaunch = TRUE

\* new_task
New_task(p) ==
    /\ newList' = Append(newList, [p EXCEPT !.pid = numberOfTasks + 1])
    /\ signals' = Append(signals, EmptyQueue)
    /\ numberOfTasks' = numberOfTasks + 1

\* The user starts a program and the shell goes on to its tick loop.  The pid
\* comes from NUMBER_OF_TASKS, which the tick that emptied the list left as it
\* was: only a tick between two programs (an empty line, a built-in command)
\* brings it up to date.
Launch ==
    /\ phase = "shell"
    /\ launches < MaxLaunches
    /\ New_task(NewProcess(0, "RUNNING"))
    /\ phase' = "tick"
    /\ launches' = launches + 1
    /\ exactLaunch' = (numberOfTasks = Len(list))
    /\ UNCHANGED <<list, cursor, rangeEnd>>

\* An empty line or a built-in command: nothing is launched, and the shell
\* still calls tick() once.
IdleCommand ==
    /\ phase = "shell"
    /\ phase' = "tick"
    /\ UNCHANGED <<list, newList, numberOfTasks, signals, cursor, rangeEnd, launches, exactLaunch>>

-----------------------------------------------------------------------------
(* tick(): entry, loop and exit *)

\* tick() moves the new tasks into the list and fixes the range of its loop.
TickBegin ==
    /\ phase = "tick"
    /\ list' = Move_new_tasks_into_list(list, newList)
    /\ newList' = <<>>
    /\ numberOfTasks' = Len(list')
    /\ phase' = "loop"
    /\ cursor' = 1
    /\ rangeEnd' = Len(list')
    /\ UNCHANGED <<signals, launches, exactLaunch>>

\* tick() returns; the shell calls it again while the list is not empty.
TickEnd ==
    /\ phase = "loop"
    /\ cursor > rangeEnd
    /\ phase' = IF Len(list) > 0 THEN "tick" ELSE "shell"
    /\ cursor' = 0
    /\ rangeEnd' = 0
    /\ UNCHANGED <<list, newList, numberOfTasks, signals, launches, exactLaunch>>

InLoop == phase = "loop" /\ cursor <= rangeEnd

\* An iteration is under way, or waits for a key in the middle.
InIteration == InLoop \/ phase = "keyboard"

\* An empty slot is skipped.
SkipSlot ==
    /\ InLoop
    /\ ~IsSome(list[cursor])
    /\ cursor' = cursor + 1
    /\ UNCHANGED <<list, newList, numberOfTasks, signals, phase, rangeEnd, launches, exactLaunch>>

\* The loop is at a process that is in one of the states S after its signals
\* have been delivered.
At(S) ==
    /\ InLoop
    /\ IsSome(list[cursor])
    /\ Here.state \in S

\* The iteration ends with the list tasks; only the tick of a process can have
\* created tasks or queued a signal.
Continue(tasks) ==
    /\ list' = tasks
    /\ signals' = EmptiedQueues
    /\ cursor' = cursor + 1
    /\ UNCHANGED <<newList, numberOfTasks, phase, rangeEnd, launches, exactLaunch>>

-----------------------------------------------------------------------------
(* One emulated instruction of a runnable process *)

\* Process::tick left the process as p, created the tasks new and queued the
\* signals sent; then the new tasks are moved into the list.
Ticked(p, new, sent) ==
    /\ list' = Move_new_tasks_into_list([list EXCEPT ![cursor] = p], newList \o new)
    /\ newList' = <<>>
    /\ numberOfTasks' = Len(list')
    /\ signals' = [signals EXCEPT ![cursor].queue = sent]
                  \o [k \in 1..Len(new) |-> EmptyQueue]
    /\ phase' = "loop"
    /\ cursor' = cursor + 1
    /\ UNCHANGED <<rangeEnd, launches, exactLaunch>>

\* An instruction that does not touch the life cycle.
Instruction ==
    /\ At({"RUNNING"})
    /\ Ticked(Here, <<>>, <<>>)

\* An illegal instruction or another exception: kill_task queues a SIGILL,
\* delivered when the loop next comes by.
IllegalInstruction ==
    /\ At({"RUNNING"})
    /\ Ticked(Here, <<>>, <<SIGILL>>)

\* syscall exit
Exit ==
    /\ At({"RUNNING"})
    /\ \E code \in ExitCodes :
         Ticked([Here EXCEPT !.state = IF Here.parent = 0 THEN "TO_BE_DEALLOCATED"
                                                          ELSE "ZOMBIE",
                             !.outcome = code], <<>>, <<>>)

\* syscall fork, in the parent: the child is a copy whose parent is our pid.
Fork ==
    /\ At({"RUNNING"})
    /\ Len(list) < MaxTasks
    /\ LET child == [NewProcess(Here.pid, "RUNNING_NEW_CHILD_JUST_FORKED")
                        EXCEPT !.pid = numberOfTasks + 1]
       IN  Ticked(Here, <<child>>, <<>>)

\* syscall fork, repeated by the child: it returns 0.
ForkInChild ==
    /\ At({"RUNNING_NEW_CHILD_JUST_FORKED"})
    /\ Ticked([Here EXCEPT !.state = "RUNNING"], <<>>, <<>>)

\* syscall waitpid, first call: pid -1 (any child, cpid 0) or a positive pid.
\* (waitpid with another argument returns -1 at once: Instruction.)
Waitpid ==
    /\ At({"RUNNING"})
    /\ \E pid \in {0} \cup WaitPids :
         Ticked([Here EXCEPT !.state = "WAITING_FOR_CHILD_PROCESS", !.cpid = pid], <<>>, <<>>)

\* syscall waitpid, repeated once the scheduler has finished the wait.
WaitpidReturns ==
    /\ At({"FINISHED_WAITING_FOR_CHILD_PROCESS"})
    /\ Ticked([Here EXCEPT !.state = "RUNNING", !.cpid = 0, !.outcome = NoOutcome], <<>>, <<>>)

\* syscall read on an empty pipe that still has writers.
ReadBlocks ==
    /\ At({"RUNNING"})
    /\ Ticked([Here EXCEPT !.state = "WAITING_FOR_READ_PIPE"], <<>>, <<>>)

\* syscall read of Stdin when no character is there: it does not let go of the
\* kernel but polls the keyboard in a loop (read_packet), inside this tick.
ReadStdin ==
    /\ At({"RUNNING"})
    /\ phase' = "keyboard"
    /\ UNCHANGED <<list, newList, numberOfTasks, signals, cursor, rangeEnd, launches, exactLaunch>>

\* The user has typed what the terminal makes a character of: the read returns it.
\* (Keys that give none leave the kernel where it is.)
KeyPressed ==
    /\ phase = "keyboard"
    /\ Ticked(list[cursor], <<>>, <<>>)

-----------------------------------------------------------------------------
(* The states tick() handles itself *)

\* Mutant of Awaited: whose child it is is not looked at.
AwaitedOfAnyone ==
    {k \in DOMAIN list : IsSome(SignalledList[k]) /\ Here.cpid \in {0, k}}

\* The children this wait is about, by slot.
Awaited ==
    {k \in DOMAIN list :
        /\ IsSome(SignalledList[k])
        /\ SignalledList[k].parent = cursor
        /\ Here.cpid \in {0, k}}

Zombies == {k \in Awaited : SignalledList[k].state = "ZOMBIE"}

\* child.data.parent_pid.unwrap() on a process that has no parent.
WaitsForRoot ==
    /\ Here.cpid \in DOMAIN list
    /\ IsSome(SignalledList[Here.cpid])
    /\ SignalledList[Here.cpid].parent = 0

\* The kernel panics: nothing runs any more.
WaitPanics ==
    /\ At({"WAITING_FOR_CHILD_PROCESS"})
    /\ WaitsForRoot
    /\ phase' = "panic"
    /\ UNCHANGED <<list, newList, numberOfTasks, signals, cursor, rangeEnd, launches, exactLaunch>>

\* Mutant of WaitReports: the child is left a zombie.
WaitReportsKeepsZombie ==
    /\ At({"WAITING_FOR_CHILD_PROCESS"})
    /\ ~WaitsForRoot
    /\ Zombies # {}
    /\ LET child == list[Min(Zombies)]
       IN  Continue([list EXCEPT
             ![cursor] = [Here EXCEPT !.state = "FINISHED_WAITING_FOR_CHILD_PROCESS",
                                      !.cpid = child.pid,
                                      !.outcome = child.outcome]])

\* The first terminated child is reported and may now be deallocated.
WaitReports ==
    /\ At({"WAITING_FOR_CHILD_PROCESS"})
    /\ ~WaitsForRoot
    /\ Zombies # {}
    /\ LET c == Min(Zombies)
           child == list[c]
       IN  Continue([list EXCEPT
             ![c].state = "TO_BE_DEALLOCATED",
             ![cursor] = [Here EXCEPT !.state = "FINISHED_WAITING_FOR_CHILD_PROCESS",
                                      !.cpid = child.pid,
                                      !.outcome = child.outcome]])

\* Mutant of WaitInvalid: waiting for any child is never found to be invalid.
WaitForAnyNeverInvalid ==
    /\ At({"WAITING_FOR_CHILD_PROCESS"})
    /\ ~WaitsForRoot
    /\ Awaited = {}
    /\ Continue(IF Here.cpid = 0 THEN SignalledList
                ELSE [list EXCEPT ![cursor] =
                        [Here EXCEPT !.state = "FINISHED_WAITING_FOR_CHILD_PROCESS", !.cpid = 0]])

\* There is no such child: the wait finishes with None.
WaitInvalid ==
    /\ At({"WAITING_FOR_CHILD_PROCESS"})
    /\ ~WaitsForRoot
    /\ Awaited = {}
    /\ Continue([list EXCEPT
         ![cursor] = [Here EXCEPT !.state = "FINISHED_WAITING_FOR_CHILD_PROCESS", !.cpid = 0]])

WaitContinues ==
    /\ At({"WAITING_FOR_CHILD_PROCESS"})
    /\ ~WaitsForRoot
    /\ Awaited # {} /\ Zombies = {}
    /\ Continue(SignalledList)

\* Mutant of PipeWaitContinues: the loop of tick() is left instead of continued.
PipeWaitBreaks ==
    /\ At({"WAITING_FOR_READ_PIPE"})
    /\ list' = SignalledList
    /\ signals' = EmptiedQueues
    /\ cursor' = rangeEnd + 1
    /\ UNCHANGED <<newList, numberOfTasks, phase, rangeEnd, launches, exactLaunch>>

\* The reader wakes up once the pipe has data or no writers.  What is in the
\* pipe is left open here.
PipeWaitOver ==
    /\ At({"WAITING_FOR_READ_PIPE"})
    /\ Continue([list EXCEPT ![cursor] = [Here EXCEPT !.state = "RUNNING"]])

PipeWaitContinues ==
    /\ At({"WAITING_FOR_READ_PIPE"})
    /\ Continue(SignalledList)

\* list.get_mut(parents_pid).is_some(): the code indexes with the pid itself,
\* which is the slot after the one the parent is in.
Parent_exists ==
    /\ Here.parent + 1 \in DOMAIN list
    /\ IsSome(list[Here.parent + 1])

\* Mutant of ZombieOrphaned: the outcome is lost on the way.
ZombieOrphanedForgetsOutcome ==
    /\ At({"ZOMBIE"})
    /\ ~Parent_exists
    /\ Continue([list EXCEPT ![cursor] = [Here EXCEPT !.state = "TO_BE_DEALLOCATED",
                                                      !.outcome = NoOutcome]])

\* A terminated child that takes itself for an orphan gives up its status.
ZombieOrphaned ==
    /\ At({"ZOMBIE"})
    /\ ~Parent_exists
    /\ Continue([list EXCEPT ![cursor] = [Here EXCEPT !.state = "TO_BE_DEALLOCATED"]])

ZombieKept ==
    /\ At({"ZOMBIE"})
    /\ Parent_exists
    /\ Continue(SignalledList)

\* Mutant of Deallocate: the signal queues are not drained.
DeallocateKeepsQueue ==
    /\ At({"TO_BE_DEALLOCATED"})
    /\ list' = Drain([list EXCEPT ![cursor] = NoProcess],
                     {k \in DOMAIN list : IsSome(list[k])} \ {cursor})
    /\ signals' = [signals EXCEPT ![cursor] = NoQueue]
    /\ cursor' = cursor + 1
    /\ UNCHANGED <<newList, numberOfTasks, phase, rangeEnd, launches, exactLaunch>>

\* The slot and its signal queue are emptied and both vectors are drained.
Deallocate ==
    /\ At({"TO_BE_DEALLOCATED"})
    /\ list' = Drain([list EXCEPT ![cursor] = NoProcess],
                     {k \in DOMAIN list : IsSome(list[k])} \ {cursor})
    /\ signals' = Drain([signals EXCEPT ![cursor] = NoQueue],
                        {k \in DOMAIN signals : IsSome(signals[k])} \ {cursor})
    /\ cursor' = cursor + 1
    /\ UNCHANGED <<newList, numberOfTasks, phase, rangeEnd, launches, exactLaunch>>

-----------------------------------------------------------------------------
User == Launch \/ IdleCommand \/ KeyPressed

ProcessTick ==
    \/ Instruction \/ IllegalInstruction \/ Exit \/ Fork \/ ForkInChild
    \/ Waitpid \/ WaitpidReturns \/ ReadBlocks \/ ReadStdin

SchedulerStep ==
    \/ WaitPanics \/ WaitReports \/ WaitInvalid \/ WaitContinues
    \/ PipeWaitOver \/ PipeWaitContinues
    \/ ZombieOrphaned \/ ZombieKept \/ Deallocate

Tick == TickBegin \/ TickEnd \/ SkipSlot \/ ProcessTick \/ SchedulerStep

Next == User \/ Tick

Spec == Init /\ [][Next]_vars

\* The kernel thread never stops of itself inside the tick loop of the shell; the
\* user need not type anything, neither a command nor what a program reads.
FairSpec == Spec /\ WF_vars(Tick)
-----------------------------------------------------------------------------
(* Properties *)

\* Every variable has its type (the statics of scheduler.rs and the loop
\* variables of tick).
TypeOK ==
    /\ list \in Seq(Process \cup {NoProcess})
    /\ newList \in Seq(Process)
    /\ numberOfTasks \in Nat
    /\ signals \in Seq(Queue)
    /\ phase \in {"shell", "tick", "loop", "keyboard", "panic"}
    /\ cursor \in Nat
    /\ rangeEnd \in Nat
    /\ launches \in 0..MaxLaunches
    /\ exactLaunch \in BOOLEAN

\* SIGNAL_QUEUES and TASK_LIST describe the same slots, although each is pushed
\* to and drained on its own: a queue for every process, also for the one that
\* is still in NEW_TASK_LIST, and none for an empty slot.
QueuePerProcess ==
    /\ Len(signals) = Len(list) + Len(newList)
    /\ \A k \in 1..Len(list) : IsSome(list[k]) <=> IsSome(signals[k])
    /\ \A k \in Len(list) + 1 .. Len(signals) : IsSome(signals[k])

\* The loop of tick() runs to the length the list had when it began, while its
\* body shortens the list: list[i], signals[i] and the unwrap of the queue never
\* panic all the same.
TickInBounds ==
    InLoop => /\ cursor \in DOMAIN list
              /\ IsSome(list[cursor]) => cursor \in DOMAIN signals /\ IsSome(signals[cursor])


\* A pid is the number of the slot its process is in, which is what the pid
\* arithmetic of tick() relies on (our_pid = i + 1, list.get_mut(cpid - 1)); true
\* of the programs launched when NUMBER_OF_TASKS was exact.
PidIsSlot == \A k \in DOMAIN list : IsSome(list[k]) => list[k].pid = k

\* Parents sit below their children: the slot a child names as its parent is
\* never one that a later process can be given while the child is in the list.
ParentBelowChild == \A k \in DOMAIN list : IsSome(list[k]) => list[k].parent < k

\* A wait reports a child once: while a process has yet to pick up the status of
\* child c, no child of it that could be reported again is in slot c (in a program
\* launched with an exact NUMBER_OF_TASKS).
ReportedOnce ==
    exactLaunch => \A k, c \in DOMAIN list :
        /\ list[k].state = "FINISHED_WAITING_FOR_CHILD_PROCESS"
        /\ list[k].cpid = c
        => ~(list[c].parent = k /\ list[c].state \notin {"TO_BE_DEALLOCATED", "NONE"})

\* A process that forked names the process that is really its parent: no slot
\* is filled while some process in the list names that slot as its parent (in a
\* program launched with an exact NUMBER_OF_TASKS).
NoStaleParent ==
    [][exactLaunch => \A k \in DOMAIN list' :
          (IsSome(list'[k]) /\ (k \notin DOMAIN list \/ ~IsSome(list[k])))
          => \A j \in DOMAIN list : list[j].parent # k]_vars

\* A terminated process never runs again and keeps its outcome until its slot
\* is empty, whatever signals and waits come in between.
DeadStaysDead ==
    [][\A k \in DOMAIN list : list[k].state \in Terminated =>
          \/ k \notin DOMAIN list' \/ ~IsSome(list'[k])
          \/ /\ list'[k].state \in Terminated
             /\ list'[k].outcome = list[k].outcome
             /\ list'[k].pid = list[k].pid]_vars

\* waitpid gives its caller the status of a child of its own, once that child
\* has terminated, and the status is then used up (in a program launched with an
\* exact NUMBER_OF_TASKS).
WaitIsHonest ==
    [][exactLaunch => \A k \in DOMAIN list \cap DOMAIN list' :
          (/\ list[k].state = "WAITING_FOR_CHILD_PROCESS"
           /\ list'[k].state = "FINISHED_WAITING_FOR_CHILD_PROCESS"
           /\ list'[k].cpid # 0)
          => LET c == list'[k].cpid
             IN  /\ c \in DOMAIN list /\ list[k].cpid \in {0, c}
                 /\ list[c].parent = list[k].pid
                 /\ list[c].state = "ZOMBIE" /\ list'[c].state = "TO_BE_DEALLOCATED"
                 /\ list'[k].outcome = list[c].outcome]_vars

\* The parts of the inductive invariant behind QueuePerProcess and TickInBounds:
\* the list never ends in an empty slot, so deallocating a slot that is not the
\* last one leaves its length alone, ...
LastIsSome == list # <<>> => IsSome(list[Len(list)])

\* ... and only the last iteration of a tick can shorten it; new tasks wait in
\* NEW_TASK_LIST only between a launch and the tick that follows it.
PhaseInv ==
    /\ phase # "tick" => newList = <<>>
    /\ phase = "tick" => Len(newList) <= 1
    /\ phase = "shell" => list = <<>>
    /\ phase \in {"loop", "keyboard", "panic"} => cursor >= 1
    /\ InIteration => rangeEnd <= Len(list)
    /\ phase = "keyboard" => /\ cursor <= rangeEnd /\ list[cursor].state = "RUNNING"
                             /\ signals[cursor].queue = <<>>

SlotInv == TypeOK /\ QueuePerProcess /\ LastIsSome /\ PhaseInv

\* The parts behind PidIsSlot and ParentBelowChild: NUMBER_OF_TASKS is exact
\* whenever a process can fork, and a task that waits to be moved already has
\* the pid of the slot it will get.
NumberExact ==
    /\ InIteration => numberOfTasks = Len(list)
    /\ \A k \in DOMAIN newList : newList[k].pid = Len(list) + k /\ newList[k].parent = 0

PidInv == SlotInv /\ NumberExact /\ PidIsSlot /\ ParentBelowChild

\* What every step keeps: a program launched with an exact NUMBER_OF_TASKS has the
\* pids of its slots.
ExactPidInv == SlotInv /\ (exactLaunch => PidInv)

\* Whoever reads the keyboard keeps the kernel to himself until a key is pressed,
\* and nothing makes the user press one: what must happen in the end happens if he
\* does not let such a read wait for ever.
UserAnswers == []<>(phase # "keyboard")

\* Every process in the list gets its turn: the loop comes by its slot again and
\* again until the slot is empty, whatever the other processes do, if the user
\* answers those that read the keyboard (and the kernel does not panic, which a
\* waitpid for a process without a parent makes it do).
RoundRobin ==
    UserAnswers => \A k \in 1..MaxTasks :
        (k \in DOMAIN list /\ IsSome(list[k]))
        ~> (phase = "loop" /\ cursor = k) \/ k \notin DOMAIN list \/ ~IsSome(list[k]) \/ phase = "panic"

\* A wait whose children have all terminated comes to an end, if the user answers
\* those that read the keyboard and the kernel does not panic.
WaitFinishes ==
    UserAnswers => \A k \in 1..MaxTasks :
        (/\ k \in DOMAIN list
         /\ list[k].state = "WAITING_FOR_CHILD_PROCESS"
         /\ \A c \in DOMAIN list : list[c].parent = k => list[c].state \in Terminated \cup {"NONE"})
        ~> (k \notin DOMAIN list \/ list[k].state # "WAITING_FOR_CHILD_PROCESS" \/ phase = "panic")

\* Once every process has terminated the tick loop of the shell ends.
ShellResumes ==
    (phase # "shell" /\ newList = <<>>
       /\ \A k \in DOMAIN list : list[k].state \in Terminated \cup {"NONE"})
    ~> (phase = "shell")
=============================================================================
