-------------------------- MODULE SchedulerProofs --------------------------
(***************************************************************************)
(* Proofs about Scheduler for any number of tasks, programs, exit codes    *)
(* and waited-for pids.                                                    *)
(***************************************************************************)
EXTENDS Scheduler, SlotsProofs, TLAPS, SequenceTheorems

(***************************************************************************)
(* The slot invariant                                                      *)
(***************************************************************************)

\* What a step may do to the process p in a slot other than deallocating it: q
\* is the same process, and if p has terminated so has q, with p's outcome.
Evolves(p, q) ==
    IF IsSome(p)
    THEN /\ q \in Process
         /\ q.pid = p.pid
         /\ q.parent = p.parent
         /\ p.state \in Terminated => q.state \in Terminated /\ q.outcome = p.outcome
    ELSE q = p

\* What one iteration of the loop of tick() does to the list: processes evolve in
\* their slots or are deallocated, and at most one child is added at the end.
StepEffect ==
    /\ \A k \in 1..Len(list) :
          k <= Len(list') => Evolves(list[k], list'[k]) \/ list'[k] = NoProcess
    /\ Len(list') <= Len(list) + 1
    /\ Len(list') = Len(list) + 1 =>
          /\ list'[Len(list) + 1].pid = numberOfTasks + 1
          /\ list'[Len(list) + 1].parent = list[cursor].pid
          /\ cursor \in 1..Len(list) /\ IsSome(list[cursor])
    /\ newList' = <<>> /\ exactLaunch' = exactLaunch
    /\ InIteration
    /\ InIteration' => \/ numberOfTasks' = Len(list')
                       \/ numberOfTasks' = numberOfTasks /\ Len(list') = Len(list)

LEMMA ProcessIsSome ==
    ASSUME NEW p \in Process
    PROVE  IsSome(p)
BY DEF IsSome, Process, ProcessState, Runnable, Terminated

\* The process the loop is at is a process also after recive_signal.
LEMMA HereType ==
    ASSUME SlotInv, InIteration, IsSome(list[cursor])
    PROVE  /\ cursor \in 1..Len(list)
           /\ cursor \in 1..Len(signals)
           /\ list[cursor] \in Process
           /\ Here \in Process
           /\ Here.pid = list[cursor].pid
           /\ Here.parent = list[cursor].parent
           /\ list[cursor].state \in Terminated => Here = list[cursor]
           /\ Evolves(list[cursor], Here)
<1> USE DEF SlotInv, TypeOK, PhaseInv, QueuePerProcess
<1>1. cursor \in 1..Len(list) /\ cursor \in 1..Len(signals)  BY DEF InIteration, InLoop
<1>2. list[cursor] \in Process
  <2>1. list[cursor] \in Process \cup {NoProcess}  BY <1>1
  <2> QED  BY <2>1 DEF NoProcess, IsSome
<1>3. signals[cursor].queue \in Seq({SIGILL})
  <2>1. signals[cursor] \in Queue  BY <1>1
  <2> QED  BY <2>1 DEF Queue
<1> HIDE DEF SlotInv, TypeOK, PhaseInv, QueuePerProcess
<1>4. CASE signals[cursor].queue = <<>>
  BY <1>1, <1>2, <1>4 DEF Here, Delivered, Evolves
<1>5. CASE signals[cursor].queue # <<>>
  <2>1. Head(signals[cursor].queue) = SIGILL  BY <1>3, <1>5
  <2>2. Here = Recive_signal(list[cursor], SIGILL)  BY <1>5, <2>1 DEF Here, Delivered
  <2> QED  BY <1>1, <1>2, <2>2 DEF Recive_signal, Process, ProcessState, Terminated, Outcome, Evolves
<1> QED  BY <1>4, <1>5

\* Changing what is in the queue of a slot keeps every slot's queue.
LEMMA QueueReplaced ==
    ASSUME signals \in Seq(Queue), cursor \in 1..Len(signals), NEW sent \in Seq({SIGILL})
    PROVE  LET new == [signals EXCEPT ![cursor].queue = sent]
           IN  /\ new \in Seq(Queue)
               /\ Len(new) = Len(signals)
               /\ \A k \in 1..Len(signals) : new[k].state = signals[k].state
<1> DEFINE q == [signals[cursor] EXCEPT !.queue = sent]
<1>1. signals[cursor] \in Queue  OBVIOUS
<1>2. q \in Queue /\ q.state = signals[cursor].state  BY <1>1 DEF Queue
<1>3. [signals EXCEPT ![cursor].queue = sent] = [signals EXCEPT ![cursor] = q]  OBVIOUS
<1> HIDE DEF q
<1>4. /\ [signals EXCEPT ![cursor] = q] \in Seq(Queue)
      /\ Len([signals EXCEPT ![cursor] = q]) = Len(signals)
      /\ \A j \in 1 .. Len(signals) :
           [signals EXCEPT ![cursor] = q][j] = IF j = cursor THEN q ELSE signals[j]
  BY <1>2, ExceptSeq
<1> QED  BY <1>2, <1>3, <1>4

\* An iteration that changes the states of processes in place (the arms of
\* tick() for waiting and terminated processes) keeps the slot invariant.
LEMMA ContinueKeepsSlots ==
    ASSUME SlotInv, InLoop, IsSome(list[cursor]),
           NEW tasks \in Seq(Process \cup {NoProcess}),
           Len(tasks) = Len(list),
           \A k \in 1..Len(list) : Evolves(list[k], tasks[k]),
           Continue(tasks)
    PROVE  SlotInv' /\ StepEffect
<1> USE DEF Continue
<1>9. \A k \in 1..Len(list) : IsSome(tasks[k]) <=> IsSome(list[k])
  BY ProcessIsSome DEF Evolves
<1>0. cursor \in 1..Len(signals) /\ cursor \in Nat  BY HereType DEF InIteration, SlotInv, TypeOK
<1>1. /\ signals' \in Seq(Queue)
      /\ Len(signals') = Len(signals)
      /\ \A k \in 1..Len(signals) : signals'[k].state = signals[k].state
  <2>1. signals \in Seq(Queue) /\ <<>> \in Seq({SIGILL})  BY DEF SlotInv, TypeOK
  <2> QED  BY <1>0, <2>1, QueueReplaced DEF EmptiedQueues
<1>2. TypeOK'  BY <1>0, <1>1 DEF SlotInv, TypeOK
<1>3. QueuePerProcess'
  <2> USE DEF SlotInv, TypeOK, QueuePerProcess
  <2>1. Len(signals') = Len(list') + Len(newList')  BY <1>1
  <2>2. \A k \in 1..Len(list') : IsSome(list'[k]) <=> IsSome(signals'[k])
    <3> SUFFICES ASSUME NEW k \in 1..Len(list)
                 PROVE  IsSome(tasks[k]) <=> IsSome(signals'[k])
      OBVIOUS
    <3>1. k \in 1..Len(signals)  OBVIOUS
    <3>2. signals'[k].state = signals[k].state  BY <1>1, <3>1
    <3>3. IsSome(tasks[k]) <=> IsSome(list[k])  BY <1>9
    <3>4. IsSome(list[k]) <=> IsSome(signals[k])  OBVIOUS
    <3> QED  BY <3>2, <3>3, <3>4 DEF IsSome
  <2>3. \A k \in Len(list') + 1 .. Len(signals') : IsSome(signals'[k])
    <3> SUFFICES ASSUME NEW k \in Len(list) + 1 .. Len(signals)
                 PROVE  IsSome(signals'[k])
      BY <1>1
    <3>1. k \in 1..Len(signals)  OBVIOUS
    <3>2. signals'[k].state = signals[k].state  BY <1>1, <3>1
    <3>3. IsSome(signals[k])  OBVIOUS
    <3> QED  BY <3>2, <3>3 DEF IsSome
  <2> QED  BY <2>1, <2>2, <2>3
<1>4. LastIsSome'  BY <1>9 DEF SlotInv, TypeOK, LastIsSome
<1>5. PhaseInv'  BY DEF SlotInv, TypeOK, PhaseInv, InIteration, InLoop
<1>6. StepEffect
  <2>1. Len(list) \in Nat /\ newList = <<>>  BY DEF SlotInv, TypeOK, PhaseInv, InIteration, InLoop
  <2> QED  BY <2>1 DEF StepEffect, InIteration
<1> QED  BY <1>2, <1>3, <1>4, <1>5, <1>6 DEF SlotInv

\* move_new_tasks_into_list with no pending task, and with one.
LEMMA MoveAtMostOne ==
    ASSUME NEW S, NEW s \in Seq(S), NEW c \in S
    PROVE  /\ Move_new_tasks_into_list(s, <<>>) = s
           /\ Move_new_tasks_into_list(s, <<c>>) = Append(s, c)
<1>1. Reverse(<<>>) = <<>>
  <2>1. Reverse(<<>>) \in Seq(S) /\ Len(Reverse(<<>>)) = 0  BY DEF Reverse
  <2> QED  BY <2>1
<1>2. Reverse(<<c>>) = <<c>>
  <2>1. /\ Reverse(<<c>>) \in Seq(S) /\ Len(Reverse(<<c>>)) = 1
        /\ Reverse(<<c>>)[1] = c
    BY DEF Reverse
  <2>2. <<c>> \in Seq(S) /\ Len(<<c>>) = 1 /\ <<c>>[1] = c  OBVIOUS
  <2> QED  BY <2>1, <2>2, SeqEqual
<1>3. s \o <<>> = s  BY ConcatEmptySeq
<1>4. s \o <<c>> = Append(s, c)  BY AppendIsConcat
<1> QED  BY <1>1, <1>2, <1>3, <1>4 DEF Move_new_tasks_into_list

\* The tick of a process, with or without a new child, keeps the slot invariant.
LEMMA TickedKeepsSlots ==
    ASSUME SlotInv, InIteration, IsSome(list[cursor]),
           NEW p \in Process, Evolves(list[cursor], p),
           NEW new,
           \/ new = <<>>
           \/ \E c \in Process : /\ new = <<c>>
                                 /\ c.pid = numberOfTasks + 1
                                 /\ c.parent = list[cursor].pid,
           NEW sent \in Seq({SIGILL}),
           Ticked(p, new, sent)
    PROVE  /\ SlotInv' /\ StepEffect
           /\ \A k \in 1..Len(list) : list'[k] = IF k = cursor THEN p ELSE list[k]
           /\ new = <<>> => Len(list') = Len(list)
<1> DEFINE L == [list EXCEPT ![cursor] = p]
           Q == [signals EXCEPT ![cursor].queue = sent]
           Slot == Process \cup {NoProcess}
<1>0. /\ cursor \in 1..Len(signals) /\ cursor \in 1..Len(list) /\ cursor \in Nat
      /\ list \in Seq(Slot) /\ signals \in Seq(Queue)
      /\ newList = <<>> /\ Len(signals) = Len(list)
      /\ phase \in {"loop", "keyboard"}
      /\ rangeEnd \in Nat /\ cursor <= rangeEnd /\ rangeEnd <= Len(list)
  BY HereType DEF SlotInv, TypeOK, PhaseInv, InIteration, InLoop, QueuePerProcess
<1>1. /\ L \in Seq(Slot) /\ Len(L) = Len(list)
      /\ \A k \in 1..Len(list) : L[k] = IF k = cursor THEN p ELSE list[k]
  BY <1>0, ExceptSeq
<1>2. /\ Q \in Seq(Queue) /\ Len(Q) = Len(signals)
      /\ \A k \in 1..Len(signals) : Q[k].state = signals[k].state
  BY <1>0, QueueReplaced
<1>3. \A k \in 1..Len(list) : IsSome(L[k]) <=> IsSome(Q[k])
  <2> SUFFICES ASSUME NEW k \in 1..Len(list)  PROVE IsSome(L[k]) <=> IsSome(Q[k])
    OBVIOUS
  <2>1. IsSome(p)  BY ProcessIsSome
  <2>2. IsSome(L[k]) <=> IsSome(list[k])  BY <1>1, <2>1
  <2>3. IsSome(Q[k]) <=> IsSome(signals[k])  BY <1>0, <1>2 DEF IsSome
  <2>4. IsSome(list[k]) <=> IsSome(signals[k])  BY DEF SlotInv, QueuePerProcess
  <2> QED  BY <2>2, <2>3, <2>4
<1>4. list # <<>> /\ IsSome(L[Len(list)])
  <2>1. IsSome(p)  BY ProcessIsSome
  <2>2. list # <<>>  BY <1>0
  <2>3. IsSome(list[Len(list)])  BY <2>2 DEF SlotInv, LastIsSome
  <2>4. Len(list) \in 1..Len(list)  BY <1>0
  <2> QED  BY <1>1, <2>1, <2>2, <2>3, <2>4
<1>5. EmptyQueue \in Queue /\ IsSome(EmptyQueue)
  <2>1. <<>> \in Seq({SIGILL})  OBVIOUS
  <2> QED  BY <2>1 DEF EmptyQueue, Queue, IsSome
<1>9. \A k \in 1..Len(list) : Evolves(list[k], L[k])
  <2>1. \A k \in 1..Len(list) : list[k] \in Slot  BY <1>0
  <2>2. \A k \in 1..Len(list) : Evolves(list[k], list[k])
    BY <2>1 DEF Evolves, NoProcess, IsSome
  <2> QED  BY <1>1, <2>2
<1> HIDE DEF L, Q
<1>6. /\ list' = Move_new_tasks_into_list(L, newList \o new)
      /\ newList' = <<>> /\ numberOfTasks' = Len(list')
      /\ signals' = Q \o [k \in 1..Len(new) |-> EmptyQueue]
      /\ cursor' = cursor + 1
      /\ phase' = "loop" /\ rangeEnd' = rangeEnd /\ launches' = launches
      /\ exactLaunch' = exactLaunch
  BY DEF Ticked, L, Q
<1>7. CASE new = <<>>
  <2>1. list' = L
    <3>1. newList \o new = <<>>  BY <1>0, <1>7
    <3>2. p \in Slot  OBVIOUS
    <3> QED  BY <1>1, <1>6, <3>1, <3>2, MoveAtMostOne
  <2>2. signals' = Q
    <3>1. [k \in 1..Len(new) |-> EmptyQueue] = <<>>  BY <1>7
    <3> QED  BY <1>2, <1>6, <3>1, ConcatEmptySeq
  <2>3. TypeOK'  BY <1>0, <1>1, <1>2, <1>6, <2>1, <2>2 DEF TypeOK, SlotInv
  <2>4. QueuePerProcess'
    <3>1. Len(list') = Len(list) /\ Len(signals') = Len(list) /\ Len(newList') = 0
      BY <1>0, <1>1, <1>2, <1>6, <2>1, <2>2
    <3>2. Len(list) \in Nat  BY <1>0
    <3>3. \A k \in 1..Len(list') : IsSome(list'[k]) <=> IsSome(signals'[k])
      BY <1>3, <2>1, <2>2, <3>1
    <3> QED  BY <3>1, <3>2, <3>3 DEF QueuePerProcess
  <2>5. LastIsSome'
    <3>1. IsSome(list'[Len(list')])  BY <1>1, <1>4, <2>1
    <3> QED  BY <3>1 DEF LastIsSome
  <2>6. PhaseInv'  BY <1>0, <1>1, <1>6, <2>1 DEF PhaseInv, InIteration, InLoop
  <2>7. StepEffect
    <3>1. Len(list) \in Nat  BY <1>0
    <3> QED  BY <1>1, <1>6, <1>9, <2>1, <3>1 DEF StepEffect
  <2> QED  BY <1>1, <2>1, <2>3, <2>4, <2>5, <2>6, <2>7 DEF SlotInv
<1>8. ASSUME NEW c \in Process, new = <<c>>,
             c.pid = numberOfTasks + 1, c.parent = list[cursor].pid
      PROVE  /\ SlotInv' /\ StepEffect
             /\ \A k \in 1..Len(list) : list'[k] = IF k = cursor THEN p ELSE list[k]
  <2>1. list' = Append(L, c)
    <3>1. newList \o new = <<c>>  BY <1>0, <1>8
    <3>2. c \in Slot  OBVIOUS
    <3> QED  BY <1>1, <1>6, <3>1, <3>2, MoveAtMostOne
  <2>2. signals' = Append(Q, EmptyQueue)
    <3>1. [k \in 1..Len(new) |-> EmptyQueue] = <<EmptyQueue>>  BY <1>8
    <3> QED  BY <1>2, <1>5, <1>6, <3>1, AppendIsConcat
  <2>3. /\ list' \in Seq(Slot) /\ Len(list') = Len(list) + 1
        /\ \A k \in 1..Len(list) : list'[k] = L[k]
        /\ list'[Len(list) + 1] = c
    BY <1>1, <2>1, AppendProperties
  <2>4. /\ signals' \in Seq(Queue) /\ Len(signals') = Len(signals) + 1
        /\ \A k \in 1..Len(signals) : signals'[k] = Q[k]
        /\ signals'[Len(signals) + 1] = EmptyQueue
    BY <1>2, <1>5, <2>2, AppendProperties
  <2>5. IsSome(c)  BY ProcessIsSome
  <2>6. TypeOK'  BY <1>0, <1>6, <2>3, <2>4 DEF TypeOK, SlotInv
  <2>7. QueuePerProcess'
    <3>1. \A k \in 1..Len(list') : IsSome(list'[k]) <=> IsSome(signals'[k])
      <4> SUFFICES ASSUME NEW k \in 1..Len(list')
                   PROVE  IsSome(list'[k]) <=> IsSome(signals'[k])
        OBVIOUS
      <4>1. CASE k = Len(list) + 1  BY <1>0, <1>5, <2>3, <2>4, <2>5, <4>1
      <4>2. CASE k # Len(list) + 1
        <5>1. k \in 1..Len(list) /\ k \in 1..Len(signals)  BY <1>0, <2>3, <4>2
        <5> QED  BY <1>3, <2>3, <2>4, <5>1
      <4> QED  BY <4>1, <4>2
    <3>2. Len(signals') = Len(list') + Len(newList')  BY <1>0, <1>6, <2>3, <2>4
    <3>3. \A k \in Len(list') + 1 .. Len(signals') : IsSome(signals'[k])
      BY <1>0, <2>3, <2>4
    <3> QED  BY <3>1, <3>2, <3>3 DEF QueuePerProcess
  <2>8. LastIsSome'
    <3>1. IsSome(list'[Len(list')])  BY <2>3, <2>5
    <3> QED  BY <3>1 DEF LastIsSome
  <2>9. PhaseInv'  BY <1>0, <1>6, <2>3 DEF PhaseInv, InIteration, InLoop
  <2>10. StepEffect
    <3>1. Len(list) \in Nat /\ cursor \in 1..Len(list)  BY <1>0
    <3>2. \A k \in 1..Len(list) : Evolves(list[k], list'[k])  BY <1>9, <2>3
    <3>3. Len(list') = Len(list) + 1 /\ list'[Len(list) + 1] = c  BY <2>3
    <3>4. /\ list'[Len(list) + 1].pid = numberOfTasks + 1
          /\ list'[Len(list) + 1].parent = list[cursor].pid
      BY <1>8, <3>3
    <3>5. newList' = <<>> /\ exactLaunch' = exactLaunch /\ numberOfTasks' = Len(list')  BY <1>6
    <3>6. Len(list') <= Len(list) + 1  BY <3>1, <3>3
    <3> QED  BY <3>1, <3>2, <3>4, <3>5, <3>6 DEF StepEffect
  <2> QED  BY <1>1, <2>3, <2>6, <2>7, <2>8, <2>9, <2>10 DEF SlotInv
<1> QED
  <2>1. \A c : <<c>> # <<>>  OBVIOUS
  <2> QED  BY <1>7, <1>8, <2>1

\* Emptying a slot and draining both vectors keeps the slot invariant: both are
\* cut at the same place, and it is below the end of the loop only when the
\* loop is over.
LEMMA DeallocateKeepsSlots ==
    ASSUME SlotInv, Deallocate
    PROVE  /\ SlotInv' /\ StepEffect
           /\ \A k \in 1..Len(list) : k <= Len(list') => list'[k] \in {list[k], NoProcess}
           /\ Len(list') <= Len(list)
<1> DEFINE Slot == Process \cup {NoProcess}
           L == [list EXCEPT ![cursor] = NoProcess]
           Q == [signals EXCEPT ![cursor] = NoQueue]
           Filled == {k \in DOMAIN list : IsSome(list[k])} \ {cursor}
           m == Max({0} \cup Filled)
<1>0. /\ InLoop /\ IsSome(list[cursor])
      /\ cursor \in 1..Len(signals) /\ cursor \in 1..Len(list) /\ cursor \in Nat
      /\ list \in Seq(Slot) /\ signals \in Seq(Queue)
      /\ newList = <<>> /\ Len(signals) = Len(list)
      /\ phase = "loop" /\ rangeEnd \in Nat /\ cursor <= rangeEnd /\ rangeEnd <= Len(list)
      /\ DOMAIN list = 1..Len(list) /\ DOMAIN signals = 1..Len(list)
  <2>1. InLoop /\ IsSome(list[cursor])  BY DEF Deallocate, At
  <2> QED  BY <2>1, HereType DEF SlotInv, TypeOK, PhaseInv, InIteration, InLoop, QueuePerProcess
<1>1. /\ L \in Seq(Slot) /\ Len(L) = Len(list)
      /\ \A k \in 1..Len(list) : L[k] = IF k = cursor THEN NoProcess ELSE list[k]
  BY <1>0, ExceptSeq
<1>2. /\ Q \in Seq(Queue) /\ Len(Q) = Len(list)
      /\ \A k \in 1..Len(list) : Q[k] = IF k = cursor THEN NoQueue ELSE signals[k]
  <2>1. NoQueue \in Queue
    <3>1. <<>> \in Seq({SIGILL})  OBVIOUS
    <3> QED  BY <3>1 DEF NoQueue, Queue
  <2> QED  BY <1>0, <2>1, ExceptSeq
<1>3. \A k \in 1..Len(list) : IsSome(list[k]) <=> IsSome(signals[k])
  BY DEF SlotInv, QueuePerProcess
<1>4. \A k \in 1..Len(list) : (IsSome(L[k]) <=> k \in Filled) /\ (IsSome(Q[k]) <=> k \in Filled)
  <2>1. ~IsSome(NoProcess) /\ ~IsSome(NoQueue)  BY DEF IsSome, NoProcess, NoQueue
  <2> SUFFICES ASSUME NEW k \in 1..Len(list)
               PROVE  (IsSome(L[k]) <=> k \in Filled) /\ (IsSome(Q[k]) <=> k \in Filled)
    OBVIOUS
  <2>2. k \in Filled <=> IsSome(list[k]) /\ k # cursor  BY <1>0
  <2> HIDE DEF L, Q, Filled
  <2> QED  BY <1>1, <1>2, <1>3, <2>1, <2>2
<1>5. Filled = {k \in DOMAIN signals : IsSome(signals[k])} \ {cursor}  BY <1>0, <1>3
<1>6. m \in 0..Len(list) /\ m \in {0} \cup Filled /\ \A k \in Filled : k <= m
  <2>1. Filled \in SUBSET (1..Len(list)) /\ Len(list) \in Nat  BY <1>0
  <2> HIDE DEF Filled
  <2> QED  BY <2>1, MaxOfIndices
<1>7. list' = SubSeq(L, 1, m) /\ signals' = SubSeq(Q, 1, m)
  BY <1>5 DEF Deallocate, Drain
<1>8. /\ newList' = <<>> /\ phase' = "loop" /\ cursor' = cursor + 1
      /\ numberOfTasks' = numberOfTasks /\ rangeEnd' = rangeEnd /\ launches' = launches
      /\ exactLaunch' = exactLaunch
  BY <1>0 DEF Deallocate
<1> HIDE DEF L, Q, Filled, m
<1>9. /\ list' \in Seq(Slot) /\ Len(list') = m
      /\ \A k \in 1..m : list'[k] = L[k]
  BY <1>1, <1>6, <1>7
<1>10. /\ signals' \in Seq(Queue) /\ Len(signals') = m
       /\ \A k \in 1..m : signals'[k] = Q[k]
  BY <1>2, <1>6, <1>7
<1>11. TypeOK'  BY <1>0, <1>8, <1>9, <1>10 DEF TypeOK, SlotInv
<1>12. QueuePerProcess'
  <2>1. \A k \in 1..Len(list') : IsSome(list'[k]) <=> IsSome(signals'[k])
    <3> SUFFICES ASSUME NEW k \in 1..m  PROVE IsSome(list'[k]) <=> IsSome(signals'[k])
      BY <1>9
    <3>1. k \in 1..Len(list)  BY <1>0, <1>6
    <3>2. list'[k] = L[k] /\ signals'[k] = Q[k]  BY <1>9, <1>10
    <3> QED  BY <1>4, <3>1, <3>2
  <2> QED  BY <1>6, <1>8, <1>9, <1>10, <2>1 DEF QueuePerProcess
<1>13. LastIsSome'
  <2>1. CASE m = 0  BY <1>9, <2>1 DEF LastIsSome
  <2>2. CASE m # 0
    <3>1. m \in Filled /\ m \in 1..Len(list)  BY <1>6, <2>2
    <3>2. IsSome(L[m]) /\ list'[Len(list')] = L[m]  BY <1>4, <1>9, <3>1
    <3> QED  BY <3>2 DEF LastIsSome
  <2> QED  BY <2>1, <2>2
<1>14. cursor < Len(list) => m = Len(list)
  <2> SUFFICES ASSUME cursor < Len(list)  PROVE m = Len(list)  OBVIOUS
  <2>1. list # <<>> /\ Len(list) \in 1..Len(list)  BY <1>0
  <2>2. IsSome(list[Len(list)])  BY <2>1 DEF SlotInv, LastIsSome
  <2>3. Len(list) \in Nat /\ Len(list) # cursor /\ Len(list) \in DOMAIN list
    <3>1. Len(list) \in Nat  BY <1>0, LenProperties
    <3>2. cursor \in Nat  BY <1>0
    <3>3. Len(list) # cursor  BY <3>1, <3>2
    <3>4. Len(list) \in DOMAIN list  BY <1>0, <2>1
    <3> QED  BY <3>1, <3>3, <3>4
  <2>4. Len(list) \in Filled  BY <2>2, <2>3 DEF Filled
  <2>5. Len(list) <= m /\ m \in 0..Len(list)  BY <1>6, <2>4
  <2> QED  BY <2>3, <2>5
<1>15. InIteration' => m = Len(list)
  BY <1>0, <1>8, <1>14 DEF InIteration, InLoop
<1>16. PhaseInv'  BY <1>0, <1>8, <1>9, <1>15 DEF PhaseInv, InIteration, InLoop
<1>17. \A k \in 1..Len(list) : k <= m => list'[k] \in {list[k], NoProcess}
  <2> SUFFICES ASSUME NEW k \in 1..Len(list), k <= m
               PROVE  list'[k] \in {list[k], NoProcess}
    OBVIOUS
  <2>1. k \in 1..m  BY <1>6
  <2>2. list'[k] = L[k]  BY <1>9, <2>1
  <2> QED  BY <1>1, <2>2
<1>18. StepEffect /\ Len(list') <= Len(list)
  <2>1. \A k \in 1..Len(list) : Evolves(list[k], list[k])
    <3>1. \A k \in 1..Len(list) : list[k] \in Slot  BY <1>0
    <3> QED  BY <3>1 DEF Evolves, NoProcess, IsSome
  <2>2. Len(list) \in Nat /\ m <= Len(list)  BY <1>0, <1>6
  <2> QED  BY <1>0, <1>8, <1>9, <1>15, <1>17, <2>1, <2>2 DEF StepEffect, InIteration
<1> QED  BY <1>9, <1>11, <1>12, <1>13, <1>16, <1>17, <1>18 DEF SlotInv

\* Each arm of tick() that lets a process execute an instruction to its end.
LEMMA ProcessTickEffect ==
    ASSUME SlotInv, ProcessTick, ~ReadStdin
    PROVE  SlotInv' /\ StepEffect
<1>1. InIteration /\ IsSome(list[cursor])
  BY DEF ProcessTick, Instruction, IllegalInstruction, Exit, Fork, ForkInChild, Waitpid,
         WaitpidReturns, ReadBlocks, At, InIteration
<1>2. /\ Here \in Process /\ Here.pid = list[cursor].pid
      /\ Evolves(list[cursor], Here) /\ IsSome(list[cursor])
  BY <1>1, HereType
<1>3. <<>> \in Seq({SIGILL}) /\ <<SIGILL>> \in Seq({SIGILL})  OBVIOUS
<1>4. ASSUME NEW p \in Process, Here.state \in Runnable,
             p.pid = Here.pid, p.parent = Here.parent
      PROVE  Evolves(list[cursor], p)
  <2>1. list[cursor].state \notin Terminated
    BY <1>1, <1>4, HereType DEF Runnable, Terminated
  <2> QED  BY <1>2, <1>4, <2>1 DEF Evolves
<1> USE DEF At, Runnable
<1>5. CASE Instruction
  BY <1>1, <1>2, <1>3, <1>5, TickedKeepsSlots DEF Instruction
<1>6. CASE IllegalInstruction
  BY <1>1, <1>2, <1>3, <1>6, TickedKeepsSlots DEF IllegalInstruction
<1>7. CASE Exit
  <2> PICK code \in ExitCodes :
         Ticked([Here EXCEPT !.state = IF Here.parent = 0 THEN "TO_BE_DEALLOCATED" ELSE "ZOMBIE",
                             !.outcome = code], <<>>, <<>>)
    BY <1>7 DEF Exit
  <2> DEFINE p == [Here EXCEPT !.state = IF Here.parent = 0 THEN "TO_BE_DEALLOCATED"
                                                            ELSE "ZOMBIE",
                               !.outcome = code]
  <2>1. p \in Process /\ p.pid = Here.pid /\ p.parent = Here.parent
    BY <1>2 DEF Process, ProcessState, Terminated, Outcome
  <2>2. Here.state \in Runnable  BY <1>7 DEF Exit
  <2> HIDE DEF p
  <2>3. Evolves(list[cursor], p)  BY <1>4, <2>1, <2>2
  <2>4. Ticked(p, <<>>, <<>>)  BY DEF p
  <2> QED  BY <1>1, <1>3, <2>1, <2>3, <2>4, TickedKeepsSlots
<1>8. CASE Fork
  <2> DEFINE c == [NewProcess(Here.pid, "RUNNING_NEW_CHILD_JUST_FORKED")
                      EXCEPT !.pid = numberOfTasks + 1]
  <2>1. c \in Process /\ c.pid = numberOfTasks + 1 /\ c.parent = list[cursor].pid
    <3>1. numberOfTasks \in Nat /\ Here.pid \in Nat  BY <1>2 DEF SlotInv, TypeOK, Process
    <3> QED  BY <1>2, <3>1 DEF NewProcess, Process, ProcessState
  <2>2. Ticked(Here, <<c>>, <<>>)  BY <1>8 DEF Fork
  <2> HIDE DEF c
  <2> QED  BY <1>1, <1>2, <1>3, <2>1, <2>2, TickedKeepsSlots
<1>9. CASE ForkInChild
  <2> DEFINE p == [Here EXCEPT !.state = "RUNNING"]
  <2>1. p \in Process /\ p.pid = Here.pid /\ p.parent = Here.parent
    BY <1>2 DEF Process, ProcessState
  <2>2. Here.state \in Runnable /\ Ticked(p, <<>>, <<>>)  BY <1>9 DEF ForkInChild
  <2> HIDE DEF p
  <2>3. Evolves(list[cursor], p)  BY <1>4, <2>1, <2>2
  <2> QED  BY <1>1, <1>3, <2>1, <2>2, <2>3, TickedKeepsSlots
<1>10. CASE Waitpid
  <2> PICK pid \in {0} \cup WaitPids :
         Ticked([Here EXCEPT !.state = "WAITING_FOR_CHILD_PROCESS", !.cpid = pid], <<>>, <<>>)
    BY <1>10 DEF Waitpid
  <2> DEFINE p == [Here EXCEPT !.state = "WAITING_FOR_CHILD_PROCESS", !.cpid = pid]
  <2>1. p \in Process /\ p.pid = Here.pid /\ p.parent = Here.parent
    <3>1. pid \in Nat  BY SchedulerAssumption
    <3> QED  BY <1>2, <3>1 DEF Process, ProcessState
  <2>2. Here.state \in Runnable /\ Ticked(p, <<>>, <<>>)  BY <1>10 DEF Waitpid
  <2> HIDE DEF p
  <2>3. Evolves(list[cursor], p)  BY <1>4, <2>1, <2>2
  <2> QED  BY <1>1, <1>3, <2>1, <2>2, <2>3, TickedKeepsSlots
<1>11. CASE WaitpidReturns
  <2> DEFINE p == [Here EXCEPT !.state = "RUNNING", !.cpid = 0, !.outcome = NoOutcome]
  <2>1. p \in Process /\ p.pid = Here.pid /\ p.parent = Here.parent
    BY <1>2 DEF Process, ProcessState
  <2>2. Here.state \in Runnable /\ Ticked(p, <<>>, <<>>)  BY <1>11 DEF WaitpidReturns
  <2> HIDE DEF p
  <2>3. Evolves(list[cursor], p)  BY <1>4, <2>1, <2>2
  <2> QED  BY <1>1, <1>3, <2>1, <2>2, <2>3, TickedKeepsSlots
<1>12. CASE ReadBlocks
  <2> DEFINE p == [Here EXCEPT !.state = "WAITING_FOR_READ_PIPE"]
  <2>1. p \in Process /\ p.pid = Here.pid /\ p.parent = Here.parent
    BY <1>2 DEF Process, ProcessState
  <2>2. Here.state \in Runnable /\ Ticked(p, <<>>, <<>>)  BY <1>12 DEF ReadBlocks
  <2> HIDE DEF p
  <2>3. Evolves(list[cursor], p)  BY <1>4, <2>1, <2>2
  <2> QED  BY <1>1, <1>3, <2>1, <2>2, <2>3, TickedKeepsSlots
<1> QED
  BY <1>5, <1>6, <1>7, <1>8, <1>9, <1>10, <1>11, <1>12 DEF ProcessTick

\* A key that a read of Stdin waits for.
LEMMA KeyPressedEffect ==
    ASSUME SlotInv, KeyPressed
    PROVE  /\ SlotInv' /\ StepEffect
           /\ Len(list') = Len(list)
           /\ \A k \in 1..Len(list) : list'[k] = list[k]
<1>1. InIteration /\ IsSome(list[cursor])
  BY DEF KeyPressed, InIteration, SlotInv, PhaseInv, IsSome
<1>2. list[cursor] \in Process  BY <1>1, HereType
<1>3. Evolves(list[cursor], list[cursor])  BY <1>2 DEF Evolves
<1>4. Ticked(list[cursor], <<>>, <<>>) /\ <<>> \in Seq({SIGILL})  BY DEF KeyPressed
<1> QED  BY <1>1, <1>2, <1>3, <1>4, TickedKeepsSlots

\* The arms of tick() that change only the process they are at.
LEMMA ContinueOne ==
    ASSUME SlotInv, InLoop, IsSome(list[cursor]),
           NEW q \in Process, Evolves(list[cursor], q),
           Continue([list EXCEPT ![cursor] = q])
    PROVE  SlotInv' /\ StepEffect
<1> DEFINE Slot == Process \cup {NoProcess}
           L == [list EXCEPT ![cursor] = q]
<1>1. list \in Seq(Slot) /\ cursor \in 1..Len(list)  BY HereType DEF InIteration, SlotInv, TypeOK
<1>2. /\ L \in Seq(Slot) /\ Len(L) = Len(list)
      /\ \A k \in 1..Len(list) : L[k] = IF k = cursor THEN q ELSE list[k]
  BY <1>1, ExceptSeq
<1>3. \A k \in 1..Len(list) : Evolves(list[k], list[k])
  <2>1. \A k \in 1..Len(list) : list[k] \in Slot  BY <1>1
  <2> QED  BY <2>1 DEF Evolves, NoProcess, IsSome
<1> HIDE DEF L
<1>4. \A k \in 1..Len(list) : Evolves(list[k], L[k])  BY <1>2, <1>3
<1>5. Continue(L)  BY DEF L
<1> QED  BY <1>2, <1>4, <1>5, ContinueKeepsSlots

\* The arms of tick() for waiting and terminated processes.
LEMMA SchedulerStepEffect ==
    ASSUME SlotInv, SchedulerStep, ~WaitPanics
    PROVE  SlotInv' /\ StepEffect
<1>1. InLoop /\ IsSome(list[cursor])
  BY DEF SchedulerStep, WaitReports, WaitInvalid, WaitContinues, PipeWaitOver,
         PipeWaitContinues, ZombieOrphaned, ZombieKept, Deallocate, At
<1>2. /\ Here \in Process /\ Here.pid = list[cursor].pid /\ Here.parent = list[cursor].parent
      /\ Evolves(list[cursor], Here) /\ cursor \in 1..Len(list) /\ list[cursor] \in Process
      /\ list[cursor].state \in Terminated => Here = list[cursor]
  BY <1>1, HereType DEF InIteration
<1>3. ASSUME NEW q \in Process, Here.state \notin Terminated,
             q.pid = Here.pid, q.parent = Here.parent
      PROVE  Evolves(list[cursor], q)
  <2>1. list[cursor].state \notin Terminated  BY <1>2, <1>3
  <2> QED  BY <1>1, <1>2, <1>3, <2>1 DEF Evolves
<1> USE DEF At
<1>4. CASE WaitContinues \/ PipeWaitContinues \/ ZombieKept
  <2>1. Continue([list EXCEPT ![cursor] = Here])
    BY <1>4 DEF WaitContinues, PipeWaitContinues, ZombieKept, SignalledList
  <2> QED  BY <1>1, <1>2, <2>1, ContinueOne
<1>5. CASE WaitInvalid
  <2> DEFINE q == [Here EXCEPT !.state = "FINISHED_WAITING_FOR_CHILD_PROCESS", !.cpid = 0]
  <2>1. q \in Process /\ q.pid = Here.pid /\ q.parent = Here.parent
    BY <1>2 DEF Process, ProcessState, Runnable
  <2>2. Continue([list EXCEPT ![cursor] = q]) /\ Here.state \notin Terminated
    BY <1>5 DEF WaitInvalid, Terminated
  <2> HIDE DEF q
  <2> QED  BY <1>1, <1>3, <2>1, <2>2, ContinueOne
<1>6. CASE PipeWaitOver
  <2> DEFINE q == [Here EXCEPT !.state = "RUNNING"]
  <2>1. q \in Process /\ q.pid = Here.pid /\ q.parent = Here.parent
    BY <1>2 DEF Process, ProcessState, Runnable
  <2>2. Continue([list EXCEPT ![cursor] = q]) /\ Here.state \notin Terminated
    BY <1>6 DEF PipeWaitOver, Terminated
  <2> HIDE DEF q
  <2> QED  BY <1>1, <1>3, <2>1, <2>2, ContinueOne
<1>7. CASE ZombieOrphaned
  <2> DEFINE q == [Here EXCEPT !.state = "TO_BE_DEALLOCATED"]
  <2>1. q \in Process /\ q.pid = Here.pid /\ q.parent = Here.parent /\ q.outcome = Here.outcome
        /\ q.state \in Terminated
    BY <1>2 DEF Process, ProcessState, Terminated
  <2>2. Continue([list EXCEPT ![cursor] = q])  BY <1>7 DEF ZombieOrphaned
  <2> HIDE DEF q
  <2>3. Evolves(list[cursor], q)  BY <1>1, <1>2, <2>1 DEF Evolves
  <2> QED  BY <1>1, <2>1, <2>2, <2>3, ContinueOne
<1>8. CASE WaitReports
  <2> DEFINE Slot == Process \cup {NoProcess}
             c == Min(Zombies)
             q == [Here EXCEPT !.state = "FINISHED_WAITING_FOR_CHILD_PROCESS",
                               !.cpid = list[c].pid, !.outcome = list[c].outcome]
             z == [list[c] EXCEPT !.state = "TO_BE_DEALLOCATED"]
             L == [list EXCEPT ![c] = z]
             M == [L EXCEPT ![cursor] = q]
  <2>1. list \in Seq(Slot) /\ DOMAIN list = 1..Len(list)  BY DEF SlotInv, TypeOK
  <2>2. c \in Zombies
    <3>1. Zombies \in SUBSET Nat  BY <2>1 DEF Zombies, Awaited
    <3>2. Zombies # {}  BY <1>8 DEF WaitReports
    <3> HIDE DEF c
    <3> QED  BY <3>1, <3>2, MinOfIndices DEF c
  <2> HIDE DEF c
  <2>3. /\ c \in 1..Len(list) /\ SignalledList[c].state = "ZOMBIE"
    BY <2>1, <2>2 DEF Zombies, Awaited
  <2>4. Here.state = "WAITING_FOR_CHILD_PROCESS"  BY <1>8 DEF WaitReports
  <2>5. c # cursor /\ list[c].state = "ZOMBIE"
    BY <1>2, <2>1, <2>3, <2>4 DEF SignalledList
  <2>6. list[c] \in Process
    <3>1. list[c] \in Slot  BY <2>1, <2>3
    <3> QED  BY <2>5, <3>1 DEF NoProcess
  <2>7. z \in Process /\ Evolves(list[c], z)
    <3>1. /\ z \in Process /\ z.pid = list[c].pid /\ z.parent = list[c].parent
          /\ z.outcome = list[c].outcome /\ z.state \in Terminated
      BY <2>6 DEF Process, ProcessState, Terminated
    <3>2. IsSome(list[c])  BY <2>6, ProcessIsSome
    <3> QED  BY <3>1, <3>2 DEF Evolves
  <2>8. q \in Process /\ q.pid = Here.pid /\ q.parent = Here.parent
    BY <1>2, <2>6 DEF Process, ProcessState, Runnable
  <2>9. Evolves(list[cursor], q)
    <3> HIDE DEF q
    <3> QED  BY <1>3, <2>4, <2>8 DEF Terminated
  <2>10. Continue(M)
    <3>1. [list EXCEPT ![c].state = "TO_BE_DEALLOCATED", ![cursor] = q] = M  OBVIOUS
    <3> QED  BY <1>8, <3>1 DEF WaitReports, c
  <2> HIDE DEF q, z
  <2>11. /\ L \in Seq(Slot) /\ Len(L) = Len(list)
         /\ \A k \in 1..Len(list) : L[k] = IF k = c THEN z ELSE list[k]
    BY <2>1, <2>3, <2>7, ExceptSeq
  <2> HIDE DEF L
  <2>12. /\ M \in Seq(Slot) /\ Len(M) = Len(list)
         /\ \A k \in 1..Len(list) : M[k] = IF k = cursor THEN q ELSE L[k]
    BY <1>2, <2>8, <2>11, ExceptSeq
  <2> HIDE DEF M
  <2>13. \A k \in 1..Len(list) : Evolves(list[k], list[k])
    <3>1. \A k \in 1..Len(list) : list[k] \in Slot  BY <2>1
    <3> QED  BY <3>1 DEF Evolves, NoProcess, IsSome
  <2>14. \A k \in 1..Len(list) : Evolves(list[k], M[k])
    <3> SUFFICES ASSUME NEW k \in 1..Len(list)  PROVE Evolves(list[k], M[k])  OBVIOUS
    <3>1. CASE k = cursor  BY <2>9, <2>12, <3>1
    <3>2. CASE k # cursor /\ k = c  BY <2>7, <2>11, <2>12, <3>2
    <3>3. CASE k # cursor /\ k # c  BY <2>11, <2>12, <2>13, <3>3
    <3> QED  BY <3>1, <3>2, <3>3
  <2> QED  BY <1>1, <2>10, <2>12, <2>14, ContinueKeepsSlots
<1>9. CASE Deallocate  BY <1>9, DeallocateKeepsSlots
<1> QED  BY <1>4, <1>5, <1>6, <1>7, <1>8, <1>9 DEF SchedulerStep

\* recive_signal terminates: a process that runs had no signal queued.
LEMMA QueueEmptyWhenAlive ==
    ASSUME SlotInv, InLoop, IsSome(list[cursor]), Here.state \notin Terminated
    PROVE  Here = list[cursor] /\ signals[cursor].queue = <<>>
<1>1. list[cursor] \in Process  BY HereType DEF InIteration
<1>2. CASE signals[cursor].queue # <<>>
  <2>1. Here = Recive_signal(list[cursor], Head(signals[cursor].queue))
    BY <1>2 DEF Here, Delivered
  <2> QED  BY <1>1, <2>1 DEF Recive_signal, Terminated, Process
<1> QED  BY <1>2 DEF Here, Delivered

\* The slot invariant holds at the start.
LEMMA InitSlots == Init => SlotInv
<1> SUFFICES ASSUME Init PROVE SlotInv  OBVIOUS
<1> USE DEF Init
<1>1. TypeOK  BY SchedulerAssumption DEF TypeOK
<1>2. QueuePerProcess  BY DEF QueuePerProcess
<1>3. LastIsSome  BY DEF LastIsSome
<1>4. PhaseInv  BY DEF PhaseInv, InIteration, InLoop
<1> QED  BY <1>1, <1>2, <1>3, <1>4 DEF SlotInv

\* Every step keeps it.
LEMMA StepSlots == SlotInv /\ [Next]_vars => SlotInv'
<1> SUFFICES ASSUME SlotInv, [Next]_vars  PROVE SlotInv'  OBVIOUS
<1> DEFINE Slot == Process \cup {NoProcess}
<1>0. /\ list \in Seq(Slot) /\ newList \in Seq(Process) /\ signals \in Seq(Queue)
      /\ numberOfTasks \in Nat /\ cursor \in Nat /\ rangeEnd \in Nat
      /\ Len(list) \in Nat /\ launches \in 0..MaxLaunches
  BY DEF SlotInv, TypeOK
<1>1. CASE Launch
  <2> DEFINE p == [NewProcess(0, "RUNNING") EXCEPT !.pid = numberOfTasks + 1]
  <2>1. p \in Process
    <3>1. numberOfTasks + 1 \in Nat  BY <1>0
    <3> QED  BY <3>1 DEF Process, NewProcess, ProcessState, Runnable
  <2>2. /\ list = <<>> /\ newList = <<>> /\ signals = <<>> /\ list' = <<>>
        /\ phase' = "tick"
    BY <1>0, <1>1 DEF Launch, SlotInv, PhaseInv, QueuePerProcess
  <2>3. newList' = <<p>> /\ signals' = <<EmptyQueue>>
    BY <1>1, <2>2 DEF Launch, New_task
  <2>4. EmptyQueue \in Queue /\ IsSome(EmptyQueue)
    <3>1. <<>> \in Seq({SIGILL})  OBVIOUS
    <3> QED  BY <3>1 DEF EmptyQueue, Queue, IsSome
  <2> HIDE DEF p
  <2>5. TypeOK'
    <3>1. launches' \in 0..MaxLaunches  BY <1>0, <1>1, SchedulerAssumption DEF Launch
    <3>2. numberOfTasks' \in Nat /\ cursor' \in Nat /\ rangeEnd' \in Nat
      BY <1>0, <1>1 DEF Launch, New_task
    <3>3. exactLaunch' \in BOOLEAN  BY <1>1 DEF Launch
    <3> QED  BY <2>1, <2>2, <2>3, <2>4, <3>1, <3>2, <3>3 DEF TypeOK
  <2>6. QueuePerProcess'
    <3>1. Len(list') = 0 /\ Len(newList') = 1 /\ Len(signals') = 1  BY <2>2, <2>3
    <3>2. signals'[1] = EmptyQueue  BY <2>3
    <3> QED  BY <2>4, <3>1, <3>2 DEF QueuePerProcess
  <2>7. LastIsSome'  BY <2>2 DEF LastIsSome
  <2>8. PhaseInv'  BY <2>2, <2>3 DEF PhaseInv, InIteration, InLoop
  <2> QED  BY <2>5, <2>6, <2>7, <2>8 DEF SlotInv
<1>2. CASE IdleCommand
  BY <1>2 DEF IdleCommand, SlotInv, TypeOK, QueuePerProcess, LastIsSome, PhaseInv, InIteration, InLoop
<1>3. CASE TickBegin
  <2>1. /\ newList' = <<>> /\ phase' = "loop" /\ cursor' = 1 /\ rangeEnd' = Len(list')
        /\ numberOfTasks' = Len(list') /\ signals' = signals /\ launches' = launches
        /\ list' = Move_new_tasks_into_list(list, newList) /\ exactLaunch' = exactLaunch
    BY <1>3 DEF TickBegin
  <2>2. CASE newList = <<>>
    <3>1. list' = list
      <4>1. NoProcess \in Slot  OBVIOUS
      <4> QED  BY <1>0, <2>1, <2>2, <4>1, MoveAtMostOne
    <3> QED
      BY <1>0, <2>1, <2>2, <3>1
      DEF SlotInv, TypeOK, QueuePerProcess, LastIsSome, PhaseInv, InIteration, InLoop
  <2>3. CASE newList # <<>>
    <3>1. Len(newList) = 1
      <4>1. phase = "tick"  BY <1>3 DEF TickBegin
      <4>2. Len(newList) <= 1  BY <4>1 DEF SlotInv, PhaseInv
      <4>3. newList \in Seq(Process)  BY <1>0
      <4>4. Len(newList) \in Nat \ {0}  BY <2>3, <4>3, EmptySeq
      <4> DEFINE n == Len(newList)
      <4>5. n \in Nat /\ n # 0 /\ n <= 1  BY <4>2, <4>4
      <4> HIDE DEF n
      <4>6. n = 1  BY <4>5
      <4> QED  BY <4>6 DEF n
    <3>2. PICK c \in Process : newList = <<c>>
      <4>1. newList \in Seq(Process) /\ 1 \in 1..Len(newList)  BY <1>0, <3>1
      <4>2. newList[1] \in Process  BY <4>1, ElementOfSeq
      <4>3. newList = <<newList[1]>>  BY <3>1, <4>1
      <4> QED  BY <4>2, <4>3
    <3>3. list' = Append(list, c)
      <4>1. c \in Slot  OBVIOUS
      <4> QED  BY <1>0, <2>1, <3>2, <4>1, MoveAtMostOne
    <3>4. /\ list' \in Seq(Slot) /\ Len(list') = Len(list) + 1
          /\ \A k \in 1..Len(list) : list'[k] = list[k]
          /\ list'[Len(list) + 1] = c
      BY <1>0, <3>3, AppendProperties
    <3>5. IsSome(c)  BY ProcessIsSome
    <3>6. /\ Len(signals) = Len(list) + 1
          /\ \A k \in 1..Len(list) : IsSome(list[k]) <=> IsSome(signals[k])
          /\ IsSome(signals[Len(list) + 1])
      BY <1>0, <3>1 DEF SlotInv, QueuePerProcess
    <3>7. TypeOK'
      <4>1. newList' \in Seq(Process)  BY <2>1
      <4>2. Len(list') \in Nat  BY <1>0, <3>4
      <4> QED  BY <1>0, <2>1, <3>4, <4>1, <4>2 DEF TypeOK, SlotInv
    <3>8. QueuePerProcess'
      <4>1. Len(signals') = Len(list') + Len(newList')  BY <1>0, <2>1, <3>4, <3>6
      <4>2. \A k \in 1..Len(list') : IsSome(list'[k]) <=> IsSome(signals'[k])
        <5> SUFFICES ASSUME NEW k \in 1..Len(list')
                     PROVE  IsSome(list'[k]) <=> IsSome(signals[k])
          BY <2>1
        <5>1. CASE k = Len(list) + 1  BY <3>4, <3>5, <3>6, <5>1
        <5>2. CASE k # Len(list) + 1
          <6>1. k \in 1..Len(list)  BY <1>0, <3>4, <5>2
          <6>2. list'[k] = list[k]  BY <3>4, <6>1
          <6>3. IsSome(list[k]) <=> IsSome(signals[k])  BY <3>6, <6>1
          <6> QED  BY <6>2, <6>3
        <5> QED  BY <5>1, <5>2
      <4>3. \A k \in Len(list') + 1 .. Len(signals') : IsSome(signals'[k])
        <5>1. Len(signals') = Len(list')  BY <2>1, <3>4, <3>6
        <5>2. Len(list') \in Nat  BY <1>0, <3>4
        <5> QED  BY <5>1, <5>2
      <4> QED  BY <4>1, <4>2, <4>3 DEF QueuePerProcess
    <3>9. LastIsSome'
      <4>1. IsSome(list'[Len(list')])  BY <3>4, <3>5
      <4> QED  BY <4>1 DEF LastIsSome
    <3>10. PhaseInv'
      <4>1. Len(list') \in Nat  BY <1>0, <3>4
      <4> QED  BY <2>1, <4>1 DEF PhaseInv, InIteration, InLoop
    <3> QED  BY <3>7, <3>8, <3>9, <3>10 DEF SlotInv
  <2> QED  BY <2>2, <2>3
<1>4. CASE TickEnd
  <2>1. /\ list' = list /\ newList' = newList /\ numberOfTasks' = numberOfTasks
        /\ signals' = signals /\ launches' = launches /\ cursor' = 0 /\ rangeEnd' = 0
        /\ newList = <<>> /\ exactLaunch' = exactLaunch
        /\ phase' = IF Len(list) > 0 THEN "tick" ELSE "shell"
    BY <1>4 DEF TickEnd, SlotInv, PhaseInv
  <2>2. PhaseInv'
    <3>1. phase' = "shell" => list' = <<>>  BY <1>0, <2>1
    <3> QED  BY <2>1, <3>1 DEF PhaseInv, InIteration, InLoop
  <2> QED  BY <2>1, <2>2 DEF SlotInv, TypeOK, QueuePerProcess, LastIsSome
<1>5. CASE SkipSlot
  BY <1>0, <1>5 DEF SkipSlot, SlotInv, TypeOK, QueuePerProcess, LastIsSome, PhaseInv, InIteration, InLoop
<1>6. CASE ProcessTick /\ ~ReadStdin  BY <1>6, ProcessTickEffect
<1>7. CASE SchedulerStep /\ ~WaitPanics  BY <1>7, SchedulerStepEffect
<1>8. CASE WaitPanics
  BY <1>0, <1>8
  DEF WaitPanics, At, SlotInv, TypeOK, QueuePerProcess, LastIsSome, PhaseInv, InIteration, InLoop
<1>10. CASE KeyPressed  BY <1>10, KeyPressedEffect
<1>11. CASE ReadStdin
  <2>1. InLoop /\ IsSome(list[cursor]) /\ Here.state = "RUNNING"  BY <1>11 DEF ReadStdin, At
  <2>2. list[cursor].state = "RUNNING" /\ signals[cursor].queue = <<>>
    BY <2>1, QueueEmptyWhenAlive DEF Terminated
  <2>3. PhaseInv'
    BY <1>0, <1>11, <2>1, <2>2 DEF ReadStdin, SlotInv, PhaseInv, InIteration, InLoop
  <2> QED  BY <1>11, <2>3 DEF ReadStdin, SlotInv, TypeOK, QueuePerProcess, LastIsSome
<1>9. CASE UNCHANGED vars
  BY <1>9 DEF vars, SlotInv, TypeOK, QueuePerProcess, LastIsSome, PhaseInv, InIteration, InLoop
<1> QED
  BY <1>1, <1>2, <1>3, <1>4, <1>5, <1>6, <1>7, <1>8, <1>9, <1>10, <1>11
  DEF Next, User, Tick, ProcessTick

\* move_new_tasks_into_list at the start of a tick appends what is pending.
LEMMA TickBeginEffect ==
    ASSUME SlotInv, TickBegin
    PROVE  /\ Len(list') = Len(list) + Len(newList)
           /\ \A k \in 1..Len(list) : list'[k] = list[k]
           /\ \A k \in 1..Len(newList) : list'[Len(list) + k] = newList[k]
           /\ Len(newList) <= 1
<1> DEFINE Slot == Process \cup {NoProcess}
<1>1. list \in Seq(Slot) /\ newList \in Seq(Process) /\ Len(newList) <= 1
  BY DEF SlotInv, TypeOK, TickBegin, PhaseInv
<1>2. list' = Move_new_tasks_into_list(list, newList)  BY DEF TickBegin
<1>3. CASE newList = <<>>
  <2>1. NoProcess \in Slot  OBVIOUS
  <2>2. list' = list  BY <1>1, <1>2, <1>3, <2>1, MoveAtMostOne
  <2> QED  BY <1>1, <1>3, <2>2
<1>4. CASE newList # <<>>
  <2> DEFINE n == Len(newList)
  <2>1. n \in Nat /\ n # 0 /\ n <= 1  BY <1>1, <1>4, EmptySeq
  <2> HIDE DEF n
  <2>2. n = 1  BY <2>1
  <2>3. newList[1] \in Slot /\ newList = <<newList[1]>>
    <3>1. 1 \in 1..Len(newList)  BY <2>2 DEF n
    <3>2. newList[1] \in Process  BY <1>1, <3>1, ElementOfSeq
    <3> QED  BY <1>1, <2>2, <3>2 DEF n
  <2>4. list' = Append(list, newList[1])  BY <1>1, <1>2, <2>3, MoveAtMostOne
  <2>5. /\ Len(list') = Len(list) + 1
        /\ \A k \in 1..Len(list) : list'[k] = list[k]
        /\ list'[Len(list) + 1] = newList[1]
    BY <1>1, <2>3, <2>4, AppendProperties
  <2> QED  BY <1>1, <2>2, <2>5 DEF n
<1> QED  BY <1>3, <1>4

\* What any step does to the processes that are in the list.
LEMMA ListSteps ==
    ASSUME SlotInv, [Next]_vars
    PROVE  \A k \in 1..Len(list) :
               k <= Len(list') => Evolves(list[k], list'[k]) \/ list'[k] = NoProcess
<1> DEFINE Slot == Process \cup {NoProcess}
<1>1. \A k \in 1..Len(list) : Evolves(list[k], list[k])
  <2>1. list \in Seq(Slot)  BY DEF SlotInv, TypeOK
  <2>2. \A k \in 1..Len(list) : list[k] \in Slot  BY <2>1
  <2> QED  BY <2>2 DEF Evolves, NoProcess, IsSome
<1>2. CASE list' = list  BY <1>1, <1>2
<1>3. CASE TickBegin  BY <1>1, <1>3, TickBeginEffect
<1>4. CASE ProcessTick /\ ~ReadStdin  BY <1>4, ProcessTickEffect DEF StepEffect
<1>5. CASE SchedulerStep /\ ~WaitPanics  BY <1>5, SchedulerStepEffect DEF StepEffect
<1>6. CASE KeyPressed  BY <1>6, KeyPressedEffect DEF StepEffect
<1> QED
  BY <1>2, <1>3, <1>4, <1>5, <1>6
  DEF Next, User, Tick, ReadStdin, Launch, IdleCommand, TickEnd, SkipSlot, WaitPanics, vars

(***************************************************************************)
(* Pids and parents                                                        *)
(***************************************************************************)

\* One iteration of the loop keeps pids equal to slots and parents below their
\* children.
LEMMA StepEffectKeepsPids ==
    ASSUME PidInv, SlotInv', StepEffect
    PROVE  PidInv'
<1> DEFINE Slot == Process \cup {NoProcess}
<1>1. /\ list \in Seq(Slot) /\ list' \in Seq(Slot)
      /\ Len(list) \in Nat /\ Len(list') \in Nat
      /\ DOMAIN list = 1..Len(list) /\ DOMAIN list' = 1..Len(list')
  BY DEF PidInv, SlotInv, TypeOK
<1>2. numberOfTasks = Len(list)  BY DEF StepEffect, PidInv, NumberExact
<1>3. \A k \in 1..Len(list') : IsSome(list'[k]) => list'[k].pid = k /\ list'[k].parent < k
  <2> SUFFICES ASSUME NEW k \in 1..Len(list'), IsSome(list'[k])
               PROVE  list'[k].pid = k /\ list'[k].parent < k
    OBVIOUS
  <2>1. CASE k <= Len(list)
    <3>1. k \in 1..Len(list) /\ k <= Len(list')  BY <1>1, <2>1
    <3>2. list'[k] # NoProcess  BY DEF NoProcess, IsSome
    <3>3. Evolves(list[k], list'[k])  BY <3>1, <3>2 DEF StepEffect
    <3>4. IsSome(list[k])  BY <3>3 DEF Evolves
    <3>5. list'[k].pid = list[k].pid /\ list'[k].parent = list[k].parent
      BY <3>3, <3>4 DEF Evolves
    <3>6. list[k].pid = k /\ list[k].parent < k
      BY <1>1, <3>1, <3>4 DEF PidInv, PidIsSlot, ParentBelowChild
    <3> QED  BY <3>5, <3>6
  <2>2. CASE ~(k <= Len(list))
    <3>1. k = Len(list) + 1 /\ Len(list') = Len(list) + 1
      <4> DEFINE m == Len(list)
                 n == Len(list')
      <4>1. m \in Nat /\ n \in Nat  BY <1>1
      <4>2. n <= m + 1  BY DEF StepEffect
      <4>3. k \in 1..n /\ ~(k <= m)  BY <2>2
      <4> HIDE DEF m, n
      <4>4. k = m + 1 /\ n = m + 1  BY <4>1, <4>2, <4>3
      <4> QED  BY <4>4 DEF m, n
    <3>2. /\ list'[k].pid = numberOfTasks + 1
          /\ list'[k].parent = list[cursor].pid
          /\ cursor \in 1..Len(list) /\ IsSome(list[cursor])
      BY <3>1 DEF StepEffect
    <3>3. list[cursor].pid = cursor  BY <1>1, <3>2 DEF PidInv, PidIsSlot
    <3> QED  BY <1>1, <1>2, <3>1, <3>2, <3>3
  <2> QED  BY <2>1, <2>2
<1>4. PidIsSlot' /\ ParentBelowChild'  BY <1>1, <1>3 DEF PidIsSlot, ParentBelowChild
<1>5. NumberExact'
  <2>1. newList' = <<>>  BY DEF StepEffect
  <2>2. InIteration' => numberOfTasks' = Len(list')  BY <1>2 DEF StepEffect
  <2> QED  BY <2>1, <2>2 DEF NumberExact
<1> QED  BY <1>4, <1>5 DEF PidInv

\* A launch with an exact NUMBER_OF_TASKS gives the new task the pid of its slot.
LEMMA LaunchPids ==
    ASSUME SlotInv, SlotInv', Launch, exactLaunch'
    PROVE  PidInv'
<1>1. list = <<>> /\ newList = <<>> /\ numberOfTasks = 0 /\ list' = list /\ phase' = "tick"
  BY DEF Launch, SlotInv, PhaseInv
<1>2. newList' = <<[NewProcess(0, "RUNNING") EXCEPT !.pid = 1]>>
  BY <1>1 DEF Launch, New_task
<1>3. NumberExact'  BY <1>1, <1>2 DEF NumberExact, InIteration, InLoop, NewProcess
<1> QED  BY <1>1, <1>3 DEF PidInv, PidIsSlot, ParentBelowChild

\* Every other step keeps pids equal to slots.
LEMMA StepPids ==
    ASSUME PidInv, [Next]_vars, ~Launch
    PROVE  PidInv'
<1>0. SlotInv /\ SlotInv'  BY StepSlots DEF PidInv
<1> DEFINE Slot == Process \cup {NoProcess}
<1>1. /\ list \in Seq(Slot) /\ Len(list) \in Nat /\ DOMAIN list = 1..Len(list)
      /\ newList \in Seq(Process)
  BY <1>0 DEF SlotInv, TypeOK
<1>3. CASE TickBegin
  <2>1. /\ Len(list') = Len(list) + Len(newList)
        /\ \A k \in 1..Len(list) : list'[k] = list[k]
        /\ \A k \in 1..Len(newList) : list'[Len(list) + k] = newList[k]
    BY <1>0, <1>3, TickBeginEffect
  <2>2. Len(newList) \in Nat /\ DOMAIN newList = 1..Len(newList)  BY <1>1
  <2>3. Len(list') \in Nat /\ DOMAIN list' = 1..Len(list')
    BY <1>0 DEF SlotInv, TypeOK
  <2>4. \A k \in 1..Len(list') : IsSome(list'[k]) => list'[k].pid = k /\ list'[k].parent < k
    <3> SUFFICES ASSUME NEW k \in 1..Len(list'), IsSome(list'[k])
                 PROVE  list'[k].pid = k /\ list'[k].parent < k
      OBVIOUS
    <3>1. CASE k <= Len(list)
      <4>1. k \in 1..Len(list) /\ list'[k] = list[k]  BY <1>1, <2>1, <3>1
      <4> QED  BY <1>1, <4>1 DEF PidInv, PidIsSlot, ParentBelowChild
    <3>2. CASE ~(k <= Len(list))
      <4> DEFINE j == k - Len(list)
      <4>1. j \in 1..Len(newList) /\ k = Len(list) + j  BY <1>1, <2>1, <2>2, <3>2
      <4> HIDE DEF j
      <4>2. list'[k] = newList[j]  BY <2>1, <4>1
      <4>3. newList[j].pid = Len(list) + j /\ newList[j].parent = 0
        BY <2>2, <4>1 DEF PidInv, NumberExact
      <4> QED  BY <1>1, <4>1, <4>2, <4>3
    <3> QED  BY <3>1, <3>2
  <2>5. PidIsSlot' /\ ParentBelowChild'  BY <2>3, <2>4 DEF PidIsSlot, ParentBelowChild
  <2>6. NumberExact'
    <3>1. newList' = <<>> /\ numberOfTasks' = Len(list')  BY <1>3 DEF TickBegin
    <3> QED  BY <3>1 DEF NumberExact
  <2> QED  BY <1>0, <2>5, <2>6 DEF PidInv
<1>4. CASE ProcessTick /\ ~ReadStdin  BY <1>0, <1>4, ProcessTickEffect, StepEffectKeepsPids
<1>5. CASE SchedulerStep /\ ~WaitPanics
  BY <1>0, <1>5, SchedulerStepEffect, StepEffectKeepsPids
<1>6. CASE IdleCommand \/ TickEnd \/ SkipSlot \/ WaitPanics \/ ReadStdin \/ UNCHANGED vars
  <2>1. list' = list /\ newList' = newList /\ numberOfTasks' = numberOfTasks
    BY <1>6 DEF IdleCommand, TickEnd, SkipSlot, WaitPanics, ReadStdin, vars
  <2>2. InIteration' => InIteration
    BY <1>0, <1>6
    DEF IdleCommand, TickEnd, SkipSlot, WaitPanics, ReadStdin, At, vars, InIteration, InLoop,
        SlotInv, TypeOK
  <2> QED  BY <1>0, <2>1, <2>2 DEF PidInv, PidIsSlot, ParentBelowChild, NumberExact
<1>7. CASE KeyPressed  BY <1>0, <1>7, KeyPressedEffect, StepEffectKeepsPids
<1> QED  BY <1>3, <1>4, <1>5, <1>6, <1>7 DEF Next, User, Tick, ProcessTick

\* Only a launch changes the history.
LEMMA HistorySteps ==
    ASSUME SlotInv, [Next]_vars, ~Launch
    PROVE  exactLaunch' = exactLaunch
<1>1. CASE ProcessTick /\ ~ReadStdin  BY <1>1, ProcessTickEffect DEF StepEffect
<1>2. CASE SchedulerStep /\ ~WaitPanics  BY <1>2, SchedulerStepEffect DEF StepEffect
<1>3. CASE KeyPressed  BY <1>3, KeyPressedEffect DEF StepEffect
<1> QED
  BY <1>1, <1>2, <1>3
  DEF Next, User, Tick, IdleCommand, TickBegin, TickEnd, SkipSlot, WaitPanics, ReadStdin, vars

LEMMA StepExactPids == ExactPidInv /\ [Next]_vars => ExactPidInv'
<1> SUFFICES ASSUME ExactPidInv, [Next]_vars  PROVE ExactPidInv'  OBVIOUS
<1>1. SlotInv /\ SlotInv'  BY StepSlots DEF ExactPidInv
<1>2. CASE Launch  BY <1>1, <1>2, LaunchPids DEF ExactPidInv
<1>3. CASE ~Launch
  <2>1. exactLaunch' = exactLaunch  BY <1>1, <1>3, HistorySteps
  <2> QED  BY <1>1, <1>3, <2>1, StepPids DEF ExactPidInv
<1> QED  BY <1>2, <1>3

(***************************************************************************)
(* Waits                                                                   *)
(***************************************************************************)

\* The wait of the process in slot k, which the loop is at, reports the child in
\* slot c.
Reports(k, c) ==
    /\ list[k].state = "WAITING_FOR_CHILD_PROCESS" /\ list[k].cpid \in {0, c}
    /\ list[c].state = "ZOMBIE" /\ list[c].parent = k
    /\ c <= Len(list') /\ list'[c].state = "TO_BE_DEALLOCATED"
    /\ list'[k].cpid = list[c].pid /\ list'[k].outcome = list[c].outcome

\* What a step may do to the process in slot k as far as waits are concerned: a
\* process on its way out stays there, and a wait that is over is one that was
\* over, found no child or reports one.
WaitEffect(k) ==
    /\ list[k].state = "TO_BE_DEALLOCATED" => list'[k].state \in {"TO_BE_DEALLOCATED", "NONE"}
    /\ list'[k].state = "FINISHED_WAITING_FOR_CHILD_PROCESS" =>
          \/ list'[k] = list[k]
          \/ list'[k].cpid = 0
          \/ \E c \in 1..Len(list) : Reports(k, c)

\* A process that is added while the list is at Len(list) has no parent, or its
\* parent has just forked it and is running.
AddedEffect ==
    Len(list') > Len(list) =>
        /\ Len(list') = Len(list) + 1
        /\ \/ list'[Len(list')].parent = 0
           \/ /\ cursor \in 1..Len(list) /\ IsSome(list[cursor])
              /\ list'[Len(list')].parent = list[cursor].pid
              /\ list'[cursor].state = "RUNNING"

\* recive_signal leaves a process alone or terminates it.
LEMMA HereAlive ==
    ASSUME SlotInv, InIteration, IsSome(list[cursor])
    PROVE  /\ Here = list[cursor] \/ Here.state \in Terminated
           /\ list[cursor].state \in Terminated => Here = list[cursor]
<1>1. list[cursor] \in Process
      /\ list[cursor].state \in Terminated => Here = list[cursor]
  BY HereType
<1>2. CASE signals[cursor].queue = <<>>  BY <1>2 DEF Here, Delivered
<1>3. CASE signals[cursor].queue # <<>>
  <2>1. Here = Recive_signal(list[cursor], Head(signals[cursor].queue))
    BY <1>3 DEF Here, Delivered
  <2> QED  BY <1>1, <2>1 DEF Recive_signal, Terminated, Process
<1> QED  BY <1>1, <1>2, <1>3

\* A step that changes only the process the loop is at, and does not end a wait
\* with a report.
LEMMA OneSlotWaits ==
    ASSUME SlotInv, InIteration, IsSome(list[cursor]), NEW p,
           \A k \in 1..Len(list) : list'[k] = IF k = cursor THEN p ELSE list[k],
           list[cursor].state = "TO_BE_DEALLOCATED" => p.state = "TO_BE_DEALLOCATED",
           p.state = "FINISHED_WAITING_FOR_CHILD_PROCESS" => p = list[cursor] \/ p.cpid = 0
    PROVE  \A k \in 1..Len(list) : WaitEffect(k)
BY DEF WaitEffect

\* The instructions of a process.
LEMMA ProcessTickWaits ==
    ASSUME SlotInv, ProcessTick, ~ReadStdin
    PROVE  AddedEffect /\ \A k \in 1..Len(list) : WaitEffect(k)
<1>1. InIteration /\ IsSome(list[cursor]) /\ Here.state \in Runnable
  BY DEF ProcessTick, Instruction, IllegalInstruction, Exit, Fork, ForkInChild, Waitpid,
         WaitpidReturns, ReadBlocks, At, InIteration, Runnable
<1>2. Here = list[cursor] /\ Here \in Process /\ list[cursor].state \notin Terminated
      /\ cursor \in 1..Len(list)
  BY <1>1, HereAlive, HereType DEF Runnable, Terminated
<1>3. <<>> \in Seq({SIGILL}) /\ <<SIGILL>> \in Seq({SIGILL})  OBVIOUS
<1>4. ASSUME NEW p \in Process, p.pid = Here.pid, p.parent = Here.parent,
             p.state # "FINISHED_WAITING_FOR_CHILD_PROCESS",
             NEW sent \in Seq({SIGILL}), Ticked(p, <<>>, sent)
      PROVE  AddedEffect /\ \A k \in 1..Len(list) : WaitEffect(k)
  <2>1. Evolves(list[cursor], p)  BY <1>1, <1>2, <1>4 DEF Evolves
  <2>2. /\ \A k \in 1..Len(list) : list'[k] = IF k = cursor THEN p ELSE list[k]
        /\ Len(list') = Len(list)
    BY <1>1, <1>4, <2>1, TickedKeepsSlots
  <2>3. AddedEffect
    <3>1. Len(list) \in Nat  BY DEF SlotInv, TypeOK
    <3> QED  BY <2>2, <3>1 DEF AddedEffect
  <2>4. \A k \in 1..Len(list) : WaitEffect(k)
    BY <1>1, <1>2, <1>4, <2>2, OneSlotWaits DEF Terminated
  <2> QED  BY <2>3, <2>4
<1> USE DEF At, Process, ProcessState, Runnable, Terminated, Outcome
<1>5. CASE Instruction  BY <1>2, <1>3, <1>4, <1>5 DEF Instruction
<1>6. CASE IllegalInstruction  BY <1>2, <1>3, <1>4, <1>6 DEF IllegalInstruction
<1>7. CASE Exit
  <2> PICK code \in ExitCodes :
         Ticked([Here EXCEPT !.state = IF Here.parent = 0 THEN "TO_BE_DEALLOCATED" ELSE "ZOMBIE",
                             !.outcome = code], <<>>, <<>>)
    BY <1>7 DEF Exit
  <2> QED  BY <1>2, <1>3, <1>4
<1>8. CASE Fork
  <2> DEFINE c == [NewProcess(Here.pid, "RUNNING_NEW_CHILD_JUST_FORKED")
                      EXCEPT !.pid = numberOfTasks + 1]
  <2>1. c \in Process /\ c.pid = numberOfTasks + 1 /\ c.parent = list[cursor].pid
    <3>1. numberOfTasks \in Nat /\ Here.pid \in Nat  BY <1>2 DEF SlotInv, TypeOK
    <3> QED  BY <1>2, <3>1 DEF NewProcess
  <2>2. Ticked(Here, <<c>>, <<>>) /\ Here.state = "RUNNING"  BY <1>8 DEF Fork
  <2> HIDE DEF c
  <2>3. Evolves(list[cursor], Here)  BY <1>1, HereType
  <2>4. /\ SlotInv' /\ StepEffect
        /\ \A k \in 1..Len(list) : list'[k] = IF k = cursor THEN Here ELSE list[k]
    BY <1>1, <1>2, <1>3, <2>1, <2>2, <2>3, TickedKeepsSlots
  <2>5. Len(list) \in Nat /\ Len(list') \in Nat  BY <2>4 DEF SlotInv, TypeOK
  <2>6. AddedEffect
    <3> SUFFICES ASSUME Len(list') > Len(list)  PROVE AddedEffect  BY DEF AddedEffect
    <3>1. Len(list') = Len(list) + 1
      <4>1. Len(list') <= Len(list) + 1  BY <2>4 DEF StepEffect
      <4> DEFINE m == Len(list)
                 n == Len(list')
      <4>2. m \in Nat /\ n \in Nat /\ n > m /\ n <= m + 1  BY <2>5, <4>1
      <4> HIDE DEF m, n
      <4>3. n = m + 1  BY <4>2
      <4> QED  BY <4>3 DEF m, n
    <3>2. list'[cursor] = Here  BY <1>2, <2>4
    <3> QED  BY <1>1, <1>2, <2>2, <2>4, <3>1, <3>2 DEF AddedEffect, StepEffect
  <2>7. \A k \in 1..Len(list) : WaitEffect(k)
    BY <1>1, <1>2, <2>2, <2>4, OneSlotWaits
  <2> QED  BY <2>6, <2>7
<1>9. CASE ForkInChild  BY <1>2, <1>3, <1>4, <1>9 DEF ForkInChild
<1>10. CASE Waitpid
  <2> PICK pid \in {0} \cup WaitPids :
         Ticked([Here EXCEPT !.state = "WAITING_FOR_CHILD_PROCESS", !.cpid = pid], <<>>, <<>>)
    BY <1>10 DEF Waitpid
  <2>1. pid \in Nat  BY SchedulerAssumption
  <2> QED  BY <1>2, <1>3, <1>4, <2>1
<1>11. CASE WaitpidReturns  BY <1>2, <1>3, <1>4, <1>11 DEF WaitpidReturns
<1>12. CASE ReadBlocks  BY <1>2, <1>3, <1>4, <1>12 DEF ReadBlocks
<1> QED
  BY <1>5, <1>6, <1>7, <1>8, <1>9, <1>10, <1>11, <1>12 DEF ProcessTick

\* The arms of tick() for waiting and terminated processes.
LEMMA SchedulerStepWaits ==
    ASSUME SlotInv, SchedulerStep, ~WaitPanics
    PROVE  /\ Len(list') <= Len(list)
           /\ \A k \in 1..Len(list) : k <= Len(list') => WaitEffect(k)
<1> DEFINE Slot == Process \cup {NoProcess}
<1>1. InIteration /\ IsSome(list[cursor])
  BY DEF SchedulerStep, WaitReports, WaitInvalid, WaitContinues, PipeWaitOver,
         PipeWaitContinues, ZombieOrphaned, ZombieKept, Deallocate, At, InIteration
<1>2. /\ Here = list[cursor] \/ Here.state \in Terminated
      /\ list[cursor].state \in Terminated => Here = list[cursor]
      /\ Here \in Process /\ cursor \in 1..Len(list)
      /\ list \in Seq(Slot) /\ Len(list) \in Nat /\ DOMAIN list = 1..Len(list)
  BY <1>1, HereAlive, HereType DEF SlotInv, TypeOK
<1>3. ASSUME NEW p, list' = [list EXCEPT ![cursor] = p],
             list[cursor].state = "TO_BE_DEALLOCATED" => p.state = "TO_BE_DEALLOCATED",
             p.state = "FINISHED_WAITING_FOR_CHILD_PROCESS" => p = list[cursor] \/ p.cpid = 0
      PROVE  Len(list') <= Len(list) /\ \A k \in 1..Len(list) : WaitEffect(k)
  <2>1. \A k \in 1..Len(list) : list'[k] = IF k = cursor THEN p ELSE list[k]
    BY <1>2, <1>3
  <2>2. Len(list') = Len(list)  BY <1>2, <1>3
  <2> QED  BY <1>1, <1>2, <1>3, <2>1, <2>2, OneSlotWaits
<1> USE DEF At, Process, Terminated, Continue
<1>4. CASE WaitContinues \/ PipeWaitContinues \/ ZombieKept
  BY <1>2, <1>3, <1>4 DEF WaitContinues, PipeWaitContinues, ZombieKept, SignalledList
<1>5. CASE WaitInvalid  BY <1>2, <1>3, <1>5 DEF WaitInvalid
<1>6. CASE PipeWaitOver  BY <1>2, <1>3, <1>6 DEF PipeWaitOver
<1>7. CASE ZombieOrphaned  BY <1>2, <1>3, <1>7 DEF ZombieOrphaned
<1>8. CASE WaitReports
  <2> DEFINE c == Min(Zombies)
             q == [Here EXCEPT !.state = "FINISHED_WAITING_FOR_CHILD_PROCESS",
                               !.cpid = list[c].pid, !.outcome = list[c].outcome]
             z == [list[c] EXCEPT !.state = "TO_BE_DEALLOCATED"]
             M == [[list EXCEPT ![c] = z] EXCEPT ![cursor] = q]
  <2>1. c \in Zombies
    <3>1. Zombies \in SUBSET Nat  BY <1>2 DEF Zombies, Awaited
    <3>2. Zombies # {}  BY <1>8 DEF WaitReports
    <3> HIDE DEF c
    <3> QED  BY <3>1, <3>2, MinOfIndices DEF c
  <2>2. list' = M
    <3>1. [list EXCEPT ![c].state = "TO_BE_DEALLOCATED", ![cursor] = q] = M  OBVIOUS
    <3> QED  BY <1>8, <3>1 DEF WaitReports
  <2> HIDE DEF c
  <2>3. Here.state = "WAITING_FOR_CHILD_PROCESS" /\ Here = list[cursor]
    BY <1>2, <1>8 DEF WaitReports
  <2>4. SignalledList = list  BY <1>2, <2>3 DEF SignalledList
  <2>5. /\ c \in 1..Len(list) /\ list[c].state = "ZOMBIE" /\ list[c].parent = cursor
        /\ Here.cpid \in {0, c}
    BY <1>2, <2>1, <2>4 DEF Zombies, Awaited
  <2>6. c # cursor  BY <2>3, <2>5
  <2>7. list[c] \in Process
    <3>1. list[c] \in Slot  BY <1>2, <2>5
    <3> QED  BY <2>5, <3>1 DEF NoProcess
  <2>8. /\ z.state = "TO_BE_DEALLOCATED"
        /\ q.cpid = list[c].pid /\ q.outcome = list[c].outcome
    BY <1>2, <2>7
  <2> HIDE DEF q, z
  <2>9. /\ Len(list') = Len(list) /\ list'[cursor] = q /\ list'[c] = z
        /\ \A k \in 1..Len(list) : k # cursor /\ k # c => list'[k] = list[k]
    BY <1>2, <2>2, <2>5, <2>6
  <2>10. Reports(cursor, c)
    BY <1>2, <2>3, <2>5, <2>8, <2>9 DEF Reports
  <2>11. WaitEffect(cursor)  BY <2>3, <2>5, <2>10 DEF WaitEffect
  <2>12. WaitEffect(c)  BY <2>8, <2>9 DEF WaitEffect
  <2>13. \A k \in 1..Len(list) : k # cursor /\ k # c => WaitEffect(k)
    BY <2>9 DEF WaitEffect
  <2> QED  BY <1>2, <2>9, <2>11, <2>12, <2>13
<1>9. CASE Deallocate
  <2>1. /\ \A k \in 1..Len(list) : k <= Len(list') => list'[k] \in {list[k], NoProcess}
        /\ Len(list') <= Len(list)
    BY <1>9, DeallocateKeepsSlots
  <2> QED  BY <2>1 DEF WaitEffect, NoProcess
<1> QED  BY <1>4, <1>5, <1>6, <1>7, <1>8, <1>9 DEF SchedulerStep

\* Every step.
LEMMA WaitSteps ==
    ASSUME PidInv, SlotInv', [Next]_vars
    PROVE  AddedEffect /\ \A k \in 1..Len(list) : k <= Len(list') => WaitEffect(k)
<1>1. SlotInv /\ Len(list) \in Nat /\ Len(list') \in Nat  BY DEF PidInv, SlotInv, TypeOK
<1>2. CASE list' = list  BY <1>1, <1>2 DEF WaitEffect, AddedEffect
<1>3. CASE TickBegin
  <2>1. /\ Len(list') = Len(list) + Len(newList)
        /\ \A k \in 1..Len(list) : list'[k] = list[k]
        /\ \A k \in 1..Len(newList) : list'[Len(list) + k] = newList[k]
        /\ Len(newList) <= 1
    BY <1>1, <1>3, TickBeginEffect
  <2>2. Len(newList) \in Nat /\ DOMAIN newList = 1..Len(newList)  BY <1>1 DEF SlotInv, TypeOK
  <2>3. AddedEffect
    <3> SUFFICES ASSUME Len(list') > Len(list)
                 PROVE  Len(list') = Len(list) + 1 /\ list'[Len(list')].parent = 0
      BY DEF AddedEffect
    <3>1. Len(newList) = 1  BY <1>1, <2>1, <2>2
    <3>2. list'[Len(list) + 1] = newList[1] /\ newList[1].parent = 0
      BY <2>1, <2>2, <3>1 DEF PidInv, NumberExact
    <3> QED  BY <2>1, <3>1, <3>2
  <2>4. \A k \in 1..Len(list) : WaitEffect(k)  BY <2>1 DEF WaitEffect
  <2> QED  BY <2>3, <2>4
<1>4. CASE ProcessTick /\ ~ReadStdin  BY <1>1, <1>4, ProcessTickWaits
<1>5. CASE SchedulerStep /\ ~WaitPanics
  BY <1>1, <1>5, SchedulerStepWaits DEF AddedEffect
<1>6. CASE KeyPressed
  <2>1. Len(list') = Len(list) /\ \A k \in 1..Len(list) : list'[k] = list[k]
    BY <1>1, <1>6, KeyPressedEffect
  <2> QED  BY <1>1, <2>1 DEF WaitEffect, AddedEffect
<1> QED
  BY <1>2, <1>3, <1>4, <1>5, <1>6
  DEF Next, User, Tick, ReadStdin, Launch, IdleCommand, TickEnd, SkipSlot, WaitPanics, vars

\* A reported child stays reported: its slot is not filled again by a child of the
\* same process before the report has been picked up.
LEMMA StepReported ==
    ASSUME PidInv, PidInv', exactLaunch, ReportedOnce, [Next]_vars
    PROVE  ReportedOnce'
<1> DEFINE Gone == {"TO_BE_DEALLOCATED", "NONE"}
           Fin == "FINISHED_WAITING_FOR_CHILD_PROCESS"
           Slot == Process \cup {NoProcess}
<1>1. /\ DOMAIN list = 1..Len(list) /\ DOMAIN list' = 1..Len(list')
      /\ Len(list) \in Nat /\ Len(list') \in Nat
      /\ list \in Seq(Slot) /\ list' \in Seq(Slot) /\ SlotInv /\ SlotInv'
  BY DEF PidInv, SlotInv, TypeOK
<1>2. AddedEffect /\ \A k \in 1..Len(list) : k <= Len(list') => WaitEffect(k)
  BY <1>1, WaitSteps
<1> SUFFICES ASSUME NEW k \in 1..Len(list'), NEW c \in 1..Len(list'),
                    list'[k].state = Fin, list'[k].cpid = c,
                    list'[c].parent = k, list'[c].state \notin Gone
             PROVE  FALSE
  BY <1>1 DEF ReportedOnce
<1>3. list'[c] \in Process /\ IsSome(list'[c])
  BY <1>1 DEF NoProcess, IsSome
<1>4. k < c  BY <1>1, <1>3 DEF PidInv, ParentBelowChild
<1>5. k \in 1..Len(list)
  <2> SUFFICES ASSUME Len(list) < k  PROVE FALSE  BY <1>1
  <2>1. Len(list') > Len(list)
    <3> DEFINE m == Len(list)
               n == Len(list')
    <3>1. m \in Nat /\ n \in Nat /\ k \in 1..n /\ m < k  BY <1>1
    <3> HIDE DEF m, n
    <3>2. n > m  BY <3>1
    <3> QED  BY <3>2 DEF m, n
  <2>2. Len(list') = Len(list) + 1  BY <1>2, <2>1 DEF AddedEffect
  <2> QED  BY <1>1, <1>4, <2>2
<1>6. WaitEffect(k)  BY <1>1, <1>2, <1>5
<1>7. CASE list'[k] = list[k]
  <2>1. CASE c \in 1..Len(list)
    <3>1. ~(list[c].parent = k /\ list[c].state \notin Gone)
      BY <1>1, <1>5, <1>7, <2>1 DEF ReportedOnce
    <3>2. Evolves(list[c], list'[c])
      <4>1. list'[c] # NoProcess  BY DEF NoProcess
      <4> QED  BY <1>1, <2>1, <4>1, ListSteps
    <3>3. WaitEffect(c)  BY <1>1, <1>2, <2>1
    <3>4. CASE IsSome(list[c])
      <4>1. list'[c].parent = list[c].parent  BY <3>2, <3>4 DEF Evolves
      <4>2. list[c].state = "TO_BE_DEALLOCATED"  BY <3>1, <3>4, <4>1 DEF IsSome
      <4> QED  BY <3>3, <4>2 DEF WaitEffect
    <3>5. CASE ~IsSome(list[c])  BY <1>3, <3>2, <3>5 DEF Evolves
    <3> QED  BY <3>4, <3>5
  <2>2. CASE c \notin 1..Len(list)
    <3>1. Len(list') = Len(list) + 1 /\ c = Len(list')
      <4> DEFINE m == Len(list)
                 n == Len(list')
      <4>1. m \in Nat /\ n \in Nat /\ c \in 1..n /\ c \notin 1..m  BY <1>1, <2>2
      <4>2. n > m => n = m + 1  BY <1>2 DEF AddedEffect
      <4> HIDE DEF m, n
      <4>3. n = m + 1 /\ c = n  BY <4>1, <4>2
      <4> QED  BY <4>3 DEF m, n
    <3>2. \/ list'[c].parent = 0
          \/ /\ cursor \in 1..Len(list) /\ IsSome(list[cursor])
             /\ list'[c].parent = list[cursor].pid
             /\ list'[cursor].state = "RUNNING"
      BY <1>1, <1>2, <3>1 DEF AddedEffect
    <3>3. list'[c].parent # 0  BY <1>1
    <3>4. list[cursor].pid = cursor  BY <1>1, <3>2, <3>3 DEF PidInv, PidIsSlot
    <3> QED  BY <3>2, <3>3, <3>4
  <2> QED  BY <2>1, <2>2
<1>8. CASE list'[k].cpid = 0  BY <1>1, <1>8
<1>9. ASSUME NEW d \in 1..Len(list), Reports(k, d)
      PROVE  FALSE
  <2>1. IsSome(list[d])  BY <1>9 DEF Reports, IsSome
  <2>2. list[d].pid = d  BY <1>1, <2>1 DEF PidInv, PidIsSlot
  <2>3. d = c  BY <1>9, <2>2 DEF Reports
  <2> QED  BY <1>9, <2>3 DEF Reports
<1> QED  BY <1>6, <1>7, <1>8, <1>9 DEF WaitEffect

(***************************************************************************)
(* Theorems                                                                *)
(***************************************************************************)

\* The slot invariant holds in every reachable state, for any number of tasks,
\* of launches and whatever order the launches come in.
THEOREM SlotInvariant == Spec => []SlotInv
BY InitSlots, StepSlots, PTL DEF Spec

\* The variables of scheduler.rs keep their types.
THEOREM TypeCorrect == Spec => []TypeOK
<1>1. SlotInv => TypeOK  BY DEF SlotInv
<1> QED  BY <1>1, SlotInvariant, PTL

\* There is a signal queue for every process and none for an empty slot.
THEOREM QueuesMatchProcesses == Spec => []QueuePerProcess
<1>1. SlotInv => QueuePerProcess  BY DEF SlotInv
<1> QED  BY <1>1, SlotInvariant, PTL

\* tick() never indexes out of bounds and never unwraps an absent signal queue,
\* although the list shrinks while its loop runs to the old length.
THEOREM TickNeverOutOfBounds == Spec => []TickInBounds
<1>1. SlotInv => TickInBounds
  <2> SUFFICES ASSUME SlotInv, InLoop
               PROVE  /\ cursor \in DOMAIN list
                      /\ IsSome(list[cursor]) =>
                            cursor \in DOMAIN signals /\ IsSome(signals[cursor])
    BY DEF TickInBounds
  <2>1. cursor \in 1..Len(list) /\ DOMAIN list = 1..Len(list)
    BY DEF SlotInv, TypeOK, PhaseInv, InIteration, InLoop
  <2>2. cursor \in 1..Len(signals) /\ DOMAIN signals = 1..Len(signals)
    BY <2>1 DEF SlotInv, TypeOK, PhaseInv, InIteration, InLoop, QueuePerProcess
  <2> QED  BY <2>1, <2>2 DEF SlotInv, QueuePerProcess
<1> QED  BY <1>1, SlotInvariant, PTL

\* The pid invariant holds for every program launched with an exact count.
LEMMA PidInvariant == Spec => []ExactPidInv
<1>1. Init => ExactPidInv
  <2> SUFFICES ASSUME Init PROVE ExactPidInv  OBVIOUS
  <2>1. SlotInv  BY InitSlots
  <2>2. list = <<>> /\ newList = <<>> /\ ~InIteration  BY DEF Init, InIteration, InLoop
  <2> QED  BY <2>1, <2>2 DEF ExactPidInv, PidInv, NumberExact, PidIsSlot, ParentBelowChild
<1> QED  BY <1>1, StepExactPids, PTL DEF Spec

\* In a program launched with an exact NUMBER_OF_TASKS every process sits in the
\* slot of its pid and above the process it names as its parent, whatever forks,
\* exits and waits happen; this is not so of the others (PidHasQueue).
THEOREM PidsOfExactLaunches ==
    Spec => [](exactLaunch => PidIsSlot /\ ParentBelowChild)
<1>1. ExactPidInv => (exactLaunch => PidIsSlot /\ ParentBelowChild)
  BY DEF ExactPidInv, PidInv
<1> QED  BY <1>1, PidInvariant, PTL

\* No process is ever put in a slot that a process in the list names as its
\* parent: a child is never inherited by a stranger (in a program launched with an
\* exact NUMBER_OF_TASKS).
THEOREM ParentNeverStale == Spec => NoStaleParent
<1> DEFINE A == exactLaunch => \A k \in DOMAIN list' :
                   (IsSome(list'[k]) /\ (k \notin DOMAIN list \/ ~IsSome(list[k])))
                   => \A j \in DOMAIN list : list[j].parent # k
<1>1. ExactPidInv /\ ExactPidInv' /\ [Next]_vars => A
  <2> SUFFICES ASSUME PidInv, SlotInv', [Next]_vars,
                      NEW k \in DOMAIN list', IsSome(list'[k]),
                      k \notin DOMAIN list \/ ~IsSome(list[k]),
                      NEW j \in DOMAIN list
               PROVE  list[j].parent # k
    BY DEF ExactPidInv
  <2>1. /\ DOMAIN list = 1..Len(list) /\ DOMAIN list' = 1..Len(list')
        /\ Len(list) \in Nat /\ Len(list') \in Nat
        /\ list[j] \in Process \cup {NoProcess}
    BY DEF PidInv, SlotInv, TypeOK
  <2>2. k \notin DOMAIN list
    <3> SUFFICES ASSUME k \in DOMAIN list  PROVE FALSE  OBVIOUS
    <3>1. ~IsSome(list[k]) /\ k \in 1..Len(list) /\ k <= Len(list')  BY <2>1
    <3>2. Evolves(list[k], list'[k]) \/ list'[k] = NoProcess
      BY <3>1, ListSteps DEF PidInv
    <3> QED  BY <3>1, <3>2 DEF Evolves, NoProcess, IsSome
  <2>3. CASE IsSome(list[j])
    <3>1. list[j].parent < j  BY <2>3 DEF PidInv, ParentBelowChild
    <3>2. list[j] \in Process  BY <2>1, <2>3 DEF NoProcess, IsSome
    <3>3. list[j].parent \in Nat  BY <3>2 DEF Process
    <3> QED  BY <2>1, <2>2, <3>1, <3>3
  <2>4. CASE ~IsSome(list[j])
    <3>1. list[j] = NoProcess  BY <2>1, <2>4, ProcessIsSome
    <3>2. k # 0  BY <2>1
    <3> QED  BY <3>1, <3>2 DEF NoProcess
  <2> QED  BY <2>3, <2>4
<1>2. Spec => [][A]_vars
  <2>1. ExactPidInv /\ ExactPidInv' /\ [Next]_vars => [A]_vars  BY <1>1
  <2> HIDE DEF A
  <2> QED  BY <2>1, PidInvariant, PTL DEF Spec
<1> QED  BY <1>2 DEF NoStaleParent

\* A terminated process is never revived and its exit status never changes, in
\* any order of signals, waits and orphan checks.
THEOREM TerminationIsFinal == Spec => DeadStaysDead
<1> DEFINE A == \A k \in DOMAIN list : list[k].state \in Terminated =>
                   \/ k \notin DOMAIN list' \/ ~IsSome(list'[k])
                   \/ /\ list'[k].state \in Terminated
                      /\ list'[k].outcome = list[k].outcome
                      /\ list'[k].pid = list[k].pid
<1>1. SlotInv /\ SlotInv' /\ [Next]_vars => A
  <2> SUFFICES ASSUME SlotInv, SlotInv', [Next]_vars,
                      NEW k \in DOMAIN list, list[k].state \in Terminated,
                      k \in DOMAIN list', IsSome(list'[k])
               PROVE  /\ list'[k].state \in Terminated
                      /\ list'[k].outcome = list[k].outcome
                      /\ list'[k].pid = list[k].pid
    OBVIOUS
  <2>1. k \in 1..Len(list) /\ k <= Len(list')  BY DEF SlotInv, TypeOK
  <2>2. list'[k] # NoProcess  BY DEF IsSome, NoProcess
  <2>3. Evolves(list[k], list'[k])  BY <2>1, <2>2, ListSteps
  <2>4. IsSome(list[k])  BY DEF IsSome, Terminated
  <2> QED  BY <2>3, <2>4 DEF Evolves
<1>2. Spec => [][A]_vars
  <2>1. SlotInv /\ SlotInv' /\ [Next]_vars => [A]_vars  BY <1>1
  <2> HIDE DEF A
  <2> QED  BY <2>1, SlotInvariant, PTL DEF Spec
<1> QED  BY <1>2 DEF DeadStaysDead

\* A wait reports a child once, for any number of processes and whatever pids they
\* wait for (in a program launched with an exact NUMBER_OF_TASKS).
THEOREM ChildReportedOnce == Spec => []ReportedOnce
<1>1. Init => ReportedOnce  BY DEF Init, ReportedOnce
<1>2. ExactPidInv /\ ExactPidInv' /\ ReportedOnce /\ [Next]_vars => ReportedOnce'
  <2> SUFFICES ASSUME ExactPidInv, ExactPidInv', ReportedOnce, [Next]_vars, exactLaunch'
               PROVE  ReportedOnce'
    BY DEF ReportedOnce
  <2>1. CASE Launch
    <3>1. list' = <<>>  BY <2>1 DEF Launch, ExactPidInv, SlotInv, PhaseInv
    <3> QED  BY <3>1 DEF ReportedOnce
  <2>2. CASE ~Launch
    <3>1. exactLaunch  BY <2>2, HistorySteps DEF ExactPidInv
    <3> QED  BY <3>1, StepReported DEF ExactPidInv
  <2> QED  BY <2>1, <2>2
<1> QED  BY <1>1, <1>2, PidInvariant, PTL DEF Spec

\* waitpid reports the outcome of a terminated child of its caller and uses it up
\* (in a program launched with an exact NUMBER_OF_TASKS).
THEOREM WaitsAreHonest == Spec => WaitIsHonest
<1> DEFINE A == exactLaunch => \A k \in DOMAIN list \cap DOMAIN list' :
                   (/\ list[k].state = "WAITING_FOR_CHILD_PROCESS"
                    /\ list'[k].state = "FINISHED_WAITING_FOR_CHILD_PROCESS"
                    /\ list'[k].cpid # 0)
                   => LET c == list'[k].cpid
                      IN  /\ c \in DOMAIN list /\ list[k].cpid \in {0, c}
                          /\ list[c].parent = list[k].pid
                          /\ list[c].state = "ZOMBIE" /\ list'[c].state = "TO_BE_DEALLOCATED"
                          /\ list'[k].outcome = list[c].outcome
<1>1. ExactPidInv /\ ExactPidInv' /\ [Next]_vars => A
  <2> SUFFICES ASSUME PidInv, SlotInv', [Next]_vars,
                      NEW k \in DOMAIN list \cap DOMAIN list',
                      list[k].state = "WAITING_FOR_CHILD_PROCESS",
                      list'[k].state = "FINISHED_WAITING_FOR_CHILD_PROCESS",
                      list'[k].cpid # 0
               PROVE  LET c == list'[k].cpid
                      IN  /\ c \in DOMAIN list /\ list[k].cpid \in {0, c}
                          /\ list[c].parent = list[k].pid
                          /\ list[c].state = "ZOMBIE" /\ list'[c].state = "TO_BE_DEALLOCATED"
                          /\ list'[k].outcome = list[c].outcome
    BY DEF ExactPidInv
  <2>1. /\ DOMAIN list = 1..Len(list) /\ DOMAIN list' = 1..Len(list') /\ SlotInv'
        /\ Len(list) \in Nat /\ Len(list') \in Nat
    BY DEF PidInv, SlotInv, TypeOK
  <2>2. WaitEffect(k)  BY <2>1, WaitSteps
  <2>3. PICK c \in 1..Len(list) : Reports(k, c)  BY <2>2 DEF WaitEffect
  <2>4. IsSome(list[c]) /\ IsSome(list[k])  BY <2>3 DEF Reports, IsSome
  <2>5. list[c].pid = c /\ list[k].pid = k  BY <2>1, <2>4 DEF PidInv, PidIsSlot
  <2> QED  BY <2>1, <2>3, <2>5 DEF Reports
<1>2. Spec => [][A]_vars
  <2>1. ExactPidInv /\ ExactPidInv' /\ [Next]_vars => [A]_vars  BY <1>1
  <2> HIDE DEF A
  <2> QED  BY <2>1, PidInvariant, PTL DEF Spec
<1> QED  BY <1>2 DEF WaitIsHonest
=============================================================================
