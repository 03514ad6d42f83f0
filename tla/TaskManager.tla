---------------------------- MODULE TaskManager ----------------------------
(***************************************************************************)
(* The resend list of the transport: every message a node sends is a Task  *)
(* that is launched again after growing pauses until removeAllTasks drops  *)
(* it. The single network thread alternates poll(), whose handlers add and *)
(* clear tasks, and TaskManager::run. Times are milliseconds.              *)
(*                                                                         *)
(* tasks_ is kept newest first, as emplace_front builds it.                *)
(***************************************************************************)
EXTENDS Integers, Sequences

CONSTANTS
  INIT_TIMEOUT,  \* BROADCAST_INIT_TIMEOUT and DIRECT_INIT_TIMEOUT, equal in the code
  MAX_TIMEOUT,   \* the pause after which the pauses should start over
  Factor,        \* growth of the pauses, 4 in the code
  MaxNow,        \* bound: the clock
  MaxTasks       \* bound: tasks in the list

ASSUME TaskAssumption ==
  /\ INIT_TIMEOUT \in Nat \ {0} /\ MAX_TIMEOUT \in Nat /\ Factor \in Nat \ {0}
  /\ MaxNow \in Nat /\ MaxTasks \in Nat

VARIABLES
  now,       \* Clock::now()
  tasks,     \* tasks_: next launch, current pause, whether it was launched
  nextTime   \* nextTime_

vars == <<now, tasks, nextTime>>

Init ==
  /\ now = 0
  /\ tasks = <<>>
  /\ nextTime = 0

(* The clock moves on between two rounds of the network thread. *)
Tick ==
  /\ now < MaxNow
  /\ now' = now + 1
  /\ UNCHANGED <<tasks, nextTime>>

(* Mutant: the wake-up time is kept. *)
AddLate ==
  LET t == [next |-> now, timeout |-> INIT_TIMEOUT, launched |-> FALSE]
  IN  /\ Len(tasks) < MaxTasks
      /\ nextTime' = IF tasks = <<>> THEN t.next ELSE nextTime
      /\ tasks' = <<t>> \o tasks
      /\ UNCHANGED now

(* A handler builds a Task, whose first launch is due at once, and adds it. *)
Add ==
  LET t == [next |-> now, timeout |-> INIT_TIMEOUT, launched |-> FALSE]
  IN  /\ Len(tasks) < MaxTasks
      /\ nextTime' = IF tasks = <<>> \/ t.next < nextTime THEN t.next ELSE nextTime
      /\ tasks' = <<t>> \o tasks
      /\ UNCHANGED now

(* removeAllTasks at the start of a round; nextTime_ is left as it was. *)
Clear ==
  /\ tasks' = <<>>
  /\ UNCHANGED <<now, nextTime>>

(* The pause after the next one. *)
NextTimeout(timeout) == IF timeout = MAX_TIMEOUT THEN INIT_TIMEOUT ELSE timeout * Factor

(* What one round does to a task: a due one is sent and rescheduled. *)
Relaunch(t) ==
  IF t.next <= now
  THEN [next |-> t.next + t.timeout, timeout |-> NextTimeout(t.timeout), launched |-> TRUE]
  ELSE t

(* run: every due task is launched; wroteNewNT stays false, so each task   *)
(* overwrites nextTime_ and the last of the list, the oldest, has the say. *)
Run ==
  /\ nextTime <= now
  /\ tasks' = [i \in DOMAIN tasks |-> Relaunch(tasks[i])]
  /\ nextTime' = IF tasks = <<>> THEN nextTime ELSE Relaunch(tasks[Len(tasks)]).next
  /\ UNCHANGED now

(* run before nextTime_ is an early return. *)
RunTooEarly ==
  /\ nextTime > now
  /\ UNCHANGED vars

Next == Tick \/ Add \/ Clear \/ Run \/ RunTooEarly

Spec == Init /\ [][Next]_vars

(* The loop of SessionIO::Run calls run for ever; it is never blocked. *)
FairSpec == Spec /\ WF_vars(Run)

-----------------------------------------------------------------------------
TaskRecord == [next : Nat, timeout : Nat \ {0}, launched : BOOLEAN]

TypeOK ==
  /\ now \in Nat
  /\ tasks \in Seq(TaskRecord)
  /\ nextTime \in Nat

(* A fresh message goes out in the next round of the network thread,       *)
(* whatever long pause the older tasks have reached: run does not return   *)
(* early while a task was never launched.                                  *)
FirstSendPrompt ==
  \A i \in DOMAIN tasks : ~tasks[i].launched => nextTime <= now

(* Resends of all tasks wait at most for the oldest one. (nextTime_ is not *)
(* the earliest launch of the list: newer tasks with short pauses are held *)
(* back until the oldest is due.)                                          *)
OldestDecides == tasks # <<>> => nextTime <= tasks[Len(tasks)].next

(* Every message handed to the transport is sent or dropped with its       *)
(* round: nothing stays in the list without ever being launched.           *)
EverySendHappens ==
  (\E i \in DOMAIN tasks : ~tasks[i].launched) ~> (\A i \in DOMAIN tasks : tasks[i].launched)

(* Pauses start over after MAX_TIMEOUT and never exceed it. *)
TimeoutBounded == \A i \in DOMAIN tasks : tasks[i].timeout <= MAX_TIMEOUT
=============================================================================
