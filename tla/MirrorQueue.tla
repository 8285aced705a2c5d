------------------------------ MODULE MirrorQueue ------------------------------
(***************************************************************************)
(* MirrorCommandQueue (commandqueue.mirror.ts): SQL commands for           *)
(* tubafrenzy, run one at a time by the loop of the process-wide queue.  A *)
(* command that failed waits outside the queue and comes back at its head. *)
(* After MaxAttempts failures of one command the queue is dead, and the    *)
(* next caller of instance() gets a new one, while timers of the old one   *)
(* still run.  Queues are numbered in the order they are made.             *)
(***************************************************************************)
EXTENDS Naturals, Sequences, Functions

CONSTANTS
  MaxCommands,   \* bound: commands taken
  MaxAttempts,   \* options.maxAttempts
  MaxQueues      \* bound: queues made

ASSUME QueueAssumption ==
  MaxCommands \in Nat /\ MaxAttempts \in Nat \ {0} /\ MaxQueues \in Nat \ {0}

\* In the order in which they are taken.
Commands == 1..MaxCommands

VARIABLES
  queues,    \* one record per queue: "at" is where its loop stands
  home,      \* the queue a command was taken by, 0 before
  attempts,
  backoff,   \* commands whose retry timer runs
  runs       \* how often tubafrenzy has run a command

queueVars == <<queues, home, attempts, backoff, runs>>

Loops == {"idle", "send", "sent", "report", "fatal"}

QueueTypeOK ==
  /\ queues \in Seq([alive : BOOLEAN, at : Loops, cmd : Commands \cup {0}, queue : Seq(Commands)])
  /\ Len(queues) \in 1..MaxQueues
  /\ home \in [Commands -> 0..Len(queues)]
  /\ attempts \in [Commands -> 0..MaxAttempts]
  /\ backoff \subseteq Commands
  /\ runs \in [Commands -> 0..MaxAttempts]

Fresh == [alive |-> TRUE, at |-> "idle", cmd |-> 0, queue |-> << >>]

QueueInit ==
  /\ queues = <<Fresh>>
  /\ home = [c \in Commands |-> 0]
  /\ attempts = [c \in Commands |-> 0]
  /\ backoff = {}
  /\ runs = [c \in Commands |-> 0]

-----------------------------------------------------------------------------
\* Mutant: the loop that does not look at alive.
WorkingOn(q) ==
  IF q.queue # << >>
  THEN [q EXCEPT !.at = "send", !.cmd = Head(q.queue), !.queue = Tail(@)]
  ELSE [q EXCEPT !.at = "idle", !.cmd = 0]

\* The head of workLoop: it sends the next command, if the queue is alive.
Working(q) ==
  IF q.alive /\ q.queue # << >>
  THEN [q EXCEPT !.at = "send", !.cmd = Head(q.queue), !.queue = Tail(@)]
  ELSE [q EXCEPT !.at = "idle", !.cmd = 0]

Kick(q) == IF q.at = "idle" THEN Working(q) ELSE q

\* Queue i becomes q; a command that it now sends is tried once more.
Becomes(i, q) ==
  /\ queues' = [queues EXCEPT ![i] = q]
  /\ attempts' = IF q.at = "send" /\ q.cmd # queues[i].cmd
                 THEN [attempts EXCEPT ![q.cmd] = @ + 1]
                 ELSE attempts

\* instance() and enqueue().
Instances ==
  IF queues[Len(queues)].alive THEN queues ELSE Append(queues, Fresh)

Enqueue(c) ==
  LET i == Len(Instances)
      q == Kick([Instances[i] EXCEPT !.queue = Append(@, c)])
  IN /\ home[c] = 0 /\ \A b \in 1..(c - 1) : home[b] # 0
     /\ i <= MaxQueues
     /\ home' = [home EXCEPT ![c] = i]
     /\ queues' = [Instances EXCEPT ![i] = q]
     /\ attempts' = IF q.cmd = c THEN [attempts EXCEPT ![c] = 1] ELSE attempts
     /\ UNCHANGED <<backoff, runs>>

\* tubafrenzy runs what was sent; the answer may still be lost.
Executes(i) ==
  /\ queues[i].at = "send"
  /\ queues' = [queues EXCEPT ![i].at = "sent"]
  /\ runs' = [runs EXCEPT ![queues[i].cmd] = @ + 1]
  /\ UNCHANGED <<home, attempts, backoff>>

Succeeds(i) ==
  /\ queues[i].at = "sent"
  /\ Becomes(i, Working(queues[i]))
  /\ UNCHANGED <<home, backoff, runs>>

\* The last failure kills the queue.
Dies(i) ==
  /\ queues[i].at \in {"send", "sent"}
  /\ attempts[queues[i].cmd] = MaxAttempts
  /\ queues' = [queues EXCEPT ![i].alive = FALSE, ![i].at = "fatal"]
  /\ UNCHANGED <<home, attempts, backoff, runs>>

\* The retry of the failed command is scheduled, and the loop goes on.
ScheduleRetry(i) ==
  /\ backoff' = backoff \cup {queues[i].cmd}
  /\ Becomes(i, Working(queues[i]))
  /\ UNCHANGED <<home, runs>>

\* An earlier failure: the one that the environment names is reported to disk
\* first, and the loop waits for that.
Fails(i) ==
  /\ queues[i].at \in {"send", "sent"}
  /\ attempts[queues[i].cmd] < MaxAttempts
  /\ \/ ScheduleRetry(i)
     \/ /\ queues' = [queues EXCEPT ![i].at = "report"]
        /\ UNCHANGED <<home, attempts, backoff, runs>>

Reported(i) == queues[i].at = "report" /\ ScheduleRetry(i)

\* The fatal report is written: the loop ends, whatever is left in the queue.
FatalReported(i) ==
  /\ queues[i].at = "fatal"
  /\ Becomes(i, Working(queues[i]))
  /\ UNCHANGED <<home, backoff, runs>>

\* The timer of a retry: to the head of a live queue, to the end of a dead one.
Retry(c) ==
  LET q == queues[home[c]]
  IN /\ c \in backoff
     /\ backoff' = backoff \ {c}
     /\ Becomes(home[c], IF q.alive THEN Kick([q EXCEPT !.queue = <<c>> \o @])
                                    ELSE [q EXCEPT !.queue = Append(@, c)])
     /\ UNCHANGED <<home, runs>>

QueueNext ==
  \/ \E c \in Commands : Enqueue(c) \/ Retry(c)
  \/ \E i \in DOMAIN queues :
       Executes(i) \/ Succeeds(i) \/ Dies(i) \/ Fails(i) \/ Reported(i) \/ FatalReported(i)

LoopGoesOn(i) ==
  /\ i \in DOMAIN queues
  /\ Succeeds(i) \/ Dies(i) \/ Fails(i) \/ Reported(i) \/ FatalReported(i)

\* A send and a report settle, and timers fire.
QueueFairness ==
  /\ \A c \in Commands : WF_queueVars(Retry(c))
  /\ \A i \in 1..MaxQueues : WF_queueVars(LoopGoesOn(i))

QueueSpec == QueueInit /\ [][QueueNext]_queueVars /\ QueueFairness

-----------------------------------------------------------------------------
(* Properties                                                              *)

\* The commands that are not done and whose queue is alive.
Outstanding ==
  {c \in Commands :
     /\ home[c] # 0
     /\ queues[home[c]].alive
     /\ \/ c \in backoff
        \/ queues[home[c]].cmd = c
        \/ c \in Range(queues[home[c]].queue)}

Sending == {queues[i].cmd : i \in {j \in DOMAIN queues : queues[j].at \in {"send", "sent"}}}

\* The queues keep their commands as a set from which one at a time is sent,
\* until it has succeeded or everything is lost, and never afterwards: retries
\* that jump the line, timers that fire in a dead queue and a new queue beside
\* the old one change nothing in this, and none is outstanding for ever.
Promise == INSTANCE CommandSet WITH outstanding <- Outstanding, sending <- Sending
ImplementsCommandSet == Promise!Spec
=============================================================================
