------------------------------ MODULE CommandSet ------------------------------
(***************************************************************************)
(* What MirrorCommandQueue promises of the commands it takes: each is sent *)
(* to tubafrenzy, several times if need be, until a send is known to have  *)
(* succeeded, or it is lost together with everything else that is          *)
(* outstanding.  One command is sent at a time, and nothing is sent that   *)
(* is not outstanding.  FlowsheetMirror takes its deletions to be kept     *)
(* like this.                                                              *)
(***************************************************************************)
EXTENDS Naturals

CONSTANT Commands

VARIABLES
  outstanding,
  sending,      \* the command under way, as a set
  runs          \* how often tubafrenzy has run a command

vars == <<outstanding, sending, runs>>

Init == outstanding = {} /\ sending = {} /\ runs = [c \in Commands |-> 0]

\* Whoever ends a send may begin the next one in the same step.
OneOrNone == {{}} \cup {{c} : c \in outstanding'}

Accept(c) ==
  /\ c \notin outstanding
  /\ outstanding' = outstanding \cup {c}
  /\ IF sending = {} THEN sending' \in OneOrNone ELSE UNCHANGED sending
  /\ UNCHANGED runs

Send ==
  /\ sending = {}
  /\ sending' \in OneOrNone
  /\ UNCHANGED <<outstanding, runs>>

Run(c) ==
  /\ sending = {c}
  /\ runs' = [runs EXCEPT ![c] = @ + 1]
  /\ UNCHANGED <<outstanding, sending>>

Succeed(c) ==
  /\ sending = {c} /\ runs[c] > 0
  /\ outstanding' = outstanding \ {c}
  /\ sending' \in OneOrNone
  /\ UNCHANGED runs

Fail(c) ==
  /\ sending = {c}
  /\ outstanding' \in {outstanding, {}}
  /\ sending' \in OneOrNone
  /\ UNCHANGED runs

Next == Send \/ \E c \in Commands : Accept(c) \/ Run(c) \/ Succeed(c) \/ Fail(c)

\* No command is outstanding for ever.
Settles == \A c \in Commands : c \in outstanding ~> c \notin outstanding

Spec == Init /\ [][Next]_vars /\ Settles
=============================================================================
