----------------------------- MODULE ShowBoard -----------------------------
(***************************************************************************)
(* What listeners and tubafrenzy are promised about a show.  It goes on    *)
(* the air once and ends once; whoever ends it, the time of its end stays. *)
(* An end by its DJ or by an operator is announced at most once, and a     *)
(* sign-off follows the announcement, at most once.  An end that tubafrenzy*)
(* reported is not announced back to it.  A show that was left open is     *)
(* closed by the next go-live only while its last row is a show_end.       *)
(***************************************************************************)
EXTENDS Naturals

CONSTANTS Shows, Closers

VARIABLES
  ended,      \* "none" before the show, "open" on the air, then who ended it
  announced,  \* show_end markers of ours
  signedOff,  \* sign-offs handed to tubafrenzy
  marked      \* input: the shows whose last row is a show_end

vars == <<ended, announced, signedOff>>

Init ==
  /\ ended = [s \in Shows |-> "none"]
  /\ announced = [s \in Shows |-> 0]
  /\ signedOff = [s \in Shows |-> 0]

GoLive(s) ==
  /\ ended[s] = "none"
  /\ ended' = [ended EXCEPT ![s] = "open"]
  /\ UNCHANGED <<announced, signedOff>>

End(s, by) ==
  /\ ended[s] = "open"
  /\ by = "backfill" => s \in marked
  /\ ended' = [ended EXCEPT ![s] = by]
  /\ UNCHANGED <<announced, signedOff>>

Announce(s) ==
  /\ ended[s] \in {"host", "operator"}
  /\ announced[s] = 0
  /\ announced' = [announced EXCEPT ![s] = 1]
  /\ UNCHANGED <<ended, signedOff>>

SignOff(s) ==
  /\ announced[s] = 1
  /\ signedOff[s] = 0
  /\ signedOff' = [signedOff EXCEPT ![s] = 1]
  /\ UNCHANGED <<ended, announced>>

Next == \E s \in Shows :
  \/ GoLive(s)
  \/ \E by \in Closers : End(s, by)
  \/ Announce(s)
  \/ SignOff(s)

Spec == Init /\ [][Next]_vars

=============================================================================
