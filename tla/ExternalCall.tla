---------------------------- MODULE ExternalCall ----------------------------
(***************************************************************************)
(* What the approval gate promises about external side effects, in terms   *)
(* of nothing but the life of each action: it is closed without a call, or *)
(* it is called once and the call gets a durable verdict.  Both are final. *)
(* One call begins at a time; verdicts may come together, since a restart  *)
(* records all the calls it interrupted.  ApprovalGate implements this.    *)
(***************************************************************************)
CONSTANT Actions

VARIABLE phase   \* of each action: "open", "closed", "called" or "recorded"

Init == phase = [a \in Actions |-> "open"]

\* The request of one action leaves the process.
Call(a) == phase[a] = "open" /\ phase' = [phase EXCEPT ![a] = "called"]

\* Some actions get a verdict: what became of the call, or that there was none.
Conclude(S) ==
  /\ \A a \in S : phase[a] \in {"open", "called"}
  /\ phase' = [a \in Actions |-> IF a \notin S THEN phase[a]
                                 ELSE IF phase[a] = "open" THEN "closed"
                                 ELSE "recorded"]

Next == \/ \E a \in Actions : Call(a)
        \/ \E S \in SUBSET Actions : Conclude(S)

Spec == Init /\ [][Next]_phase
=============================================================================
