------------------------------- MODULE Verdict -------------------------------
(***************************************************************************)
(* What checking an environment promises: it is accepted only when every   *)
(* one of its declarations was checked and passed, rejected only when some *)
(* declaration is bad, and abandoned only when the run could not be set    *)
(* up; no declaration passes twice; and a verdict is final.                *)
(***************************************************************************)
CONSTANT Declar        \* the declarations of the environment

VARIABLES bad,         \* the declarations that the kernel cannot accept
          accepted,    \* those that have passed their check so far
          verdict

Init == bad \in SUBSET Declar /\ accepted = {} /\ verdict = "pending"

Accept(d) == /\ verdict = "pending" /\ d \notin accepted \cup bad
             /\ accepted' = accepted \cup {d}
             /\ UNCHANGED <<bad, verdict>>

Conclude == /\ verdict = "pending"
            /\ \/ accepted = Declar /\ verdict' = "accepted"
               \/ bad # {} /\ verdict' = "rejected"
               \/ verdict' = "aborted"
            /\ UNCHANGED <<bad, accepted>>

Next == (\E d \in Declar : Accept(d)) \/ Conclude

Spec == Init /\ [][Next]_<<bad, accepted, verdict>>
==============================================================================
