----------------------------- MODULE Fetch -----------------------------
(***************************************************************************)
(* What reading a resource from a remote CDN promises its caller, without  *)
(* base paths, cache or retries: a call is answered, and one that gave a   *)
(* checksum is answered with the genuine data or with a failure.  The      *)
(* process may die instead of answering.                                   *)
(***************************************************************************)
EXTENDS Naturals

CONSTANTS Locations, None

VARIABLES asked, verdict

vars == <<asked, verdict>>

Request == [location : Locations, checked : BOOLEAN]

Init == asked = None /\ verdict = "none"

Ask(r) ==
  /\ asked = None
  /\ asked' = r
  /\ verdict' = "none"

\* The verdicts a request may get.
Verdicts(r) ==
  {"failed", "genuine"} \cup (IF r.checked THEN {} ELSE {"other"})

Answer ==
  /\ asked # None
  /\ verdict' \in Verdicts(asked)
  /\ asked' = None

Die ==
  /\ asked # None
  /\ asked' = None
  /\ UNCHANGED verdict

Next == (\E r \in Request : Ask(r)) \/ Answer \/ Die

SafeSpec == Init /\ [][Next]_vars

Spec == SafeSpec /\ WF_vars(Answer \/ Die)
==========================================================================
