------------------------------ MODULE PaidOnce ------------------------------
(***************************************************************************)
(* What reservations of an AI answer promise, without keys, leases, clocks *)
(* or messages, for the coach, its follow-up, a lesson and the report of a *)
(* mock interview: an evaluation is bought only behind a seal that keeps   *)
(* every other buyer out, the seal comes off only if nothing was bought,   *)
(* and an answer, once there, stays until the account forgets it.          *)
(***************************************************************************)
CONSTANTS Evaluations, Payers

VARIABLES verdict, \* "open", "sealed", "stored" or "unknown", by evaluation
          bought   \* the buyers that may have been charged for it

paidVars == <<verdict, bought>>

PaidTypeOK ==
  /\ verdict \in [Evaluations -> {"open", "sealed", "stored", "unknown"}]
  /\ bought \in [Evaluations -> SUBSET Payers]

Become(e, from, to) ==
  /\ verdict[e] \in from
  /\ verdict' = [verdict EXCEPT ![e] = to]

Seal(e)   == Become(e, {"open"}, "sealed") /\ UNCHANGED bought
Unseal(e) == bought[e] = {} /\ Become(e, {"sealed"}, "open") /\ UNCHANGED bought

Buy(e, b) ==
  /\ verdict[e] # "open" /\ bought[e] = {}
  /\ bought' = [bought EXCEPT ![e] = {b}]
  /\ UNCHANGED verdict

\* The provider turned the buyer down.
Refund(e, b) ==
  /\ bought[e] = {b}
  /\ bought' = [bought EXCEPT ![e] = {}]
  /\ UNCHANGED verdict

\* An answer may also come from elsewhere.
Store(e) == Become(e, {"open", "sealed"}, "stored") /\ UNCHANGED bought

\* Leases that ended may be found together.
GiveUp(E) ==
  /\ \A e \in E : verdict[e] = "sealed"
  /\ verdict' = [e \in Evaluations |-> IF e \in E THEN "unknown" ELSE verdict[e]]
  /\ UNCHANGED bought

Forget(e) ==
  /\ Become(e, {"stored"}, "open")
  /\ bought' = [bought EXCEPT ![e] = {}]

Init ==
  /\ PaidTypeOK
  /\ \A e \in Evaluations : \/ bought[e] = {}
                            \/ verdict[e] # "open" /\ \E b \in Payers : bought[e] = {b}

Next ==
  \/ \E e \in Evaluations :
       \/ Seal(e) \/ Unseal(e) \/ Store(e) \/ Forget(e)
       \/ \E b \in Payers : Buy(e, b) \/ Refund(e, b)
  \/ \E E \in SUBSET Evaluations : GiveUp(E)

Spec == Init /\ [][Next]_paidVars
=============================================================================
