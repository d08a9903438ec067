----------------------------- MODULE CompileBatch -----------------------------
(***************************************************************************)
(* What the precompiler of a dry run promises (runtime/precompiler.hpp): the *)
(* distinct keys submitted are each compiled once, in any order and at any    *)
(* time, and when it is destroyed everything submitted has been compiled and   *)
(* the first error in submission order, if any, is the one reported.          *)
(***************************************************************************)
EXTENDS Naturals, Sequences

CONSTANTS Keys

VARIABLES order,    (* the keys submitted, in order                          *)
          outcome,  (* [Keys -> "none", "value" or "error"]                  *)
          verdict   (* how it ended: Open, Success, Failure(k) or Refused    *)

bvars == <<order, outcome, verdict>>

Open == <<"open">>
Success == <<"success">>
Failure(k) == <<"failure", k>>
Refused == <<"refused">>

Submitted == {order[i] : i \in DOMAIN order}

BInit == /\ order = <<>>
         /\ outcome = [k \in Keys |-> "none"]
         /\ verdict = Open

(* No worker thread could be started: nothing is ever submitted.             *)
Refuse == /\ verdict = Open
          /\ order = <<>>
          /\ verdict' = Refused
          /\ UNCHANGED <<order, outcome>>

Submit(k) == /\ verdict = Open
             /\ k \notin Submitted
             /\ order' = Append(order, k)
             /\ UNCHANGED <<outcome, verdict>>

Compile(k, o) == /\ k \in Submitted
                 /\ outcome[k] = "none"
                 /\ outcome' = [outcome EXCEPT ![k] = o]
                 /\ UNCHANGED <<order, verdict>>

Succeed == /\ verdict = Open
           /\ \A k \in Submitted : outcome[k] = "value"
           /\ verdict' = Success
           /\ UNCHANGED <<order, outcome>>

Fail(i) == /\ verdict = Open
           /\ \A k \in Submitted : outcome[k] # "none"
           /\ outcome[order[i]] = "error"
           /\ \A j \in 1 .. i - 1 : outcome[order[j]] = "value"
           /\ verdict' = Failure(order[i])
           /\ UNCHANGED <<order, outcome>>

BNext == \/ Refuse \/ Succeed
         \/ \E k \in Keys : Submit(k) \/ \E o \in {"value", "error"} : Compile(k, o)
         \/ \E i \in DOMAIN order : Fail(i)

BSpec == BInit /\ [][BNext]_bvars
=============================================================================
