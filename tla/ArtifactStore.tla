----------------------------- MODULE ArtifactStore -----------------------------
(***************************************************************************)
(* What the disk cache promises (README.md "Shared cache", cache/disk.hpp): *)
(* under each root an entry is absent or complete, it becomes complete in    *)
(* one step and then never changes, and a request is answered with the root  *)
(* of a complete entry or with an error.  A directory that somebody left at   *)
(* the entry's place without a marker is "broken": it is never touched.      *)
(***************************************************************************)
CONSTANTS Requests, Roots

VARIABLES entry,   (* [Roots -> {"absent", "broken", "complete"}]            *)
          answer   (* [Requests -> Unanswered, Given(i), Error or Dead]      *)

avars == <<entry, answer>>

Unanswered == <<"none">>
Given(i) == <<"given", i>>
Error == <<"error">>
Dead == <<"dead">>

AInit == /\ entry \in [Roots -> {"absent", "broken"}]
         /\ answer = [r \in Requests |-> Unanswered]

Publish(i) == /\ entry[i] = "absent"
              /\ entry' = [entry EXCEPT ![i] = "complete"]
              /\ UNCHANGED answer

Return(r, i) == /\ answer[r] = Unanswered
                /\ entry[i] = "complete"
                /\ answer' = [answer EXCEPT ![r] = Given(i)]
                /\ UNCHANGED entry

Raise(r) == /\ answer[r] = Unanswered
            /\ answer' = [answer EXCEPT ![r] = Error]
            /\ UNCHANGED entry

(* A process dies with its requests; what is published stays.                *)
Die(dead) == /\ answer' = [r \in Requests |-> IF r \in dead THEN Dead ELSE answer[r]]
             /\ \A r \in dead : answer[r] = Unanswered
             /\ UNCHANGED entry

(* The machine dies: every running or answered request is gone, and a rename *)
(* that had not reached the disk is undone as a whole.                       *)
PowerFails(dead, lost) ==
    /\ answer' = [r \in Requests |-> IF r \in dead THEN Dead ELSE answer[r]]
    /\ \A r \in Requests : answer[r] # Unanswered => r \in dead
    /\ \A i \in lost : entry[i] = "complete"
    /\ entry' = [i \in Roots |-> IF i \in lost THEN "absent" ELSE entry[i]]

ANext == \/ \E i \in Roots : Publish(i)
         \/ \E r \in Requests : Raise(r) \/ \E i \in Roots : Return(r, i)
         \/ \E dead \in SUBSET Requests :
               Die(dead) \/ \E lost \in SUBSET Roots : PowerFails(dead, lost)

ASpec == AInit /\ [][ANext]_avars
=============================================================================
