------------------------------ MODULE IOService ------------------------------
(***************************************************************************)
(* What ThreadExecutor::run promises its callers (utils/executor.hpp), with *)
(* no thread, lock or condition variable in sight: operations are served    *)
(* one at a time; each takes effect at most once, and only after its service *)
(* began; a caller is told the operation's own result, or that it timed out, *)
(* in which case the effect may still happen later, or never.               *)
(***************************************************************************)
CONSTANTS Tasks,   (* the callables handed to run(), one per call            *)
          None     (* no task                                                *)

VARIABLES serving,  (* the operation being served, or None                   *)
          begun,    (* operations whose service has begun                    *)
          effect,   (* [Tasks -> what the operation did, or "none"]          *)
          answer    (* [Tasks -> what its caller was told, or "none"]        *)

svars == <<serving, begun, effect, answer>>

Effects == {"value", "error"}
Refusals == {"invalid", "nothread"}

SInit == /\ serving = None
         /\ begun = {}
         /\ effect = [t \in Tasks |-> "none"]
         /\ answer = [t \in Tasks |-> "none"]

(* A call refused before its operation is ever submitted: the effect never   *)
(* happens.                                                                  *)
Refuse(t, why) == /\ t \notin begun
                  /\ answer[t] = "none"
                  /\ why \in Refusals
                  /\ answer' = [answer EXCEPT ![t] = why]
                  /\ UNCHANGED <<serving, begun, effect>>

Begin(t) == /\ serving = None
            /\ answer[t] = "none"
            /\ serving' = t
            /\ begun' = begun \cup {t}
            /\ UNCHANGED <<effect, answer>>

(* The effect may come after the caller gave up, but never twice and never   *)
(* before service began.                                                     *)
Perform(t, e) == /\ t \in begun
                 /\ effect[t] = "none"
                 /\ effect' = [effect EXCEPT ![t] = e]
                 /\ UNCHANGED <<serving, begun, answer>>

Reply(t) == /\ serving = t
            /\ answer[t] = "none"
            /\ effect[t] \in Effects
            /\ answer' = [answer EXCEPT ![t] = effect[t]]
            /\ UNCHANGED <<serving, begun, effect>>

GiveUp(t) == /\ serving = t
             /\ answer[t] = "none"
             /\ answer' = [answer EXCEPT ![t] = "timeout"]
             /\ UNCHANGED <<serving, begun, effect>>

(* The next caller is served only once this one has its answer.              *)
End(t) == /\ serving = t
          /\ answer[t] # "none"
          /\ serving' = None
          /\ UNCHANGED <<begun, effect, answer>>

ReplyAndEnd(t) == /\ serving = t
                  /\ answer[t] = "none"
                  /\ effect[t] \in Effects
                  /\ answer' = [answer EXCEPT ![t] = effect[t]]
                  /\ serving' = None
                  /\ UNCHANGED <<begun, effect>>

SNext == \E t \in Tasks :
            \/ \E why \in Refusals : Refuse(t, why)
            \/ Begin(t)
            \/ \E e \in Effects : Perform(t, e)
            \/ Reply(t) \/ GiveUp(t) \/ End(t) \/ ReplyAndEnd(t)

SSpec == SInit /\ [][SNext]_svars
=============================================================================
