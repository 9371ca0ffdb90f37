------------------------------ MODULE OnceOnly ------------------------------
(***************************************************************************)
(* What a claim table promises: a key is free, held by one request or      *)
(* done.  A request that took a key either finishes it or gives it back,   *)
(* and a key that is done keeps its answer for good.                       *)
(***************************************************************************)
CONSTANTS Key, NoAnswer

VARIABLES slot, answer

OnceInit ==
    /\ slot = [k \in Key |-> "free"]
    /\ answer = [k \in Key |-> NoAnswer]

Take(k) ==
    /\ slot[k] = "free"
    /\ slot' = [slot EXCEPT ![k] = "held"]
    /\ UNCHANGED answer

GiveBack(k) ==
    /\ slot[k] = "held"
    /\ slot' = [slot EXCEPT ![k] = "free"]
    /\ UNCHANGED answer

Finish(k) ==
    /\ slot[k] = "held"
    /\ slot' = [slot EXCEPT ![k] = "done"]
    /\ answer' = [answer EXCEPT ![k] = answer'[k]]

OnceNext == \E k \in Key : Take(k) \/ GiveBack(k) \/ Finish(k)

OnceSpec == OnceInit /\ [][OnceNext]_<<slot, answer>>

=============================================================================
