---------------------------- MODULE MCOperationOwner ----------------------------
(* Four operations, two of them commands of the user, and two ways to close the   *)
(* session, one of them to finish on a temporary device. A behaviour is either    *)
(* that of the operations alone, or that of a temporary workspace with two of the *)
(* operations, which need a device session.                                       *)

EXTENDS TemporarySession

CONSTANT Busy  \* bound: operations that run beside a temporary workspace

VARIABLE start  \* which of the two it is

MCInit == TemporaryInit /\ start \in {"operations", "workspace"}

MCNext ==
    /\ UNCHANGED start
    /\ \/ start = "operations" /\ Next /\ UNCHANGED session
       \/ /\ start = "workspace" /\ TemporaryNext
          /\ \A t \in Task : pc[t] = "idle" /\ pc'[t] # "idle" => t \in Busy /\ token

MCSpec == MCInit /\ [][MCNext]_<<vars, session, start>> /\ Fairness

================================================================================
