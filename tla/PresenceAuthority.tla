--------------------------- MODULE PresenceAuthority ---------------------------
(* What the presence control plane of a paper promises to its users, without   *)
(* generations, heads, folders or devices: a paper is absent until its first   *)
(* upload, every removal is a token that stays open until an explicit restore  *)
(* acknowledges it, and the paper is present exactly while no token is open.   *)

CONSTANT Token            \* one per removal that is ever published

VARIABLES status,         \* "absent", "present" or "removed"
          open,           \* removals nobody has acknowledged yet
          settled         \* removals some restore has acknowledged

authorityVars == <<status, open, settled>>

Init ==
    /\ status = "absent"
    /\ open = {}
    /\ settled = {}

\* The first upload makes the paper present; nothing else leaves "absent".
Publish ==
    /\ status = "absent"
    /\ status' = "present"
    /\ UNCHANGED <<open, settled>>

\* A removal is a new token: one that was settled never comes back.
Remove(t) ==
    /\ status # "absent"
    /\ t \notin open \cup settled
    /\ open' = open \cup {t}
    /\ status' = "removed"
    /\ UNCHANGED settled

\* A restore settles the removals it names. The paper returns only if they were
\* all the open ones; a removal it did not know of keeps the paper removed.
Restore(acknowledged) ==
    /\ acknowledged # {}
    /\ acknowledged \subseteq open
    /\ open' = open \ acknowledged
    /\ settled' = settled \cup acknowledged
    /\ status' = IF open' = {} THEN "present" ELSE "removed"

Next ==
    \/ Publish
    \/ \E t \in Token : Remove(t)
    \/ \E acknowledged \in SUBSET Token : Restore(acknowledged)

Spec == Init /\ [][Next]_authorityVars

================================================================================
