--------------------------- MODULE MessageDelivery ---------------------------
(* What signal-purple promises about an incoming Signal message, across       *)
(* reconnects, crashes and restarts: it is kept until the adapter has taken   *)
(* it or it turned out to need no presentation, it is never recorded unseen,  *)
(* and it is never handed to the adapter once it is recorded. What the code   *)
(* adds to that promise is a step of its own: an event the adapter refuses as *)
(* malformed has been seen too, and its message may be recorded.              *)
CONSTANT Messages

VARIABLES
    durable,    \* what the encrypted store says: "none", "stored", "projected"
    presented,  \* the messages the adapter has taken at least once
    refused,    \* those it found malformed
    needless    \* those found to need no presentation

vars == <<durable, presented, refused, needless>>

Init ==
    /\ durable = [m \in Messages |-> "none"]
    /\ presented = {} /\ refused = {} /\ needless = {}

Arrive(m) ==
    /\ durable[m] = "none"
    /\ durable' = [durable EXCEPT ![m] = "stored"]
    /\ UNCHANGED <<presented, refused, needless>>

Present(m) ==
    /\ durable[m] = "stored"
    /\ presented' = presented \cup {m}
    /\ UNCHANGED <<durable, refused, needless>>

Refuse(m) ==
    /\ durable[m] = "stored"
    /\ refused' = refused \cup {m}
    /\ UNCHANGED <<durable, presented, needless>>

Dismiss(m) ==
    /\ durable[m] = "stored"
    /\ needless' = needless \cup {m}
    /\ UNCHANGED <<durable, presented, refused>>

(* Never before the message was seen: by the adapter, or by the handler that  *)
(* found nothing in it to present.                                            *)
Record(m) ==
    /\ durable[m] = "stored" /\ m \in presented \cup refused \cup needless
    /\ durable' = [durable EXCEPT ![m] = "projected"]
    /\ UNCHANGED <<presented, refused, needless>>

Next == \E m \in Messages : Arrive(m) \/ Present(m) \/ Refuse(m) \/ Dismiss(m) \/ Record(m)

Spec == Init /\ [][Next]_vars
=============================================================================
