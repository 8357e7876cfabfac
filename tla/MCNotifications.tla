---------------------------- MODULE MCNotifications ----------------------------
(***************************************************************************)
(* A small instance of Notifications for TLC.                              *)
(***************************************************************************)
EXTENDS Notifications

CONSTANTS asha, ravi

MCOwner == [q \in Queues |-> "notification"]
MCEvents == Event({"registered"}, Users) \union Event({"completed"}, Payments)
            \union Event({"cashback"}, Rewarded)
MCSenderOf == [p \in Payments |-> asha]
MCReceiverOf == [p \in Payments |-> ravi]

\* asha registered before the service first ran; the rest is to come.
MCInit == Init /\ published = Event({"registered"}, {asha})
MCSpec == MCInit /\ [][Next]_vars /\ Fairness
=============================================================================
