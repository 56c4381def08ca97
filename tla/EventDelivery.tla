---------------------------- MODULE EventDelivery ----------------------------
(***************************************************************************)
(* What the host of a session promises about the runtime events it is      *)
(* given: an event is pending until the control plane has acknowledged it, *)
(* an acknowledged event is stored, and events are given up only while     *)
(* Cap others wait.  Nothing is promised about their order, and an event   *)
(* whose acknowledgement got lost is stored again.                         *)
(***************************************************************************)
EXTENDS FiniteSets, Naturals

CONSTANTS Events,   \* every event a session may ever produce
          Cap       \* MAX_EVENT_BUFFER_PER_SESSION

VARIABLES accepted, \* events handed to the host
          acked,    \* events whose post was answered with success
          dropped,  \* events given up
          known     \* events the control plane has stored

deliveryVars == <<accepted, acked, dropped, known>>

\* Accepted events whose fate is open.
Open == accepted \ (acked \cup dropped)

DeliveryInit ==
    /\ accepted = {}
    /\ acked = {}
    /\ dropped = {}
    /\ known = {}

Accept ==
    /\ \E e \in Events \ accepted : accepted' = accepted \cup {e}
    /\ UNCHANGED <<acked, dropped, known>>

Acknowledge ==
    /\ \E e \in Open : acked' = acked \cup {e} /\ known' = known \cup {e}
    /\ UNCHANGED <<accepted, dropped>>

\* Stored, but the answer did not arrive.
StoreUnanswered ==
    /\ \E e \in Open : known' = known \cup {e}
    /\ UNCHANGED <<accepted, acked, dropped>>

GiveUp ==
    /\ \E lost \in (SUBSET Open) \ {{}} :
          /\ Cardinality(Open \ lost) >= Cap
          /\ dropped' = dropped \cup lost
    /\ UNCHANGED <<accepted, acked, known>>

DeliveryNext == Accept \/ Acknowledge \/ StoreUnanswered \/ GiveUp

DeliverySpec == DeliveryInit /\ [][DeliveryNext]_deliveryVars
=============================================================================
