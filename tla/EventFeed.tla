------------------------------ MODULE EventFeed ------------------------------
(***************************************************************************)
(* What a webhook endpoint promises the service that calls it: an event    *)
(* that was published is kept until it is acknowledged, is never lost on   *)
(* the way, and a backlog is worked off, however often an event fails      *)
(* first: once no more events come, each has been acknowledged.            *)
(***************************************************************************)
CONSTANT Event

VARIABLES
    pending,  \* published, and to be delivered again until acknowledged
    acked     \* acknowledged at least once

feed == <<pending, acked>>

Init == pending = {} /\ acked = {}

Publish ==
    /\ pending \subseteq pending' /\ pending' \subseteq Event
    /\ pending' \cap acked = {}
    /\ UNCHANGED acked

Acknowledge(e) ==
    /\ pending' = pending \ {e}
    /\ acked' = acked \cup {e}

AcknowledgeSome == \E e \in pending : Acknowledge(e)

Next == Publish \/ AcknowledgeSome

Spec == Init /\ [][Next]_feed /\ WF_feed(AcknowledgeSome)
=============================================================================
