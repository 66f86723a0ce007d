--------------------------- MODULE DeliveryRounds ---------------------------
(* RelayDelivery with a history of what each round of deliveries owes: the *)
(* messages it peeked, less those it could not deliver.                    *)
EXTENDS RelayDelivery

VARIABLE due

DInit == RInit /\ due = [h \in Readers |-> {}]

DNext ==
    /\ RNext
    /\ due' = [h \in Readers |->
          CASE StartRound(h) -> PendingBodies(peer[h])
            [] DeliverError(h) -> due[h] \ {copy[h].body}
            [] EndRound(h) \/ RestartNode -> {}
            [] OTHER -> due[h]]

DSpec == DInit /\ [][DNext]_<<vars, due>>

(* "Deliver any pending messages": when a round ends, none of the messages *)
(* it peeked is still pending, except those it failed to deliver.          *)
RoundDeliversAll ==
    \A h \in Readers : RoundDone(h) => due[h] \cap PendingBodies(peer[h]) = {}
=============================================================================
