--------------------------- MODULE MCDeliverySync ---------------------------
(* Instances of DeliverySync for TLC.  *)
EXTENDS DeliverySync, TLC

(* A parcel the carrier scans twice on its way, and one that is held up.  *)
MCJourneys == {<<"PICKED_UP", "IN_TRANSIT", "DELIVERED">>, <<"EXCEPTION", "DELIVERED">>}
=============================================================================
