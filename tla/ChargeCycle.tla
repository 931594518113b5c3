----------------------------- MODULE ChargeCycle -----------------------------
(***************************************************************************)
(* What the charging robot promises to the spot it serves, with nothing of *)
(* how selector, camera and manipulator agree on it: every parked car gets *)
(* the connector, is charged only while plugged in and drives away only    *)
(* when the connector is back in its holder.                               *)
(***************************************************************************)

VARIABLES
  spot,  \* "empty", "parked", "charging", "charged"
  plug   \* "holder", "arm", "car"

vars == <<spot, plug>>

Init == spot = "empty" /\ plug = "holder"

Arrive == spot = "empty"  /\ spot' = "parked" /\ UNCHANGED plug
Fetch  == spot = "parked" /\ plug = "holder"  /\ plug' = "arm"    /\ UNCHANGED spot
Insert == spot = "parked" /\ plug = "arm"     /\ plug' = "car"    /\ UNCHANGED spot
Start  == spot = "parked" /\ plug = "car"     /\ spot' = "charging" /\ UNCHANGED plug
Finish == spot = "charging" /\ spot' = "charged" /\ UNCHANGED plug
Return == spot = "charged" /\ plug = "car"    /\ plug' = "holder" /\ UNCHANGED spot
Leave  == spot = "charged" /\ plug = "holder" /\ spot' = "empty"  /\ UNCHANGED plug

Next == Arrive \/ Fetch \/ Insert \/ Start \/ Finish \/ Return \/ Leave

\* Once charged, the car is released: that much depends on the robot alone.
Spec == Init /\ [][Next]_vars /\ WF_vars(Return) /\ WF_vars(Leave)
=============================================================================
