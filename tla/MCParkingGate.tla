--------------------------- MODULE MCParkingGate ---------------------------
(* Small car parks for TLC: two or three cars, one to three spots.         *)
EXTENDS ParkingGate
CONSTANTS Visitor    \* a car that car_type does not have
Registered == Cars \ {Visitor}
Types == [c \in Registered |-> 2]
=============================================================================
