--------------------------- MODULE MCChargeControl ---------------------------
(* Values for the constants of ChargeControl in the runs of TLC. *)
EXTENDS ChargeControl

NoStray   == {}         \* the cycle as the selector's header describes it
AnyStray  == Fields     \* anything a Jetson1 message may hold
EarlyStop == {"6L"}     \* a stop that does not wait for the charging to end
=============================================================================
