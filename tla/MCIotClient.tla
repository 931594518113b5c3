----------------------------- MODULE MCIotClient -----------------------------
(* Short lines, and long ones whose rest has no id, or is "quit". *)
EXTENDS IotClient

MCLines == {<<"private">>, <<"quit">>, <<"private", "plain">>, <<"plain", "quit">>}
=============================================================================
