---------------------------- MODULE MCIotServer ----------------------------
(* Two clients of the server, which may connect three times between them and   *)
(* write to each other; which of them is which makes no difference.            *)
EXTENDS IotServer, TLC

CONSTANTS block, spot1

MCIds == {block, spot1}
IdSymmetry == Permutations(MCIds)
=============================================================================
