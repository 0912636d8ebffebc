--------------------------- MODULE MCExecApprovals --------------------------
(* Three sessions approving and running two gated commands, one free, one    *)
(* blocked and one unlisted command; a write_file may list each of the     *)
(* gated ones, and twice, with the blocked and the unlisted one.           *)
EXTENDS ExecApprovals, TLC

CONSTANTS s1, s2, s3, build, test, ls, rmrf, curl

MCLists == {<<build, build, rmrf, curl>>, <<test, test, rmrf, curl>>}

Symmetry == Permutations({s1, s2, s3}) \cup Permutations({build, test})
=============================================================================
