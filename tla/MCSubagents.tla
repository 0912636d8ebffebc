---------------------------- MODULE MCSubagents ----------------------------
(* Requests of one to five tasks, with blank ones, one that is cut off, one *)
(* asked twice, and one ("b") whose child may wait for a tool forever.      *)
EXTENDS Subagents
MCRequests ==
  {<<"", "a", "b", "", "c">>, <<"a", "b", "c", "d">>, <<"", "a", "c">>, <<"a", "a", "b">>, <<"d", "c", "a">>}
=============================================================================
