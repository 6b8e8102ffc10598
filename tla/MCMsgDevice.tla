---------------------------- MODULE MCMsgDevice -----------------------------
(* MsgDevice with two processes and, for a buffer of three cells, a short  *)
(* text, one that just fits and one that is a character too long.          *)
EXTENDS MsgDevice, TLC

MCTexts == {<<"a">>, <<"b", "b">>, <<"c", "c", "c">>}
Symmetry == Permutations(Clients)
=============================================================================
