----------------------------- MODULE MCScreens -----------------------------
(***************************************************************************)
(* An instance of Screens for TLC.                                         *)
(***************************************************************************)
EXTENDS Screens

TwoBoards == <<"d1", "d2">>
Own(k) == {"f"}  \* every dataset has one field
=============================================================================
