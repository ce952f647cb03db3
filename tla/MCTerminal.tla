----------------------------- MODULE MCTerminal -----------------------------
(***************************************************************************)
(* Instances of Terminal for TLC: two keys, and files of up to four        *)
(* characters with every mixture of line ends.                             *)
(***************************************************************************)
EXTENDS Terminal

MCTyped == <<"a", "n">>
MCContents ==
  {<<"r", "a", "r", "n">>, <<"a", "a", "r">>, <<"r", "r", "a">>, <<"a", "n", "n">>}

=============================================================================
