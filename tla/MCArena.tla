------------------------------- MODULE MCArena -------------------------------
(***************************************************************************)
(* TLC instance of Arena: eight-byte pages, up to three at a time, on      *)
(* addresses aligned to four bytes but not all to eight, so that a block   *)
(* aligned to eight may need padding on an empty page.                     *)
(***************************************************************************)
EXTENDS Arena

MCBases == {4, 16, 28}
===============================================================================
