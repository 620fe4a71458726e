------------------------------- MODULE MCRadix -------------------------------
(***************************************************************************)
(* TLC instance of Radix: a binary trie of depth three.  The tombstone is  *)
(* the id whose every nibble is the highest, as 0xFFFFFFFF is.             *)
(***************************************************************************)
EXTENDS Radix

(* Two siblings and a branch from the root.                                  *)
MCIds == {0, 1, 5}
===============================================================================
