---------------------------- MODULE MCNamespace ----------------------------
(***************************************************************************)
(* Namespace, instantiated for TLC: pod names and labels of at most eight  *)
(* characters stand for the 63 of the code, so three characters of a name  *)
(* of seven or more survive.                                               *)
(***************************************************************************)
EXTENDS Namespace

MCLetters == {"s", "a", "b", "f"}
MCPrefix  == <<"s", "-">>

Short    == <<"a">>
Long     == <<"a", "a", "a", "a", "a", "a", "a">>
Twin     == <<"a", "a", "a", "a", "a", "a", "b">>
Spelled  == <<"a", "a", "a", "-", "f", "f">>
Dotted   == <<"a", "a", ".", "a", "a", "a", "a">>
Unlabel  == <<"a", "a", "a", "a", "a", "a", "a", "a", "a">>

(* A long name, the name that spells its shortened form, another long one  *)
(* with the same beginning; a short name, and two whose phantoms cannot be *)
(* created.                                                                *)
MCNames == {Long, Spelled, Twin}
MCLongNames == {Short, Long, Dotted, Unlabel}

(* A hash that tells the long names apart, with suffixes of two lengths.   *)
HashOf(n) ==
  CASE n = Long   -> <<"f", "f">>
    [] n = Twin   -> <<"b", "f">>
    [] n = Dotted -> <<"a", "f">>
    [] OTHER      -> <<"a">>

MCHash     == [n \in MCNames |-> HashOf(n)]
MCLongHash == [n \in MCLongNames |-> HashOf(n)]
=============================================================================
