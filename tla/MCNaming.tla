------------------------------- MODULE MCNaming -------------------------------
(* Small sets of names for module Naming. *)
EXTENDS Naming

MCChars == {"_", "@", " ", "?", "o", "O", "p", "m"}

MCLower == [c \in MCChars |-> IF c = "O" THEN "o" ELSE c]

MCTypes == {<<"p">>, <<"m">>}
OneType == {<<"p">>}

\* Two spellings of one group, for each type of domain, and a malformed name.
MCApps == {<<"o", "_", " ", "o", "_", "o", "_">>, <<"O", "_", "o", "_", "o">>,
           <<"o", "_", " ", "_", "o">>}

\* Two of them reach Keywhiz as the third.
MCSecrets == {<<"o", "@", "o">>, <<"o", "@", "o", " ">>, <<"o", "@", "o", "?">>}
=============================================================================
