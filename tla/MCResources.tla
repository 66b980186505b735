--------------------------- MODULE MCResources ---------------------------
(***************************************************************************)
(* Resources for TLC: two clients, one buffer, three saved processes with  *)
(* two hashes, and two global states.                                      *)
(***************************************************************************)
EXTENDS Resources, TLC

CONSTANTS c1, c2, s1, s2, s3

\* Two states of the first client, so that one is revived and one is shared.
MCControllerOf == s1 :> c1 @@ s2 :> c1 @@ s3 :> c2

=============================================================================
