---------------------------- MODULE MCOAuthToken ----------------------------
(* A small instance of OAuthToken for TLC.                                 *)
EXTENDS OAuthToken

CONSTANTS c1, c2

MCCallers == {c1, c2}

(* One that is never cached, and one that is used for a while.            *)
MCTTLs == {2, 4}

(* The hour that is assumed, and more.                                     *)
MCUnstatedTTLs == {5, 6}
=============================================================================
