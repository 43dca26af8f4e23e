----------------------------- MODULE MCListener -----------------------------
(* Small instances of Listener for TLC.                                      *)
EXTENDS Listener

CONSTANTS r1, r2, e1

OneRelay == {r1}
TwoRelays == {r1, r2}
OneEvent == {e1}
Limits == {0, 2}

=============================================================================
