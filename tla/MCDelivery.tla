----------------------------- MODULE MCDelivery -----------------------------
(* Small instances of Delivery for TLC: alice's group has her pubkey as its  *)
(* id, the other one an id of its own.                                       *)
EXTENDS Delivery, TLC

CONSTANTS c1, c2, alice, bob, other, s1, s2, d1, d2, e1, w1

TwoConns == {c1, c2}
OneConn == {c1}
TwoKeys == {alice, bob}
OneKey == {alice}
OneGroup == {alice}
OtherGroup == {other}
BothGroups == {alice, other}
AllAlice == [g \in Groups |-> alice]
TwoSubs == {s1, s2}
OneEvent == {e1}
WantsAll == [e \in Events |-> Subs]
TwoDevices == {d1, d2}
Tokens == [s \in Subs |-> IF s = s1 THEN d1 ELSE d2]
OwnReq == [g \in Groups |-> IF g = alice THEN {s1} ELSE {s2}]
OneWorker == {w1}

Symmetry == Permutations(Conns)

=============================================================================
