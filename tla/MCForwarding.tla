---------------------------- MODULE MCForwarding ----------------------------
(* Small instances of Forwarding for TLC: the only group has its client's    *)
(* pubkey as its id.                                                         *)
EXTENDS Forwarding

CONSTANTS alice, c1, e1, s1, s2, empty, m1, d1, d2, w1

OneGroup == {alice}
OneConn == {c1}
OneEvent == {e1}
TwoSubs == {s1, s2}
Empty == {empty}
Own == [g \in Groups |-> g]
OneMessage == {m1}
WantsAll == [m \in Messages |-> Subs]
TwoDevices == {d1, d2}
Tokens == [s \in Subs |-> IF s = s1 THEN d1 ELSE d2]
OneWorker == {w1}
OneShard == {0}
SameShard == [d \in Devices |-> 0]

=============================================================================
