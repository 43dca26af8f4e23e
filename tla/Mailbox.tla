------------------------------ MODULE Mailbox ------------------------------
(***************************************************************************)
(* What the event queue promises the consumers that read from it, without  *)
(* dedupe, reading loops or batches: every consumer owns a mailbox of      *)
(* messages it has not handled yet.  A message is put into the mailbox of  *)
(* every member, at most once and in order, unless that mailbox holds a    *)
(* full channel of messages; a new member gets a gapless run from the end  *)
(* of the log, cut short only when its mailbox is full.                    *)
(*                                                                         *)
(* A message is its position in the log of everything ever queued.         *)
(***************************************************************************)
EXTENDS Integers, Sequences

CONSTANTS
  Consumers,  \* consumer IDs
  Capacity,   \* messages a mailbox is sure to take
  Retained    \* messages of the log a new member may still get

VARIABLES
  size,    \* length of the log
  member,  \* "away", "joining" or "in"
  box      \* messages a consumer has got and not handled

vars == <<size, member, box>>

Init ==
  /\ size = 0
  /\ member = [c \in Consumers |-> "away"]
  /\ box = [c \in Consumers |-> <<>>]

Crowded == {c \in Consumers : Len(box[c]) >= Capacity}

(* A message is queued and goes to every member, a crowded one excepted.     *)
Post ==
  \E dropped \in SUBSET Crowded :
    /\ size' = size + 1
    /\ box' = [c \in Consumers |->
                 IF member[c] # "away" /\ c \notin dropped THEN Append(box[c], size + 1)
                                                           ELSE box[c]]
    /\ UNCHANGED member

(* From here on the consumer gets what is queued.                            *)
Enter(c) ==
  /\ member[c] = "away"
  /\ member' = [member EXCEPT ![c] = "joining"]
  /\ UNCHANGED <<size, box>>

Run(lo, hi) == [i \in 1 .. hi - lo + 1 |-> lo + i - 1]

(* The backlog, in one piece after whatever was queued meanwhile.            *)
CatchUp(c) ==
  /\ member[c] = "joining"
  /\ member' = [member EXCEPT ![c] = "in"]
  /\ \E lo \in 1 .. size + 1 : \E hi \in lo - 1 .. size :
       /\ lo > size - Retained
       /\ hi < size => Len(box[c]) + (hi - lo + 1) >= Capacity
       /\ box' = [box EXCEPT ![c] = @ \o Run(lo, hi)]
  /\ UNCHANGED size

Handle(c) ==
  /\ member[c] = "in"
  /\ box[c] # <<>>
  /\ box' = [box EXCEPT ![c] = Tail(@)]
  /\ UNCHANGED <<size, member>>

Next == Post \/ \E c \in Consumers : Enter(c) \/ CatchUp(c) \/ Handle(c)

Spec == Init /\ [][Next]_vars

=============================================================================
