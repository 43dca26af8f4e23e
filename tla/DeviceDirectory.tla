-------------------------- MODULE DeviceDirectory --------------------------
(***************************************************************************)
(* What the device registry of the push server promises, without indexes,  *)
(* locks or handlers: a set of registrations, at most one for each device  *)
(* that names itself.  A registration replaces the one of the same device. *)
(***************************************************************************)

CONSTANTS
  Ids,        \* registration ids
  Devices,    \* DeviceIDs clients send, NoDevice among them
  NoDevice    \* a client that sends no DeviceID

VARIABLE live  \* the registrations, [id, device]

DirectoryInit == live = {}

Enroll(i, d) ==
  live' = {r \in live : r.device # d \/ d = NoDevice} \cup {[id |-> i, device |-> d]}

Withdraw(i) == live' = {r \in live : r.id # i}

DirectoryNext ==
  \E i \in Ids : Withdraw(i) \/ \E d \in Devices : Enroll(i, d)

DirectorySpec == DirectoryInit /\ [][DirectoryNext]_live

=============================================================================
