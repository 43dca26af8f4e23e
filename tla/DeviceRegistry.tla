--------------------------- MODULE DeviceRegistry ---------------------------
(***************************************************************************)
(* The device registry of the push server (internal/push/device_store.go)  *)
(* with the HTTP handlers that use it (internal/push/server.go): register, *)
(* delete and the NIP-9a relay callback.  net/http runs every request in a *)
(* goroutine of its own; only the methods of DeviceStore take its lock, so *)
(* a handler's steps before, inside and after the lock interleave.         *)
(*                                                                         *)
(* Clients and relays are external.  A client registers, stops waiting     *)
(* when no answer comes (the handler goes on), registers again, and sends  *)
(* DELETE for an id it holds, possibly more than once.  A relay posts a    *)
(* callback to an id that was handed out and repeats it until it gets 200. *)
(***************************************************************************)
EXTENDS Integers, Sequences

CONSTANTS
  Clients,    \* the apps that register
  Devices,    \* DeviceIDs, NoDevice among them
  NoDevice,   \* the empty DeviceID
  DeviceOf,   \* the DeviceID a client sends
  TypeOf,     \* the tokenType a client sends
  HasAPNs,    \* s.apnsClient is configured
  Ids,        \* what uuid.New can return: one per register request
  Callbacks,  \* events relays have for registrations
  None

ASSUME RegistryAssumption ==
  /\ NoDevice \in Devices
  /\ DeviceOf \in [Clients -> Devices]
  /\ TypeOf \in [Clients -> {"apns_voip", "unifiedpush", "other"}]
  /\ HasAPNs \in BOOLEAN
  /\ None \notin Ids /\ None \notin Clients

VARIABLES
  byID,      \* DeviceStore.byID: id -> the client whose registration it is, or None
  byDevice,  \* DeviceStore.byDevice: DeviceID -> id or None
  stage,     \* the register request that was given this id
  owner,     \* the client that sent it
  waiting,   \* client: the register request it waits for
  held,      \* client: the id of its last answered registration
  deleting,  \* ids some client has sent DELETE for
  callback,  \* callback: "idle", "posted", or "found" once the handler has the device
  target,    \* callback: the id it is for
  stored,    \* history: ids in the order of their Upsert
  removed    \* history: ids whose DELETE was executed

storeVars == <<byID, byDevice, stored, removed>>
clientVars == <<waiting, held, deleting>>
callVars == <<callback, target>>
vars == <<storeVars, stage, owner, clientVars, callVars>>

TypeOK ==
  /\ byID \in [Ids -> Clients \cup {None}]
  /\ byDevice \in [Devices -> Ids \cup {None}]
  /\ stage \in [Ids -> {"unused", "handling", "stored", "answered"}]
  /\ owner \in [Ids -> Clients \cup {None}]
  /\ waiting \in [Clients -> Ids \cup {None}]
  /\ held \in [Clients -> Ids \cup {None}]
  /\ deleting \subseteq Ids
  /\ callback \in [Callbacks -> {"idle", "posted", "found"}]
  /\ target \in [Callbacks -> Ids \cup {None}]
  /\ stored \in Seq(Ids)
  /\ removed \subseteq Ids

Init ==
  /\ byID = [i \in Ids |-> None]
  /\ byDevice = [d \in Devices |-> None]
  /\ stage = [i \in Ids |-> "unused"]
  /\ owner = [i \in Ids |-> None]
  /\ waiting = [c \in Clients |-> None]
  /\ held = [c \in Clients |-> None]
  /\ deleting = {}
  /\ callback = [x \in Callbacks |-> "idle"]
  /\ target = [x \in Callbacks |-> None]
  /\ stored = <<>>
  /\ removed = {}

-----------------------------------------------------------------------------
(* Plausible slips in the code, each the mutated form of a definition below. *)

(* The guard on an empty DeviceID is missing: all such clients share a slot. *)
UpsertAnyDevice(i) ==
  LET d == DeviceOf[owner[i]] IN
  /\ stage[i] = "handling"
  /\ byID' = [j \in Ids |-> IF j = i THEN owner[i]
                            ELSE IF j = byDevice[d] THEN None ELSE byID[j]]
  /\ byDevice' = [byDevice EXCEPT ![d] = i]
  /\ stored' = Append(stored, i)
  /\ stage' = [stage EXCEPT ![i] = "stored"]
  /\ UNCHANGED <<owner, removed, clientVars, callVars>>

(* The previous registration of the device is not removed.                   *)
UpsertKeepsOld(i) ==
  LET d == DeviceOf[owner[i]] IN
  /\ stage[i] = "handling"
  /\ byID' = [byID EXCEPT ![i] = owner[i]]
  /\ byDevice' = IF d = NoDevice THEN byDevice ELSE [byDevice EXCEPT ![d] = i]
  /\ stored' = Append(stored, i)
  /\ stage' = [stage EXCEPT ![i] = "stored"]
  /\ UNCHANGED <<owner, removed, clientVars, callVars>>

(* byDevice is left pointing at the deleted registration.                    *)
DeleteIDOnly(i) ==
  /\ i \in deleting
  /\ byID' = [byID EXCEPT ![i] = None]
  /\ removed' = removed \cup {i}
  /\ UNCHANGED <<byDevice, stored, stage, owner, clientVars, callVars>>

(* The index is filled with the DeviceID instead of the registration id.     *)
UpsertWrongIndex(i) ==
  LET d == DeviceOf[owner[i]] IN
  /\ stage[i] = "handling"
  /\ byID' = [byID EXCEPT ![i] = owner[i]]
  /\ byDevice' = IF d = NoDevice THEN byDevice ELSE [byDevice EXCEPT ![d] = d]
  /\ stored' = Append(stored, i)
  /\ stage' = [stage EXCEPT ![i] = "stored"]
  /\ UNCHANGED <<owner, removed, clientVars, callVars>>

(* 404 for a device that is not registered: the relay posts again.           *)
UnknownNotFound(x) ==
  /\ callback[x] = "posted"
  /\ byID[target[x]] = None
  /\ UNCHANGED vars

-----------------------------------------------------------------------------
(* handleDeviceRegister                                                      *)

(* A client posts a registration, and counts on no earlier one any more; the *)
(* handler makes a fresh id.  A request without token or tokenType is        *)
(* refused and changes nothing.                                              *)
Register(c, i) ==
  /\ waiting[c] = None
  /\ stage[i] = "unused"
  /\ stage' = [stage EXCEPT ![i] = "handling"]
  /\ owner' = [owner EXCEPT ![i] = c]
  /\ waiting' = [waiting EXCEPT ![c] = i]
  /\ held' = [held EXCEPT ![c] = None]
  /\ UNCHANGED <<storeVars, deleting, callVars>>

(* DeviceStore.Upsert, under its lock.                                       *)
Upsert(i) ==
  LET d == DeviceOf[owner[i]] IN
  /\ stage[i] = "handling"
  /\ byID' = [j \in Ids |-> IF j = i THEN owner[i]
                            ELSE IF j = byDevice[d] THEN None ELSE byID[j]]
  /\ byDevice' = IF d = NoDevice THEN byDevice ELSE [byDevice EXCEPT ![d] = i]
  /\ stored' = Append(stored, i)
  /\ stage' = [stage EXCEPT ![i] = "stored"]
  /\ UNCHANGED <<owner, removed, clientVars, callVars>>

(* The answer carries the id and its callback URL; the client holds them if  *)
(* it is still waiting for this request.                                     *)
Answer(i) ==
  LET c == owner[i] IN
  /\ stage[i] = "stored"
  /\ stage' = [stage EXCEPT ![i] = "answered"]
  /\ held' = IF waiting[c] = i THEN [held EXCEPT ![c] = i] ELSE held
  /\ waiting' = IF waiting[c] = i THEN [waiting EXCEPT ![c] = None] ELSE waiting
  /\ UNCHANGED <<storeVars, owner, deleting, callVars>>

StopWaiting(c) ==
  /\ waiting[c] # None
  /\ waiting' = [waiting EXCEPT ![c] = None]
  /\ UNCHANGED <<storeVars, stage, owner, held, deleting, callVars>>

-----------------------------------------------------------------------------
(* handleDeviceDelete                                                        *)

SendDelete(c) ==
  /\ held[c] # None
  /\ deleting' = deleting \cup {held[c]}
  /\ held' = [held EXCEPT ![c] = None]
  /\ UNCHANGED <<storeVars, stage, owner, waiting, callVars>>

(* DeviceStore.Delete, under its lock; the request may come again.           *)
Delete(i) ==
  /\ i \in deleting
  /\ byDevice' = IF byID[i] = None THEN byDevice
                 ELSE [byDevice EXCEPT ![DeviceOf[byID[i]]] = None]
  /\ byID' = [byID EXCEPT ![i] = None]
  /\ removed' = removed \cup {i}
  /\ UNCHANGED <<stored, stage, owner, clientVars, callVars>>

-----------------------------------------------------------------------------
(* handleRelayCallback                                                       *)

Post(x, i) ==
  /\ callback[x] = "idle"
  /\ stage[i] = "answered"
  /\ callback' = [callback EXCEPT ![x] = "posted"]
  /\ target' = [target EXCEPT ![x] = i]
  /\ UNCHANGED <<storeVars, stage, owner, clientVars>>

(* DeviceStore.Get finds nothing: 200, so that the relay stops.              *)
Unknown(x) ==
  /\ callback[x] = "posted"
  /\ byID[target[x]] = None
  /\ callback' = [callback EXCEPT ![x] = "idle"]
  /\ UNCHANGED <<storeVars, stage, owner, clientVars, target>>

(* Get returns the registration; the body is read after the lock is free.    *)
Lookup(x) ==
  /\ callback[x] = "posted"
  /\ byID[target[x]] # None
  /\ callback' = [callback EXCEPT ![x] = "found"]
  /\ UNCHANGED <<storeVars, stage, owner, clientVars, target>>

(* The answer to the relay: 200 when the push service took or rejected the   *)
(* push; 503, 500 or 400 make the relay post again.                          *)
Finish(x) ==
  LET type == TypeOf[owner[target[x]]]
      canAcknowledge == (type = "apns_voip" /\ HasAPNs) \/ type = "unifiedpush"
  IN
  /\ callback[x] = "found"
  /\ \/ canAcknowledge /\ callback' = [callback EXCEPT ![x] = "idle"]
     \/ callback' = [callback EXCEPT ![x] = "posted"]
  /\ UNCHANGED <<storeVars, stage, owner, clientVars, target>>

-----------------------------------------------------------------------------

Handler(x) == Unknown(x) \/ Lookup(x) \/ Finish(x)

Next ==
  \/ \E c \in Clients : StopWaiting(c) \/ SendDelete(c) \/ \E i \in Ids : Register(c, i)
  \/ \E i \in Ids : Upsert(i) \/ Answer(i) \/ Delete(i)
  \/ \E x \in Callbacks : Handler(x) \/ \E i \in Ids : Post(x, i)

Spec == Init /\ [][Next]_vars

(* A handler that was started ends, and a relay repeats what was not taken.  *)
FairSpec == Spec /\ \A x \in Callbacks : WF_vars(Handler(x))

-----------------------------------------------------------------------------
(* Properties                                                                *)

(* The two indexes agree: byDevice leads to the registration of that device  *)
(* and of no other, and every registration of a device that names itself is  *)
(* the one byDevice leads to, so that a device has at most one.              *)
IndexesAgree ==
  /\ \A d \in Devices : byDevice[d] # None =>
       /\ d # NoDevice
       /\ byID[byDevice[d]] # None
       /\ DeviceOf[byID[byDevice[d]]] = d
  /\ \A i \in Ids : (byID[i] # None /\ DeviceOf[byID[i]] # NoDevice)
       => byDevice[DeviceOf[byID[i]]] = i

(* Stored after the m-th Upsert by a client with the same DeviceID.          *)
Replaced(m) ==
  \E n \in m + 1 .. Len(stored) :
    /\ DeviceOf[owner[stored[n]]] = DeviceOf[owner[stored[m]]]
    /\ DeviceOf[owner[stored[m]]] # NoDevice

(* A stored registration stays reachable exactly until its own DELETE runs   *)
(* or the same device registers again: a late or repeated DELETE of an old   *)
(* id, and clients without a DeviceID, never take away another's.            *)
RegisteredUntilReplaced ==
  \A m \in 1 .. Len(stored) :
    byID[stored[m]] # None <=> (stored[m] \notin removed /\ ~Replaced(m))

(* The registrations are those of the one-index directory.                   *)
Directory == INSTANCE DeviceDirectory WITH
  live <- {[id |-> i, device |-> DeviceOf[byID[i]]] : i \in {j \in Ids : byID[j] # None}}

ImplementsDirectory == Directory!DirectorySpec

(* A relay does not repeat a callback to an unregistered device forever      *)
(* (server.go, "respond 200 so the relay doesn't retry forever").            *)
RetriesEnd ==
  \A x \in Callbacks, i \in Ids :
    (callback[x] = "posted" /\ target[x] = i /\ i \in removed) ~> callback[x] = "idle"

=============================================================================
