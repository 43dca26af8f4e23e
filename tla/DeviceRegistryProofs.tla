----------------------- MODULE DeviceRegistryProofs -----------------------
(***************************************************************************)
(* Proofs about DeviceRegistry, for any number of clients, devices,        *)
(* registrations and callbacks.                                            *)
(***************************************************************************)
EXTENDS DeviceRegistry, SequenceTheorems, TLAPS

-----------------------------------------------------------------------------
(* Inductive strengthening                                                   *)

(* A request has a client; a registration is that of the client whose        *)
(* request stored it.                                                        *)
Owned ==
  \A i \in Ids :
    /\ stage[i] # "unused" => owner[i] \in Clients
    /\ byID[i] # None => stage[i] \in {"stored", "answered"} /\ byID[i] = owner[i]

(* DELETE is sent only for ids that were handed out, and executed only when  *)
(* it was sent.                                                              *)
HandedOut ==
  /\ \A c \in Clients : held[c] # None => stage[held[c]] = "answered"
  /\ \A i \in deleting : stage[i] = "answered"
  /\ removed \subseteq deleting

HistoryOK == \A m \in 1 .. Len(stored) : stage[stored[m]] \in {"stored", "answered"}

RegistryInv == TypeOK /\ Owned /\ HandedOut /\ HistoryOK /\ IndexesAgree

-----------------------------------------------------------------------------
(* What Upsert does, without its LET.                                        *)

LEMMA StoredTyped ==
  ASSUME TypeOK
  PROVE  Len(stored) \in Nat /\ \A m \in 1 .. Len(stored) : stored[m] \in Ids
BY LenProperties, ElementOfSeq DEF TypeOK

LEMMA UpsertFacts ==
  ASSUME RegistryInv, NEW i \in Ids, Upsert(i), NEW d, d = DeviceOf[owner[i]]
  PROVE  /\ owner[i] \in Clients /\ d \in Devices /\ byID[i] = None
         /\ byID'[i] = owner[i]
         /\ byDevice[d] # None => d # NoDevice /\ byDevice[d] \in Ids
         /\ \A j \in Ids \ {i} : byID'[j] = IF j = byDevice[d] THEN None ELSE byID[j]
         /\ byID' \in [Ids -> Clients \cup {None}]
         /\ \A e \in Devices : byDevice'[e] = IF e = d /\ d # NoDevice THEN i ELSE byDevice[e]
         /\ byDevice' \in [Devices -> Ids \cup {None}]
         /\ stored' \in Seq(Ids) /\ Len(stored') = Len(stored) + 1
         /\ \A m \in 1 .. Len(stored) : stored'[m] = stored[m]
         /\ stored'[Len(stored) + 1] = i
<1> USE RegistryAssumption
<1>1. /\ stage[i] = "handling"
      /\ byID' = [j \in Ids |-> IF j = i THEN owner[i]
                                ELSE IF j = byDevice[d] THEN None ELSE byID[j]]
      /\ byDevice' = IF d = NoDevice THEN byDevice ELSE [byDevice EXCEPT ![d] = i]
      /\ stored' = Append(stored, i)
  BY DEF Upsert
<1>2. /\ owner[i] \in Clients /\ byID[i] = None
      /\ byID \in [Ids -> Clients \cup {None}]
      /\ byDevice \in [Devices -> Ids \cup {None}]
      /\ stored \in Seq(Ids)
  BY <1>1 DEF RegistryInv, Owned, TypeOK
<1>3. d \in Devices
  BY <1>2
<1>4. byDevice[d] # None => d # NoDevice /\ byDevice[d] \in Ids
  BY <1>2, <1>3 DEF RegistryInv, IndexesAgree
<1>5. /\ byID'[i] = owner[i]
      /\ \A j \in Ids \ {i} : byID'[j] = IF j = byDevice[d] THEN None ELSE byID[j]
      /\ byID' \in [Ids -> Clients \cup {None}]
  BY <1>1, <1>2
<1>6. /\ \A e \in Devices : byDevice'[e] = IF e = d /\ d # NoDevice THEN i ELSE byDevice[e]
      /\ byDevice' \in [Devices -> Ids \cup {None}]
  BY <1>1, <1>2, <1>3
<1>7. /\ stored' \in Seq(Ids) /\ Len(stored') = Len(stored) + 1
      /\ \A m \in 1 .. Len(stored) : stored'[m] = stored[m]
      /\ stored'[Len(stored) + 1] = i
  BY <1>1, <1>2, AppendProperties
<1> QED
  BY <1>2, <1>3, <1>4, <1>5, <1>6, <1>7

LEMMA DeleteFacts ==
  ASSUME RegistryInv, NEW i \in Ids, Delete(i)
  PROVE  /\ \A j \in Ids : byID'[j] = IF j = i THEN None ELSE byID[j]
         /\ byID' \in [Ids -> Clients \cup {None}]
         /\ \A d \in Devices :
              byDevice'[d] = IF byID[i] # None /\ d = DeviceOf[byID[i]] THEN None
                             ELSE byDevice[d]
         /\ byDevice' \in [Devices -> Ids \cup {None}]
         /\ removed' = removed \cup {i} /\ i \in deleting
<1> USE RegistryAssumption
<1>1. /\ byID \in [Ids -> Clients \cup {None}]
      /\ byDevice \in [Devices -> Ids \cup {None}]
  BY DEF RegistryInv, TypeOK
<1>2. /\ byDevice' = IF byID[i] = None THEN byDevice
                     ELSE [byDevice EXCEPT ![DeviceOf[byID[i]]] = None]
      /\ byID' = [byID EXCEPT ![i] = None]
      /\ removed' = removed \cup {i} /\ i \in deleting
  BY DEF Delete
<1> QED
  BY <1>1, <1>2

-----------------------------------------------------------------------------
(* The invariant                                                             *)

LEMMA RegistryInit == Init => RegistryInv
<1> SUFFICES ASSUME Init PROVE RegistryInv
  OBVIOUS
<1>1. stored \in Seq(Ids) /\ Len(stored) = 0
  BY DEF Init
<1> QED
  BY <1>1, RegistryAssumption
     DEF Init, RegistryInv, TypeOK, Owned, HandedOut, HistoryOK, IndexesAgree

LEMMA RegistryStep == RegistryInv /\ [Next]_vars => RegistryInv'
<1> USE RegistryAssumption
<1> SUFFICES ASSUME RegistryInv, [Next]_vars PROVE RegistryInv'
  OBVIOUS
<1>0. /\ TypeOK /\ Owned /\ HandedOut /\ HistoryOK /\ IndexesAgree
      /\ Len(stored) \in Nat /\ \A m \in 1 .. Len(stored) : stored[m] \in Ids
  BY StoredTyped DEF RegistryInv
<1>1. ASSUME NEW c \in Clients, NEW i \in Ids, Register(c, i)
      PROVE  RegistryInv'
  <2>1. /\ stage[i] = "unused" /\ UNCHANGED <<byID, byDevice, stored, removed, deleting, callVars>>
        /\ stage' = [stage EXCEPT ![i] = "handling"]
        /\ owner' = [owner EXCEPT ![i] = c]
        /\ waiting' = [waiting EXCEPT ![c] = i]
        /\ held' = [held EXCEPT ![c] = None]
    BY <1>1 DEF Register, storeVars
  <2>2. TypeOK'
    BY <1>0, <2>1 DEF TypeOK, callVars
  <2>3. Owned' /\ HistoryOK' /\ IndexesAgree'
    BY <1>0, <2>1 DEF TypeOK, Owned, HistoryOK, IndexesAgree
  <2>4. HandedOut'
    BY <1>0, <2>1 DEF TypeOK, HandedOut
  <2> QED
    BY <2>2, <2>3, <2>4 DEF RegistryInv
<1>2. ASSUME NEW i \in Ids, Upsert(i)
      PROVE  RegistryInv'
  <2> DEFINE d == DeviceOf[owner[i]]
  <2>1. /\ owner[i] \in Clients /\ d \in Devices /\ byID[i] = None
        /\ byID'[i] = owner[i]
        /\ byDevice[d] # None => d # NoDevice /\ byDevice[d] \in Ids
        /\ \A j \in Ids \ {i} : byID'[j] = IF j = byDevice[d] THEN None ELSE byID[j]
        /\ byID' \in [Ids -> Clients \cup {None}]
        /\ \A e \in Devices : byDevice'[e] = IF e = d /\ d # NoDevice THEN i ELSE byDevice[e]
        /\ byDevice' \in [Devices -> Ids \cup {None}]
        /\ stored' \in Seq(Ids) /\ Len(stored') = Len(stored) + 1
        /\ \A m \in 1 .. Len(stored) : stored'[m] = stored[m]
        /\ stored'[Len(stored) + 1] = i
    BY <1>2, UpsertFacts
  <2>2. /\ stage[i] = "handling" /\ stage' = [stage EXCEPT ![i] = "stored"]
        /\ UNCHANGED <<owner, removed, waiting, held, deleting, callback, target>>
    BY <1>2 DEF Upsert, clientVars, callVars
  <2>3. stage' \in [Ids -> {"unused", "handling", "stored", "answered"}]
        /\ \A j \in Ids : stage'[j] = IF j = i THEN "stored" ELSE stage[j]
    BY <1>0, <2>2 DEF TypeOK
  <2>4. TypeOK'
    BY <1>0, <2>1, <2>2, <2>3 DEF TypeOK
  <2>5. Owned'
    BY <1>0, <2>1, <2>2, <2>3 DEF Owned
  <2>6. HandedOut'
    BY <1>0, <2>2, <2>3 DEF HandedOut, TypeOK
  <2>7. HistoryOK'
    <3> SUFFICES ASSUME NEW m \in 1 .. Len(stored) + 1
                 PROVE  stage'[stored'[m]] \in {"stored", "answered"}
      BY <2>1 DEF HistoryOK
    <3>1. CASE m = Len(stored) + 1
      BY <2>1, <2>3, <3>1
    <3>2. CASE m \in 1 .. Len(stored)
      BY <1>0, <2>1, <2>3, <3>2 DEF HistoryOK
    <3> QED
      BY <1>0, <3>1, <3>2
  <2>8. IndexesAgree'
    <3>1. ASSUME NEW e \in Devices, byDevice'[e] # None
          PROVE  e # NoDevice /\ byID'[byDevice'[e]] # None /\ DeviceOf[byID'[byDevice'[e]]] = e
      <4>1. CASE e = d /\ d # NoDevice
        BY <2>1, <4>1
      <4>2. CASE ~(e = d /\ d # NoDevice)
        <5>1. /\ byDevice'[e] = byDevice[e] /\ byDevice[e] \in Ids
              /\ e # NoDevice /\ byID[byDevice[e]] # None /\ DeviceOf[byID[byDevice[e]]] = e
          BY <1>0, <2>1, <3>1, <4>2 DEF IndexesAgree, TypeOK
        <5>2. e # d /\ byDevice[e] # i
          BY <2>1, <4>2, <5>1
        <5>3. byDevice[e] # byDevice[d]
          BY <1>0, <2>1, <5>1, <5>2 DEF IndexesAgree
        <5> QED
          BY <2>1, <5>1, <5>2, <5>3
      <4> QED
        BY <4>1, <4>2
    <3>2. ASSUME NEW j \in Ids, byID'[j] # None, DeviceOf[byID'[j]] # NoDevice
          PROVE  byDevice'[DeviceOf[byID'[j]]] = j
      <4>1. CASE j = i
        BY <2>1, <3>2, <4>1
      <4>2. CASE j # i
        <5>1. byID'[j] = byID[j] /\ j # byDevice[d]
          BY <2>1, <3>2, <4>2
        <5>2. byDevice[DeviceOf[byID[j]]] = j /\ DeviceOf[byID[j]] \in Devices
          BY <1>0, <3>2, <5>1 DEF IndexesAgree, TypeOK
        <5> QED
          BY <2>1, <5>1, <5>2
      <4> QED
        BY <4>1, <4>2
    <3> QED
      BY <3>1, <3>2 DEF IndexesAgree
  <2> QED
    BY <2>4, <2>5, <2>6, <2>7, <2>8 DEF RegistryInv
<1>3. ASSUME NEW i \in Ids, Answer(i)
      PROVE  RegistryInv'
  <2> DEFINE c == owner[i]
  <2>1. /\ stage[i] = "stored" /\ stage' = [stage EXCEPT ![i] = "answered"]
        /\ held' = IF waiting[c] = i THEN [held EXCEPT ![c] = i] ELSE held
        /\ waiting' = IF waiting[c] = i THEN [waiting EXCEPT ![c] = None] ELSE waiting
        /\ UNCHANGED <<byID, byDevice, stored, removed, owner, deleting, callback, target>>
    BY <1>3 DEF Answer, storeVars, callVars
  <2>2. TypeOK'
    BY <1>0, <2>1 DEF TypeOK
  <2>3. Owned' /\ HistoryOK' /\ IndexesAgree'
    BY <1>0, <2>1 DEF TypeOK, Owned, HistoryOK, IndexesAgree
  <2>4. HandedOut'
    BY <1>0, <2>1 DEF TypeOK, HandedOut
  <2> QED
    BY <2>2, <2>3, <2>4 DEF RegistryInv
<1>4. ASSUME NEW c \in Clients, StopWaiting(c) \/ SendDelete(c)
      PROVE  RegistryInv'
  <2>1. UNCHANGED <<byID, byDevice, stored, removed, stage, owner, callback, target>>
    BY <1>4 DEF StopWaiting, SendDelete, storeVars, callVars
  <2>2. TypeOK' /\ HandedOut'
    BY <1>0, <1>4, <2>1 DEF TypeOK, HandedOut, StopWaiting, SendDelete
  <2> QED
    BY <1>0, <2>1, <2>2 DEF RegistryInv, Owned, HistoryOK, IndexesAgree
<1>5. ASSUME NEW i \in Ids, Delete(i)
      PROVE  RegistryInv'
  <2>1. /\ \A j \in Ids : byID'[j] = IF j = i THEN None ELSE byID[j]
        /\ byID' \in [Ids -> Clients \cup {None}]
        /\ \A d \in Devices :
             byDevice'[d] = IF byID[i] # None /\ d = DeviceOf[byID[i]] THEN None
                            ELSE byDevice[d]
        /\ byDevice' \in [Devices -> Ids \cup {None}]
        /\ removed' = removed \cup {i} /\ i \in deleting
    BY <1>5, DeleteFacts
  <2>2. UNCHANGED <<stored, stage, owner, waiting, held, deleting, callback, target>>
    BY <1>5 DEF Delete, clientVars, callVars
  <2>3. TypeOK'
    BY <1>0, <2>1, <2>2 DEF TypeOK
  <2>4. Owned' /\ HandedOut' /\ HistoryOK'
    BY <1>0, <2>1, <2>2 DEF Owned, HandedOut, HistoryOK
  <2>5. ASSUME NEW d \in Devices, byDevice'[d] # None
        PROVE  d # NoDevice /\ byID'[byDevice'[d]] # None /\ DeviceOf[byID'[byDevice'[d]]] = d
    <3>1. /\ byDevice'[d] = byDevice[d] /\ byDevice[d] \in Ids
          /\ d # NoDevice /\ byID[byDevice[d]] # None /\ DeviceOf[byID[byDevice[d]]] = d
          /\ ~(byID[i] # None /\ d = DeviceOf[byID[i]])
      BY <1>0, <2>1, <2>5 DEF IndexesAgree, TypeOK
    <3>2. byDevice[d] # i
      BY <3>1
    <3> QED
      BY <2>1, <3>1, <3>2
  <2>6. ASSUME NEW j \in Ids, byID'[j] # None, DeviceOf[byID'[j]] # NoDevice
        PROVE  byDevice'[DeviceOf[byID'[j]]] = j
    <3>1. j # i /\ byID'[j] = byID[j]
      BY <2>1, <2>6
    <3>2. byDevice[DeviceOf[byID[j]]] = j /\ DeviceOf[byID[j]] \in Devices
      BY <1>0, <2>6, <3>1 DEF IndexesAgree, TypeOK
    <3>3. ~(byID[i] # None /\ DeviceOf[byID[j]] = DeviceOf[byID[i]])
      BY <1>0, <2>6, <3>1, <3>2 DEF IndexesAgree
    <3> QED
      BY <2>1, <3>1, <3>2, <3>3
  <2> QED
    BY <2>3, <2>4, <2>5, <2>6 DEF RegistryInv, IndexesAgree
<1>6. ASSUME NEW x \in Callbacks, Handler(x) \/ \E i \in Ids : Post(x, i)
      PROVE  RegistryInv'
  <2>1. /\ UNCHANGED <<byID, byDevice, stored, removed, stage, owner, waiting, held, deleting>>
        /\ callback' \in [Callbacks -> {"idle", "posted", "found"}]
        /\ target' \in [Callbacks -> Ids \cup {None}]
    BY <1>0, <1>6 DEF TypeOK, Handler, Unknown, Lookup, Finish, Post, storeVars, clientVars
  <2> QED
    BY <1>0, <2>1 DEF RegistryInv, TypeOK, Owned, HandedOut, HistoryOK, IndexesAgree
<1>7. CASE UNCHANGED vars
  BY <1>0, <1>7 DEF RegistryInv, TypeOK, Owned, HandedOut, HistoryOK, IndexesAgree,
     vars, storeVars, clientVars, callVars
<1> QED
  BY <1>1, <1>2, <1>3, <1>4, <1>5, <1>6, <1>7 DEF Next

(* Type correctness of the registry and its handlers.                        *)
THEOREM RegistryTypeCorrect == Spec => []TypeOK
<1>1. RegistryInv => TypeOK
  BY DEF RegistryInv
<1> QED
  BY RegistryInit, RegistryStep, <1>1, PTL DEF Spec

(* The two indexes always agree: a device has at most one registration.      *)
THEOREM IndexesCorrect == Spec => []IndexesAgree
<1>1. RegistryInv => IndexesAgree
  BY DEF RegistryInv
<1> QED
  BY RegistryInit, RegistryStep, <1>1, PTL DEF Spec

-----------------------------------------------------------------------------
(* Registrations last                                                        *)

(* Nothing but Upsert and Delete touches what the property reads: the owner  *)
(* of an id changes only before it is stored.                                *)
LEMMA LastingUntouched ==
  ASSUME RegistryInv, RegisteredUntilReplaced,
         UNCHANGED <<byID, stored, removed>>,
         \A i \in Ids : stage[i] # "unused" => owner'[i] = owner[i]
  PROVE  RegisteredUntilReplaced'
<1>1. \A m \in 1 .. Len(stored) : owner'[stored[m]] = owner[stored[m]]
  BY StoredTyped DEF RegistryInv, HistoryOK
<1>2. Len(stored) \in Nat
  BY StoredTyped DEF RegistryInv
<1>3. \A m \in 1 .. Len(stored) : \A n \in m + 1 .. Len(stored) : n \in 1 .. Len(stored)
  BY <1>2
<1>4. \A m \in 1 .. Len(stored) : Replaced(m)' <=> Replaced(m)
  BY <1>1, <1>3 DEF Replaced
<1> QED
  BY <1>4 DEF RegisteredUntilReplaced

LEMMA LastingStep ==
  RegistryInv /\ RegisteredUntilReplaced /\ [Next]_vars => RegisteredUntilReplaced'
<1> USE RegistryAssumption
<1> SUFFICES ASSUME RegistryInv, RegisteredUntilReplaced, [Next]_vars
             PROVE  RegisteredUntilReplaced'
  OBVIOUS
<1>0. /\ TypeOK /\ Owned /\ HandedOut /\ HistoryOK /\ IndexesAgree
      /\ Len(stored) \in Nat /\ \A m \in 1 .. Len(stored) : stored[m] \in Ids
  BY StoredTyped DEF RegistryInv
<1>1. ASSUME NEW i \in Ids, Upsert(i)
      PROVE  RegisteredUntilReplaced'
  <2> DEFINE d == DeviceOf[owner[i]]
             n == Len(stored) + 1
  <2>1. /\ owner[i] \in Clients /\ d \in Devices
        /\ byID'[i] = owner[i]
        /\ byDevice[d] # None => d # NoDevice /\ byDevice[d] \in Ids
        /\ \A j \in Ids \ {i} : byID'[j] = IF j = byDevice[d] THEN None ELSE byID[j]
        /\ Len(stored') = n
        /\ \A m \in 1 .. Len(stored) : stored'[m] = stored[m]
        /\ stored'[n] = i
    BY <1>1, UpsertFacts
  <2>2. stage[i] = "handling" /\ UNCHANGED <<owner, removed>>
    BY <1>1 DEF Upsert
  <2>3. \A m \in 1 .. Len(stored) : stored[m] # i
    BY <1>0, <2>2 DEF HistoryOK
  <2>4. ASSUME NEW m \in 1 .. Len(stored)
        PROVE  byID'[stored'[m]] # None <=> (stored'[m] \notin removed /\ ~Replaced(m)')
    <3> DEFINE s == stored[m]
               same == DeviceOf[owner[s]] = d /\ DeviceOf[owner[s]] # NoDevice
    <3>1. s \in Ids \ {i} /\ stored'[m] = s
      BY <1>0, <2>1, <2>3
    <3>2. Replaced(m)' <=> (Replaced(m) \/ same)
      <4>1. \A k \in m + 1 .. Len(stored) : stored'[k] = stored[k]
        BY <1>0, <2>1
      <4>2. m + 1 .. n = (m + 1 .. Len(stored)) \cup {n}
        BY <1>0
      <4> HIDE DEF n, d
      <4>3. Replaced(m)' <=>
              \E k \in m + 1 .. n :
                /\ DeviceOf[owner[stored'[k]]] = DeviceOf[owner[s]]
                /\ DeviceOf[owner[s]] # NoDevice
        BY <2>1, <2>2, <3>1 DEF Replaced
      <4>4. Replaced(m) <=>
              \E k \in m + 1 .. Len(stored) :
                /\ DeviceOf[owner[stored[k]]] = DeviceOf[owner[s]]
                /\ DeviceOf[owner[s]] # NoDevice
        BY DEF Replaced
      <4>5. DeviceOf[owner[stored'[n]]] = d
        BY <2>1 DEF d
      <4> QED
        BY <4>1, <4>2, <4>3, <4>4, <4>5
    <3>3. byID[s] # None => byID[s] = owner[s]
      BY <1>0, <3>1 DEF Owned
    <3>4. byID[s] # None => (s = byDevice[d] <=> same)
      BY <1>0, <2>1, <3>1, <3>3 DEF IndexesAgree, TypeOK
    <3>5. byID'[s] # None <=> (byID[s] # None /\ ~same)
      BY <2>1, <3>1, <3>4
    <3>6. byID[s] # None <=> (s \notin removed /\ ~Replaced(m))
      BY DEF RegisteredUntilReplaced
    <3> QED
      BY <3>1, <3>2, <3>5, <3>6
  <2>5. ASSUME NEW m, m = n
        PROVE  byID'[stored'[m]] # None /\ stored'[m] \notin removed /\ ~Replaced(m)'
    <3>1. byID'[i] # None
      BY <2>1
    <3>2. i \notin removed
      BY <1>0, <2>2 DEF HandedOut
    <3>3. m + 1 .. n = {} /\ Len(stored') = n /\ stored'[m] = i
      BY <1>0, <2>1, <2>5
    <3> QED
      BY <3>1, <3>2, <3>3 DEF Replaced
  <2>6. \A m \in 1 .. n : m = n \/ m \in 1 .. Len(stored)
    BY <1>0
  <2> HIDE DEF n
  <2> SUFFICES ASSUME NEW m \in 1 .. n
               PROVE  byID'[stored'[m]] # None <=> (stored'[m] \notin removed' /\ ~Replaced(m)')
    BY <2>1 DEF RegisteredUntilReplaced
  <2>7. CASE m = n
    BY <2>2, <2>5, <2>7
  <2>8. CASE m \in 1 .. Len(stored)
    BY <2>2, <2>4, <2>8
  <2> QED
    BY <2>6, <2>7, <2>8
<1>2. ASSUME NEW i \in Ids, Delete(i)
      PROVE  RegisteredUntilReplaced'
  <2>1. /\ \A j \in Ids : byID'[j] = IF j = i THEN None ELSE byID[j]
        /\ removed' = removed \cup {i}
    BY <1>2, DeleteFacts
  <2>2. UNCHANGED <<stored, owner>>
    BY <1>2 DEF Delete
  <2>3. \A m \in 1 .. Len(stored) : Replaced(m)' <=> Replaced(m)
    BY <2>2 DEF Replaced
  <2> QED
    BY <1>0, <2>1, <2>2, <2>3 DEF RegisteredUntilReplaced
<1>3. ASSUME NEW c \in Clients, NEW i \in Ids, Register(c, i)
      PROVE  RegisteredUntilReplaced'
  <2>1. /\ stage[i] = "unused" /\ owner' = [owner EXCEPT ![i] = c]
        /\ UNCHANGED <<byID, stored, removed>>
    BY <1>3 DEF Register, storeVars
  <2>2. \A j \in Ids : stage[j] # "unused" => owner'[j] = owner[j]
    BY <1>0, <2>1 DEF TypeOK
  <2> QED
    BY <2>1, <2>2, LastingUntouched
<1>4. CASE UNCHANGED <<byID, stored, removed, owner>>
  BY <1>4, LastingUntouched
<1> QED
  BY <1>1, <1>2, <1>3, <1>4 DEF Next, Answer, StopWaiting, SendDelete, Handler, Unknown,
     Lookup, Finish, Post, vars, storeVars

(* A registration is there until its own DELETE or a newer registration of   *)
(* its device, and no longer.                                                *)
THEOREM LastingCorrect == Spec => []RegisteredUntilReplaced
<1>1. Init => RegisteredUntilReplaced
  BY DEF Init, RegisteredUntilReplaced
<1> QED
  BY RegistryInit, RegistryStep, LastingStep, <1>1, PTL DEF Spec

-----------------------------------------------------------------------------
(* Refinement                                                                *)

(* The registrations as the directory sees them.                             *)
Live == {[id |-> i, device |-> DeviceOf[byID[i]]] : i \in {j \in Ids : byID[j] # None}}

LEMMA EnrollStep ==
  ASSUME RegistryInv, NEW i \in Ids, Upsert(i)
  PROVE  \E d \in Devices :
           Live' = {r \in Live : r.device # d \/ d = NoDevice} \cup {[id |-> i, device |-> d]}
<1> USE RegistryAssumption
<1> DEFINE d == DeviceOf[owner[i]]
           kept == {r \in Live : r.device # d \/ d = NoDevice}
           new == [id |-> i, device |-> d]
<1>1. /\ owner[i] \in Clients /\ d \in Devices /\ byID[i] = None
      /\ byID'[i] = owner[i]
      /\ byDevice[d] # None => d # NoDevice /\ byDevice[d] \in Ids
      /\ \A j \in Ids \ {i} : byID'[j] = IF j = byDevice[d] THEN None ELSE byID[j]
  BY UpsertFacts
<1>2. IndexesAgree /\ byDevice \in [Devices -> Ids \cup {None}]
      /\ byID \in [Ids -> Clients \cup {None}]
  BY DEF RegistryInv, TypeOK
<1> HIDE DEF d
<1>3. \A j \in Ids : byID'[j] # None <=>
        (j = i \/ (byID[j] # None /\ (DeviceOf[byID[j]] # d \/ d = NoDevice)))
  <2> SUFFICES ASSUME NEW j \in Ids, j # i, byID[j] # None
               PROVE  j = byDevice[d] <=> (DeviceOf[byID[j]] = d /\ d # NoDevice)
    BY <1>1
  <2> QED
    BY <1>1, <1>2 DEF IndexesAgree
<1>4. \A j \in Ids : (byID'[j] # None /\ j # i) => byID'[j] = byID[j]
  BY <1>1
<1>5. DeviceOf[byID'[i]] = d
  BY <1>1 DEF d
<1>6. Live' \subseteq kept \cup {new}
  <2> SUFFICES ASSUME NEW j \in Ids, byID'[j] # None
               PROVE  [id |-> j, device |-> DeviceOf[byID'[j]]] \in kept \cup {new}
    BY DEF Live
  <2>1. CASE j = i
    BY <1>5, <2>1
  <2>2. CASE j # i
    <3>1. byID[j] # None /\ byID'[j] = byID[j] /\ (DeviceOf[byID[j]] # d \/ d = NoDevice)
      BY <1>3, <1>4, <2>2
    <3>2. [id |-> j, device |-> DeviceOf[byID[j]]] \in Live
      BY <3>1 DEF Live
    <3> QED
      BY <3>1, <3>2
  <2> QED
    BY <2>1, <2>2
<1>7. kept \subseteq Live'
  <2> SUFFICES ASSUME NEW r \in Live, r.device # d \/ d = NoDevice
               PROVE  r \in Live'
    OBVIOUS
  <2>1. PICK j \in Ids : byID[j] # None /\ r = [id |-> j, device |-> DeviceOf[byID[j]]]
    BY DEF Live
  <2>2. j # i /\ byID'[j] # None /\ byID'[j] = byID[j]
    BY <1>1, <1>3, <1>4, <2>1
  <2> QED
    BY <2>1, <2>2 DEF Live
<1>8. new \in Live'
  BY <1>3, <1>5 DEF Live
<1> QED
  BY <1>1, <1>6, <1>7, <1>8

LEMMA WithdrawStep ==
  ASSUME RegistryInv, NEW i \in Ids, Delete(i)
  PROVE  Live' = {r \in Live : r.id # i}
<1>1. \A j \in Ids : byID'[j] = IF j = i THEN None ELSE byID[j]
  BY DeleteFacts
<1> QED
  BY <1>1 DEF Live

(* The two indexes under their lock implement the directory: every step of   *)
(* the handlers is Enroll, Withdraw or invisible.                            *)
THEOREM RegistryImplementsDirectory == Spec => ImplementsDirectory
<1> USE RegistryAssumption
<1>1. Init => Directory!DirectoryInit
  BY DEF Init, Directory!DirectoryInit
<1>2. RegistryInv /\ [Next]_vars => [Directory!DirectoryNext]_Live
  <2> SUFFICES ASSUME RegistryInv, [Next]_vars
               PROVE  Directory!DirectoryNext \/ Live' = Live
    OBVIOUS
  <2>1. ASSUME NEW i \in Ids, Upsert(i) PROVE Directory!DirectoryNext
    BY <2>1, EnrollStep DEF Directory!DirectoryNext, Directory!Enroll, Live
  <2>2. ASSUME NEW i \in Ids, Delete(i) PROVE Directory!DirectoryNext
    BY <2>2, WithdrawStep DEF Directory!DirectoryNext, Directory!Withdraw, Live
  <2>3. CASE UNCHANGED byID
    BY <2>3 DEF Live
  <2> QED
    BY <2>1, <2>2, <2>3 DEF Next, Register, Answer, StopWaiting, SendDelete, Handler,
       Unknown, Lookup, Finish, Post, vars, storeVars
<1> QED
  BY RegistryInit, RegistryStep, <1>1, <1>2, PTL
     DEF Spec, ImplementsDirectory, Directory!DirectorySpec, Live

=============================================================================
