--------------------------- MODULE PresenceProofs ---------------------------
(***************************************************************************)
(* Proofs about Presence, for any number of connections and keys.          *)
(***************************************************************************)
EXTENDS Presence, FiniteSetTheorems, SequenceTheorems, TLAPS

-----------------------------------------------------------------------------
(* Inductive strengthening                                                   *)

Adds(c, k, i) == poller[c] = "add" /\ pollKey[c] = k /\ ref[c] = i
Subtracts(c, k, i) == ws[c] = "sub" /\ leaveKey[c] = k /\ leaveRef[c] = i
Deletes(c, k) == ws[c] = "delete" /\ leaveKey[c] = k

(* A cell belongs to one key: to the map entry and to every step under way.  *)
Uses(k, i) ==
  \/ onlineMap[k] = i
  \/ \E c \in Conns : Adds(c, k, i) \/ Subtracts(c, k, i)

NoSharing ==
  \A k, j \in Keys : \A i \in 1 .. Len(cells) : (Uses(k, i) /\ Uses(j, i)) => k = j

(* Only the poller's add makes a connection count, and the poller starts     *)
(* with the connection.                                                      *)
NotYetCounted ==
  \A c \in Conns :
    /\ poller[c] # "done" => counted[c] = None
    /\ ws[c] = "new" => poller[c] = "none"

(* The steps under way for a calm key work on the cell in the map, on behalf *)
(* of connections that are counted, and the deletion comes after the last.   *)
StepsOK(k) ==
  /\ \A c \in Conns : \A i \in 1 .. Len(cells) :
       /\ Adds(c, k, i) => onlineMap[k] = i
       /\ Subtracts(c, k, i) => onlineMap[k] = i /\ counted[c] = k
  /\ \A c \in Conns : Deletes(c, k) => CountedAs(k) = {}
  /\ ~(Arriving(k) /\ Leaving(k))

CountOK(k) ==
  /\ onlineMap[k] = None => CountedAs(k) = {}
  /\ onlineMap[k] # None =>
       /\ cells[onlineMap[k]] = Cardinality(CountedAs(k))
       /\ CountedAs(k) # {} \/ Arriving(k) \/ Leaving(k)

PresenceInv ==
  /\ TypeOK /\ NoSharing /\ NotYetCounted
  /\ \A k \in calm : StepsOK(k) /\ CountOK(k)

-----------------------------------------------------------------------------
(* Sets and cells                                                            *)

LEMMA CountedFinite ==
  ASSUME NEW k
  PROVE  IsFiniteSet(CountedAs(k)) /\ Cardinality(CountedAs(k)) \in Nat
<1>1. CountedAs(k) \subseteq Conns
  BY DEF CountedAs
<1> QED
  BY <1>1, PresenceAssumption, FS_Subset, FS_CardinalityType

LEMMA CellsTyped ==
  ASSUME TypeOK
  PROVE  Len(cells) \in Nat /\ \A i \in 1 .. Len(cells) : cells[i] \in Int
BY LenProperties, ElementOfSeq DEF TypeOK

LEMMA CellsUpdated ==
  ASSUME TypeOK, NEW i \in 1 .. Len(cells), NEW v \in Int, cells' = [cells EXCEPT ![i] = v]
  PROVE  /\ cells' \in Seq(Int) /\ Len(cells') = Len(cells)
         /\ \A j \in 1 .. Len(cells) : cells'[j] = IF j = i THEN v ELSE cells[j]
BY ExceptSeq DEF TypeOK

-----------------------------------------------------------------------------
(* Types                                                                     *)

LEMMA PresenceInit == Init => PresenceInv
<1> USE PresenceAssumption
<1> SUFFICES ASSUME Init PROVE PresenceInv
  OBVIOUS
<1>1. cells \in Seq(Int) /\ Len(cells) = 0
  BY DEF Init
<1>2. TypeOK
  BY <1>1 DEF Init, TypeOK
<1>3. NoSharing /\ NotYetCounted
  BY <1>1 DEF Init, NoSharing, NotYetCounted
<1>4. ASSUME NEW k \in calm PROVE StepsOK(k) /\ CountOK(k)
  BY <1>1 DEF Init, StepsOK, CountOK, CountedAs, Adds, Subtracts, Deletes, Arriving, Leaving
<1> QED
  BY <1>2, <1>3, <1>4 DEF PresenceInv

(* A step that touches neither the map nor a step of increment or decrement. *)
LEMMA Elsewhere ==
  ASSUME PresenceInv, TypeOK', NotYetCounted',
         UNCHANGED <<onlineMap, cells, counted, calm>>,
         \A c \in Conns :
           /\ poller'[c] = "add" <=> poller[c] = "add"
           /\ poller[c] = "add" => pollKey'[c] = pollKey[c] /\ ref'[c] = ref[c]
           /\ ws'[c] = "sub" <=> ws[c] = "sub"
           /\ ws'[c] = "delete" <=> ws[c] = "delete"
           /\ ws[c] \in {"sub", "delete"} => leaveKey'[c] = leaveKey[c] /\ leaveRef'[c] = leaveRef[c]
  PROVE  PresenceInv'
<1>1. \A c \in Conns : \A k : \A i :
        /\ Adds(c, k, i)' <=> Adds(c, k, i)
        /\ Subtracts(c, k, i)' <=> Subtracts(c, k, i)
        /\ Deletes(c, k)' <=> Deletes(c, k)
  BY DEF Adds, Subtracts, Deletes
<1>2. \A k : (Arriving(k)' <=> Arriving(k)) /\ (Leaving(k)' <=> Leaving(k))
  BY DEF Arriving, Leaving
<1>3. \A k : CountedAs(k)' = CountedAs(k)
  BY DEF CountedAs
<1>4. NoSharing'
  BY <1>1 DEF PresenceInv, NoSharing, Uses
<1>5. ASSUME NEW k \in calm PROVE StepsOK(k)' /\ CountOK(k)'
  BY <1>1, <1>2, <1>3 DEF PresenceInv, StepsOK, CountOK
<1> QED
  BY <1>4, <1>5 DEF PresenceInv

(* The types of the steps, one by one.                                       *)
LEMMA PresenceTypes == TypeOK /\ Next => TypeOK'
<1> USE PresenceAssumption
<1> SUFFICES ASSUME TypeOK, NEW c \in Conns,
                    \/ Connect(c) \/ Disconnect(c) \/ \E k \in Keys : Auth(c, k)
                    \/ PollerStep(c) \/ HookStep(c)
             PROVE  TypeOK'
  BY DEF Next
<1>0. Len(cells) \in Nat
  BY CellsTyped
<1>1. CASE Connect(c) \/ Disconnect(c) \/ \E k \in Keys : Auth(c, k)
  BY <1>1 DEF TypeOK, Connect, Disconnect, Auth
<1>2. CASE GiveUp(c) \/ Poll(c)
  BY <1>2 DEF TypeOK, GiveUp, Poll
<1>3. CASE LoadOrStore(c)
  <2> DEFINE k == pollKey[c]
             cell == IF onlineMap[k] = None THEN Len(cells) + 1 ELSE onlineMap[k]
  <2>1. k \in Keys
    BY <1>3 DEF TypeOK, LoadOrStore
  <2>2. /\ cells' \in Seq(Int) /\ Len(cells') >= Len(cells) /\ Len(cells') \in Nat
        /\ cell \in 1 .. Len(cells')
    <3>1. CASE onlineMap[k] = None
      <4>1. cells' = Append(cells, 0) /\ cells \in Seq(Int)
        BY <1>3, <3>1 DEF LoadOrStore, TypeOK
      <4> QED
        BY <1>0, <3>1, <4>1, AppendProperties
    <3>2. CASE onlineMap[k] # None
      <4>1. cells' = cells /\ cells \in Seq(Int)
        BY <1>3, <3>2 DEF LoadOrStore, TypeOK
      <4> QED
        BY <1>0, <2>1, <3>2, <4>1 DEF TypeOK
    <3> QED
      BY <3>1, <3>2
  <2>3. /\ onlineMap' = [onlineMap EXCEPT ![k] = cell]
        /\ ref' = [ref EXCEPT ![c] = cell]
        /\ poller' = [poller EXCEPT ![c] = "add"]
        /\ calm' \subseteq calm
        /\ UNCHANGED <<ws, authed, pollKey, leaveKey, leaveRef, counted>>
    BY <1>3 DEF LoadOrStore
  <2> HIDE DEF k, cell
  <2>4. 1 .. Len(cells) \subseteq 1 .. Len(cells') /\ cell # None
    BY <1>0, <2>2
  <2>5. /\ onlineMap' \in [Keys -> (1 .. Len(cells')) \cup {None}]
        /\ ref' \in [Conns -> (1 .. Len(cells')) \cup {None}]
        /\ leaveRef' \in [Conns -> (1 .. Len(cells')) \cup {None}]
    BY <2>1, <2>2, <2>3, <2>4 DEF TypeOK
  <2>6. /\ poller' \in [Conns -> {"none", "waiting", "store", "add", "done"}]
        /\ \A x \in Conns :
             /\ poller'[x] \in {"store", "add"} => pollKey'[x] \in Keys
             /\ poller'[x] = "add" => ref'[x] # None
    <3>1. pollKey[c] \in Keys
      BY <2>1 DEF k
    <3> QED
      BY <2>3, <2>4, <3>1 DEF TypeOK
  <2> QED
    BY <2>2, <2>3, <2>5, <2>6 DEF TypeOK
<1>4. CASE AddOne(c)
  <2>1. ref[c] \in 1 .. Len(cells) /\ pollKey[c] \in Keys
    BY <1>4 DEF TypeOK, AddOne
  <2>2. cells[ref[c]] + 1 \in Int
    BY <2>1, CellsTyped
  <2>3. cells' \in Seq(Int) /\ Len(cells') = Len(cells)
    BY <1>4, <2>1, <2>2, CellsUpdated DEF AddOne
  <2> QED
    BY <1>4, <2>1, <2>3 DEF TypeOK, AddOne
<1>5. CASE LoadNone(c) \/ Delete(c)
  BY <1>5 DEF TypeOK, LoadNone, Delete
<1>6. CASE Load(c)
  BY <1>6 DEF TypeOK, Load
<1>7. CASE SubOne(c)
  <2> DEFINE left == cells[leaveRef[c]] - 1
  <2>1. leaveRef[c] \in 1 .. Len(cells)
    BY <1>7 DEF TypeOK, SubOne
  <2>2. left \in Int
    BY <2>1, CellsTyped
  <2>3. cells' \in Seq(Int) /\ Len(cells') = Len(cells)
    BY <1>7, <2>1, <2>2, CellsUpdated DEF SubOne
  <2>4. /\ UNCHANGED <<onlineMap, authed, poller, pollKey, ref, leaveKey, leaveRef, calm>>
        /\ counted' \in [Conns -> Keys \cup {None}]
        /\ ws' \in [Conns -> {"new", "open", "load", "sub", "delete", "gone"}]
        /\ \A x \in Conns : x # c => ws'[x] = ws[x]
        /\ leaveKey[c] \in Keys /\ ws'[c] # "sub"
    BY <1>7 DEF TypeOK, SubOne
  <2> QED
    BY <2>3, <2>4 DEF TypeOK
<1> QED
  BY <1>1, <1>2, <1>3, <1>4, <1>5, <1>6, <1>7 DEF PollerStep, HookStep

-----------------------------------------------------------------------------
(* The steps of increment                                                    *)

LEMMA LoadOrStoreStep ==
  ASSUME PresenceInv, TypeOK', NEW c \in Conns, LoadOrStore(c),
         NEW k \in Keys, pollKey[c] = k,
         NEW cell, cell = IF onlineMap[k] = None THEN Len(cells) + 1 ELSE onlineMap[k]
  PROVE  PresenceInv'
<1> USE PresenceAssumption
<1>1. /\ poller[c] = "store"
      /\ cells' = IF onlineMap[k] = None THEN Append(cells, 0) ELSE cells
      /\ onlineMap' = [onlineMap EXCEPT ![k] = cell]
      /\ ref' = [ref EXCEPT ![c] = cell]
      /\ poller' = [poller EXCEPT ![c] = "add"]
      /\ calm' = IF Leaving(k) THEN calm \ {k} ELSE calm
      /\ UNCHANGED <<ws, pollKey, leaveKey, leaveRef, counted>>
  BY DEF LoadOrStore
<1>2. /\ onlineMap \in [Keys -> (1 .. Len(cells)) \cup {None}]
      /\ poller \in [Conns -> {"none", "waiting", "store", "add", "done"}]
      /\ ref \in [Conns -> (1 .. Len(cells)) \cup {None}]
      /\ leaveRef \in [Conns -> (1 .. Len(cells)) \cup {None}]
      /\ Len(cells) \in Nat /\ cells \in Seq(Int)
      /\ \A x \in Conns : poller[x] = "add" => ref[x] # None
      /\ \A x \in Conns : ws[x] = "sub" => leaveRef[x] # None
  BY CellsTyped DEF PresenceInv, TypeOK
<1>3. /\ \A j \in Keys : onlineMap'[j] = IF j = k THEN cell ELSE onlineMap[j]
      /\ \A x \in Conns : ref'[x] = IF x = c THEN cell ELSE ref[x]
      /\ \A x \in Conns : poller'[x] = IF x = c THEN "add" ELSE poller[x]
  BY <1>1, <1>2
<1>4. /\ Len(cells') \in Nat /\ Len(cells) <= Len(cells') /\ cell \in 1 .. Len(cells')
      /\ \A i \in 1 .. Len(cells) : cells'[i] = cells[i]
      /\ onlineMap[k] = None => cell = Len(cells) + 1 /\ cells'[cell] = 0
      /\ onlineMap[k] # None => cell = onlineMap[k] /\ Len(cells') = Len(cells)
      /\ cell # None
  BY <1>1, <1>2, AppendProperties
<1>5. \A x \in Conns : \A j \in Keys : \A i :
        /\ Adds(x, j, i)' <=> IF x = c THEN j = k /\ i = cell ELSE Adds(x, j, i)
        /\ Subtracts(x, j, i)' <=> Subtracts(x, j, i)
        /\ Deletes(x, j)' <=> Deletes(x, j)
  BY <1>1, <1>3 DEF Adds, Subtracts, Deletes
<1>6. \A x \in Conns : \A j \in Keys : \A i :
        Adds(x, j, i) \/ Subtracts(x, j, i) => i \in 1 .. Len(cells)
  BY <1>2 DEF Adds, Subtracts
<1>7. \A j \in Keys : \A i \in 1 .. Len(cells') :
        Uses(j, i)' => Uses(j, i) \/ (j = k /\ i = cell)
  BY <1>3, <1>5 DEF Uses
<1>8. \A j \in Keys : \A i \in 1 .. Len(cells') : Uses(j, i) => i \in 1 .. Len(cells)
  BY <1>2, <1>6 DEF Uses
<1>9. NoSharing'
  <2> SUFFICES ASSUME NEW j \in Keys, NEW h \in Keys, NEW i \in 1 .. Len(cells'),
                      Uses(j, i)', Uses(h, i)'
               PROVE  j = h
    BY DEF NoSharing
  <2>1. CASE i = cell /\ onlineMap[k] = None
    <3>1. i \notin 1 .. Len(cells)
      BY <1>2, <1>4, <2>1
    <3> QED
      BY <1>7, <1>8, <3>1
  <2>2. CASE i = cell /\ onlineMap[k] # None
    <3>1. Uses(k, i) /\ i \in 1 .. Len(cells)
      BY <1>4, <2>2 DEF Uses
    <3> QED
      BY <1>1, <1>7, <3>1 DEF PresenceInv, NoSharing
  <2>3. CASE i # cell
    BY <1>7, <1>8, <2>3 DEF PresenceInv, NoSharing
  <2> QED
    BY <2>1, <2>2, <2>3
<1>10. NotYetCounted'
  BY <1>1, <1>3 DEF PresenceInv, NotYetCounted
<1>11. \A j \in Keys : CountedAs(j)' = CountedAs(j)
  BY <1>1 DEF CountedAs
<1>12. \A j \in Keys : /\ Leaving(j)' <=> Leaving(j)
                       /\ Arriving(j)' <=> (Arriving(j) \/ j = k)
  BY <1>1, <1>3 DEF Arriving, Leaving
<1>13. ASSUME NEW j \in calm' PROVE StepsOK(j)' /\ CountOK(j)'
  <2>1. j \in calm /\ j \in Keys /\ StepsOK(j) /\ CountOK(j)
    BY <1>1 DEF PresenceInv, TypeOK
  <2>2. CASE j # k
    <3>1. /\ onlineMap'[j] = onlineMap[j]
          /\ onlineMap[j] # None => cells'[onlineMap[j]] = cells[onlineMap[j]]
      BY <1>2, <1>3, <1>4, <2>1, <2>2
    <3>2. CountOK(j)'
      BY <1>11, <1>12, <2>1, <2>2, <3>1 DEF CountOK
    <3>3. StepsOK(j)'
      <4>1. \A x \in Conns : \A i :
              (Adds(x, j, i)' <=> Adds(x, j, i)) \/ (x = c /\ ~Adds(x, j, i)')
        BY <1>5, <2>1, <2>2
      <4> QED
        BY <1>1, <1>5, <1>6, <1>11, <1>12, <2>1, <2>2, <3>1, <4>1 DEF StepsOK
    <3> QED
      BY <3>2, <3>3
  <2>3. CASE j = k
    <3>1. ~Leaving(k)
      BY <1>1, <2>3
    <3>2. /\ \A x \in Conns : ~Deletes(x, k) /\ \A i : ~Subtracts(x, k, i)
          /\ \A x \in Conns : \A i : Adds(x, k, i) => onlineMap[k] = i /\ i \in 1 .. Len(cells)
      BY <1>6, <2>1, <2>3, <3>1 DEF Leaving, Subtracts, Deletes, StepsOK
    <3>3. \A x \in Conns : \A i : Adds(x, k, i)' => onlineMap'[k] = i
      <4>1. onlineMap'[k] = cell
        BY <1>1, <1>3
      <4>2. \A i : i \in 1 .. Len(cells) => i # None
        BY <1>2
      <4> QED
        BY <1>1, <1>4, <1>5, <3>2, <4>1, <4>2
    <3>4. StepsOK(k)'
      <4>1. \A x \in Conns : ~Deletes(x, k)' /\ \A i : ~Subtracts(x, k, i)'
        BY <1>1, <1>5, <3>2
      <4>2. ~Leaving(k)'
        BY <1>1, <1>12, <3>1
      <4>3. \A x \in Conns : \A i \in 1 .. Len(cells') :
              /\ Adds(x, k, i)' => onlineMap'[k] = i
              /\ ~Subtracts(x, k, i)' /\ ~Deletes(x, k)'
        BY <3>3, <4>1
      <4>4. /\ (\A x \in Conns : \A i \in 1 .. Len(cells) :
                  /\ Adds(x, k, i) => onlineMap[k] = i
                  /\ Subtracts(x, k, i) => onlineMap[k] = i /\ counted[x] = k)'
            /\ (\A x \in Conns : Deletes(x, k) => CountedAs(k) = {})'
            /\ (~(Arriving(k) /\ Leaving(k)))'
        BY <4>1, <4>2, <4>3
      <4> QED
        BY <4>4 DEF StepsOK
    <3>5. CountOK(j)'
      <4>1. onlineMap'[j] = cell /\ cell # None /\ Arriving(j)'
        BY <1>1, <1>3, <1>4, <1>12, <2>1, <2>3
      <4>2. cells'[cell] = Cardinality(CountedAs(j))
        <5>1. CASE onlineMap[k] = None
          BY <1>4, <2>1, <2>3, <5>1, FS_EmptySet DEF CountOK
        <5>2. CASE onlineMap[k] # None
          BY <1>2, <1>4, <2>1, <2>3, <5>2 DEF CountOK
        <5> QED
          BY <5>1, <5>2
      <4> QED
        BY <1>11, <2>1, <4>1, <4>2 DEF CountOK
    <3> QED
      BY <2>3, <3>4, <3>5
  <2> QED
    BY <2>2, <2>3
<1> QED
  BY <1>9, <1>10, <1>13 DEF PresenceInv

LEMMA AddOneStep ==
  ASSUME PresenceInv, TypeOK', NEW c \in Conns, AddOne(c),
         NEW k, pollKey[c] = k, NEW i, ref[c] = i
  PROVE  PresenceInv'
<1> USE PresenceAssumption
<1>1. /\ poller[c] = "add"
      /\ cells' = [cells EXCEPT ![i] = cells[i] + 1]
      /\ counted' = [counted EXCEPT ![c] = k]
      /\ poller' = [poller EXCEPT ![c] = "done"]
      /\ UNCHANGED <<onlineMap, ws, pollKey, ref, leaveKey, leaveRef, calm>>
  BY DEF AddOne
<1>2. /\ k \in Keys /\ k # None /\ i \in 1 .. Len(cells) /\ cells[i] \in Int
      /\ onlineMap \in [Keys -> (1 .. Len(cells)) \cup {None}]
      /\ counted \in [Conns -> Keys \cup {None}]
      /\ poller \in [Conns -> {"none", "waiting", "store", "add", "done"}]
  BY <1>1, CellsTyped DEF PresenceInv, TypeOK
<1>3. /\ Len(cells') = Len(cells)
      /\ \A h \in 1 .. Len(cells) : cells'[h] = IF h = i THEN cells[i] + 1 ELSE cells[h]
  BY <1>1, <1>2, CellsUpdated DEF PresenceInv
<1>4. /\ \A x \in Conns : counted'[x] = IF x = c THEN k ELSE counted[x]
      /\ \A x \in Conns : poller'[x] = IF x = c THEN "done" ELSE poller[x]
      /\ counted[c] = None
  BY <1>1, <1>2 DEF PresenceInv, NotYetCounted
<1>5. \A x \in Conns : \A j, h :
        /\ Adds(x, j, h)' <=> x # c /\ Adds(x, j, h)
        /\ Subtracts(x, j, h)' <=> Subtracts(x, j, h)
        /\ Deletes(x, j)' <=> Deletes(x, j)
  BY <1>1, <1>4 DEF Adds, Subtracts, Deletes
<1>6. Adds(c, k, i) /\ Uses(k, i) /\ Arriving(k)
  BY <1>1 DEF Adds, Uses, Arriving
<1>7. NoSharing'
  BY <1>1, <1>3, <1>5 DEF PresenceInv, NoSharing, Uses
<1>8. NotYetCounted'
  BY <1>1, <1>4 DEF PresenceInv, NotYetCounted
<1>9. /\ CountedAs(k)' = CountedAs(k) \cup {c} /\ c \notin CountedAs(k)
      /\ \A j \in Keys : j # k => CountedAs(j)' = CountedAs(j)
  BY <1>2, <1>4 DEF CountedAs
<1>10. \A j \in Keys :
         /\ Leaving(j)' <=> Leaving(j)
         /\ Arriving(j)' => Arriving(j)
         /\ j # k => (Arriving(j)' <=> Arriving(j))
  BY <1>1, <1>4 DEF Arriving, Leaving
<1>11. ASSUME NEW j \in calm PROVE StepsOK(j)' /\ CountOK(j)'
  <2>1. j \in Keys /\ StepsOK(j) /\ CountOK(j)
    BY DEF PresenceInv, TypeOK
  <2>2. CASE j # k
    <3>1. onlineMap[j] # i
      BY <1>2, <1>6, <2>1, <2>2 DEF PresenceInv, NoSharing, Uses
    <3>2. onlineMap[j] # None => cells'[onlineMap[j]] = cells[onlineMap[j]]
      BY <1>2, <1>3, <2>1, <3>1
    <3>3. CountOK(j)'
      <4>1. /\ onlineMap'[j] = onlineMap[j] /\ CountedAs(j)' = CountedAs(j)
            /\ (Arriving(j)' <=> Arriving(j)) /\ (Leaving(j)' <=> Leaving(j))
        BY <1>1, <1>9, <1>10, <2>1, <2>2
      <4> QED
        BY <2>1, <3>2, <4>1 DEF CountOK
    <3>4. \A x \in Conns : counted[x] = j => counted'[x] = j
      BY <1>2, <1>4, <2>1
    <3>5. StepsOK(j)'
      <4>1. /\ onlineMap'[j] = onlineMap[j] /\ CountedAs(j)' = CountedAs(j)
            /\ (Arriving(j)' <=> Arriving(j)) /\ (Leaving(j)' <=> Leaving(j))
            /\ Len(cells') = Len(cells)
        BY <1>1, <1>3, <1>9, <1>10, <2>1, <2>2
      <4> QED
        BY <1>5, <2>1, <2>2, <3>4, <4>1 DEF StepsOK
    <3> QED
      BY <3>3, <3>5
  <2>3. CASE j = k
    <3>1. onlineMap[k] = i /\ ~Leaving(k)
      BY <1>2, <1>6, <2>1, <2>3 DEF StepsOK
    <3>2. \A x \in Conns : ~Deletes(x, k) /\ \A h : ~Subtracts(x, k, h)
      BY <3>1 DEF Leaving, Subtracts, Deletes
    <3>3. StepsOK(k)'
      BY <1>1, <1>3, <1>5, <1>10, <2>1, <2>3, <3>1, <3>2 DEF StepsOK
    <3>4. Cardinality(CountedAs(k)') = Cardinality(CountedAs(k)) + 1
      BY <1>9, CountedFinite, FS_AddElement
    <3>5. cells'[i] = Cardinality(CountedAs(k)')
      BY <1>2, <1>3, <2>1, <2>3, <3>1, <3>4 DEF CountOK
    <3>6. CountOK(k)'
      BY <1>1, <1>2, <1>9, <3>1, <3>5 DEF CountOK
    <3> QED
      BY <2>3, <3>3, <3>6
  <2> QED
    BY <2>2, <2>3
<1> QED
  BY <1>1, <1>7, <1>8, <1>11 DEF PresenceInv

-----------------------------------------------------------------------------
(* The steps of decrement                                                    *)

LEMMA LoadStep ==
  ASSUME PresenceInv, TypeOK', NEW c \in Conns, Load(c),
         NEW k, leaveKey[c] = k
  PROVE  PresenceInv'
<1> USE PresenceAssumption
<1>1. /\ ws[c] = "load" /\ onlineMap[k] # None
      /\ leaveRef' = [leaveRef EXCEPT ![c] = onlineMap[k]]
      /\ ws' = [ws EXCEPT ![c] = "sub"]
      /\ calm' = IF Arriving(k) \/ counted[c] # k THEN calm \ {k} ELSE calm
      /\ UNCHANGED <<onlineMap, cells, poller, pollKey, ref, leaveKey, counted>>
  BY DEF Load
<1>2. /\ k \in Keys
      /\ \A x \in Conns : leaveRef'[x] = IF x = c THEN onlineMap[k] ELSE leaveRef[x]
      /\ \A x \in Conns : ws'[x] = IF x = c THEN "sub" ELSE ws[x]
  BY <1>1 DEF PresenceInv, TypeOK
<1>3. \A x \in Conns : \A j, h :
        /\ Adds(x, j, h)' <=> Adds(x, j, h)
        /\ Subtracts(x, j, h)' <=>
             IF x = c THEN j = k /\ h = onlineMap[k] ELSE Subtracts(x, j, h)
        /\ Deletes(x, j)' <=> Deletes(x, j)
  BY <1>1, <1>2 DEF Adds, Subtracts, Deletes
<1>4. NoSharing'
  <2>1. \A j, h : Uses(j, h)' => Uses(j, h)
    BY <1>1, <1>3 DEF Uses
  <2> QED
    BY <1>1, <2>1 DEF PresenceInv, NoSharing
<1>5. NotYetCounted'
  BY <1>1 DEF PresenceInv, NotYetCounted
<1>6. \A j : CountedAs(j)' = CountedAs(j) /\ (Arriving(j)' <=> Arriving(j))
  BY <1>1 DEF CountedAs, Arriving
<1>7. \A j \in Keys : Leaving(j)' <=> (Leaving(j) \/ j = k)
  BY <1>1, <1>2 DEF Leaving
<1>8. ASSUME NEW j \in calm' PROVE StepsOK(j)' /\ CountOK(j)'
  <2>1. j \in Keys /\ StepsOK(j) /\ CountOK(j)
    BY <1>1 DEF PresenceInv, TypeOK
  <2>2. j = k => ~Arriving(j) /\ counted[c] = k
    BY <1>1
  <2>3. StepsOK(j)'
    BY <1>1, <1>3, <1>6, <1>7, <2>1, <2>2 DEF StepsOK
  <2>4. CountOK(j)'
    BY <1>1, <1>6, <1>7, <2>1 DEF CountOK
  <2> QED
    BY <2>3, <2>4
<1> QED
  BY <1>4, <1>5, <1>8 DEF PresenceInv

LEMMA SubOneStep ==
  ASSUME PresenceInv, TypeOK', NEW c \in Conns, SubOne(c),
         NEW k, leaveKey[c] = k, NEW i, leaveRef[c] = i
  PROVE  PresenceInv'
<1> USE PresenceAssumption
<1>1. /\ ws[c] = "sub"
      /\ cells' = [cells EXCEPT ![i] = cells[i] - 1]
      /\ counted' = IF counted[c] = k THEN [counted EXCEPT ![c] = None] ELSE counted
      /\ ws' = [ws EXCEPT ![c] = IF cells[i] - 1 <= 0 THEN "delete" ELSE "gone"]
      /\ UNCHANGED <<onlineMap, poller, pollKey, ref, leaveKey, leaveRef, calm>>
  BY DEF SubOne
<1>2. /\ k \in Keys /\ k # None /\ i \in 1 .. Len(cells) /\ cells[i] \in Int
      /\ onlineMap \in [Keys -> (1 .. Len(cells)) \cup {None}]
      /\ counted \in [Conns -> Keys \cup {None}]
      /\ ws \in [Conns -> {"new", "open", "load", "sub", "delete", "gone"}]
  BY <1>1, CellsTyped DEF PresenceInv, TypeOK
<1>3. /\ Len(cells') = Len(cells)
      /\ \A h \in 1 .. Len(cells) : cells'[h] = IF h = i THEN cells[i] - 1 ELSE cells[h]
  BY <1>1, <1>2, CellsUpdated DEF PresenceInv
<1>4. /\ \A x \in Conns :
           counted'[x] = IF x = c /\ counted[x] = k THEN None ELSE counted[x]
      /\ \A x \in Conns :
           ws'[x] = IF x = c THEN IF cells[i] - 1 <= 0 THEN "delete" ELSE "gone" ELSE ws[x]
  BY <1>1, <1>2
<1>5. \A x \in Conns : \A j, h :
        /\ Adds(x, j, h)' <=> Adds(x, j, h)
        /\ Subtracts(x, j, h)' <=> x # c /\ Subtracts(x, j, h)
        /\ Deletes(x, j)' <=>
             IF x = c THEN j = k /\ cells[i] - 1 <= 0 ELSE Deletes(x, j)
  BY <1>1, <1>4 DEF Adds, Subtracts, Deletes
<1>6. Subtracts(c, k, i) /\ Uses(k, i) /\ Leaving(k)
  BY <1>1 DEF Subtracts, Uses, Leaving
<1>7. NoSharing'
  BY <1>1, <1>3, <1>5 DEF PresenceInv, NoSharing, Uses
<1>8. NotYetCounted'
  BY <1>1, <1>4 DEF PresenceInv, NotYetCounted
<1>9. /\ CountedAs(k)' = CountedAs(k) \ {c}
      /\ \A j \in Keys : j # k => CountedAs(j)' = CountedAs(j)
  BY <1>2, <1>4 DEF CountedAs
<1>10. \A j \in Keys :
         /\ Arriving(j)' <=> Arriving(j)
         /\ j # k => (Leaving(j)' <=> Leaving(j))
  BY <1>1, <1>4 DEF Arriving, Leaving
<1>11. ASSUME NEW j \in calm PROVE StepsOK(j)' /\ CountOK(j)'
  <2>1. j \in Keys /\ StepsOK(j) /\ CountOK(j)
    BY DEF PresenceInv, TypeOK
  <2>2. CASE j # k
    <3>1. onlineMap[j] # i
      BY <1>2, <1>6, <2>1, <2>2 DEF PresenceInv, NoSharing, Uses
    <3>2. onlineMap[j] # None => cells'[onlineMap[j]] = cells[onlineMap[j]]
      BY <1>2, <1>3, <2>1, <3>1
    <3>3. CountOK(j)'
      <4>1. /\ onlineMap'[j] = onlineMap[j] /\ CountedAs(j)' = CountedAs(j)
            /\ (Arriving(j)' <=> Arriving(j)) /\ (Leaving(j)' <=> Leaving(j))
        BY <1>1, <1>9, <1>10, <2>1, <2>2
      <4> QED
        BY <2>1, <3>2, <4>1 DEF CountOK
    <3>4. \A x \in Conns : counted[x] = j => counted'[x] = j
      BY <1>4, <2>2
    <3>5. StepsOK(j)'
      <4>1. /\ onlineMap'[j] = onlineMap[j] /\ CountedAs(j)' = CountedAs(j)
            /\ (Arriving(j)' <=> Arriving(j)) /\ (Leaving(j)' <=> Leaving(j))
            /\ Len(cells') = Len(cells)
        BY <1>1, <1>3, <1>9, <1>10, <2>1, <2>2
      <4> QED
        BY <1>5, <2>1, <2>2, <3>4, <4>1 DEF StepsOK
    <3> QED
      BY <3>3, <3>5
  <2>3. CASE j = k
    <3>1. onlineMap[k] = i /\ counted[c] = k /\ ~Arriving(k)
      BY <1>2, <1>6, <2>1, <2>3 DEF StepsOK
    <3>2. c \in CountedAs(k)
      BY <3>1 DEF CountedAs
    <3>3. \A x \in Conns : ~Deletes(x, k) /\ \A h : ~Adds(x, k, h)
      BY <2>1, <2>3, <3>1, <3>2 DEF StepsOK, Adds, Arriving
    <3>4. /\ Cardinality(CountedAs(k)') = Cardinality(CountedAs(k)) - 1
          /\ IsFiniteSet(CountedAs(k)')
      BY <1>9, <3>2, CountedFinite, FS_RemoveElement
    <3>5. cells[i] - 1 = Cardinality(CountedAs(k)')
      BY <1>2, <2>1, <2>3, <3>1, <3>4 DEF CountOK
    <3>6. cells[i] - 1 <= 0 <=> CountedAs(k)' = {}
      BY <3>4, <3>5, FS_EmptySet, FS_CardinalityType
    <3>7. \A x \in Conns : x # c => (counted[x] = k => counted'[x] = k)
      BY <1>4
    <3>8. ~(Arriving(k)')
      BY <1>2, <1>10, <3>1
    <3>9. StepsOK(k)'
      BY <1>1, <1>3, <1>5, <2>1, <2>3, <3>3, <3>6, <3>7, <3>8 DEF StepsOK
    <3>10. CountedAs(k)' = {} => Leaving(k)'
      BY <1>1, <1>4, <3>6 DEF Leaving
    <3>11. CountOK(k)'
      BY <1>1, <1>2, <1>3, <3>1, <3>5, <3>10 DEF CountOK
    <3> QED
      BY <2>3, <3>9, <3>11
  <2> QED
    BY <2>2, <2>3
<1> QED
  BY <1>1, <1>7, <1>8, <1>11 DEF PresenceInv

LEMMA DeleteStep ==
  ASSUME PresenceInv, TypeOK', NEW c \in Conns, Delete(c),
         NEW k, leaveKey[c] = k
  PROVE  PresenceInv'
<1> USE PresenceAssumption
<1>1. /\ ws[c] = "delete"
      /\ onlineMap' = [onlineMap EXCEPT ![k] = None]
      /\ ws' = [ws EXCEPT ![c] = "gone"]
      /\ UNCHANGED <<cells, poller, pollKey, ref, leaveKey, leaveRef, counted, calm>>
  BY DEF Delete
<1>2. /\ k \in Keys /\ \A i \in 1 .. Len(cells) : i # None
      /\ \A j \in Keys : onlineMap'[j] = IF j = k THEN None ELSE onlineMap[j]
      /\ \A x \in Conns : ws'[x] = IF x = c THEN "gone" ELSE ws[x]
  BY <1>1, CellsTyped DEF PresenceInv, TypeOK
<1>3. \A x \in Conns : \A j, h :
        /\ Adds(x, j, h)' <=> Adds(x, j, h)
        /\ Subtracts(x, j, h)' <=> Subtracts(x, j, h)
        /\ Deletes(x, j)' <=> x # c /\ Deletes(x, j)
  BY <1>1, <1>2 DEF Adds, Subtracts, Deletes
<1>4. NoSharing'
  <2>1. \A j \in Keys : \A h \in 1 .. Len(cells) : Uses(j, h)' => Uses(j, h)
    BY <1>2, <1>3 DEF Uses
  <2> QED
    BY <1>1, <2>1 DEF PresenceInv, NoSharing
<1>5. NotYetCounted'
  BY <1>1 DEF PresenceInv, NotYetCounted
<1>6. /\ \A j : CountedAs(j)' = CountedAs(j) /\ (Arriving(j)' <=> Arriving(j))
      /\ \A j : Leaving(j)' => Leaving(j)
      /\ \A j : j # k => (Leaving(j)' <=> Leaving(j))
  BY <1>1, <1>2 DEF CountedAs, Arriving, Leaving
<1>7. Deletes(c, k) /\ Leaving(k)
  BY <1>1 DEF Deletes, Leaving
<1>8. ASSUME NEW j \in calm PROVE StepsOK(j)' /\ CountOK(j)'
  <2>1. j \in Keys /\ StepsOK(j) /\ CountOK(j)
    BY DEF PresenceInv, TypeOK
  <2>2. CASE j # k
    <3>1. onlineMap'[j] = onlineMap[j]
      BY <1>2, <2>1, <2>2
    <3>2. CountOK(j)'
      BY <1>1, <1>6, <2>1, <2>2, <3>1 DEF CountOK
    <3>3. StepsOK(j)'
      BY <1>1, <1>3, <1>6, <2>1, <3>1 DEF StepsOK
    <3> QED
      BY <3>2, <3>3
  <2>3. CASE j = k
    <3>1. CountedAs(k) = {} /\ ~Arriving(k)
      BY <1>7, <2>1, <2>3 DEF StepsOK
    <3>2. \A x \in Conns : \A h \in 1 .. Len(cells) : ~Adds(x, k, h) /\ ~Subtracts(x, k, h)
      BY <2>1, <2>3, <3>1 DEF StepsOK, Adds, Arriving, CountedAs
    <3>3. StepsOK(k)'
      BY <1>1, <1>3, <1>6, <3>1, <3>2 DEF StepsOK
    <3>4. CountOK(k)'
      BY <1>2, <1>6, <3>1 DEF CountOK
    <3> QED
      BY <2>3, <3>3, <3>4
  <2> QED
    BY <2>2, <2>3
<1> QED
  BY <1>1, <1>4, <1>5, <1>8 DEF PresenceInv

-----------------------------------------------------------------------------

LEMMA PresenceStep == PresenceInv /\ [Next]_vars => PresenceInv'
<1> USE PresenceAssumption
<1>1. ASSUME PresenceInv, UNCHANGED vars PROVE PresenceInv'
  <2>1. TypeOK' /\ NotYetCounted'
    BY <1>1 DEF PresenceInv, vars, connVars, TypeOK, NotYetCounted
  <2> QED
    BY <1>1, <2>1, Elsewhere DEF vars, connVars
<1> SUFFICES ASSUME PresenceInv, Next PROVE PresenceInv'
  BY <1>1
<1>2. TypeOK /\ TypeOK'
  BY PresenceTypes DEF PresenceInv
<1>3. PICK c \in Conns : \/ Connect(c) \/ Disconnect(c) \/ \E k \in Keys : Auth(c, k)
                         \/ PollerStep(c) \/ HookStep(c)
  BY DEF Next
<1>4. CASE Connect(c)
  <2>1. poller[c] = "none"
    BY <1>4 DEF PresenceInv, NotYetCounted, Connect
  <2>2. /\ \A x \in Conns : poller'[x] = IF x = c THEN "waiting" ELSE poller[x]
        /\ \A x \in Conns : ws'[x] = IF x = c THEN "open" ELSE ws[x]
        /\ ws[c] = "new"
        /\ UNCHANGED <<onlineMap, cells, pollKey, ref, leaveKey, leaveRef, counted, calm>>
    BY <1>2, <1>4 DEF TypeOK, Connect
  <2>3. NotYetCounted'
    BY <2>1, <2>2 DEF PresenceInv, NotYetCounted
  <2> QED
    BY <1>2, <2>1, <2>2, <2>3, Elsewhere
<1>5. CASE Disconnect(c) \/ (\E k \in Keys : Auth(c, k)) \/ LoadNone(c)
  <2>1. /\ UNCHANGED <<onlineMap, cells, poller, pollKey, ref, leaveRef, counted, calm>>
        /\ \A x \in Conns : x # c => ws'[x] = ws[x] /\ leaveKey'[x] = leaveKey[x]
        /\ ws[c] \in {"open", "load"} /\ ws'[c] \in {"open", "load", "gone"}
    BY <1>2, <1>5 DEF TypeOK, Disconnect, Auth, LoadNone
  <2>2. NotYetCounted'
    BY <2>1 DEF PresenceInv, NotYetCounted
  <2>3. \A x \in Conns :
          /\ ws'[x] = "sub" <=> ws[x] = "sub"
          /\ ws'[x] = "delete" <=> ws[x] = "delete"
          /\ ws[x] \in {"sub", "delete"} => leaveKey'[x] = leaveKey[x]
    BY <2>1
  <2> QED
    BY <1>2, <2>1, <2>2, <2>3, Elsewhere
<1>9. CASE GiveUp(c) \/ Poll(c)
  <2>1. /\ UNCHANGED <<onlineMap, cells, ws, ref, leaveKey, leaveRef, counted, calm>>
        /\ \A x \in Conns : x # c => poller'[x] = poller[x] /\ pollKey'[x] = pollKey[x]
        /\ poller[c] = "waiting" /\ poller'[c] \in {"store", "done"}
    BY <1>2, <1>9 DEF TypeOK, GiveUp, Poll
  <2>2. NotYetCounted'
    BY <2>1 DEF PresenceInv, NotYetCounted
  <2>3. \A x \in Conns :
          /\ poller'[x] = "add" <=> poller[x] = "add"
          /\ poller[x] = "add" => pollKey'[x] = pollKey[x]
    BY <2>1
  <2> QED
    BY <1>2, <2>1, <2>2, <2>3, Elsewhere
<1>6. CASE LoadOrStore(c)
  <2>1. pollKey[c] \in Keys
    BY <1>2, <1>6 DEF TypeOK, LoadOrStore
  <2>2. PICK k \in Keys : k = pollKey[c]
    BY <2>1
  <2>3. PICK cell : cell = IF onlineMap[k] = None THEN Len(cells) + 1 ELSE onlineMap[k]
    OBVIOUS
  <2> QED
    BY <1>2, <1>6, <2>2, <2>3, LoadOrStoreStep
<1>7. CASE AddOne(c)
  <2>1. PICK k, i : k = pollKey[c] /\ i = ref[c]
    OBVIOUS
  <2> QED
    BY <1>2, <1>7, <2>1, AddOneStep
<1>8. CASE Load(c) \/ SubOne(c) \/ Delete(c)
  <2>1. PICK k, i : k = leaveKey[c] /\ i = leaveRef[c]
    OBVIOUS
  <2> QED
    BY <1>2, <1>8, <2>1, LoadStep, SubOneStep, DeleteStep
<1> QED
  BY <1>3, <1>4, <1>5, <1>6, <1>7, <1>8, <1>9 DEF PollerStep, HookStep

(* Every variable keeps its type, and each pending step of increment and     *)
(* decrement has the key and the cell it is about (presence.go:16-34).       *)
THEOREM PresenceTypeCorrect == Spec => []TypeOK
<1>1. PresenceInv => TypeOK
  BY DEF PresenceInv
<1> QED
  BY <1>1, PresenceInit, PresenceStep, PTL DEF Spec

(* While the arrivals and departures of a key do not overlap, OnlineCount is *)
(* the number of its counted connections, and IsOnline says whether there    *)
(* are any or a step is in progress, however many connections count or are   *)
(* taken off at the same time (presence.go:16-48).                           *)
THEOREM CountCorrect == Spec => []CountExact
<1>1. PresenceInv => CountExact
  <2> SUFFICES ASSUME PresenceInv, NEW k \in calm
               PROVE  /\ OnlineCount(k) = Cardinality(CountedAs(k))
                      /\ IsOnline(k) => CountedAs(k) # {} \/ Arriving(k) \/ Leaving(k)
    BY DEF CountExact
  <2>1. CountOK(k)
    BY DEF PresenceInv
  <2> QED
    BY <2>1, FS_EmptySet DEF CountOK, OnlineCount, IsOnline
<1> QED
  BY <1>1, PresenceInit, PresenceStep, PTL DEF Spec

=============================================================================
