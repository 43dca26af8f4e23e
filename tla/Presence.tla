------------------------------ MODULE Presence ------------------------------
(***************************************************************************)
(* Presence tracking (internal/subscription/presence.go): onlineMap maps a *)
(* pubkey to a counter cell.  Every websocket connection runs a goroutine  *)
(* that polls for the end of NIP-42 AUTH and then counts the connection,   *)
(* and a disconnect hook that uncounts it.  Each sync.Map call and each    *)
(* atomic add is one step; nothing makes several of them atomic.           *)
(*                                                                         *)
(* khatru is external: it connects, authenticates (again, when the client  *)
(* sends another AUTH) and disconnects, and calls each hook once.          *)
(***************************************************************************)
EXTENDS Integers, Sequences, FiniteSets

CONSTANTS
  Conns,   \* websocket connections, each used once
  Keys,    \* pubkeys
  None     \* no key, or no cell

ASSUME PresenceAssumption ==
  /\ None \notin Keys /\ None \notin Nat
  /\ IsFiniteSet(Conns)

VARIABLES
  onlineMap,  \* pubkey -> index of its cell, or None
  cells,      \* the counters ever allocated
  ws,         \* a connection: new, open, then the steps of its disconnect
  authed,     \* ws.AuthedPublicKey
  poller,     \* where the polling goroutine of a connection stands
  pollKey,    \* the key it read
  ref,        \* the cell the poller's LoadOrStore returned
  leaveKey,   \* the key the disconnect hook read
  leaveRef,   \* the cell its Load returned
  counted,    \* history: the key a connection is counted under, or None
  calm        \* history: keys whose arrivals and departures never overlapped,
              \* and that no uncounted connection was taken off from

connVars == <<ws, authed, poller, pollKey, ref, leaveKey, leaveRef>>
vars == <<onlineMap, cells, connVars, counted, calm>>

TypeOK ==
  /\ cells \in Seq(Int)
  /\ onlineMap \in [Keys -> (1 .. Len(cells)) \cup {None}]
  /\ ws \in [Conns -> {"new", "open", "load", "sub", "delete", "gone"}]
  /\ authed \in [Conns -> Keys \cup {None}]
  /\ poller \in [Conns -> {"none", "waiting", "store", "add", "done"}]
  /\ pollKey \in [Conns -> Keys \cup {None}]
  /\ ref \in [Conns -> (1 .. Len(cells)) \cup {None}]
  /\ leaveKey \in [Conns -> Keys \cup {None}]
  /\ leaveRef \in [Conns -> (1 .. Len(cells)) \cup {None}]
  /\ counted \in [Conns -> Keys \cup {None}]
  /\ calm \subseteq Keys
  /\ \A c \in Conns :
       /\ poller[c] \in {"store", "add"} => pollKey[c] \in Keys
       /\ poller[c] = "add" => ref[c] # None
       /\ ws[c] \in {"load", "sub", "delete"} => leaveKey[c] \in Keys
       /\ ws[c] = "sub" => leaveRef[c] # None

Init ==
  /\ onlineMap = [k \in Keys |-> None]
  /\ cells = <<>>
  /\ ws = [c \in Conns |-> "new"]
  /\ authed = [c \in Conns |-> None]
  /\ poller = [c \in Conns |-> "none"]
  /\ pollKey = [c \in Conns |-> None]
  /\ ref = [c \in Conns |-> None]
  /\ leaveKey = [c \in Conns |-> None]
  /\ leaveRef = [c \in Conns |-> None]
  /\ counted = [c \in Conns |-> None]
  /\ calm = Keys

(* increment is between its two steps, decrement between its Load and its end *)
Arriving(k) == \E c \in Conns : poller[c] = "add" /\ pollKey[c] = k
Leaving(k) == \E c \in Conns : ws[c] \in {"sub", "delete"} /\ leaveKey[c] = k
CountedAs(k) == {c \in Conns : counted[c] = k}

-----------------------------------------------------------------------------
(* Plausible slips in the code, each the mutated form of a definition below. *)

(* Load, and Store when it found nothing, instead of LoadOrStore: the loser  *)
(* of the race counts in a cell that is not in the map.                      *)
StoreAlways(c) ==
  LET k == pollKey[c] IN
  /\ poller[c] = "store"
  /\ cells' = Append(cells, 0)
  /\ onlineMap' = [onlineMap EXCEPT ![k] = Len(cells) + 1]
  /\ ref' = [ref EXCEPT ![c] = Len(cells) + 1]
  /\ poller' = [poller EXCEPT ![c] = "add"]
  /\ calm' = IF Leaving(k) THEN calm \ {k} ELSE calm
  /\ UNCHANGED <<ws, authed, pollKey, leaveKey, leaveRef, counted>>

-----------------------------------------------------------------------------
(* The connection: khatru, and the OnConnect hook                            *)

Connect(c) ==
  /\ ws[c] = "new"
  /\ ws' = [ws EXCEPT ![c] = "open"]
  /\ poller' = [poller EXCEPT ![c] = "waiting"]
  /\ UNCHANGED <<onlineMap, cells, authed, pollKey, ref, leaveKey, leaveRef, counted, calm>>

Auth(c, k) ==
  /\ ws[c] = "open"
  /\ authed' = [authed EXCEPT ![c] = k]
  /\ UNCHANGED <<onlineMap, cells, ws, poller, pollKey, ref, leaveKey, leaveRef, counted, calm>>

-----------------------------------------------------------------------------
(* The polling goroutine                                                     *)

(* ctx.Done or the 30 s timer.  select takes any ready case, so the goroutine *)
(* may still take the tick of Poll after the context is done.                *)
GiveUp(c) ==
  /\ poller[c] = "waiting"
  /\ poller' = [poller EXCEPT ![c] = "done"]
  /\ UNCHANGED <<onlineMap, cells, ws, authed, pollKey, ref, leaveKey, leaveRef, counted, calm>>

Poll(c) ==
  /\ poller[c] = "waiting"
  /\ authed[c] # None
  /\ pollKey' = [pollKey EXCEPT ![c] = authed[c]]
  /\ poller' = [poller EXCEPT ![c] = "store"]
  /\ UNCHANGED <<onlineMap, cells, ws, authed, ref, leaveKey, leaveRef, counted, calm>>

(* increment: LoadOrStore takes the cell of the map or puts a new one there. *)
LoadOrStore(c) ==
  LET k == pollKey[c]
      cell == IF onlineMap[k] = None THEN Len(cells) + 1 ELSE onlineMap[k]
  IN
  /\ poller[c] = "store"
  /\ cells' = IF onlineMap[k] = None THEN Append(cells, 0) ELSE cells
  /\ onlineMap' = [onlineMap EXCEPT ![k] = cell]
  /\ ref' = [ref EXCEPT ![c] = cell]
  /\ poller' = [poller EXCEPT ![c] = "add"]
  /\ calm' = IF Leaving(k) THEN calm \ {k} ELSE calm
  /\ UNCHANGED <<ws, authed, pollKey, leaveKey, leaveRef, counted>>

AddOne(c) ==
  /\ poller[c] = "add"
  /\ cells' = [cells EXCEPT ![ref[c]] = @ + 1]
  /\ counted' = [counted EXCEPT ![c] = pollKey[c]]
  /\ poller' = [poller EXCEPT ![c] = "done"]
  /\ UNCHANGED <<onlineMap, ws, authed, pollKey, ref, leaveKey, leaveRef, calm>>

-----------------------------------------------------------------------------
(* The OnDisconnect hook                                                     *)

Disconnect(c) ==
  /\ ws[c] = "open"
  /\ leaveKey' = [leaveKey EXCEPT ![c] = authed[c]]
  /\ ws' = [ws EXCEPT ![c] = IF authed[c] = None THEN "gone" ELSE "load"]
  /\ UNCHANGED <<onlineMap, cells, authed, poller, pollKey, ref, leaveRef, counted, calm>>

(* decrement: Load, and nothing to do when the key has no record.            *)
LoadNone(c) ==
  /\ ws[c] = "load"
  /\ onlineMap[leaveKey[c]] = None
  /\ ws' = [ws EXCEPT ![c] = "gone"]
  /\ UNCHANGED <<onlineMap, cells, authed, poller, pollKey, ref, leaveKey, leaveRef, counted, calm>>

Load(c) ==
  LET k == leaveKey[c] IN
  /\ ws[c] = "load"
  /\ onlineMap[k] # None
  /\ leaveRef' = [leaveRef EXCEPT ![c] = onlineMap[k]]
  /\ ws' = [ws EXCEPT ![c] = "sub"]
  /\ calm' = IF Arriving(k) \/ counted[c] # k THEN calm \ {k} ELSE calm
  /\ UNCHANGED <<onlineMap, cells, authed, poller, pollKey, ref, leaveKey, counted>>

SubOne(c) ==
  LET left == cells[leaveRef[c]] - 1 IN
  /\ ws[c] = "sub"
  /\ cells' = [cells EXCEPT ![leaveRef[c]] = left]
  /\ counted' = IF counted[c] = leaveKey[c] THEN [counted EXCEPT ![c] = None] ELSE counted
  /\ ws' = [ws EXCEPT ![c] = IF left <= 0 THEN "delete" ELSE "gone"]
  /\ UNCHANGED <<onlineMap, authed, poller, pollKey, ref, leaveKey, leaveRef, calm>>

Delete(c) ==
  /\ ws[c] = "delete"
  /\ onlineMap' = [onlineMap EXCEPT ![leaveKey[c]] = None]
  /\ ws' = [ws EXCEPT ![c] = "gone"]
  /\ UNCHANGED <<cells, authed, poller, pollKey, ref, leaveKey, leaveRef, counted, calm>>

-----------------------------------------------------------------------------

PollerStep(c) == GiveUp(c) \/ Poll(c) \/ LoadOrStore(c) \/ AddOne(c)
HookStep(c) == LoadNone(c) \/ Load(c) \/ SubOne(c) \/ Delete(c)

Next ==
  \E c \in Conns :
    \/ Connect(c) \/ Disconnect(c) \/ \E k \in Keys : Auth(c, k)
    \/ PollerStep(c) \/ HookStep(c)

Spec == Init /\ [][Next]_vars

-----------------------------------------------------------------------------
(* IsOnline and OnlineCount                                                  *)

IsOnline(k) == onlineMap[k] # None
OnlineCount(k) == IF onlineMap[k] = None THEN 0 ELSE cells[onlineMap[k]]

-----------------------------------------------------------------------------
(* Properties                                                                *)

(* Any number of connections of a key may be counted at the same time, and   *)
(* any number taken off at the same time: as long as the two do not overlap, *)
(* the record of the key counts exactly the connections counted and not yet  *)
(* taken off, and it exists only for them or for a step in progress.         *)
CountExact ==
  \A k \in calm :
    /\ OnlineCount(k) = Cardinality(CountedAs(k))
    /\ IsOnline(k) => CountedAs(k) # {} \/ Arriving(k) \/ Leaving(k)

=============================================================================
