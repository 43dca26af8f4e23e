---------------------------- MODULE Subscriptions ----------------------------
(***************************************************************************)
(* Group subscriptions: SubscriptionMatcher caches the REQ that each NIP-29 *)
(* group carries in its about field (subscription_matcher.go).  Hooks on   *)
(* the group events (group.go, server.go handleEvent) and the loader that  *)
(* Processor.Start launches keep the cache up to date.                     *)
(*                                                                         *)
(* relay29 is external: it applies a saved group event to its state, and   *)
(* then the hook of the event runs in the same goroutine.  Goroutines of   *)
(* different events interleave freely, and so does the loader.  The lock   *)
(* sm.mu is held from reading the group's about to writing the cache, but  *)
(* relay29 does not take it.                                               *)
(***************************************************************************)
EXTENDS Naturals, FiniteSets

CONSTANTS
  Groups,     \* group ids
  Events,     \* group events, each handled once
  Subs,       \* about fields that hold a REQ: filters and device token
  NoREQ,      \* about fields that do not parse, the empty one among them
  NoGroup,    \* relay29 has no such group
  Failed,     \* cache entry with a ParseError
  Loader,     \* the goroutine of loadGroups
  None

Abouts == Subs \cup NoREQ
Threads == Events \cup {Loader}

ASSUME SubscriptionsAssumption ==
  /\ Subs \cap NoREQ = {}
  /\ NoGroup \notin Abouts /\ Failed \notin Abouts /\ None \notin Abouts
  /\ Failed # None
  /\ Loader \notin Events /\ None \notin Threads /\ None \notin Groups

VARIABLES
  about,      \* relay29: the about field of a group, or NoGroup
  cache,      \* sm.parsedSubscriptions: a REQ, Failed, or None without an entry
  known,      \* sm.groupIDs
  lock,       \* holder of sm.mu, or None
  kind,       \* thread: "load", or "edit", "create", "delete" once applied
  group,      \* thread: the group it is busy with
  field,      \* event: the about field it carries, or None
  pc,         \* thread: where it stands
  read,       \* thread: the about it read under the lock
  toLoad,     \* groups the loader's Range has still to visit
  skipped     \* history: groups whose state changed with no parse after it,
              \* because a hook returned early or a deletion came too late

vars == <<about, cache, known, lock, kind, group, field, pc, read, toLoad, skipped>>

TypeOK ==
  /\ about \in [Groups -> Abouts \cup {NoGroup}]
  /\ cache \in [Groups -> Subs \cup {Failed, None}]
  /\ known \subseteq Groups
  /\ lock \in Threads \cup {None}
  /\ kind \in [Threads -> {"load", "create", "edit", "delete", None}]
  /\ group \in [Threads -> Groups \cup {None}]
  /\ field \in [Events -> Abouts \cup {None}]
  /\ pc \in [Threads -> {"new", "hook", "lock", "write", "done"}]
  /\ read \in [Threads -> Abouts \cup {NoGroup, None}]
  /\ toLoad \subseteq Groups
  /\ skipped \subseteq Groups
  /\ \A t \in Threads : pc[t] = "write" <=> lock = t

(* relay29 has loaded the stored groups; the cache is empty.                 *)
Init ==
  /\ about \in [Groups -> Abouts \cup {NoGroup}]
  /\ cache = [g \in Groups |-> None]
  /\ known = {}
  /\ lock = None
  /\ kind = [t \in Threads |-> IF t = Loader THEN "load" ELSE None]
  /\ group = [t \in Threads |-> None]
  /\ field = [e \in Events |-> None]
  /\ pc = [t \in Threads |-> "new"]
  /\ read = [t \in Threads |-> None]
  /\ toLoad = {g \in Groups : about[g] # NoGroup}
  /\ skipped = {}

(* parseREQFromAbout of what the lookup in relay29's state returned.         *)
Parsed(a) == IF a \in Subs THEN a ELSE Failed

-----------------------------------------------------------------------------
(* A plausible slip in the code, the mutated form of a definition below.     *)

(* The about field is read before the lock is taken.                         *)
ReadEarly(t) ==
  /\ pc[t] = "lock"
  /\ kind[t] # "delete"
  /\ read' = [read EXCEPT ![t] = about[group[t]]]
  /\ pc' = [pc EXCEPT ![t] = "write"]
  /\ skipped' = skipped \ {group[t]}
  /\ UNCHANGED <<about, cache, known, lock, kind, group, field, toLoad>>

-----------------------------------------------------------------------------
(* relay29 saves and applies a group event                                   *)

Apply(e, k, g, a) ==
  /\ pc[e] = "new"
  /\ kind' = [kind EXCEPT ![e] = k]
  /\ group' = [group EXCEPT ![e] = g]
  /\ field' = [field EXCEPT ![e] = a]
  /\ pc' = [pc EXCEPT ![e] = "hook"]
  /\ UNCHANGED <<cache, known, lock, read, skipped>>

Loading == toLoad # {} \/ pc[Loader] # "new"

(* The loader's Range, when it is under way, may or may not come across the  *)
(* new group.                                                                *)
ApplyCreate(e, g, a) ==
  /\ about[g] = NoGroup
  /\ about' = [about EXCEPT ![g] = a]
  /\ toLoad' \in IF Loading THEN {toLoad, toLoad \cup {g}} ELSE {toLoad}
  /\ Apply(e, "create", g, a)

(* An edit may leave the about field out and change something else.          *)
ApplyEdit(e, g, a) ==
  /\ about[g] # NoGroup
  /\ about' = IF a = None THEN about ELSE [about EXCEPT ![g] = a]
  /\ Apply(e, "edit", g, a)
  /\ UNCHANGED toLoad

ApplyDelete(e, g) ==
  /\ about[g] # NoGroup
  /\ about' = [about EXCEPT ![g] = NoGroup]
  /\ Apply(e, "delete", g, None)
  /\ UNCHANGED toLoad

-----------------------------------------------------------------------------
(* handleEvent: the hook of the event                                        *)

(* HandleGroupUpdateEvent returns when the about field is missing, empty or  *)
(* does not parse; everything else goes on to the matcher.                   *)
Unparsed(e) == kind[e] = "edit" /\ field[e] \in NoREQ \cup {None}

SkipUpdate(e) ==
  /\ pc[e] = "hook" /\ Unparsed(e)
  /\ pc' = [pc EXCEPT ![e] = "done"]
  /\ skipped' = IF field[e] # None /\ about[group[e]] # NoGroup
                  THEN skipped \cup {group[e]} ELSE skipped
  /\ UNCHANGED <<about, cache, known, lock, kind, group, field, read, toLoad>>

CallMatcher(e) ==
  /\ pc[e] = "hook" /\ ~Unparsed(e)
  /\ pc' = [pc EXCEPT ![e] = "lock"]
  /\ UNCHANGED <<about, cache, known, lock, kind, group, field, read, toLoad, skipped>>

(* AddGroup and UpdateGroup: the lock, then parseAndCacheSubscription reads  *)
(* the about field that the group has by now ...                             *)
ReadAbout(t) ==
  /\ pc[t] = "lock" /\ lock = None
  /\ kind[t] # "delete"
  /\ lock' = t
  /\ read' = [read EXCEPT ![t] = about[group[t]]]
  /\ pc' = [pc EXCEPT ![t] = "write"]
  /\ skipped' = skipped \ {group[t]}
  /\ UNCHANGED <<about, cache, known, kind, group, field, toLoad>>

(* ... and writes what it parsed, the error included.                        *)
WriteCache(t) ==
  /\ pc[t] = "write"
  /\ cache' = [cache EXCEPT ![group[t]] = Parsed(read[t])]
  /\ known' = known \cup {group[t]}
  /\ lock' = None
  /\ pc' = [pc EXCEPT ![t] = IF t = Loader THEN "new" ELSE "done"]
  /\ UNCHANGED <<about, kind, group, field, read, toLoad, skipped>>

(* A deletion that relay29 has applied and whose hook has still to come.     *)
DeletionDue(g) ==
  \E e \in Events : group[e] = g /\ kind[e] = "delete" /\ pc[e] \in {"hook", "lock"}

RemoveGroup(e) ==
  LET g == group[e] IN
  /\ pc[e] = "lock" /\ kind[e] = "delete" /\ lock = None
  /\ cache' = [cache EXCEPT ![g] = None]
  /\ known' = known \ {g}
  /\ skipped' = IF about[g] # NoGroup THEN skipped \cup {g} ELSE skipped
  /\ pc' = [pc EXCEPT ![e] = "done"]
  /\ UNCHANGED <<about, lock, kind, group, field, read, toLoad>>

-----------------------------------------------------------------------------
(* loadGroups: Range visits every group that was there when it began, unless *)
(* it was deleted before its turn, and calls AddGroup.                       *)

Visit(g) ==
  /\ pc[Loader] = "new" /\ g \in toLoad
  /\ toLoad' = toLoad \ {g}
  /\ \/ /\ about[g] # NoGroup
        /\ group' = [group EXCEPT ![Loader] = g]
        /\ pc' = [pc EXCEPT ![Loader] = "lock"]
     \/ /\ about[g] = NoGroup
        /\ UNCHANGED <<group, pc>>
  /\ UNCHANGED <<about, cache, known, lock, kind, field, read, skipped>>

-----------------------------------------------------------------------------

Hook(e) == SkipUpdate(e) \/ CallMatcher(e) \/ RemoveGroup(e)

Relay29(e) ==
  \E g \in Groups :
    \/ ApplyDelete(e, g)
    \/ \E a \in Abouts : ApplyCreate(e, g, a)
    \/ \E a \in Abouts \cup {None} : ApplyEdit(e, g, a)

Next ==
  \/ \E e \in Events : Relay29(e) \/ Hook(e)
  \/ \E t \in Threads : ReadAbout(t) \/ WriteCache(t)
  \/ \E g \in Groups : Visit(g)

Spec == Init /\ [][Next]_vars

-----------------------------------------------------------------------------
(* Properties                                                                *)

(* No hook and no visit of the loader is due for the group.                  *)
Settled(g) ==
  /\ g \notin toLoad
  /\ \A t \in Threads : pc[t] \in {"hook", "lock", "write"} => group[t] # g

(* However edits, creations, deletions and the loader interleave, a settled  *)
(* group is matched by the REQ its about field holds now, and by nothing     *)
(* when it holds none, unless the last change of the group was skipped.      *)
FreshUnlessSkipped ==
  \A g \in Groups :
    (Settled(g) /\ about[g] # NoGroup /\ g \notin skipped) => cache[g] = Parsed(about[g])

(* A settled group that does not exist has no REQ in the cache, so that a    *)
(* new group of the same id does not start with the old device and filters.  *)
NothingLeftBehind ==
  \A g \in Groups : (Settled(g) /\ about[g] = NoGroup) => cache[g] \notin Subs

=============================================================================
