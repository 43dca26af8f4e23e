-------------------------- MODULE ForwardingProofs --------------------------
(***************************************************************************)
(* Proofs about Subscriptions and Forwarding, for any number of groups,    *)
(* group events, subscriptions, workers and devices.  The first half knows *)
(* only Subscriptions; what it proves carries over, because the rest of    *)
(* the server only reads the cache.                                        *)
(***************************************************************************)
EXTENDS Forwarding, TLAPS


-----------------------------------------------------------------------------
(* Inductive strengthening                                                   *)

(* A thread still has to take the lock for the group, or return early.       *)
(* Somebody will still parse the group, or skip a change of it; the hook of  *)
(* an edit that leaves the about field alone will do neither.                *)
Harmless(t) == t \in Events /\ kind[t] = "edit" /\ field[t] = None

Due(g) ==
  \/ g \in toLoad
  \/ \E t \in Threads : group[t] = g /\ pc[t] \in {"hook", "lock"} /\ ~Harmless(t)

Writing(g) == lock # None /\ group[lock] = g

(* The holder of the lock decides what the cache will hold, unless somebody  *)
(* comes after it.                                                           *)
Fresh(g) ==
  \/ about[g] = NoGroup \/ g \in skipped \/ Due(g)
  \/ Writing(g) /\ read[lock] = about[g]
  \/ ~Writing(g) /\ cache[g] = Parsed(about[g])

Gone(g) ==
  about[g] = NoGroup =>
    \/ DeletionDue(g)
    \/ cache[g] \notin Subs /\ (Writing(g) => read[lock] \notin Subs)

(* A thread that is busy knows its group; only a hook is before the lock.    *)
Busy ==
  /\ \A t \in Threads : pc[t] \in {"hook", "lock", "write"} => group[t] \in Groups
  /\ \A t \in Threads : pc[t] = "write" => read[t] \in Abouts \cup {NoGroup}
  /\ kind[Loader] = "load" /\ pc[Loader] \in {"new", "lock", "write"}

FreshInv == TypeOK /\ Busy /\ \A g \in Groups : Fresh(g) /\ Gone(g)

-----------------------------------------------------------------------------

LEMMA FreshInit == Init => FreshInv
<1> USE SubscriptionsAssumption
<1> SUFFICES ASSUME Init PROVE FreshInv
  OBVIOUS
<1>1. TypeOK
  BY DEF Init, TypeOK, Threads
<1>2. Busy
  BY DEF Init, Busy, Threads
<1>3. ASSUME NEW g \in Groups PROVE Fresh(g) /\ Gone(g)
  BY DEF Init, Fresh, Due, Gone, Writing, Abouts
<1> QED
  BY <1>1, <1>2, <1>3 DEF FreshInv

(* What the three ways to apply an event have in common.                     *)
LEMMA ApplyTypes ==
  ASSUME FreshInv, NEW e \in Events, NEW k \in {"create", "edit", "delete"},
         NEW g \in Groups, NEW a \in Abouts \cup {None}, Apply(e, k, g, a),
         about' \in [Groups -> Abouts \cup {NoGroup}], toLoad' \subseteq Groups
  PROVE  /\ TypeOK' /\ Busy'
         /\ pc[e] = "new" /\ pc'[e] = "hook" /\ group'[e] = g /\ kind'[e] = k
         /\ \A t \in Threads \ {e} : pc'[t] = pc[t] /\ group'[t] = group[t] /\ kind'[t] = kind[t]
         /\ field'[e] = a /\ \A d \in Events \ {e} : field'[d] = field[d]
         /\ UNCHANGED <<cache, known, lock, read, skipped>>
         /\ lock # e
<1> USE SubscriptionsAssumption
<1>1. TypeOK /\ Busy /\ e \in Threads /\ e # Loader
  BY DEF FreshInv, Threads
<1>2. /\ pc[e] = "new"
      /\ kind' = [kind EXCEPT ![e] = k]
      /\ group' = [group EXCEPT ![e] = g]
      /\ field' = [field EXCEPT ![e] = a]
      /\ pc' = [pc EXCEPT ![e] = "hook"]
      /\ UNCHANGED <<cache, known, lock, read, skipped>>
  BY DEF Apply
<1>3. /\ kind \in [Threads -> {"load", "create", "edit", "delete", None}]
      /\ group \in [Threads -> Groups \cup {None}]
      /\ field \in [Events -> Abouts \cup {None}]
      /\ pc \in [Threads -> {"new", "hook", "lock", "write", "done"}]
  BY <1>1 DEF TypeOK
<1>4. /\ kind' \in [Threads -> {"load", "create", "edit", "delete", None}]
      /\ group' \in [Threads -> Groups \cup {None}]
      /\ field' \in [Events -> Abouts \cup {None}]
      /\ pc' \in [Threads -> {"new", "hook", "lock", "write", "done"}]
  BY <1>2, <1>3
<1>5. /\ pc'[e] = "hook" /\ group'[e] = g /\ kind'[e] = k
      /\ \A t \in Threads \ {e} : pc'[t] = pc[t] /\ group'[t] = group[t] /\ kind'[t] = kind[t]
      /\ field'[e] = a /\ \A d \in Events \ {e} : field'[d] = field[d]
  BY <1>1, <1>2, <1>3
<1>6. lock # e /\ \A t \in Threads : pc'[t] = "write" <=> lock' = t
  BY <1>1, <1>2, <1>5 DEF TypeOK
<1>7. TypeOK'
  BY <1>1, <1>2, <1>4, <1>6 DEF TypeOK
<1>8. Busy'
  BY <1>1, <1>2, <1>5 DEF Busy, Threads
<1> QED
  BY <1>2, <1>5, <1>6, <1>7, <1>8

LEMMA FreshStep == FreshInv /\ [Next]_vars => FreshInv'
<1> USE SubscriptionsAssumption
<1> SUFFICES ASSUME FreshInv, [Next]_vars PROVE FreshInv'
  OBVIOUS
<1>0. TypeOK /\ Busy /\ \A g \in Groups : Fresh(g) /\ Gone(g)
  BY DEF FreshInv
<1>t. /\ about \in [Groups -> Abouts \cup {NoGroup}]
      /\ cache \in [Groups -> Subs \cup {Failed, None}]
      /\ pc \in [Threads -> {"new", "hook", "lock", "write", "done"}]
      /\ group \in [Threads -> Groups \cup {None}]
      /\ read \in [Threads -> Abouts \cup {NoGroup, None}]
      /\ lock \in Threads \cup {None} /\ None \notin Threads
      /\ \A t \in Threads : pc[t] = "write" <=> lock = t
      /\ Events \subseteq Threads /\ Loader \in Threads
  BY <1>0 DEF TypeOK, Threads
(* An event that was applied is due for its group, unless it leaves the      *)
(* about field alone, and nothing else changes.                              *)
<1>1. ASSUME NEW e \in Events, NEW k \in {"create", "edit", "delete"}, NEW g \in Groups,
             NEW a \in Abouts \cup {None}, NEW b \in Abouts \cup {NoGroup},
             Apply(e, k, g, a), about' = [about EXCEPT ![g] = b],
             k = "delete" <=> b = NoGroup, (k = "edit" /\ a = None) => b = about[g],
             toLoad \subseteq toLoad', toLoad' \subseteq Groups
      PROVE  FreshInv'
  <2>1. /\ TypeOK' /\ Busy'
        /\ pc[e] = "new" /\ pc'[e] = "hook" /\ group'[e] = g /\ kind'[e] = k
        /\ \A t \in Threads \ {e} : pc'[t] = pc[t] /\ group'[t] = group[t] /\ kind'[t] = kind[t]
        /\ field'[e] = a /\ \A d \in Events \ {e} : field'[d] = field[d]
        /\ UNCHANGED <<cache, known, lock, read, skipped>>
        /\ lock # e
    BY <1>t, <1>1, ApplyTypes
  <2>2. /\ about'[g] = b
        /\ \A h \in Groups \ {g} : about'[h] = about[h]
    BY <1>t, <1>1
  <2>3. \A h \in Groups : Writing(h)' <=> Writing(h)
    BY <1>t, <2>1 DEF Writing
  <2>4. \A h \in Groups : Due(h) => Due(h)'
    <3>1. \A t \in Threads \ {e} : Harmless(t)' <=> Harmless(t)
      BY <1>t, <2>1 DEF Harmless
    <3> QED
      BY <1>1, <1>t, <2>1, <3>1 DEF Due
  <2>5. \A h \in Groups : DeletionDue(h) => DeletionDue(h)'
    BY <1>t, <2>1 DEF DeletionDue
  <2>6. Due(g)' \/ (about'[g] = about[g] /\ b # NoGroup)
    <3>1. CASE k = "edit" /\ a = None
      BY <1>1, <2>2, <3>1
    <3>2. CASE ~(k = "edit" /\ a = None)
      <4>1. ~Harmless(e)'
        BY <2>1, <3>2 DEF Harmless
      <4> QED
        BY <1>t, <2>1, <4>1 DEF Due
    <3> QED
      BY <3>1, <3>2
  <2>7. b = NoGroup => DeletionDue(g)'
    BY <1>1, <2>1 DEF DeletionDue
  <2>8. ASSUME NEW h \in Groups PROVE Fresh(h)' /\ Gone(h)'
    <3>1. CASE h = g
      BY <1>0, <2>1, <2>2, <2>3, <2>4, <2>6, <2>7, <3>1 DEF Fresh, Gone
    <3>2. CASE h # g
      BY <1>0, <2>1, <2>2, <2>3, <2>4, <2>5, <3>2 DEF Fresh, Gone
    <3> QED
      BY <3>1, <3>2
  <2> QED
    BY <2>1, <2>8 DEF FreshInv
<1>2. ASSUME NEW e \in Events, Relay29(e)
      PROVE  FreshInv'
  <2>1. PICK g \in Groups :
          \/ ApplyDelete(e, g)
          \/ \E a \in Abouts : ApplyCreate(e, g, a)
          \/ \E a \in Abouts \cup {None} : ApplyEdit(e, g, a)
    BY <1>2 DEF Relay29
  <2>2. toLoad \subseteq Groups /\ NoGroup \notin Abouts
    BY <1>0 DEF TypeOK
  <2>3. CASE ApplyDelete(e, g)
    BY <1>1, <2>2, <2>3 DEF ApplyDelete
  <2>4. ASSUME NEW a \in Abouts, ApplyCreate(e, g, a) PROVE FreshInv'
    <3>1. toLoad \subseteq toLoad' /\ toLoad' \subseteq Groups
      BY <2>2, <2>4 DEF ApplyCreate
    <3> QED
      BY <1>1, <2>2, <2>4, <3>1 DEF ApplyCreate
  <2>5. ASSUME NEW a \in Abouts \cup {None}, ApplyEdit(e, g, a) PROVE FreshInv'
    <3> DEFINE b == IF a = None THEN about[g] ELSE a
    <3>1. /\ about' = [about EXCEPT ![g] = b] /\ about[g] # NoGroup
          /\ b \in Abouts \cup {NoGroup} /\ b # NoGroup
      BY <1>t, <2>2, <2>5 DEF ApplyEdit
    <3> QED
      BY <1>1, <2>2, <2>5, <3>1 DEF ApplyEdit
  <2> QED
    BY <2>1, <2>3, <2>4, <2>5
<1>3. ASSUME NEW e \in Events, SkipUpdate(e)
      PROVE  FreshInv'
  <2>1. /\ pc[e] = "hook" /\ kind[e] = "edit" /\ pc' = [pc EXCEPT ![e] = "done"]
        /\ skipped' = IF field[e] # None /\ about[group[e]] # NoGroup
                        THEN skipped \cup {group[e]} ELSE skipped
        /\ UNCHANGED <<about, cache, known, lock, kind, group, field, read, toLoad>>
    BY <1>3 DEF SkipUpdate, Unparsed
  <2>2. group[e] \in Groups /\ e # Loader
    BY <1>0, <1>t, <2>1 DEF Busy
  <2>3. /\ pc' \in [Threads -> {"new", "hook", "lock", "write", "done"}]
        /\ \A t \in Threads : pc'[t] = IF t = e THEN "done" ELSE pc[t]
    BY <1>t, <2>1
  <2>4. TypeOK'
    BY <1>0, <1>t, <2>1, <2>2, <2>3 DEF TypeOK
  <2>5. Busy'
    BY <1>0, <1>t, <2>1, <2>2, <2>3 DEF Busy
  <2>6. ASSUME NEW h \in Groups PROVE Fresh(h)' /\ Gone(h)'
    <3>1. DeletionDue(h) => DeletionDue(h)'
      BY <1>t, <2>1, <2>3 DEF DeletionDue
    <3>2. Due(h) => Due(h)' \/ (h = group[e] /\ field[e] # None)
      BY <1>t, <2>1, <2>3 DEF Due, Harmless
    <3>3. (h = group[e] /\ field[e] # None) => about[h] = NoGroup \/ h \in skipped'
      BY <2>1
    <3>4. h \in skipped => h \in skipped'
      BY <2>1
    <3>5. Writing(h)' <=> Writing(h)
      BY <2>1 DEF Writing
    <3>6. Fresh(h)'
      BY <1>0, <2>1, <3>2, <3>3, <3>4, <3>5 DEF Fresh
    <3> QED
      BY <1>0, <2>1, <3>1, <3>5, <3>6 DEF Gone
  <2> QED
    BY <2>4, <2>5, <2>6 DEF FreshInv
<1>4. ASSUME NEW e \in Events, CallMatcher(e)
      PROVE  FreshInv'
  <2>1. /\ pc[e] = "hook" /\ pc' = [pc EXCEPT ![e] = "lock"]
        /\ UNCHANGED <<about, cache, known, lock, kind, group, field, read, toLoad, skipped>>
        /\ ~Harmless(e)
    BY <1>4 DEF CallMatcher, Unparsed, Harmless
  <2>2. group[e] \in Groups /\ e # Loader
    BY <1>0, <1>t, <2>1 DEF Busy
  <2>3. /\ pc' \in [Threads -> {"new", "hook", "lock", "write", "done"}]
        /\ \A t \in Threads : pc'[t] = IF t = e THEN "lock" ELSE pc[t]
    BY <1>t, <2>1
  <2>4. TypeOK'
    BY <1>0, <1>t, <2>1, <2>3 DEF TypeOK
  <2>5. Busy'
    BY <1>0, <1>t, <2>1, <2>2, <2>3 DEF Busy
  <2>6. ASSUME NEW h \in Groups PROVE Fresh(h)' /\ Gone(h)'
    <3>1. (DeletionDue(h) => DeletionDue(h)') /\ (Due(h) => Due(h)')
      BY <1>t, <2>1, <2>3 DEF DeletionDue, Due, Harmless
    <3>2. Writing(h)' <=> Writing(h)
      BY <2>1 DEF Writing
    <3> QED
      BY <1>0, <2>1, <3>1, <3>2 DEF Fresh, Gone
  <2> QED
    BY <2>4, <2>5, <2>6 DEF FreshInv
<1>5. ASSUME NEW t \in Threads, ReadAbout(t)
      PROVE  FreshInv'
  <2> DEFINE g == group[t]
  <2>1. /\ pc[t] = "lock" /\ lock = None /\ kind[t] # "delete" /\ lock' = t
        /\ read' = [read EXCEPT ![t] = about[group[t]]]
        /\ pc' = [pc EXCEPT ![t] = "write"]
        /\ skipped' = skipped \ {group[t]}
        /\ UNCHANGED <<about, cache, known, kind, group, field, toLoad>>
    BY <1>5 DEF ReadAbout
  <2>2. g \in Groups /\ about[g] \in Abouts \cup {NoGroup}
    BY <1>0, <1>t, <2>1 DEF Busy
  <2>3. /\ pc' \in [Threads -> {"new", "hook", "lock", "write", "done"}]
        /\ read' \in [Threads -> Abouts \cup {NoGroup, None}]
        /\ \A u \in Threads : pc'[u] = IF u = t THEN "write" ELSE pc[u]
        /\ \A u \in Threads : read'[u] = IF u = t THEN about[g] ELSE read[u]
    BY <1>t, <2>1, <2>2
  <2>4. TypeOK'
    BY <1>0, <1>t, <2>1, <2>3 DEF TypeOK
  <2>5. Busy'
    BY <1>0, <1>t, <2>1, <2>2, <2>3 DEF Busy
  <2>6. Writing(g)' /\ read'[lock'] = about[g]
    BY <1>t, <2>1, <2>3 DEF Writing
  <2>7. ASSUME NEW h \in Groups PROVE Fresh(h)' /\ Gone(h)'
    <3>1. DeletionDue(h) => DeletionDue(h)'
      BY <1>t, <2>1, <2>3 DEF DeletionDue
    <3>2. CASE h = g
      BY <1>0, <1>t, <2>1, <2>6, <3>1, <3>2 DEF Fresh, Gone, Abouts
    <3>3. CASE h # g
      <4>1. Due(h) => Due(h)'
        BY <1>t, <2>1, <2>3, <3>3 DEF Due, Harmless
      <4>2. ~Writing(h) /\ ~Writing(h)'
        BY <1>t, <2>1, <3>3 DEF Writing
      <4> QED
        BY <1>0, <2>1, <3>1, <3>3, <4>1, <4>2 DEF Fresh, Gone
    <3> QED
      BY <3>2, <3>3
  <2> QED
    BY <2>4, <2>5, <2>7 DEF FreshInv
<1>6. ASSUME NEW t \in Threads, WriteCache(t)
      PROVE  FreshInv'
  <2> DEFINE g == group[t]
  <2>1. /\ pc[t] = "write"
        /\ cache' = [cache EXCEPT ![group[t]] = Parsed(read[t])]
        /\ known' = known \cup {group[t]}
        /\ lock' = None
        /\ pc' = [pc EXCEPT ![t] = IF t = Loader THEN "new" ELSE "done"]
        /\ UNCHANGED <<about, kind, group, field, read, toLoad, skipped>>
    BY <1>6 DEF WriteCache
  <2>2. g \in Groups /\ lock = t /\ read[t] \in Abouts \cup {NoGroup}
    BY <1>0, <1>t, <2>1 DEF Busy
  <2>3. /\ pc' \in [Threads -> {"new", "hook", "lock", "write", "done"}]
        /\ \A u \in Threads : u # t => pc'[u] = pc[u]
        /\ pc'[t] \in {"new", "done"} /\ (t = Loader => pc'[t] = "new")
    BY <1>t, <2>1
  <2>4. Parsed(read[t]) \in Subs \cup {Failed} /\ (Parsed(read[t]) \in Subs => read[t] \in Subs)
    BY DEF Parsed, Abouts
  <2>5. /\ cache' \in [Groups -> Subs \cup {Failed, None}]
        /\ \A h \in Groups : cache'[h] = IF h = g THEN Parsed(read[t]) ELSE cache[h]
    BY <1>t, <2>1, <2>2, <2>4
  <2>6. TypeOK'
    BY <1>0, <1>t, <2>1, <2>2, <2>3, <2>5 DEF TypeOK
  <2>7. Busy'
    BY <1>0, <1>t, <2>1, <2>3 DEF Busy
  <2>8. ASSUME NEW h \in Groups PROVE Fresh(h)' /\ Gone(h)'
    <3>1. (DeletionDue(h) => DeletionDue(h)') /\ (Due(h) => Due(h)')
      BY <1>t, <2>1, <2>3 DEF DeletionDue, Due, Harmless
    <3>2. ~Writing(h)'
      BY <2>1 DEF Writing
    <3>3. CASE h = g
      <4>1. Writing(h) /\ read[lock] = read[t]
        BY <1>t, <2>2, <3>3 DEF Writing
      <4> QED
        BY <1>0, <2>1, <2>4, <2>5, <3>1, <3>2, <3>3, <4>1 DEF Fresh, Gone
    <3>4. CASE h # g
      <4>1. ~Writing(h)
        BY <2>2, <3>4 DEF Writing
      <4> QED
        BY <1>0, <2>1, <2>5, <3>1, <3>2, <3>4, <4>1 DEF Fresh, Gone
    <3> QED
      BY <3>3, <3>4
  <2> QED
    BY <2>6, <2>7, <2>8 DEF FreshInv
<1>7. ASSUME NEW e \in Events, RemoveGroup(e)
      PROVE  FreshInv'
  <2> DEFINE g == group[e]
  <2>1. /\ pc[e] = "lock" /\ lock = None
        /\ cache' = [cache EXCEPT ![group[e]] = None]
        /\ known' = known \ {group[e]}
        /\ skipped' = IF about[group[e]] # NoGroup THEN skipped \cup {group[e]} ELSE skipped
        /\ pc' = [pc EXCEPT ![e] = "done"]
        /\ UNCHANGED <<about, lock, kind, group, field, read, toLoad>>
    BY <1>7 DEF RemoveGroup
  <2>2. g \in Groups /\ e # Loader
    BY <1>0, <1>t, <2>1 DEF Busy
  <2>3. /\ pc' \in [Threads -> {"new", "hook", "lock", "write", "done"}]
        /\ \A t \in Threads : pc'[t] = IF t = e THEN "done" ELSE pc[t]
        /\ cache' \in [Groups -> Subs \cup {Failed, None}]
        /\ \A h \in Groups : cache'[h] = IF h = g THEN None ELSE cache[h]
    BY <1>t, <2>1
  <2>4. TypeOK'
    BY <1>0, <1>t, <2>1, <2>2, <2>3 DEF TypeOK
  <2>5. Busy'
    BY <1>0, <1>t, <2>1, <2>2, <2>3 DEF Busy
  <2>6. ASSUME NEW h \in Groups PROVE Fresh(h)' /\ Gone(h)'
    <3>1. ~Writing(h) /\ ~Writing(h)'
      BY <2>1 DEF Writing
    <3>2. CASE h = g
      BY <2>1, <2>3, <3>1, <3>2 DEF Fresh, Gone, Abouts
    <3>3. CASE h # g
      <4>1. (DeletionDue(h) => DeletionDue(h)') /\ (Due(h) => Due(h)')
        BY <1>t, <2>1, <2>3, <3>3 DEF DeletionDue, Due, Harmless
      <4> QED
        BY <1>0, <2>1, <2>3, <3>1, <3>3, <4>1 DEF Fresh, Gone
    <3> QED
      BY <3>2, <3>3
  <2> QED
    BY <2>4, <2>5, <2>6 DEF FreshInv
<1>8. ASSUME NEW g \in Groups, Visit(g)
      PROVE  FreshInv'
  <2>1. /\ pc[Loader] = "new" /\ toLoad' = toLoad \ {g}
        /\ UNCHANGED <<about, cache, known, lock, kind, field, read, skipped>>
    BY <1>8 DEF Visit
  <2>2. \/ /\ about[g] # NoGroup
           /\ group' = [group EXCEPT ![Loader] = g]
           /\ pc' = [pc EXCEPT ![Loader] = "lock"]
        \/ about[g] = NoGroup /\ UNCHANGED <<group, pc>>
    BY <1>8 DEF Visit
  <2>3. /\ pc' \in [Threads -> {"new", "hook", "lock", "write", "done"}]
        /\ group' \in [Threads -> Groups \cup {None}]
        /\ \A t \in Threads \ {Loader} : pc'[t] = pc[t] /\ group'[t] = group[t]
        /\ pc'[Loader] \in {"new", "lock"}
        /\ pc'[Loader] = "lock" => group'[Loader] = g
        /\ about[g] # NoGroup => pc'[Loader] = "lock"
    BY <1>t, <2>1, <2>2
  <2>4. lock # Loader
    BY <1>t, <2>1
  <2>5. TypeOK'
    BY <1>0, <1>t, <2>1, <2>3, <2>4 DEF TypeOK
  <2>6. Busy'
    BY <1>0, <1>t, <2>1, <2>3 DEF Busy
  <2>7. ASSUME NEW h \in Groups PROVE Fresh(h)' /\ Gone(h)'
    <3>1. Writing(h)' <=> Writing(h)
      BY <1>t, <2>1, <2>3, <2>4 DEF Writing
    <3>2. DeletionDue(h) => DeletionDue(h)'
      BY <1>t, <2>1, <2>3 DEF DeletionDue, Threads
    <3>3. Due(h) => Due(h)' \/ about[h] = NoGroup
      <4>1. CASE h = g
        BY <1>t, <2>3, <4>1 DEF Due, Harmless
      <4>2. CASE h # g
        BY <1>t, <2>1, <2>3, <4>2 DEF Due, Harmless
      <4> QED
        BY <4>1, <4>2
    <3> QED
      BY <1>0, <2>1, <3>1, <3>2, <3>3 DEF Fresh, Gone
  <2> QED
    BY <2>5, <2>6, <2>7 DEF FreshInv
<1>9. CASE UNCHANGED vars
  BY <1>0, <1>9 DEF vars, FreshInv, TypeOK, Busy, Fresh, Gone, Due, Harmless, DeletionDue, Writing
<1> QED
  BY <1>2, <1>3, <1>4, <1>5, <1>6, <1>7, <1>8, <1>9 DEF Next, Hook

(* Type correctness of the matcher, the hooks and the loader.                *)
THEOREM SubscriptionsTypeCorrect == Spec => []TypeOK
<1>1. FreshInv => TypeOK
  BY DEF FreshInv
<1> QED
  BY FreshInit, FreshStep, <1>1, PTL DEF Spec

LEMMA SettledFresh == FreshInv => FreshUnlessSkipped /\ NothingLeftBehind
<1> SUFFICES ASSUME FreshInv, NEW g \in Groups, Settled(g)
             PROVE  /\ about[g] # NoGroup /\ g \notin skipped => cache[g] = Parsed(about[g])
                    /\ about[g] = NoGroup => cache[g] \notin Subs
  BY DEF FreshUnlessSkipped, NothingLeftBehind
<1>1. ~Due(g) /\ ~DeletionDue(g)
  BY DEF Settled, Due, DeletionDue, Threads
<1>2. ~Writing(g)
  BY SubscriptionsAssumption DEF FreshInv, TypeOK, Settled, Writing
<1> QED
  BY <1>1, <1>2 DEF FreshInv, Fresh, Gone

(* A settled group is matched by the REQ it holds, unless its last change    *)
(* was skipped: no interleaving of hooks and loader leaves an older one.     *)
THEOREM FreshCorrect == Spec => []FreshUnlessSkipped
BY FreshInit, FreshStep, SettledFresh, PTL DEF Spec

(* A deleted group leaves no REQ in the cache once its hooks have run.       *)
THEOREM NothingLeftCorrect == Spec => []NothingLeftBehind
BY FreshInit, FreshStep, SettledFresh, PTL DEF Spec

-----------------------------------------------------------------------------
(* What Forwarding composes                                                  *)

LEMMA ReadsCacheOnly == [ForwardingNext]_forwardingVars => [Next]_vars
<1> SUFFICES ASSUME [ForwardingNext]_forwardingVars PROVE [Next]_vars
  OBVIOUS
<1>1. ASSUME NEW w \in Workers, WorkerStep(w) PROVE UNCHANGED vars
  BY <1>1 DEF WorkerStep, Match, Decide, Request, Deliver, Pushed, RecordPush, PushFailed
<1>2. LimiterStep \/ ConnectionStep => UNCHANGED vars
  BY DEF LimiterStep, ConnectionStep
<1>3. SubscriptionStep => Next
  BY DEF SubscriptionStep
<1>4. UNCHANGED forwardingVars => UNCHANGED vars
  BY DEF forwardingVars
<1> QED
  BY <1>1, <1>2, <1>3, <1>4 DEF ForwardingNext

(* Whatever the workers do, the hooks and the loader behave as in            *)
(* Subscriptions, and what is proved of the cache holds.                     *)
THEOREM ForwardingKeepsSubscriptions == ForwardingSpec => Spec
<1>1. ForwardingInit => Init
  BY DEF ForwardingInit
<1> QED
  BY <1>1, ReadsCacheOnly, PTL DEF ForwardingSpec, Spec

(* A worker sends only to a device, so it is a caller of PushLimiter.        *)
LEMMA CallsAsLimited ==
  Job!JobTypeOK /\ [ForwardingNext]_forwardingVars => [Limiter!Next]_limiterVars
<1> SUFFICES ASSUME Job!JobTypeOK, [ForwardingNext]_forwardingVars
             PROVE  [Limiter!Next]_limiterVars
  OBVIOUS
<1>1. ASSUME NEW w \in Workers, WorkerStep(w) PROVE Limiter!Next \/ UNCHANGED limiterVars
  <2>1. CASE Request(w)
    <3>1. token[w] \in Devices
      BY <1>1, <2>1 DEF Request, Job!JobTypeOK
    <3> QED
      BY <2>1, <3>1 DEF Request, Limiter!Next, Limiter!PushNotification
  <2>2. CASE Deliver(w) \/ RecordPush(w) \/ PushFailed(w)
    BY <2>2 DEF Deliver, RecordPush, PushFailed, Limiter!Next, Limiter!PushNotification
  <2>3. CASE (\E e \in Messages : Match(w, e)) \/ Decide(w) \/ Pushed(w)
    BY <2>3 DEF Match, Decide, Pushed
  <2> QED
    BY <1>1, <2>1, <2>2, <2>3 DEF WorkerStep
<1>2. LimiterStep => Limiter!Next
  BY DEF LimiterStep, Limiter!Next
<1>3. SubscriptionStep \/ ConnectionStep => UNCHANGED limiterVars
  BY DEF SubscriptionStep, ConnectionStep
<1>4. UNCHANGED forwardingVars => UNCHANGED limiterVars
  BY DEF forwardingVars
<1> QED
  BY <1>1, <1>2, <1>3, <1>4 DEF ForwardingNext

(* A step of a hook or of the loader changes one entry, and not that of a    *)
(* settled group.                                                            *)
LEMMA OneEntry ==
  ASSUME FreshInv, Next
  PROVE  /\ \/ cache' = cache
            \/ \E g \in Groups, c \in Subs \cup {Failed, None} : cache' = [cache EXCEPT ![g] = c]
         /\ \A g \in Groups : Settled(g) =>
              cache'[g] = cache[g] /\ (g \in skipped' => g \in skipped)
<1>1. /\ cache \in [Groups -> Subs \cup {Failed, None}]
      /\ \A t \in Threads : pc[t] \in {"hook", "lock", "write"} => group[t] \in Groups
      /\ Events \subseteq Threads
  BY DEF FreshInv, TypeOK, Busy, Threads
<1>2. CASE UNCHANGED <<cache, skipped>>
  BY <1>2
<1>3. ASSUME NEW e \in Events, SkipUpdate(e)
      PROVE  /\ cache' = cache
             /\ \A g \in Groups : Settled(g) => (g \in skipped' => g \in skipped)
  BY <1>1, <1>3 DEF SkipUpdate, Settled
<1>4. ASSUME NEW t \in Threads, ReadAbout(t)
      PROVE  cache' = cache /\ skipped' \subseteq skipped
  BY <1>4 DEF ReadAbout
<1>5. ASSUME NEW t \in Threads, WriteCache(t)
      PROVE  /\ \E g \in Groups, c \in Subs \cup {Failed, None} : cache' = [cache EXCEPT ![g] = c]
             /\ \A g \in Groups : Settled(g) => cache'[g] = cache[g]
             /\ skipped' = skipped
  <2>1. group[t] \in Groups /\ Parsed(read[t]) \in Subs \cup {Failed}
    BY <1>1, <1>5 DEF WriteCache, Parsed
  <2>2. cache' = [cache EXCEPT ![group[t]] = Parsed(read[t])] /\ skipped' = skipped
    BY <1>5 DEF WriteCache
  <2>3. ASSUME NEW g \in Groups, Settled(g) PROVE g # group[t]
    BY <1>5, <2>3 DEF WriteCache, Settled
  <2> QED
    BY <1>1, <2>1, <2>2, <2>3
<1>6. ASSUME NEW e \in Events, RemoveGroup(e)
      PROVE  /\ \E g \in Groups, c \in Subs \cup {Failed, None} : cache' = [cache EXCEPT ![g] = c]
             /\ \A g \in Groups : Settled(g) =>
                  cache'[g] = cache[g] /\ (g \in skipped' => g \in skipped)
  <2>1. group[e] \in Groups
    BY <1>1, <1>6 DEF RemoveGroup
  <2>2. /\ cache' = [cache EXCEPT ![group[e]] = None]
        /\ skipped' \subseteq skipped \cup {group[e]}
    BY <1>6 DEF RemoveGroup
  <2>3. ASSUME NEW g \in Groups, Settled(g) PROVE g # group[e]
    BY <1>1, <1>6, <2>3 DEF RemoveGroup, Settled
  <2> QED
    BY <1>1, <2>1, <2>2, <2>3
<1>7. ASSUME NEW e \in Events, Relay29(e) \/ CallMatcher(e) PROVE UNCHANGED <<cache, skipped>>
  BY <1>7 DEF Relay29, ApplyCreate, ApplyEdit, ApplyDelete, Apply, CallMatcher
<1>8. ASSUME NEW g \in Groups, Visit(g) PROVE UNCHANGED <<cache, skipped>>
  BY <1>8 DEF Visit
<1> QED
  BY <1>2, <1>3, <1>4, <1>5, <1>6, <1>7, <1>8 DEF Next, Hook

LEMMA HeldAsRecorded == UNCHANGED <<now, lastPush>> => Held' = Held
BY DEF Held, Limiter!Limited

LEMMA HeldShrinks == Limiter!TypeOK /\ LimiterStep => Held' \subseteq Held
<1> SUFFICES ASSUME Limiter!TypeOK, LimiterStep, NEW d \in Devices, Limiter!Limited(d)'
             PROVE  Limiter!Limited(d)
  BY DEF Held
<1>1. now \in Nat /\ lastPush \in [Devices -> Nat \cup {-1}] /\ Limit \in Nat
  BY ForwardingAssumption DEF Limiter!TypeOK, Limiter!Never
<1>2. CASE \E e \in Devices : Limiter!DeliverLate(e)
  BY <1>2 DEF Limiter!DeliverLate, Limiter!Limited
<1>3. ASSUME NEW s \in Shards, Limiter!CleanShard(s) PROVE Limiter!Limited(d)
  BY <1>3 DEF Limiter!CleanShard, Limiter!Limited, Limiter!Never
<1>4. CASE Limiter!Tick
  <2>1. lastPush[d] # -1 /\ (now + 1) - lastPush[d] < Limit
    BY <1>4 DEF Limiter!Tick, Limiter!Limited, Limiter!Never
  <2> QED
    BY <1>1, <2>1 DEF Limiter!Limited, Limiter!Never
<1> QED
  BY <1>2, <1>3, <1>4 DEF LimiterStep

-----------------------------------------------------------------------------
(* The workers are those of Delivery                                         *)

(* HadCurrent of DeliveryProofs: a group that waits keeps record of its REQs. *)
RegardsCache ==
  \A w \in Workers : \A g \in todo[w] : Req(g) # None => Req(g) \in had[w][g]

(* A change of the cache is a new REQ for one group, or the end of its REQ.  *)
LEMMA CacheAsResubscribe ==
  ASSUME FreshInv, Job!JobTypeOK, RegardsCache, SubscriptionStep
  PROVE  [Job!DeliveryNext]_(Job!allVars)
<1>1. had' = [w \in Workers |-> [g \in Groups |->
                IF g \in todo[w] THEN had[w][g] \cup ({cache'[g]} \cap Subs) ELSE had[w][g]]]
  BY DEF SubscriptionStep
<1>2. Held' = Held /\ UNCHANGED <<presenceVars, loopVars>>
  BY HeldAsRecorded DEF SubscriptionStep, limiterVars
<1>3. /\ had \in [Workers -> [Groups -> SUBSET Subs]]
      /\ todo \in [Workers -> SUBSET Groups]
      /\ None \notin Subs /\ Failed \notin Subs
      /\ cache \in [Groups -> Subs \cup {Failed, None}]
  BY SubscriptionsAssumption DEF FreshInv, TypeOK, Job!JobTypeOK, Abouts
<1>4. ASSUME NEW w \in Workers, NEW g \in todo[w]
      PROVE  had[w][g] \cup ({cache[g]} \cap Subs) = had[w][g]
  <2>1. cache[g] \in Subs => cache[g] \in had[w][g]
    BY <1>3 DEF RegardsCache, Req
  <2> QED
    BY <2>1
<1>5. CASE cache' = cache
  <2>1. ASSUME NEW w \in Workers, NEW g \in Groups PROVE had'[w][g] = had[w][g]
    BY <1>1, <1>4, <1>5
  <2>2. had' = had
    BY <1>1, <1>3, <2>1
  <2>3. [g \in Groups |-> Req(g)]' = [g \in Groups |-> Req(g)]
    BY <1>5 DEF Req
  <2> QED
    BY <1>2, <2>2, <2>3
       DEF Job!allVars, Job!vars, Job!connVars, Job!deliveryVars, Job!jobVars, presenceVars, loopVars
<1>6. ASSUME NEW g \in Groups, NEW c \in Subs \cup {Failed, None}, cache' = [cache EXCEPT ![g] = c]
      PROVE  Job!DeliveryNext
  <2> DEFINE s == IF c \in Subs THEN c ELSE None
  <2>1. cache'[g] = c /\ \A h \in Groups \ {g} : cache'[h] = cache[h]
    BY <1>3, <1>6
  <2>2. [h \in Groups |-> Req(h)]' = [[h \in Groups |-> Req(h)] EXCEPT ![g] = s]
    BY <2>1 DEF Req
  <2>3. ASSUME NEW w \in Workers
        PROVE  had'[w] = IF g \in todo[w] THEN [had[w] EXCEPT ![g] = @ \cup ({s} \ {None})]
                                          ELSE had[w]
    <3>1. ASSUME NEW h \in Groups \ {g} PROVE had'[w][h] = had[w][h]
      BY <1>1, <1>4, <2>1
    <3>2. had'[w][g] = IF g \in todo[w] THEN had[w][g] \cup ({s} \ {None}) ELSE had[w][g]
      BY <1>1, <1>3, <2>1
    <3>3. had'[w] = [h \in Groups |-> had'[w][h]] /\ had[w] \in [Groups -> SUBSET Subs]
      BY <1>1, <1>3
    <3> QED
      BY <3>1, <3>2, <3>3
  <2>4. had' = [w \in Workers |->
                  IF g \in todo[w] THEN [had[w] EXCEPT ![g] = @ \cup ({s} \ {None})] ELSE had[w]]
    BY <1>1, <2>3
  <2>5. Job!Resubscribe(g, s)
    BY <1>2, <2>2, <2>4
       DEF Job!Resubscribe, Job!vars, Job!connVars, Job!jobVars, presenceVars, loopVars
  <2>6. s \in [h \in Groups |-> Subs][g] \cup {None}
    OBVIOUS
  <2> QED
    BY <2>5, <2>6 DEF Job!DeliveryNext
<1> QED
  BY <1>5, <1>6, OneEntry DEF SubscriptionStep

LEMMA WorksAsDelivery ==
  ASSUME FreshInv, Job!JobTypeOK, Limiter!TypeOK, RegardsCache, [ForwardingNext]_forwardingVars
  PROVE  [Job!DeliveryNext]_(Job!allVars)
<1>1. ASSUME NEW w \in Workers, WorkerStep(w) PROVE [Job!DeliveryNext]_(Job!allVars)
  <2>1. ASSUME NEW e \in Messages, Match(w, e) PROVE Job!Match(w, e)
    BY <2>1 DEF Match
  <2>2. CASE Decide(w) \/ Request(w) \/ Pushed(w) \/ RecordPush(w) \/ PushFailed(w)
    BY <2>2 DEF Decide, Request, Pushed, RecordPush, PushFailed, Job!DeliveryNext, Job!Forward
  <2>3. CASE Deliver(w)
    <3>1. Held' = Held /\ UNCHANGED <<cache, presenceVars, loopVars, had>>
      BY <2>3, HeldAsRecorded DEF Deliver, Limiter!Deliver, vars
    <3>2. [g \in Groups |-> Req(g)]' = [g \in Groups |-> Req(g)]
      BY <3>1 DEF Req
    <3> QED
      BY <3>1, <3>2
         DEF Job!allVars, Job!vars, Job!connVars, Job!deliveryVars, Job!jobVars, presenceVars, loopVars
  <2> QED
    BY <1>1, <2>1, <2>2, <2>3 DEF WorkerStep, Job!DeliveryNext
<1>2. CASE SubscriptionStep
  BY <1>2, CacheAsResubscribe
<1>3. CASE LimiterStep
  <2>1. Held' \subseteq Held
    BY <1>3, HeldShrinks
  <2>2. UNCHANGED <<cache, presenceVars, loopVars, had>>
    BY <1>3 DEF LimiterStep, vars
  <2>3. [g \in Groups |-> Req(g)]' = [g \in Groups |-> Req(g)]
    BY <2>2 DEF Req
  <2>4. Job!LimitPasses
    BY <2>1, <2>2, <2>3
       DEF Job!LimitPasses, Job!vars, Job!connVars, Job!jobVars, presenceVars, loopVars
  <2> QED
    BY <2>4 DEF Job!DeliveryNext
<1>4. CASE ConnectionStep \/ UNCHANGED forwardingVars
  <2>1. Held' = Held /\ UNCHANGED <<cache, loopVars, had>>
    BY <1>4, HeldAsRecorded DEF ConnectionStep, forwardingVars, limiterVars, vars
  <2>2. [g \in Groups |-> Req(g)]' = [g \in Groups |-> Req(g)]
    BY <2>1 DEF Req
  <2>3. UNCHANGED (Job!deliveryVars)
    BY <2>1, <2>2 DEF Job!deliveryVars, Job!jobVars, loopVars
  <2>4. CASE ConnectionStep
    BY <2>3, <2>4 DEF ConnectionStep, Job!ConnectionStep, Job!DeliveryNext
  <2>5. CASE UNCHANGED forwardingVars
    BY <2>3, <2>5 DEF forwardingVars, presenceVars, Job!allVars, Job!vars, Job!connVars
  <2> QED
    BY <1>4, <2>4, <2>5
<1> QED
  BY <1>1, <1>2, <1>3, <1>4 DEF ForwardingNext

-----------------------------------------------------------------------------
(* Types                                                                     *)

(* A worker is done with a group of its loop, or takes the next step for it. *)
LEMMA LoopTypes ==
  ASSUME Job!JobTypeOK, RegardsCache, NEW w \in Workers, Job!Forward(w)
  PROVE  Job!JobTypeOK' /\ RegardsCache'
<1>1. ASSUME NEW g \in todo[w], Job!GoOn(w, g), Held' \subseteq Devices,
             UNCHANGED <<canSign, [h \in Groups |-> Req(h)], jobs>>
      PROVE  Job!JobTypeOK' /\ RegardsCache'
  <2>1. Job!JobTypeOK'
    BY <1>1 DEF Job!JobTypeOK, Job!GoOn
  <2>2. /\ \A h \in Groups : Req(h)' = Req(h)
        /\ todo' = [todo EXCEPT ![w] = @ \ {g}] /\ had' = [had EXCEPT ![w][g] = {}]
    BY <1>1 DEF Job!GoOn
  <2>3. RegardsCache'
    BY <2>2 DEF Job!JobTypeOK, RegardsCache
  <2> QED
    BY <2>1, <2>3
<1>2. ASSUME NEW g \in Groups, Job!Unsigned(w, g) \/ Job!Broadcast(w, g)
      PROVE  Job!JobTypeOK' /\ RegardsCache'
  BY <1>1, <1>2 DEF Job!JobTypeOK, Job!Unsigned, Job!Broadcast
<1>3. CASE Job!NoToken(w) \/ Job!HeldBack(w) \/ Job!PushFailed(w) \/ Job!RecordPush(w)
  <2>1. target[w] \in todo[w] /\ token[w] \in Devices \cup {NoDevice}
    BY <1>3 DEF Job!JobTypeOK, Job!NoToken, Job!HeldBack, Job!PushFailed, Job!RecordPush
  <2>2. Held' \subseteq Devices
    BY DEF Held
  <2> QED
    BY <1>1, <1>3, <2>1, <2>2 DEF Job!NoToken, Job!HeldBack, Job!PushFailed, Job!RecordPush
<1>4. ASSUME UNCHANGED <<canSign, [h \in Groups |-> Req(h)], todo, jobs, due, had>>,
             at' \in [Workers -> {"idle", "choose", "token", "check", "send", "record"}],
             target' \in [Workers -> Groups \cup {None}],
             token' \in [Workers -> Devices \cup {NoDevice}],
             at'[w] # "idle", todo[w] # {}, target'[w] \in todo[w],
             at'[w] # "token" => token'[w] \in Devices,
             \A v \in Workers \ {w} : at'[v] = at[v] /\ target'[v] = target[v] /\ token'[v] = token[v]
      PROVE  Job!JobTypeOK' /\ RegardsCache'
  <2>1. Job!JobTypeOK'
    BY <1>4 DEF Job!JobTypeOK, Held
  <2>2. \A h \in Groups : Req(h)' = Req(h)
    BY <1>4
  <2> QED
    BY <1>4, <2>1, <2>2 DEF Job!JobTypeOK, RegardsCache
<1>5. ASSUME NEW g \in Groups, Job!Offline(w, g) PROVE Job!JobTypeOK' /\ RegardsCache'
  BY <1>4, <1>5 DEF Job!JobTypeOK, Job!Offline
<1>6. CASE Job!ReadToken(w)
  <2>1. target[w] \in todo[w] /\ todo[w] \subseteq Groups
    BY <1>6 DEF Job!JobTypeOK, Job!ReadToken
  <2>2. Job!DeviceToken(target[w]) \in Devices
    <3>1. Req(target[w]) \in Subs \cup {None}
      BY DEF Req
    <3> QED
      BY <1>6, <2>1, <3>1, ForwardingAssumption DEF Job!ReadToken, Job!DeviceToken
  <2> QED
    BY <1>4, <1>6, <2>1, <2>2 DEF Job!JobTypeOK, Job!ReadToken
<1>7. CASE Job!Allowed(w) \/ Job!Pushed(w)
  BY <1>4, <1>7 DEF Job!JobTypeOK, Job!Allowed, Job!Pushed
<1> QED
  BY <1>2, <1>3, <1>5, <1>6, <1>7 DEF Job!Forward

LEMMA JobTypes ==
  ASSUME Job!JobTypeOK, RegardsCache, [Job!DeliveryNext]_(Job!allVars)
  PROVE  Job!JobTypeOK' /\ RegardsCache'
<1>1. \A g \in Groups : Req(g) \in Subs \cup {None} /\ Req(g)' \in Subs \cup {None}
  BY DEF Req
<1>2. ASSUME NEW w \in Workers, NEW e \in Messages, Job!Match(w, e)
      PROVE  Job!JobTypeOK' /\ RegardsCache'
  <2>1. PICK matching \in SUBSET {g \in Groups : [h \in Groups |-> Req(h)][g] \in Wants[e]} :
          /\ at[w] = "idle"
          /\ jobs' = jobs + 1
          /\ todo' = [todo EXCEPT ![w] = matching]
          /\ at' = [at EXCEPT ![w] = IF matching = {} THEN "idle" ELSE "choose"]
          /\ due' = [due EXCEPT ![w] = matching]
          /\ had' = [had EXCEPT ![w] = [g \in Groups |->
                       IF g \in matching THEN {[h \in Groups |-> Req(h)][g]} ELSE {}]]
          /\ UNCHANGED <<canSign, [h \in Groups |-> Req(h)], Held, target, token>>
    BY <1>2 DEF Job!Match
  <2>2. matching \subseteq Groups /\ \A g \in matching : Req(g) \in Subs
    BY ForwardingAssumption
  <2>3. Job!JobTypeOK'
    BY <2>1, <2>2 DEF Job!JobTypeOK
  <2>4. \A g \in Groups : Req(g)' = Req(g)
    BY <2>1
  <2>5. RegardsCache'
    BY <2>1, <2>2, <2>4 DEF Job!JobTypeOK, RegardsCache
  <2> QED
    BY <2>3, <2>5
<1>3. ASSUME NEW g \in Groups, NEW s, Job!Resubscribe(g, s)
      PROVE  Job!JobTypeOK' /\ RegardsCache'
  <2>1. /\ [h \in Groups |-> Req(h)]' = [[h \in Groups |-> Req(h)] EXCEPT ![g] = s]
        /\ had' = [w \in Workers |->
                     IF g \in todo[w] THEN [had[w] EXCEPT ![g] = @ \cup ({s} \ {None})] ELSE had[w]]
        /\ UNCHANGED <<canSign, Held, at, todo, target, token, due, jobs>>
    BY <1>3 DEF Job!Resubscribe, Job!jobVars
  <2>2. Req(g)' = s /\ \A h \in Groups \ {g} : Req(h)' = Req(h)
    BY <2>1
  <2>3. had' \in [Workers -> [Groups -> SUBSET Subs]]
    BY <1>1, <2>1, <2>2 DEF Job!JobTypeOK
  <2>4. Job!JobTypeOK'
    BY <1>1, <2>1, <2>3 DEF Job!JobTypeOK
  <2>5. RegardsCache'
    <3> SUFFICES ASSUME NEW w \in Workers, NEW h \in todo[w], Req(h)' # None
                 PROVE  Req(h)' \in had'[w][h]
      BY <2>1 DEF RegardsCache
    <3>1. h \in Groups /\ had[w] \in [Groups -> SUBSET Subs]
      BY DEF Job!JobTypeOK
    <3>2. CASE h = g
      BY <2>1, <2>2, <3>1, <3>2
    <3>3. CASE h # g
      BY <2>1, <2>2, <3>1, <3>3 DEF RegardsCache
    <3> QED
      BY <3>2, <3>3
  <2> QED
    BY <2>4, <2>5
<1>4. CASE Job!LimitPasses \/ Job!ConnectionStep \/ UNCHANGED (Job!allVars)
  <2>1. /\ UNCHANGED <<canSign, [h \in Groups |-> Req(h)], at, todo, target, token, due, jobs, had>>
        /\ Held' \subseteq Devices
    BY <1>4 DEF Job!LimitPasses, Job!ConnectionStep, Job!allVars, Job!deliveryVars, Job!jobVars, Held
  <2>2. \A g \in Groups : Req(g)' = Req(g)
    BY <2>1
  <2> QED
    BY <2>1, <2>2 DEF Job!JobTypeOK, RegardsCache
<1> QED
  BY <1>2, <1>3, <1>4, LoopTypes DEF Job!DeliveryNext

LimiterInv ==
  /\ Limiter!TypeOK
  /\ \A w \in Workers : call[w] = "delivered" => place[w] \in 1 .. Len(delivered)
  /\ \A d \in Devices : lastPush[d] <= now

LEMMA LimiterTypes ==
  ASSUME LimiterInv, [Limiter!Next]_limiterVars
  PROVE  LimiterInv'
<1> USE DEF LimiterInv, Limiter!TypeOK, Limiter!Never
<1>1. ASSUME NEW w \in Workers, NEW d \in Devices, Limiter!CheckLimit(w, d) PROVE LimiterInv'
  BY <1>1 DEF Limiter!CheckLimit
<1>2. ASSUME NEW w \in Workers, Limiter!Deliver(w) PROVE LimiterInv'
  <2>1. [dev |-> dialled[w], by |-> w, at |-> now] \in Limiter!Delivery
    BY DEF Limiter!Delivery
  <2>2. delivered' \in Seq(Limiter!Delivery) /\ Len(delivered') = Len(delivered) + 1
    BY <1>2, <2>1 DEF Limiter!Deliver
  <2> QED
    BY <1>2, <2>2 DEF Limiter!Deliver
<1>3. ASSUME NEW w \in Workers, Limiter!Record(w) PROVE LimiterInv'
  <2>1. /\ lastPush' = [lastPush EXCEPT ![dialled[w]] = now]
        /\ acked' = acked \cup {place[w]}
        /\ call' = [call EXCEPT ![w] = "idle"]
        /\ UNCHANGED <<now, dialled, place, pending, requests, delivered>>
    BY <1>3 DEF Limiter!Record
  <2>2. acked' \subseteq 1 .. Len(delivered)
    BY <1>3, <2>1 DEF Limiter!Record
  <2>3. lastPush' \in [Devices -> Nat \cup {-1}] /\ \A d \in Devices : lastPush'[d] <= now
    BY <2>1
  <2> QED
    BY <2>1, <2>2, <2>3
<1>4. ASSUME NEW w \in Workers, Limiter!Refused(w) \/ Limiter!TimeOut(w) \/ Limiter!LoseAnswer(w)
      PROVE  LimiterInv'
  <2>1. /\ call' = [call EXCEPT ![w] = "idle"]
        /\ pending' \in [Devices -> Nat]
        /\ UNCHANGED <<now, lastPush, dialled, place, requests, delivered, acked>>
    BY <1>4 DEF Limiter!Refused, Limiter!TimeOut, Limiter!LoseAnswer
  <2> QED
    BY <2>1
<1>5. ASSUME NEW d \in Devices, Limiter!DeliverLate(d) PROVE LimiterInv'
  <2>1. [dev |-> d, by |-> Late, at |-> now] \in Limiter!Delivery
    BY DEF Limiter!Delivery
  <2>2. delivered' \in Seq(Limiter!Delivery) /\ Len(delivered') = Len(delivered) + 1
    BY <1>5, <2>1 DEF Limiter!DeliverLate
  <2> QED
    BY <1>5, <2>2 DEF Limiter!DeliverLate, Limiter!callVars
<1>6. ASSUME NEW s \in Shards, Limiter!CleanShard(s) PROVE LimiterInv'
  <2>1. lastPush' = [d \in Devices |->
          IF ShardOf[d] = s /\ Limiter!Expired(d) THEN -1 ELSE lastPush[d]]
    BY <1>6 DEF Limiter!CleanShard
  <2>2. lastPush' \in [Devices -> Nat \cup {-1}] /\ \A d \in Devices : lastPush'[d] <= now
    <3> DEFINE gone(d) == ShardOf[d] = s /\ Limiter!Expired(d)
    <3>1. lastPush' = [d \in Devices |-> IF gone(d) THEN -1 ELSE lastPush[d]]
      BY <2>1
    <3> HIDE DEF gone
    <3> QED
      BY <3>1
  <2>3. UNCHANGED <<now, call, dialled, place, pending, requests, delivered, acked>>
    BY <1>6 DEF Limiter!CleanShard, Limiter!callVars
  <2> QED
    BY <2>2, <2>3
<1>7. CASE Limiter!Tick
  <2>1. now' = now + 1 /\ UNCHANGED lastPush
    BY <1>7 DEF Limiter!Tick
  <2>2. UNCHANGED <<call, dialled, place, pending, requests, delivered, acked>>
    BY <1>7 DEF Limiter!Tick, Limiter!callVars
  <2>3. ASSUME NEW d \in Devices PROVE lastPush'[d] <= now'
    <3>1. now \in Nat /\ lastPush[d] \in Int /\ lastPush[d] <= now
      OBVIOUS
    <3> QED
      BY <2>1, <3>1
  <2>4. Limiter!TypeOK'
    BY <2>1, <2>2
  <2> QED
    BY <2>2, <2>3, <2>4
<1>8. CASE UNCHANGED limiterVars
  BY <1>8 DEF limiterVars
<1> QED
  BY <1>1, <1>2, <1>3, <1>4, <1>5, <1>6, <1>7, <1>8 DEF Limiter!Next, Limiter!PushNotification

(* A caller that waits for its answer knows the delivery it caused, so that  *)
(* a recorded time belongs to a delivery to that device.                     *)
OwnPlace(w) ==
  call[w] = "delivered" =>
    delivered[place[w]].dev = dialled[w] /\ delivered[place[w]].at <= now

RecordsReal == Limiter!NoPhantomLimit /\ \A w \in Workers : OwnPlace(w)

LEMMA RecordsStayReal ==
  ASSUME LimiterInv, RecordsReal, [Limiter!Next]_limiterVars
  PROVE  RecordsReal'
<1> USE DEF RecordsReal, OwnPlace, Limiter!NoPhantomLimit, Limiter!Never
<1>0. /\ now \in Nat /\ lastPush \in [Devices -> Nat \cup {-1}]
      /\ call \in [Workers -> {"idle", "sending", "delivered"}]
      /\ dialled \in [Workers -> Devices] /\ place \in [Workers -> Nat]
      /\ delivered \in Seq(Limiter!Delivery) /\ acked \subseteq 1 .. Len(delivered)
      /\ \A i \in 1 .. Len(delivered) : delivered[i].at \in Nat
      /\ \A w \in Workers : call[w] = "delivered" => place[w] \in 1 .. Len(delivered)
  <2>1. delivered \in Seq(Limiter!Delivery) /\ \A i \in 1 .. Len(delivered) :
          delivered[i] \in Limiter!Delivery
    BY DEF LimiterInv, Limiter!TypeOK
  <2>2. \A i \in 1 .. Len(delivered) : delivered[i].at \in Nat
    BY <2>1 DEF Limiter!Delivery
  <2> QED
    BY <2>1, <2>2 DEF LimiterInv, Limiter!TypeOK
<1>1. ASSUME NEW d \in Devices, NEW by \in Workers \cup {Late},
             delivered' = Append(delivered, [dev |-> d, by |-> by, at |-> now]),
             UNCHANGED <<now, lastPush, dialled, acked>>,
             \A w \in Workers : \/ call'[w] = call[w] /\ place'[w] = place[w]
                                \/ place'[w] = Len(delivered) + 1 /\ dialled[w] = d
      PROVE  RecordsReal'
  <2>1. /\ \A i \in 1 .. Len(delivered) : delivered'[i] = delivered[i]
        /\ delivered'[Len(delivered) + 1] = [dev |-> d, by |-> by, at |-> now]
    BY <1>0, <1>1
  <2>2. Limiter!NoPhantomLimit'
    BY <1>0, <1>1, <2>1
  <2>3. ASSUME NEW w \in Workers PROVE OwnPlace(w)'
    BY <1>0, <1>1, <2>1
  <2> QED
    BY <2>2, <2>3
<1>2. ASSUME NEW w \in Workers, Limiter!Deliver(w) PROVE RecordsReal'
  BY <1>0, <1>1, <1>2 DEF Limiter!Deliver
<1>3. ASSUME NEW d \in Devices, Limiter!DeliverLate(d) PROVE RecordsReal'
  BY <1>1, <1>3 DEF Limiter!DeliverLate, Limiter!callVars
<1>4. ASSUME NEW w \in Workers, Limiter!Record(w) PROVE RecordsReal'
  <2>1. /\ call[w] = "delivered"
        /\ lastPush' = [lastPush EXCEPT ![dialled[w]] = now]
        /\ acked' = acked \cup {place[w]}
        /\ call' = [call EXCEPT ![w] = "idle"]
        /\ UNCHANGED <<now, dialled, place, delivered>>
    BY <1>4 DEF Limiter!Record
  <2>2. ASSUME NEW d \in Devices, lastPush'[d] # -1
        PROVE  \E i \in acked' : delivered[i].dev = d /\ delivered[i].at <= lastPush'[d]
    <3>1. CASE d = dialled[w]
      BY <1>0, <2>1, <3>1
    <3>2. CASE d # dialled[w]
      BY <1>0, <2>1, <2>2, <3>2
    <3> QED
      BY <3>1, <3>2
  <2>3. \A v \in Workers : OwnPlace(v)'
    BY <1>0, <2>1
  <2> QED
    BY <2>1, <2>2, <2>3
<1>5. ASSUME UNCHANGED <<now, delivered, acked, lastPush>>,
             \A w \in Workers : call'[w] = "delivered" =>
               call[w] = "delivered" /\ place'[w] = place[w] /\ dialled'[w] = dialled[w]
      PROVE  RecordsReal'
  BY <1>5
<1>6. ASSUME NEW w \in Workers, NEW d \in Devices, Limiter!CheckLimit(w, d) PROVE RecordsReal'
  <2>1. /\ call' = [call EXCEPT ![w] = "sending"]
        /\ dialled' = [dialled EXCEPT ![w] = d]
        /\ UNCHANGED <<now, lastPush, place, delivered, acked>>
    BY <1>6 DEF Limiter!CheckLimit
  <2> QED
    BY <1>0, <1>5, <2>1
<1>7. ASSUME NEW w \in Workers, Limiter!Refused(w) \/ Limiter!TimeOut(w) \/ Limiter!LoseAnswer(w)
      PROVE  RecordsReal'
  <2>1. /\ call' = [call EXCEPT ![w] = "idle"]
        /\ UNCHANGED <<now, lastPush, dialled, place, delivered, acked>>
    BY <1>7 DEF Limiter!Refused, Limiter!TimeOut, Limiter!LoseAnswer
  <2> QED
    BY <1>0, <1>5, <2>1
<1>8. ASSUME NEW s \in Shards, Limiter!CleanShard(s) PROVE RecordsReal'
  <2>1. \A d \in Devices : lastPush'[d] \in {lastPush[d], -1}
    BY <1>8 DEF Limiter!CleanShard
  <2>2. UNCHANGED <<now, call, dialled, place, delivered, acked>>
    BY <1>8 DEF Limiter!CleanShard, Limiter!callVars
  <2> QED
    BY <2>1, <2>2
<1>9. CASE Limiter!Tick
  <2>1. /\ now' = now + 1
        /\ UNCHANGED <<lastPush, call, dialled, place, delivered, acked>>
    BY <1>9 DEF Limiter!Tick, Limiter!callVars
  <2>2. \A w \in Workers : OwnPlace(w)'
    BY <1>0, <2>1
  <2> QED
    BY <2>1, <2>2
<1>10. CASE UNCHANGED limiterVars
  BY <1>10 DEF limiterVars
<1> QED
  BY <1>2, <1>3, <1>4, <1>6, <1>7, <1>8, <1>9, <1>10 DEF Limiter!Next, Limiter!PushNotification

-----------------------------------------------------------------------------
(* The inductive invariant of the composition                                *)

(* A worker's request is the limiter's call, for the token the worker read.  *)
CallsMatch ==
  \A w \in Workers :
    /\ Calling(w) <=> at[w] \in {"send", "record"}
    /\ Calling(w) => dialled[w] = token[w]
    /\ at[w] = "record" => call[w] = "delivered"

(* While a group stays settled its entry, read at the match and again for    *)
(* the token, stays what it was.                                             *)
QuietOK ==
  \A w \in Workers : \A g \in quiet[w] :
    /\ Settled(g) /\ g \notin skipped
    /\ g \in todo[w] => cache[g] \in Wants[job[w]]
    /\ at[w] \in {"check", "send", "record"} /\ target[w] = g => token[w] = TokenOf[cache[g]]

HistoryOK ==
  /\ job \in [Workers -> Messages]
  /\ quiet \in [Workers -> SUBSET Groups]

ForwardingInv ==
  /\ FreshInv /\ Job!JobTypeOK /\ RegardsCache /\ LimiterInv /\ RecordsReal
  /\ CallsMatch /\ HistoryOK /\ QuietOK

LEMMA ForwardingStarts == ForwardingInit => ForwardingInv
<1> SUFFICES ASSUME ForwardingInit PROVE ForwardingInv
  OBVIOUS
<1>1. Init /\ Limiter!Init /\ Job!DeliveryInit
  BY DEF ForwardingInit
<1>2. /\ at = [w \in Workers |-> "idle"]
      /\ todo = [w \in Workers |-> {}]
      /\ call = [w \in Workers |-> "idle"]
      /\ job \in [Workers -> Messages] /\ quiet = [w \in Workers |-> {}]
  BY <1>1 DEF ForwardingInit, Job!DeliveryInit, Limiter!Init
<1>3. FreshInv
  BY <1>1, FreshInit
<1>4. Job!JobTypeOK
  <2>1. [g \in Groups |-> Req(g)] \in [Groups -> Subs \cup {None}] /\ Held \subseteq Devices
    BY DEF Req, Held
  <2> QED
    BY <1>1, <2>1 DEF Job!DeliveryInit, Job!JobTypeOK
<1>5. LimiterInv
  <2>1. (CHOOSE d \in Devices : TRUE) \in Devices
    BY ForwardingAssumption
  <2> QED
    BY <1>1, <2>1 DEF Limiter!Init, LimiterInv, Limiter!TypeOK, Limiter!Never
<1>6. RecordsReal
  BY <1>1 DEF Limiter!Init, RecordsReal, OwnPlace, Limiter!NoPhantomLimit
<1> QED
  BY <1>2, <1>3, <1>4, <1>5, <1>6
     DEF ForwardingInv, RegardsCache, CallsMatch, Calling, HistoryOK, QuietOK

(* A worker's step leaves the others alone ...                               *)
LEMMA OwnStep ==
  ASSUME Job!JobTypeOK, LimiterInv, HistoryOK, NEW w \in Workers, WorkerStep(w),
         NEW v \in Workers \ {w}
  PROVE  /\ at'[v] = at[v] /\ todo'[v] = todo[v] /\ target'[v] = target[v] /\ token'[v] = token[v]
         /\ call'[v] = call[v] /\ dialled'[v] = dialled[v]
         /\ job'[v] = job[v] /\ quiet'[v] = quiet[v]
<1>1. ASSUME NEW e \in Messages, Match(w, e)
      PROVE  /\ at'[v] = at[v] /\ todo'[v] = todo[v] /\ UNCHANGED <<target, token, call, dialled>>
             /\ job'[v] = job[v] /\ quiet'[v] = quiet[v]
  BY <1>1 DEF Match, Job!Match, Job!JobTypeOK, HistoryOK, limiterVars
<1>2. CASE Decide(w)
  BY <1>2 DEF Decide, Job!JobTypeOK, Job!Unsigned, Job!Broadcast, Job!Offline, Job!ReadToken,
              Job!NoToken, Job!HeldBack, Job!GoOn, limiterVars
<1>3. CASE Request(w) \/ Deliver(w) \/ Pushed(w)
  BY <1>3 DEF Request, Deliver, Pushed, LimiterInv, Job!JobTypeOK, Job!Allowed, Job!Pushed,
              Limiter!TypeOK, Limiter!CheckLimit, Limiter!Deliver, limiterVars, loopVars
<1>4. CASE RecordPush(w) \/ PushFailed(w)
  <2>1. Job!GoOn(w, target[w]) /\ UNCHANGED <<job, quiet>>
    BY <1>4 DEF RecordPush, PushFailed, Job!RecordPush, Job!PushFailed
  <2>2. call' = [call EXCEPT ![w] = "idle"] /\ dialled' = dialled
    BY <1>4 DEF RecordPush, PushFailed, Limiter!Record, Limiter!Refused, Limiter!TimeOut,
                Limiter!LoseAnswer
  <2> QED
    BY <2>1, <2>2 DEF Job!GoOn, Job!JobTypeOK, LimiterInv, Limiter!TypeOK
<1> QED
  BY <1>1, <1>2, <1>3, <1>4 DEF WorkerStep

(* ... and goes through its loop in one of four ways: it matches, moves on   *)
(* without a call, opens one, or is done with a group.                       *)
LEMMA DecideEffect ==
  ASSUME Job!JobTypeOK, NEW w \in Workers, Decide(w)
  PROVE  /\ at[w] \in {"choose", "token", "check"}
         /\ at'[w] \in {"idle", "choose", "token", "check"}
         /\ todo'[w] \subseteq todo[w]
         /\ at'[w] = "check" =>
              /\ target'[w] = target[w]
              /\ Req(target[w]) # None /\ token'[w] = TokenOf[Req(target[w])]
         /\ UNCHANGED <<call, dialled, job, quiet>>
<1>1. ASSUME NEW g \in Groups, Job!Unsigned(w, g) \/ Job!Broadcast(w, g)
      PROVE  /\ at[w] = "choose" /\ at'[w] \in {"idle", "choose"} /\ todo'[w] \subseteq todo[w]
  BY <1>1 DEF Job!Unsigned, Job!Broadcast, Job!GoOn, Job!JobTypeOK
<1>2. ASSUME NEW g \in Groups, Job!Offline(w, g)
      PROVE  /\ at[w] = "choose" /\ at'[w] = "token" /\ todo' = todo
  BY <1>2 DEF Job!Offline, Job!JobTypeOK
<1>3. CASE Job!ReadToken(w)
  <2>1. /\ at[w] = "token" /\ at'[w] = "check" /\ todo' = todo /\ target' = target
        /\ token' = [token EXCEPT ![w] = Job!DeviceToken(target[w])]
        /\ Job!DeviceToken(target[w]) # NoDevice /\ target[w] \in Groups
    BY <1>3 DEF Job!ReadToken, Job!JobTypeOK
  <2>2. Req(target[w]) # None /\ token'[w] = TokenOf[Req(target[w])]
    BY <2>1 DEF Job!DeviceToken, Job!JobTypeOK
  <2> QED
    BY <2>1, <2>2 DEF Decide, limiterVars
<1>4. CASE Job!NoToken(w) \/ Job!HeldBack(w)
  BY <1>4 DEF Job!NoToken, Job!HeldBack, Job!GoOn, Job!JobTypeOK, Decide, limiterVars
<1> QED
  BY <1>1, <1>2, <1>3, <1>4 DEF Decide, limiterVars

LEMMA SendEffect ==
  ASSUME Job!JobTypeOK, LimiterInv, CallsMatch,
         NEW w \in Workers, Request(w) \/ Deliver(w) \/ Pushed(w)
  PROVE  /\ at[w] \in {"check", "send", "record"}
         /\ UNCHANGED <<todo, target, token, job, quiet>>
         /\ \/ at'[w] = "send" /\ call'[w] = "sending" /\ dialled'[w] = token[w]
            \/ /\ Calling(w) /\ at'[w] \in {at[w], "record"} /\ dialled' = dialled
               /\ call'[w] = "delivered"
<1>1. CASE Request(w)
  BY <1>1 DEF Request, Job!Allowed, Job!JobTypeOK, Limiter!CheckLimit, LimiterInv, Limiter!TypeOK
<1>2. CASE Deliver(w)
  BY <1>2 DEF Deliver, Limiter!Deliver, LimiterInv, Limiter!TypeOK, loopVars, CallsMatch, Calling
<1>3. CASE Pushed(w)
  BY <1>3 DEF Pushed, Job!Pushed, Job!JobTypeOK, limiterVars, Calling
<1> QED
  BY <1>1, <1>2, <1>3

LEMMA DoneEffect ==
  ASSUME Job!JobTypeOK, LimiterInv, NEW w \in Workers, RecordPush(w) \/ PushFailed(w)
  PROVE  /\ at'[w] \in {"idle", "choose"} /\ todo'[w] \subseteq todo[w]
         /\ call'[w] = "idle" /\ UNCHANGED <<job, quiet>>
<1>1. /\ Job!GoOn(w, target[w]) /\ call' = [call EXCEPT ![w] = "idle"]
      /\ UNCHANGED <<job, quiet>>
  BY DEF RecordPush, PushFailed, Job!RecordPush, Job!PushFailed, Limiter!Record, Limiter!Refused,
         Limiter!TimeOut, Limiter!LoseAnswer
<1> QED
  BY <1>1 DEF Job!GoOn, Job!JobTypeOK, LimiterInv, Limiter!TypeOK

LEMMA MatchEffect ==
  ASSUME Job!JobTypeOK, HistoryOK, NEW w \in Workers, NEW e \in Messages, Match(w, e)
  PROVE  /\ at[w] = "idle" /\ at'[w] \in {"idle", "choose"}
         /\ \A g \in todo'[w] : g \in Groups /\ cache[g] \in Wants[e]
         /\ job' = [job EXCEPT ![w] = e]
         /\ quiet' = [quiet EXCEPT ![w] = {g \in todo'[w] : Settled(g) /\ g \notin skipped}]
         /\ UNCHANGED <<call, dialled>>
<1>1. PICK matching \in SUBSET {g \in Groups : [h \in Groups |-> Req(h)][g] \in Wants[e]} :
        /\ at[w] = "idle"
        /\ todo' = [todo EXCEPT ![w] = matching]
        /\ at' = [at EXCEPT ![w] = IF matching = {} THEN "idle" ELSE "choose"]
  BY DEF Match, Job!Match
<1>2. todo'[w] = matching /\ at'[w] \in {"idle", "choose"}
  BY <1>1 DEF Job!JobTypeOK
<1>3. ASSUME NEW g \in matching PROVE g \in Groups /\ cache[g] \in Wants[e]
  <2>1. g \in Groups /\ Req(g) \in Wants[e]
    BY <1>1
  <2>2. Wants[e] \subseteq Subs /\ None \notin Subs
    BY ForwardingAssumption, SubscriptionsAssumption DEF Abouts
  <2> QED
    BY <2>1, <2>2 DEF Req
<1> QED
  BY <1>1, <1>2, <1>3 DEF Match, limiterVars

LEMMA WorkerKeeps ==
  ASSUME ForwardingInv, NEW w \in Workers, WorkerStep(w)
  PROVE  CallsMatch' /\ HistoryOK' /\ QuietOK'
<1>0. /\ Job!JobTypeOK /\ LimiterInv /\ CallsMatch /\ HistoryOK /\ QuietOK
      /\ \A v \in Workers : todo[v] \subseteq Groups /\ call[v] \in {"idle", "sending", "delivered"}
  BY DEF ForwardingInv, Job!JobTypeOK, LimiterInv, Limiter!TypeOK
<1>1. UNCHANGED vars
  BY DEF WorkerStep, Match, Decide, Request, Deliver, Pushed, RecordPush, PushFailed
<1>2. \A g \in Groups : Settled(g)' = Settled(g)
  BY <1>1 DEF vars, Settled
<1>3. HistoryOK'
  <2>1. ASSUME NEW e \in Messages, Match(w, e) PROVE HistoryOK'
    BY <1>0, <2>1, MatchEffect DEF HistoryOK
  <2>2. CASE UNCHANGED <<job, quiet>>
    BY <1>0, <2>2 DEF HistoryOK
  <2> QED
    BY <2>1, <2>2 DEF WorkerStep, Decide, Request, Deliver, Pushed, RecordPush, PushFailed
<1>4. CallsMatch'
  <2> SUFFICES /\ Calling(w)' <=> at'[w] \in {"send", "record"}
               /\ Calling(w)' => dialled'[w] = token'[w]
               /\ at'[w] = "record" => call'[w] = "delivered"
    BY <1>0, OwnStep DEF CallsMatch, Calling
  <2>1. ASSUME NEW e \in Messages, Match(w, e)
        PROVE  at[w] = "idle" /\ at'[w] \in {"idle", "choose"} /\ call' = call
    BY <1>0, <2>1, MatchEffect
  <2>2. CASE (\E e \in Messages : Match(w, e)) \/ Decide(w)
    BY <1>0, <2>1, <2>2, DecideEffect DEF CallsMatch, Calling
  <2>3. CASE Request(w) \/ Deliver(w) \/ Pushed(w)
    BY <1>0, <2>3, SendEffect DEF CallsMatch, Calling
  <2>4. CASE RecordPush(w) \/ PushFailed(w)
    BY <1>0, <2>4, DoneEffect DEF Calling
  <2> QED
    BY <2>2, <2>3, <2>4 DEF WorkerStep
<1>5. QuietOK'
  <2>1. ASSUME NEW v \in Workers \ {w}, NEW g \in quiet'[v]
        PROVE  /\ Settled(g)' /\ g \notin skipped'
               /\ g \in todo'[v] => cache'[g] \in Wants[job'[v]]
               /\ at'[v] \in {"check", "send", "record"} /\ target'[v] = g
                    => token'[v] = TokenOf[cache'[g]]
    <3>1. g \in quiet[v] /\ g \in Groups
      BY <1>0, <2>1, OwnStep DEF HistoryOK
    <3> QED
      BY <1>0, <1>1, <1>2, <3>1, OwnStep DEF QuietOK, vars
  <2>2. ASSUME NEW g \in quiet'[w]
        PROVE  /\ Settled(g)' /\ g \notin skipped'
               /\ g \in todo'[w] => cache'[g] \in Wants[job'[w]]
               /\ at'[w] \in {"check", "send", "record"} /\ target'[w] = g
                    => token'[w] = TokenOf[cache'[g]]
    <3>0. cache' = cache /\ skipped' = skipped
      BY <1>1 DEF vars
    <3>1. ASSUME NEW e \in Messages, Match(w, e)
          PROVE  /\ g \in todo'[w] /\ g \in Groups /\ Settled(g) /\ g \notin skipped
                 /\ cache[g] \in Wants[e] /\ job'[w] = e /\ at'[w] \in {"idle", "choose"}
      BY <1>0, <2>2, <3>1, MatchEffect DEF HistoryOK
    <3>2. CASE \E e \in Messages : Match(w, e)
      BY <1>2, <3>0, <3>1, <3>2
    <3>3. CASE ~\E e \in Messages : Match(w, e)
      <4>1. quiet' = quiet /\ job' = job /\ todo'[w] \subseteq todo[w]
        BY <1>0, <3>3, DecideEffect, SendEffect, DoneEffect DEF WorkerStep
      <4>2. g \in quiet[w] /\ g \in Groups
        BY <1>0, <4>1 DEF HistoryOK
      <4>3. ASSUME at'[w] \in {"check", "send", "record"}, target'[w] = g
            PROVE  token'[w] = TokenOf[cache[g]]
        <5>1. CASE Decide(w)
          BY <1>0, <4>3, <5>1, DecideEffect DEF Req
        <5>2. CASE Request(w) \/ Deliver(w) \/ Pushed(w)
          BY <1>0, <4>2, <4>3, <5>2, SendEffect DEF QuietOK
        <5>3. CASE RecordPush(w) \/ PushFailed(w)
          BY <1>0, <4>3, <5>3, DoneEffect
        <5> QED
          BY <3>3, <5>1, <5>2, <5>3 DEF WorkerStep
      <4> QED
        BY <1>0, <1>2, <3>0, <4>1, <4>2, <4>3 DEF QuietOK
    <3> QED
      BY <3>2, <3>3
  <2> QED
    BY <2>1, <2>2 DEF QuietOK
<1> QED
  BY <1>3, <1>4, <1>5

(* Hooks and loader, clock and connections touch no worker; a group that     *)
(* stays settled keeps its entry.                                            *)
LEMMA AroundKeeps ==
  ASSUME ForwardingInv,
         SubscriptionStep \/ LimiterStep \/ ConnectionStep \/ UNCHANGED forwardingVars
  PROVE  CallsMatch' /\ HistoryOK' /\ QuietOK'
<1>0. CallsMatch /\ HistoryOK /\ QuietOK /\ FreshInv
  BY DEF ForwardingInv
<1>1. UNCHANGED <<at, todo, target, token, call, dialled, job>>
  BY DEF SubscriptionStep, LimiterStep, ConnectionStep, forwardingVars, loopVars, limiterVars,
         Limiter!DeliverLate, Limiter!CleanShard, Limiter!Tick, Limiter!callVars
<1>2. CallsMatch'
  BY <1>0, <1>1 DEF CallsMatch, Calling
<1>3. CASE SubscriptionStep
  <2>1. Next /\ quiet' = [w \in Workers |-> {g \in quiet[w] : Settled(g)'}]
    BY <1>3 DEF SubscriptionStep
  <2>2. HistoryOK'
    BY <1>0, <1>1, <2>1 DEF HistoryOK
  <2>3. ASSUME NEW w \in Workers, NEW g \in quiet'[w]
        PROVE  /\ g \in quiet[w] /\ g \in Groups /\ Settled(g)'
               /\ cache'[g] = cache[g] /\ g \notin skipped'
    <3>1. g \in quiet[w] /\ g \in Groups /\ Settled(g)'
      BY <1>0, <2>1, <2>3 DEF HistoryOK
    <3>2. Settled(g) /\ g \notin skipped
      BY <1>0, <3>1 DEF QuietOK
    <3> QED
      BY <1>0, <2>1, <3>1, <3>2, OneEntry
  <2>4. QuietOK'
    BY <1>0, <1>1, <2>3 DEF QuietOK
  <2> QED
    BY <1>2, <2>2, <2>4
<1>4. CASE LimiterStep \/ ConnectionStep \/ UNCHANGED forwardingVars
  <2>1. UNCHANGED vars /\ quiet' = quiet
    BY <1>4 DEF LimiterStep, ConnectionStep, forwardingVars
  <2>2. UNCHANGED <<cache, skipped>> /\ \A g \in Groups : Settled(g)' = Settled(g)
    BY <2>1 DEF vars, Settled
  <2> QED
    BY <1>0, <1>1, <1>2, <2>1, <2>2 DEF HistoryOK, QuietOK
<1> QED
  BY <1>3, <1>4

LEMMA ForwardingStep == ForwardingInv /\ [ForwardingNext]_forwardingVars => ForwardingInv'
<1> SUFFICES ASSUME ForwardingInv, [ForwardingNext]_forwardingVars PROVE ForwardingInv'
  OBVIOUS
<1>1. FreshInv /\ Job!JobTypeOK /\ RegardsCache /\ LimiterInv /\ Limiter!TypeOK /\ RecordsReal
  BY DEF ForwardingInv, LimiterInv
<1>2. FreshInv'
  BY <1>1, ReadsCacheOnly, FreshStep
<1>3. Job!JobTypeOK' /\ RegardsCache'
  BY <1>1, WorksAsDelivery, JobTypes
<1>4. LimiterInv' /\ RecordsReal'
  BY <1>1, CallsAsLimited, LimiterTypes, RecordsStayReal
<1>5. CallsMatch' /\ HistoryOK' /\ QuietOK'
  BY WorkerKeeps, AroundKeeps DEF ForwardingNext
<1> QED
  BY <1>2, <1>3, <1>4, <1>5 DEF ForwardingInv

-----------------------------------------------------------------------------
(* Theorems about the composition                                            *)

(* In the whole server every variable keeps its type, and a worker has a     *)
(* request under way, for the token it read, exactly while it waits for the  *)
(* answer or records it.                                                     *)
THEOREM ForwardingTypeCorrect == ForwardingSpec => []ForwardingTypeOK
<1>1. ForwardingInv => ForwardingTypeOK
  BY DEF ForwardingInv, ForwardingTypeOK, FreshInv, LimiterInv, CallsMatch, HistoryOK
<1> QED
  BY <1>1, ForwardingStarts, ForwardingStep, PTL DEF ForwardingSpec

LEMMA QuietIsCurrent ==
  ASSUME ForwardingInv, NEW w \in Workers, NEW g \in quiet[w] \cap todo[w]
  PROVE  /\ g \in Groups /\ about[g] = cache[g] /\ about[g] \in Wants[job[w]]
         /\ at[w] \in {"check", "send", "record"} /\ target[w] = g => token[w] = TokenOf[about[g]]
<1>1. /\ g \in Groups /\ Settled(g) /\ g \notin skipped
      /\ cache[g] \in Wants[job[w]] /\ Wants[job[w]] \subseteq Subs
  BY ForwardingAssumption DEF ForwardingInv, HistoryOK, QuietOK
<1>2. about[g] # NoGroup /\ cache[g] = Parsed(about[g])
  BY <1>1, SettledFresh DEF ForwardingInv, FreshUnlessSkipped, NothingLeftBehind
<1>3. about[g] = cache[g]
  BY <1>1, <1>2, SubscriptionsAssumption DEF Parsed, Abouts
<1> QED
  BY <1>1, <1>3 DEF ForwardingInv, QuietOK

(* While no new event of a group comes, what is pushed about it is wanted by *)
(* its about field of now and goes to the device of now.                     *)
THEOREM PushesToCurrent == ForwardingSpec => []PushesToCurrentDevice
<1>1. ForwardingInv => PushesToCurrentDevice
  <2>1. ForwardingInv => CallsMatch
    BY DEF ForwardingInv
  <2> QED
    BY <2>1, QuietIsCurrent DEF PushesToCurrentDevice, CallsMatch
<1> QED
  BY <1>1, ForwardingStarts, ForwardingStep, PTL DEF ForwardingSpec

(* What holds a settled group's notification back is a push that its present *)
(* device got.                                                               *)
THEOREM HeldBackCorrect == ForwardingSpec => []HeldBackByOwnPush
<1>1. ForwardingInv => HeldBackByOwnPush
  <2> SUFFICES ASSUME ForwardingInv, NEW w \in Workers, NEW g \in quiet[w],
                      at[w] = "check", target[w] = g, token[w] \in Held
               PROVE  \E i \in acked : /\ delivered[i].dev = TokenOf[about[g]]
                                       /\ delivered[i].at <= lastPush[token[w]]
    BY DEF HeldBackByOwnPush
  <2>1. g \in todo[w]
    BY DEF ForwardingInv, Job!JobTypeOK
  <2>2. token[w] = TokenOf[about[g]]
    BY <2>1, QuietIsCurrent
  <2>3. token[w] \in Devices /\ lastPush[token[w]] # Limiter!Never
    BY DEF Held, Limiter!Limited
  <2> QED
    BY <2>2, <2>3 DEF ForwardingInv, RecordsReal, Limiter!NoPhantomLimit
<1> QED
  BY <1>1, ForwardingStarts, ForwardingStep, PTL DEF ForwardingSpec

(* The workers of the whole server are those of Delivery: the cache, the     *)
(* hooks, the loader and the rate limit are an environment that Delivery     *)
(* allows, so that each match is answered and every push has its REQ.        *)
THEOREM ForwardingKeepsDelivery == ForwardingSpec => KeepsDelivery
<1>1. ForwardingInit => Job!DeliveryInit
  BY DEF ForwardingInit
<1>2. ForwardingInv /\ [ForwardingNext]_forwardingVars => [Job!DeliveryNext]_(Job!allVars)
  BY WorksAsDelivery DEF ForwardingInv, LimiterInv
<1> QED
  BY <1>1, <1>2, ForwardingStarts, ForwardingStep, PTL
     DEF ForwardingSpec, KeepsDelivery, Job!DeliverySpec

(* The workers are callers of PushLimiter, so that AckedSpacing and the      *)
(* other guarantees of the rate limit hold of the pushes of all workers.     *)
THEOREM ForwardingKeepsLimiter == ForwardingSpec => KeepsLimiter
<1>1. ForwardingInit => Limiter!Init
  BY DEF ForwardingInit
<1>2. ForwardingInv /\ [ForwardingNext]_forwardingVars => [Limiter!Next]_(Limiter!vars)
  <2>1. UNCHANGED limiterVars => UNCHANGED (Limiter!vars)
    BY DEF limiterVars, Limiter!vars, Limiter!callVars
  <2> QED
    BY <2>1, CallsAsLimited DEF ForwardingInv
<1> QED
  BY <1>1, <1>2, ForwardingStarts, ForwardingStep, PTL
     DEF ForwardingSpec, KeepsLimiter, Limiter!Spec

(* The presence table of the whole server behaves as in Presence.            *)
THEOREM ForwardingKeepsPresence == ForwardingSpec => Job!Spec
<1>1. ForwardingInit => Job!Init
  BY DEF ForwardingInit, Job!DeliveryInit
<1>2. [ForwardingNext]_forwardingVars => [Job!Next]_(Job!vars)
  <2> SUFFICES ASSUME [ForwardingNext]_forwardingVars PROVE [Job!Next]_(Job!vars)
    OBVIOUS
  <2>1. ASSUME NEW w \in Workers, WorkerStep(w) PROVE UNCHANGED (Job!vars)
    BY <2>1 DEF WorkerStep, Match, Decide, Request, Deliver, Pushed, RecordPush, PushFailed,
       Job!Match, Job!Unsigned, Job!Broadcast, Job!Offline, Job!ReadToken, Job!NoToken,
       Job!HeldBack, Job!Allowed, Job!Pushed, Job!RecordPush, Job!PushFailed,
       presenceVars, Job!vars, Job!connVars
  <2>2. SubscriptionStep \/ LimiterStep \/ UNCHANGED forwardingVars => UNCHANGED (Job!vars)
    BY DEF SubscriptionStep, LimiterStep, forwardingVars, presenceVars, Job!vars, Job!connVars
  <2>3. ConnectionStep => Job!Next
    BY DEF ConnectionStep
  <2> QED
    BY <2>1, <2>2, <2>3 DEF ForwardingNext
<1> QED
  BY <1>1, <1>2, PTL DEF ForwardingSpec, Job!Spec

(* Where Forwarding joins a step of PushLimiter with one of Delivery, the    *)
(* first leaves the held back devices as the second wants them: the join     *)
(* takes no behaviour away.                                                  *)
THEOREM JoinsHinderNothing ==
  ASSUME ForwardingInv, NEW w \in Workers, at[w] \in {"check", "send", "record"}
  PROVE  /\ Limiter!CheckLimit(w, token[w]) => token[w] \notin Held /\ Held' = Held
         /\ Limiter!Deliver(w) \/ Limiter!Refused(w) \/ Limiter!TimeOut(w) \/ Limiter!LoseAnswer(w)
              => Held' = Held
         /\ Limiter!Record(w) => Held' \in {Held, Held \cup {token[w]}}
<1>1. Limiter!CheckLimit(w, token[w]) => token[w] \notin Held /\ Held' = Held
  BY HeldAsRecorded DEF Limiter!CheckLimit, Held
<1>2. Limiter!Deliver(w) \/ Limiter!Refused(w) \/ Limiter!TimeOut(w) \/ Limiter!LoseAnswer(w)
        => Held' = Held
  BY HeldAsRecorded DEF Limiter!Deliver, Limiter!Refused, Limiter!TimeOut, Limiter!LoseAnswer
<1>3. ASSUME Limiter!Record(w) PROVE Held' \in {Held, Held \cup {token[w]}}
  <2>1. /\ lastPush' = [lastPush EXCEPT ![token[w]] = now] /\ now' = now
        /\ token[w] \in Devices
    BY <1>3 DEF ForwardingInv, CallsMatch, Calling, Limiter!Record, Job!JobTypeOK
  <2>2. /\ lastPush \in [Devices -> Nat \cup {-1}] /\ now \in Nat /\ Limit \in Nat
        /\ lastPush[token[w]] <= now
    BY <2>1, ForwardingAssumption DEF ForwardingInv, LimiterInv, Limiter!TypeOK, Limiter!Never
  <2>3. \A d \in Devices \ {token[w]} : d \in Held' <=> d \in Held
    BY <2>1, <2>2 DEF Held, Limiter!Limited
  <2>4. CASE Limit = 0
    <3>1. token[w] \notin Held /\ token[w] \notin Held'
      BY <2>1, <2>2, <2>4 DEF Held, Limiter!Limited
    <3> QED
      BY <2>3, <3>1 DEF Held
  <2>5. CASE Limit > 0
    <3>1. token[w] \in Held'
      BY <2>1, <2>2, <2>5 DEF Held, Limiter!Limited, Limiter!Never
    <3> QED
      BY <2>3, <3>1 DEF Held
  <2> QED
    BY <2>2, <2>4, <2>5
<1> QED
  BY <1>1, <1>2, <1>3

=============================================================================
