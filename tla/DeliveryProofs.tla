--------------------------- MODULE DeliveryProofs ---------------------------
(***************************************************************************)
(* Proofs about Delivery, for any number of connections, groups, REQs,     *)
(* workers and events.  What Presence guarantees carries over, because     *)
(* Delivery only reads the presence table.                                 *)
(***************************************************************************)
EXTENDS Delivery, PresenceProofs

-----------------------------------------------------------------------------
(* Inductive strengthening                                                   *)

(* While a group waits in a worker's loop, every REQ it gets is recorded.    *)
HadCurrent ==
  \A w \in Workers : \A g \in todo[w] : req[g] # None => req[g] \in had[w][g]

DeliveryInv == JobTypeOK /\ EachMatchAnswered /\ HadCurrent /\ RightDevice

-----------------------------------------------------------------------------
(* Delivery is Presence with more variables                                  *)

LEMMA ReadsPresenceOnly == [DeliveryNext]_allVars => [Next]_vars
<1> SUFFICES ASSUME [DeliveryNext]_allVars PROVE [Next]_vars
  OBVIOUS
<1>1. CASE ConnectionStep
  BY <1>1 DEF ConnectionStep
<1>2. CASE UNCHANGED allVars
  BY <1>2 DEF allVars
<1>3. ASSUME NEW w \in Workers, Forward(w) PROVE UNCHANGED vars
  BY <1>3 DEF Forward, Unsigned, Broadcast, Offline, ReadToken, NoToken, HeldBack, Allowed,
              PushFailed, Pushed, RecordPush
<1>4. ASSUME NEW w \in Workers, NEW e \in Events, Match(w, e) PROVE UNCHANGED vars
  BY <1>4 DEF Match
<1>5. ASSUME LimitPasses PROVE UNCHANGED vars
  BY <1>5 DEF LimitPasses
<1>6. ASSUME NEW g, NEW s, Resubscribe(g, s) PROVE UNCHANGED vars
  BY <1>6 DEF Resubscribe
<1> QED
  BY <1>1, <1>2, <1>3, <1>4, <1>5, <1>6 DEF DeliveryNext

(* Whatever the delivery of events adds, the presence table behaves as in    *)
(* Presence.                                                                 *)
THEOREM DeliveryKeepsPresence == DeliverySpec => Spec
<1>1. DeliveryInit => Init
  BY DEF DeliveryInit
<1> QED
  BY <1>1, ReadsPresenceOnly, PTL DEF DeliverySpec, Spec

-----------------------------------------------------------------------------
(* The invariant                                                             *)

LEMMA DeliveryStarts == DeliveryInit => DeliveryInv
BY DeliveryAssumption
   DEF DeliveryInit, DeliveryInv, JobTypeOK, EachMatchAnswered, HadCurrent, RightDevice

(* A worker moves on to the next step for the same group.                    *)
LEMMA SameGroup ==
  ASSUME DeliveryInv, NEW w \in Workers,
         UNCHANGED <<canSign, req, held, todo, jobs, due, had>>,
         Offline(w, group'[w]) \/ ReadToken(w) \/ Allowed(w) \/ Pushed(w)
  PROVE  DeliveryInv'
<1>1. JobTypeOK'
  <2>1. CASE Offline(w, group'[w])
    <3>1. group'[w] \in Groups /\ group'[w] \in todo[w]
      BY <2>1 DEF DeliveryInv, JobTypeOK, Offline
    <3> QED
      BY <2>1, <3>1 DEF DeliveryInv, JobTypeOK, Offline
  <2>2. CASE ReadToken(w)
    <3>1. DeviceToken(group[w]) \in Devices
      BY <2>2, DeliveryAssumption DEF DeliveryInv, JobTypeOK, ReadToken, DeviceToken
    <3> QED
      BY <2>2, <3>1 DEF DeliveryInv, JobTypeOK, ReadToken
  <2>3. CASE Allowed(w) \/ Pushed(w)
    BY <2>3 DEF DeliveryInv, JobTypeOK, Allowed, Pushed
  <2> QED
    BY <2>1, <2>2, <2>3
<1>2. EachMatchAnswered' /\ HadCurrent'
  BY DEF DeliveryInv, EachMatchAnswered, HadCurrent
<1>3. RightDevice'
  <2>1. CASE Offline(w, group'[w])
    BY <2>1 DEF DeliveryInv, JobTypeOK, RightDevice, Offline
  <2>2. CASE ReadToken(w)
    <3>1. req[group[w]] # None /\ token' = [token EXCEPT ![w] = TokenOf[req[group[w]]]]
      BY <2>2 DEF ReadToken, DeviceToken
    <3>2. group[w] \in todo[w] /\ req[group[w]] \in had[w][group[w]]
      BY <2>2, <3>1 DEF DeliveryInv, JobTypeOK, HadCurrent, ReadToken
    <3> QED
      BY <2>2, <3>1, <3>2 DEF DeliveryInv, JobTypeOK, RightDevice, ReadToken
  <2>3. CASE Allowed(w) \/ Pushed(w)
    BY <2>3 DEF DeliveryInv, JobTypeOK, RightDevice, Allowed, Pushed
  <2> QED
    BY <2>1, <2>2, <2>3
<1> QED
  BY <1>1, <1>2, <1>3 DEF DeliveryInv

(* A worker is done with a group.                                            *)
LEMMA NextGroup ==
  ASSUME DeliveryInv, NEW w \in Workers, NEW g \in todo[w], GoOn(w, g),
         held' \subseteq Devices, UNCHANGED <<canSign, req, jobs>>
  PROVE  DeliveryInv'
<1>1. /\ \A v \in Workers \ {w} :
           /\ at'[v] = at[v] /\ todo'[v] = todo[v] /\ due'[v] = due[v]
           /\ group'[v] = group[v] /\ token'[v] = token[v] /\ had'[v] = had[v]
      /\ at'[w] = IF todo[w] = {g} THEN "idle" ELSE "choose"
      /\ todo'[w] = todo[w] \ {g} /\ due'[w] = due[w] \ {g}
      /\ \A h \in Groups \ {g} : had'[w][h] = had[w][h]
  BY DEF DeliveryInv, JobTypeOK, GoOn
<1>2. JobTypeOK'
  BY DEF DeliveryInv, JobTypeOK, GoOn
<1>3. EachMatchAnswered'
  BY <1>1 DEF DeliveryInv, EachMatchAnswered
<1>4. HadCurrent'
  BY <1>1 DEF DeliveryInv, JobTypeOK, HadCurrent
<1>5. RightDevice'
  BY <1>1 DEF DeliveryInv, RightDevice
<1> QED
  BY <1>2, <1>3, <1>4, <1>5 DEF DeliveryInv

LEMMA ForwardKeepsInv ==
  ASSUME DeliveryInv, NEW w \in Workers, Forward(w)
  PROVE  DeliveryInv'
<1>1. ASSUME NEW g \in Groups, Unsigned(w, g) \/ Broadcast(w, g) PROVE DeliveryInv'
  <2>1. g \in todo[w] /\ GoOn(w, g) /\ held' \subseteq Devices /\ UNCHANGED <<canSign, req, jobs>>
    BY <1>1 DEF DeliveryInv, JobTypeOK, Unsigned, Broadcast
  <2> QED
    BY <2>1, NextGroup
<1>2. ASSUME NEW g \in Groups, Offline(w, g) PROVE DeliveryInv'
  <2>1. group'[w] = g
    BY <1>2 DEF DeliveryInv, JobTypeOK, Offline
  <2>2. Offline(w, group'[w]) /\ UNCHANGED <<canSign, req, held, todo, jobs, due, had>>
    BY <1>2, <2>1 DEF Offline
  <2> QED
    BY <2>2, SameGroup
<1>3. CASE ReadToken(w) \/ Allowed(w) \/ Pushed(w)
  <2>1. UNCHANGED <<canSign, req, held, todo, jobs, due, had>>
    BY <1>3 DEF ReadToken, Allowed, Pushed
  <2> QED
    BY <1>3, <2>1, SameGroup
<1>4. CASE NoToken(w) \/ HeldBack(w) \/ PushFailed(w) \/ RecordPush(w)
  <2>1. group[w] \in todo[w] /\ GoOn(w, group[w]) /\ UNCHANGED <<canSign, req, jobs>>
    BY <1>4 DEF DeliveryInv, JobTypeOK, NoToken, HeldBack, PushFailed, RecordPush
  <2>2. held' \subseteq Devices
    BY <1>4 DEF DeliveryInv, JobTypeOK, NoToken, HeldBack, PushFailed, RecordPush
  <2> QED
    BY <2>1, <2>2, NextGroup
<1> QED
  BY <1>1, <1>2, <1>3, <1>4 DEF Forward

LEMMA MatchKeepsInv ==
  ASSUME DeliveryInv, NEW w \in Workers, NEW e \in Events, Match(w, e)
  PROVE  DeliveryInv'
<1>1. PICK matching \in SUBSET {g \in Groups : req[g] \in Wants[e]} :
        /\ at[w] = "idle"
        /\ jobs' = jobs + 1
        /\ todo' = [todo EXCEPT ![w] = matching]
        /\ at' = [at EXCEPT ![w] = IF matching = {} THEN "idle" ELSE "choose"]
        /\ due' = [due EXCEPT ![w] = matching]
        /\ had' = [had EXCEPT ![w] = [g \in Groups |-> IF g \in matching THEN {req[g]} ELSE {}]]
        /\ UNCHANGED <<vars, canSign, req, held, group, token>>
  BY DEF Match
<1>2. matching \subseteq Groups /\ \A g \in matching : req[g] \in Subs
  BY DeliveryAssumption
<1>3. JobTypeOK'
  BY <1>1, <1>2 DEF DeliveryInv, JobTypeOK
<1>4. EachMatchAnswered' /\ HadCurrent'
  BY <1>1, <1>2 DEF DeliveryInv, JobTypeOK, EachMatchAnswered, HadCurrent
<1>5. RightDevice'
  BY <1>1 DEF DeliveryInv, JobTypeOK, RightDevice
<1> QED
  BY <1>3, <1>4, <1>5 DEF DeliveryInv

LEMMA ResubscribeKeepsInv ==
  ASSUME DeliveryInv, NEW g \in Groups, NEW s \in ReqsOf[g] \cup {None}, Resubscribe(g, s)
  PROVE  DeliveryInv'
<1>1. s \in Subs \cup {None}
  BY DeliveryAssumption
<1>2. /\ req' = [req EXCEPT ![g] = s]
      /\ \A w \in Workers : /\ had'[w] \in [Groups -> SUBSET Subs]
                            /\ g \in todo[w] /\ s # None => s \in had'[w][g]
                            /\ \A h \in Groups : had[w][h] \subseteq had'[w][h]
      /\ had' \in [Workers -> [Groups -> SUBSET Subs]]
  BY <1>1 DEF DeliveryInv, JobTypeOK, Resubscribe
<1>3. UNCHANGED <<canSign, held, at, todo, group, token, due, jobs>>
  BY DEF Resubscribe, jobVars
<1>4. JobTypeOK'
  BY <1>1, <1>2, <1>3 DEF DeliveryInv, JobTypeOK
<1>5. EachMatchAnswered'
  BY <1>3 DEF DeliveryInv, EachMatchAnswered
<1>6. HadCurrent'
  BY <1>2, <1>3 DEF DeliveryInv, JobTypeOK, HadCurrent
<1>7. RightDevice'
  BY <1>2, <1>3 DEF DeliveryInv, JobTypeOK, RightDevice
<1> QED
  BY <1>4, <1>5, <1>6, <1>7 DEF DeliveryInv

LEMMA DeliveryStep == DeliveryInv /\ [DeliveryNext]_allVars => DeliveryInv'
<1> SUFFICES ASSUME DeliveryInv, [DeliveryNext]_allVars PROVE DeliveryInv'
  OBVIOUS
<1>1. CASE ConnectionStep \/ UNCHANGED allVars
  <2>1. UNCHANGED <<canSign, req, held, at, todo, group, token, due, jobs, had>>
    BY <1>1 DEF ConnectionStep, allVars, deliveryVars, jobVars
  <2> QED
    BY <2>1 DEF DeliveryInv, JobTypeOK, EachMatchAnswered, HadCurrent, RightDevice
<1>2. CASE LimitPasses
  <2>1. held' \subseteq held /\ UNCHANGED <<canSign, req, at, todo, group, token, due, jobs, had>>
    BY <1>2 DEF LimitPasses, jobVars
  <2> QED
    BY <2>1 DEF DeliveryInv, JobTypeOK, EachMatchAnswered, HadCurrent, RightDevice
<1> QED
  BY <1>1, <1>2, ForwardKeepsInv, MatchKeepsInv, ResubscribeKeepsInv DEF DeliveryNext

-----------------------------------------------------------------------------
(* The choice between broadcast and push                                     *)

LEMMA OfflineNotCounted ==
  ASSUME TypeOK, CountExact, NEW g \in calm, ~FirstMemberOnline(g)
  PROVE  CountedAs(g) = {}
<1>1. g \in Keys /\ onlineMap[g] = None
  BY DEF TypeOK, FirstMemberOnline, IsOnline
<1>2. Cardinality(CountedAs(g)) = 0
  BY <1>1 DEF CountExact, OnlineCount
<1> QED
  BY <1>2, CountedFinite, FS_EmptySet

LEMMA ChoiceStep ==
  ASSUME TypeOK, CountExact, DeliveryInv, [DeliveryNext]_allVars,
         NEW w \in Workers, NEW g \in Groups \cap calm
  PROVE  /\ ChoosesPush(w, g) => CountedAs(g) = {}
         /\ ChoosesBroadcast(w, g) => CountedAs(g) # {} \/ Arriving(g) \/ Leaving(g)
<1> SUFFICES ASSUME ChoosesPush(w, g) \/ ChoosesBroadcast(w, g)
             PROVE  \/ Offline(w, g) /\ ~ChoosesBroadcast(w, g)
                    \/ Broadcast(w, g) /\ ~ChoosesPush(w, g)
  <2>1. Offline(w, g) => CountedAs(g) = {}
    BY OfflineNotCounted DEF Offline
  <2>2. Broadcast(w, g) => CountedAs(g) # {} \/ Arriving(g) \/ Leaving(g)
    BY DEF Broadcast, FirstMemberOnline, CountExact
  <2> QED
    BY <2>1, <2>2
<1>1. at[w] = "choose" /\ (at'[w] # at[w] \/ g \in todo[w] \ todo'[w])
  BY DEF ChoosesPush, ChoosesBroadcast
<1>2. at'[w] # at[w] \/ todo'[w] # todo[w]
  BY <1>1
<1>3. ~(ConnectionStep \/ UNCHANGED allVars)
  BY <1>2 DEF ConnectionStep, allVars, deliveryVars, jobVars
<1>4. ASSUME LimitPasses PROVE FALSE
  BY <1>2, <1>4 DEF LimitPasses, jobVars
<1>5. ASSUME NEW h, NEW s, Resubscribe(h, s) PROVE FALSE
  BY <1>2, <1>5 DEF Resubscribe, jobVars
<1>6. ASSUME NEW v \in Workers, NEW e \in Events, Match(v, e) PROVE FALSE
  <2>1. at[v] = "idle" /\ v # w
    BY <1>1, <1>6 DEF Match
  <2> QED
    BY <1>2, <1>6, <2>1 DEF DeliveryInv, JobTypeOK, Match
<1>7. PICK v \in Workers : Forward(v)
  BY <1>3, <1>4, <1>5, <1>6 DEF DeliveryNext
<1>8. v = w
  BY <1>2, <1>7 DEF DeliveryInv, JobTypeOK, Forward, Unsigned, Broadcast, Offline, ReadToken, NoToken,
     HeldBack, Allowed, PushFailed, Pushed, RecordPush, GoOn
<1>9. PICK h \in Groups : Unsigned(w, h) \/ Broadcast(w, h) \/ Offline(w, h)
  BY <1>1, <1>7, <1>8 DEF Forward, ReadToken, NoToken, HeldBack, Allowed, PushFailed, Pushed, RecordPush
<1>10. CASE Broadcast(w, h)
  <2>1. at'[w] # "token" /\ todo'[w] = todo[w] \ {h}
    BY <1>10 DEF DeliveryInv, JobTypeOK, Broadcast, GoOn
  <2>2. ~ChoosesPush(w, g)
    BY <2>1 DEF ChoosesPush
  <2>3. g = h
    BY <2>1, <2>2 DEF ChoosesBroadcast
  <2> QED
    BY <1>10, <2>2, <2>3
<1>11. CASE Offline(w, h)
  <2>1. todo' = todo /\ group'[w] = h
    BY <1>11 DEF DeliveryInv, JobTypeOK, Offline
  <2>2. ~ChoosesBroadcast(w, g)
    BY <2>1 DEF ChoosesBroadcast
  <2>3. g = h
    BY <2>1, <2>2 DEF ChoosesPush
  <2> QED
    BY <1>11, <2>2, <2>3
<1>12. ~Unsigned(w, h)
  <2> SUFFICES ASSUME Unsigned(w, h) PROVE FALSE
    OBVIOUS
  <2>1. ~canSign /\ at'[w] # "token"
    BY DEF DeliveryInv, JobTypeOK, Unsigned, GoOn
  <2> QED
    BY <2>1 DEF ChoosesPush, ChoosesBroadcast
<1> QED
  BY <1>9, <1>10, <1>11, <1>12

-----------------------------------------------------------------------------
(* Theorems                                                                  *)

(* Every variable keeps its type, a worker is idle exactly when its loop is  *)
(* empty, and only tokens reach the limit and the push.                      *)
THEOREM DeliveryTypeCorrect == DeliverySpec => []DeliveryTypeOK
<1>1. TypeOK /\ DeliveryInv => DeliveryTypeOK
  BY DEF DeliveryInv, DeliveryTypeOK
<1> QED
  BY <1>1, DeliveryStarts, DeliveryStep, DeliveryKeepsPresence, PresenceTypeCorrect, PTL
     DEF DeliverySpec

(* No matched group is dropped from a worker's loop unanswered.              *)
THEOREM AnswersCorrect == DeliverySpec => []EachMatchAnswered
<1>1. DeliveryInv => EachMatchAnswered
  BY DEF DeliveryInv
<1> QED
  BY <1>1, DeliveryStarts, DeliveryStep, PTL DEF DeliverySpec

(* A push goes to a device its own group named since the match.              *)
THEOREM RightDeviceCorrect == DeliverySpec => []RightDevice
<1>1. DeliveryInv => RightDevice
  BY DEF DeliveryInv
<1> QED
  BY <1>1, DeliveryStarts, DeliveryStep, PTL DEF DeliverySpec

(* The choice between broadcast and push follows the counted connections.    *)
THEOREM ForwardCorrect == DeliverySpec => ForwardFollowsPresence
<1>1. TypeOK /\ CountExact /\ DeliveryInv /\ [DeliveryNext]_allVars
        => [\A w \in Workers, g \in Groups \cap calm :
              /\ ChoosesPush(w, g) => CountedAs(g) = {}
              /\ ChoosesBroadcast(w, g) => CountedAs(g) # {} \/ Arriving(g) \/ Leaving(g)]_allVars
  BY ChoiceStep
<1> QED
  BY <1>1, DeliveryStarts, DeliveryStep, DeliveryKeepsPresence, PresenceTypeCorrect, CountCorrect, PTL
     DEF DeliverySpec, ForwardFollowsPresence

(* Where every group is named by its client's pubkey, README.md is right: no *)
(* client that is connected and counted is pushed to, as long as arrivals    *)
(* and departures of its key have not overlapped.                            *)
THEOREM OwnKeyOffline ==
  ASSUME \A g \in Groups : Member[g] = g
  PROVE  DeliverySpec =>
           [][\A w \in Workers, g \in Groups \cap calm :
                ChoosesPush(w, g) => ~Connected(Member[g])]_allVars
<1>1. [\A w \in Workers, g \in Groups \cap calm :
         /\ ChoosesPush(w, g) => CountedAs(g) = {}
         /\ ChoosesBroadcast(w, g) => CountedAs(g) # {} \/ Arriving(g) \/ Leaving(g)]_allVars
      => [\A w \in Workers, g \in Groups \cap calm :
            ChoosesPush(w, g) => ~Connected(Member[g])]_allVars
  BY DEF CountedAs, Connected
<1> QED
  BY <1>1, ForwardCorrect, PTL DEF ForwardFollowsPresence

=============================================================================
