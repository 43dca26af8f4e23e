------------------------------ MODULE Delivery ------------------------------
(***************************************************************************)
(* How an event reaches the groups whose filters match it                  *)
(* (internal/subscription/processor.go, from processMessage down): for     *)
(* each group it is broadcast when isFirstMemberOnline says so, otherwise  *)
(* pushed to the device named in the group's REQ, unless a recent push     *)
(* holds that device back.                                                 *)
(*                                                                         *)
(* Workers are the goroutines that run it: the loop of Processor.Start,    *)
(* and the websocket goroutines in handle20285Event (server.go).  They     *)
(* share the presence table, extended here, the REQ cache, which the group *)
(* hooks change at any time (module Subscriptions), and the rate limit     *)
(* (module PushLimiter, of which only "held back or not" is left here).    *)
(***************************************************************************)
EXTENDS Presence

CONSTANTS
  Groups,     \* group ids; those that are in Keys too are some client's pubkey
  Member,     \* the pubkey the client of a group connects with
  Events,     \* events from relays or from kind-20285 messages
  Subs,       \* REQs: filters and device token
  Wants,      \* the REQs whose filters match an event
  Devices,    \* device tokens
  NoDevice,   \* the empty token
  TokenOf,    \* the token in a REQ
  ReqsOf,     \* the REQs the client of a group publishes
  Workers,    \* goroutines that forward events
  MaxJobs     \* bound of the model: events ever forwarded

ASSUME DeliveryAssumption ==
  /\ Member \in [Groups -> Keys]
  /\ Wants \in [Events -> SUBSET Subs]
  /\ NoDevice \notin Devices
  /\ TokenOf \in [Subs -> Devices \cup {NoDevice}]
  /\ ReqsOf \in [Groups -> SUBSET Subs]
  /\ None \notin Subs /\ None \notin Groups
  /\ MaxJobs \in Nat

VARIABLES
  canSign,  \* the relay_private_key of the configuration is one that signs
  req,      \* sm.parsedSubscriptions: the REQ of a group, or None when there is
            \* no entry or a ParseError
  held,     \* devices whose last recorded push is younger than the limit
  at,       \* where a worker stands
  todo,     \* groups its loop over matchingGroups has not finished
  group,    \* the group it found offline
  token,    \* the token it read for that group
  jobs,     \* number of events forwarded so far
  due,      \* history: groups that matched and that nothing was done for yet
  had       \* history: the REQs each group of todo had since the match

jobVars == <<at, todo, group, token, due>>
deliveryVars == <<canSign, req, held, jobVars, jobs, had>>
allVars == <<vars, deliveryVars>>

(* What the steps of the loop rely on, beside the presence table.             *)
JobTypeOK ==
  /\ canSign \in BOOLEAN
  /\ req \in [Groups -> Subs \cup {None}]
  /\ held \subseteq Devices
  /\ at \in [Workers -> {"idle", "choose", "token", "check", "send", "record"}]
  /\ todo \in [Workers -> SUBSET Groups]
  /\ group \in [Workers -> Groups \cup {None}]
  /\ token \in [Workers -> Devices \cup {NoDevice}]
  /\ jobs \in Nat
  /\ due \in [Workers -> SUBSET Groups]
  /\ had \in [Workers -> [Groups -> SUBSET Subs]]
  /\ \A w \in Workers :
       /\ at[w] = "idle" <=> todo[w] = {}
       /\ at[w] \notin {"idle", "choose"} => group[w] \in todo[w]
       /\ at[w] \in {"check", "send", "record"} => token[w] \in Devices

DeliveryTypeOK == TypeOK /\ JobTypeOK

(* The first event to be modelled need not be the server's first: groups may  *)
(* have their REQs and devices their recent pushes.                          *)
DeliveryInit ==
  /\ Init
  /\ canSign \in BOOLEAN
  /\ req \in {q \in [Groups -> Subs \cup {None}] : \A g \in Groups : q[g] \in ReqsOf[g] \cup {None}}
  /\ held \in SUBSET Devices
  /\ at = [w \in Workers |-> "idle"]
  /\ todo = [w \in Workers |-> {}]
  /\ group = [w \in Workers |-> None]
  /\ token = [w \in Workers |-> NoDevice]
  /\ jobs = 0
  /\ due = [w \in Workers |-> {}]
  /\ had = [w \in Workers |-> [g \in Groups |-> {}]]

DeviceToken(g) == IF req[g] = None THEN NoDevice ELSE TokenOf[req[g]]

(* The loop goes on after every group, whatever became of it.                *)
GoOn(w, g) ==
  /\ due' = [due EXCEPT ![w] = @ \ {g}]
  /\ todo' = [todo EXCEPT ![w] = @ \ {g}]
  /\ at' = [at EXCEPT ![w] = IF todo[w] = {g} THEN "idle" ELSE "choose"]
  /\ group' = [group EXCEPT ![w] = None]
  /\ token' = [token EXCEPT ![w] = NoDevice]
  /\ had' = [had EXCEPT ![w][g] = {}]

-----------------------------------------------------------------------------
(* Plausible slips in the code, each the mutated form of a definition below. *)

(* The first push that fails ends the loop.                                  *)
FailedStops(w) ==
  /\ at[w] = "send"
  /\ at' = [at EXCEPT ![w] = "idle"]
  /\ todo' = [todo EXCEPT ![w] = {}]
  /\ due' = [due EXCEPT ![w] = @ \ {group[w]}]
  /\ UNCHANGED <<vars, canSign, req, held, group, token, jobs, had>>

(* The lookup uses a loop variable that may have moved to another group.     *)
ReadTokenOfAny(w) ==
  \E g \in todo[w] :
    /\ at[w] = "token"
    /\ DeviceToken(g) # NoDevice
    /\ token' = [token EXCEPT ![w] = DeviceToken(g)]
    /\ at' = [at EXCEPT ![w] = "check"]
    /\ UNCHANGED <<vars, canSign, req, held, todo, group, jobs, due, had>>

(* An empty token goes on to the push.                                       *)
ReadAnyToken(w) ==
  /\ at[w] = "token"
  /\ token' = [token EXCEPT ![w] = DeviceToken(group[w])]
  /\ at' = [at EXCEPT ![w] = "check"]
  /\ UNCHANGED <<vars, canSign, req, held, todo, group, jobs, due, had>>

(* The connection that asks is expected to be counted itself.                *)
OthersOnline(g) == g \in Keys /\ OnlineCount(g) > 1

-----------------------------------------------------------------------------
(* GetMatchingGroups holds sm.mu, so the cache stands still.  It ranges over *)
(* relay29's groups, which are not modelled here and of which some that are  *)
(* cached may be gone or come too late: any part of the cached groups that   *)
(* match.  The result is a slice in no particular order.                     *)
Match(w, e) ==
  \E matching \in SUBSET {g \in Groups : req[g] \in Wants[e]} :
    /\ at[w] = "idle"
    /\ jobs < MaxJobs
    /\ jobs' = jobs + 1
    /\ todo' = [todo EXCEPT ![w] = matching]
    /\ at' = [at EXCEPT ![w] = IF matching = {} THEN "idle" ELSE "choose"]
    /\ due' = [due EXCEPT ![w] = matching]
    /\ had' = [had EXCEPT ![w] = [g \in Groups |-> IF g \in matching THEN {req[g]} ELSE {}]]
    /\ UNCHANGED <<vars, canSign, req, held, group, token>>

(* isFirstMemberOnline asks for the group id, not for a member.              *)
FirstMemberOnline(g) == g \in Keys /\ IsOnline(g)

(* forwardToGroup: with a key that does not sign no group gets anything ...   *)
Unsigned(w, g) ==
  /\ at[w] = "choose" /\ g \in todo[w]
  /\ ~canSign
  /\ GoOn(w, g)
  /\ UNCHANGED <<vars, canSign, req, held, jobs>>

(* ... otherwise the presence is read once; nothing looks again before the   *)
(* push.                                                                     *)
Broadcast(w, g) ==
  /\ at[w] = "choose" /\ g \in todo[w]
  /\ canSign /\ FirstMemberOnline(g)
  /\ GoOn(w, g)
  /\ UNCHANGED <<vars, canSign, req, held, jobs>>

Offline(w, g) ==
  /\ at[w] = "choose" /\ g \in todo[w]
  /\ canSign /\ ~FirstMemberOnline(g)
  /\ group' = [group EXCEPT ![w] = g]
  /\ at' = [at EXCEPT ![w] = "token"]
  /\ UNCHANGED <<vars, canSign, req, held, todo, token, jobs, due, had>>

(* pushNotification reads the cache again.                                   *)
ReadToken(w) ==
  LET d == DeviceToken(group[w]) IN
  /\ at[w] = "token"
  /\ d # NoDevice
  /\ token' = [token EXCEPT ![w] = d]
  /\ at' = [at EXCEPT ![w] = "check"]
  /\ UNCHANGED <<vars, canSign, req, held, todo, group, jobs, due, had>>

NoToken(w) ==
  /\ at[w] = "token"
  /\ DeviceToken(group[w]) = NoDevice
  /\ GoOn(w, group[w])
  /\ UNCHANGED <<vars, canSign, req, held, jobs>>

HeldBack(w) ==
  /\ at[w] = "check"
  /\ token[w] \in held
  /\ GoOn(w, group[w])
  /\ UNCHANGED <<vars, canSign, req, held, jobs>>

Allowed(w) ==
  /\ at[w] = "check"
  /\ token[w] \notin held
  /\ at' = [at EXCEPT ![w] = "send"]
  /\ UNCHANGED <<vars, canSign, req, held, todo, group, token, jobs, due, had>>

PushFailed(w) ==
  /\ at[w] = "send"
  /\ GoOn(w, group[w])
  /\ UNCHANGED <<vars, canSign, req, held, jobs>>

Pushed(w) ==
  /\ at[w] = "send"
  /\ at' = [at EXCEPT ![w] = "record"]
  /\ UNCHANGED <<vars, canSign, req, held, todo, group, token, jobs, due, had>>

(* A limit of zero holds nothing back.                                       *)
RecordPush(w) ==
  /\ at[w] = "record"
  /\ held' \in {held, held \cup {token[w]}}
  /\ GoOn(w, group[w])
  /\ UNCHANGED <<vars, canSign, req, jobs>>

-----------------------------------------------------------------------------
(* What happens around the workers: the limit of devices passes, a group   *)
(* hook writes or removes a cache entry, connections come and go.            *)

LimitPasses ==
  /\ held' \in SUBSET held
  /\ UNCHANGED <<vars, canSign, req, jobVars, jobs, had>>

Resubscribe(g, s) ==
  /\ req' = [req EXCEPT ![g] = s]
  /\ had' = [w \in Workers |->
               IF g \in todo[w] THEN [had[w] EXCEPT ![g] = @ \cup ({s} \ {None})] ELSE had[w]]
  /\ UNCHANGED <<vars, canSign, held, jobVars, jobs>>

ConnectionStep == Next /\ UNCHANGED deliveryVars

-----------------------------------------------------------------------------

Forward(w) ==
  \/ \E g \in Groups : Unsigned(w, g) \/ Broadcast(w, g) \/ Offline(w, g)
  \/ ReadToken(w) \/ NoToken(w) \/ HeldBack(w) \/ Allowed(w)
  \/ PushFailed(w) \/ Pushed(w) \/ RecordPush(w)

DeliveryNext ==
  \/ ConnectionStep
  \/ \E w \in Workers : Forward(w) \/ \E e \in Events : Match(w, e)
  \/ LimitPasses
  \/ \E g \in Groups : \E s \in ReqsOf[g] \cup {None} : Resubscribe(g, s)

DeliverySpec == DeliveryInit /\ [][DeliveryNext]_allVars

-----------------------------------------------------------------------------
(* Properties                                                                *)

(* Every group that matched is dealt with: whatever happens to one of them,  *)
(* no group is dropped from the loop without a broadcast, a push or one of   *)
(* the refusals the code logs.                                               *)
EachMatchAnswered == \A w \in Workers : due[w] \subseteq todo[w]

(* A notification about a group goes to a device which a REQ of that group   *)
(* named at some moment since the match: never to the device of a group      *)
(* handled before, or of one that had the REQ earlier.                       *)
RightDevice ==
  \A w \in Workers :
    at[w] \in {"check", "send", "record"} =>
      \E s \in had[w][group[w]] : TokenOf[s] = token[w]

ChoosesPush(w, g) == at[w] = "choose" /\ at'[w] = "token" /\ group'[w] = g

ChoosesBroadcast(w, g) == canSign /\ at[w] = "choose" /\ g \in todo[w] \ todo'[w]

(* For a group whose id is a pubkey the choice follows the connections of    *)
(* that pubkey, as long as its arrivals and departures do not overlap: it is *)
(* pushed to only if none is counted, and broadcast only if one is, or just  *)
(* comes or goes.                                                            *)
ForwardFollowsPresence ==
  [][\A w \in Workers, g \in Groups \cap calm :
       /\ ChoosesPush(w, g) => CountedAs(g) = {}
       /\ ChoosesBroadcast(w, g) => CountedAs(g) # {} \/ Arriving(g) \/ Leaving(g)]_allVars

Connected(k) == \E c \in Conns : ws[c] = "open" /\ counted[c] = k

(* README.md: a push is sent "if no members of the group are online".        *)
PushOnlyToOffline ==
  [][\A w \in Workers, g \in Groups : ChoosesPush(w, g) => ~Connected(Member[g])]_allVars

(* README.md, the other way round: with every connection of the server gone  *)
(* and all its goroutines ended, an event that is forwarded is pushed.       *)
NobodyLeft == \A c \in Conns : ws[c] = "gone" /\ poller[c] = "done"

BroadcastOnlyToOnline ==
  [][\A w \in Workers, g \in Groups : ChoosesBroadcast(w, g) => ~NobodyLeft]_allVars

=============================================================================
