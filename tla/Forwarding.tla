----------------------------- MODULE Forwarding -----------------------------
(***************************************************************************)
(* Events on their way through the whole subscription server: the workers  *)
(* of Delivery forward them by the cache that the hooks and the loader of  *)
(* Subscriptions keep, under the rate limit of PushLimiter, while          *)
(* connections come and go as in Presence.                                 *)
(*                                                                         *)
(* What those modules leave to their environments is closed here: the REQ  *)
(* that Delivery sees is the entry of sm.parsedSubscriptions that parsed,  *)
(* a device it finds held back is one with a recent lastPushTime, and a    *)
(* caller of the push server is a worker.                                  *)
(***************************************************************************)
EXTENDS Subscriptions, Integers, Sequences

CONSTANTS
  Keys, Conns,                  \* of Presence
  Member, Messages, Wants,      \* of Delivery; its events are Messages here,
  Devices, NoDevice, TokenOf,   \* because Events are the group events
  Workers, MaxJobs,
  Shards, ShardOf, Late,        \* of PushLimiter
  Limit, Retention, MaxTime, MaxPushes

ASSUME ForwardingAssumption ==
  /\ None \notin Keys /\ None \notin Nat /\ IsFiniteSet(Conns)
  /\ Member \in [Groups -> Keys]
  /\ Wants \in [Messages -> SUBSET Subs]
  /\ Devices # {} /\ NoDevice \notin Devices
  /\ TokenOf \in [Subs -> Devices \cup {NoDevice}]
  /\ ShardOf \in [Devices -> Shards]
  /\ Late \notin Workers
  /\ Limit \in Nat /\ Retention \in Nat
  /\ MaxJobs \in Nat /\ MaxTime \in Nat /\ MaxPushes \in Nat

VARIABLES
  onlineMap, cells, ws, authed, poller, pollKey, ref, leaveKey, leaveRef,
  counted, calm,                                         \* of Presence
  canSign, at, todo, target, token, due, jobs, had,      \* of Delivery
  now, lastPush, call, dialled, place, pending,          \* of PushLimiter:
  requests, delivered, acked,                            \* a worker's request
  job,      \* history: the event a worker forwards
  quiet     \* history: the groups of its loop that were settled at the match
            \* and at every moment since

presenceVars ==
  <<onlineMap, cells, ws, authed, poller, pollKey, ref, leaveKey, leaveRef, counted, calm>>
loopVars == <<canSign, at, todo, target, token, due, jobs>>
limiterVars == <<now, lastPush, call, dialled, place, pending, requests, delivered, acked>>
forwardingVars == <<vars, presenceVars, loopVars, had, limiterVars, job, quiet>>

Limiter == INSTANCE PushLimiter WITH Callers <- Workers, pc <- call, token <- dialled

Req(g) == IF cache[g] \in Subs THEN cache[g] ELSE None

Held == {d \in Devices : Limiter!Limited(d)}

Job == INSTANCE Delivery WITH
         Events <- Messages,
         group  <- target,
         ReqsOf <- [g \in Groups |-> Subs],
         req    <- [g \in Groups |-> Req(g)],
         held   <- Held

ForwardingInit ==
  /\ Init
  /\ Limiter!Init
  /\ Job!DeliveryInit
  /\ job \in [Workers -> Messages]
  /\ quiet = [w \in Workers |-> {}]

-----------------------------------------------------------------------------
(* A plausible slip in the code, the mutated form of a definition below.     *)

(* The time of a push is recorded before its error is looked at.             *)
FailedRecorded(w) ==
  /\ at[w] = "send" /\ call[w] = "sending"
  /\ lastPush' = [lastPush EXCEPT ![token[w]] = now]
  /\ call' = [call EXCEPT ![w] = "idle"]
  /\ UNCHANGED <<vars, presenceVars, canSign, jobs, now, dialled, place, pending, requests,
                 delivered, acked, job, quiet>>
  /\ Job!GoOn(w, target[w])

-----------------------------------------------------------------------------
(* A worker                                                                  *)

(* processMessage and handle20285Event: GetMatchingGroups ranges over        *)
(* relay29's groups with sm.mu held for reading.  A deletion that was        *)
(* applied while it ranged has its hook still to come, behind that lock.     *)
Match(w, e) ==
  /\ lock = None
  /\ UNCHANGED <<vars, limiterVars>>
  /\ Job!Match(w, e)
  /\ \A g \in todo'[w] : about[g] # NoGroup \/ DeletionDue(g)
  /\ job' = [job EXCEPT ![w] = e]
  /\ quiet' = [quiet EXCEPT ![w] = {g \in todo'[w] : Settled(g) /\ g \notin skipped}]

(* forwardToGroup, and pushNotification up to a refusal of its own; the      *)
(* token is read with sm.mu held for reading.                                *)
Decide(w) ==
  /\ UNCHANGED <<vars, limiterVars, job, quiet>>
  /\ \/ \E g \in Groups : Job!Unsigned(w, g) \/ Job!Broadcast(w, g) \/ Job!Offline(w, g)
     \/ lock = None /\ (Job!ReadToken(w) \/ Job!NoToken(w))
     \/ Job!HeldBack(w)

(* The request of a device that is not held back ...                         *)
Request(w) ==
  /\ at[w] = "check"
  /\ Limiter!CheckLimit(w, token[w])
  /\ UNCHANGED <<vars, job, quiet>>
  /\ Job!Allowed(w)

(* ... which the push server delivers, ...                                   *)
Deliver(w) ==
  /\ Limiter!Deliver(w)
  /\ UNCHANGED <<vars, presenceVars, loopVars, had, job, quiet>>

(* ... and whose answer is 200, after which the time is recorded, ...        *)
Pushed(w) ==
  /\ call[w] = "delivered"
  /\ UNCHANGED <<vars, limiterVars, job, quiet>>
  /\ Job!Pushed(w)

RecordPush(w) ==
  /\ Limiter!Record(w)
  /\ UNCHANGED <<vars, job, quiet>>
  /\ Job!RecordPush(w)

(* ... or an error, or none at all.                                          *)
PushFailed(w) ==
  /\ Limiter!Refused(w) \/ Limiter!TimeOut(w) \/ Limiter!LoseAnswer(w)
  /\ UNCHANGED <<vars, job, quiet>>
  /\ Job!PushFailed(w)

-----------------------------------------------------------------------------
(* Around the workers                                                        *)

(* relay29, the hooks and the loader; when the cache changes, had records it. *)
SubscriptionStep ==
  /\ Next
  /\ had' = [w \in Workers |-> [g \in Groups |->
               IF g \in todo[w] THEN had[w][g] \cup ({cache'[g]} \cap Subs) ELSE had[w][g]]]
  /\ quiet' = [w \in Workers |-> {g \in quiet[w] : Settled(g)'}]
  /\ UNCHANGED <<presenceVars, loopVars, limiterVars, job>>

(* The clock, the cleanup, and requests whose worker is gone.                *)
LimiterStep ==
  /\ \/ \E d \in Devices : Limiter!DeliverLate(d)
     \/ \E s \in Shards : Limiter!CleanShard(s)
     \/ Limiter!Tick
  /\ UNCHANGED <<vars, presenceVars, loopVars, had, job, quiet>>

ConnectionStep ==
  /\ Job!Next
  /\ UNCHANGED <<vars, loopVars, had, limiterVars, job, quiet>>

-----------------------------------------------------------------------------

WorkerStep(w) ==
  \/ \E e \in Messages : Match(w, e)
  \/ Decide(w)
  \/ Request(w) \/ Deliver(w) \/ Pushed(w) \/ RecordPush(w) \/ PushFailed(w)

ForwardingNext ==
  \/ \E w \in Workers : WorkerStep(w)
  \/ SubscriptionStep \/ LimiterStep \/ ConnectionStep

ForwardingSpec == ForwardingInit /\ [][ForwardingNext]_forwardingVars

-----------------------------------------------------------------------------
(* Properties                                                                *)

Calling(w) == call[w] \in {"sending", "delivered"}

(* A worker has a request under way exactly while it waits for the answer or *)
(* records it, and it is for the token it read.                              *)
ForwardingTypeOK ==
  /\ TypeOK /\ Job!JobTypeOK /\ Limiter!TypeOK
  /\ job \in [Workers -> Messages]
  /\ quiet \in [Workers -> SUBSET Groups]
  /\ \A w \in Workers :
       /\ Calling(w) <=> at[w] \in {"send", "record"}
       /\ Calling(w) => dialled[w] = token[w]
       /\ at[w] = "record" => call[w] = "delivered"

(* From a group event to the device.  Once the hooks of a group have caught  *)
(* up, and as long as no new group event comes, an event is forwarded to the *)
(* group only if the about field of now asks for it, and pushed only to the  *)
(* device of now: the two reads of the cache, the loop over other groups and *)
(* the wait for the push server bring in no REQ of the past.                 *)
PushesToCurrentDevice ==
  \A w \in Workers : \A g \in quiet[w] \cap todo[w] :
    /\ about[g] \in Wants[job[w]]
    /\ Calling(w) /\ target[w] = g => TokenOf[about[g]] = dialled[w]

(* An event is held back from the present device of a settled group only on  *)
(* account of a push which that very device got and whose success a worker   *)
(* has seen: neither a refused or lost push nor one to another device, to    *)
(* the group's old one among them, keeps a notification from it.             *)
HeldBackByOwnPush ==
  \A w \in Workers : \A g \in quiet[w] :
    at[w] = "check" /\ target[w] = g /\ token[w] \in Held =>
      \E i \in acked : /\ delivered[i].dev = TokenOf[about[g]]
                       /\ delivered[i].at <= lastPush[token[w]]

(* The workers, whatever hooks, clock and cleanup do around them, are those  *)
(* of Delivery: every entry of the cache that changes is a REQ or none, and  *)
(* no device is held back but by its own push.                               *)
KeepsDelivery == Job!DeliverySpec

(* The callers of the push server are those PushLimiter assumes, so that its *)
(* guarantees hold of the workers.                                           *)
KeepsLimiter == Limiter!Spec

=============================================================================
