---------------------------- MODULE PushLimiter ----------------------------
(***************************************************************************)
(* The per-device rate limit of Processor.pushNotification                 *)
(* (internal/subscription/processor.go).  It is called by the processor's  *)
(* own loop and by every websocket goroutine that carries a kind-20285     *)
(* event, and each call holds the shard's lock only while it reads or      *)
(* writes lastPushTime.                                                    *)
(*                                                                         *)
(* The push server is what this module leaves open, and module PushServer  *)
(* fills in: a request it has accepted is delivered or refused, and the    *)
(* answer may get lost (the 10 s timeout of pushClient, a broken           *)
(* connection).  The APNs client takes no context, so a request whose      *)
(* caller gave up may still be delivered later.                            *)
(***************************************************************************)
EXTENDS Integers, Sequences

CONSTANTS
  Callers,     \* goroutines that run pushNotification
  Devices,     \* device tokens
  Shards,      \* indices of pushRateLimiters
  ShardOf,     \* getShardIndex: the shard of a token, a pure hash
  Late,        \* not a caller: tags a delivery nobody waits for
  Limit,       \* p.pushRateLimit, in ticks
  Retention,   \* how long cleanupPushRateLimit keeps a record (1 hour)
  MaxTime,     \* bound of the model: ticks of the clock
  MaxPushes    \* bound of the model: requests ever sent

Never == -1    \* no record in lastPushTime

ASSUME LimiterAssumption ==
  /\ Devices # {}
  /\ ShardOf \in [Devices -> Shards]
  /\ Late \notin Callers
  /\ Limit \in Nat /\ Retention \in Nat
  /\ MaxTime \in Nat /\ MaxPushes \in Nat

VARIABLES
  now,        \* the clock
  lastPush,   \* lastPushTime of all shards: device -> time or Never
  pc,         \* where each caller stands
  token,      \* the device of its call
  place,      \* history: which delivery the call caused
  pending,    \* requests on their way whose caller gave up, by device
  requests,   \* number of requests sent so far
  delivered,  \* history: deliveries to devices, [dev, by, at]
  acked       \* history: the deliveries whose caller saw the success

callVars == <<pc, token, place>>
vars == <<now, lastPush, callVars, pending, requests, delivered, acked>>

Delivery == [dev : Devices, by : Callers \cup {Late}, at : Nat]

TypeOK ==
  /\ now \in Nat
  /\ lastPush \in [Devices -> Nat \cup {Never}]
  /\ pc \in [Callers -> {"idle", "sending", "delivered"}]
  /\ token \in [Callers -> Devices]
  /\ place \in [Callers -> Nat]
  /\ pending \in [Devices -> Nat]
  /\ requests \in Nat
  /\ delivered \in Seq(Delivery)
  /\ acked \subseteq 1 .. Len(delivered)

Init ==
  /\ now = 0
  /\ lastPush = [d \in Devices |-> Never]
  /\ pc = [p \in Callers |-> "idle"]
  /\ token = [p \in Callers |-> CHOOSE d \in Devices : TRUE]
  /\ place = [p \in Callers |-> 0]
  /\ pending = [d \in Devices |-> 0]
  /\ requests = 0
  /\ delivered = <<>>
  /\ acked = {}

-----------------------------------------------------------------------------
(* Plausible slips in the code, each the mutated form of a definition below. *)

LimitedTooShort(d) == lastPush[d] # Never /\ now - lastPush[d] < Limit - 1

-----------------------------------------------------------------------------
(* pushNotification                                                          *)

Limited(d) == lastPush[d] # Never /\ now - lastPush[d] < Limit

(* The check under the read lock; a limited call returns and does nothing.   *)
CheckLimit(p, d) ==
  /\ pc[p] = "idle"
  /\ requests < MaxPushes
  /\ ~Limited(d)
  /\ pc' = [pc EXCEPT ![p] = "sending"]
  /\ token' = [token EXCEPT ![p] = d]
  /\ requests' = requests + 1
  /\ UNCHANGED <<now, lastPush, place, pending, delivered, acked>>

(* The push server delivers the notification; the caller does not know yet.  *)
Deliver(p) ==
  /\ pc[p] = "sending"
  /\ delivered' = Append(delivered, [dev |-> token[p], by |-> p, at |-> now])
  /\ place' = [place EXCEPT ![p] = Len(delivered) + 1]
  /\ pc' = [pc EXCEPT ![p] = "delivered"]
  /\ UNCHANGED <<now, lastPush, token, pending, requests, acked>>

(* The answer is 200: the write lock, and the time of the push is recorded.  *)
Record(p) ==
  /\ pc[p] = "delivered"
  /\ lastPush' = [lastPush EXCEPT ![token[p]] = now]
  /\ acked' = acked \cup {place[p]}
  /\ pc' = [pc EXCEPT ![p] = "idle"]
  /\ UNCHANGED <<now, token, place, pending, requests, delivered>>

(* SendPushNotificationWithSilent returns an error and nothing is recorded:  *)
(* the request never got there or was refused, ...                           *)
Refused(p) ==
  /\ pc[p] = "sending"
  /\ pc' = [pc EXCEPT ![p] = "idle"]
  /\ UNCHANGED <<now, lastPush, token, place, pending, requests, delivered, acked>>

(* ... or the caller stopped waiting while it was on its way, ...            *)
TimeOut(p) ==
  /\ pc[p] = "sending"
  /\ pending' = [pending EXCEPT ![token[p]] = @ + 1]
  /\ pc' = [pc EXCEPT ![p] = "idle"]
  /\ UNCHANGED <<now, lastPush, token, place, requests, delivered, acked>>

(* ... or it was delivered and the answer was lost.                          *)
LoseAnswer(p) ==
  /\ pc[p] = "delivered"
  /\ pc' = [pc EXCEPT ![p] = "idle"]
  /\ UNCHANGED <<now, lastPush, token, place, pending, requests, delivered, acked>>

-----------------------------------------------------------------------------
(* The push server finishes a request whose caller is gone.                  *)

DeliverLate(d) ==
  /\ pending[d] > 0
  /\ delivered' = Append(delivered, [dev |-> d, by |-> Late, at |-> now])
  /\ pending' = [pending EXCEPT ![d] = @ - 1]
  /\ UNCHANGED <<now, lastPush, callVars, requests, acked>>

(* cleanupPushRateLimit: one shard at a time under its lock.                 *)
Expired(d) == lastPush[d] # Never /\ now - lastPush[d] > Retention

CleanShard(s) ==
  /\ lastPush' = [d \in Devices |->
                    IF ShardOf[d] = s /\ Expired(d) THEN Never ELSE lastPush[d]]
  /\ UNCHANGED <<now, callVars, pending, requests, delivered, acked>>

Tick ==
  /\ now < MaxTime
  /\ now' = now + 1
  /\ UNCHANGED <<lastPush, callVars, pending, requests, delivered, acked>>

-----------------------------------------------------------------------------

PushNotification(p) ==
  \/ \E d \in Devices : CheckLimit(p, d)
  \/ Deliver(p) \/ Record(p) \/ Refused(p) \/ TimeOut(p) \/ LoseAnswer(p)

Next ==
  \/ \E p \in Callers : PushNotification(p)
  \/ \E d \in Devices : DeliverLate(d)
  \/ \E s \in Shards : CleanShard(s)
  \/ Tick

Spec == Init /\ [][Next]_vars

-----------------------------------------------------------------------------
(* Properties                                                                *)

(* What a caller can count on: the limit, or, where records are forgotten    *)
(* sooner than the limit passes, the time for which they are surely kept.    *)
Spacing == IF Limit <= Retention THEN Limit ELSE Retention + 1

(* After a push its caller knows to have succeeded, the same caller pushes   *)
(* to that device again only when that time has passed.  Other callers that  *)
(* record later times and the cleanup cannot shorten it.                     *)
AckedSpacing ==
  \A i, j \in 1 .. Len(delivered) :
    (/\ i < j /\ i \in acked
     /\ delivered[i].dev = delivered[j].dev
     /\ delivered[i].by = delivered[j].by)
      => delivered[j].at - delivered[i].at >= Spacing

(* A device is held back only after a push to it that succeeded: a refused   *)
(* or lost push, or one to another device of the shard, never mutes it.      *)
NoPhantomLimit ==
  \A d \in Devices :
    lastPush[d] # Never =>
      \E i \in acked : delivered[i].dev = d /\ delivered[i].at <= lastPush[d]

(* A recorded push time only moves forward, and it is forgotten only when    *)
(* the device is not held back any more.                                     *)
ForgetOnlyUnlimited ==
  [][\A d \in Devices :
       \/ lastPush'[d] >= lastPush[d]
       \/ lastPush'[d] = Never /\ ~Limited(d)]_vars

(* What the configuration promises (config.go, "Minimum interval between     *)
(* pushes to same device"), of all deliveries to a device.                   *)
MinInterval ==
  \A i, j \in 1 .. Len(delivered) :
    (i < j /\ delivered[i].dev = delivered[j].dev)
      => delivered[j].at - delivered[i].at >= Limit

=============================================================================
