--------------------------- MODULE ListenerProofs ---------------------------
(***************************************************************************)
(* Proofs about Listener, for any number of relays, events and retries.    *)
(***************************************************************************)
EXTENDS Listener, TLAPS

-----------------------------------------------------------------------------
(* Inductive strengthening                                                   *)

(* The counter of the code is the number of failures, and a goroutine that   *)
(* has not stopped has failures left.                                        *)
RetryOK(r) ==
  /\ retry[r] = attempts[r]
  /\ (pc[r] # "stopped" /\ maxRetries > 0) => retry[r] < maxRetries
  /\ (pc[r] = "stopped" /\ ~ctxDone) => maxRetries > 0 /\ retry[r] = maxRetries

ListenerInv ==
  TypeOK /\ NoLeakedConnection /\ \A r \in Relays : RetryOK(r)

-----------------------------------------------------------------------------
(* The error path                                                            *)

(* Retry keeps the counters typed and equal, and stops exactly at the limit. *)
LEMMA RetryCounts ==
  ASSUME ListenerInv, NEW r \in Relays, pc[r] # "stopped", Retry(r)
  PROVE  /\ retry' \in [Relays -> 0 .. RetryBound]
         /\ attempts' \in [Relays -> 0 .. RetryBound]
         /\ pc' = [pc EXCEPT ![r] = pc'[r]]
         /\ retry' = [retry EXCEPT ![r] = retry'[r]]
         /\ attempts' = [attempts EXCEPT ![r] = retry'[r]]
         /\ pc'[r] \in {"delay", "stopped"}
         /\ (pc'[r] = "delay" /\ maxRetries > 0) => retry'[r] < maxRetries
         /\ pc'[r] = "stopped" => maxRetries > 0 /\ retry'[r] = maxRetries
<1>1. /\ retry \in [Relays -> 0 .. RetryBound] /\ attempts \in [Relays -> 0 .. RetryBound]
      /\ pc \in [Relays -> {"loop", "dial", "subscribe", "listen", "delay", "stopped"}]
      /\ maxRetries \in 0 .. RetryBound /\ RetryBound \in Nat
  BY ListenerAssumption DEF ListenerInv, TypeOK
<1>2. /\ retry[r] = attempts[r]
      /\ maxRetries > 0 => retry[r] < maxRetries
  BY DEF ListenerInv, RetryOK
<1>3. Bounded(retry[r]) \in 0 .. RetryBound /\ Bounded(attempts[r]) = Bounded(retry[r])
  BY <1>1, <1>2 DEF Bounded
<1>4. maxRetries > 0 => Bounded(retry[r]) = retry[r] + 1
  BY <1>1, <1>2 DEF Bounded
<1>5. /\ retry' = [retry EXCEPT ![r] = Bounded(retry[r])]
      /\ attempts' = [attempts EXCEPT ![r] = Bounded(attempts[r])]
      /\ pc' = [pc EXCEPT ![r] = IF Exhausted(retry'[r]) THEN "stopped" ELSE "delay"]
  BY DEF Retry
<1>6. retry'[r] = Bounded(retry[r]) /\ attempts'[r] = Bounded(retry[r])
  BY <1>1, <1>3, <1>5
<1>7. pc'[r] = IF Exhausted(retry'[r]) THEN "stopped" ELSE "delay"
  BY <1>1, <1>5
<1>8. /\ retry' \in [Relays -> 0 .. RetryBound]
      /\ attempts' \in [Relays -> 0 .. RetryBound]
  BY <1>1, <1>3, <1>5
<1>9. /\ (pc'[r] = "delay" /\ maxRetries > 0) => retry'[r] < maxRetries
      /\ pc'[r] = "stopped" => maxRetries > 0 /\ retry'[r] = maxRetries
  BY <1>1, <1>2, <1>3, <1>4, <1>6, <1>7 DEF Exhausted
<1> QED
  BY <1>3, <1>5, <1>6, <1>7, <1>8, <1>9

-----------------------------------------------------------------------------
(* The invariant                                                             *)

LEMMA ListenerInit == Init => ListenerInv
<1> SUFFICES ASSUME Init PROVE ListenerInv
  OBVIOUS
<1>1. RetryBound \in Nat /\ maxRetries \in 0 .. RetryBound
  BY ListenerAssumption DEF Init
<1>2. retry \in [Relays -> 0 .. RetryBound] /\ attempts \in [Relays -> 0 .. RetryBound]
  BY <1>1 DEF Init
<1>3. TypeOK
  BY <1>2 DEF Init, TypeOK
<1> QED
  BY <1>1, <1>3 DEF Init, ListenerInv, NoLeakedConnection, RetryOK

(* A step that leaves the counters alone and does not start or stop anybody  *)
(* keeps RetryOK.                                                            *)
LEMMA CountersAlone ==
  ASSUME ListenerInv, UNCHANGED <<maxRetries, retry, attempts>>,
         ctxDone => ctxDone',
         \A q \in Relays : \/ pc'[q] = "stopped" <=> pc[q] = "stopped"
                           \/ pc'[q] = "stopped" /\ ctxDone'
  PROVE  \A r \in Relays : RetryOK(r)'
BY DEF ListenerInv, RetryOK

LEMMA ManagerKeepsInv ==
  ASSUME ListenerInv, NEW r \in Relays, ManagerStep(r)
  PROVE  ListenerInv'
<1> USE DEF ListenerInv
<1>1. CASE Stop(r) \/ Begin(r) \/ DelayOver(r) \/ DelayCancelled(r)
  <2>1. TypeOK'
    BY <1>1 DEF TypeOK, Stop, Begin, DelayOver, DelayCancelled
  <2>2. NoLeakedConnection'
    BY <1>1 DEF TypeOK, NoLeakedConnection, Stop, Begin, DelayOver, DelayCancelled
  <2>3. UNCHANGED <<maxRetries, retry, attempts>> /\ (ctxDone => ctxDone')
    BY <1>1 DEF Stop, Begin, DelayOver, DelayCancelled
  <2>4. \A q \in Relays : \/ pc'[q] = "stopped" <=> pc[q] = "stopped"
                          \/ pc'[q] = "stopped" /\ ctxDone'
    BY <1>1 DEF TypeOK, Stop, Begin, DelayOver, DelayCancelled
  <2>5. \A q \in Relays : RetryOK(q)'
    BY <2>3, <2>4, CountersAlone
  <2> QED
    BY <2>1, <2>2, <2>5
<1>2. CASE Dialled(r) \/ Subscribed(r) \/ HangUp(r)
  <2>1. TypeOK'
    BY <1>2 DEF TypeOK, Dialled, Subscribed, HangUp
  <2>2. NoLeakedConnection'
    BY <1>2 DEF TypeOK, NoLeakedConnection, Dialled, Subscribed, HangUp
  <2>3. UNCHANGED <<maxRetries, retry, attempts>> /\ (ctxDone => ctxDone')
    BY <1>2 DEF Dialled, Subscribed, HangUp
  <2>4. \A q \in Relays : \/ pc'[q] = "stopped" <=> pc[q] = "stopped"
                          \/ pc'[q] = "stopped" /\ ctxDone'
    BY <1>2 DEF TypeOK, Dialled, Subscribed, HangUp
  <2>5. \A q \in Relays : RetryOK(q)'
    BY <2>3, <2>4, CountersAlone
  <2> QED
    BY <2>1, <2>2, <2>5
<1>3. CASE DialFails(r) \/ SubscribeFails(r) \/ ConnectionLost(r)
  <2>1. pc[r] # "stopped" /\ Retry(r) /\ UNCHANGED <<maxRetries, heard, ctxDone, main>>
    BY <1>3 DEF DialFails, SubscribeFails, ConnectionLost
  <2>2. /\ retry' \in [Relays -> 0 .. RetryBound] /\ attempts' \in [Relays -> 0 .. RetryBound]
        /\ pc' = [pc EXCEPT ![r] = pc'[r]]
        /\ retry' = [retry EXCEPT ![r] = retry'[r]]
        /\ attempts' = [attempts EXCEPT ![r] = retry'[r]]
        /\ pc'[r] \in {"delay", "stopped"}
        /\ (pc'[r] = "delay" /\ maxRetries > 0) => retry'[r] < maxRetries
        /\ pc'[r] = "stopped" => maxRetries > 0 /\ retry'[r] = maxRetries
    BY <2>1, RetryCounts
  <2>3. /\ link' \in [Relays -> {"none", "up", "lost"}]
        /\ link'[r] # "up"
        /\ \A q \in Relays \ {r} : link'[q] = link[q]
    BY <1>3 DEF TypeOK, NoLeakedConnection, DialFails, SubscribeFails, Closed, ConnectionLost, Ended
  <2>4. /\ sub' \in [Relays -> {"none", "live", "closed"}]
        /\ chan' \in [Relays -> SUBSET Events]
        /\ sub'[r] = "none" /\ chan'[r] = {}
        /\ \A q \in Relays \ {r} : sub'[q] = sub[q] /\ chan'[q] = chan[q]
    BY <1>3 DEF TypeOK, DialFails, SubscribeFails, ConnectionLost
  <2>5. TypeOK'
    <3>1. /\ maxRetries' \in RetryLimits
          /\ heard' \in [Relays -> SUBSET Events]
          /\ ctxDone' \in BOOLEAN
          /\ main' \in {"serving", "exited"}
      BY <2>1 DEF TypeOK
    <3>2. pc' \in [Relays -> {"loop", "dial", "subscribe", "listen", "delay", "stopped"}]
      BY <2>2 DEF TypeOK
    <3>3. \A q \in Relays \ {r} : pc'[q] = pc[q]
      BY <2>2 DEF TypeOK
    <3>4. ASSUME NEW q \in Relays
          PROVE  /\ pc'[q] \in {"subscribe", "listen"} => link'[q] # "none"
                 /\ pc'[q] = "listen" <=> sub'[q] # "none"
                 /\ chan'[q] # {} => sub'[q] # "none"
      BY <2>2, <2>3, <2>4, <3>3 DEF TypeOK
    <3> QED
      BY <2>2, <2>3, <2>4, <3>1, <3>2, <3>4 DEF TypeOK
  <2>6. NoLeakedConnection'
    BY <2>2, <2>3 DEF TypeOK, NoLeakedConnection
  <2>7. \A q \in Relays : RetryOK(q)'
    BY <2>1, <2>2 DEF TypeOK, RetryOK
  <2> QED
    BY <2>5, <2>6, <2>7
<1> QED
  BY <1>1, <1>2, <1>3 DEF ManagerStep

LEMMA ListenerStep == ListenerInv /\ [Next]_vars => ListenerInv'
<1> SUFFICES ASSUME ListenerInv, [Next]_vars PROVE ListenerInv'
  OBVIOUS
<1>1. CASE \E r \in Relays : ManagerStep(r)
  BY <1>1, ManagerKeepsInv
<1>2. ASSUME NEW r \in Relays, Break(r) \/ CloseSubscription(r) PROVE ListenerInv'
  <2>1. TypeOK' /\ NoLeakedConnection'
    BY <1>2 DEF ListenerInv, TypeOK, NoLeakedConnection, Break, CloseSubscription
  <2>2. UNCHANGED <<maxRetries, retry, attempts, pc>> /\ (ctxDone => ctxDone')
    BY <1>2 DEF Break, CloseSubscription
  <2>3. \A q \in Relays : RetryOK(q)'
    BY <2>2, CountersAlone
  <2> QED
    BY <2>1, <2>3 DEF ListenerInv
<1>3. ASSUME NEW r \in Relays, NEW e \in Events, HandleEvent(r, e) \/ Publish(r, e) \/ Drop(r, e)
      PROVE  ListenerInv'
  <2>1. TypeOK' /\ NoLeakedConnection'
    BY <1>3 DEF ListenerInv, TypeOK, NoLeakedConnection, HandleEvent, Publish, Drop
  <2>2. UNCHANGED <<maxRetries, retry, attempts, pc>> /\ (ctxDone => ctxDone')
    BY <1>3 DEF HandleEvent, Publish, Drop
  <2>3. \A q \in Relays : RetryOK(q)'
    BY <2>2, CountersAlone
  <2> QED
    BY <2>1, <2>3 DEF ListenerInv
<1>4. CASE Cancel
  <2>1. TypeOK' /\ NoLeakedConnection'
    BY <1>4 DEF ListenerInv, TypeOK, NoLeakedConnection, Cancel, relayVars
  <2>2. UNCHANGED <<maxRetries, retry, attempts, pc>> /\ (ctxDone => ctxDone')
    BY <1>4 DEF Cancel, relayVars
  <2>3. \A q \in Relays : RetryOK(q)'
    BY <2>2, CountersAlone
  <2> QED
    BY <2>1, <2>3 DEF ListenerInv
<1>5. CASE ServeFails \/ UNCHANGED vars
  <2>1. TypeOK' /\ NoLeakedConnection'
    BY <1>5 DEF ListenerInv, TypeOK, NoLeakedConnection, ServeFails, vars, relayVars
  <2>2. UNCHANGED <<maxRetries, retry, attempts, pc>> /\ (ctxDone => ctxDone')
    BY <1>5 DEF ServeFails, vars, relayVars
  <2>3. \A q \in Relays : RetryOK(q)'
    BY <2>2, CountersAlone
  <2> QED
    BY <2>1, <2>3 DEF ListenerInv
<1> QED
  BY <1>1, <1>2, <1>3, <1>4, <1>5 DEF Next

-----------------------------------------------------------------------------
(* Theorems                                                                  *)

(* Every variable of the listener keeps its type, and a goroutine listens    *)
(* exactly while it has a subscription.                                      *)
THEOREM ListenerTypeCorrect == Spec => []TypeOK
<1>1. ListenerInv => TypeOK
  BY DEF ListenerInv
<1> QED
  BY <1>1, ListenerInit, ListenerStep, PTL DEF Spec

(* No failed attempt leaves a connection open.                               *)
THEOREM NoLeakCorrect == Spec => []NoLeakedConnection
<1>1. ListenerInv => NoLeakedConnection
  BY DEF ListenerInv
<1> QED
  BY <1>1, ListenerInit, ListenerStep, PTL DEF Spec

(* A relay is given up exactly after max_retries failures.                   *)
THEOREM GivesUpCorrect == Spec => []GivesUpAtLimit
<1>1. ListenerInv => GivesUpAtLimit
  BY DEF ListenerInv, GivesUpAtLimit, RetryOK
<1> QED
  BY <1>1, ListenerInit, ListenerStep, PTL DEF Spec

=============================================================================
