------------------------------ MODULE Listener ------------------------------
(***************************************************************************)
(* The listener (internal/subscription/listener.go): one goroutine per     *)
(* configured relay dials it, subscribes, hands what arrives to the queue, *)
(* and dials again when the connection fails; with them the life of the    *)
(* process (Server.Start and cmd/subscription-server/main.go), whose       *)
(* signal handler cancels the context they all share.                      *)
(*                                                                         *)
(* Relays and the nostr library are external: dialling and subscribing     *)
(* fail or not, connections break, a relay may close a subscription and    *)
(* keep the connection.  The library uses the caller's context only while  *)
(* it dials, so that a connection ends by a break or by Close and by       *)
(* nothing else, and it hands on an event only while the subscription's    *)
(* own context lives.  What AddEvent does with an event is MemoryQueue.    *)
(***************************************************************************)
EXTENDS Naturals

CONSTANTS
  Relays,       \* cfg.Relays
  Events,       \* events relays publish
  RetryLimits,  \* values of cfg.MaxRetries; 0 means no limit
  RetryBound    \* bound of the model: RetryCount is counted so far

ASSUME ListenerAssumption ==
  /\ RetryBound \in Nat
  /\ RetryLimits \subseteq 0 .. RetryBound

VARIABLES
  maxRetries,  \* cfg.MaxRetries
  pc,          \* where manageRelayConnection stands for each relay
  retry,       \* conn.RetryCount
  link,        \* conn.Relay: none yet, up, or broken or closed
  sub,         \* its subscription: none, live, or with Events closed
  chan,        \* events the library has to hand on over sub.Events
  heard,       \* history: events handed to AddEvent
  attempts,    \* history: connections that failed or broke, at most RetryBound
  ctxDone,     \* the context of the process is cancelled
  main         \* main is serving HTTP, or the process has exited

relayVars == <<pc, retry, link, sub, chan, heard, attempts>>
vars == <<maxRetries, relayVars, ctxDone, main>>

TypeOK ==
  /\ maxRetries \in RetryLimits
  /\ pc \in [Relays -> {"loop", "dial", "subscribe", "listen", "delay", "stopped"}]
  /\ retry \in [Relays -> 0 .. RetryBound]
  /\ link \in [Relays -> {"none", "up", "lost"}]
  /\ sub \in [Relays -> {"none", "live", "closed"}]
  /\ chan \in [Relays -> SUBSET Events]
  /\ heard \in [Relays -> SUBSET Events]
  /\ attempts \in [Relays -> 0 .. RetryBound]
  /\ ctxDone \in BOOLEAN
  /\ main \in {"serving", "exited"}
  /\ \A r \in Relays :
       /\ pc[r] \in {"subscribe", "listen"} => link[r] # "none"
       /\ pc[r] = "listen" <=> sub[r] # "none"
       /\ chan[r] # {} => sub[r] # "none"

Init ==
  /\ maxRetries \in RetryLimits
  /\ pc = [r \in Relays |-> "loop"]
  /\ retry = [r \in Relays |-> 0]
  /\ link = [r \in Relays |-> "none"]
  /\ sub = [r \in Relays |-> "none"]
  /\ chan = [r \in Relays |-> {}]
  /\ heard = [r \in Relays |-> {}]
  /\ attempts = [r \in Relays |-> 0]
  /\ ctxDone = FALSE
  /\ main = "serving"

Running == main = "serving"

Bounded(n) == IF n < RetryBound THEN n + 1 ELSE n

-----------------------------------------------------------------------------
(* Plausible slips in the code, each the mutated form of a definition below. *)

ExhaustedLate(n) == maxRetries > 0 /\ n > maxRetries

(* The error path of Subscribe returns without relay.Close.                  *)
LeaveOpen(r) == link

(* The return is inside the test for a relay to close.                       *)
StopIfDialled(r) ==
  /\ Running /\ pc[r] = "loop" /\ ctxDone /\ link[r] # "none"
  /\ pc' = [pc EXCEPT ![r] = "stopped"]
  /\ link' = [link EXCEPT ![r] = "lost"]
  /\ UNCHANGED <<maxRetries, retry, sub, chan, heard, attempts, ctxDone, main>>

(* The loop waits for events only, and a closed channel gives none.          *)
LostWhileLive(r) == sub[r] = "live" /\ link[r] = "lost"

(* conn.Connected, set by the first connection only, is asked before an      *)
(* event is handed on.                                                       *)
HandleConnected(r, e) ==
  /\ Running /\ pc[r] = "listen" /\ e \in chan[r]
  /\ chan' = [chan EXCEPT ![r] = @ \ {e}]
  /\ heard' = [heard EXCEPT ![r] = IF retry[r] = 0 THEN @ \cup {e} ELSE @]
  /\ UNCHANGED <<maxRetries, pc, retry, link, sub, attempts, ctxDone, main>>

(* Unsub is called only after the loop.                                      *)
HangUpSubscribed(r) ==
  /\ Running /\ pc[r] = "listen" /\ ctxDone
  /\ pc' = [pc EXCEPT ![r] = "loop"]
  /\ link' = [link EXCEPT ![r] = "lost"]
  /\ UNCHANGED <<maxRetries, retry, sub, chan, heard, attempts, ctxDone, main>>

-----------------------------------------------------------------------------
(* manageRelayConnection: the top of the loop                                *)

Stop(r) ==
  /\ Running /\ pc[r] = "loop" /\ ctxDone
  /\ pc' = [pc EXCEPT ![r] = "stopped"]
  /\ link' = [link EXCEPT ![r] = IF @ = "none" THEN @ ELSE "lost"]
  /\ UNCHANGED <<maxRetries, retry, sub, chan, heard, attempts, ctxDone, main>>

Begin(r) ==
  /\ Running /\ pc[r] = "loop" /\ ~ctxDone
  /\ pc' = [pc EXCEPT ![r] = "dial"]
  /\ UNCHANGED <<maxRetries, retry, link, sub, chan, heard, attempts, ctxDone, main>>

(* connectAndListen returned an error: RetryCount is never set back.         *)
Exhausted(n) == maxRetries > 0 /\ n >= maxRetries

Retry(r) ==
  /\ retry' = [retry EXCEPT ![r] = Bounded(@)]
  /\ attempts' = [attempts EXCEPT ![r] = Bounded(@)]
  /\ pc' = [pc EXCEPT ![r] = IF Exhausted(retry'[r]) THEN "stopped" ELSE "delay"]

DelayOver(r) ==
  /\ Running /\ pc[r] = "delay"
  /\ pc' = [pc EXCEPT ![r] = "loop"]
  /\ UNCHANGED <<maxRetries, retry, link, sub, chan, heard, attempts, ctxDone, main>>

DelayCancelled(r) ==
  /\ Running /\ pc[r] = "delay" /\ ctxDone
  /\ pc' = [pc EXCEPT ![r] = "stopped"]
  /\ UNCHANGED <<maxRetries, retry, link, sub, chan, heard, attempts, ctxDone, main>>

-----------------------------------------------------------------------------
(* connectAndListen.  A dial may succeed although the context was cancelled  *)
(* meanwhile; the connection then lives until HangUp closes it.              *)

Dialled(r) ==
  /\ Running /\ pc[r] = "dial"
  /\ link' = [link EXCEPT ![r] = "up"]
  /\ pc' = [pc EXCEPT ![r] = "subscribe"]
  /\ UNCHANGED <<maxRetries, retry, sub, chan, heard, attempts, ctxDone, main>>

DialFails(r) ==
  /\ Running /\ pc[r] = "dial"
  /\ Retry(r)
  /\ UNCHANGED <<maxRetries, link, sub, chan, heard, ctxDone, main>>

Subscribed(r) ==
  /\ Running /\ pc[r] = "subscribe"
  /\ sub' = [sub EXCEPT ![r] = "live"]
  /\ pc' = [pc EXCEPT ![r] = "listen"]
  /\ UNCHANGED <<maxRetries, retry, link, chan, heard, attempts, ctxDone, main>>

Closed(r) == [link EXCEPT ![r] = "lost"]

SubscribeFails(r) ==
  /\ Running /\ pc[r] = "subscribe"
  /\ link' = Closed(r)
  /\ Retry(r)
  /\ UNCHANGED <<maxRetries, sub, chan, heard, ctxDone, main>>

(* The select: an event, ...                                                 *)
HandleEvent(r, e) ==
  /\ Running /\ pc[r] = "listen" /\ e \in chan[r]
  /\ chan' = [chan EXCEPT ![r] = @ \ {e}]
  /\ heard' = [heard EXCEPT ![r] = @ \cup {e}]
  /\ UNCHANGED <<maxRetries, pc, retry, link, sub, attempts, ctxDone, main>>

(* ... or ctx.Done: Unsub, Close and back to the loop, ...                   *)
HangUp(r) ==
  /\ Running /\ pc[r] = "listen" /\ ctxDone
  /\ pc' = [pc EXCEPT ![r] = "loop"]
  /\ link' = [link EXCEPT ![r] = "lost"]
  /\ sub' = [sub EXCEPT ![r] = "none"]
  /\ chan' = [chan EXCEPT ![r] = {}]
  /\ UNCHANGED <<maxRetries, retry, heard, attempts, ctxDone, main>>

(* ... or the end of the relay's context, an error.  Events not handed on    *)
(* are gone.  The nil that a closed channel gives changes nothing.           *)
Ended(r) == link[r] = "lost"

ConnectionLost(r) ==
  /\ Running /\ pc[r] = "listen" /\ Ended(r)
  /\ sub' = [sub EXCEPT ![r] = "none"]
  /\ chan' = [chan EXCEPT ![r] = {}]
  /\ Retry(r)
  /\ UNCHANGED <<maxRetries, link, heard, ctxDone, main>>

-----------------------------------------------------------------------------
(* The relays                                                                *)

Publish(r, e) ==
  /\ Running /\ sub[r] = "live" /\ link[r] = "up"
  /\ e \notin chan[r] \cup heard[r]
  /\ chan' = [chan EXCEPT ![r] = @ \cup {e}]
  /\ UNCHANGED <<maxRetries, pc, retry, link, sub, heard, attempts, ctxDone, main>>

Break(r) ==
  /\ Running /\ link[r] = "up"
  /\ link' = [link EXCEPT ![r] = "lost"]
  /\ UNCHANGED <<maxRetries, pc, retry, sub, chan, heard, attempts, ctxDone, main>>

(* The relay closes the subscription, or the library does after a break or   *)
(* a cancelled context.                                                      *)
CloseSubscription(r) ==
  /\ Running /\ sub[r] = "live"
  /\ sub' = [sub EXCEPT ![r] = "closed"]
  /\ UNCHANGED <<maxRetries, pc, retry, link, chan, heard, attempts, ctxDone, main>>

(* The library gives up handing on an event of a closed subscription.        *)
Drop(r, e) ==
  /\ Running /\ sub[r] = "closed" /\ e \in chan[r]
  /\ chan' = [chan EXCEPT ![r] = @ \ {e}]
  /\ UNCHANGED <<maxRetries, pc, retry, link, sub, heard, attempts, ctxDone, main>>

-----------------------------------------------------------------------------
(* The process                                                               *)

(* The goroutine that waits for SIGINT or SIGTERM cancels the context.       *)
Cancel ==
  /\ Running /\ ~ctxDone
  /\ ctxDone' = TRUE
  /\ UNCHANGED <<maxRetries, relayVars, main>>

(* Server.Start ends in http.ListenAndServe, which returns only an error.    *)
ServeFails ==
  /\ Running
  /\ main' = "exited"
  /\ UNCHANGED <<maxRetries, relayVars, ctxDone>>

-----------------------------------------------------------------------------

ManagerStep(r) ==
  \/ Stop(r) \/ Begin(r) \/ DelayOver(r) \/ DelayCancelled(r)
  \/ Dialled(r) \/ DialFails(r) \/ Subscribed(r) \/ SubscribeFails(r)
  \/ HangUp(r) \/ ConnectionLost(r)

Next ==
  \/ \E r \in Relays : \/ ManagerStep(r) \/ Break(r) \/ CloseSubscription(r)
                       \/ \E e \in Events :
                            HandleEvent(r, e) \/ Publish(r, e) \/ Drop(r, e)
  \/ Cancel \/ ServeFails

Spec == Init /\ [][Next]_vars

(* Each goroutine runs, dials and waits time out, and a select picks among   *)
(* its ready cases at random.                                                *)
FairSpec ==
  /\ Spec
  /\ \A r \in Relays :
       /\ WF_vars(ManagerStep(r))
       /\ \A e \in Events : WF_vars(HandleEvent(r, e))

-----------------------------------------------------------------------------
(* Properties                                                                *)

(* No attempt leaves a connection open behind it: a relay is connected only  *)
(* while its goroutine subscribes or listens, so however often it fails a    *)
(* relay has at most one connection, and a goroutine that a shutdown ended   *)
(* has closed its own, also one that was made after the signal.              *)
NoLeakedConnection ==
  \A r \in Relays : link[r] = "up" => pc[r] \in {"subscribe", "listen"}

(* A relay is given up before a shutdown only after max_retries failures,    *)
(* never without a limit, and it is tried no more often than that.           *)
GivesUpAtLimit ==
  \A r \in Relays :
    /\ (pc[r] = "stopped" /\ ~ctxDone) => maxRetries > 0 /\ attempts[r] = maxRetries
    /\ (pc[r] # "stopped" /\ maxRetries > 0) => attempts[r] < maxRetries

(* A cancelled context ends every goroutine, wherever it stands.             *)
ManagersStop ==
  \A r \in Relays : ctxDone ~> (pc[r] = "stopped" \/ ~Running)

(* A broken connection is dialled again unless the limit is reached, also    *)
(* when its subscription was closed first and the loop reads only nil.       *)
Reconnects ==
  \A r \in Relays :
    (pc[r] = "listen" /\ link[r] = "lost") ~> (pc[r] \in {"dial", "stopped"} \/ ~Running)

(* An event of a live subscription is handed to the queue, also after many   *)
(* reconnections, unless the subscription, the connection or the process     *)
(* ends first.                                                               *)
EventsHeard ==
  \A r \in Relays, e \in Events :
    (e \in chan[r]) ~> (e \in heard[r] \/ sub[r] # "live" \/ link[r] # "up" \/ ~Running)

(* main.go, "Create context for graceful shutdown": a signal ends the        *)
(* process.                                                                  *)
ExitsAfterSignal == ctxDone ~> ~Running

=============================================================================
