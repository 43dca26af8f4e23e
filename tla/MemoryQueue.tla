---------------------------- MODULE MemoryQueue ----------------------------
(***************************************************************************)
(* The in-memory event queue of the subscription server                    *)
(* (internal/subscription/memory_queue.go), driven the way the program     *)
(* drives it: one sequential AddEvent caller per upstream relay            *)
(* (listener.go) and one reading loop per consumer (Processor.Start).      *)
(*                                                                         *)
(* log is the heap of *EventMessage objects in the order AddEvent appended *)
(* them, so a message is its index in log; q.events and the consumers'     *)
(* channels hold such pointers.  A channel is kept as everything ever sent *)
(* to it (sent) and the number of messages received from it (taken).       *)
(*                                                                         *)
(* Time enters only through the dedupe TTL: an entry of the cache is fresh *)
(* until Age moves it to stale.                                            *)
(***************************************************************************)
EXTENDS Integers, Sequences, FiniteSets

CONSTANTS
  Relays,       \* upstream relays, each a goroutine that calls AddEvent
  Consumers,    \* consumer IDs
  Events,       \* Nostr event IDs
  NoEvent,      \* not an event: no AddEvent call in progress
  MaxSize,      \* q.maxSize
  BufferSize,   \* capacity of a consumer's channel
  KeepLast,     \* what cleanupRoutine keeps (1000 in the code)
  BatchCount,   \* messages per ReadEvents call (10 in the code)
  MaxMessages   \* bound of the model: messages ever appended

ASSUME QueueAssumption ==
  /\ NoEvent \notin Events
  /\ MaxSize \in Nat \ {0}
  /\ BufferSize \in Nat \ {0}
  /\ KeepLast \in Nat \ {0}
  /\ BatchCount \in Nat \ {0}
  /\ MaxMessages \in Nat

VARIABLES
  log,      \* every message ever appended: [ev, by, era]
  events,   \* q.events
  cache,    \* keys of dedupeCache.cache
  stale,    \* the keys whose entry is older than the TTL
  era,      \* history: how often the entry of an event outlived the TTL
  pc,       \* where each relay's AddEvent call stands
  cur,      \* the event of that call
  curEra,   \* history: era of cur when the call marked it
  phase,    \* where each consumer's Processor.Start stands
  sent,     \* messages sent to each consumer's channel
  taken,    \* how many of them ReadEvents received
  done,     \* how many of them processMessage returned from
  skipped,  \* history: messages dropped because the channel was full
  joined,   \* history: Len(log) when the consumer was registered
  live,     \* history: Len(sent) when its backlog was copied
  missed,   \* history: messages that had left q.events by then
  ctxDone   \* the server's context is cancelled

addVars  == <<pc, cur, curEra>>
seenVars == <<cache, stale, era>>
readVars == <<phase, taken, done>>
chanVars == <<sent, skipped>>
joinVars == <<joined, live, missed>>
vars == <<log, events, seenVars, addVars, readVars, chanVars, joinVars, ctxDone>>

Message == [ev : Events, by : Relays, era : Nat]
Phases  == {"absent", "joining", "idle", "reading", "processing", "stopped"}

TypeOK ==
  /\ log \in Seq(Message)
  /\ events \in Seq(Nat) /\ Len(events) <= MaxSize /\ Len(events) <= Len(log)
  /\ stale \subseteq cache /\ cache \subseteq Events
  /\ era \in [Events -> Nat]
  /\ pc \in [Relays -> {"idle", "checked", "marked"}]
  /\ cur \in [Relays -> Events \cup {NoEvent}]
  /\ \A r \in Relays : pc[r] # "idle" => cur[r] \in Events
  /\ curEra \in [Relays -> Nat]
  /\ phase \in [Consumers -> Phases]
  /\ sent \in [Consumers -> Seq(Nat)]
  /\ taken \in [Consumers -> Nat]
  /\ done \in [Consumers -> Nat]
  /\ \A c \in Consumers : /\ done[c] <= taken[c]
                          /\ taken[c] <= Len(sent[c])
                          /\ Len(sent[c]) - taken[c] <= BufferSize
  /\ skipped \in [Consumers -> SUBSET Nat]
  /\ joined \in [Consumers -> Nat]
  /\ live \in [Consumers -> Nat]
  /\ missed \in [Consumers -> Nat]
  /\ ctxDone \in BOOLEAN

Init ==
  /\ log = <<>> /\ events = <<>>
  /\ cache = {} /\ stale = {} /\ era = [e \in Events |-> 0]
  /\ pc = [r \in Relays |-> "idle"]
  /\ cur = [r \in Relays |-> NoEvent]
  /\ curEra = [r \in Relays |-> 0]
  /\ phase = [c \in Consumers |-> "absent"]
  /\ sent = [c \in Consumers |-> <<>>]
  /\ taken = [c \in Consumers |-> 0]
  /\ done = [c \in Consumers |-> 0]
  /\ skipped = [c \in Consumers |-> {}]
  /\ joined = [c \in Consumers |-> 0]
  /\ live = [c \in Consumers |-> 0]
  /\ missed = [c \in Consumers |-> 0]
  /\ ctxDone = FALSE

-----------------------------------------------------------------------------
(* Plausible slips in the code, each the mutated form of a definition below. *)

EvictLate(q)        == IF Len(q) > MaxSize THEN Tail(q) ELSE q
ExpireAll           == cache
NotifyReady(c)      == phase[c] \notin {"absent", "joining"}
AnnounceOldest(id)  == IF events = <<>> THEN id ELSE Head(events)
RoomForOthers(c)    == IF Len(sent[c]) - taken[c] < BufferSize
                         THEN BufferSize - (Len(sent[c]) - taken[c]) - 1 ELSE 0

TimeoutAsError(c) ==
  /\ phase[c] = "reading"
  /\ phase' = [phase EXCEPT ![c] = "idle"]
  /\ UNCHANGED <<log, events, seenVars, addVars, taken, done, chanVars, joinVars, ctxDone>>

BeginReadAlways(c) ==
  /\ phase[c] = "idle"
  /\ phase' = [phase EXCEPT ![c] = "reading"]
  /\ UNCHANGED <<log, events, seenVars, addVars, taken, done, chanVars, joinVars, ctxDone>>

-----------------------------------------------------------------------------
(* DedupeCache *)

IsDuplicate(e) == e \in cache

Expired == stale

(* The entry of e reaches the TTL; nothing in the code happens yet. *)
Age(e) ==
  /\ e \in cache \ stale
  /\ stale' = stale \cup {e}
  /\ era' = [era EXCEPT ![e] = @ + 1]
  /\ UNCHANGED <<log, events, cache, addVars, readVars, chanVars, joinVars, ctxDone>>

(* The hourly cleanupRoutine of the dedupe cache. *)
CleanDedupe ==
  /\ cache' = cache \ Expired
  /\ stale' = stale \ Expired
  /\ UNCHANGED <<log, events, era, addVars, readVars, chanVars, joinVars, ctxDone>>

-----------------------------------------------------------------------------
(* AddEvent.  The cache's lock is released between IsDuplicate and Add, so   *)
(* the call has three steps; a duplicate returns at once and changes         *)
(* nothing.  Publish holds eventsMu from the eviction to the last            *)
(* notification and no one else touches q.events or a channel's sending end  *)
(* meanwhile, so it is one step.                                             *)

Busy == {r \in Relays : pc[r] # "idle"}

CheckDuplicate(r, e) ==
  /\ pc[r] = "idle"
  /\ Len(log) + Cardinality(Busy) < MaxMessages
  /\ ~IsDuplicate(e)
  /\ pc' = [pc EXCEPT ![r] = "checked"]
  /\ cur' = [cur EXCEPT ![r] = e]
  /\ UNCHANGED <<log, events, seenVars, curEra, readVars, chanVars, joinVars, ctxDone>>

MarkProcessed(r) ==
  /\ pc[r] = "checked"
  /\ cache' = cache \cup {cur[r]}
  /\ stale' = stale \ {cur[r]}
  /\ pc' = [pc EXCEPT ![r] = "marked"]
  /\ curEra' = [curEra EXCEPT ![r] = era[cur[r]]]
  /\ UNCHANGED <<log, events, era, cur, readVars, chanVars, joinVars, ctxDone>>

Evict(q) == IF Len(q) >= MaxSize THEN Tail(q) ELSE q

Registered(c) == phase[c] # "absent"

Full(c) == Len(sent[c]) - taken[c] >= BufferSize

Announced(id) == id

Publish(r) ==
  LET id == Len(log) + 1 IN
  /\ pc[r] = "marked"
  /\ log' = Append(log, [ev |-> cur[r], by |-> r, era |-> curEra[r]])
  /\ events' = Append(Evict(events), id)
  /\ sent' = [c \in Consumers |->
                IF Registered(c) /\ ~Full(c) THEN Append(sent[c], Announced(id))
                                             ELSE sent[c]]
  /\ skipped' = [c \in Consumers |->
                   IF Registered(c) /\ Full(c) THEN skipped[c] \cup {id} ELSE skipped[c]]
  /\ pc' = [pc EXCEPT ![r] = "idle"]
  /\ cur' = [cur EXCEPT ![r] = NoEvent]
  /\ curEra' = [curEra EXCEPT ![r] = 0]
  /\ UNCHANGED <<seenVars, readVars, joinVars, ctxDone>>

(* The five-minute cleanupRoutine of the queue. *)
Trimmed(q) == IF Len(q) > KeepLast THEN SubSeq(q, Len(q) - KeepLast + 1, Len(q)) ELSE q

TrimQueue ==
  /\ events' = Trimmed(events)
  /\ UNCHANGED <<log, seenVars, addVars, readVars, chanVars, joinVars, ctxDone>>

-----------------------------------------------------------------------------
(* CreateConsumer: the consumer enters the map under consumersMu, and only   *)
(* then is the backlog copied under eventsMu.  Between the two AddEvent      *)
(* already notifies it.                                                      *)

Register(c) ==
  /\ phase[c] = "absent"
  /\ phase' = [phase EXCEPT ![c] = "joining"]
  /\ joined' = [joined EXCEPT ![c] = Len(log)]
  /\ UNCHANGED <<log, events, seenVars, addVars, taken, done, chanVars, live, missed, ctxDone>>

Room(c) == BufferSize - (Len(sent[c]) - taken[c])

Copied(c) == IF Len(events) <= Room(c) THEN Len(events) ELSE Room(c)

SendBacklog(c) ==
  /\ phase[c] = "joining"
  /\ phase' = [phase EXCEPT ![c] = "idle"]
  /\ sent' = [sent EXCEPT ![c] = @ \o SubSeq(events, 1, Copied(c))]
  /\ skipped' = [skipped EXCEPT ![c] = @ \cup {events[i] : i \in Copied(c) + 1 .. Len(events)}]
  /\ live' = [live EXCEPT ![c] = Len(sent[c])]
  /\ missed' = [missed EXCEPT ![c] = Len(log) - Len(events)]
  /\ UNCHANGED <<log, events, seenVars, addVars, taken, done, joined, ctxDone>>

-----------------------------------------------------------------------------
(* The loop of Processor.Start around ReadEvents.  The batch ReadEvents has  *)
(* collected is sent[done + 1 .. taken].                                     *)

BeginRead(c) ==
  /\ phase[c] = "idle"
  /\ ~ctxDone
  /\ phase' = [phase EXCEPT ![c] = "reading"]
  /\ UNCHANGED <<log, events, seenVars, addVars, taken, done, chanVars, joinVars, ctxDone>>

Receive(c) ==
  /\ phase[c] = "reading"
  /\ taken[c] < Len(sent[c])
  /\ taken' = [taken EXCEPT ![c] = @ + 1]
  /\ phase' = [phase EXCEPT ![c] =
                 IF taken[c] + 1 - done[c] = BatchCount THEN "processing" ELSE "reading"]
  /\ UNCHANGED <<log, events, seenVars, addVars, done, chanVars, joinVars, ctxDone>>

(* The one-second timer: ReadEvents returns what it has and no error. *)
Timeout(c) ==
  /\ phase[c] = "reading"
  /\ phase' = [phase EXCEPT ![c] = IF done[c] < taken[c] THEN "processing" ELSE "idle"]
  /\ UNCHANGED <<log, events, seenVars, addVars, taken, done, chanVars, joinVars, ctxDone>>

(* ReadEvents returns its batch with ctx.Err(); the loop logs the error and  *)
(* continues, so the batch is never processed.                               *)
ReadCancelled(c) ==
  /\ phase[c] = "reading"
  /\ ctxDone
  /\ phase' = [phase EXCEPT ![c] = "idle"]
  /\ UNCHANGED <<log, events, seenVars, addVars, taken, done, chanVars, joinVars, ctxDone>>

ProcessNext(c) ==
  /\ phase[c] = "processing"
  /\ done' = [done EXCEPT ![c] = @ + 1]
  /\ phase' = [phase EXCEPT ![c] = IF done[c] + 1 = taken[c] THEN "idle" ELSE "processing"]
  /\ UNCHANGED <<log, events, seenVars, addVars, taken, chanVars, joinVars, ctxDone>>

Stop(c) ==
  /\ phase[c] = "idle"
  /\ ctxDone
  /\ phase' = [phase EXCEPT ![c] = "stopped"]
  /\ UNCHANGED <<log, events, seenVars, addVars, taken, done, chanVars, joinVars, ctxDone>>

(* SIGINT or SIGTERM: main cancels the context every goroutine shares. *)
Cancel ==
  /\ ctxDone' = TRUE
  /\ UNCHANGED <<log, events, seenVars, addVars, readVars, chanVars, joinVars>>

-----------------------------------------------------------------------------

AddEvent(r) == (\E e \in Events : CheckDuplicate(r, e)) \/ MarkProcessed(r) \/ Publish(r)

ReaderStep(c) ==
  \/ SendBacklog(c) \/ BeginRead(c) \/ Receive(c) \/ Timeout(c)
  \/ ReadCancelled(c) \/ ProcessNext(c) \/ Stop(c)

Next ==
  \/ \E r \in Relays : AddEvent(r)
  \/ \E c \in Consumers : Register(c) \/ ReaderStep(c)
  \/ \E e \in Events : Age(e)
  \/ CleanDedupe \/ TrimQueue \/ Cancel

Spec == Init /\ [][Next]_vars

(* The goroutine scheduler runs every ready reader, and a select with a      *)
(* ready channel picks among the ready cases at random, so a message that    *)
(* is there each time the loop selects is received at some turn.             *)
FairSpec ==
  /\ Spec
  /\ \A c \in Consumers : WF_vars(ReaderStep(c)) /\ SF_vars(Receive(c))

-----------------------------------------------------------------------------
(* Properties *)

(* A relay never gets the same event into the queue twice unless the         *)
(* event's dedupe entry outlived the TTL in between: the unlocked gap        *)
(* between IsDuplicate and Add lets only other relays in, and the hourly     *)
(* cleanup forgets nothing early.                                            *)
DedupPerRelay ==
  \A i, j \in 1 .. Len(log) :
    (i < j /\ log[i].ev = log[j].ev /\ log[i].by = log[j].by) => log[i].era < log[j].era

(* A consumer's channel carries messages in log order.  The one exception    *)
(* is the join: messages published between registration and the copy of the  *)
(* backlog come before the backlog, all of them newer than the registration. *)
OrderedFromJoin ==
  \A c \in Consumers : \A a, b \in 1 .. Len(sent[c]) :
    a < b => \/ sent[c][a] < sent[c][b]
             \/ a <= live[c] /\ live[c] < b /\ joined[c] < sent[c][a]

(* Registering before copying the backlog leaves no gap: every message was   *)
(* sent to a consumer that joined, or dropped because its channel was full,  *)
(* or both older than its registration and gone from q.events at the copy.   *)
Accounted(c, i) ==
  \/ \E a \in 1 .. Len(sent[c]) : sent[c][a] = i
  \/ i \in skipped[c]
  \/ i <= joined[c] /\ (phase[c] = "joining" \/ i <= missed[c])

NoSilentLoss ==
  \A c \in Consumers : Registered(c) => \A i \in 1 .. Len(log) : Accounted(c, i)

(* Messages that were read but not processed are lost only by a shutdown,    *)
(* and then fewer than one batch of them.                                    *)
BoundedShutdownLoss ==
  \A c \in Consumers :
    (phase[c] \notin {"reading", "processing"} /\ done[c] < taken[c])
      => ctxDone /\ taken[c] - done[c] < BatchCount

(* Every message in a consumer's channel is processed, unless the server is  *)
(* shut down first.                                                          *)
EventuallyProcessed ==
  \A c \in Consumers : \A n \in 1 .. MaxMessages :
    (Len(sent[c]) >= n) ~> (done[c] >= n \/ ctxDone)

(* A cancelled context ends every reading loop, also one that is still       *)
(* joining or in the middle of a batch.                                      *)
StopsAfterCancel ==
  \A c \in Consumers : (ctxDone /\ Registered(c)) ~> (phase[c] = "stopped")

(* Abstraction: a consumer's mailbox holds what its channel got and the loop *)
(* has not processed.                                                        *)
Membership(c) == CASE phase[c] = "absent"  -> "away"
                   [] phase[c] = "joining" -> "joining"
                   [] OTHER                -> "in"

Unhandled(c) == SubSeq(sent[c], done[c] + 1, Len(sent[c]))

Mail == INSTANCE Mailbox WITH
          Capacity <- BufferSize,
          Retained <- MaxSize,
          size     <- Len(log),
          member   <- [c \in Consumers |-> Membership(c)],
          box      <- [c \in Consumers |-> Unhandled(c)]

(* Locks, eviction, trimming, batches and the loop's errors behind it, the   *)
(* queue is a set of mailboxes: at most once, in order, a loss only when a   *)
(* channel is full, a join that misses nothing between registration and      *)
(* the copy and takes as much of the backlog as there is room for.           *)
KeepsMailbox == Mail!Spec

(* What listener.go promises of AddEvent ("deduplication is handled by the   *)
(* queue"): an event is queued once while its dedupe entry lives.            *)
EnqueuedOnce ==
  \A i, j \in 1 .. Len(log) :
    (i < j /\ log[i].ev = log[j].ev) => log[i].era < log[j].era

=============================================================================
