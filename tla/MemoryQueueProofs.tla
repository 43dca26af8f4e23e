------------------------- MODULE MemoryQueueProofs -------------------------
(***************************************************************************)
(* Proofs about MemoryQueue, for any number of relays and consumers and    *)
(* any queue, channel, batch and cleanup size.                             *)
(*                                                                         *)
(* The argument goes upwards: types with the read cursors, then the window *)
(* of the log that q.events shows, then the dedupe protocol of one relay,  *)
(* then what a consumer's channel holds.                                   *)
(***************************************************************************)
EXTENDS MemoryQueue, SequenceTheorems, TLAPS

-----------------------------------------------------------------------------
(* Inductive strengthenings *)

(* The read cursors: a batch being collected is not full, a batch being      *)
(* processed is not used up.                                                 *)
Cursors ==
  \A c \in Consumers :
    /\ phase[c] \in {"absent", "joining"} => taken[c] = 0 /\ done[c] = 0
    /\ phase[c] = "reading" => taken[c] - done[c] < BatchCount
    /\ phase[c] = "processing" => done[c] < taken[c]

ReaderInv == TypeOK /\ Cursors /\ BoundedShutdownLoss

(* q.events is a suffix of the log.                                          *)
Window ==
  \A i \in 1 .. Len(events) : events[i] = Len(log) - Len(events) + i

(* The messages of relay r with event e all stem from earlier eras than n.   *)
OlderThan(r, e, n) ==
  \A i \in 1 .. Len(log) : (log[i].by = r /\ log[i].ev = e) => log[i].era < n

Remembered(e) == e \in cache \ stale

(* A queued message's event is remembered until the event's era moves on, so *)
(* a call that found its event unknown is in a later era than every message  *)
(* its relay queued for it.                                                  *)
DedupInv ==
  /\ \A i \in 1 .. Len(log) :
       /\ log[i].era <= era[log[i].ev]
       /\ log[i].era = era[log[i].ev] => Remembered(log[i].ev)
  /\ \A r \in Relays :
       /\ pc[r] = "checked" => OlderThan(r, cur[r], era[cur[r]])
       /\ pc[r] = "marked" =>
            /\ OlderThan(r, cur[r], curEra[r])
            /\ curEra[r] <= era[cur[r]]
            /\ curEra[r] = era[cur[r]] => Remembered(cur[r])
  /\ DedupPerRelay

(* What a channel holds, before its consumer joins, while it joins and in    *)
(* general; the last conjunct is one consumer's part of OrderedFromJoin.     *)
ChannelOK(c) ==
  /\ joined[c] <= Len(log)
  /\ phase[c] = "absent" => sent[c] = <<>>
  /\ phase[c] \in {"absent", "joining"} => live[c] = 0
  /\ phase[c] = "joining" => \A a \in 1 .. Len(sent[c]) : joined[c] < sent[c][a]
  /\ \A a \in 1 .. Len(sent[c]) : sent[c][a] \in 1 .. Len(log)
  /\ \A a, b \in 1 .. Len(sent[c]) :
       a < b => \/ sent[c][a] < sent[c][b]
                \/ a <= live[c] /\ live[c] < b /\ joined[c] < sent[c][a]

ChannelInv == Window /\ \A c \in Consumers : ChannelOK(c)

-----------------------------------------------------------------------------
(* What eviction, trimming and the backlog copy do to a sequence.            *)

(* Appending after Evict yields a queue of at most MaxSize elements that     *)
(* differs from appending only by the oldest one.                            *)
LEMMA EvictAppend ==
  ASSUME NEW q \in Seq(Nat), Len(q) <= MaxSize, NEW n \in Nat
  PROVE  LET s == Append(Evict(q), n)
             d == IF Len(q) >= MaxSize THEN 1 ELSE 0
         IN  /\ s \in Seq(Nat)
             /\ Len(s) = Len(q) - d + 1
             /\ Len(s) <= MaxSize
             /\ \A i \in 1 .. Len(q) - d : s[i] = q[i + d]
             /\ s[Len(s)] = n
<1> USE QueueAssumption
<1>1. Len(q) \in Nat
  BY LenProperties
<1>2. CASE Len(q) >= MaxSize
  <2>1. q # <<>>
    BY <1>2, EmptySeq
  <2>2. Evict(q) = Tail(q)
    BY <1>2 DEF Evict
  <2>3. /\ Tail(q) \in Seq(Nat)
        /\ Len(Tail(q)) = Len(q) - 1
        /\ \A i \in 1 .. Len(Tail(q)) : Tail(q)[i] = q[i + 1]
    BY <2>1, HeadTailProperties
  <2>4. /\ Append(Tail(q), n) \in Seq(Nat)
        /\ Len(Append(Tail(q), n)) = Len(Tail(q)) + 1
        /\ \A i \in 1 .. Len(Tail(q)) : Append(Tail(q), n)[i] = Tail(q)[i]
        /\ Append(Tail(q), n)[Len(Tail(q)) + 1] = n
    BY <2>3, AppendProperties
  <2> QED
    BY <1>1, <1>2, <2>2, <2>3, <2>4
<1>3. CASE ~(Len(q) >= MaxSize)
  <2>1. Evict(q) = q
    BY <1>3 DEF Evict
  <2>2. /\ Append(q, n) \in Seq(Nat)
        /\ Len(Append(q, n)) = Len(q) + 1
        /\ \A i \in 1 .. Len(q) : Append(q, n)[i] = q[i]
        /\ Append(q, n)[Len(q) + 1] = n
    BY AppendProperties
  <2> QED
    BY <1>1, <1>3, <2>1, <2>2
<1> QED
  BY <1>2, <1>3

(* Trimming keeps a suffix of the queue.                                     *)
LEMMA TrimmedSuffix ==
  ASSUME NEW q \in Seq(Nat)
  PROVE  /\ Trimmed(q) \in Seq(Nat)
         /\ Len(Trimmed(q)) \in Nat
         /\ Len(Trimmed(q)) <= Len(q)
         /\ \A i \in 1 .. Len(Trimmed(q)) : Trimmed(q)[i] = q[Len(q) - Len(Trimmed(q)) + i]
<1> USE QueueAssumption
<1>1. Len(q) \in Nat /\ (\A i \in 1 .. Len(q) : q[i] \in Nat)
  BY LenProperties, ElementOfSeq
<1>2. CASE Len(q) > KeepLast
  <2> DEFINE m == Len(q) - KeepLast + 1
  <2>1. m \in Int /\ Len(q) \in Int /\ m <= Len(q) /\ \A i \in m .. Len(q) : q[i] \in Nat
    BY <1>1, <1>2
  <2>2. /\ SubSeq(q, m, Len(q)) \in Seq(Nat)
        /\ Len(SubSeq(q, m, Len(q))) = Len(q) - m + 1
        /\ \A i \in 1 .. Len(q) - m + 1 : SubSeq(q, m, Len(q))[i] = q[m + i - 1]
    BY <2>1, SubSeqProperties
  <2>3. Trimmed(q) = SubSeq(q, m, Len(q))
    BY <1>2 DEF Trimmed
  <2>4. Len(q) - m + 1 = KeepLast
    BY <1>1
  <2> HIDE DEF m
  <2>5. \A i \in 1 .. KeepLast : Trimmed(q)[i] = q[m + i - 1]
    BY <2>2, <2>3, <2>4
  <2>6. \A i \in 1 .. KeepLast : m + i - 1 = Len(q) - KeepLast + i
    BY <1>1 DEF m
  <2>7. /\ Len(Trimmed(q)) = KeepLast
        /\ KeepLast \in Nat /\ KeepLast <= Len(q)
        /\ Trimmed(q) \in Seq(Nat)
    BY <1>1, <1>2, <2>2, <2>3, <2>4
  <2> QED
    BY <2>5, <2>6, <2>7
<1>3. CASE ~(Len(q) > KeepLast)
  BY <1>1, <1>3 DEF Trimmed
<1> QED
  BY <1>2, <1>3

(* The backlog copy takes a prefix of q.events that fits into the channel.   *)
LEMMA BacklogPrefix ==
  ASSUME TypeOK, NEW c \in Consumers
  PROVE  LET b == SubSeq(events, 1, Copied(c))
         IN  /\ Copied(c) \in Nat
             /\ Copied(c) <= Len(events)
             /\ Copied(c) <= Room(c)
             /\ b \in Seq(Nat)
             /\ Len(b) = Copied(c)
             /\ \A i \in 1 .. Copied(c) : b[i] = events[i]
<1> USE QueueAssumption
<1>1. /\ events \in Seq(Nat)
      /\ Len(sent[c]) - taken[c] <= BufferSize
      /\ taken[c] \in Nat
      /\ sent[c] \in Seq(Nat)
  BY DEF TypeOK
<1>2. /\ Len(events) \in Nat
      /\ Len(sent[c]) \in Nat
      /\ \A i \in 1 .. Len(events) : events[i] \in Nat
  BY <1>1, LenProperties, ElementOfSeq
<1>3. Room(c) \in Nat
  BY <1>1, <1>2 DEF Room
<1>4. Copied(c) \in Nat /\ Copied(c) <= Len(events) /\ Copied(c) <= Room(c)
  BY <1>2, <1>3 DEF Copied
<1>5. \A i \in 1 .. Copied(c) : events[i] \in Nat
  BY <1>2, <1>4
<1>6. /\ SubSeq(events, 1, Copied(c)) \in Seq(Nat)
      /\ Len(SubSeq(events, 1, Copied(c))) = IF 1 <= Copied(c) THEN Copied(c) - 1 + 1 ELSE 0
      /\ \A i \in 1 .. Copied(c) - 1 + 1 : SubSeq(events, 1, Copied(c))[i] = events[1 + i - 1]
  BY <1>4, <1>5, SubSeqProperties
<1> QED
  BY <1>4, <1>6

-----------------------------------------------------------------------------
(* Types and read cursors                                                    *)

LEMMA ReaderInit == Init => ReaderInv
<1> USE QueueAssumption
<1> SUFFICES ASSUME Init PROVE ReaderInv
  OBVIOUS
<1>1. log = <<>> /\ log \in Seq(Message) /\ events \in Seq(Nat) /\ events = <<>>
  BY DEF Init
<1>2. Len(events) <= MaxSize /\ Len(events) <= Len(log)
  BY <1>1
<1>3. /\ stale \subseteq cache /\ cache \subseteq Events
      /\ era \in [Events -> Nat]
      /\ pc \in [Relays -> {"idle", "checked", "marked"}]
      /\ cur \in [Relays -> Events \cup {NoEvent}]
      /\ \A r \in Relays : pc[r] # "idle" => cur[r] \in Events
      /\ curEra \in [Relays -> Nat]
  BY DEF Init
<1>4. /\ phase \in [Consumers -> Phases]
      /\ sent \in [Consumers -> Seq(Nat)]
      /\ taken \in [Consumers -> Nat] /\ done \in [Consumers -> Nat]
      /\ skipped \in [Consumers -> SUBSET Nat]
      /\ joined \in [Consumers -> Nat] /\ live \in [Consumers -> Nat]
      /\ missed \in [Consumers -> Nat]
  BY DEF Init, Phases
<1>5. ASSUME NEW c \in Consumers
      PROVE  phase[c] = "absent" /\ taken[c] = 0 /\ done[c] = 0 /\ Len(sent[c]) = 0
  BY DEF Init
<1>6. ctxDone \in BOOLEAN
  BY DEF Init
<1>7. TypeOK
  BY <1>1, <1>2, <1>3, <1>4, <1>5, <1>6 DEF TypeOK
<1> QED
  BY <1>5, <1>7 DEF ReaderInv, Cursors, BoundedShutdownLoss

LEMMA TypeStep == TypeOK /\ Cursors /\ [Next]_vars => TypeOK'
<1> USE QueueAssumption
<1> SUFFICES ASSUME TypeOK, Cursors, [Next]_vars PROVE TypeOK'
  OBVIOUS
<1> USE DEF addVars, seenVars, readVars, chanVars, joinVars
<1>1. ASSUME NEW r \in Relays, NEW e \in Events, CheckDuplicate(r, e)
      PROVE  TypeOK'
  BY <1>1 DEF CheckDuplicate, TypeOK
<1>2. ASSUME NEW r \in Relays, MarkProcessed(r)
      PROVE  TypeOK'
  BY <1>2 DEF MarkProcessed, TypeOK
<1>3. ASSUME NEW r \in Relays, Publish(r)
      PROVE  TypeOK'
  <2> DEFINE id == Len(log) + 1
             m  == [ev |-> cur[r], by |-> r, era |-> curEra[r]]
  <2>1. Len(log) \in Nat /\ id \in Nat /\ m \in Message
    BY <1>3, LenProperties DEF Publish, TypeOK, Message
  <2>2. log' \in Seq(Message)
    BY <1>3, <2>1, AppendProperties DEF Publish, TypeOK
  <2>3. events' \in Seq(Nat) /\ Len(events') <= MaxSize /\ Len(events') <= Len(log')
    BY <1>3, <2>1, EvictAppend, LenProperties, AppendProperties DEF Publish, TypeOK
  <2>4. /\ sent' \in [Consumers -> Seq(Nat)]
        /\ \A c \in Consumers : /\ taken'[c] <= Len(sent'[c])
                               /\ Len(sent'[c]) - taken'[c] <= BufferSize
    <3> SUFFICES ASSUME NEW c \in Consumers
                 PROVE  /\ sent'[c] \in Seq(Nat)
                        /\ taken'[c] <= Len(sent'[c])
                        /\ Len(sent'[c]) - taken'[c] <= BufferSize
      BY <1>3 DEF Publish
    <3>1. sent[c] \in Seq(Nat) /\ taken' = taken
      BY <1>3 DEF Publish, TypeOK
    <3>2. /\ Len(sent[c]) \in Nat /\ taken[c] \in Nat
          /\ taken[c] <= Len(sent[c])
          /\ Len(sent[c]) - taken[c] <= BufferSize
      BY <3>1, LenProperties DEF TypeOK
    <3>3. CASE Registered(c) /\ ~Full(c)
      <4>1. sent'[c] = Append(sent[c], id)
        BY <1>3, <3>3 DEF Publish, Announced
      <4>2. sent'[c] \in Seq(Nat) /\ Len(sent'[c]) = Len(sent[c]) + 1
        BY <2>1, <3>1, <4>1, AppendProperties
      <4> QED
        BY <3>1, <3>2, <3>3, <4>2 DEF Full
    <3>4. CASE ~(Registered(c) /\ ~Full(c))
      BY <1>3, <3>1, <3>4 DEF Publish, TypeOK
    <3> QED
      BY <3>3, <3>4
  <2>5. skipped' \in [Consumers -> SUBSET Nat]
    BY <1>3, <2>1 DEF Publish, TypeOK
  <2>6. /\ pc' \in [Relays -> {"idle", "checked", "marked"}]
        /\ cur' \in [Relays -> Events \cup {NoEvent}]
        /\ curEra' \in [Relays -> Nat]
        /\ \A x \in Relays : pc'[x] # "idle" => cur'[x] \in Events
    BY <1>3 DEF Publish, TypeOK
  <2>7. UNCHANGED <<seenVars, readVars, joinVars, ctxDone>>
    BY <1>3 DEF Publish
  <2> QED
    BY <2>2, <2>3, <2>4, <2>5, <2>6, <2>7 DEF TypeOK
<1>4. ASSUME NEW c \in Consumers, Register(c)
      PROVE  TypeOK'
  <2>1. Len(log) \in Nat
    BY LenProperties DEF TypeOK
  <2> QED
    BY <1>4, <2>1 DEF Register, TypeOK, Phases
<1>5. ASSUME NEW c \in Consumers, SendBacklog(c)
      PROVE  TypeOK'
  <2> DEFINE b == SubSeq(events, 1, Copied(c))
  <2>1. b \in Seq(Nat) /\ Len(b) \in Nat /\ Len(b) <= Room(c)
    BY BacklogPrefix
  <2>2. /\ sent[c] \in Seq(Nat) /\ Len(sent[c]) \in Nat
        /\ taken[c] \in Nat /\ taken[c] <= Len(sent[c])
    BY LenProperties DEF TypeOK
  <2>3. /\ sent[c] \o b \in Seq(Nat)
        /\ Len(sent[c] \o b) = Len(sent[c]) + Len(b)
    BY <2>1, <2>2, ConcatProperties
  <2> HIDE DEF b
  <2>4. sent' = [sent EXCEPT ![c] = @ \o b]
    BY <1>5 DEF SendBacklog, b
  <2>5. /\ sent' \in [Consumers -> Seq(Nat)]
        /\ \A x \in Consumers : /\ taken[x] <= Len(sent'[x])
                               /\ Len(sent'[x]) - taken[x] <= BufferSize
    BY <2>1, <2>2, <2>3, <2>4 DEF TypeOK, Room
  <2>6. skipped' \in [Consumers -> SUBSET Nat]
    <3> DEFINE d == {events[i] : i \in Copied(c) + 1 .. Len(events)}
    <3>1. events \in Seq(Nat)
      BY DEF TypeOK
    <3>2. Copied(c) \in Nat /\ Len(events) \in Nat
      BY <3>1, BacklogPrefix, LenProperties
    <3>3. \A i \in 1 .. Len(events) : events[i] \in Nat
      BY <3>1, ElementOfSeq
    <3>4. d \subseteq Nat
      BY <3>2, <3>3
    <3>5. skipped' = [skipped EXCEPT ![c] = @ \cup d]
      BY <1>5 DEF SendBacklog
    <3> HIDE DEF d
    <3> QED
      BY <3>4, <3>5 DEF TypeOK
  <2>7. /\ live' \in [Consumers -> Nat]
        /\ phase' \in [Consumers -> Phases]
    BY <1>5, <2>2 DEF SendBacklog, TypeOK, Phases
  <2>8. missed' \in [Consumers -> Nat]
    BY <1>5, LenProperties DEF SendBacklog, TypeOK
  <2> QED
    BY <1>5, <2>5, <2>6, <2>7, <2>8 DEF SendBacklog, TypeOK
<1>6. ASSUME NEW c \in Consumers, BeginRead(c)
      PROVE  TypeOK'
  BY <1>6 DEF BeginRead, TypeOK, Phases
<1>7. ASSUME NEW c \in Consumers, Receive(c)
      PROVE  TypeOK'
  <2>1. taken' \in [Consumers -> Nat]
    <3>1. taken \in [Consumers -> Nat]
      BY DEF TypeOK
    <3>2. taken' = [taken EXCEPT ![c] = @ + 1]
      BY <1>7 DEF Receive
    <3> QED
      BY <3>1, <3>2
  <2>2. phase' \in [Consumers -> Phases]
    <3>1. phase \in [Consumers -> Phases] /\ "processing" \in Phases /\ "reading" \in Phases
      BY DEF TypeOK, Phases
    <3>2. PICK p \in {"processing", "reading"} : phase' = [phase EXCEPT ![c] = p]
      BY <1>7 DEF Receive
    <3> QED
      BY <3>1, <3>2
  <2>3. \A x \in Consumers : /\ done[x] <= taken'[x]
                           /\ taken'[x] <= Len(sent[x])
                           /\ Len(sent[x]) - taken'[x] <= BufferSize
    <3>1. \A x \in Consumers : /\ taken[x] \in Nat /\ done[x] \in Nat
                             /\ Len(sent[x]) \in Nat
                             /\ done[x] <= taken[x]
                             /\ taken[x] <= Len(sent[x])
                             /\ Len(sent[x]) - taken[x] <= BufferSize
      BY LenProperties DEF TypeOK
    <3>2. /\ \A x \in Consumers : taken'[x] = IF x = c THEN taken[c] + 1 ELSE taken[x]
          /\ taken[c] < Len(sent[c])
      BY <1>7 DEF Receive, TypeOK
    <3> QED
      BY <3>1, <3>2
  <2> QED
    BY <1>7, <2>1, <2>2, <2>3 DEF Receive, TypeOK
<1>8. ASSUME NEW c \in Consumers, Timeout(c)
      PROVE  TypeOK'
  BY <1>8 DEF Timeout, TypeOK, Phases
<1>9. ASSUME NEW c \in Consumers, ReadCancelled(c)
      PROVE  TypeOK'
  BY <1>9 DEF ReadCancelled, TypeOK, Phases
<1>10. ASSUME NEW c \in Consumers, ProcessNext(c)
       PROVE  TypeOK'
  <2>1. /\ phase' \in [Consumers -> Phases]
        /\ done' \in [Consumers -> Nat]
    BY <1>10 DEF ProcessNext, TypeOK, Phases
  <2>2. \A x \in Consumers : done'[x] <= taken[x]
    <3>1. \A x \in Consumers : taken[x] \in Nat /\ done[x] \in Nat /\ done[x] <= taken[x]
      BY DEF TypeOK
    <3>2. /\ \A x \in Consumers : done'[x] = IF x = c THEN done[c] + 1 ELSE done[x]
          /\ done[c] < taken[c]
      BY <1>10 DEF ProcessNext, TypeOK, Cursors
    <3> QED
      BY <3>1, <3>2
  <2> QED
    BY <1>10, <2>1, <2>2 DEF ProcessNext, TypeOK
<1>11. ASSUME NEW c \in Consumers, Stop(c)
       PROVE  TypeOK'
  BY <1>11 DEF Stop, TypeOK, Phases
<1>12. ASSUME NEW e \in Events, Age(e)
       PROVE  TypeOK'
  BY <1>12 DEF Age, TypeOK
<1>13. CASE CleanDedupe
  BY <1>13 DEF CleanDedupe, Expired, TypeOK
<1>14. CASE TrimQueue
  <2>1. /\ events' \in Seq(Nat) /\ Len(events') <= Len(events)
        /\ Len(events') \in Nat /\ Len(events) \in Nat /\ Len(log) \in Nat
    BY <1>14, TrimmedSuffix, LenProperties DEF TrimQueue, TypeOK
  <2>2. Len(events') <= MaxSize /\ Len(events') <= Len(log)
    BY <2>1 DEF TypeOK
  <2> QED
    BY <1>14, <2>1, <2>2 DEF TrimQueue, TypeOK
<1>15. CASE Cancel
  BY <1>15 DEF Cancel, TypeOK
<1>16. CASE UNCHANGED vars
  BY <1>16 DEF vars, TypeOK
<1> QED
  BY <1>1, <1>2, <1>3, <1>4, <1>5, <1>6, <1>7, <1>8, <1>9, <1>10, <1>11, <1>12,
     <1>13, <1>14, <1>15, <1>16 DEF Next, AddEvent, ReaderStep

(* The reader's steps keep the cursors; nobody else moves them.              *)
LEMMA CursorStep == ReaderInv /\ [Next]_vars => Cursors' /\ BoundedShutdownLoss'
<1> USE QueueAssumption
<1> DEFINE CursorOK(c) ==
      /\ phase[c] \in {"absent", "joining"} => taken[c] = 0 /\ done[c] = 0
      /\ phase[c] = "reading" => taken[c] - done[c] < BatchCount
      /\ phase[c] = "processing" => done[c] < taken[c]
      /\ (phase[c] \notin {"reading", "processing"} /\ done[c] < taken[c])
           => ctxDone /\ taken[c] - done[c] < BatchCount
<1> SUFFICES ASSUME ReaderInv, [Next]_vars, NEW x \in Consumers
             PROVE  CursorOK(x)'
  BY DEF Cursors, BoundedShutdownLoss
<1>0. /\ phase \in [Consumers -> Phases]
      /\ taken \in [Consumers -> Nat]
      /\ done \in [Consumers -> Nat]
      /\ \A c \in Consumers : done[c] <= taken[c]
      /\ \A c \in Consumers : CursorOK(c)
  BY DEF ReaderInv, TypeOK, Cursors, BoundedShutdownLoss
<1>1. CASE UNCHANGED <<readVars, ctxDone>>
  BY <1>0, <1>1 DEF readVars
<1>2. ASSUME NEW c \in Consumers, Register(c)
      PROVE  CursorOK(x)'
  BY <1>0, <1>2 DEF Register
<1>3. ASSUME NEW c \in Consumers, SendBacklog(c)
      PROVE  CursorOK(x)'
  BY <1>0, <1>3 DEF SendBacklog
<1>4. ASSUME NEW c \in Consumers, BeginRead(c)
      PROVE  CursorOK(x)'
  BY <1>0, <1>4 DEF BeginRead
<1>5. ASSUME NEW c \in Consumers, Receive(c)
      PROVE  CursorOK(x)'
  BY <1>0, <1>5 DEF Receive
<1>6. ASSUME NEW c \in Consumers, Timeout(c)
      PROVE  CursorOK(x)'
  BY <1>0, <1>6 DEF Timeout
<1>7. ASSUME NEW c \in Consumers, ReadCancelled(c)
      PROVE  CursorOK(x)'
  BY <1>0, <1>7 DEF ReadCancelled
<1>8. ASSUME NEW c \in Consumers, ProcessNext(c)
      PROVE  CursorOK(x)'
  BY <1>0, <1>8 DEF ProcessNext
<1>9. ASSUME NEW c \in Consumers, Stop(c)
      PROVE  CursorOK(x)'
  BY <1>0, <1>9 DEF Stop
<1>10. CASE Cancel
  BY <1>0, <1>10 DEF Cancel, readVars
<1> QED
  BY <1>1, <1>2, <1>3, <1>4, <1>5, <1>6, <1>7, <1>8, <1>9, <1>10
  DEF Next, AddEvent, ReaderStep, CheckDuplicate, MarkProcessed, Publish, Age,
      CleanDedupe, TrimQueue, vars

LEMMA ReaderInvariant == Spec => []ReaderInv
<1>1. ReaderInv /\ [Next]_vars => ReaderInv'
  BY TypeStep, CursorStep DEF ReaderInv
<1> QED
  BY ReaderInit, <1>1, PTL DEF Spec

(* Type correctness: among others, no channel ever holds more than its       *)
(* capacity and q.events never exceeds maxSize.                              *)
THEOREM TypeCorrect == Spec => []TypeOK
<1>1. ReaderInv => TypeOK
  BY DEF ReaderInv
<1> QED
  BY ReaderInvariant, <1>1, PTL

(* Only a shutdown loses messages that were read, and less than a batch.     *)
THEOREM ShutdownLossBounded == Spec => []BoundedShutdownLoss
<1>1. ReaderInv => BoundedShutdownLoss
  BY DEF ReaderInv
<1> QED
  BY ReaderInvariant, <1>1, PTL

-----------------------------------------------------------------------------
(* Deduplication                                                             *)

(* How the log and its messages look after a publication.                    *)
LEMMA Published ==
  ASSUME TypeOK, NEW r \in Relays, Publish(r)
  PROVE  LET m == [ev |-> cur[r], by |-> r, era |-> curEra[r]]
         IN  /\ Len(log) \in Nat
             /\ Len(log') = Len(log) + 1
             /\ \A i \in 1 .. Len(log) : log'[i] = log[i]
             /\ log'[Len(log) + 1] = m
             /\ m.ev = cur[r] /\ m.by = r /\ m.era = curEra[r]
             /\ cur[r] \in Events /\ curEra[r] \in Nat
<1> DEFINE m == [ev |-> cur[r], by |-> r, era |-> curEra[r]]
<1>1. log \in Seq(Message) /\ cur[r] \in Events /\ curEra[r] \in Nat
  BY DEF TypeOK, Publish
<1>2. m \in Message
  BY <1>1 DEF Message
<1>3. log' = Append(log, m)
  BY DEF Publish
<1> HIDE DEF m
<1>4. /\ Len(log) \in Nat
      /\ Len(log') = Len(log) + 1
      /\ \A i \in 1 .. Len(log) : log'[i] = log[i]
      /\ log'[Len(log) + 1] = m
  BY <1>1, <1>2, <1>3, AppendProperties, LenProperties
<1>5. m.ev = cur[r] /\ m.by = r /\ m.era = curEra[r]
  BY DEF m
<1> QED
  BY <1>1, <1>4, <1>5 DEF m

(* The messages in the log are messages.                                     *)
LEMMA LogTyped ==
  ASSUME TypeOK
  PROVE  \A i \in 1 .. Len(log) :
           log[i].ev \in Events /\ log[i].by \in Relays /\ log[i].era \in Nat
<1>1. \A i \in 1 .. Len(log) : log[i] \in Message
  BY ElementOfSeq DEF TypeOK
<1> QED
  BY <1>1 DEF Message

LEMMA DedupInit == Init => DedupInv
<1> SUFFICES ASSUME Init PROVE DedupInv
  OBVIOUS
<1>1. Len(log) = 0 /\ \A r \in Relays : pc[r] = "idle"
  BY DEF Init
<1> QED
  BY <1>1 DEF DedupInv, DedupPerRelay

LEMMA DedupStep == TypeOK /\ DedupInv /\ [Next]_vars => DedupInv'
<1> SUFFICES ASSUME TypeOK, DedupInv, [Next]_vars PROVE DedupInv'
  OBVIOUS
<1> USE DEF Remembered
<1>1. /\ \A i \in 1 .. Len(log) :
           log[i].ev \in Events /\ log[i].by \in Relays /\ log[i].era \in Nat
      /\ Len(log) \in Nat
      /\ era \in [Events -> Nat]
      /\ stale \subseteq cache /\ cache \subseteq Events
  BY LogTyped, LenProperties DEF TypeOK
<1>2. /\ pc \in [Relays -> {"idle", "checked", "marked"}]
      /\ cur \in [Relays -> Events \cup {NoEvent}]
      /\ curEra \in [Relays -> Nat]
      /\ \A r \in Relays : pc[r] # "idle" => cur[r] \in Events
  BY DEF TypeOK
<1>3. CASE UNCHANGED <<log, seenVars, addVars>>
  BY <1>3 DEF DedupInv, DedupPerRelay, OlderThan, seenVars, addVars
<1>4. ASSUME NEW e \in Events, Age(e)
      PROVE  DedupInv'
  <2>1. /\ UNCHANGED <<log, cache, pc, cur, curEra>>
        /\ stale' = stale \cup {e}
        /\ era' = [era EXCEPT ![e] = era[e] + 1]
    BY <1>4 DEF Age, addVars
  <2>2. DedupPerRelay'
    BY <2>1 DEF DedupInv, DedupPerRelay
  <2>3. \A x \in Events : /\ era[x] \in Nat /\ era'[x] \in Nat
                          /\ era[x] <= era'[x]
                          /\ x = e => era[x] < era'[x]
                          /\ x # e => (Remembered(x) => Remembered(x)')
    BY <1>1, <2>1
  <2>4. \A i \in 1 .. Len(log') :
          /\ log'[i].era <= era'[log'[i].ev]
          /\ log'[i].era = era'[log'[i].ev] => Remembered(log[i].ev)'
    BY <1>1, <2>1, <2>3 DEF DedupInv
  <2>5. ASSUME NEW r \in Relays, pc'[r] = "checked"
        PROVE  OlderThan(r, cur[r], era[cur[r]])'
    BY <1>1, <1>2, <2>1, <2>3, <2>5 DEF DedupInv, OlderThan
  <2>6. ASSUME NEW r \in Relays, pc'[r] = "marked"
        PROVE  /\ OlderThan(r, cur[r], curEra[r])'
               /\ curEra'[r] <= era'[cur'[r]]
               /\ curEra'[r] = era'[cur'[r]] => Remembered(cur[r])'
    BY <1>1, <1>2, <2>1, <2>3, <2>6 DEF DedupInv, OlderThan
  <2> QED
    BY <2>1, <2>2, <2>4, <2>5, <2>6 DEF DedupInv
<1>5. CASE CleanDedupe
  <2>1. UNCHANGED <<log, era, pc, cur, curEra>>
    BY <1>5 DEF CleanDedupe, addVars
  <2>2. \A x : Remembered(x) => Remembered(x)'
    BY <1>5 DEF CleanDedupe, Expired
  <2> QED
    BY <2>1, <2>2 DEF DedupInv, DedupPerRelay, OlderThan
<1>6. ASSUME NEW r \in Relays, NEW e \in Events, CheckDuplicate(r, e)
      PROVE  DedupInv'
  <2>1. /\ UNCHANGED <<log, cache, stale, era, curEra>>
        /\ pc' = [pc EXCEPT ![r] = "checked"]
        /\ cur' = [cur EXCEPT ![r] = e]
        /\ e \notin cache
    BY <1>6 DEF CheckDuplicate, IsDuplicate, seenVars
  <2>2. OlderThan(r, e, era[e])
    BY <1>1, <2>1 DEF DedupInv, OlderThan
  <2>3. \A x \in Relays : pc'[x] = IF x = r THEN "checked" ELSE pc[x]
    BY <1>2, <2>1
  <2>4. \A x \in Relays : cur'[x] = IF x = r THEN e ELSE cur[x]
    BY <1>2, <2>1
  <2> QED
    BY <2>1, <2>2, <2>3, <2>4 DEF DedupInv, DedupPerRelay, OlderThan
<1>7. ASSUME NEW r \in Relays, MarkProcessed(r)
      PROVE  DedupInv'
  <2>1. /\ UNCHANGED <<log, era, cur>>
        /\ pc[r] = "checked" /\ cur[r] \in Events
        /\ cache' = cache \cup {cur[r]}
        /\ stale' = stale \ {cur[r]}
        /\ pc' = [pc EXCEPT ![r] = "marked"]
        /\ curEra' = [curEra EXCEPT ![r] = era[cur[r]]]
    BY <1>2, <1>7 DEF MarkProcessed
  <2>2. \A x : (Remembered(x) \/ x = cur[r]) => Remembered(x)'
    BY <2>1
  <2>3. \A x \in Relays :
          \/ x = r /\ pc'[x] = "marked" /\ curEra'[x] = era[cur[x]]
          \/ x # r /\ pc'[x] = pc[x] /\ curEra'[x] = curEra[x]
    BY <1>2, <2>1
  <2>4. era[cur[r]] \in Nat
    BY <1>1, <2>1
  <2> QED
    BY <2>1, <2>2, <2>3, <2>4 DEF DedupInv, DedupPerRelay, OlderThan
<1>8. ASSUME NEW r \in Relays, Publish(r)
      PROVE  DedupInv'
  <2> DEFINE n == Len(log) + 1
  <2>1. /\ Len(log') = n
        /\ \A i \in 1 .. Len(log) : log'[i] = log[i]
        /\ log'[n].ev = cur[r] /\ log'[n].by = r /\ log'[n].era = curEra[r]
        /\ cur[r] \in Events /\ curEra[r] \in Nat
    BY <1>8, Published
  <2>2. /\ UNCHANGED <<cache, stale, era>>
        /\ pc[r] = "marked"
        /\ \A x \in Relays : \/ x = r /\ pc'[x] = "idle"
                            \/ /\ x # r /\ pc'[x] = pc[x]
                               /\ cur'[x] = cur[x] /\ curEra'[x] = curEra[x]
    BY <1>2, <1>8 DEF Publish, seenVars
  <2>3. \A i \in 1 .. n : i = n \/ i \in 1 .. Len(log)
    BY <1>1
  <2>4. /\ OlderThan(r, cur[r], curEra[r])
        /\ curEra[r] <= era[cur[r]]
        /\ curEra[r] = era[cur[r]] => Remembered(cur[r])
    BY <2>2 DEF DedupInv
  <2>5. \A i \in 1 .. Len(log') :
          /\ log'[i].era <= era'[log'[i].ev]
          /\ log'[i].era = era'[log'[i].ev] => Remembered(log[i].ev)'
    <3> SUFFICES ASSUME NEW i \in 1 .. Len(log')
                 PROVE  /\ log'[i].era <= era'[log'[i].ev]
                        /\ log'[i].era = era'[log'[i].ev] => Remembered(log[i].ev)'
      OBVIOUS
    <3>1. CASE i = n
      BY <2>1, <2>2, <2>4, <3>1
    <3>2. CASE i \in 1 .. Len(log)
      <4>1. log'[i] = log[i]
        BY <2>1, <3>2
      <4> QED
        BY <2>2, <3>2, <4>1 DEF DedupInv
    <3> QED
      BY <2>1, <2>3, <3>1, <3>2
  <2>6. ASSUME NEW x \in Relays, NEW e, NEW k, x # r, OlderThan(x, e, k)
        PROVE  \A i \in 1 .. n : (log'[i].by = x /\ log'[i].ev = e) => log'[i].era < k
    BY <2>1, <2>3, <2>6 DEF OlderThan
  <2>7. ASSUME NEW x \in Relays
        PROVE  /\ pc'[x] = "checked" => OlderThan(x, cur[x], era[cur[x]])'
               /\ pc'[x] = "marked" =>
                    /\ OlderThan(x, cur[x], curEra[x])'
                    /\ curEra'[x] <= era'[cur'[x]]
                    /\ curEra'[x] = era'[cur'[x]] => Remembered(cur[x])'
    BY <2>1, <2>2, <2>6 DEF DedupInv, OlderThan
  <2>8. DedupPerRelay'
    <3> SUFFICES ASSUME NEW i \in 1 .. n, NEW j \in 1 .. n, i < j,
                        log'[i].ev = log'[j].ev, log'[i].by = log'[j].by
                 PROVE  log'[i].era < log'[j].era
      BY <2>1 DEF DedupPerRelay
    <3>1. i \in 1 .. Len(log)
      BY <1>1
    <3>2. CASE j = n
      BY <2>1, <2>4, <3>1, <3>2 DEF OlderThan
    <3>3. CASE j \in 1 .. Len(log)
      BY <2>1, <3>1, <3>3 DEF DedupInv, DedupPerRelay
    <3> QED
      BY <2>3, <3>2, <3>3
  <2> QED
    BY <2>5, <2>7, <2>8 DEF DedupInv
<1> QED
  BY <1>3, <1>4, <1>5, <1>6, <1>7, <1>8
  DEF Next, AddEvent, ReaderStep, Register, SendBacklog, BeginRead, Receive, Timeout,
      ReadCancelled, ProcessNext, Stop, TrimQueue, Cancel, vars

(* One relay queues an event at most once per lifetime of its dedupe entry,  *)
(* for any number of relays between whose calls IsDuplicate and Add may run. *)
THEOREM DedupCorrect == Spec => []DedupPerRelay
<1>1. DedupInv => DedupPerRelay
  BY DEF DedupInv
<1> QED
  BY TypeCorrect, DedupInit, DedupStep, <1>1, PTL DEF Spec

(* What listener.go promises of AddEvent does hold with one upstream relay:  *)
(* the gap between IsDuplicate and Add is only open to a second one.         *)
THEOREM OneRelayDedup ==
  ASSUME \A r, s \in Relays : r = s
  PROVE  Spec => []EnqueuedOnce
<1>1. TypeOK /\ DedupPerRelay => EnqueuedOnce
  <2> SUFFICES ASSUME TypeOK, DedupPerRelay,
                      NEW i \in 1 .. Len(log), NEW j \in 1 .. Len(log),
                      i < j, log[i].ev = log[j].ev
               PROVE  log[i].era < log[j].era
    BY DEF EnqueuedOnce
  <2>1. log[i] \in Message /\ log[j] \in Message
    BY ElementOfSeq DEF TypeOK
  <2>2. log[i].by = log[j].by
    BY <2>1 DEF Message
  <2> QED
    BY <2>2 DEF DedupPerRelay
<1> QED
  BY TypeCorrect, DedupCorrect, <1>1, PTL

-----------------------------------------------------------------------------
(* The window q.events shows                                                 *)

LEMMA WindowInit == Init => Window
<1> SUFFICES ASSUME Init PROVE Window
  OBVIOUS
<1>1. Len(events) = 0
  BY DEF Init
<1> QED
  BY <1>1 DEF Window

LEMMA WindowStep == TypeOK /\ Window /\ [Next]_vars => Window'
<1> USE QueueAssumption
<1> SUFFICES ASSUME TypeOK, Window, [Next]_vars PROVE Window'
  OBVIOUS
<1>1. /\ events \in Seq(Nat) /\ Len(events) \in Nat /\ Len(events) <= MaxSize
      /\ Len(log) \in Nat
  BY LenProperties DEF TypeOK
<1>2. CASE UNCHANGED <<log, events>>
  BY <1>2 DEF Window
<1>3. ASSUME NEW r \in Relays, Publish(r)
      PROVE  Window'
  <2> DEFINE d == IF Len(events) >= MaxSize THEN 1 ELSE 0
  <2>1. Len(log') = Len(log) + 1
    BY <1>3, Published
  <2>2. events' = Append(Evict(events), Len(log) + 1)
    BY <1>3 DEF Publish
  <2>3. /\ Len(events') = Len(events) - d + 1
        /\ \A i \in 1 .. Len(events) - d : events'[i] = events[i + d]
        /\ events'[Len(events')] = Len(log) + 1
    <3> DEFINE s == Append(Evict(events), Len(log) + 1)
    <3>1. Len(log) + 1 \in Nat
      BY <1>1
    <3>2. /\ Len(s) = Len(events) - d + 1
          /\ \A i \in 1 .. Len(events) - d : s[i] = events[i + d]
          /\ s[Len(s)] = Len(log) + 1
      BY <1>1, <3>1, EvictAppend
    <3> QED
      BY <2>2, <3>2
  <2>4. d \in 0 .. 1 /\ d <= Len(events)
    BY <1>1
  <2> HIDE DEF d
  <2> SUFFICES ASSUME NEW i \in 1 .. Len(events')
               PROVE  events'[i] = Len(log') - Len(events') + i
    BY DEF Window
  <2>5. CASE i = Len(events')
    BY <1>1, <2>1, <2>3, <2>4, <2>5
  <2>6. CASE i \in 1 .. Len(events) - d
    <3>1. i + d \in 1 .. Len(events)
      BY <1>1, <2>4, <2>6
    <3>2. events'[i] = Len(log) - Len(events) + (i + d)
      BY <2>3, <2>6, <3>1 DEF Window
    <3> QED
      BY <1>1, <2>1, <2>3, <2>4, <3>2
  <2> QED
    BY <1>1, <2>3, <2>4, <2>5, <2>6
<1>4. CASE TrimQueue
  <2>1. /\ log' = log /\ events' = Trimmed(events)
        /\ Len(events') \in Nat /\ Len(events') <= Len(events)
        /\ \A i \in 1 .. Len(events') : events'[i] = events[Len(events) - Len(events') + i]
    BY <1>1, <1>4, TrimmedSuffix DEF TrimQueue
  <2> SUFFICES ASSUME NEW i \in 1 .. Len(events')
               PROVE  events'[i] = Len(log') - Len(events') + i
    BY DEF Window
  <2>2. Len(events) - Len(events') + i \in 1 .. Len(events)
    BY <1>1, <2>1
  <2>3. events'[i] = Len(log) - Len(events) + (Len(events) - Len(events') + i)
    BY <2>1, <2>2 DEF Window
  <2> QED
    BY <1>1, <2>1, <2>3
<1> QED
  BY <1>2, <1>3, <1>4
  DEF Next, AddEvent, ReaderStep, CheckDuplicate, MarkProcessed, Age, CleanDedupe,
      Register, SendBacklog, BeginRead, Receive, Timeout, ReadCancelled, ProcessNext,
      Stop, Cancel, vars

-----------------------------------------------------------------------------
(* What a step does to one channel                                           *)

(* A publication leaves a channel alone or puts the new message at its end.  *)
LEMMA PublishedTo ==
  ASSUME TypeOK, NEW r \in Relays, Publish(r), NEW c \in Consumers
  PROVE  /\ Len(sent[c]) \in Nat
         /\ \/ sent'[c] = sent[c] /\ ~Registered(c) /\ skipped'[c] = skipped[c]
            \/ sent'[c] = sent[c] /\ skipped'[c] = skipped[c] \cup {Len(log) + 1}
            \/ /\ Registered(c) /\ skipped'[c] = skipped[c]
               /\ Len(sent'[c]) = Len(sent[c]) + 1
               /\ \A a \in 1 .. Len(sent[c]) : sent'[c][a] = sent[c][a]
               /\ sent'[c][Len(sent[c]) + 1] = Len(log) + 1
<1>1. sent[c] \in Seq(Nat) /\ Len(sent[c]) \in Nat /\ Len(log) + 1 \in Nat
  BY LenProperties DEF TypeOK
<1>2. /\ sent'[c] = IF Registered(c) /\ ~Full(c)
                     THEN Append(sent[c], Len(log) + 1) ELSE sent[c]
      /\ skipped'[c] = IF Registered(c) /\ Full(c)
                        THEN skipped[c] \cup {Len(log) + 1} ELSE skipped[c]
  BY DEF Publish, Announced
<1>3. /\ Len(Append(sent[c], Len(log) + 1)) = Len(sent[c]) + 1
      /\ \A a \in 1 .. Len(sent[c]) : Append(sent[c], Len(log) + 1)[a] = sent[c][a]
      /\ Append(sent[c], Len(log) + 1)[Len(sent[c]) + 1] = Len(log) + 1
  BY <1>1, AppendProperties
<1>4. CASE Registered(c) /\ ~Full(c)
  BY <1>1, <1>2, <1>3, <1>4
<1>5. CASE Registered(c) /\ Full(c)
  BY <1>1, <1>2, <1>5
<1>6. CASE ~Registered(c)
  BY <1>1, <1>2, <1>6
<1> QED
  BY <1>4, <1>5, <1>6

(* The copy of the backlog appends the oldest messages of the window that    *)
(* fit, in order, and skips the rest of the window.                          *)
LEMMA BacklogSent ==
  ASSUME TypeOK, Window, NEW c \in Consumers, SendBacklog(c)
  PROVE  LET n == Len(sent[c])
             k == Copied(c)
             w == Len(log) - Len(events)
         IN  /\ n \in Nat /\ k \in Nat /\ w \in Nat /\ Len(log) \in Nat
             /\ w + k <= Len(log)
             /\ Len(sent'[c]) = n + k
             /\ \A a \in 1 .. n : sent'[c][a] = sent[c][a]
             /\ \A a \in n + 1 .. n + k : sent'[c][a] = w + (a - n)
             /\ \A i \in w + k + 1 .. Len(log) : i \in skipped'[c]
             /\ skipped[c] \subseteq skipped'[c]
             /\ live'[c] = n /\ missed'[c] = w /\ phase'[c] = "idle"
<1> DEFINE n == Len(sent[c])
           k == Copied(c)
           w == Len(log) - Len(events)
           b == SubSeq(events, 1, k)
<1>1. /\ sent[c] \in Seq(Nat) /\ n \in Nat
      /\ Len(events) \in Nat /\ Len(log) \in Nat /\ w \in Nat
  BY LenProperties DEF TypeOK
<1>2. /\ k \in Nat /\ k <= Len(events)
      /\ b \in Seq(Nat) /\ Len(b) = k
      /\ \A i \in 1 .. k : b[i] = events[i]
  BY BacklogPrefix
<1>3. \A i \in 1 .. Len(events) : events[i] = w + i
  BY DEF Window
<1>4. /\ sent'[c] = sent[c] \o b
      /\ skipped'[c] = skipped[c] \cup {events[i] : i \in k + 1 .. Len(events)}
      /\ live'[c] = n /\ missed'[c] = w /\ phase'[c] = "idle"
  BY DEF SendBacklog, TypeOK
<1> HIDE DEF b, k, w, n
<1>5. /\ Len(sent[c] \o b) = n + Len(b)
      /\ \A a \in 1 .. n + Len(b) :
           (sent[c] \o b)[a] = IF a <= n THEN sent[c][a] ELSE b[a - n]
  BY <1>1, <1>2, ConcatProperties DEF n
<1>6. \A a \in n + 1 .. n + k : sent'[c][a] = w + (a - n)
  <2> SUFFICES ASSUME NEW a \in n + 1 .. n + k PROVE sent'[c][a] = w + (a - n)
    OBVIOUS
  <2>1. a \in 1 .. n + Len(b) /\ ~(a <= n) /\ a - n \in 1 .. k /\ a - n \in 1 .. Len(events)
    BY <1>1, <1>2
  <2> QED
    BY <1>2, <1>3, <1>4, <1>5, <2>1
<1>7. \A a \in 1 .. n : sent'[c][a] = sent[c][a]
  BY <1>1, <1>2, <1>4, <1>5
<1>8. \A i \in w + k + 1 .. Len(log) : i \in skipped'[c]
  <2> SUFFICES ASSUME NEW i \in w + k + 1 .. Len(log) PROVE i \in skipped'[c]
    OBVIOUS
  <2>1. i - w \in k + 1 .. Len(events) /\ i - w \in 1 .. Len(events)
    BY <1>1, <1>2 DEF w
  <2>2. events[i - w] = i
    BY <1>1, <1>3, <2>1
  <2> QED
    BY <1>4, <2>1, <2>2
<1>9. w + k <= Len(log)
  BY <1>1, <1>2 DEF w
<1> QED
  BY <1>1, <1>2, <1>4, <1>5, <1>6, <1>7, <1>8, <1>9 DEF n, k, w

(* Everybody else's channel is left alone by a step of c.                    *)
LEMMA BacklogFrame ==
  ASSUME TypeOK, NEW c \in Consumers, SendBacklog(c), NEW x \in Consumers, x # c
  PROVE  /\ sent'[x] = sent[x] /\ skipped'[x] = skipped[x]
         /\ live'[x] = live[x] /\ missed'[x] = missed[x] /\ phase'[x] = phase[x]
  BY DEF SendBacklog, TypeOK

-----------------------------------------------------------------------------
(* Order and completeness of a channel                                       *)

LoopStep(c) ==
  BeginRead(c) \/ Receive(c) \/ Timeout(c) \/ ReadCancelled(c) \/ ProcessNext(c) \/ Stop(c)

(* Apart from Publish, Register and SendBacklog, a step leaves the channels  *)
(* and the log alone and makes no consumer appear or join.                   *)
LEMMA ChannelFrame ==
  ASSUME TypeOK, [Next]_vars,
         ~(\E r \in Relays : Publish(r)),
         ~(\E c \in Consumers : Register(c) \/ SendBacklog(c))
  PROVE  /\ UNCHANGED <<log, chanVars, joinVars>>
         /\ \A x \in Consumers :
              \/ phase'[x] = phase[x]
              \/ phase[x] \notin {"absent", "joining"} /\ phase'[x] \notin {"absent", "joining"}
<1>1. CASE \E c \in Consumers : LoopStep(c)
  <2> SUFFICES ASSUME NEW c \in Consumers, LoopStep(c)
               PROVE  /\ UNCHANGED <<log, chanVars, joinVars>>
                      /\ \A x \in Consumers :
                           \/ phase'[x] = phase[x]
                           \/ /\ phase[x] \notin {"absent", "joining"}
                              /\ phase'[x] \notin {"absent", "joining"}
    BY <1>1
  <2>1. UNCHANGED <<log, chanVars, joinVars>>
    BY DEF LoopStep, BeginRead, Receive, Timeout, ReadCancelled, ProcessNext, Stop
  <2>2. phase \in [Consumers -> Phases]
    BY DEF TypeOK
  <2>3. PICK p \in Phases \ {"absent", "joining"} :
          phase' = [phase EXCEPT ![c] = p] /\ phase[c] \notin {"absent", "joining"}
    BY DEF LoopStep, BeginRead, Receive, Timeout, ReadCancelled, ProcessNext, Stop, Phases
  <2> QED
    BY <2>1, <2>2, <2>3
<1>2. CASE UNCHANGED <<log, chanVars, joinVars, phase>>
  BY <1>2
<1> QED
  BY <1>1, <1>2
  DEF LoopStep, Next, AddEvent, ReaderStep, CheckDuplicate, MarkProcessed, Age, CleanDedupe,
      TrimQueue, Cancel, vars, readVars, chanVars, joinVars

LEMMA ChannelInit == Init => \A c \in Consumers : ChannelOK(c)
  BY DEF Init, ChannelOK

LEMMA ChannelStep ==
  ASSUME TypeOK, Window, [Next]_vars, NEW x \in Consumers, ChannelOK(x)
  PROVE  ChannelOK(x)'
<1>1. /\ Len(log) \in Nat /\ Len(sent[x]) \in Nat
      /\ joined[x] \in Nat /\ live[x] \in Nat
  BY LenProperties DEF TypeOK
<1>2. \A a \in 1 .. Len(sent[x]) : sent[x][a] \in 1 .. Len(log)
  BY DEF ChannelOK
<1>3. ASSUME NEW r \in Relays, Publish(r)
      PROVE  ChannelOK(x)'
  <2>1. /\ Len(log') = Len(log) + 1
        /\ UNCHANGED <<phase, joined, live>>
    BY <1>3, Published DEF Publish, readVars, joinVars
  <2>2. CASE sent'[x] = sent[x]
    <3>1. \A a \in 1 .. Len(sent'[x]) : sent'[x][a] \in 1 .. Len(log')
      BY <1>1, <1>2, <2>1, <2>2
    <3>2. joined'[x] <= Len(log')
      BY <1>1, <2>1 DEF ChannelOK
    <3> QED
      BY <2>1, <2>2, <3>1, <3>2 DEF ChannelOK
  <2>3. CASE /\ Registered(x)
             /\ Len(sent'[x]) = Len(sent[x]) + 1
             /\ \A a \in 1 .. Len(sent[x]) : sent'[x][a] = sent[x][a]
             /\ sent'[x][Len(sent[x]) + 1] = Len(log) + 1
    <3>1. \A a \in 1 .. Len(sent'[x]) : a \in 1 .. Len(sent[x]) \/ a = Len(sent[x]) + 1
      BY <1>1, <2>3
    <3>2. phase'[x] # "absent"
      BY <2>1, <2>3 DEF Registered
    <3>3. phase'[x] \in {"absent", "joining"} => live'[x] = 0
      BY <2>1 DEF ChannelOK
    <3>4. /\ joined'[x] <= Len(log')
          /\ phase'[x] = "joining" => \A a \in 1 .. Len(sent'[x]) : joined'[x] < sent'[x][a]
      <4>1. joined[x] <= Len(log) /\ joined[x] < Len(log) + 1
        BY <1>1 DEF ChannelOK
      <4>2. ASSUME phase'[x] = "joining", NEW a \in 1 .. Len(sent[x])
            PROVE  joined[x] < sent[x][a]
        BY <2>1, <4>2 DEF ChannelOK
      <4> QED
        BY <1>1, <2>1, <2>3, <3>1, <4>1, <4>2
    <3>5. ASSUME NEW a \in 1 .. Len(sent'[x])
          PROVE  sent'[x][a] \in 1 .. Len(log')
      <4>1. CASE a \in 1 .. Len(sent[x])
        <5>1. sent'[x][a] \in 1 .. Len(log)
          BY <1>2, <2>3, <4>1
        <5> QED
          BY <1>1, <2>1, <5>1
      <4>2. CASE a = Len(sent[x]) + 1
        BY <1>1, <2>1, <2>3, <4>2
      <4> QED
        BY <3>1, <4>1, <4>2
    <3>6. ASSUME NEW a \in 1 .. Len(sent'[x]), NEW b \in 1 .. Len(sent'[x]), a < b
          PROVE  \/ sent'[x][a] < sent'[x][b]
                 \/ a <= live'[x] /\ live'[x] < b /\ joined'[x] < sent'[x][a]
      <4>1. a \in 1 .. Len(sent[x])
        BY <1>1, <2>3, <3>1, <3>6
      <4>2. CASE b \in 1 .. Len(sent[x])
        BY <2>1, <2>3, <3>6, <4>1, <4>2 DEF ChannelOK
      <4>3. CASE b = Len(sent[x]) + 1
        BY <1>1, <1>2, <2>3, <4>1, <4>3
      <4> QED
        BY <3>1, <4>2, <4>3
    <3> QED
      BY <3>2, <3>3, <3>4, <3>5, <3>6 DEF ChannelOK
  <2> QED
    BY <1>3, <2>2, <2>3, PublishedTo
<1>4. ASSUME NEW c \in Consumers, Register(c)
      PROVE  ChannelOK(x)'
  <2>1. UNCHANGED <<log, sent, live>>
    BY <1>4 DEF Register, chanVars
  <2>2. CASE x = c
    <3>1. sent[x] = <<>> /\ live[x] = 0 /\ phase'[x] = "joining"
      BY <1>4, <2>2 DEF Register, ChannelOK, TypeOK
    <3>2. joined'[x] = Len(log)
      BY <1>4, <2>2 DEF Register, TypeOK
    <3> QED
      BY <1>1, <2>1, <3>1, <3>2 DEF ChannelOK
  <2>3. CASE x # c
    <3>1. phase'[x] = phase[x] /\ joined'[x] = joined[x]
      BY <1>4, <2>3 DEF Register, TypeOK
    <3> QED
      BY <2>1, <3>1 DEF ChannelOK
  <2> QED
    BY <2>2, <2>3
<1>5. ASSUME NEW c \in Consumers, SendBacklog(c)
      PROVE  ChannelOK(x)'
  <2>1. UNCHANGED <<log, joined>>
    BY <1>5 DEF SendBacklog
  <2>2. CASE x # c
    BY <1>5, <2>1, <2>2, BacklogFrame DEF ChannelOK
  <2>3. CASE x = c
    <3> DEFINE n == Len(sent[x])
               k == Copied(x)
               w == Len(log) - Len(events)
    <3>1. /\ n \in Nat /\ k \in Nat /\ w \in Nat
          /\ w + k <= Len(log)
          /\ Len(sent'[x]) = n + k
          /\ \A a \in 1 .. n : sent'[x][a] = sent[x][a]
          /\ \A a \in n + 1 .. n + k : sent'[x][a] = w + (a - n)
          /\ live'[x] = n /\ phase'[x] = "idle"
      BY <1>5, <2>3, BacklogSent
    <3>2. /\ phase[x] = "joining" /\ live[x] = 0
          /\ \A a \in 1 .. n : joined[x] < sent[x][a]
          /\ \A a, b \in 1 .. n : a < b =>
               \/ sent[x][a] < sent[x][b]
               \/ a <= live[x] /\ live[x] < b /\ joined[x] < sent[x][a]
      BY <1>5, <2>3 DEF SendBacklog, ChannelOK
    <3>3. \A a \in 1 .. n : sent[x][a] \in 1 .. Len(log)
      BY <1>2
    <3> HIDE DEF n, k, w
    <3>4. \A a \in 1 .. n + k : a \in 1 .. n \/ a \in n + 1 .. n + k
      BY <3>1
    <3>5. ASSUME NEW a \in 1 .. Len(sent'[x])
          PROVE  sent'[x][a] \in 1 .. Len(log')
      <4>1. CASE a \in 1 .. n
        BY <2>1, <3>1, <3>3, <4>1
      <4>2. CASE a \in n + 1 .. n + k
        <5>1. sent'[x][a] = w + (a - n)
          BY <3>1, <4>2
        <5>2. w + (a - n) \in 1 .. Len(log)
          BY <1>1, <3>1, <4>2
        <5> QED
          BY <2>1, <5>1, <5>2
      <4> QED
        BY <3>1, <3>4, <4>1, <4>2
    <3>6. ASSUME NEW a \in 1 .. n + k, NEW b \in 1 .. n + k, a < b
          PROVE  \/ sent'[x][a] < sent'[x][b]
                 \/ a <= live'[x] /\ live'[x] < b /\ joined'[x] < sent'[x][a]
      <4>1. CASE a \in 1 .. n /\ b \in 1 .. n
        BY <3>1, <3>2, <3>6, <4>1
      <4>2. CASE a \in 1 .. n /\ b \in n + 1 .. n + k
        BY <2>1, <3>1, <3>2, <4>2
      <4>3. CASE a \in n + 1 .. n + k /\ b \in n + 1 .. n + k
        <5>1. sent'[x][a] = w + (a - n) /\ sent'[x][b] = w + (b - n)
          BY <3>1, <4>3
        <5>2. w + (a - n) < w + (b - n)
          BY <3>1, <3>6, <4>3
        <5> QED
          BY <5>1, <5>2
      <4> QED
        BY <3>1, <3>4, <3>6, <4>1, <4>2, <4>3
    <3>7. \A a, b \in 1 .. Len(sent'[x]) :
            a < b => \/ sent'[x][a] < sent'[x][b]
                     \/ a <= live'[x] /\ live'[x] < b /\ joined'[x] < sent'[x][a]
      BY <3>1, <3>6
    <3>8. joined'[x] <= Len(log')
      BY <2>1 DEF ChannelOK
    <3>9. phase'[x] \notin {"absent", "joining"}
      BY <3>1
    <3> QED
      BY <3>5, <3>7, <3>8, <3>9 DEF ChannelOK
  <2> QED
    BY <2>2, <2>3
<1>6. CASE /\ ~(\E r \in Relays : Publish(r))
           /\ ~(\E c \in Consumers : Register(c) \/ SendBacklog(c))
  <2>1. /\ UNCHANGED <<log, sent, joined, live>>
        /\ \/ phase'[x] = phase[x]
           \/ phase[x] \notin {"absent", "joining"} /\ phase'[x] \notin {"absent", "joining"}
    BY <1>6, ChannelFrame DEF chanVars, joinVars
  <2> QED
    BY <2>1 DEF ChannelOK
<1> QED
  BY <1>3, <1>4, <1>5, <1>6

LEMMA ChannelInvariant == Spec => []ChannelInv
<1>1. Init => ChannelInv
  BY WindowInit, ChannelInit DEF ChannelInv
<1>2. TypeOK /\ ChannelInv /\ [Next]_vars => ChannelInv'
  BY WindowStep, ChannelStep DEF ChannelInv
<1> QED
  BY TypeCorrect, <1>1, <1>2, PTL DEF Spec

(* A consumer sees the log in order except for what overtakes the backlog    *)
(* while it joins, for any number of publications during the join.           *)
THEOREM OrderCorrect == Spec => []OrderedFromJoin
<1>1. ChannelInv => OrderedFromJoin
  BY DEF ChannelInv, ChannelOK, OrderedFromJoin
<1> QED
  BY ChannelInvariant, <1>1, PTL

(* The steps that publish, register and copy keep account of every message.  *)
LEMMA AccountStep ==
  TypeOK /\ Window /\ NoSilentLoss /\ [Next]_vars => NoSilentLoss'
<1> SUFFICES ASSUME TypeOK, Window, NoSilentLoss, [Next]_vars,
                    NEW x \in Consumers, Registered(x)',
                    NEW i \in 1 .. Len(log')
             PROVE  Accounted(x, i)'
  BY DEF NoSilentLoss
<1>1. /\ Len(log) \in Nat /\ Len(sent[x]) \in Nat
      /\ joined[x] \in Nat /\ missed[x] \in Nat
  BY LenProperties DEF TypeOK
<1>2. ASSUME NEW r \in Relays, Publish(r)
      PROVE  Accounted(x, i)'
  <2>1. /\ Len(log') = Len(log) + 1
        /\ UNCHANGED <<phase, joined, missed>>
        /\ Registered(x)
    BY <1>2, Published DEF Publish, readVars, joinVars, Registered
  <2>2. \/ sent'[x] = sent[x] /\ skipped'[x] = skipped[x] \cup {Len(log) + 1}
        \/ /\ skipped'[x] = skipped[x]
           /\ Len(sent'[x]) = Len(sent[x]) + 1
           /\ \A a \in 1 .. Len(sent[x]) : sent'[x][a] = sent[x][a]
           /\ sent'[x][Len(sent[x]) + 1] = Len(log) + 1
    BY <1>2, <2>1, PublishedTo
  <2>3. CASE i = Len(log) + 1
    <3>1. Len(sent[x]) + 1 \in 1 .. Len(sent[x]) + 1
      BY <1>1
    <3> QED
      BY <2>2, <2>3, <3>1 DEF Accounted
  <2>4. CASE i \in 1 .. Len(log)
    <3>1. Accounted(x, i)
      BY <2>1, <2>4 DEF NoSilentLoss
    <3>2. \A a \in 1 .. Len(sent[x]) : a \in 1 .. Len(sent[x]) + 1
      BY <1>1
    <3> QED
      BY <2>1, <2>2, <3>1, <3>2 DEF Accounted
  <2> QED
    BY <1>1, <2>1, <2>3, <2>4
<1>3. ASSUME NEW c \in Consumers, Register(c)
      PROVE  Accounted(x, i)'
  <2>1. UNCHANGED <<log, sent, skipped, missed>>
    BY <1>3 DEF Register, chanVars
  <2>2. CASE x = c
    <3>1. joined'[x] = Len(log) /\ phase'[x] = "joining"
      BY <1>3, <2>2 DEF Register, TypeOK
    <3> QED
      BY <1>1, <2>1, <3>1 DEF Accounted
  <2>3. CASE x # c
    <3>1. phase'[x] = phase[x] /\ joined'[x] = joined[x]
      BY <1>3, <2>3 DEF Register, TypeOK
    <3> QED
      BY <2>1, <3>1 DEF Accounted, NoSilentLoss, Registered
  <2> QED
    BY <2>2, <2>3
<1>4. ASSUME NEW c \in Consumers, SendBacklog(c)
      PROVE  Accounted(x, i)'
  <2>1. UNCHANGED <<log, joined>>
    BY <1>4 DEF SendBacklog
  <2>2. CASE x # c
    BY <1>4, <2>1, <2>2, BacklogFrame DEF Accounted, NoSilentLoss, Registered
  <2>3. CASE x = c
    <3> DEFINE n == Len(sent[x])
               k == Copied(x)
               w == Len(log) - Len(events)
    <3>1. /\ n \in Nat /\ k \in Nat /\ w \in Nat
          /\ Len(sent'[x]) = n + k
          /\ \A a \in 1 .. n : sent'[x][a] = sent[x][a]
          /\ \A a \in n + 1 .. n + k : sent'[x][a] = w + (a - n)
          /\ \A j \in w + k + 1 .. Len(log) : j \in skipped'[x]
          /\ skipped[x] \subseteq skipped'[x]
          /\ missed'[x] = w
      BY <1>4, <2>3, BacklogSent
    <3>2. Accounted(x, i) /\ i \in 1 .. Len(log)
      BY <1>4, <2>1, <2>3 DEF NoSilentLoss, Registered, SendBacklog
    <3>3. CASE \E a \in 1 .. n : sent[x][a] = i
      <4>1. PICK a \in 1 .. n : sent[x][a] = i
        BY <3>3
      <4> HIDE DEF k
      <4>2. a \in 1 .. n + k /\ sent'[x][a] = i
        BY <3>1, <4>1
      <4> QED
        BY <3>1, <4>2 DEF Accounted
    <3>4. CASE i \in skipped[x]
      BY <3>1, <3>4 DEF Accounted
    <3>5. CASE i <= joined[x]
      <4> HIDE DEF n, k, w
      <4>1. CASE i <= w
        BY <2>1, <3>1, <3>5, <4>1 DEF Accounted
      <4>2. CASE i \in w + 1 .. w + k
        <5> DEFINE a == n + (i - w)
        <5>1. a \in n + 1 .. n + k /\ a \in 1 .. n + k /\ w + (a - n) = i
          BY <3>1, <4>2
        <5>2. sent'[x][a] = i
          BY <3>1, <5>1
        <5> HIDE DEF a
        <5> QED
          BY <3>1, <5>1, <5>2 DEF Accounted
      <4>3. CASE i \in w + k + 1 .. Len(log)
        BY <3>1, <4>3 DEF Accounted
      <4> QED
        BY <1>1, <3>1, <3>2, <4>1, <4>2, <4>3
    <3> QED
      BY <3>2, <3>3, <3>4, <3>5 DEF Accounted
  <2> QED
    BY <2>2, <2>3
<1>5. CASE /\ ~(\E r \in Relays : Publish(r))
           /\ ~(\E c \in Consumers : Register(c) \/ SendBacklog(c))
  <2>1. /\ UNCHANGED <<log, sent, skipped, joined, missed>>
        /\ \/ phase'[x] = phase[x]
           \/ phase[x] \notin {"absent", "joining"} /\ phase'[x] \notin {"absent", "joining"}
    BY <1>5, ChannelFrame DEF chanVars, joinVars
  <2>2. Registered(x) /\ Accounted(x, i)
    BY <2>1 DEF NoSilentLoss, Registered
  <2> QED
    BY <2>1, <2>2 DEF Accounted
<1> QED
  BY <1>2, <1>3, <1>4, <1>5

(* A consumer misses a message only if its channel was full, or if it joined *)
(* after the message and the queue had dropped it: registering before        *)
(* copying the backlog leaves no gap.                                        *)
THEOREM NoSilentLossCorrect == Spec => []NoSilentLoss
<1>1. Init => NoSilentLoss
  BY DEF Init, NoSilentLoss, Registered
<1>2. ChannelInv => Window
  BY DEF ChannelInv
<1> QED
  BY TypeCorrect, ChannelInvariant, AccountStep, <1>1, <1>2, PTL DEF Spec

-----------------------------------------------------------------------------
(* The queue implements Mailbox                                              *)

(* What is left of a sequence after its first d elements, ...                *)
Rest(s, d) == SubSeq(s, d + 1, Len(s))

LEMMA RestProperties ==
  ASSUME NEW s \in Seq(Nat), NEW d \in Nat, d <= Len(s)
  PROVE  /\ Rest(s, d) \in Seq(Nat)
         /\ Len(Rest(s, d)) = Len(s) - d
         /\ \A i \in 1 .. Len(s) - d : Rest(s, d)[i] = s[d + i]
<1>1. Len(s) \in Nat /\ \A i \in 1 .. Len(s) : s[i] \in Nat
  BY LenProperties, ElementOfSeq
<1>2. d + 1 \in Int /\ Len(s) \in Int /\ \A i \in d + 1 .. Len(s) : s[i] \in Nat
  BY <1>1
<1>3. /\ SubSeq(s, d + 1, Len(s)) \in Seq(Nat)
      /\ Len(SubSeq(s, d + 1, Len(s))) = IF d + 1 <= Len(s) THEN Len(s) - (d + 1) + 1 ELSE 0
      /\ \A i \in 1 .. Len(s) - (d + 1) + 1 :
           SubSeq(s, d + 1, Len(s))[i] = s[d + 1 + i - 1]
  BY <1>2, SubSeqProperties
<1> QED
  BY <1>1, <1>3 DEF Rest

(* ... grown at the end, ...                                                 *)
LEMMA RestConcat ==
  ASSUME NEW s \in Seq(Nat), NEW d \in Nat, d <= Len(s), NEW t \in Seq(Nat)
  PROVE  Rest(s \o t, d) = Rest(s, d) \o t
<1> DEFINE st == s \o t
           u == Rest(s, d)
           v == Rest(st, d)
           w == u \o t
<1>1. Len(s) \in Nat /\ Len(t) \in Nat
  BY LenProperties
<1>2. /\ st \in Seq(Nat) /\ Len(st) = Len(s) + Len(t)
      /\ \A i \in 1 .. Len(s) + Len(t) :
           st[i] = IF i <= Len(s) THEN s[i] ELSE t[i - Len(s)]
  BY ConcatProperties
<1>3. u \in Seq(Nat) /\ Len(u) = Len(s) - d /\ \A i \in 1 .. Len(s) - d : u[i] = s[d + i]
  BY RestProperties
<1>4. w \in Seq(Nat) /\ Len(w) = Len(u) + Len(t)
      /\ \A i \in 1 .. Len(u) + Len(t) : w[i] = IF i <= Len(u) THEN u[i] ELSE t[i - Len(u)]
  <2> HIDE DEF u
  <2> QED
    BY <1>3, ConcatProperties
<1>5. v \in Seq(Nat) /\ Len(v) = Len(st) - d /\ \A i \in 1 .. Len(st) - d : v[i] = st[d + i]
  <2> HIDE DEF st
  <2>1. d <= Len(st)
    BY <1>1, <1>2
  <2> QED
    BY <1>2, <2>1, RestProperties
<1> HIDE DEF st, u, v, w
<1>6. Len(v) = Len(w) /\ Len(v) = Len(s) + Len(t) - d
  BY <1>1, <1>2, <1>3, <1>4, <1>5
<1>7. ASSUME NEW i \in 1 .. Len(v) PROVE v[i] = w[i]
  <2>1. i \in 1 .. Len(st) - d /\ d + i \in 1 .. Len(s) + Len(t) /\ i \in 1 .. Len(u) + Len(t)
    BY <1>1, <1>2, <1>3, <1>6
  <2>2. v[i] = st[d + i]
    BY <1>5, <2>1
  <2>3. CASE i <= Len(s) - d
    <3>1. d + i <= Len(s) /\ i <= Len(u) /\ i \in 1 .. Len(s) - d
      BY <1>1, <1>3, <2>1, <2>3
    <3> QED
      BY <1>2, <1>3, <1>4, <2>1, <2>2, <3>1
  <2>4. CASE ~(i <= Len(s) - d)
    <3>1. ~(d + i <= Len(s)) /\ ~(i <= Len(u)) /\ (d + i) - Len(s) = i - Len(u)
      BY <1>1, <1>3, <2>1, <2>4
    <3>2. st[d + i] = t[(d + i) - Len(s)]
      BY <1>2, <2>1, <3>1
    <3>3. w[i] = t[i - Len(u)]
      BY <1>4, <2>1, <3>1
    <3> QED
      BY <2>2, <3>1, <3>2, <3>3
  <2> QED
    BY <2>3, <2>4
<1>8. v = w
  BY <1>4, <1>5, <1>6, <1>7, SeqEqual
<1> QED
  BY <1>8 DEF st, u, v, w

LEMMA RestAppend ==
  ASSUME NEW s \in Seq(Nat), NEW d \in Nat, d <= Len(s), NEW x \in Nat
  PROVE  Rest(Append(s, x), d) = Append(Rest(s, d), x)
<1>1. <<x>> \in Seq(Nat) /\ Rest(s, d) \in Seq(Nat)
  BY RestProperties
<1>2. Append(s, x) = s \o <<x>> /\ Append(Rest(s, d), x) = Rest(s, d) \o <<x>>
  BY <1>1, AppendIsConcat
<1> QED
  BY <1>1, <1>2, RestConcat

(* ... and shortened at the front.                                           *)
LEMMA RestTail ==
  ASSUME NEW s \in Seq(Nat), NEW d \in Nat, d < Len(s)
  PROVE  Rest(s, d) # <<>> /\ Rest(s, d + 1) = Tail(Rest(s, d))
<1>1. Len(s) \in Nat
  BY LenProperties
<1>2. d + 1 \in 1 .. Len(s) /\ Len(s) \in d + 1 .. Len(s)
  BY <1>1
<1>3. Tail(SubSeq(s, d + 1, Len(s))) = SubSeq(s, d + 1 + 1, Len(s))
  BY <1>2, HeadTailOfSubSeq
<1>4. Rest(s, d) \in Seq(Nat) /\ Len(Rest(s, d)) = Len(s) - d
  BY RestProperties
<1>5. Rest(s, d) # <<>>
  BY <1>1, <1>4, EmptySeq
<1> QED
  BY <1>3, <1>5 DEF Rest

LEMMA UnhandledTyped ==
  ASSUME TypeOK, NEW c \in Consumers
  PROVE  /\ sent[c] \in Seq(Nat) /\ Len(sent[c]) \in Nat
         /\ done[c] \in Nat /\ done[c] <= Len(sent[c])
         /\ taken[c] \in Nat /\ done[c] <= taken[c] /\ taken[c] <= Len(sent[c])
         /\ Unhandled(c) = Rest(sent[c], done[c])
         /\ Unhandled(c) \in Seq(Nat)
         /\ Len(Unhandled(c)) = Len(sent[c]) - done[c]
<1>1. /\ sent[c] \in Seq(Nat) /\ Len(sent[c]) \in Nat
      /\ done[c] \in Nat /\ done[c] <= Len(sent[c])
      /\ taken[c] \in Nat /\ done[c] <= taken[c] /\ taken[c] <= Len(sent[c])
  BY LenProperties DEF TypeOK
<1>2. Unhandled(c) = Rest(sent[c], done[c])
  BY DEF Unhandled, Rest
<1> QED
  BY <1>1, <1>2, RestProperties

(* A publication reaches every member whose channel is not full, and a full  *)
(* channel means a crowded mailbox.                                          *)
LEMMA PublishIsPost ==
  ASSUME TypeOK, NEW r \in Relays, Publish(r)
  PROVE  Mail!Post
<1> DEFINE full == {c \in Consumers : Registered(c) /\ Full(c)}
           n == Len(log) + 1
<1>1. /\ log' = Append(log, [ev |-> cur[r], by |-> r, era |-> curEra[r]])
      /\ phase' = phase /\ done' = done
      /\ sent' = [c \in Consumers |->
                    IF Registered(c) /\ ~Full(c) THEN Append(sent[c], n) ELSE sent[c]]
  BY DEF Publish, Announced, readVars
<1>2. Len(log) \in Nat /\ Len(log') = n
  BY Published
<1>3. full \in SUBSET Mail!Crowded
  <2> SUFFICES ASSUME NEW c \in Consumers, Full(c) PROVE Len(Unhandled(c)) >= BufferSize
    BY DEF Mail!Crowded
  <2>1. Len(sent[c]) - taken[c] >= BufferSize
    BY DEF Full
  <2>2. /\ Len(sent[c]) \in Nat /\ taken[c] \in Nat /\ done[c] \in Nat
        /\ done[c] <= taken[c]
        /\ Len(Unhandled(c)) = Len(sent[c]) - done[c]
    BY UnhandledTyped
  <2>3. BufferSize \in Nat
    BY QueueAssumption
  <2> QED
    BY <2>1, <2>2, <2>3
<1>4. [c \in Consumers |-> Membership(c)]' = [c \in Consumers |-> Membership(c)]
  BY <1>1 DEF Membership
<1>5. ASSUME NEW c \in Consumers
      PROVE  Unhandled(c)' = IF Membership(c) # "away" /\ c \notin full
                               THEN Append(Unhandled(c), n) ELSE Unhandled(c)
  <2>1. Membership(c) # "away" <=> Registered(c)
    BY DEF Membership, Registered
  <2>2. Unhandled(c)' = Rest(sent'[c], done[c])
    BY <1>1 DEF Unhandled, Rest
  <2>3. CASE Registered(c) /\ ~Full(c)
    <3>1. sent'[c] = Append(sent[c], n) /\ n \in Nat
      BY <1>1, <1>2, <2>3
    <3>2. Rest(Append(sent[c], n), done[c]) = Append(Rest(sent[c], done[c]), n)
      BY <3>1, UnhandledTyped, RestAppend
    <3> QED
      BY <2>1, <2>2, <2>3, <3>1, <3>2, UnhandledTyped
  <2>4. CASE ~(Registered(c) /\ ~Full(c))
    <3>1. sent'[c] = sent[c]
      BY <1>1, <2>4
    <3>2. ~(Membership(c) # "away" /\ c \notin full)
      BY <2>1, <2>4
    <3> QED
      BY <2>2, <3>1, <3>2, UnhandledTyped
  <2> QED
    BY <2>3, <2>4
<1> HIDE DEF full
<1>6. [c \in Consumers |-> Unhandled(c)]'
        = [c \in Consumers |-> IF Membership(c) # "away" /\ c \notin full
                                 THEN Append(Unhandled(c), n) ELSE Unhandled(c)]
  BY <1>5
<1> QED
  BY <1>2, <1>3, <1>4, <1>6 DEF Mail!Post

(* The copy of the backlog is a run of the log's end, cut only by a full     *)
(* channel.                                                                  *)
LEMMA BacklogIsCatchUp ==
  ASSUME TypeOK, Window, NEW c \in Consumers, SendBacklog(c)
  PROVE  Mail!CatchUp(c)
<1> DEFINE k == Copied(c)
           lo == Len(log) - Len(events) + 1
           hi == lo + k - 1
           b == SubSeq(events, 1, k)
<1>1. /\ Len(log) \in Nat /\ Len(events) \in Nat
      /\ Len(events) <= Len(log) /\ Len(events) <= MaxSize
      /\ MaxSize \in Nat /\ BufferSize \in Nat
  BY LenProperties, QueueAssumption DEF TypeOK
<1>2. /\ k \in Nat /\ k <= Len(events)
      /\ b \in Seq(Nat) /\ Len(b) = k
      /\ \A i \in 1 .. k : b[i] = events[i]
  BY BacklogPrefix
<1>3. /\ sent' = [sent EXCEPT ![c] = @ \o b]
      /\ phase[c] = "joining" /\ phase' = [phase EXCEPT ![c] = "idle"]
      /\ log' = log /\ done' = done /\ taken' = taken
  BY DEF SendBacklog
<1>4. k = Len(events) \/ k = Room(c)
  BY DEF Copied
<1>5. b = Mail!Run(lo, hi)
  <2>1. hi - lo + 1 = k
    BY <1>1, <1>2
  <2>2. b = [i \in 1 .. k |-> b[i]]
    <3> HIDE DEF b, k
    <3> QED
      BY <1>2, LenProperties
  <2>3. \A i \in 1 .. k : b[i] = lo + i - 1
    <3> SUFFICES ASSUME NEW i \in 1 .. k PROVE b[i] = lo + i - 1
      OBVIOUS
    <3>1. i \in 1 .. Len(events)
      BY <1>1, <1>2
    <3>2. events[i] = Len(log) - Len(events) + i
      BY <3>1 DEF Window
    <3>3. Len(log) - Len(events) + i = lo + i - 1
      BY <1>1, <3>1
    <3> QED
      BY <1>2, <3>2, <3>3
  <2>4. Mail!Run(lo, hi) = [i \in 1 .. k |-> lo + i - 1]
    BY <2>1 DEF Mail!Run
  <2> HIDE DEF b, k, lo, hi
  <2> QED
    BY <2>2, <2>3, <2>4
<1>6. Unhandled(c)' = Unhandled(c) \o b
  <2>1. sent'[c] = sent[c] \o b
    BY <1>3 DEF TypeOK
  <2> HIDE DEF b
  <2>2. Rest(sent[c] \o b, done[c]) = Rest(sent[c], done[c]) \o b
    BY <1>2, UnhandledTyped, RestConcat
  <2>3. Unhandled(c)' = Rest(sent'[c], done[c])
    BY <1>3 DEF Unhandled, Rest
  <2> QED
    BY <2>1, <2>2, <2>3, UnhandledTyped
<1>7. \A x \in Consumers : x # c => Unhandled(x)' = Unhandled(x)
  BY <1>3 DEF Unhandled, TypeOK
<1>8. [x \in Consumers |-> Unhandled(x)]'
        = [[x \in Consumers |-> Unhandled(x)] EXCEPT ![c] = @ \o b]
  <2> HIDE DEF b
  <2> QED
    BY <1>6, <1>7
<1>9. /\ [x \in Consumers |-> Membership(x)][c] = "joining"
      /\ [x \in Consumers |-> Membership(x)]'
           = [[x \in Consumers |-> Membership(x)] EXCEPT ![c] = "in"]
  BY <1>3 DEF Membership, TypeOK
<1>10. /\ lo \in 1 .. Len(log) + 1 /\ hi \in lo - 1 .. Len(log)
       /\ lo > Len(log) - MaxSize
       /\ hi - lo + 1 = k
  <2>1. k \in Nat /\ k <= Len(events)
    BY <1>2
  <2> HIDE DEF k
  <2> QED
    BY <1>1, <2>1
<1>11. hi < Len(log) => Len(Unhandled(c)) + k >= BufferSize
  <2> SUFFICES ASSUME hi < Len(log) PROVE Len(Unhandled(c)) + k >= BufferSize
    OBVIOUS
  <2>1. k = BufferSize - (Len(sent[c]) - taken[c])
    <3>1. k # Len(events)
      BY <1>1
    <3> HIDE DEF k
    <3> QED
      BY <1>4, <3>1 DEF Room
  <2>2. /\ Len(sent[c]) \in Nat /\ taken[c] \in Nat /\ done[c] \in Nat
        /\ done[c] <= taken[c] /\ Len(Unhandled(c)) = Len(sent[c]) - done[c]
    BY UnhandledTyped
  <2>3. \A n, t, d, m \in Nat : d <= t => (n - d) + (m - (n - t)) >= m
    OBVIOUS
  <2> QED
    BY <1>1, <2>1, <2>2, <2>3
<1> HIDE DEF b, k, lo, hi
<1> QED
  BY <1>3, <1>5, <1>8, <1>9, <1>10, <1>11 DEF Mail!CatchUp

(* Processing a message handles it, and the loop's other steps show nothing. *)
LEMMA LoopIsMail ==
  ASSUME TypeOK, Cursors, NEW c \in Consumers, LoopStep(c)
  PROVE  Mail!Handle(c) \/ UNCHANGED Mail!vars
<1>1. log' = log /\ sent' = sent
  BY DEF LoopStep, BeginRead, Receive, Timeout, ReadCancelled, ProcessNext, Stop, chanVars
<1>2. [x \in Consumers |-> Membership(x)]' = [x \in Consumers |-> Membership(x)]
  BY DEF LoopStep, BeginRead, Receive, Timeout, ReadCancelled, ProcessNext, Stop,
         Membership, TypeOK
<1>3. CASE ProcessNext(c)
  <2>1. phase[c] = "processing" /\ done' = [done EXCEPT ![c] = @ + 1]
    BY <1>3 DEF ProcessNext
  <2>2. done[c] < taken[c] /\ done[c] < Len(sent[c])
    <3>1. done[c] < taken[c]
      BY <2>1 DEF Cursors
    <3> QED
      BY <3>1, UnhandledTyped
  <2>3. /\ Rest(sent[c], done[c]) # <<>>
        /\ Rest(sent[c], done[c] + 1) = Tail(Rest(sent[c], done[c]))
    BY <2>2, UnhandledTyped, RestTail
  <2>4. done'[c] = done[c] + 1 /\ \A x \in Consumers : x # c => done'[x] = done[x]
    BY <2>1 DEF TypeOK
  <2>5. Unhandled(c)' = Tail(Unhandled(c)) /\ Unhandled(c) # <<>>
    BY <1>1, <2>3, <2>4 DEF Unhandled, Rest
  <2>6. \A x \in Consumers : x # c => Unhandled(x)' = Unhandled(x)
    BY <1>1, <2>4 DEF Unhandled
  <2>7. [x \in Consumers |-> Unhandled(x)]'
          = [[x \in Consumers |-> Unhandled(x)] EXCEPT ![c] = Tail(@)]
    BY <2>5, <2>6
  <2>8. Membership(c) = "in"
    BY <2>1 DEF Membership
  <2> QED
    BY <1>1, <1>2, <2>5, <2>7, <2>8 DEF Mail!Handle
<1>4. CASE ~ProcessNext(c)
  <2>1. done' = done
    BY <1>4 DEF LoopStep, BeginRead, Receive, Timeout, ReadCancelled, Stop
  <2>2. [x \in Consumers |-> Unhandled(x)]' = [x \in Consumers |-> Unhandled(x)]
    BY <1>1, <2>1 DEF Unhandled
  <2> QED
    BY <1>1, <1>2, <2>2 DEF Mail!vars
<1> QED
  BY <1>3, <1>4

LEMMA MailboxStep ==
  TypeOK /\ Cursors /\ Window /\ [Next]_vars => [Mail!Next]_Mail!vars
<1> SUFFICES ASSUME TypeOK, Cursors, Window, [Next]_vars PROVE [Mail!Next]_Mail!vars
  OBVIOUS
<1>1. ASSUME NEW r \in Relays, Publish(r) PROVE Mail!Next
  BY <1>1, PublishIsPost DEF Mail!Next
<1>2. ASSUME NEW c \in Consumers, Register(c) PROVE Mail!Next
  <2>1. /\ log' = log /\ sent' = sent /\ done' = done
        /\ phase[c] = "absent" /\ phase' = [phase EXCEPT ![c] = "joining"]
    BY <1>2 DEF Register, chanVars
  <2>2. [x \in Consumers |-> Membership(x)][c] = "away"
        /\ [x \in Consumers |-> Membership(x)]'
             = [[x \in Consumers |-> Membership(x)] EXCEPT ![c] = "joining"]
    BY <2>1 DEF Membership, TypeOK
  <2>3. [x \in Consumers |-> Unhandled(x)]' = [x \in Consumers |-> Unhandled(x)]
    BY <2>1 DEF Unhandled
  <2>4. Mail!Enter(c)
    BY <2>1, <2>2, <2>3 DEF Mail!Enter
  <2> QED
    BY <2>4 DEF Mail!Next
<1>3. ASSUME NEW c \in Consumers, SendBacklog(c) PROVE Mail!Next
  BY <1>3, BacklogIsCatchUp DEF Mail!Next
<1>4. ASSUME NEW c \in Consumers, LoopStep(c) PROVE [Mail!Next]_Mail!vars
  BY <1>4, LoopIsMail DEF Mail!Next
<1>5. ASSUME log' = log, sent' = sent, done' = done, phase' = phase
      PROVE  UNCHANGED Mail!vars
  BY <1>5 DEF Mail!vars, Membership, Unhandled
<1>6. CASE UNCHANGED vars
  BY <1>5, <1>6 DEF vars, readVars, chanVars
<1>7. ASSUME NEW r \in Relays, (\E e \in Events : CheckDuplicate(r, e)) \/ MarkProcessed(r)
      PROVE  UNCHANGED Mail!vars
  BY <1>5, <1>7 DEF CheckDuplicate, MarkProcessed, readVars, chanVars
<1>8. CASE (\E e \in Events : Age(e)) \/ CleanDedupe \/ TrimQueue \/ Cancel
  BY <1>5, <1>8 DEF Age, CleanDedupe, TrimQueue, Cancel, readVars, chanVars
<1> QED
  BY <1>1, <1>2, <1>3, <1>4, <1>6, <1>7, <1>8 DEF Next, AddEvent, ReaderStep, LoopStep

(* For any number of relays and consumers and any sizes, the queue with its  *)
(* locks, eviction, trimming, batches and reading loops implements Mailbox.  *)
THEOREM QueueImplementsMailbox == Spec => KeepsMailbox
<1>1. Init => Mail!Init
  <2> SUFFICES ASSUME Init PROVE Mail!Init
    OBVIOUS
  <2>1. Len(log) = 0
    BY DEF Init
  <2>2. [c \in Consumers |-> Membership(c)] = [c \in Consumers |-> "away"]
    BY DEF Init, Membership
  <2>3. \A c \in Consumers : Unhandled(c) = <<>>
    <3> SUFFICES ASSUME NEW c \in Consumers PROVE Unhandled(c) = <<>>
      OBVIOUS
    <3>1. sent[c] = <<>> /\ done[c] = 0 /\ Len(sent[c]) = 0
      BY DEF Init
    <3>2. SubSeq(sent[c], 0 + 1, 0) = <<>>
      BY SubSeqEmpty
    <3> QED
      BY <3>1, <3>2 DEF Unhandled
  <2> QED
    BY <2>1, <2>2, <2>3 DEF Mail!Init
<1>2. TypeOK /\ Cursors /\ Window /\ [Next]_vars => [Mail!Next]_Mail!vars
  BY MailboxStep
<1>3. ReaderInv => TypeOK /\ Cursors
  BY DEF ReaderInv
<1>4. ChannelInv => Window
  BY DEF ChannelInv
<1> QED
  BY ReaderInvariant, ChannelInvariant, <1>1, <1>2, <1>3, <1>4, PTL
  DEF Spec, KeepsMailbox, Mail!Spec

=============================================================================
