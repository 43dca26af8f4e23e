----------------------------- MODULE PushServer -----------------------------
(***************************************************************************)
(* The push server's process (cmd/push-server/main.go), its endpoints      *)
(* /push and /push/fcm/... (internal/push/server.go) and the APNs and FCM  *)
(* clients behind them, composed with the callers of /push in the          *)
(* subscription server, whose side of the call is PushLimiter: what that   *)
(* module leaves to its environment is done here by a request of a caller. *)
(*                                                                         *)
(* A post is one HTTP request from the connection of its client to the end *)
(* of its handler.  Its stages:                                            *)
(*   wire    sent, no handler runs                                         *)
(*   called  the handler has passed its checks and calls the service       *)
(*   took    the service has done what it was asked for                    *)
(*   done    the handler has answered 200                                  *)
(*   failed  the handler has answered with an error, or nobody listens     *)
(*   cut     the process is gone, the call of the service is under way     *)
(* apns2's Push takes no context, so a call outlives its client.           *)
(***************************************************************************)
EXTENDS PushLimiter, FiniteSets

CONSTANTS
  Apps,          \* other HTTP clients, of the /push/fcm endpoints
  Tokens,        \* FCM tokens
  Empty,         \* the empty token
  Topics,        \* FCM topics
  NoTopic,       \* the empty topic
  DefaultTopic,  \* fcmClient.defaultTopic
  Asks,          \* what the other clients may post
  MaxPosts       \* bound of the model: posts of all clients

Kinds == {"push", "topic", "subscribe", "unsubscribe"}

(* complete: the method is POST, the body parses, a topic push has both      *)
(* title and body.                                                           *)
Ask == [kind : Kinds, tokens : SUBSET (Devices \cup Tokens \cup {Empty}),
        topic : Topics \cup {NoTopic}, complete : BOOLEAN]

ASSUME ServerAssumption ==
  /\ Apps \cap Callers = {}
  /\ Empty \notin Devices \cup Tokens
  /\ NoTopic \notin Topics
  /\ DefaultTopic \in Topics
  /\ Asks \subseteq Ask
  /\ \A q \in Asks : q.kind # "push" /\ q.tokens \subseteq Tokens \cup {Empty}
  /\ MaxPosts \in Nat

VARIABLES
  posts,      \* every request: [by, ask, stage, client, taken, left]
  members,    \* FCM: the tokens subscribed to each topic
  proc,       \* where the process stands
  listening,  \* ListenAndServe has the port
  apns, fcm   \* the clients NewServer could make

serverVars == <<posts, members, proc, listening, apns, fcm>>
allVars == <<vars, serverVars>>

(* client: what the sender of the request does; taken: history, 0 or the     *)
(* turn at which the service did it; left: history, the tokens FCM refused   *)
(* of those it was given.                                                    *)
PostType ==
  [by : Callers \cup Apps, ask : Ask,
   stage : {"wire", "called", "took", "done", "failed", "cut"},
   client : {"waits", "heard", "gone"}, taken : Nat, left : SUBSET Tokens]

Ids == 1 .. Len(posts)

ServerTypeOK ==
  /\ TypeOK
  /\ posts \in Seq(PostType)
  /\ members \in [Topics -> SUBSET Tokens]
  /\ proc \in {"running", "draining", "late", "gone"}
  /\ listening => proc = "running"
  /\ \A i \in Ids : posts[i].stage \in {"called", "took"} => proc # "gone"
  /\ \A i \in Ids : posts[i].ask.kind = "push" <=> posts[i].by \in Callers
  /\ \A i, j \in Ids : (posts[i].by = posts[j].by /\ posts[i].client = "waits"
                          /\ posts[j].client = "waits") => i = j
  /\ listening \in BOOLEAN /\ apns \in BOOLEAN /\ fcm \in BOOLEAN

(* Incomplete settings, a certificate or credentials that cannot be used     *)
(* leave no client.                                                          *)
NewAPNSClient == apns \in BOOLEAN

NewFCMClient == fcm \in BOOLEAN

(* NewServer goes on without a client it cannot make, and Start only logs    *)
(* that ListenAndServe failed: a port in use leaves a process that waits for *)
(* its signal and serves nobody.                                             *)
ServerInit ==
  /\ Init
  /\ posts = <<>>
  /\ members = [t \in Topics |-> {}]
  /\ proc = "running"
  /\ listening \in BOOLEAN
  /\ NewAPNSClient /\ NewFCMClient

-----------------------------------------------------------------------------
(* Plausible slips in the code, each the mutated form of a definition below. *)

TopicAsAsked(q) == q.topic

SignalOnly ==
  /\ proc = "running"
  /\ proc' = "draining"
  /\ UNCHANGED <<vars, posts, members, listening, apns, fcm>>

ServiceFailsUnnoticed(i) ==
  /\ i \in Ids /\ posts[i].stage = "called"
  /\ posts' = [posts EXCEPT ![i].stage = "done"]
  /\ UNCHANGED <<vars, members, proc, listening, apns, fcm>>

GiveUpUntaken(i) ==
  /\ i \in Ids /\ posts[i].client = "waits" /\ posts[i].stage \in {"wire", "called"}
  /\ posts' = [posts EXCEPT ![i].client = "gone"]
  /\ IF posts[i].ask.kind = "push" THEN TimeOut(posts[i].by) ELSE UNCHANGED vars
  /\ UNCHANGED <<members, proc, listening, apns, fcm>>

DeadlineNever ==
  /\ proc = "draining" /\ \A i \in Ids : posts[i].stage \notin {"called", "took"}
  /\ proc' = "late"
  /\ UNCHANGED <<vars, posts, members, listening, apns, fcm>>

-----------------------------------------------------------------------------
(* The clients                                                               *)

(* Nobody listens: the connection is refused.                                *)
Send(by, q) ==
  /\ Len(posts) < MaxPosts
  /\ posts' = Append(posts, [by |-> by, ask |-> q,
                             stage |-> IF listening THEN "wire" ELSE "failed",
                             client |-> "waits", taken |-> 0, left |-> {}])
  /\ UNCHANGED <<members, proc, listening, apns, fcm>>

PushAsk(d) == [kind |-> "push", tokens |-> {d}, topic |-> NoTopic, complete |-> TRUE]

(* A call of pushNotification that is not held back posts to /push.          *)
Push(p, d) == CheckLimit(p, d) /\ Send(p, PushAsk(d))

Waits(i) == i \in Ids /\ posts[i].client = "waits"

PostOf(a) == {i \in Ids : Waits(i) /\ posts[i].by = a}

(* Another client posts to one of the /push/fcm endpoints.                   *)
Post(a, q) ==
  /\ PostOf(a) = {}
  /\ Send(a, q)
  /\ UNCHANGED vars

IsPush(i) == posts[i].ask.kind = "push"

Device(i) == CHOOSE d \in Devices : d \in posts[i].ask.tokens

(* The answer arrives, or the connection breaks.                             *)
Hear(i) ==
  LET p == posts[i].by
      unsure == posts[i].stage = "cut" /\ posts[i].taken = 0
  IN
  /\ Waits(i)
  /\ posts[i].stage \in {"done", "failed", "cut"}
  /\ posts' = [posts EXCEPT ![i].client = IF unsure THEN "gone" ELSE "heard"]
  /\ CASE ~IsPush(i)               -> UNCHANGED vars
       [] IsPush(i) /\ posts[i].stage = "done" -> Record(p)
       [] IsPush(i) /\ unsure      -> TimeOut(p)
       [] OTHER                    -> IF posts[i].taken > 0 THEN LoseAnswer(p) ELSE Refused(p)
  /\ UNCHANGED <<members, proc, listening, apns, fcm>>

(* pushClient's ten seconds are over, or the client's context is cancelled.  *)
GiveUp(i) ==
  /\ Waits(i)
  /\ posts' = [posts EXCEPT ![i].client = "gone"]
  /\ IF ~IsPush(i) THEN UNCHANGED vars
     ELSE IF posts[i].taken > 0 THEN LoseAnswer(posts[i].by) ELSE TimeOut(posts[i].by)
  /\ UNCHANGED <<members, proc, listening, apns, fcm>>

-----------------------------------------------------------------------------
(* The handlers                                                              *)

To(i, stage) ==
  /\ posts' = [posts EXCEPT ![i].stage = stage]
  /\ UNCHANGED <<vars, members, proc, listening, apns, fcm>>

Named(q) == q.tokens \ {Empty}

Client(q) == IF q.kind = "push" THEN apns ELSE fcm

(* Every check of a handler and of the client's method it calls answers with *)
(* an error: a wrong method or body, no client, no title, no token.  A       *)
(* connection that was not taken up when the listener closed may be dropped, *)
(* or its request is still read: Shutdown lets a new connection finish.      *)
Usable(q) == q.complete /\ (q.kind # "topic" => Named(q) # {}) /\ Client(q)

Refuse(i) ==
  /\ i \in Ids /\ posts[i].stage = "wire"
  /\ ~listening \/ ~Usable(posts[i].ask)
  /\ To(i, "failed")

Call(i) ==
  /\ i \in Ids /\ posts[i].stage = "wire"
  /\ proc # "gone" /\ Usable(posts[i].ask)
  /\ To(i, "called")

Topic(q) == IF q.topic = NoTopic THEN DefaultTopic ELSE q.topic

(* FCM reports the tokens it refuses in a response that is no error.         *)
Subscribe(q, refused) ==
  CASE q.kind = "subscribe"   ->
         members' = [members EXCEPT ![Topic(q)] = @ \cup (Named(q) \ refused)]
    [] q.kind = "unsubscribe" ->
         members' = [members EXCEPT ![Topic(q)] = @ \ (Named(q) \ refused)]
    [] OTHER                  -> members' = members

Turn == 1 + Cardinality({i \in Ids : posts[i].taken > 0})

(* The service does what it is asked for, for a client that waits or late.   *)
Take(i) ==
  /\ i \in Ids /\ posts[i].stage \in {"called", "cut"} /\ posts[i].taken = 0
  /\ \E refused \in SUBSET (Named(posts[i].ask) \cap Tokens) :
       /\ Subscribe(posts[i].ask, refused)
       /\ posts' = [posts EXCEPT ![i].stage = IF @ = "cut" THEN "cut" ELSE "took",
                                 ![i].taken = Turn, ![i].left = refused]
  /\ IF ~IsPush(i) THEN UNCHANGED vars
     ELSE IF posts[i].client = "waits" THEN Deliver(posts[i].by) ELSE DeliverLate(Device(i))
  /\ UNCHANGED <<proc, listening, apns, fcm>>

(* The service's answer reaches the handler, or an error in its place.       *)
Answer(i) ==
  /\ i \in Ids /\ posts[i].stage = "took"
  /\ To(i, "done") \/ To(i, "failed")

(* The service refuses: no response that is Sent, an error from FCM, or the  *)
(* request's context, which FCM's calls carry, is cancelled.                 *)
ServiceFails(i) ==
  /\ i \in Ids /\ posts[i].stage = "called"
  /\ To(i, "failed")

-----------------------------------------------------------------------------
(* The process                                                               *)

InFlight == {i \in Ids : posts[i].stage \in {"called", "took"}}

(* The signal cancels the context, Start wakes up and Shutdown closes the    *)
(* listener; until it is closed the process serves as before.                *)
Signal ==
  /\ proc = "running"
  /\ proc' = "draining" /\ listening' = FALSE
  /\ UNCHANGED <<vars, posts, members, apns, fcm>>

(* Shutdown's thirty seconds are over.                                       *)
Deadline ==
  /\ proc = "draining"
  /\ proc' = "late"
  /\ UNCHANGED <<vars, posts, members, listening, apns, fcm>>

(* Shutdown returns, with its handlers done or too late, and main ends.      *)
Exit ==
  /\ (proc = "draining" /\ InFlight = {}) \/ proc = "late"
  /\ proc' = "gone"
  /\ posts' = [i \in Ids |-> IF i \in InFlight THEN [posts[i] EXCEPT !.stage = "cut"]
                                               ELSE posts[i]]
  /\ UNCHANGED <<vars, members, listening, apns, fcm>>

-----------------------------------------------------------------------------

ServerStep(i) == Refuse(i) \/ Call(i) \/ Take(i) \/ Answer(i) \/ ServiceFails(i)

Process == Signal \/ Deadline \/ Exit

ServerNext ==
  \/ \E p \in Callers, d \in Devices : Push(p, d)
  \/ \E a \in Apps, q \in Asks : Post(a, q)
  \/ \E i \in 1 .. MaxPosts : Hear(i) \/ GiveUp(i) \/ ServerStep(i)
  \/ Process
  \/ (\E s \in Shards : CleanShard(s)) /\ UNCHANGED serverVars
  \/ Tick /\ UNCHANGED serverVars

ServerSpec == ServerInit /\ [][ServerNext]_allVars

(* pushClient's timeout and Shutdown's timeout are timers, and main runs to  *)
(* its end; nothing is assumed of the services, the network or the handlers. *)
ServerFairSpec ==
  /\ ServerSpec
  /\ \A i \in 1 .. MaxPosts : WF_allVars(GiveUp(i))
  /\ WF_allVars(Deadline) /\ WF_allVars(Exit)

-----------------------------------------------------------------------------
(* Properties                                                                *)

(* 200 is answered only for what the service has done, and a caller of /push *)
(* that goes on waiting is where its post is, whoever else gave up, was      *)
(* refused or answered meanwhile.                                            *)
AnswersAreTrue ==
  /\ \A i \in Ids : posts[i].stage = "done" => posts[i].taken > 0
  /\ \A p \in Callers :
       /\ pc[p] = "idle" <=> PostOf(p) = {}
       /\ \A i \in PostOf(p) : pc[p] = "delivered" <=> posts[i].taken > 0

(* A subscription or its end that was answered 200 holds for every token of  *)
(* the request and for the topic it named, or the default one, unless FCM    *)
(* refused the token, which the handler does not tell, or a later post asked *)
(* for the opposite.                                                         *)
Opposite(i, j, t) ==
  /\ posts[j].taken > posts[i].taken /\ posts[j].ask.kind # posts[i].ask.kind
  /\ posts[j].ask.kind \in {"subscribe", "unsubscribe"}
  /\ t \in posts[j].ask.tokens
  /\ \/ posts[i].ask.topic = posts[j].ask.topic
     \/ {posts[i].ask.topic, posts[j].ask.topic} = {NoTopic, DefaultTopic}

TopicsHonoured ==
  \A i \in Ids : \A t \in (posts[i].ask.tokens \cap Tokens) \ posts[i].left :
    LET topic == IF posts[i].ask.topic = NoTopic THEN DefaultTopic ELSE posts[i].ask.topic IN
    /\ (posts[i].stage = "done" /\ posts[i].ask.kind = "subscribe") =>
         t \in members[topic] \/ \E j \in Ids : Opposite(i, j, t)
    /\ (posts[i].stage = "done" /\ posts[i].ask.kind = "unsubscribe") =>
         t \notin members[topic] \/ \E j \in Ids : Opposite(i, j, t)

(* Every call of pushNotification returns, whatever APNs and the push server *)
(* do: on this the progress of the subscription server's reading loop rests. *)
CallsReturn == \A p \in Callers : (pc[p] # "idle") ~> (pc[p] = "idle")

(* A signal ends the push server, also while a call of a service hangs.      *)
ServerExits == (proc = "draining") ~> (proc = "gone")

=============================================================================
