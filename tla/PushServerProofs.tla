-------------------------- MODULE PushServerProofs --------------------------
(***************************************************************************)
(* Proofs about PushLimiter, for any number of callers, devices and        *)
(* shards, any limit and any number of late deliveries, and about          *)
(* PushServer, for any number of callers, other clients, devices, tokens,  *)
(* topics and posts.  What is proved of the limiter holds of the server,   *)
(* because every behaviour of the server is one of the limiter.            *)
(***************************************************************************)
EXTENDS PushServer, SequenceTheorems, FiniteSetTheorems, TLAPS

-----------------------------------------------------------------------------
(* The limiter and its callers: inductive strengthening                      *)

(* A caller whose request was delivered knows the place of that delivery,    *)
(* and has caused no delivery since.                                         *)
PlaceOK(p) ==
  pc[p] = "delivered" =>
    /\ place[p] \in 1 .. Len(delivered)
    /\ delivered[place[p]].by = p
    /\ delivered[place[p]].dev = token[p]
    /\ \A j \in place[p] + 1 .. Len(delivered) : delivered[j].by # p

(* Nothing was recorded or delivered in the future.                          *)
PastOK ==
  /\ \A d \in Devices : lastPush[d] <= now
  /\ \A i \in 1 .. Len(delivered) : delivered[i].at <= now

CallInv == TypeOK /\ PastOK /\ \A p \in Callers : PlaceOK(p)

(* The spacing since an acknowledged push has passed, or a record at        *)
(* least as late still stands.                                               *)
Guarded(i) ==
  \/ now - delivered[i].at >= Spacing
  \/ lastPush[delivered[i].dev] >= delivered[i].at

(* A caller that passed the check is past the spacing of all its own         *)
(* acknowledged pushes to the device.                                        *)
ClearOK(p) ==
  pc[p] = "sending" =>
    \A i \in acked : (delivered[i].by = p /\ delivered[i].dev = token[p])
                       => now - delivered[i].at >= Spacing

(* Only a caller acknowledges a delivery: the late ones have none.           *)
SpacingInv ==
  /\ \A i \in acked : Guarded(i)
  /\ \A i \in acked : delivered[i].by \in Callers
  /\ \A p \in Callers : ClearOK(p)
  /\ AckedSpacing

-----------------------------------------------------------------------------
(* Types and places                                                          *)

LEMMA DeliveredTyped ==
  ASSUME TypeOK
  PROVE  /\ Len(delivered) \in Nat
         /\ \A i \in 1 .. Len(delivered) :
              /\ delivered[i].dev \in Devices
              /\ delivered[i].by \in Callers \cup {Late}
              /\ delivered[i].at \in Nat
<1>1. delivered \in Seq(Delivery)
  BY DEF TypeOK
<1>2. Len(delivered) \in Nat /\ \A i \in 1 .. Len(delivered) : delivered[i] \in Delivery
  BY <1>1, LenProperties, ElementOfSeq
<1> QED
  BY <1>2 DEF Delivery

(* A delivery, on time or late, goes to the end of the history.              *)
LEMMA Appended ==
  ASSUME TypeOK, NEW x \in Devices, NEW b \in Callers \cup {Late},
         delivered' = Append(delivered, [dev |-> x, by |-> b, at |-> now])
  PROVE  /\ delivered' \in Seq(Delivery)
         /\ Len(delivered) \in Nat
         /\ Len(delivered') = Len(delivered) + 1
         /\ \A i \in 1 .. Len(delivered) : delivered'[i] = delivered[i]
         /\ delivered'[Len(delivered) + 1].dev = x
         /\ delivered'[Len(delivered) + 1].by = b
         /\ delivered'[Len(delivered) + 1].at = now
<1> DEFINE m == [dev |-> x, by |-> b, at |-> now]
<1>1. m.dev = x /\ m.by = b /\ m.at = now
  OBVIOUS
<1>2. m \in Delivery
  BY DEF Delivery, TypeOK
<1>3. delivered \in Seq(Delivery) /\ delivered' = Append(delivered, m)
  BY DEF TypeOK
<1> HIDE DEF m
<1>4. /\ delivered' \in Seq(Delivery)
      /\ Len(delivered) \in Nat
      /\ Len(delivered') = Len(delivered) + 1
      /\ \A i \in 1 .. Len(delivered) : delivered'[i] = delivered[i]
      /\ delivered'[Len(delivered) + 1] = m
  BY <1>2, <1>3, AppendProperties, LenProperties
<1> QED
  BY <1>1, <1>4

LEMMA CallInit == Init => CallInv
<1> SUFFICES ASSUME Init PROVE CallInv
  OBVIOUS
<1>1. Len(delivered) = 0 /\ delivered \in Seq(Delivery)
  BY DEF Init
<1>2. (CHOOSE d \in Devices : TRUE) \in Devices
  BY LimiterAssumption
<1>3. TypeOK
  BY <1>1, <1>2 DEF Init, TypeOK
<1> QED
  BY <1>1, <1>3 DEF Init, CallInv, PastOK, PlaceOK, Never

LEMMA CallStep == CallInv /\ [Next]_vars => CallInv'
<1> USE LimiterAssumption
<1> SUFFICES ASSUME CallInv, [Next]_vars PROVE CallInv'
  OBVIOUS
<1>0. /\ TypeOK /\ PastOK
      /\ \A p \in Callers : PlaceOK(p)
      /\ Len(delivered) \in Nat /\ now \in Nat
  BY DeliveredTyped DEF CallInv, TypeOK
<1>1. ASSUME NEW p \in Callers, NEW d \in Devices, CheckLimit(p, d)
      PROVE  CallInv'
  BY <1>0, <1>1 DEF CheckLimit, CallInv, TypeOK, PastOK, PlaceOK
<1>2. ASSUME NEW p \in Callers, Deliver(p)
      PROVE  CallInv'
  <2> DEFINE n == Len(delivered) + 1
  <2>1. /\ token[p] \in Devices
        /\ delivered' = Append(delivered, [dev |-> token[p], by |-> p, at |-> now])
    BY <1>0, <1>2 DEF Deliver, TypeOK
  <2>2. /\ delivered' \in Seq(Delivery) /\ Len(delivered') = n
        /\ \A i \in 1 .. Len(delivered) : delivered'[i] = delivered[i]
        /\ delivered'[n].dev = token[p] /\ delivered'[n].by = p /\ delivered'[n].at = now
    BY <1>0, <2>1, Appended
  <2>3. \A i \in 1 .. n : i = n \/ i \in 1 .. Len(delivered)
    BY <1>0
  <2>4. TypeOK'
    BY <1>0, <1>2, <2>2 DEF Deliver, TypeOK
  <2>5. PastOK'
    BY <1>0, <1>2, <2>2, <2>3 DEF Deliver, PastOK
  <2>6. ASSUME NEW x \in Callers PROVE PlaceOK(x)'
    <3>1. CASE x = p
      <4>1. place'[x] = n /\ token'[x] = token[p]
        BY <1>0, <1>2, <3>1 DEF Deliver, TypeOK
      <4>2. n \in 1 .. n /\ \A j \in n + 1 .. n : FALSE
        BY <1>0
      <4> QED
        BY <2>2, <3>1, <4>1, <4>2 DEF PlaceOK
    <3>2. CASE x # p
      <4>1. pc'[x] = pc[x] /\ place'[x] = place[x] /\ token'[x] = token[x]
        BY <1>0, <1>2, <3>2 DEF Deliver, TypeOK
      <4> SUFFICES ASSUME pc[x] = "delivered"
                   PROVE  /\ place[x] \in 1 .. n
                          /\ delivered'[place[x]].by = x
                          /\ delivered'[place[x]].dev = token[x]
                          /\ \A j \in place[x] + 1 .. n : delivered'[j].by # x
        BY <2>2, <4>1 DEF PlaceOK
      <4>2. /\ place[x] \in 1 .. Len(delivered)
            /\ delivered[place[x]].by = x /\ delivered[place[x]].dev = token[x]
            /\ \A j \in place[x] + 1 .. Len(delivered) : delivered[j].by # x
        BY <1>0 DEF PlaceOK
      <4>3. \A j \in place[x] + 1 .. n :
              j = n \/ (j \in place[x] + 1 .. Len(delivered) /\ j \in 1 .. Len(delivered))
        BY <1>0, <4>2
      <4> QED
        BY <1>0, <2>2, <3>2, <4>2, <4>3
    <3> QED
      BY <3>1, <3>2
  <2> QED
    BY <2>4, <2>5, <2>6 DEF CallInv
<1>3. ASSUME NEW p \in Callers, Record(p)
      PROVE  CallInv'
  <2>1. place[p] \in 1 .. Len(delivered)
    BY <1>0, <1>3 DEF Record, PlaceOK
  <2>2. /\ lastPush' = [lastPush EXCEPT ![token[p]] = now]
        /\ acked' = acked \cup {place[p]}
        /\ pc' = [pc EXCEPT ![p] = "idle"]
        /\ UNCHANGED <<now, token, place, pending, requests, delivered>>
    BY <1>3 DEF Record
  <2>3. TypeOK'
    BY <1>0, <2>1, <2>2 DEF TypeOK
  <2>4. PastOK'
    BY <1>0, <2>2 DEF PastOK, TypeOK
  <2>5. \A x \in Callers : PlaceOK(x)'
    BY <1>0, <2>2 DEF PlaceOK, TypeOK
  <2> QED
    BY <2>3, <2>4, <2>5 DEF CallInv
<1>4. ASSUME NEW p \in Callers, Refused(p) \/ LoseAnswer(p)
      PROVE  CallInv'
  <2>1. /\ pc' = [pc EXCEPT ![p] = "idle"]
        /\ UNCHANGED <<now, lastPush, token, place, pending, requests, delivered, acked>>
    BY <1>4 DEF Refused, LoseAnswer
  <2> QED
    BY <1>0, <2>1 DEF CallInv, TypeOK, PastOK, PlaceOK
<1>5. ASSUME NEW p \in Callers, TimeOut(p)
      PROVE  CallInv'
  BY <1>0, <1>5 DEF TimeOut, CallInv, TypeOK, PastOK, PlaceOK
<1>6. ASSUME NEW d \in Devices, DeliverLate(d)
      PROVE  CallInv'
  <2> DEFINE n == Len(delivered) + 1
  <2>1. delivered' = Append(delivered, [dev |-> d, by |-> Late, at |-> now])
    BY <1>6 DEF DeliverLate
  <2>2. /\ delivered' \in Seq(Delivery) /\ Len(delivered') = n
        /\ \A i \in 1 .. Len(delivered) : delivered'[i] = delivered[i]
        /\ delivered'[n].by = Late /\ delivered'[n].at = now
    BY <1>0, <2>1, Appended
  <2>3. \A i \in 1 .. n : i = n \/ i \in 1 .. Len(delivered)
    BY <1>0
  <2>4. TypeOK'
    BY <1>0, <1>6, <2>2 DEF DeliverLate, TypeOK, callVars
  <2>5. PastOK'
    BY <1>0, <1>6, <2>2, <2>3 DEF DeliverLate, PastOK
  <2>6. ASSUME NEW x \in Callers PROVE PlaceOK(x)'
    BY <1>0, <1>6, <2>2 DEF DeliverLate, PlaceOK, callVars
  <2> QED
    BY <2>4, <2>5, <2>6 DEF CallInv
<1>7. ASSUME NEW s \in Shards, CleanShard(s)
      PROVE  CallInv'
  BY <1>0, <1>7 DEF CleanShard, CallInv, TypeOK, PastOK, PlaceOK, Never, callVars
<1>8. CASE Tick
  <2>1. now' = now + 1 /\ UNCHANGED <<lastPush, pc, token, place, pending, requests, delivered, acked>>
    BY <1>8 DEF Tick, callVars
  <2>2. PastOK'
    <3>1. \A d \in Devices : lastPush[d] \in Int
      BY <1>0 DEF TypeOK, Never
    <3>2. \A i \in 1 .. Len(delivered) : delivered[i].at \in Nat
      BY <1>0, DeliveredTyped
    <3> QED
      BY <1>0, <2>1, <3>1, <3>2 DEF PastOK
  <2> QED
    BY <1>0, <2>1, <2>2 DEF CallInv, TypeOK, PlaceOK
<1>9. CASE UNCHANGED vars
  BY <1>0, <1>9 DEF CallInv, TypeOK, PastOK, PlaceOK, vars, callVars
<1> QED
  BY <1>1, <1>2, <1>3, <1>4, <1>5, <1>6, <1>7, <1>8, <1>9 DEF Next, PushNotification

(* Type correctness of the limiter.                                          *)
THEOREM LimiterTypeCorrect == Spec => []TypeOK
<1>1. CallInv => TypeOK
  BY DEF CallInv
<1> QED
  BY CallInit, CallStep, <1>1, PTL DEF Spec

-----------------------------------------------------------------------------
(* Spacing                                                                   *)

LEMMA SpacingInit == Init => SpacingInv
<1> SUFFICES ASSUME Init PROVE SpacingInv
  OBVIOUS
<1>1. Len(delivered) = 0 /\ acked = {} /\ \A p \in Callers : pc[p] = "idle"
  BY DEF Init
<1> QED
  BY <1>1 DEF SpacingInv, ClearOK, AckedSpacing

LEMMA SpacingStep == CallInv /\ SpacingInv /\ [Next]_vars => SpacingInv'
<1> USE LimiterAssumption
<1> SUFFICES ASSUME CallInv, SpacingInv, [Next]_vars PROVE SpacingInv'
  OBVIOUS
<1>0. /\ TypeOK /\ PastOK
      /\ \A p \in Callers : PlaceOK(p) /\ ClearOK(p)
      /\ \A i \in acked : Guarded(i)
      /\ \A i \in acked : delivered[i].by \in Callers
      /\ AckedSpacing
  BY DEF CallInv, SpacingInv
<1>1. /\ Len(delivered) \in Nat /\ now \in Nat
      /\ acked \subseteq 1 .. Len(delivered)
      /\ \A d \in Devices : lastPush[d] \in Int /\ lastPush[d] <= now
      /\ \A i \in 1 .. Len(delivered) :
           /\ delivered[i].dev \in Devices
           /\ delivered[i].by \in Callers \cup {Late}
           /\ delivered[i].at \in Nat /\ delivered[i].at <= now
  <2>1. Len(delivered) \in Nat /\ now \in Nat /\ acked \subseteq 1 .. Len(delivered)
    BY <1>0, DeliveredTyped DEF TypeOK
  <2>2. \A d \in Devices : lastPush[d] \in Int /\ lastPush[d] <= now
    BY <1>0 DEF TypeOK, PastOK, Never
  <2>3. \A i \in 1 .. Len(delivered) :
          /\ delivered[i].dev \in Devices
          /\ delivered[i].by \in Callers \cup {Late}
          /\ delivered[i].at \in Nat /\ delivered[i].at <= now
    BY <1>0, DeliveredTyped DEF PastOK
  <2> QED
    BY <2>1, <2>2, <2>3
<1>11. Spacing \in Nat /\ Spacing <= Limit /\ Spacing <= Retention + 1
  BY DEF Spacing
<1>2. ASSUME NEW p \in Callers, NEW d \in Devices, CheckLimit(p, d)
      PROVE  SpacingInv'
  <2>1. /\ UNCHANGED <<now, lastPush, delivered, acked>>
        /\ pc' = [pc EXCEPT ![p] = "sending"]
        /\ token' = [token EXCEPT ![p] = d]
        /\ ~Limited(d)
    BY <1>2 DEF CheckLimit
  <2>2. \A i \in acked : delivered[i].dev = d => now - delivered[i].at >= Spacing
    <3> SUFFICES ASSUME NEW i \in acked, delivered[i].dev = d,
                        lastPush[d] >= delivered[i].at
                 PROVE  now - delivered[i].at >= Spacing
      BY <1>0 DEF Guarded
    <3>1. delivered[i].at \in Nat /\ lastPush[d] # Never
      BY <1>1 DEF Never
    <3>2. now - lastPush[d] >= Spacing
      BY <1>1, <1>11, <2>1, <3>1 DEF Limited
    <3> QED
      BY <1>1, <1>11, <3>1, <3>2
  <2>3. ASSUME NEW x \in Callers PROVE ClearOK(x)'
    <3>1. CASE x = p
      BY <1>0, <2>1, <2>2, <3>1 DEF ClearOK, TypeOK
    <3>2. CASE x # p
      BY <1>0, <2>1, <3>2 DEF ClearOK, TypeOK
    <3> QED
      BY <3>1, <3>2
  <2> QED
    BY <1>0, <2>1, <2>3 DEF SpacingInv, Guarded, AckedSpacing
<1>3. ASSUME NEW b \in Callers \cup {Late}, NEW x \in Devices,
             delivered' = Append(delivered, [dev |-> x, by |-> b, at |-> now]),
             UNCHANGED <<now, lastPush, acked, token>>,
             \A p \in Callers : pc'[p] = "sending" => pc[p] = "sending",
             \A i \in acked : (delivered[i].by = b /\ delivered[i].dev = x)
                                => now - delivered[i].at >= Spacing
      PROVE  SpacingInv'
  <2> DEFINE n == Len(delivered) + 1
  <2>1. /\ Len(delivered') = n
        /\ \A i \in 1 .. Len(delivered) : delivered'[i] = delivered[i]
        /\ delivered'[n].dev = x /\ delivered'[n].by = b /\ delivered'[n].at = now
    BY <1>0, <1>3, Appended
  <2>2. \A i \in 1 .. n : i = n \/ i \in 1 .. Len(delivered)
    BY <1>1
  <2>3. \A i \in acked : delivered'[i] = delivered[i] /\ i \in 1 .. Len(delivered) /\ i # n
    BY <1>1, <2>1
  <2>4. \A i \in acked' : Guarded(i)'
    BY <1>0, <1>3, <2>3 DEF Guarded
  <2>5. \A p \in Callers : ClearOK(p)'
    BY <1>0, <1>3, <2>3 DEF ClearOK
  <2>6. AckedSpacing'
    <3> SUFFICES ASSUME NEW i \in 1 .. n, NEW j \in 1 .. n, i < j, i \in acked,
                        delivered'[i].dev = delivered'[j].dev,
                        delivered'[i].by = delivered'[j].by
                 PROVE  delivered'[j].at - delivered'[i].at >= Spacing
      BY <1>3, <2>1 DEF AckedSpacing
    <3>1. CASE j = n
      BY <1>3, <2>1, <2>3, <3>1
    <3>2. CASE j \in 1 .. Len(delivered)
      BY <1>0, <2>1, <2>3, <3>2 DEF AckedSpacing
    <3> QED
      BY <2>2, <3>1, <3>2
  <2>7. \A i \in acked' : delivered'[i].by \in Callers
    BY <1>0, <1>3, <2>3
  <2> QED
    BY <2>4, <2>5, <2>6, <2>7 DEF SpacingInv
<1>4. ASSUME NEW p \in Callers, Deliver(p)
      PROVE  SpacingInv'
  <2>1. /\ pc[p] = "sending" /\ token[p] \in Devices
        /\ delivered' = Append(delivered, [dev |-> token[p], by |-> p, at |-> now])
        /\ UNCHANGED <<now, lastPush, acked, token>>
    BY <1>0, <1>4 DEF Deliver, TypeOK
  <2>2. \A x \in Callers : pc'[x] = "sending" => pc[x] = "sending"
    BY <1>0, <1>4 DEF Deliver, TypeOK
  <2>3. \A i \in acked : (delivered[i].by = p /\ delivered[i].dev = token[p])
                             => now - delivered[i].at >= Spacing
    BY <1>0, <2>1 DEF ClearOK
  <2> QED
    BY <1>3, <2>1, <2>2, <2>3
<1>5. ASSUME NEW d \in Devices, DeliverLate(d)
      PROVE  SpacingInv'
  <2>1. /\ delivered' = Append(delivered, [dev |-> d, by |-> Late, at |-> now])
        /\ UNCHANGED <<now, lastPush, acked, token, pc>>
    BY <1>5 DEF DeliverLate, callVars
  <2>2. \A i \in acked : delivered[i].by # Late
    BY <1>0
  <2> QED
    BY <1>3, <2>1, <2>2
<1>6. ASSUME NEW p \in Callers, Record(p)
      PROVE  SpacingInv'
  <2>1. /\ lastPush' = [lastPush EXCEPT ![token[p]] = now]
        /\ acked' = acked \cup {place[p]}
        /\ pc' = [pc EXCEPT ![p] = "idle"]
        /\ UNCHANGED <<now, token, delivered>>
    BY <1>6 DEF Record
  <2>2. /\ place[p] \in 1 .. Len(delivered)
        /\ delivered[place[p]].by = p
        /\ delivered[place[p]].dev = token[p]
        /\ \A j \in place[p] + 1 .. Len(delivered) : delivered[j].by # p
    BY <1>0, <1>6 DEF Record, PlaceOK
  <2>3. \A d \in Devices : lastPush'[d] >= lastPush[d] /\ lastPush'[token[p]] = now
    BY <1>0, <1>1, <2>1 DEF TypeOK
  <2>4. \A i \in acked' : Guarded(i)'
    <3> SUFFICES ASSUME NEW i \in acked \cup {place[p]}
                 PROVE  \/ now - delivered[i].at >= Spacing
                        \/ lastPush'[delivered[i].dev] >= delivered[i].at
      BY <2>1 DEF Guarded
    <3>1. CASE i = place[p]
      BY <1>1, <2>2, <2>3, <3>1
    <3>2. CASE i \in acked
      <4>1. delivered[i].dev \in Devices /\ delivered[i].at \in Nat
        BY <1>1, <3>2
      <4>2. lastPush'[delivered[i].dev] \in Int /\ lastPush[delivered[i].dev] \in Int
        BY <1>0, <1>1, <2>1, <4>1 DEF TypeOK
      <4>3. lastPush'[delivered[i].dev] >= lastPush[delivered[i].dev]
        BY <2>3, <4>1
      <4> QED
        BY <1>0, <3>2, <4>1, <4>2, <4>3 DEF Guarded
    <3> QED
      BY <3>1, <3>2
  <2>5. \A x \in Callers : ClearOK(x)'
    <3> SUFFICES ASSUME NEW x \in Callers, pc'[x] = "sending" PROVE ClearOK(x)'
      BY DEF ClearOK
    <3>1. x # p /\ pc[x] = "sending"
      BY <1>0, <2>1 DEF TypeOK
    <3> QED
      BY <1>0, <2>1, <2>2, <3>1 DEF ClearOK
  <2>6. AckedSpacing'
    <3> SUFFICES ASSUME NEW i \in 1 .. Len(delivered), NEW j \in 1 .. Len(delivered),
                        i < j, i \in acked \cup {place[p]},
                        delivered[i].dev = delivered[j].dev,
                        delivered[i].by = delivered[j].by
                 PROVE  delivered[j].at - delivered[i].at >= Spacing
      BY <2>1 DEF AckedSpacing
    <3>1. i \in acked
      BY <1>1, <2>2
    <3> QED
      BY <1>0, <3>1 DEF AckedSpacing
  <2>7. \A i \in acked' : delivered'[i].by \in Callers
    BY <1>0, <2>1, <2>2
  <2> QED
    BY <2>4, <2>5, <2>6, <2>7 DEF SpacingInv
<1>7. ASSUME NEW p \in Callers, Refused(p) \/ LoseAnswer(p) \/ TimeOut(p)
      PROVE  SpacingInv'
  <2>1. /\ UNCHANGED <<now, lastPush, token, delivered, acked>>
        /\ pc' = [pc EXCEPT ![p] = "idle"]
    BY <1>7 DEF Refused, LoseAnswer, TimeOut
  <2>2. \A x \in Callers : pc'[x] = "sending" => pc[x] = "sending"
    BY <1>0, <2>1 DEF TypeOK
  <2> QED
    BY <1>0, <2>1, <2>2 DEF SpacingInv, Guarded, ClearOK, AckedSpacing
<1>8. ASSUME NEW s \in Shards, CleanShard(s)
      PROVE  SpacingInv'
  <2>1. UNCHANGED <<now, pc, token, delivered, acked>>
    BY <1>8 DEF CleanShard, callVars
  <2>2. \A d \in Devices : lastPush'[d] = lastPush[d] \/ Expired(d)
    BY <1>8 DEF CleanShard
  <2>3. ASSUME NEW i \in acked PROVE Guarded(i)'
    <3> DEFINE d == delivered[i].dev
    <3>1. d \in Devices /\ delivered[i].at \in Nat
      BY <1>1
    <3>2. CASE lastPush'[d] = lastPush[d]
      BY <1>0, <2>1, <3>2 DEF Guarded
    <3>3. CASE Expired(d)
      <4>1. now - lastPush[d] >= Spacing
        BY <1>1, <1>11, <3>1, <3>3 DEF Expired
      <4>2. now - delivered[i].at >= Spacing
        BY <1>0, <1>1, <1>11, <3>1, <4>1 DEF Guarded
      <4> QED
        BY <2>1, <4>2 DEF Guarded
    <3> QED
      BY <2>2, <3>1, <3>2, <3>3
  <2> QED
    BY <1>0, <2>1, <2>3 DEF SpacingInv, ClearOK, AckedSpacing
<1>9. CASE Tick
  <2>1. now' = now + 1 /\ UNCHANGED <<lastPush, pc, token, delivered, acked>>
    BY <1>9 DEF Tick, callVars
  <2>2. \A i \in acked : now - delivered[i].at >= Spacing => now' - delivered'[i].at >= Spacing
    BY <1>1, <1>11, <2>1
  <2> QED
    BY <1>0, <2>1, <2>2 DEF SpacingInv, Guarded, ClearOK, AckedSpacing
<1>10. CASE UNCHANGED vars
  BY <1>0, <1>10 DEF SpacingInv, Guarded, ClearOK, AckedSpacing, vars, callVars
<1> QED
  BY <1>2, <1>4, <1>5, <1>6, <1>7, <1>8, <1>9, <1>10 DEF Next, PushNotification

(* Whatever other callers do and however many deliveries come late: between  *)
(* a push it saw succeed and its next push to the device a caller leaves the *)
(* limit, or the hour cleanupPushRateLimit keeps records if that is less.    *)
THEOREM SpacingCorrect == Spec => []AckedSpacing
<1>1. SpacingInv => AckedSpacing
  BY DEF SpacingInv
<1> QED
  BY CallInit, CallStep, SpacingInit, SpacingStep, <1>1, PTL DEF Spec

-----------------------------------------------------------------------------
(* Records                                                                   *)

LEMMA PhantomStep == CallInv /\ NoPhantomLimit /\ [Next]_vars => NoPhantomLimit'
<1> USE LimiterAssumption
<1> SUFFICES ASSUME CallInv, NoPhantomLimit, [Next]_vars PROVE NoPhantomLimit'
  OBVIOUS
<1>0. /\ TypeOK /\ PastOK
      /\ \A p \in Callers : PlaceOK(p)
      /\ Len(delivered) \in Nat /\ acked \subseteq 1 .. Len(delivered)
  BY DeliveredTyped DEF CallInv, TypeOK
<1>1. ASSUME NEW p \in Callers, Record(p)
      PROVE  NoPhantomLimit'
  <2>1. /\ lastPush' = [lastPush EXCEPT ![token[p]] = now]
        /\ acked' = acked \cup {place[p]} /\ delivered' = delivered
    BY <1>1 DEF Record
  <2>2. /\ place[p] \in 1 .. Len(delivered)
        /\ delivered[place[p]].dev = token[p]
        /\ delivered[place[p]].at <= now
    BY <1>0, <1>1 DEF Record, PlaceOK, PastOK
  <2> SUFFICES ASSUME NEW d \in Devices, lastPush'[d] # Never
               PROVE  \E i \in acked \cup {place[p]} :
                        delivered[i].dev = d /\ delivered[i].at <= lastPush'[d]
    BY <2>1 DEF NoPhantomLimit
  <2>3. CASE d = token[p]
    <3>1. lastPush'[d] = now
      BY <1>0, <2>1, <2>3 DEF TypeOK
    <3> QED
      BY <2>2, <2>3, <3>1
  <2>4. CASE d # token[p]
    <3>1. lastPush'[d] = lastPush[d]
      BY <1>0, <2>1, <2>4 DEF TypeOK
    <3> QED
      BY <3>1 DEF NoPhantomLimit
  <2> QED
    BY <2>3, <2>4
<1>2. ASSUME NEW p \in Callers, Deliver(p)
      PROVE  NoPhantomLimit'
  <2>1. /\ token[p] \in Devices /\ UNCHANGED <<lastPush, acked>>
        /\ delivered' = Append(delivered, [dev |-> token[p], by |-> p, at |-> now])
    BY <1>0, <1>2 DEF Deliver, TypeOK
  <2>2. \A i \in acked : delivered'[i] = delivered[i]
    BY <1>0, <2>1, Appended
  <2> QED
    BY <2>1, <2>2 DEF NoPhantomLimit
<1>3. ASSUME NEW d \in Devices, DeliverLate(d)
      PROVE  NoPhantomLimit'
  <2>1. /\ UNCHANGED <<lastPush, acked>>
        /\ delivered' = Append(delivered, [dev |-> d, by |-> Late, at |-> now])
    BY <1>3 DEF DeliverLate
  <2>2. \A i \in acked : delivered'[i] = delivered[i]
    BY <1>0, <2>1, Appended
  <2> QED
    BY <2>1, <2>2 DEF NoPhantomLimit
<1>4. ASSUME NEW s \in Shards, CleanShard(s)
      PROVE  NoPhantomLimit'
  <2>1. /\ UNCHANGED <<delivered, acked>>
        /\ \A d \in Devices : lastPush'[d] = Never \/ lastPush'[d] = lastPush[d]
    BY <1>4 DEF CleanShard
  <2> QED
    BY <2>1 DEF NoPhantomLimit
<1>5. CASE UNCHANGED <<lastPush, delivered, acked>>
  BY <1>5 DEF NoPhantomLimit
<1> QED
  BY <1>1, <1>2, <1>3, <1>4, <1>5 DEF Next, PushNotification, CheckLimit, Refused,
     TimeOut, LoseAnswer, Tick, vars

(* Only a push that succeeded holds a device back, whatever refuses, gets    *)
(* lost or shares the shard.                                                 *)
THEOREM NoPhantomCorrect == Spec => []NoPhantomLimit
<1>1. Init => NoPhantomLimit
  BY DEF Init, NoPhantomLimit
<1> QED
  BY CallInit, CallStep, PhantomStep, <1>1, PTL DEF Spec

(* A recorded time never moves back, and cleanupPushRateLimit forgets a      *)
(* device only when it is free again, provided Limit <= Retention.           *)
THEOREM ForgetCorrect ==
  ASSUME Limit <= Retention
  PROVE  Spec => ForgetOnlyUnlimited
<1> DEFINE Keeps == \A d \in Devices : \/ lastPush'[d] >= lastPush[d]
                                       \/ lastPush'[d] = Never /\ ~Limited(d)
<1>1. CallInv /\ [Next]_vars => [Keeps]_vars
  <2> SUFFICES ASSUME CallInv, Next PROVE Keeps
    BY DEF vars
  <2> USE LimiterAssumption
  <2>0. /\ lastPush \in [Devices -> Nat \cup {Never}] /\ now \in Nat
        /\ token \in [Callers -> Devices]
        /\ \A d \in Devices : lastPush[d] \in Int /\ lastPush[d] <= now
    BY DEF CallInv, TypeOK, PastOK, Never
  <2>1. ASSUME NEW p \in Callers, Record(p) PROVE Keeps
    BY <2>0, <2>1 DEF Record
  <2>2. ASSUME NEW s \in Shards, CleanShard(s) PROVE Keeps
    <3> SUFFICES ASSUME NEW d \in Devices
                 PROVE  lastPush'[d] >= lastPush[d] \/ (lastPush'[d] = Never /\ ~Limited(d))
      OBVIOUS
    <3>1. lastPush'[d] = lastPush[d] \/ (lastPush'[d] = Never /\ Expired(d))
      BY <2>2 DEF CleanShard
    <3>2. Expired(d) => ~Limited(d)
      BY <2>0 DEF Expired, Limited
    <3> QED
      BY <2>0, <3>1, <3>2
  <2>3. CASE UNCHANGED lastPush
    BY <2>0, <2>3
  <2> QED
    BY <2>1, <2>2, <2>3 DEF Next, PushNotification, CheckLimit, Deliver, Refused,
       TimeOut, LoseAnswer, DeliverLate, Tick
<1> QED
  BY CallInit, CallStep, <1>1, PTL DEF Spec, ForgetOnlyUnlimited


-----------------------------------------------------------------------------
(* The server: inductive strengthening                                       *)

(* A post of a caller is a push of one device, any other asks for something  *)
(* else.                                                                     *)
Shape(i) ==
  IF posts[i].by \in Callers THEN \E d \in Devices : posts[i].ask = PushAsk(d)
                             ELSE posts[i].ask \in Asks

PostsInv == posts \in Seq(PostType) /\ \A i \in Ids : Shape(i)

ProcessInv ==
  /\ members \in [Topics -> SUBSET Tokens]
  /\ proc \in {"running", "draining", "late", "gone"}
  /\ listening \in BOOLEAN /\ apns \in BOOLEAN /\ fcm \in BOOLEAN
  /\ listening => proc = "running"
  /\ \A i \in Ids : posts[i].stage \in {"called", "took"} => proc # "gone"

(* A post whose client waits has left its caller exactly where it stands.    *)
WaitingFor(p, i) ==
  /\ pc[p] = IF posts[i].taken > 0 THEN "delivered" ELSE "sending"
  /\ posts[i].ask = PushAsk(token[p])

CallersInv ==
  /\ \A i, j \in Ids : (posts[i].by = posts[j].by /\ posts[i].client = "waits"
                          /\ posts[j].client = "waits") => i = j
  /\ \A i \in Ids : (posts[i].client = "waits" /\ posts[i].by \in Callers)
                      => WaitingFor(posts[i].by, i)
  /\ \A p \in Callers : pc[p] # "idle" =>
       \E i \in Ids : posts[i].client = "waits" /\ posts[i].by = p

(* A service has done what it was asked before the handler or the client     *)
(* hears of it, unless what they hear is an error.                           *)
ServedInv ==
  \A i \in Ids :
    /\ posts[i].stage \in {"took", "done"} => posts[i].taken > 0
    /\ posts[i].client = "heard" => posts[i].taken > 0 \/ posts[i].stage = "failed"

ServerInv == TypeOK /\ PostsInv /\ ProcessInv /\ CallersInv /\ ServedInv

-----------------------------------------------------------------------------
(* How a step changes the posts                                              *)

(* The step touches only post i, and neither its sender nor what it asks.    *)
Revises(i) ==
  /\ i \in Ids
  /\ posts' \in Seq(PostType) /\ Len(posts') = Len(posts)
  /\ \A j \in Ids : j # i => posts'[j] = posts[j]
  /\ posts'[i].by = posts[i].by /\ posts'[i].ask = posts[i].ask

LEMMA PostTyped ==
  ASSUME PostsInv, NEW i \in Ids
  PROVE  /\ posts[i] \in PostType /\ i \in 1 .. Len(posts) /\ Len(posts) \in Nat
         /\ posts[i].by \in Callers \cup Apps /\ posts[i].ask \in Ask
         /\ posts[i].taken \in Nat /\ posts[i].left \in SUBSET Tokens
         /\ posts[i].client \in {"waits", "heard", "gone"}
         /\ posts[i].stage \in {"wire", "called", "took", "done", "failed", "cut"}
<1>1. posts \in Seq(PostType)
  BY DEF PostsInv
<1>2. posts[i] \in PostType /\ Len(posts) \in Nat /\ i \in 1 .. Len(posts)
  BY <1>1, ElementOfSeq, LenProperties DEF Ids
<1> QED
  BY <1>2 DEF PostType

LEMMA PushOfCaller ==
  ASSUME PostsInv, NEW i \in Ids
  PROVE  /\ IsPush(i) <=> posts[i].by \in Callers
         /\ IsPush(i) => \E d \in Devices : posts[i].ask = PushAsk(d)
<1>1. CASE posts[i].by \in Callers
  <2>1. PICK d \in Devices : posts[i].ask = PushAsk(d)
    BY <1>1 DEF PostsInv, Shape
  <2>2. PushAsk(d).kind = "push"
    BY DEF PushAsk
  <2> QED
    BY <1>1, <2>1, <2>2 DEF IsPush
<1>2. CASE posts[i].by \notin Callers
  BY <1>2, ServerAssumption DEF PostsInv, Shape, IsPush
<1> QED
  BY <1>1, <1>2

LEMMA DeviceOf ==
  ASSUME PostsInv, NEW i \in Ids, NEW d \in Devices, posts[i].ask = PushAsk(d)
  PROVE  Device(i) = d
<1>1. posts[i].ask.tokens = {d}
  BY DEF PushAsk
<1> QED
  BY <1>1 DEF Device

LEMMA Replaced ==
  ASSUME PostsInv, NEW i \in Ids, NEW r \in PostType,
         posts' = [posts EXCEPT ![i] = r]
  PROVE  /\ posts' \in Seq(PostType) /\ Len(posts') = Len(posts)
         /\ posts'[i] = r
         /\ \A j \in Ids : j # i => posts'[j] = posts[j]
<1>1. posts \in Seq(PostType) /\ i \in 1 .. Len(posts)
  BY DEF PostsInv, Ids
<1> QED
  BY <1>1, ExceptSeq DEF Ids

LEMMA ToRevises ==
  ASSUME PostsInv, NEW i \in Ids,
         NEW st \in {"wire", "called", "took", "done", "failed", "cut"}, To(i, st)
  PROVE  /\ Revises(i)
         /\ posts'[i].stage = st /\ posts'[i].client = posts[i].client
         /\ posts'[i].taken = posts[i].taken /\ posts'[i].left = posts[i].left
         /\ UNCHANGED <<vars, members, proc, listening, apns, fcm>>
<1> DEFINE r == [posts[i] EXCEPT !.stage = st]
<1>1. /\ r \in PostType
      /\ r.by = posts[i].by /\ r.ask = posts[i].ask /\ r.stage = st
      /\ r.client = posts[i].client /\ r.taken = posts[i].taken /\ r.left = posts[i].left
  BY PostTyped DEF PostType
<1>2. posts' = [posts EXCEPT ![i] = r]
  BY DEF To
<1> HIDE DEF r
<1> QED
  BY <1>1, <1>2, Replaced DEF Revises, To

LEMMA ClientRevises ==
  ASSUME PostsInv, NEW i \in Ids, NEW c \in {"heard", "gone"},
         posts' = [posts EXCEPT ![i].client = c]
  PROVE  /\ Revises(i)
         /\ posts'[i].client = c /\ posts'[i].stage = posts[i].stage
         /\ posts'[i].taken = posts[i].taken /\ posts'[i].left = posts[i].left
<1> DEFINE r == [posts[i] EXCEPT !.client = c]
<1>1. /\ r \in PostType
      /\ r.by = posts[i].by /\ r.ask = posts[i].ask /\ r.client = c
      /\ r.stage = posts[i].stage /\ r.taken = posts[i].taken /\ r.left = posts[i].left
  BY PostTyped DEF PostType
<1>2. posts' = [posts EXCEPT ![i] = r]
  OBVIOUS
<1> HIDE DEF r
<1> QED
  BY <1>1, <1>2, Replaced DEF Revises

(* Turns of the services                                                     *)
LEMMA TurnTyped == ASSUME PostsInv PROVE Turn \in Nat /\ Turn > 0
<1> DEFINE S == {i \in Ids : posts[i].taken > 0}
<1>1. IsFiniteSet(S)
  <2>1. Len(posts) \in Nat
    BY LenProperties DEF PostsInv
  <2>2. IsFiniteSet(1 .. Len(posts))
    BY <2>1, FS_Interval
  <2>3. S \subseteq 1 .. Len(posts)
    BY DEF Ids
  <2> HIDE DEF S
  <2> QED
    BY <2>2, <2>3, FS_Subset
<1>2. Cardinality(S) \in Nat
  BY <1>1, FS_CardinalityType
<1> QED
  BY <1>2 DEF Turn

LEMMA TakeRevises ==
  ASSUME PostsInv, NEW i \in Ids, NEW refused \in SUBSET Tokens,
         posts' = [posts EXCEPT ![i].stage = IF @ = "cut" THEN "cut" ELSE "took",
                                ![i].taken = Turn, ![i].left = refused]
  PROVE  /\ Revises(i)
         /\ posts'[i].stage = (IF posts[i].stage = "cut" THEN "cut" ELSE "took")
         /\ posts'[i].client = posts[i].client
         /\ posts'[i].taken = Turn /\ posts'[i].left = refused
<1> DEFINE st == IF posts[i].stage = "cut" THEN "cut" ELSE "took"
<1> DEFINE r == [posts[i] EXCEPT !.stage = st, !.taken = Turn, !.left = refused]
<1>1. /\ r \in PostType
      /\ r.by = posts[i].by /\ r.ask = posts[i].ask /\ r.stage = st
      /\ r.client = posts[i].client /\ r.taken = Turn /\ r.left = refused
  BY PostTyped, TurnTyped DEF PostType
<1>2. posts' = [posts EXCEPT ![i] = r]
  <2>1. posts \in Seq(PostType) /\ i \in DOMAIN posts
    BY DEF PostsInv, Ids
  <2> QED
    BY <2>1
<1> HIDE DEF r
<1> QED
  BY <1>1, <1>2, Replaced DEF Revises

LEMMA SendAppends ==
  ASSUME PostsInv, NEW a \in Callers \cup Apps, NEW q \in Ask, Send(a, q)
  PROVE  /\ posts' \in Seq(PostType) /\ Len(posts') = Len(posts) + 1 /\ Len(posts) \in Nat
         /\ \A j \in Ids : posts'[j] = posts[j]
         /\ \A j \in 1 .. Len(posts') : j \in Ids \/ j = Len(posts) + 1
         /\ posts'[Len(posts) + 1].by = a /\ posts'[Len(posts) + 1].ask = q
         /\ posts'[Len(posts) + 1].stage \in {"wire", "failed"}
         /\ posts'[Len(posts) + 1].client = "waits"
         /\ posts'[Len(posts) + 1].taken = 0 /\ posts'[Len(posts) + 1].left = {}
<1> DEFINE m == [by |-> a, ask |-> q, stage |-> IF listening THEN "wire" ELSE "failed",
                 client |-> "waits", taken |-> 0, left |-> {}]
<1>1. /\ m \in PostType
      /\ m.by = a /\ m.ask = q /\ m.stage \in {"wire", "failed"} /\ m.client = "waits"
      /\ m.taken = 0 /\ m.left = {}
  BY DEF PostType
<1>2. posts' = Append(posts, m) /\ posts \in Seq(PostType)
  BY DEF Send, PostsInv
<1> HIDE DEF m
<1>3. /\ posts' \in Seq(PostType) /\ Len(posts') = Len(posts) + 1 /\ Len(posts) \in Nat
      /\ posts'[Len(posts) + 1] = m
      /\ \A j \in 1 .. Len(posts) : posts'[j] = posts[j]
  BY <1>1, <1>2, AppendProperties, LenProperties
<1> QED
  BY <1>1, <1>3 DEF Ids

LEMMA ExitCuts ==
  ASSUME PostsInv, Exit
  PROVE  /\ posts' \in Seq(PostType) /\ Len(posts') = Len(posts)
         /\ \A j \in Ids :
              /\ posts'[j].by = posts[j].by /\ posts'[j].ask = posts[j].ask
              /\ posts'[j].client = posts[j].client
              /\ posts'[j].taken = posts[j].taken /\ posts'[j].left = posts[j].left
              /\ posts'[j].stage = (IF j \in InFlight THEN "cut" ELSE posts[j].stage)
<1> DEFINE f(i) == IF i \in InFlight THEN [posts[i] EXCEPT !.stage = "cut"] ELSE posts[i]
<1>1. ASSUME NEW j \in Ids
      PROVE  /\ f(j) \in PostType
             /\ f(j).by = posts[j].by /\ f(j).ask = posts[j].ask
             /\ f(j).client = posts[j].client
             /\ f(j).taken = posts[j].taken /\ f(j).left = posts[j].left
             /\ f(j).stage = (IF j \in InFlight THEN "cut" ELSE posts[j].stage)
  BY PostTyped DEF PostType
<1>2. posts' = [i \in Ids |-> f(i)]
  BY DEF Exit
<1> HIDE DEF f
<1>3. Len(posts) \in Nat
  BY LenProperties DEF PostsInv
<1>4. posts' \in Seq(PostType)
  <2>1. posts' \in [1 .. Len(posts) -> PostType]
    BY <1>1, <1>2 DEF Ids
  <2> QED
    BY <1>3, <2>1, SeqDef
<1>5. Len(posts') = Len(posts)
  BY <1>2, <1>3, <1>4, LenProperties DEF Ids
<1> QED
  BY <1>1, <1>2, <1>4, <1>5

-----------------------------------------------------------------------------
(* Every step of the server is a step of PushLimiter                         *)

LEMMA ServerStepIsLimiterStep ==
  PostsInv /\ [ServerNext]_allVars => [Next]_vars
<1> SUFFICES ASSUME PostsInv, [ServerNext]_allVars PROVE [Next]_vars
  OBVIOUS
<1>1. ASSUME NEW p \in Callers, NEW d \in Devices, Push(p, d) PROVE Next
  BY <1>1 DEF Push, Next, PushNotification
<1>2. ASSUME NEW i \in Ids, Hear(i) PROVE [Next]_vars
  BY <1>2, PushOfCaller DEF Hear, Next, PushNotification
<1>3. ASSUME NEW i \in Ids, GiveUp(i) PROVE [Next]_vars
  BY <1>3, PushOfCaller DEF GiveUp, Next, PushNotification
<1>4. ASSUME NEW i \in Ids, Take(i) PROVE [Next]_vars
  <2>1. CASE ~IsPush(i)
    BY <1>4, <2>1 DEF Take
  <2>2. CASE IsPush(i)
    <3>1. posts[i].by \in Callers /\ Device(i) \in Devices
      BY <2>2, PushOfCaller, DeviceOf
    <3> QED
      BY <1>4, <2>2, <3>1 DEF Take, Next, PushNotification
  <2> QED
    BY <2>1, <2>2
<1>5. ASSUME NEW i \in Ids, Refuse(i) \/ Call(i) \/ Answer(i) \/ ServiceFails(i)
      PROVE  UNCHANGED vars
  BY <1>5 DEF Refuse, Call, Answer, ServiceFails, To
<1>6. \A i : (Hear(i) \/ GiveUp(i) \/ ServerStep(i)) => i \in Ids
  BY DEF Hear, GiveUp, Waits, ServerStep, Refuse, Call, Take, Answer, ServiceFails
<1>7. CASE Process \/ (\E a \in Apps, q \in Asks : Post(a, q)) \/ UNCHANGED allVars
  BY <1>7 DEF Process, Signal, Deadline, Exit, Post, allVars
<1>8. CASE (\E s \in Shards : CleanShard(s)) \/ Tick
  BY <1>8 DEF Next
<1> QED
  BY <1>1, <1>2, <1>3, <1>4, <1>5, <1>6, <1>7, <1>8 DEF ServerNext, ServerStep

LEMMA PostsStep == PostsInv /\ [ServerNext]_allVars => PostsInv'
<1> SUFFICES ASSUME PostsInv, [ServerNext]_allVars PROVE PostsInv'
  OBVIOUS
<1>1. ASSUME NEW i \in Ids, Revises(i) PROVE PostsInv'
  <2>1. posts' \in Seq(PostType) /\ Ids' = Ids
    BY <1>1 DEF Revises, Ids
  <2>2. \A j \in Ids : posts'[j].by = posts[j].by /\ posts'[j].ask = posts[j].ask
    BY <1>1 DEF Revises
  <2> QED
    BY <2>1, <2>2 DEF PostsInv, Shape
<1>2. ASSUME NEW a \in Callers \cup Apps, NEW q \in Ask, Send(a, q),
             IF a \in Callers THEN \E d \in Devices : q = PushAsk(d) ELSE q \in Asks
      PROVE  PostsInv'
  <2>1. PICK n \in Nat : n = Len(posts) + 1
    BY LenProperties DEF PostsInv
  <2>2. /\ posts' \in Seq(PostType)
        /\ \A j \in Ids : posts'[j] = posts[j]
        /\ posts'[n].by = a /\ posts'[n].ask = q
        /\ \A j \in Ids' : j \in Ids \/ j = n
    BY <1>2, <2>1, SendAppends DEF Ids
  <2>3. Shape(n)'
    BY <1>2, <2>2 DEF Shape
  <2>4. \A j \in Ids : Shape(j)'
    BY <2>2 DEF PostsInv, Shape
  <2> QED
    BY <2>2, <2>3, <2>4 DEF PostsInv
<1>3. ASSUME NEW p \in Callers, NEW d \in Devices, Push(p, d) PROVE PostsInv'
  <2>1. PushAsk(d) \in Ask
    BY DEF PushAsk, Ask, Kinds
  <2>2. Send(p, PushAsk(d)) /\ p \in Callers \cup Apps
    BY <1>3 DEF Push
  <2> QED
    BY <1>2, <2>1, <2>2
<1>4. ASSUME NEW a \in Apps, NEW q \in Asks, Post(a, q) PROVE PostsInv'
  <2>1. a \in Callers \cup Apps /\ a \notin Callers /\ q \in Ask
    BY ServerAssumption
  <2>2. Send(a, q)
    BY <1>4 DEF Post
  <2> QED
    BY <1>2, <2>1, <2>2
<1>5. ASSUME NEW i \in Ids, Hear(i) \/ GiveUp(i) PROVE PostsInv'
  <2>1. \E c \in {"heard", "gone"} : posts' = [posts EXCEPT ![i].client = c]
    BY <1>5 DEF Hear, GiveUp
  <2> QED
    BY <1>1, <2>1, ClientRevises
<1>6. ASSUME NEW i \in Ids, ServerStep(i) PROVE PostsInv'
  <2>1. CASE Take(i)
    <3>1. PICK refused \in SUBSET Tokens :
            posts' = [posts EXCEPT ![i].stage = IF @ = "cut" THEN "cut" ELSE "took",
                                   ![i].taken = Turn, ![i].left = refused]
      BY <2>1 DEF Take
    <3> QED
      BY <1>1, <3>1, TakeRevises
  <2>2. CASE ~Take(i)
    <3>1. \E st \in {"wire", "called", "took", "done", "failed", "cut"} : To(i, st)
      BY <1>6, <2>2 DEF ServerStep, Refuse, Call, Answer, ServiceFails
    <3> QED
      BY <1>1, <3>1, ToRevises
  <2> QED
    BY <2>1, <2>2
<1>7. CASE Exit
  <2>1. /\ posts' \in Seq(PostType) /\ Ids' = Ids
        /\ \A j \in Ids : posts'[j].by = posts[j].by /\ posts'[j].ask = posts[j].ask
    BY <1>7, ExitCuts DEF Ids
  <2> QED
    BY <2>1 DEF PostsInv, Shape
<1>8. CASE posts' = posts
  BY <1>8 DEF PostsInv, Shape, Ids
<1>9. \A i : (Hear(i) \/ GiveUp(i) \/ ServerStep(i)) => i \in Ids
  BY DEF Hear, GiveUp, Waits, ServerStep, Refuse, Call, Take, Answer, ServiceFails
<1>10. Signal \/ Deadline \/ UNCHANGED serverVars => posts' = posts
  BY DEF Signal, Deadline, serverVars
<1> QED
  BY <1>3, <1>4, <1>5, <1>6, <1>7, <1>8, <1>9, <1>10 DEF ServerNext, Process, allVars

LEMMA PostsInit == ServerInit => PostsInv
<1> SUFFICES ASSUME ServerInit PROVE PostsInv
  OBVIOUS
<1>1. posts = <<>> /\ Len(posts) = 0
  BY DEF ServerInit
<1> QED
  BY <1>1, EmptySeq DEF PostsInv, Ids

(* The posts, handlers, services and the process do to the limiter what its  *)
(* environment may do: what is proved of it holds at the real server.        *)
THEOREM ServerKeepsLimiter == ServerSpec => Spec
<1>1. ServerInit => Init
  BY DEF ServerInit
<1> QED
  BY <1>1, PostsInit, PostsStep, ServerStepIsLimiterStep, PTL DEF ServerSpec, Spec

(* After a push its caller saw succeed the same caller waits for the limit,  *)
(* or as long as records are kept, through refusals, timeouts, late          *)
(* deliveries and the server's shutdown.                                     *)
THEOREM ServerSpacing == ServerSpec => []AckedSpacing
BY ServerKeepsLimiter, SpacingCorrect, PTL

(* Only a push that succeeded holds a device back, at the real server.       *)
THEOREM ServerNoPhantom == ServerSpec => []NoPhantomLimit
BY ServerKeepsLimiter, NoPhantomCorrect, PTL

(* cleanupPushRateLimit frees no device too early, at the real server.       *)
THEOREM ServerForget ==
  ASSUME Limit <= Retention
  PROVE  ServerSpec => ForgetOnlyUnlimited
BY ServerKeepsLimiter, ForgetCorrect, PTL

-----------------------------------------------------------------------------
(* Callers and their posts                                                   *)

LEMMA CallersInit == ServerInit => CallersInv
<1> SUFFICES ASSUME ServerInit PROVE CallersInv
  OBVIOUS
<1>1. Len(posts) = 0 /\ \A p \in Callers : pc[p] = "idle"
  BY DEF ServerInit, Init
<1> QED
  BY <1>1 DEF CallersInv, Ids

(* A post that is not waited for any more leaves its caller idle.            *)
LEMMA Released ==
  ASSUME TypeOK, PostsInv, CallersInv, NEW i \in Ids, Revises(i),
         posts[i].client = "waits", posts'[i].client # "waits",
         IF IsPush(i) THEN pc' = [pc EXCEPT ![posts[i].by] = "idle"] ELSE pc' = pc,
         token' = token
  PROVE  CallersInv'
<1>1. /\ Ids' = Ids
      /\ \A j \in Ids : j # i => posts'[j] = posts[j]
      /\ posts'[i].by = posts[i].by /\ posts'[i].ask = posts[i].ask
  BY DEF Revises, Ids
<1>2. \A j \in Ids : posts'[j].client = "waits" =>
         j # i /\ posts'[j] = posts[j] /\ posts[j].by # posts[i].by
  BY <1>1 DEF CallersInv
<1>3. \A p \in Callers : pc'[p] = IF p = posts[i].by THEN "idle" ELSE pc[p]
  BY PushOfCaller DEF TypeOK
<1>4. \A j, k \in Ids : (posts'[j].by = posts'[k].by /\ posts'[j].client = "waits"
                            /\ posts'[k].client = "waits") => j = k
  BY <1>2 DEF CallersInv
<1>5. ASSUME NEW j \in Ids, posts'[j].client = "waits", posts'[j].by \in Callers
      PROVE  WaitingFor(posts[j].by, j)' /\ posts'[j].by = posts[j].by
  <2>1. j # i /\ posts'[j] = posts[j] /\ posts[j].by # posts[i].by
    BY <1>2, <1>5
  <2>2. WaitingFor(posts[j].by, j) /\ posts[j].by \in Callers
    BY <1>5, <2>1 DEF CallersInv
  <2>3. pc'[posts[j].by] = pc[posts[j].by]
    BY <1>3, <2>1, <2>2
  <2> QED
    BY <2>1, <2>2, <2>3 DEF WaitingFor, PushAsk
<1>6. ASSUME NEW p \in Callers, pc'[p] # "idle"
      PROVE  \E j \in Ids : posts'[j].client = "waits" /\ posts'[j].by = p
  <2>1. p # posts[i].by /\ pc[p] # "idle"
    BY <1>3, <1>6
  <2>2. PICK j \in Ids : posts[j].client = "waits" /\ posts[j].by = p
    BY <2>1 DEF CallersInv
  <2> QED
    BY <1>1, <2>1, <2>2
<1> QED
  BY <1>1, <1>4, <1>5, <1>6 DEF CallersInv

(* A new post of a client that waits for none.                               *)
LEMMA Joined ==
  ASSUME TypeOK, PostsInv, CallersInv, NEW a \in Callers \cup Apps, NEW q \in Ask,
         Send(a, q), \A j \in Ids : posts[j].client = "waits" => posts[j].by # a,
         \A p \in Callers : p # a => pc'[p] = pc[p] /\ token'[p] = token[p],
         a \in Callers => pc'[a] = "sending" /\ q = PushAsk(token'[a])
  PROVE  CallersInv'
<1>1. PICK n \in Nat : n = Len(posts) + 1
  BY LenProperties DEF PostsInv
<1>2. /\ \A j \in Ids : posts'[j] = posts[j] /\ j # n
      /\ posts'[n].by = a /\ posts'[n].ask = q /\ posts'[n].client = "waits"
      /\ posts'[n].taken = 0
      /\ n \in Ids' /\ \A j \in Ids' : j \in Ids \/ j = n
      /\ \A j \in Ids : j \in Ids'
  BY <1>1, SendAppends DEF Ids
<1>3. ASSUME NEW j \in Ids', NEW k \in Ids', posts'[j].by = posts'[k].by,
             posts'[j].client = "waits", posts'[k].client = "waits"
      PROVE  j = k
  <2>1. CASE j \in Ids /\ k \in Ids
    BY <1>2, <1>3, <2>1 DEF CallersInv
  <2>2. CASE j = n \/ k = n
    BY <1>2, <1>3, <2>2
  <2> QED
    BY <1>2, <2>1, <2>2
<1>4. ASSUME NEW j \in Ids', posts'[j].client = "waits", posts'[j].by \in Callers
      PROVE  /\ pc'[posts'[j].by] = IF posts'[j].taken > 0 THEN "delivered" ELSE "sending"
             /\ posts'[j].ask = PushAsk(token'[posts'[j].by])
  <2>1. CASE j = n
    BY <1>2, <1>4, <2>1
  <2>2. CASE j \in Ids
    <3>1. posts'[j] = posts[j] /\ posts[j].by # a
      BY <1>2, <1>4, <2>2
    <3>2. WaitingFor(posts[j].by, j)
      BY <1>4, <2>2, <3>1 DEF CallersInv
    <3> QED
      BY <1>4, <3>1, <3>2 DEF WaitingFor
  <2> QED
    BY <1>2, <2>1, <2>2
<1>5. ASSUME NEW p \in Callers, pc'[p] # "idle"
      PROVE  \E j \in Ids' : posts'[j].client = "waits" /\ posts'[j].by = p
  <2>1. CASE p = a
    BY <1>2, <2>1
  <2>2. CASE p # a
    <3>1. PICK j \in Ids : posts[j].client = "waits" /\ posts[j].by = p
      BY <1>5, <2>2 DEF CallersInv
    <3> QED
      BY <1>2, <3>1
  <2> QED
    BY <2>1, <2>2
<1>6. \A j \in Ids' : (posts'[j].client = "waits" /\ posts'[j].by \in Callers)
                        => WaitingFor(posts[j].by, j)'
  BY <1>4 DEF WaitingFor, PushAsk
<1> QED
  BY <1>3, <1>5, <1>6 DEF CallersInv

(* What the handlers, the services and the process do moves no caller, but   *)
(* for a delivery to one that waits.                                         *)
LEMMA Unmoved ==
  ASSUME PostsInv, CallersInv, Len(posts') = Len(posts),
         \A j \in Ids : /\ posts'[j].by = posts[j].by /\ posts'[j].ask = posts[j].ask
                        /\ posts'[j].client = posts[j].client
                        /\ (posts[j].client = "waits" /\ posts[j].by \in Callers)
                             => posts'[j].taken = posts[j].taken,
         UNCHANGED <<pc, token>>
  PROVE  CallersInv'
<1>1. Ids' = Ids
  BY DEF Ids
<1>2. ASSUME NEW j \in Ids, posts'[j].client = "waits", posts'[j].by \in Callers
      PROVE  WaitingFor(posts[j].by, j)'
  BY <1>2 DEF CallersInv, WaitingFor, PushAsk
<1> QED
  BY <1>1, <1>2 DEF CallersInv

LEMMA Served ==
  ASSUME TypeOK, PostsInv, CallersInv, NEW i \in Ids, Revises(i),
         posts[i].client = "waits", posts'[i].client = "waits", posts'[i].taken > 0,
         posts[i].by \in Callers, pc' = [pc EXCEPT ![posts[i].by] = "delivered"],
         token' = token
  PROVE  CallersInv'
<1>1. /\ Ids' = Ids
      /\ \A j \in Ids : j # i => posts'[j] = posts[j]
      /\ posts'[i].by = posts[i].by /\ posts'[i].ask = posts[i].ask
  BY DEF Revises, Ids
<1>2. \A p \in Callers : pc'[p] = IF p = posts[i].by THEN "delivered" ELSE pc[p]
  BY DEF TypeOK
<1>3. ASSUME NEW j \in Ids, posts'[j].client = "waits", posts'[j].by \in Callers
      PROVE  WaitingFor(posts[j].by, j)'
  <2>1. WaitingFor(posts[j].by, j) /\ posts'[j].by = posts[j].by
    BY <1>1, <1>3 DEF CallersInv
  <2>2. CASE j = i
    BY <1>1, <1>2, <2>1, <2>2 DEF WaitingFor, PushAsk
  <2>3. CASE j # i
    <3>1. posts[j].by # posts[i].by /\ posts'[j] = posts[j]
      BY <1>1, <1>3, <2>3 DEF CallersInv
    <3> QED
      BY <1>2, <1>3, <2>1, <3>1 DEF WaitingFor, PushAsk
  <2> QED
    BY <2>2, <2>3
<1>4. \A p \in Callers : pc'[p] # "idle" => pc[p] # "idle" \/ p = posts[i].by
  BY <1>2
<1> QED
  BY <1>1, <1>3, <1>4 DEF CallersInv

LEMMA LimiterMoves ==
  ASSUME TypeOK, NEW p \in Callers
  PROVE  /\ (Record(p) \/ Refused(p) \/ TimeOut(p) \/ LoseAnswer(p))
              => pc' = [pc EXCEPT ![p] = "idle"] /\ token' = token
         /\ Deliver(p) => pc' = [pc EXCEPT ![p] = "delivered"] /\ token' = token
         /\ \A d \in Devices : DeliverLate(d) => UNCHANGED <<pc, token>>
         /\ UNCHANGED vars => UNCHANGED <<pc, token>>
BY DEF Record, Refused, TimeOut, LoseAnswer, Deliver, DeliverLate, callVars, vars

LEMMA CallersStep ==
  TypeOK /\ PostsInv /\ CallersInv /\ [ServerNext]_allVars => CallersInv'
<1> SUFFICES ASSUME TypeOK, PostsInv, CallersInv, [ServerNext]_allVars PROVE CallersInv'
  OBVIOUS
<1>1. ASSUME NEW p \in Callers, NEW d \in Devices, Push(p, d) PROVE CallersInv'
  <2>1. /\ pc[p] = "idle" /\ Send(p, PushAsk(d))
        /\ pc' = [pc EXCEPT ![p] = "sending"] /\ token' = [token EXCEPT ![p] = d]
    BY <1>1 DEF Push, CheckLimit
  <2>2. /\ \A x \in Callers : x # p => pc'[x] = pc[x] /\ token'[x] = token[x]
        /\ pc'[p] = "sending" /\ token'[p] = d
    BY <2>1 DEF TypeOK
  <2>3. \A j \in Ids : posts[j].client = "waits" => posts[j].by # p
    BY <2>1 DEF CallersInv, WaitingFor
  <2>4. PushAsk(d) \in Ask /\ p \in Callers \cup Apps
    BY DEF PushAsk, Ask, Kinds
  <2> HIDE DEF PushAsk
  <2> QED
    BY <2>1, <2>2, <2>3, <2>4, Joined
<1>2. ASSUME NEW a \in Apps, NEW q \in Asks, Post(a, q) PROVE CallersInv'
  <2>1. a \in Callers \cup Apps /\ a \notin Callers /\ q \in Ask
    BY ServerAssumption
  <2>2. /\ Send(a, q) /\ UNCHANGED <<pc, token>>
        /\ \A j \in Ids : posts[j].client = "waits" => posts[j].by # a
    BY <1>2 DEF Post, PostOf, Waits, vars, callVars
  <2> QED
    BY <2>1, <2>2, Joined
<1>3. ASSUME NEW i \in Ids, Hear(i) \/ GiveUp(i) PROVE CallersInv'
  <2>1. PICK c \in {"heard", "gone"} : posts' = [posts EXCEPT ![i].client = c]
    BY <1>3 DEF Hear, GiveUp
  <2>2. posts[i].client = "waits" /\ Revises(i) /\ posts'[i].client # "waits"
    BY <1>3, <2>1, ClientRevises DEF Hear, GiveUp, Waits
  <2>3. CASE IsPush(i)
    <3>1. posts[i].by \in Callers
      BY <2>3, PushOfCaller
    <3>2. \/ Record(posts[i].by) \/ Refused(posts[i].by)
          \/ TimeOut(posts[i].by) \/ LoseAnswer(posts[i].by)
      BY <1>3, <2>3 DEF Hear, GiveUp
    <3> QED
      BY <2>2, <2>3, <3>1, <3>2, LimiterMoves, Released
  <2>4. CASE ~IsPush(i)
    <3>1. UNCHANGED <<pc, token>>
      BY <1>3, <2>4 DEF Hear, GiveUp, vars, callVars
    <3> QED
      BY <2>2, <2>4, <3>1, Released
  <2> QED
    BY <2>3, <2>4
<1>4. ASSUME NEW i \in Ids, Take(i) PROVE CallersInv'
  <2>1. PICK refused \in SUBSET Tokens :
          posts' = [posts EXCEPT ![i].stage = IF @ = "cut" THEN "cut" ELSE "took",
                                 ![i].taken = Turn, ![i].left = refused]
    BY <1>4 DEF Take
  <2>2. /\ Revises(i) /\ posts'[i].client = posts[i].client
        /\ posts'[i].taken = Turn /\ posts'[i].taken > 0
    BY <2>1, TakeRevises, TurnTyped
  <2>3. CASE posts[i].client = "waits" /\ IsPush(i)
    <3>1. posts[i].by \in Callers
      BY <2>3, PushOfCaller
    <3>2. Deliver(posts[i].by)
      BY <1>4, <2>3 DEF Take
    <3> QED
      BY <2>2, <2>3, <3>1, <3>2, LimiterMoves, Served
  <2>4. CASE ~(posts[i].client = "waits" /\ IsPush(i))
    <3>1. UNCHANGED <<pc, token>>
      <4>1. IsPush(i) => Device(i) \in Devices
        BY PushOfCaller, DeviceOf
      <4> QED
        BY <1>4, <2>4, <4>1 DEF Take, DeliverLate, vars, callVars
    <3>2. posts[i].client = "waits" => posts[i].by \notin Callers
      BY <2>4, PushOfCaller
    <3> QED
      BY <2>2, <3>1, <3>2, Unmoved DEF Revises
  <2> QED
    BY <2>3, <2>4
<1>5. ASSUME NEW i \in Ids, Refuse(i) \/ Call(i) \/ Answer(i) \/ ServiceFails(i)
      PROVE  CallersInv'
  <2>1. PICK st \in {"wire", "called", "took", "done", "failed", "cut"} : To(i, st)
    BY <1>5 DEF Refuse, Call, Answer, ServiceFails
  <2>2. /\ Revises(i) /\ posts'[i].client = posts[i].client
        /\ posts'[i].taken = posts[i].taken /\ UNCHANGED <<pc, token>>
    BY <2>1, ToRevises DEF vars, callVars
  <2> QED
    BY <2>2, Unmoved DEF Revises
<1>6. CASE Exit
  <2>1. UNCHANGED <<pc, token>>
    BY <1>6 DEF Exit, vars, callVars
  <2> QED
    BY <1>6, <2>1, ExitCuts, Unmoved
<1>7. CASE UNCHANGED <<posts, pc, token>>
  BY <1>7, Unmoved
<1>8. \A i : (Hear(i) \/ GiveUp(i) \/ ServerStep(i)) => i \in Ids
  BY DEF Hear, GiveUp, Waits, ServerStep, Refuse, Call, Take, Answer, ServiceFails
<1>9. ASSUME \/ Signal \/ Deadline \/ UNCHANGED allVars
             \/ (\E s \in Shards : CleanShard(s)) /\ UNCHANGED serverVars
             \/ Tick /\ UNCHANGED serverVars
      PROVE  UNCHANGED <<posts, pc, token>>
  BY <1>9 DEF Signal, Deadline, CleanShard, Tick, serverVars, allVars, vars, callVars
<1> QED
  BY <1>1, <1>2, <1>3, <1>4, <1>5, <1>6, <1>7, <1>8, <1>9
  DEF ServerNext, Process, ServerStep

-----------------------------------------------------------------------------
(* The process and what it has served                                        *)

LEMMA ProcessInit == ServerInit => ProcessInv /\ ServedInv
<1> SUFFICES ASSUME ServerInit PROVE ProcessInv /\ ServedInv
  OBVIOUS
<1>1. Len(posts) = 0
  BY DEF ServerInit
<1> QED
  BY <1>1 DEF ServerInit, NewAPNSClient, NewFCMClient, ProcessInv, ServedInv, Ids

LEMMA ProcessStep ==
  PostsInv /\ ProcessInv /\ ServedInv /\ [ServerNext]_allVars => ProcessInv' /\ ServedInv'
<1> SUFFICES ASSUME PostsInv, ProcessInv, ServedInv, [ServerNext]_allVars
             PROVE  ProcessInv' /\ ServedInv'
  OBVIOUS
<1>1. ASSUME NEW i \in Ids, Revises(i),
             members' \in [Topics -> SUBSET Tokens],
             UNCHANGED <<proc, listening, apns, fcm>>,
             posts'[i].stage \in {"called", "took"} => proc # "gone",
             posts'[i].stage \in {"took", "done"} => posts'[i].taken > 0,
             posts'[i].client = "heard" => posts'[i].taken > 0 \/ posts'[i].stage = "failed"
      PROVE  ProcessInv' /\ ServedInv'
  <2>1. Ids' = Ids /\ \A j \in Ids : j # i => posts'[j] = posts[j]
    BY <1>1 DEF Revises, Ids
  <2> QED
    BY <1>1, <2>1 DEF ProcessInv, ServedInv
<1>2. ASSUME NEW a \in Callers \cup Apps, NEW q \in Ask, Send(a, q)
      PROVE  ProcessInv' /\ ServedInv'
  <2>1. PICK n \in Nat : n = Len(posts) + 1
    BY LenProperties DEF PostsInv
  <2>2. /\ \A j \in Ids : posts'[j] = posts[j]
        /\ posts'[n].stage \in {"wire", "failed"} /\ posts'[n].client = "waits"
        /\ \A j \in Ids' : j \in Ids \/ j = n
        /\ UNCHANGED <<members, proc, listening, apns, fcm>>
    BY <1>2, <2>1, SendAppends DEF Ids, Send
  <2> QED
    BY <2>2 DEF ProcessInv, ServedInv
<1>3. ASSUME NEW p \in Callers, NEW d \in Devices, Push(p, d)
      PROVE  ProcessInv' /\ ServedInv'
  <2>1. PushAsk(d) \in Ask /\ Send(p, PushAsk(d)) /\ p \in Callers \cup Apps
    BY <1>3 DEF PushAsk, Ask, Kinds, Push
  <2> QED
    BY <1>2, <2>1
<1>4. ASSUME NEW a \in Apps, NEW q \in Asks, Post(a, q) PROVE ProcessInv' /\ ServedInv'
  <2>1. a \in Callers \cup Apps /\ q \in Ask /\ Send(a, q)
    BY <1>4, ServerAssumption DEF Post
  <2> QED
    BY <1>2, <2>1
<1>5. ASSUME NEW i \in Ids, Hear(i) \/ GiveUp(i) PROVE ProcessInv' /\ ServedInv'
  <2>1. PICK c \in {"heard", "gone"} : posts' = [posts EXCEPT ![i].client = c]
    BY <1>5 DEF Hear, GiveUp
  <2>2. /\ Revises(i) /\ posts'[i].stage = posts[i].stage
        /\ posts'[i].taken = posts[i].taken
        /\ posts'[i].client = c
        /\ UNCHANGED <<members, proc, listening, apns, fcm>>
    BY <1>5, <2>1, ClientRevises DEF Hear, GiveUp
  <2>3. c = "heard" => posts[i].stage \in {"done", "failed"} \/ posts[i].taken # 0
    <3>1. CASE Hear(i)
      BY <2>2, <3>1, ClientRevises DEF Hear
    <3>2. CASE GiveUp(i)
      BY <2>2, <3>2, ClientRevises DEF GiveUp
    <3> QED
      BY <1>5, <3>1, <3>2
  <2>4. c = "heard" => posts[i].taken > 0 \/ posts[i].stage = "failed"
    BY <2>3, PostTyped DEF ServedInv
  <2> QED
    BY <1>1, <2>2, <2>4 DEF ProcessInv, ServedInv
<1>6. ASSUME NEW i \in Ids, Take(i) PROVE ProcessInv' /\ ServedInv'
  <2>1. PICK refused \in SUBSET Tokens :
          /\ posts' = [posts EXCEPT ![i].stage = IF @ = "cut" THEN "cut" ELSE "took",
                                    ![i].taken = Turn, ![i].left = refused]
          /\ Subscribe(posts[i].ask, refused)
    BY <1>6 DEF Take
  <2>2. /\ Revises(i) /\ posts'[i].taken > 0
        /\ posts'[i].stage = IF posts[i].stage = "cut" THEN "cut" ELSE "took"
    BY <2>1, TakeRevises, TurnTyped
  <2>3. members' \in [Topics -> SUBSET Tokens]
    <3> DEFINE q == posts[i].ask
               t == Topic(q)
               S == Named(q) \ refused
    <3>1. t \in Topics
      <4>1. q.topic \in Topics \cup {NoTopic}
        BY PostTyped DEF Ask
      <4> QED
        BY <4>1, ServerAssumption DEF Topic
    <3>2. CASE q.kind = "subscribe"
      <4>1. members' = [members EXCEPT ![t] = @ \cup S]
        BY <2>1, <3>2 DEF Subscribe
      <4>2. S \subseteq Tokens
        <5>1. posts[i].by \notin Callers
          BY <3>2, PushOfCaller DEF IsPush
        <5>2. q \in Asks
          BY <5>1 DEF PostsInv, Shape
        <5> QED
          BY <5>2, ServerAssumption DEF Named
      <4> HIDE DEF t, S
      <4> QED
        BY <3>1, <4>1, <4>2 DEF ProcessInv
    <3>3. CASE q.kind = "unsubscribe"
      <4>1. members' = [members EXCEPT ![t] = @ \ S]
        BY <2>1, <3>3 DEF Subscribe
      <4> HIDE DEF t, S
      <4> QED
        BY <3>1, <4>1 DEF ProcessInv
    <3>4. CASE q.kind \notin {"subscribe", "unsubscribe"}
      BY <2>1, <3>4 DEF Subscribe, ProcessInv
    <3> QED
      BY <3>2, <3>3, <3>4
  <2>4. posts[i].stage \in {"called", "cut"} /\ UNCHANGED <<proc, listening, apns, fcm>>
    BY <1>6 DEF Take
  <2>5. posts'[i].stage \in {"called", "took"} => proc # "gone"
    BY <2>2, <2>4 DEF ProcessInv
  <2> QED
    BY <1>1, <2>2, <2>3, <2>4, <2>5
<1>7. ASSUME NEW i \in Ids, Refuse(i) \/ Call(i) \/ Answer(i) \/ ServiceFails(i)
      PROVE  ProcessInv' /\ ServedInv'
  <2>1. PICK st \in {"called", "done", "failed"} :
          /\ To(i, st)
          /\ st = "called" => proc # "gone"
          /\ st = "done" => posts[i].stage = "took"
    BY <1>7 DEF Refuse, Call, Answer, ServiceFails
  <2>2. /\ Revises(i) /\ posts'[i].stage = st /\ posts'[i].taken = posts[i].taken
        /\ posts'[i].client = posts[i].client
        /\ UNCHANGED <<members, proc, listening, apns, fcm>>
    BY <2>1, ToRevises
  <2>3. posts[i].stage # "failed"
    BY <1>7 DEF Refuse, Call, Answer, ServiceFails
  <2> QED
    BY <1>1, <2>1, <2>2, <2>3 DEF ProcessInv, ServedInv
<1>8. CASE Exit
  <2>1. /\ Ids' = Ids
        /\ \A j \in Ids :
             /\ posts'[j].taken = posts[j].taken /\ posts'[j].client = posts[j].client
             /\ posts'[j].stage = IF j \in InFlight THEN "cut" ELSE posts[j].stage
    BY <1>8, ExitCuts DEF Ids
  <2>2. \A j \in Ids : posts'[j].stage \notin {"called", "took"}
    BY <2>1 DEF InFlight
  <2>3. proc' = "gone" /\ UNCHANGED <<members, listening, apns, fcm>> /\ proc # "running"
    BY <1>8 DEF Exit
  <2> QED
    BY <2>1, <2>2, <2>3 DEF ProcessInv, ServedInv, InFlight
<1>9. CASE Signal \/ Deadline
  <2>1. /\ Ids' = Ids /\ posts' = posts
        /\ UNCHANGED <<members, apns, fcm>>
        /\ proc' \in {"draining", "late"} /\ proc # "gone"
    BY <1>9 DEF Signal, Deadline, Ids
  <2>2. listening' = FALSE \/ (listening' = listening /\ proc # "running")
    BY <1>9 DEF Signal, Deadline
  <2>3. listening' = FALSE
    BY <2>2 DEF ProcessInv
  <2> QED
    BY <2>1, <2>3 DEF ProcessInv, ServedInv
<1>10. CASE UNCHANGED serverVars
  BY <1>10 DEF serverVars, ProcessInv, ServedInv, Ids
<1>11. \A i : (Hear(i) \/ GiveUp(i) \/ ServerStep(i)) => i \in Ids
  BY DEF Hear, GiveUp, Waits, ServerStep, Refuse, Call, Take, Answer, ServiceFails
<1> QED
  BY <1>3, <1>4, <1>5, <1>6, <1>7, <1>8, <1>9, <1>10, <1>11
  DEF ServerNext, Process, ServerStep, allVars

LEMMA ServerStarts == ServerInit => CallInv /\ ServerInv
<1>1. ServerInit => Init
  BY DEF ServerInit
<1> QED
  BY <1>1, CallInit, PostsInit, CallersInit, ProcessInit DEF ServerInv, CallInv

LEMMA ServerGoesOn == CallInv /\ ServerInv /\ [ServerNext]_allVars => CallInv' /\ ServerInv'
<1>1. CallInv => TypeOK
  BY DEF CallInv
<1> QED
  BY <1>1, CallStep, ServerStepIsLimiterStep, PostsStep, CallersStep, ProcessStep
  DEF ServerInv, CallInv

(* Type correctness of the push server and its callers.                      *)
THEOREM ServerTypeCorrect == ServerSpec => []ServerTypeOK
<1>1. ServerInv => ServerTypeOK
  <2> SUFFICES ASSUME ServerInv PROVE ServerTypeOK
    OBVIOUS
  <2>1. \A i \in Ids : posts[i].ask.kind = "push" <=> posts[i].by \in Callers
    BY PushOfCaller DEF ServerInv, IsPush
  <2> QED
    BY <2>1 DEF ServerInv, ServerTypeOK, PostsInv, ProcessInv, CallersInv
<1> QED
  BY ServerStarts, ServerGoesOn, <1>1, PTL DEF ServerSpec

(* 200 means done, and a caller that waits stands where its post does.       *)
THEOREM AnswersCorrect == ServerSpec => []AnswersAreTrue
<1>1. ServerInv => AnswersAreTrue
  <2> SUFFICES ASSUME ServerInv PROVE AnswersAreTrue
    OBVIOUS
  <2>1. \A i \in Ids : posts[i].stage = "done" => posts[i].taken > 0
    BY DEF ServerInv, ServedInv
  <2>2. ASSUME NEW p \in Callers, NEW i \in PostOf(p)
        PROVE  pc[p] = IF posts[i].taken > 0 THEN "delivered" ELSE "sending"
    BY <2>2 DEF ServerInv, CallersInv, PostOf, Waits, WaitingFor
  <2>3. ASSUME NEW p \in Callers PROVE pc[p] # "idle" => PostOf(p) # {}
    BY <2>3 DEF ServerInv, CallersInv, PostOf, Waits
  <2>4. ASSUME NEW p \in Callers PROVE pc[p] = "idle" <=> PostOf(p) = {}
    BY <2>2, <2>3
  <2> QED
    BY <2>1, <2>2, <2>4 DEF AnswersAreTrue
<1> QED
  BY ServerStarts, ServerGoesOn, <1>1, PTL DEF ServerSpec

-----------------------------------------------------------------------------
(* Late deliveries                                                           *)

(* What a caller that gave up may still cause is what it left unfinished:    *)
(* the limiter's pending deliveries are the abandoned posts that were not    *)
(* taken, one each.  The invariant behind LateUnhindered.                    *)
Abandoned(d) ==
  {i \in Ids : IsPush(i) /\ d \in posts[i].ask.tokens
                 /\ posts[i].client = "gone" /\ posts[i].taken = 0}

LateRequestsCounted == \A d \in Devices : pending[d] = Cardinality(Abandoned(d))

LEMMA AbandonedFinite ==
  ASSUME PostsInv, NEW d \in Devices
  PROVE  IsFiniteSet(Abandoned(d)) /\ Cardinality(Abandoned(d)) \in Nat
<1>1. Len(posts) \in Nat
  BY LenProperties DEF PostsInv
<1>2. IsFiniteSet(1 .. Len(posts))
  BY <1>1, FS_Interval
<1>3. Abandoned(d) \subseteq 1 .. Len(posts)
  BY DEF Abandoned, Ids
<1>4. IsFiniteSet(Abandoned(d))
  BY <1>2, <1>3, FS_Subset
<1> QED
  BY <1>4, FS_CardinalityType

LEMMA LateInit == ServerInit => LateRequestsCounted
<1> SUFFICES ASSUME ServerInit, NEW d \in Devices
             PROVE  pending[d] = Cardinality(Abandoned(d))
  BY DEF LateRequestsCounted
<1>1. Len(posts) = 0 /\ pending[d] = 0
  BY DEF ServerInit, Init
<1>2. Abandoned(d) = {}
  BY <1>1 DEF Abandoned, Ids
<1> QED
  BY <1>1, <1>2, FS_EmptySet

(* A step that abandons no post and takes none that is abandoned.            *)
LEMMA NoneLeft ==
  ASSUME LateRequestsCounted, pending' = pending,
         \A j : j \in Ids' /\ posts'[j].client = "gone" /\ posts'[j].taken = 0 /\ IsPush(j)'
                 => j \in Ids /\ posts[j].client = "gone" /\ posts[j].taken = 0,
         \A j \in Ids : (posts[j].client = "gone" /\ posts[j].taken = 0 /\ IsPush(j))
                          => /\ j \in Ids' /\ posts'[j].client = "gone"
                             /\ posts'[j].taken = 0,
         \A j \in Ids : posts'[j].ask = posts[j].ask
  PROVE  LateRequestsCounted'
<1> SUFFICES ASSUME NEW d \in Devices PROVE Abandoned(d)' = Abandoned(d)
  BY DEF LateRequestsCounted
<1>1. \A j \in Ids : IsPush(j)' <=> IsPush(j)
  BY DEF IsPush
<1> QED
  BY <1>1 DEF Abandoned

LEMMA OneLeft ==
  ASSUME PostsInv, LateRequestsCounted, NEW i \in Ids, Revises(i), NEW d \in Devices,
         posts[i].ask = PushAsk(d), posts[i].client = "waits",
         posts'[i].client = "gone", posts'[i].taken = 0,
         pending \in [Devices -> Nat], pending' = [pending EXCEPT ![d] = @ + 1]
  PROVE  LateRequestsCounted'
<1> SUFFICES ASSUME NEW x \in Devices PROVE pending'[x] = Cardinality(Abandoned(x)')
  BY DEF LateRequestsCounted
<1>1. /\ Ids' = Ids /\ posts'[i].ask = PushAsk(d)
      /\ \A j \in Ids : j # i => posts'[j] = posts[j]
  BY DEF Revises, Ids
<1>2. PushAsk(d).kind = "push" /\ PushAsk(d).tokens = {d}
  BY DEF PushAsk
<1>3. i \notin Abandoned(x)
  BY DEF Abandoned
<1>4. Abandoned(x)' = IF x = d THEN Abandoned(x) \cup {i} ELSE Abandoned(x)
  BY <1>1, <1>2 DEF Abandoned, IsPush
<1>5. CASE x = d
  <2>1. Cardinality(Abandoned(d) \cup {i}) = Cardinality(Abandoned(d)) + 1
    BY <1>3, <1>5, AbandonedFinite, FS_AddElement
  <2> QED
    BY <1>4, <1>5, <2>1 DEF LateRequestsCounted
<1>6. CASE x # d
  BY <1>4, <1>6 DEF LateRequestsCounted
<1> QED
  BY <1>5, <1>6

LEMMA OneDone ==
  ASSUME PostsInv, LateRequestsCounted, NEW i \in Ids, Revises(i), NEW d \in Devices,
         posts[i].ask = PushAsk(d), posts[i].client = "gone", posts[i].taken = 0,
         posts'[i].taken > 0, posts'[i].taken \in Nat,
         pending \in [Devices -> Nat], pending' = [pending EXCEPT ![d] = @ - 1]
  PROVE  LateRequestsCounted'
<1> SUFFICES ASSUME NEW x \in Devices PROVE pending'[x] = Cardinality(Abandoned(x)')
  BY DEF LateRequestsCounted
<1>1. /\ Ids' = Ids /\ posts'[i].ask = PushAsk(d)
      /\ \A j \in Ids : j # i => posts'[j] = posts[j]
  BY DEF Revises, Ids
<1>2. PushAsk(d).kind = "push" /\ PushAsk(d).tokens = {d}
  BY DEF PushAsk
<1>3. i \in Abandoned(x) <=> x = d
  BY <1>2 DEF Abandoned, IsPush
<1>4. posts'[i].taken # 0
  OBVIOUS
<1>5. Abandoned(x)' = IF x = d THEN Abandoned(x) \ {i} ELSE Abandoned(x)
  BY <1>1, <1>2, <1>3, <1>4 DEF Abandoned, IsPush
<1>6. CASE x = d
  BY <1>3, <1>5, <1>6, AbandonedFinite, FS_RemoveElement DEF LateRequestsCounted
<1>7. CASE x # d
  BY <1>5, <1>7 DEF LateRequestsCounted
<1> QED
  BY <1>6, <1>7

LEMMA LateStep ==
  TypeOK /\ ServerInv /\ LateRequestsCounted /\ [ServerNext]_allVars => LateRequestsCounted'
<1> SUFFICES ASSUME TypeOK, PostsInv, CallersInv, ServedInv, LateRequestsCounted,
                    [ServerNext]_allVars
             PROVE  LateRequestsCounted'
  BY DEF ServerInv
<1>0. pending \in [Devices -> Nat]
  BY DEF TypeOK
<1>1. ASSUME NEW a \in Callers \cup Apps, NEW q \in Ask, Send(a, q), pending' = pending
      PROVE  LateRequestsCounted'
  <2>1. PICK n \in Nat : n = Len(posts) + 1
    BY LenProperties DEF PostsInv
  <2>2. /\ \A j \in Ids : posts'[j] = posts[j] /\ j \in Ids'
        /\ posts'[n].client = "waits"
        /\ \A j \in Ids' : j \in Ids \/ j = n
    BY <1>1, <2>1, SendAppends DEF Ids
  <2> QED
    BY <1>1, <2>2, NoneLeft DEF IsPush
<1>2. ASSUME NEW p \in Callers, NEW d \in Devices, Push(p, d) PROVE LateRequestsCounted'
  <2>1. PushAsk(d) \in Ask /\ Send(p, PushAsk(d)) /\ p \in Callers \cup Apps /\ pending' = pending
    BY <1>2 DEF PushAsk, Ask, Kinds, Push, CheckLimit
  <2> QED
    BY <1>1, <2>1
<1>3. ASSUME NEW a \in Apps, NEW q \in Asks, Post(a, q) PROVE LateRequestsCounted'
  <2>1. a \in Callers \cup Apps /\ q \in Ask /\ Send(a, q) /\ pending' = pending
    BY <1>3, ServerAssumption DEF Post, vars
  <2> QED
    BY <1>1, <2>1
<1>4. ASSUME NEW i \in Ids, Revises(i), pending' = pending,
             (posts[i].client = "gone" /\ posts[i].taken = 0 /\ IsPush(i)) <=>
             (posts'[i].client = "gone" /\ posts'[i].taken = 0 /\ IsPush(i))
      PROVE  LateRequestsCounted'
  <2>1. /\ Ids' = Ids /\ \A j \in Ids : posts'[j].ask = posts[j].ask
        /\ \A j \in Ids : j # i => posts'[j] = posts[j]
    BY <1>4 DEF Revises, Ids
  <2>2. \A j \in Ids : IsPush(j)' <=> IsPush(j)
    BY <2>1 DEF IsPush
  <2> QED
    BY <1>4, <2>1, <2>2, NoneLeft
<1>5. ASSUME NEW i \in Ids, Hear(i) \/ GiveUp(i) PROVE LateRequestsCounted'
  <2>1. PICK c \in {"heard", "gone"} : posts' = [posts EXCEPT ![i].client = c]
    BY <1>5 DEF Hear, GiveUp
  <2>2. /\ posts[i].client = "waits" /\ Revises(i) /\ posts'[i].client = c
        /\ posts'[i].taken = posts[i].taken
    BY <1>5, <2>1, ClientRevises DEF Hear, GiveUp, Waits
  <2>3. posts[i].taken \in Nat
    BY PostTyped
  <2>4. CASE ~IsPush(i)
    <3>1. pending' = pending
      BY <1>5, <2>4 DEF Hear, GiveUp, vars
    <3> QED
      BY <1>4, <2>2, <2>4, <3>1
  <2>5. CASE IsPush(i) /\ TimeOut(posts[i].by)
    <3>1. posts[i].by \in Callers
      BY <2>5, PushOfCaller
    <3>2. posts[i].ask = PushAsk(token[posts[i].by]) /\ token[posts[i].by] \in Devices
      BY <2>2, <3>1 DEF CallersInv, WaitingFor, TypeOK
    <3>3. pending' = [pending EXCEPT ![token[posts[i].by]] = @ + 1]
      BY <2>5 DEF TimeOut
    <3>4. pc[posts[i].by] = "sending" /\ WaitingFor(posts[i].by, i)
      BY <2>2, <2>5, <3>1 DEF TimeOut, CallersInv
    <3>5. posts[i].taken = 0
      BY <2>3, <3>4 DEF WaitingFor
    <3>6. c = "gone"
      <4>1. CASE c = "heard"
        <5>1. Hear(i)
          BY <1>5, <2>2, <4>1, ClientRevises DEF GiveUp
        <5>2. posts[i].stage # "cut"
          BY <2>2, <3>5, <4>1, <5>1, ClientRevises DEF Hear
        <5>3. Record(posts[i].by) \/ Refused(posts[i].by)
          BY <2>3, <2>5, <3>5, <5>1, <5>2 DEF Hear
        <5>4. pending' = pending
          BY <5>3 DEF Record, Refused
        <5> QED
          BY <1>0, <3>2, <3>3, <5>4
      <4> QED
        BY <4>1
    <3> QED
      BY <1>0, <2>2, <3>2, <3>3, <3>5, <3>6, OneLeft
  <2>6. CASE IsPush(i) /\ ~TimeOut(posts[i].by)
    <3>1. /\ Record(posts[i].by) \/ Refused(posts[i].by) \/ LoseAnswer(posts[i].by)
          /\ c = "heard" \/ posts[i].taken > 0
      BY <1>5, <2>2, <2>6, ClientRevises DEF Hear, GiveUp
    <3>2. pending' = pending
      BY <3>1 DEF Record, Refused, LoseAnswer
    <3> QED
      BY <1>4, <2>2, <2>3, <3>1, <3>2
  <2> QED
    BY <2>4, <2>5, <2>6
<1>6. ASSUME NEW i \in Ids, Take(i) PROVE LateRequestsCounted'
  <2>1. PICK refused \in SUBSET Tokens :
          posts' = [posts EXCEPT ![i].stage = IF @ = "cut" THEN "cut" ELSE "took",
                                 ![i].taken = Turn, ![i].left = refused]
    BY <1>6 DEF Take
  <2>2. /\ Revises(i) /\ posts'[i].client = posts[i].client
        /\ posts'[i].taken > 0 /\ posts'[i].taken \in Nat
    BY <2>1, TakeRevises, TurnTyped
  <2>3. CASE ~IsPush(i) \/ posts[i].client = "waits"
    <3>1. pending' = pending
      BY <1>6, <2>3 DEF Take, Deliver, vars
    <3> QED
      BY <1>4, <2>2, <2>3, <3>1
  <2>4. CASE IsPush(i) /\ posts[i].client # "waits"
    <3>1. PICK d \in Devices : posts[i].ask = PushAsk(d)
      BY <2>4, PushOfCaller
    <3>2. DeliverLate(d) /\ posts[i].taken = 0 /\ posts[i].stage \in {"called", "cut"}
      BY <1>6, <2>4, <3>1, DeviceOf DEF Take
    <3>3. posts[i].client = "gone"
      BY <2>4, <3>2, PostTyped DEF ServedInv
    <3>4. pending' = [pending EXCEPT ![d] = @ - 1]
      BY <3>2 DEF DeliverLate
    <3> QED
      BY <1>0, <2>2, <3>1, <3>2, <3>3, <3>4, OneDone
  <2> QED
    BY <2>3, <2>4
<1>7. ASSUME NEW i \in Ids, Refuse(i) \/ Call(i) \/ Answer(i) \/ ServiceFails(i)
      PROVE  LateRequestsCounted'
  <2>1. PICK st \in {"wire", "called", "took", "done", "failed", "cut"} : To(i, st)
    BY <1>7 DEF Refuse, Call, Answer, ServiceFails
  <2>2. /\ Revises(i) /\ posts'[i].client = posts[i].client
        /\ posts'[i].taken = posts[i].taken /\ pending' = pending
    BY <2>1, ToRevises DEF vars
  <2> QED
    BY <1>4, <2>2
<1>8. CASE Exit
  <2>1. /\ Ids' = Ids /\ pending' = pending
        /\ \A j \in Ids : /\ posts'[j].client = posts[j].client
                         /\ posts'[j].taken = posts[j].taken /\ posts'[j].ask = posts[j].ask
    BY <1>8, ExitCuts DEF Ids, Exit, vars
  <2> QED
    BY <2>1, NoneLeft DEF IsPush
<1>9. CASE UNCHANGED <<posts, pending>>
  BY <1>9, NoneLeft DEF Ids, IsPush
<1>10. \A i : (Hear(i) \/ GiveUp(i) \/ ServerStep(i)) => i \in Ids
  BY DEF Hear, GiveUp, Waits, ServerStep, Refuse, Call, Take, Answer, ServiceFails
<1>11. ASSUME \/ Signal \/ Deadline \/ UNCHANGED allVars
              \/ (\E s \in Shards : CleanShard(s)) /\ UNCHANGED serverVars
              \/ Tick /\ UNCHANGED serverVars
       PROVE  UNCHANGED <<posts, pending>>
  BY <1>11 DEF Signal, Deadline, CleanShard, Tick, serverVars, allVars, vars
<1> QED
  BY <1>2, <1>3, <1>5, <1>6, <1>7, <1>8, <1>9, <1>10, <1>11
  DEF ServerNext, Process, ServerStep

(* Where Take joins a step of the service with one of the limiter, the       *)
(* limiter is ready for it: its caller is sending to the device of the post, *)
(* or has left a late delivery to that device behind.                        *)
ServiceUnhindered ==
  \A i \in Ids :
    (IsPush(i) /\ posts[i].stage \in {"called", "cut"} /\ posts[i].taken = 0) =>
      IF posts[i].client = "waits"
        THEN pc[posts[i].by] = "sending" /\ token[posts[i].by] = Device(i)
        ELSE pending[Device(i)] > 0

(* Nothing the limiter's side counts keeps APNs from delivering what the     *)
(* handler asked it for, in time, late, or after the push server has gone.   *)
THEOREM LateUnhindered == ServerSpec => []ServiceUnhindered
<1>1. ServerInv => TypeOK
  BY DEF ServerInv
<1>2. ServerInv /\ LateRequestsCounted => ServiceUnhindered
  <2> SUFFICES ASSUME TypeOK, PostsInv, CallersInv, ServedInv, LateRequestsCounted,
                      NEW i \in Ids, IsPush(i), posts[i].stage \in {"called", "cut"},
                      posts[i].taken = 0
               PROVE  IF posts[i].client = "waits"
                        THEN pc[posts[i].by] = "sending" /\ token[posts[i].by] = Device(i)
                        ELSE pending[Device(i)] > 0
    BY DEF ServerInv, ServiceUnhindered
  <2>1. PICK d \in Devices : posts[i].ask = PushAsk(d)
    BY PushOfCaller
  <2>2. Device(i) = d /\ PushAsk(d).tokens = {d} /\ posts[i].by \in Callers
    BY <2>1, DeviceOf, PushOfCaller DEF PushAsk
  <2>3. CASE posts[i].client = "waits"
    <3>1. WaitingFor(posts[i].by, i) /\ token[posts[i].by] \in Devices
      BY <2>2, <2>3 DEF CallersInv, TypeOK
    <3>2. PushAsk(token[posts[i].by]).tokens = {token[posts[i].by]}
      BY DEF PushAsk
    <3>3. token[posts[i].by] = d
      BY <2>1, <2>2, <3>1, <3>2 DEF WaitingFor
    <3> QED
      BY <2>2, <2>3, <3>1, <3>3 DEF WaitingFor
  <2>4. CASE posts[i].client # "waits"
    <3>1. posts[i].client = "gone"
      BY <2>4, PostTyped DEF ServedInv
    <3>2. i \in Abandoned(d)
      BY <2>1, <2>2, <3>1 DEF Abandoned
    <3>3. Cardinality(Abandoned(d)) # 0
      BY <3>2, AbandonedFinite, FS_EmptySet
    <3>4. pending[d] \in Nat /\ pending[d] # 0
      BY <3>3 DEF LateRequestsCounted, TypeOK
    <3> QED
      BY <2>2, <2>4, <3>4
  <2> QED
    BY <2>3, <2>4
<1> QED
  BY ServerStarts, ServerGoesOn, LateInit, LateStep, <1>1, <1>2, PTL DEF ServerSpec

-----------------------------------------------------------------------------
(* Topics                                                                    *)

(* Turns grow; what a service did for a token of a post still holds, or a    *)
(* later post of the opposite kind undid it.                                 *)
TurnsInv == \A i \in Ids : posts[i].taken < Turn

Undone(i, t) == \E j \in Ids : Opposite(i, j, t)

HonouredInv ==
  \A i \in Ids : posts[i].taken > 0 =>
    \A t \in (posts[i].ask.tokens \cap Tokens) \ posts[i].left :
      /\ posts[i].ask.kind = "subscribe"
           => t \in members[Topic(posts[i].ask)] \/ Undone(i, t)
      /\ posts[i].ask.kind = "unsubscribe"
           => t \notin members[Topic(posts[i].ask)] \/ Undone(i, t)

LEMMA TopicsInit == ServerInit => TurnsInv /\ HonouredInv
<1> SUFFICES ASSUME ServerInit PROVE TurnsInv /\ HonouredInv
  OBVIOUS
<1>1. Len(posts) = 0
  BY DEF ServerInit
<1> QED
  BY <1>1 DEF TurnsInv, HonouredInv, Ids

LEMMA NothingServed ==
  ASSUME PostsInv, TurnsInv, HonouredInv, members' = members,
         \A j \in Ids : /\ j \in Ids' /\ posts'[j].taken = posts[j].taken
                        /\ posts'[j].ask = posts[j].ask /\ posts'[j].left = posts[j].left,
         \A j \in Ids' : j \in Ids \/ posts'[j].taken = 0
  PROVE  TurnsInv' /\ HonouredInv'
<1>1. {j \in Ids' : posts'[j].taken > 0} = {j \in Ids : posts[j].taken > 0}
  OBVIOUS
<1>2. Turn' = Turn
  BY <1>1 DEF Turn
<1>3. TurnsInv'
  BY <1>2, TurnTyped DEF TurnsInv
<1>4. ASSUME NEW j \in Ids, NEW t, Undone(j, t) PROVE Undone(j, t)'
  BY <1>4 DEF Undone, Opposite
<1>5. ASSUME NEW j \in Ids', posts'[j].taken > 0,
             NEW t \in (posts'[j].ask.tokens \cap Tokens) \ posts'[j].left
      PROVE  /\ posts'[j].ask.kind = "subscribe"
                  => t \in members'[Topic(posts'[j].ask)] \/ Undone(j, t)'
             /\ posts'[j].ask.kind = "unsubscribe"
                  => t \notin members'[Topic(posts'[j].ask)] \/ Undone(j, t)'
  <2>1. /\ j \in Ids /\ posts[j].taken > 0
        /\ posts'[j].ask = posts[j].ask /\ posts'[j].left = posts[j].left
    BY <1>5
  <2>2. t \in (posts[j].ask.tokens \cap Tokens) \ posts[j].left
    BY <1>5, <2>1
  <2> QED
    BY <1>4, <2>1, <2>2 DEF HonouredInv
<1>6. HonouredInv'
  BY <1>5 DEF HonouredInv, Topic
<1> QED
  BY <1>3, <1>6

LEMMA SameTopic ==
  ASSUME NEW q, NEW r, Topic(q) = Topic(r)
  PROVE  q.topic = r.topic \/ {q.topic, r.topic} = {NoTopic, DefaultTopic}
BY DEF Topic

LEMMA OneServed ==
  ASSUME PostsInv, ProcessInv, TurnsInv, HonouredInv, NEW i \in Ids, Take(i)
  PROVE  TurnsInv' /\ HonouredInv'
<1>1. PICK refused \in SUBSET Tokens :
        /\ posts' = [posts EXCEPT ![i].stage = IF @ = "cut" THEN "cut" ELSE "took",
                                  ![i].taken = Turn, ![i].left = refused]
        /\ Subscribe(posts[i].ask, refused)
        /\ posts[i].taken = 0
  BY DEF Take
<1>2. /\ Ids' = Ids /\ \A j \in Ids : posts'[j].ask = posts[j].ask
      /\ \A j \in Ids : j # i => posts'[j] = posts[j]
      /\ posts'[i].taken = Turn /\ posts'[i].left = refused
  BY <1>1, TakeRevises DEF Revises, Ids
<1>3. /\ Turn \in Nat /\ Turn > 0
      /\ \A j \in Ids : posts[j].taken \in Nat /\ posts[j].taken < Turn
  BY TurnTyped, PostTyped DEF TurnsInv
<1>4. TurnsInv'
  <2> DEFINE S == {j \in Ids : posts[j].taken > 0}
  <2>1. {j \in Ids' : posts'[j].taken > 0} = S \cup {i}
    BY <1>1, <1>2, <1>3
  <2>2. i \notin S /\ S \subseteq 1 .. Len(posts)
    BY <1>1 DEF Ids
  <2>3. IsFiniteSet(1 .. Len(posts))
    <3>1. Len(posts) \in Nat
      BY LenProperties DEF PostsInv
    <3> QED
      BY <3>1, FS_Interval
  <2>4. Turn = 1 + Cardinality(S) /\ Turn' = 1 + Cardinality(S \cup {i})
    BY <2>1 DEF Turn
  <2> HIDE DEF S
  <2>5. IsFiniteSet(S)
    BY <2>2, <2>3, FS_Subset
  <2>6. Cardinality(S) \in Nat /\ Cardinality(S \cup {i}) = Cardinality(S) + 1
    BY <2>2, <2>5, FS_AddElement, FS_CardinalityType
  <2>7. Turn' = Turn + 1
    BY <2>4, <2>6
  <2>8. ASSUME NEW j \in Ids PROVE posts'[j].taken < Turn + 1
    <3>1. CASE j = i
      BY <1>2, <1>3, <3>1
    <3>2. CASE j # i
      BY <1>2, <1>3, <3>2
    <3> QED
      BY <3>1, <3>2
  <2> QED
    BY <1>2, <2>7, <2>8 DEF TurnsInv
<1>5. ASSUME NEW j \in Ids, j # i, posts[j].taken > 0, NEW t, Undone(j, t)
      PROVE  Undone(j, t)'
  <2>1. PICK k \in Ids : Opposite(j, k, t)
    BY <1>5 DEF Undone
  <2>2. k # i
    BY <1>1, <1>3, <1>5, <2>1 DEF Opposite
  <2>3. posts'[k] = posts[k] /\ posts'[j] = posts[j]
    BY <1>2, <1>5, <2>2
  <2> QED
    BY <1>2, <2>1, <2>3 DEF Undone, Opposite
<1> DEFINE q == posts[i].ask
           S == Named(q) \ refused
<1>6. members \in [Topics -> SUBSET Tokens] /\ Topic(q) \in Topics
  <2>1. q.topic \in Topics \cup {NoTopic}
    BY PostTyped DEF Ask
  <2> QED
    BY <2>1, ServerAssumption DEF Topic, ProcessInv
<1>7. /\ q.kind = "subscribe" => members' = [members EXCEPT ![Topic(q)] = @ \cup S]
      /\ q.kind = "unsubscribe" => members' = [members EXCEPT ![Topic(q)] = @ \ S]
      /\ q.kind \notin {"subscribe", "unsubscribe"} => members' = members
  BY <1>1 DEF Subscribe
<1>8. \A t \in Tokens : t \in S <=> t \in q.tokens /\ t \notin refused
  BY ServerAssumption DEF Named
<1>9. \A j \in Ids : Topic(posts[j].ask) \in Topics
  <2>1. \A j \in Ids : posts[j].ask.topic \in Topics \cup {NoTopic}
    BY PostTyped DEF Ask
  <2> QED
    BY <2>1, ServerAssumption DEF Topic
<1>10. ASSUME NEW t \in (q.tokens \cap Tokens) \ refused
       PROVE  /\ q.kind = "subscribe" => t \in members'[Topic(q)]
              /\ q.kind = "unsubscribe" => t \notin members'[Topic(q)]
  <2>1. t \in S
    BY <1>8, <1>10
  <2> HIDE DEF S, q
  <2> QED
    BY <1>6, <1>7, <2>1
<1>11. ASSUME NEW j \in Ids, j # i, posts[j].taken > 0,
              NEW t \in (posts[j].ask.tokens \cap Tokens) \ posts[j].left
       PROVE  /\ posts[j].ask.kind = "subscribe"
                   => t \in members'[Topic(posts[j].ask)] \/ Undone(j, t)'
              /\ posts[j].ask.kind = "unsubscribe"
                   => t \notin members'[Topic(posts[j].ask)] \/ Undone(j, t)'
  <2>1. ASSUME Topic(posts[j].ask) = Topic(q), q.kind # posts[j].ask.kind,
               q.kind \in {"subscribe", "unsubscribe"}, t \in S
        PROVE  Undone(j, t)'
    <3>1. posts[j].ask.topic = q.topic \/ {posts[j].ask.topic, q.topic} = {NoTopic, DefaultTopic}
      BY <2>1, SameTopic
    <3>2. posts'[j] = posts[j] /\ posts'[i].taken = Turn /\ posts'[i].ask = q
      BY <1>2, <1>11
    <3>3. posts'[i].taken > posts'[j].taken
      BY <1>3, <3>2
    <3>4. t \in q.tokens
      BY <1>8, <2>1
    <3>5. Opposite(j, i, t)'
      BY <2>1, <3>1, <3>2, <3>3, <3>4 DEF Opposite
    <3> QED
      BY <1>2, <3>5 DEF Undone
  <2>2. CASE Undone(j, t)
    BY <1>5, <1>11, <2>2
  <2>3. CASE posts[j].ask.kind = "subscribe" /\ t \in members[Topic(posts[j].ask)]
    <3>1. t \in members'[Topic(posts[j].ask)]
            \/ (q.kind = "unsubscribe" /\ Topic(posts[j].ask) = Topic(q) /\ t \in S)
      <4> HIDE DEF S, q
      <4> QED
        BY <1>6, <1>7, <1>9, <2>3
    <3> QED
      BY <2>1, <2>3, <3>1
  <2>4. CASE posts[j].ask.kind = "unsubscribe" /\ t \notin members[Topic(posts[j].ask)]
    <3>1. t \notin members'[Topic(posts[j].ask)]
            \/ (q.kind = "subscribe" /\ Topic(posts[j].ask) = Topic(q) /\ t \in S)
      <4> HIDE DEF S, q
      <4> QED
        BY <1>6, <1>7, <1>9, <2>4
    <3> QED
      BY <2>1, <2>4, <3>1
  <2> QED
    BY <1>11, <2>2, <2>3, <2>4 DEF HonouredInv
<1>12. ASSUME NEW j \in Ids, posts'[j].taken > 0,
              NEW t \in (posts'[j].ask.tokens \cap Tokens) \ posts'[j].left
       PROVE  /\ posts'[j].ask.kind = "subscribe"
                   => t \in members'[Topic(posts'[j].ask)] \/ Undone(j, t)'
              /\ posts'[j].ask.kind = "unsubscribe"
                   => t \notin members'[Topic(posts'[j].ask)] \/ Undone(j, t)'
  <2>1. posts'[j].ask = posts[j].ask
    BY <1>2
  <2>2. CASE j = i
    BY <1>2, <1>10, <1>12, <2>1, <2>2
  <2>3. CASE j # i
    BY <1>2, <1>11, <1>12, <2>1, <2>3
  <2> QED
    BY <2>2, <2>3
<1>13. HonouredInv'
  BY <1>2, <1>12 DEF HonouredInv, Topic
<1> QED
  BY <1>4, <1>13

LEMMA TopicsStep ==
  ServerInv /\ TurnsInv /\ HonouredInv /\ [ServerNext]_allVars => TurnsInv' /\ HonouredInv'
<1> SUFFICES ASSUME PostsInv, ProcessInv, TurnsInv, HonouredInv, [ServerNext]_allVars
             PROVE  TurnsInv' /\ HonouredInv'
  BY DEF ServerInv
<1>1. ASSUME NEW a \in Callers \cup Apps, NEW q \in Ask, Send(a, q)
      PROVE  TurnsInv' /\ HonouredInv'
  <2>1. PICK n \in Nat : n = Len(posts) + 1
    BY LenProperties DEF PostsInv
  <2>2. /\ \A j \in Ids : posts'[j] = posts[j] /\ j \in Ids'
        /\ posts'[n].taken = 0 /\ members' = members
        /\ \A j \in Ids' : j \in Ids \/ j = n
    BY <1>1, <2>1, SendAppends DEF Ids, Send
  <2> QED
    BY <2>2, NothingServed
<1>2. ASSUME NEW p \in Callers, NEW d \in Devices, Push(p, d)
      PROVE  TurnsInv' /\ HonouredInv'
  <2>1. PushAsk(d) \in Ask /\ Send(p, PushAsk(d)) /\ p \in Callers \cup Apps
    BY <1>2 DEF PushAsk, Ask, Kinds, Push
  <2> QED
    BY <1>1, <2>1
<1>3. ASSUME NEW a \in Apps, NEW q \in Asks, Post(a, q) PROVE TurnsInv' /\ HonouredInv'
  <2>1. a \in Callers \cup Apps /\ q \in Ask /\ Send(a, q)
    BY <1>3, ServerAssumption DEF Post
  <2> QED
    BY <1>1, <2>1
<1>4. ASSUME NEW i \in Ids, Revises(i), members' = members,
             posts'[i].taken = posts[i].taken, posts'[i].left = posts[i].left
      PROVE  TurnsInv' /\ HonouredInv'
  BY <1>4, NothingServed DEF Revises, Ids
<1>5. ASSUME NEW i \in Ids, Hear(i) \/ GiveUp(i) PROVE TurnsInv' /\ HonouredInv'
  <2>1. PICK c \in {"heard", "gone"} : posts' = [posts EXCEPT ![i].client = c]
    BY <1>5 DEF Hear, GiveUp
  <2>2. members' = members
    BY <1>5 DEF Hear, GiveUp
  <2> QED
    BY <1>4, <2>1, <2>2, ClientRevises
<1>6. ASSUME NEW i \in Ids, Refuse(i) \/ Call(i) \/ Answer(i) \/ ServiceFails(i)
      PROVE  TurnsInv' /\ HonouredInv'
  <2>1. PICK st \in {"wire", "called", "took", "done", "failed", "cut"} : To(i, st)
    BY <1>6 DEF Refuse, Call, Answer, ServiceFails
  <2> QED
    BY <1>4, <2>1, ToRevises
<1>7. CASE Exit
  <2>1. /\ Ids' = Ids /\ members' = members
        /\ \A j \in Ids : /\ posts'[j].taken = posts[j].taken
                         /\ posts'[j].ask = posts[j].ask /\ posts'[j].left = posts[j].left
    BY <1>7, ExitCuts DEF Ids, Exit
  <2> QED
    BY <2>1, NothingServed
<1>8. CASE UNCHANGED <<posts, members>>
  BY <1>8, NothingServed DEF Ids
<1>9. \A i : (Hear(i) \/ GiveUp(i) \/ ServerStep(i)) => i \in Ids
  BY DEF Hear, GiveUp, Waits, ServerStep, Refuse, Call, Take, Answer, ServiceFails
<1>10. Signal \/ Deadline \/ UNCHANGED serverVars => UNCHANGED <<posts, members>>
  BY DEF Signal, Deadline, serverVars
<1> QED
  BY <1>2, <1>3, <1>5, <1>6, <1>7, <1>8, <1>9, <1>10, OneServed
  DEF ServerNext, Process, ServerStep, allVars

(* What was answered 200 to a subscription or its end holds, whatever other  *)
(* posts are served in between.                                              *)
THEOREM TopicsCorrect == ServerSpec => []TopicsHonoured
<1>1. ServerInv /\ HonouredInv => TopicsHonoured
  <2> SUFFICES ASSUME ServerInv, HonouredInv, NEW i \in Ids, posts[i].stage = "done",
                      NEW t \in (posts[i].ask.tokens \cap Tokens) \ posts[i].left
               PROVE  /\ posts[i].ask.kind = "subscribe" =>
                           t \in members[Topic(posts[i].ask)] \/ Undone(i, t)
                      /\ posts[i].ask.kind = "unsubscribe" =>
                           t \notin members[Topic(posts[i].ask)] \/ Undone(i, t)
    BY DEF TopicsHonoured, Topic, Undone
  <2>1. posts[i].taken > 0
    BY DEF ServerInv, ServedInv
  <2> QED
    BY <2>1 DEF HonouredInv
<1> QED
  BY ServerStarts, ServerGoesOn, TopicsInit, TopicsStep, <1>1, PTL DEF ServerSpec

=============================================================================
