------------------------- MODULE OutputRoutingProofs -------------------------
(***************************************************************************)
(* Theorems about the app's output devices, for any apps, devices and      *)
(* bounds.  OutputRouting: types, taps that play nowhere, outputs that     *)
(* play on, and that what plays agrees with what is persisted when nothing *)
(* is under way.  Controls: that the Null Device does not vanish, and what *)
(* controls, values and the Null Device are when nothing is under way.     *)
(***************************************************************************)
EXTENDS OutputRouting, Controls, FiniteSetTheorems, SequenceTheorems, TLAPS

-----------------------------------------------------------------------------
(* Requests. *)

(* A finite set as a sequence: all its elements. *)
LEMMA SetInOrder ==
  ASSUME NEW S, IsFiniteSet(S)
  PROVE  /\ SetToSeq(S) \in Seq(S)
         /\ \A x \in S : \E i \in 1..Len(SetToSeq(S)) : SetToSeq(S)[i] = x
<1> DEFINE n == Cardinality(S)
           f == SetToSeq(S)
<1>1. n \in Nat /\ ExistsBijection(1..n, S)
  BY FS_CardinalityType
<1>2. \E g \in [1..n -> S] : IsInjective(g)
  BY <1>1 DEF ExistsBijection, Bijection, Injection
<1>3. f \in [1..n -> S] /\ IsInjective(f)
  BY <1>2 DEF SetToSeq
<1>4. f \in Injection(1..n, S)
  BY <1>3 DEF Injection
<1>5. Cardinality(1..n) = n
  BY <1>1, FS_Interval
<1>6. f \in Surjection(1..n, S)
  BY <1>4, <1>5, FS_Injection
<1>7. f \in Seq(S) /\ Len(f) = n
  BY <1>1, <1>3, IsASeq
<1>8. QED
  BY <1>6, <1>7 DEF Surjection

(* Requests for apps are requests, one for each.                            *)
LEMMA RequestsAre ==
  ASSUME NEW S \in SUBSET App, NEW D \in [App -> SUBSET Device]
  PROVE  /\ Requests(S, D) \in Seq(Request)
         /\ \A a \in S : \E i \in 1..Len(Requests(S, D)) : Requests(S, D)[i].app = a
<1> DEFINE order == SetToSeq(S)
           e(i) == [app |-> order[i], devices |-> D[order[i]]]
<1>1. IsFiniteSet(S)
  BY BoundAssumption, FS_Subset
<1>2. /\ order \in Seq(S) /\ Len(order) \in Nat
      /\ \A i \in 1..Len(order) : order[i] \in App
      /\ \A a \in S : \E i \in 1..Len(order) : order[i] = a
  BY <1>1, SetInOrder, ElementOfSeq, LenProperties
<1>3. Requests(S, D) = [i \in 1..Len(order) |-> e(i)]
  BY DEF Requests
<1>4. \A i \in 1..Len(order) : e(i) \in Request /\ e(i).app = order[i]
  BY <1>2 DEF Request
<1> HIDE DEF order, e
<1>5. [i \in 1..Len(order) |-> e(i)] \in Seq(Request)
  BY <1>2, <1>4, IsASeq
<1>6. Len([i \in 1..Len(order) |-> e(i)]) = Len(order)
  BY <1>2, <1>5, LenProperties
<1>7. QED
  BY <1>2, <1>3, <1>4, <1>5, <1>6

-----------------------------------------------------------------------------
(* The inductive invariant. *)

\* Outputs play to connected devices, and only such are to be added.
Live ==
  /\ \A a \in App : outputs[a] \subseteq connected
  /\ job # NoJob => job.toAdd \subseteq connected

\* The blocks q leave app a with a persisted choice that has all of out:
\* the last of them to reconcile a, or, with none, what is persisted now.
Reconciles(q, a, i) == q[i].kind = "reconcile" /\ q[i].app = a
AgreesIn(q, a, out, now) ==
  /\ \A i \in 1..Len(q) :
       Reconciles(q, a, i) /\ (\A j \in 1..Len(q) : j > i => ~Reconciles(q, a, j))
       => out \subseteq q[i].devices
  /\ (\A i \in 1..Len(q) : ~Reconciles(q, a, i)) => out \subseteq now

AskedIn(q, a) == \E i \in 1..Len(q) : q[i].app = a
Awaits(a) == AskedIn(routingQueue, a) \/ (job # NoJob /\ job.app = a)

\* An app for which nothing is to be applied agrees, at the latest when the
\* blocks on the main queue have run.
Agree == \A a \in App : Awaits(a) \/ AgreesIn(mainQueue, a, outputs[a], persisted[a])

\* The route being applied exists.
HasTap == job # NoJob => job.app \in tapped

\* A tap has an output, to a vanished device at least, or is being changed.
HasOutput ==
  \A a \in tapped : outputs[a] # {} \/ dead[a] # {} \/ (job # NoJob /\ job.app = a)

\* What plays to a vanished device is about to be removed, or was overlooked.
SeenTo == \A a \in App : dead[a] # {} => Noticed \/ Requested(a) \/ a \in overlooked

IInv == TypeOK /\ Live /\ HasOutput /\ HasTap /\ Agree

(* A longer queue still has the requests of the shorter one. *)
LEMMA AskedLonger ==
  \A s, u \in Seq(Request), a \in App :
    /\ s \o u \in Seq(Request)
    /\ AskedIn(s, a) \/ AskedIn(u, a) => AskedIn(s \o u, a)
<1> SUFFICES ASSUME NEW s \in Seq(Request), NEW u \in Seq(Request), NEW a \in App
             PROVE  /\ s \o u \in Seq(Request)
                    /\ AskedIn(s, a) \/ AskedIn(u, a) => AskedIn(s \o u, a)
  OBVIOUS
<1>1. /\ s \o u \in Seq(Request) /\ Len(s \o u) = Len(s) + Len(u)
      /\ Len(s) \in Nat /\ Len(u) \in Nat
      /\ \A i \in 1..(Len(s) + Len(u)) :
            (s \o u)[i] = IF i <= Len(s) THEN s[i] ELSE u[i - Len(s)]
  BY ConcatProperties, LenProperties
<1>2. \A i \in 1..Len(s) : i \in 1..Len(s \o u) /\ (s \o u)[i] = s[i]
  BY <1>1
<1>3. \A i \in 1..Len(u) : Len(s) + i \in 1..Len(s \o u) /\ (s \o u)[Len(s) + i] = u[i]
  BY <1>1
<1>4. QED
  BY <1>1, <1>2, <1>3 DEF AskedIn

(* So does a queue with one request more. *)
LEMMA AskedOneMore ==
  \A s \in Seq(Request), r \in Request, a \in App :
    /\ Append(s, r) \in Seq(Request)
    /\ AskedIn(s, a) \/ r.app = a => AskedIn(Append(s, r), a)
<1> SUFFICES ASSUME NEW s \in Seq(Request), NEW r \in Request, NEW a \in App
             PROVE  /\ Append(s, r) \in Seq(Request)
                    /\ AskedIn(s, a) \/ r.app = a => AskedIn(Append(s, r), a)
  OBVIOUS
<1>1. /\ Append(s, r) \in Seq(Request) /\ Len(Append(s, r)) = Len(s) + 1
      /\ Len(s) \in Nat
      /\ \A i \in 1..Len(s) : Append(s, r)[i] = s[i]
      /\ Append(s, r)[Len(s) + 1] = r
  BY AppendProperties, LenProperties
<1>2. QED
  BY <1>1 DEF AskedIn

(* Taking the first request leaves those of other apps. *)
LEMMA AskedTail ==
  \A s \in Seq(Request), a \in App : s # <<>> =>
    /\ Head(s) \in Request /\ Tail(s) \in Seq(Request)
    /\ AskedIn(s, a) /\ Head(s).app # a => AskedIn(Tail(s), a)
<1> SUFFICES ASSUME NEW s \in Seq(Request), NEW a \in App, s # <<>>
             PROVE  /\ Head(s) \in Request /\ Tail(s) \in Seq(Request)
                    /\ AskedIn(s, a) /\ Head(s).app # a => AskedIn(Tail(s), a)
  OBVIOUS
<1>1. /\ Head(s) \in Request /\ Tail(s) \in Seq(Request)
      /\ Len(Tail(s)) = Len(s) - 1 /\ Len(s) \in Nat \ {0}
      /\ \A i \in 1..(Len(s) - 1) : Tail(s)[i] = s[i + 1]
      /\ Head(s) = s[1]
  BY HeadTailProperties, LenProperties, EmptySeq
<1>2. ASSUME NEW i \in 1..Len(s), s[i].app = a, Head(s).app # a
      PROVE  i - 1 \in 1..Len(Tail(s)) /\ Tail(s)[i - 1].app = a
  BY <1>1, <1>2
<1>3. QED
  BY <1>1, <1>2 DEF AskedIn

(* No output, or fewer, agree. *)
LEMMA AgreesLess ==
  \A q, a, out, less, now :
    /\ AgreesIn(q, a, {}, now)
    /\ AgreesIn(q, a, out, now) /\ less \subseteq out => AgreesIn(q, a, less, now)
BY DEF AgreesIn

(* A block for another app, or for none, changes nothing. *)
LEMMA AgreesWithMore ==
  \A q \in Seq(Block), b \in Block, a \in App, out \in SUBSET Device, now \in SUBSET Device :
    /\ Append(q, b) \in Seq(Block)
    /\ ~(b.kind = "reconcile" /\ b.app = a) /\ AgreesIn(q, a, out, now)
       => AgreesIn(Append(q, b), a, out, now)
    /\ b.kind = "reconcile" /\ b.app = a /\ out \subseteq b.devices
       => AgreesIn(Append(q, b), a, out, now)
<1> SUFFICES ASSUME NEW q \in Seq(Block), NEW b \in Block, NEW a \in App,
                    NEW out \in SUBSET Device, NEW now \in SUBSET Device
             PROVE  /\ Append(q, b) \in Seq(Block)
                    /\ ~(b.kind = "reconcile" /\ b.app = a) /\ AgreesIn(q, a, out, now)
                       => AgreesIn(Append(q, b), a, out, now)
                    /\ b.kind = "reconcile" /\ b.app = a /\ out \subseteq b.devices
                       => AgreesIn(Append(q, b), a, out, now)
  OBVIOUS
<1> DEFINE p == Append(q, b)
<1>1. /\ p \in Seq(Block) /\ Len(p) = Len(q) + 1 /\ Len(q) \in Nat
      /\ \A i \in 1..Len(q) : p[i] = q[i]
      /\ p[Len(q) + 1] = b
  BY AppendProperties, LenProperties
<1> HIDE DEF p
<1>2. \A i \in 1..Len(q) : Reconciles(p, a, i) <=> Reconciles(q, a, i)
  BY <1>1 DEF Reconciles
<1>3. Reconciles(p, a, Len(q) + 1) <=> (b.kind = "reconcile" /\ b.app = a)
  BY <1>1 DEF Reconciles
<1>4. ASSUME ~(b.kind = "reconcile" /\ b.app = a), AgreesIn(q, a, out, now)
      PROVE  AgreesIn(p, a, out, now)
  <2>1. ASSUME NEW i \in 1..Len(p), Reconciles(p, a, i),
               \A j \in 1..Len(p) : j > i => ~Reconciles(p, a, j)
        PROVE  out \subseteq p[i].devices
    <3>1. i \in 1..Len(q)
      BY <1>1, <1>3, <1>4, <2>1
    <3>2. \A j \in 1..Len(q) : j \in 1..Len(p)
      BY <1>1
    <3>3. QED
      BY <1>1, <1>2, <1>4, <2>1, <3>1, <3>2 DEF AgreesIn
  <2>2. ASSUME \A i \in 1..Len(p) : ~Reconciles(p, a, i)
        PROVE  out \subseteq now
    <3>1. \A j \in 1..Len(q) : j \in 1..Len(p)
      BY <1>1
    <3>2. QED
      BY <1>2, <1>4, <2>2, <3>1 DEF AgreesIn
  <2>3. QED
    BY <2>1, <2>2 DEF AgreesIn
<1>5. ASSUME b.kind = "reconcile", b.app = a, out \subseteq b.devices
      PROVE  AgreesIn(p, a, out, now)
  <2>1. Len(q) + 1 \in 1..Len(p) /\ Reconciles(p, a, Len(q) + 1)
    BY <1>1, <1>3, <1>5
  <2>2. \A i \in 1..Len(p) : i # Len(q) + 1 => Len(q) + 1 > i
    BY <1>1
  <2>3. QED
    BY <1>1, <1>5, <2>1, <2>2 DEF AgreesIn
<1>6. QED
  BY <1>1, <1>4, <1>5 DEF p

(* The first block runs. *)
LEMMA AgreesAfterFirst ==
  \A q \in Seq(Block), a \in App : \A out, now, next :
    /\ q # <<>>
    /\ AgreesIn(q, a, out, now)
    /\ IF Head(q).kind = "reconcile" /\ Head(q).app = a
       THEN next = Head(q).devices
       ELSE out \subseteq now => out \subseteq next
    => AgreesIn(Tail(q), a, out, next)
<1> SUFFICES ASSUME NEW q \in Seq(Block), NEW a \in App, NEW out, NEW now, NEW next,
                    q # <<>>, AgreesIn(q, a, out, now),
                    IF Head(q).kind = "reconcile" /\ Head(q).app = a
                    THEN next = Head(q).devices
                    ELSE out \subseteq now => out \subseteq next
             PROVE  AgreesIn(Tail(q), a, out, next)
  OBVIOUS
<1> DEFINE p == Tail(q)
<1>1. /\ p \in Seq(Block) /\ Len(p) = Len(q) - 1 /\ Len(q) \in Nat \ {0}
      /\ \A i \in 1..Len(p) : p[i] = q[i + 1]
      /\ Head(q) = q[1]
  BY HeadTailProperties, LenProperties, EmptySeq
<1> HIDE DEF p
<1>2. \A i \in 1..Len(p) : i + 1 \in 1..Len(q) /\ (Reconciles(p, a, i) <=> Reconciles(q, a, i + 1))
  BY <1>1 DEF Reconciles
<1>3. \A j \in 1..Len(q) : j > 1 =>
         j - 1 \in 1..Len(p) /\ (Reconciles(p, a, j - 1) <=> Reconciles(q, a, j))
  BY <1>1 DEF Reconciles
<1>4. ASSUME NEW i \in 1..Len(p), Reconciles(p, a, i),
             \A j \in 1..Len(p) : j > i => ~Reconciles(p, a, j)
      PROVE  out \subseteq p[i].devices
  <2>1. \A j \in 1..Len(q) : j > i + 1 => ~Reconciles(q, a, j)
    BY <1>1, <1>3, <1>4
  <2>2. out \subseteq q[i + 1].devices
    BY <1>2, <1>4, <2>1 DEF AgreesIn
  <2>3. QED
    BY <1>1, <2>2
<1>5. ASSUME \A i \in 1..Len(p) : ~Reconciles(p, a, i)
      PROVE  out \subseteq next
  <2>1. \A j \in 1..Len(q) : j > 1 => ~Reconciles(q, a, j)
    BY <1>3, <1>5
  <2>2. CASE Reconciles(q, a, 1)
    <3>1. 1 \in 1..Len(q)
      BY <1>1
    <3>2. out \subseteq q[1].devices
      BY <2>1, <2>2, <3>1 DEF AgreesIn
    <3>3. QED
      BY <1>1, <2>2, <3>2 DEF Reconciles
  <2>3. CASE ~Reconciles(q, a, 1)
    <3>1. \A j \in 1..Len(q) : ~Reconciles(q, a, j)
      BY <1>1, <2>1, <2>3
    <3>2. out \subseteq now
      BY <3>1 DEF AgreesIn
    <3>3. QED
      BY <1>1, <2>3, <3>2 DEF Reconciles
  <2>4. QED
    BY <2>2, <2>3
<1>6. QED
  BY <1>4, <1>5 DEF AgreesIn, p

-----------------------------------------------------------------------------
(* Every step keeps the invariant.  First what the user and the apps do.    *)

(* A choice for one app. *)
LEMMA ChoiceKeeps ==
  ASSUME IInv, NEW a \in App, NEW D \in SUBSET Device, Happens, SetOutputOverride(a, D),
         UNCHANGED <<devices, route, mainQueue, job>>
  PROVE  IInv'
<1>1. /\ UNCHANGED <<connected, notified, tapped, outputs, dead, overlooked, mainQueue, job>>
      /\ persisted' = [persisted EXCEPT ![a] = D]
      /\ routingQueue' = Append(routingQueue, [app |-> a, devices |-> D])
      /\ events' \in 0..MaxEvents
  BY BoundAssumption DEF IInv, TypeOK, devices, route, SetOutputOverride, Happens
<1>2. [app |-> a, devices |-> D] \in Request
  BY DEF Request
<1>3. routingQueue \in Seq(Request)
  BY DEF IInv, TypeOK
<1>4. /\ routingQueue' \in Seq(Request)
      /\ \A b \in App : AskedIn(routingQueue, b) \/ b = a => AskedIn(routingQueue', b)
  BY <1>1, <1>2, <1>3, AskedOneMore
<1>5. TypeOK'
  BY <1>1, <1>4 DEF IInv, TypeOK
<1>6. Live' /\ HasOutput' /\ HasTap'
  BY <1>1 DEF IInv, Live, HasOutput, HasTap
<1>7. Agree'
  <2>1. \A b \in App : b # a => persisted'[b] = persisted[b]
    BY <1>1 DEF IInv, TypeOK
  <2>2. QED
    BY <1>1, <1>4, <2>1 DEF IInv, Agree, Awaits
<1>8. QED
  BY <1>5, <1>6, <1>7 DEF IInv

(* Requests for the apps of S, with what is persisted for them changed at   *)
(* most, for the others so that no output is lost.                          *)
LEMMA RequestsKeep ==
  ASSUME IInv, NEW S \in SUBSET App, NEW D \in [App -> SUBSET Device],
         routingQueue' = routingQueue \o Requests(S, D),
         persisted' \in [App -> SUBSET Device],
         \A a \in App \ S : outputs[a] \subseteq persisted[a] => outputs[a] \subseteq persisted'[a],
         UNCHANGED <<connected, notified, tapped, outputs, dead, overlooked, mainQueue, job>>,
         events' \in 0..MaxEvents
  PROVE  IInv'
<1>1. /\ Requests(S, D) \in Seq(Request)
      /\ \A a \in S : AskedIn(Requests(S, D), a)
  BY RequestsAre DEF AskedIn
<1>2. routingQueue \in Seq(Request)
  BY DEF IInv, TypeOK
<1>3. /\ routingQueue' \in Seq(Request)
      /\ \A b \in App : AskedIn(routingQueue, b) \/ b \in S => AskedIn(routingQueue', b)
  BY <1>1, <1>2, AskedLonger
<1>4. TypeOK'
  BY <1>3 DEF IInv, TypeOK
<1>5. Live' /\ HasOutput' /\ HasTap'
  BY DEF IInv, Live, HasOutput, HasTap
<1>6. ASSUME NEW b \in App
      PROVE  Awaits(b)' \/ AgreesIn(mainQueue, b, outputs[b], persisted[b])'
  <2>1. CASE Awaits(b) \/ b \in S
    BY <1>3, <2>1 DEF Awaits
  <2>2. CASE ~(Awaits(b) \/ b \in S)
    BY <2>2 DEF IInv, Agree, AgreesIn
  <2>3. QED
    BY <2>1, <2>2
<1>7. QED
  BY <1>4, <1>5, <1>6 DEF IInv, Agree

LEMMA UserKeeps ==
  ASSUME IInv, NEW a \in App,
         \/ AppLaunches(a) \/ RemoveAllOutputOverrides
         \/ \E d \in Device : UserToggled(a, d)
         \/ \E D \in SUBSET Device : SetOutputDevices(a, D)
  PROVE  IInv'
<1>0. /\ persisted \in [App -> SUBSET Device] /\ connected \subseteq Device
      /\ events \in 0..MaxEvents /\ Nothing \in [App -> SUBSET Device]
  BY DEF IInv, TypeOK, Nothing
<1>1. CASE AppLaunches(a)
  <2>1. /\ routingQueue' = routingQueue \o Requests({a}, persisted)
        /\ UNCHANGED <<persisted, connected, notified, tapped, outputs, dead, overlooked, mainQueue, job>>
        /\ events' \in 0..MaxEvents
    BY <1>0, <1>1, BoundAssumption DEF AppLaunches, Happens, devices, route
  <2>2. QED
    BY <1>0, <2>1, RequestsKeep
<1>2. CASE RemoveAllOutputOverrides
  <2>1. /\ routingQueue' = routingQueue \o Requests(Routed, Nothing)
        /\ persisted' = Nothing
        /\ UNCHANGED <<connected, notified, tapped, outputs, dead, overlooked, mainQueue, job>>
        /\ events' \in 0..MaxEvents
    BY <1>0, <1>2, BoundAssumption DEF RemoveAllOutputOverrides, Happens, devices, route
  <2>2. \A b \in App \ Routed : persisted'[b] = persisted[b]
    BY <1>0, <2>1 DEF Routed, Nothing
  <2>3. Routed \in SUBSET App
    BY DEF Routed
  <2>4. QED
    BY <1>0, <2>1, <2>2, <2>3, RequestsKeep
<1>3. CASE \E d \in Device : UserToggled(a, d)
  <2>1. PICK d \in Device : UserToggled(a, d)
    BY <1>3
  <2> DEFINE D == IF d \in persisted[a] THEN persisted[a] \ {d} ELSE persisted[a] \cup {d}
  <2>2. D \in SUBSET Device
    BY <1>0
  <2>3. Happens /\ SetOutputOverride(a, D) /\ UNCHANGED <<devices, route, mainQueue, job>>
    BY <2>1 DEF UserToggled
  <2> HIDE DEF D
  <2>4. QED
    BY <2>2, <2>3, ChoiceKeeps
<1>4. CASE \E D \in SUBSET Device : SetOutputDevices(a, D)
  BY <1>4, ChoiceKeeps DEF SetOutputDevices
<1>5. QED
  BY <1>1, <1>2, <1>3, <1>4

(* The main thread's blocks. *)
LEMMA MainKeeps ==
  ASSUME IInv, Main
  PROVE  IInv'
<1>0. /\ persisted \in [App -> SUBSET Device] /\ connected \subseteq Device
      /\ outputs \in [App -> SUBSET Device]
      /\ mainQueue \in Seq(Block) /\ mainQueue # <<>> /\ mainQueue' = Tail(mainQueue)
      /\ UNCHANGED <<connected, notified, tapped, outputs, dead, job, events>>
      /\ overlooked' \subseteq App
  BY DEF IInv, TypeOK, Main, DevicesChanged, Reconcile, devices, route
<1>1. Head(mainQueue) \in Block /\ mainQueue' \in Seq(Block)
  BY <1>0, HeadTailProperties
<1>2. CASE DevicesChanged
  <2> DEFINE affected == {a \in App : ~(persisted[a] \subseteq connected)}
             left == [a \in App |-> persisted[a] \cap connected]
  <2>1. /\ Head(mainQueue).kind = "devicesChanged"
        /\ persisted' = left
        /\ routingQueue' = routingQueue \o Requests(affected, left)
    BY <1>2 DEF DevicesChanged
  <2>2. left \in [App -> SUBSET Device] /\ affected \in SUBSET App
    BY <1>0
  <2>3. Requests(affected, left) \in Seq(Request)
    BY <2>2, RequestsAre
  <2>4. /\ routingQueue' \in Seq(Request)
        /\ \A b \in App : AskedIn(routingQueue, b) => AskedIn(routingQueue', b)
    <3> DEFINE new == Requests(affected, left)
    <3>1. routingQueue \in Seq(Request) /\ new \in Seq(Request)
      BY <2>3 DEF IInv, TypeOK
    <3>2. routingQueue' = routingQueue \o new
      BY <2>1
    <3> HIDE DEF new
    <3>3. /\ routingQueue \o new \in Seq(Request)
          /\ \A b \in App : AskedIn(routingQueue, b) => AskedIn(routingQueue \o new, b)
      <4>1. routingQueue \o new \in Seq(Request)
        BY <3>1, ConcatProperties
      <4>2. QED
        BY <3>1, <4>1, AskedLonger, Zenon
    <3>4. QED
      BY <3>2, <3>3, Zenon
  <2>5. TypeOK'
    BY <1>0, <1>1, <2>1, <2>2, <2>4 DEF IInv, TypeOK
  <2>6. Live' /\ HasOutput' /\ HasTap'
    BY <1>0 DEF IInv, Live, HasOutput, HasTap
  <2>7. ASSUME NEW b \in App
        PROVE  Awaits(b)' \/ AgreesIn(mainQueue, b, outputs[b], persisted[b])'
    <3>1. CASE Awaits(b)
      BY <1>0, <2>4, <3>1 DEF Awaits
    <3>2. CASE AgreesIn(mainQueue, b, outputs[b], persisted[b])
      <4>1. outputs[b] \subseteq connected
        BY DEF IInv, Live
      <4>2. outputs[b] \subseteq persisted[b] => outputs[b] \subseteq persisted'[b]
        BY <2>1, <4>1
      <4>3. AgreesIn(Tail(mainQueue), b, outputs[b], persisted'[b])
        BY <1>0, <2>1, <3>2, <4>2, AgreesAfterFirst
      <4>4. QED
        BY <1>0, <4>3
    <3>3. QED
      BY <3>1, <3>2 DEF IInv, Agree
  <2>8. QED
    BY <2>5, <2>6, <2>7 DEF IInv, Agree
<1>3. CASE Reconcile
  <2>1. /\ Head(mainQueue).kind = "reconcile"
        /\ persisted' = [persisted EXCEPT ![Head(mainQueue).app] = Head(mainQueue).devices]
        /\ UNCHANGED routingQueue
    BY <1>3 DEF Reconcile
  <2>2. Head(mainQueue).app \in App /\ Head(mainQueue).devices \in SUBSET Device
    BY <1>1, <2>1 DEF Block
  <2>3. TypeOK'
    BY <1>0, <1>1, <2>1, <2>2 DEF IInv, TypeOK
  <2>4. Live' /\ HasOutput' /\ HasTap'
    BY <1>0 DEF IInv, Live, HasOutput, HasTap
  <2>5. ASSUME NEW b \in App
        PROVE  Awaits(b)' \/ AgreesIn(mainQueue, b, outputs[b], persisted[b])'
    <3>1. CASE Awaits(b)
      BY <1>0, <2>1, <3>1 DEF Awaits
    <3>2. CASE AgreesIn(mainQueue, b, outputs[b], persisted[b])
      <4>1. IF Head(mainQueue).kind = "reconcile" /\ Head(mainQueue).app = b
            THEN persisted'[b] = Head(mainQueue).devices
            ELSE persisted'[b] = persisted[b]
        BY <1>0, <2>1, <2>2
      <4>2. AgreesIn(Tail(mainQueue), b, outputs[b], persisted'[b])
        BY <1>0, <3>2, <4>1, AgreesAfterFirst
      <4>3. QED
        BY <1>0, <4>2
    <3>3. QED
      BY <3>1, <3>2 DEF IInv, Agree
  <2>6. QED
    BY <2>3, <2>4, <2>5 DEF IInv, Agree
<1>4. QED
  BY <1>2, <1>3 DEF Main

(* Routes without the app's. *)
LEMMA Erased ==
  ASSUME IInv, NEW a \in App, EraseRoute(a)
  PROVE  /\ tapped' \subseteq App /\ overlooked' \subseteq App
         /\ outputs' \in [App -> SUBSET Device] /\ dead' \in [App -> SUBSET Device]
         /\ outputs'[a] = {} /\ dead'[a] = {}
         /\ \A b \in App : b # a => outputs'[b] = outputs[b] /\ dead'[b] = dead[b]
         /\ \A b \in App : b \in tapped' <=> b \in tapped /\ b # a
BY DEF IInv, TypeOK, EraseRoute

(* A block that is to reconcile app a leaves the others as they were. *)
LEMMA Posted ==
  ASSUME IInv, NEW a \in App, NEW D \in SUBSET Device, Post(a, D)
  PROVE  /\ mainQueue' \in Seq(Block)
         /\ \A out \in SUBSET Device : out \subseteq D => AgreesIn(mainQueue', a, out, persisted[a])
         /\ \A b \in App, out \in SUBSET Device :
              b # a /\ AgreesIn(mainQueue, b, out, persisted[b])
              => AgreesIn(mainQueue', b, out, persisted[b])
<1> DEFINE block == [kind |-> "reconcile", app |-> a, devices |-> D]
<1>1. mainQueue' = Append(mainQueue, block)
  BY DEF Post
<1>2. /\ block \in Block /\ block.kind = "reconcile" /\ block.app = a /\ block.devices = D
  BY DEF Block
<1>3. mainQueue \in Seq(Block) /\ \A b \in App : persisted[b] \in SUBSET Device
  BY DEF IInv, TypeOK
<1> HIDE DEF block
<1>4. QED
  BY <1>1, <1>2, <1>3, AgreesWithMore

(* The routing queue takes a request up. *)
LEMMA BeginKeeps ==
  ASSUME IInv, BeginApply
  PROVE  IInv'
<1> DEFINE r == Head(routingQueue)
           found == r.devices \cap connected
           a == r.app
<1>0. /\ job = NoJob /\ routingQueue # <<>> /\ routingQueue' = Tail(routingQueue)
      /\ routingQueue \in Seq(Request)
      /\ UNCHANGED <<persisted, connected, notified, events>>
      /\ persisted \in [App -> SUBSET Device] /\ connected \subseteq Device
      /\ outputs \in [App -> SUBSET Device] /\ dead \in [App -> SUBSET Device]
      /\ mainQueue \in Seq(Block)
  BY DEF IInv, TypeOK, BeginApply, devices
<1>1. /\ r \in Request /\ routingQueue' \in Seq(Request)
      /\ \A b \in App : AskedIn(routingQueue, b) /\ r.app # b => AskedIn(routingQueue', b)
  BY <1>0, AskedTail
<1>2. a \in App /\ r.devices \in SUBSET Device /\ found \in SUBSET Device
  BY <1>1 DEF Request
<1>3. \/ r.devices = {} /\ EraseRoute(a) /\ UNCHANGED <<mainQueue, job>>
      \/ found = {} /\ EraseRoute(a) /\ Post(a, {}) /\ UNCHANGED job
      \/ a \notin tapped /\ Post(a, {}) /\ UNCHANGED <<tapped, outputs, dead, overlooked, job>>
      \/ KeepWantedOutputs(a, found) /\ UNCHANGED mainQueue
  BY DEF BeginApply, route
<1> HIDE DEF r, found, a
<1>4. ASSUME NEW b \in App, b # a
      PROVE  AskedIn(routingQueue', b) \/ AgreesIn(mainQueue, b, outputs[b], persisted[b])
  BY <1>0, <1>1, <1>4 DEF IInv, Agree, Awaits, a
<1>5. ASSUME EraseRoute(a), UNCHANGED job,
             UNCHANGED mainQueue \/ Post(a, {})
      PROVE  IInv'
  <2>1. mainQueue' \in Seq(Block)
    BY <1>0, <1>2, <1>5, Posted
  <2>2. TypeOK'
    BY <1>0, <1>1, <1>2, <1>5, <2>1, Erased DEF IInv, TypeOK
  <2>3. Live' /\ HasOutput' /\ HasTap'
    BY <1>0, <1>2, <1>5, Erased DEF IInv, Live, HasOutput, HasTap
  <2>4. ASSUME NEW b \in App
        PROVE  Awaits(b)' \/ AgreesIn(mainQueue, b, outputs[b], persisted[b])'
    <3>1. CASE b = a
      BY <1>2, <1>5, <3>1, Erased, AgreesLess
    <3>2. CASE b # a
      <4>1. outputs'[b] = outputs[b] /\ persisted'[b] = persisted[b] /\ outputs[b] \in SUBSET Device
        BY <1>0, <1>2, <1>5, <3>2, Erased
      <4>2. AskedIn(routingQueue', b) \/ AgreesIn(mainQueue', b, outputs[b], persisted[b])
        BY <1>2, <1>4, <1>5, <3>2, <4>1, Posted
      <4>3. QED
        BY <4>1, <4>2 DEF Awaits
    <3>3. QED
      BY <3>1, <3>2
  <2>5. QED
    BY <2>2, <2>3, <2>4 DEF IInv, Agree
<1>6. CASE a \notin tapped /\ Post(a, {}) /\ UNCHANGED <<tapped, outputs, dead, overlooked, job>>
  <2>1. mainQueue' \in Seq(Block)
    BY <1>0, <1>2, <1>6, Posted
  <2>2. TypeOK'
    BY <1>0, <1>1, <1>6, <2>1 DEF IInv, TypeOK
  <2>3. Live' /\ HasOutput' /\ HasTap'
    BY <1>0, <1>6 DEF IInv, Live, HasOutput, HasTap
  <2>4. ASSUME NEW b \in App
        PROVE  Awaits(b)' \/ AgreesIn(mainQueue, b, outputs[b], persisted[b])'
    <3>1. CASE b = a
      <4>1. outputs'[b] = {}
        BY <1>2, <1>6, <3>1 DEF IInv, TypeOK
      <4>2. QED
        BY <4>1, AgreesLess
    <3>2. CASE b # a
      <4>1. outputs'[b] = outputs[b] /\ persisted'[b] = persisted[b] /\ outputs[b] \in SUBSET Device
        BY <1>0, <1>6
      <4>2. AskedIn(routingQueue', b) \/ AgreesIn(mainQueue', b, outputs[b], persisted[b])
        BY <1>2, <1>4, <1>6, <3>2, <4>1, Posted
      <4>3. QED
        BY <4>1, <4>2 DEF Awaits
    <3>3. QED
      BY <3>1, <3>2
  <2>5. QED
    BY <2>2, <2>3, <2>4 DEF IInv, Agree
<1>7. CASE KeepWantedOutputs(a, found) /\ UNCHANGED mainQueue
  <2>1. /\ tapped' = tapped \cup {a}
        /\ outputs' = [outputs EXCEPT ![a] = @ \cap found]
        /\ dead' = [dead EXCEPT ![a] = {}] /\ overlooked' = overlooked \ {a}
        /\ job' = [app |-> a, toAdd |-> found \ outputs[a]]
    BY <1>7 DEF KeepWantedOutputs
  <2>2. job' \in [app : App, toAdd : SUBSET Device] /\ job' # NoJob /\ job'.app = a
        /\ job'.toAdd \subseteq connected
    BY <1>2, <2>1, BoundAssumption DEF found
  <2>3. TypeOK'
    BY <1>0, <1>1, <1>2, <1>7, <2>1, <2>2 DEF IInv, TypeOK
  <2>4. Live' /\ HasOutput' /\ HasTap'
    <3>1. \A b \in App : b # a => outputs'[b] = outputs[b] /\ dead'[b] = dead[b]
      BY <1>0, <2>1
    <3>2. \A b \in App : outputs'[b] \subseteq outputs[b]
      BY <1>0, <1>2, <2>1
    <3>3. Live'
      BY <1>0, <2>2, <3>2 DEF IInv, Live
    <3>4. HasTap'
      BY <2>1, <2>2 DEF HasTap
    <3>5. HasOutput'
      BY <1>0, <2>1, <2>2, <3>1 DEF IInv, HasOutput, TypeOK
    <3>6. QED
      BY <3>3, <3>4, <3>5
  <2>5. ASSUME NEW b \in App
        PROVE  Awaits(b)' \/ AgreesIn(mainQueue, b, outputs[b], persisted[b])'
    <3>1. CASE b = a
      BY <2>2, <3>1 DEF Awaits
    <3>2. CASE b # a
      <4>1. outputs'[b] = outputs[b] /\ persisted'[b] = persisted[b]
        BY <1>0, <2>1, <3>2
      <4>2. QED
        BY <1>4, <1>7, <3>2, <4>1 DEF Awaits
    <3>3. QED
      BY <3>1, <3>2
  <2>6. QED
    BY <2>3, <2>4, <2>5 DEF IInv, Agree
<1>8. QED
  BY <1>3, <1>5, <1>6, <1>7

(* It adds outputs and finishes. *)
LEMMA JobKeeps ==
  ASSUME IInv, FinishApply \/ \E d \in Device : AddOutputDevice(d)
  PROVE  IInv'
<1>0. /\ job # NoJob /\ job \in [app : App, toAdd : SUBSET Device] /\ job.app \in App
      /\ outputs \in [App -> SUBSET Device] /\ dead \in [App -> SUBSET Device]
      /\ UNCHANGED <<persisted, connected, notified, routingQueue, events>>
      /\ connected \subseteq Device
  BY DEF IInv, TypeOK, FinishApply, AddOutputDevice, devices
<1>1. ASSUME NEW d \in Device, AddOutputDevice(d)
      PROVE  IInv'
  <2>1. /\ d \in job.toAdd /\ job' = [job EXCEPT !.toAdd = @ \ {d}]
        /\ outputs' = [outputs EXCEPT ![job.app] = @ \cup {d}] \/ UNCHANGED outputs
        /\ UNCHANGED <<tapped, dead, overlooked, mainQueue>>
    BY <1>1 DEF AddOutputDevice
  <2>2. /\ job' \in [app : App, toAdd : SUBSET Device] /\ job' # NoJob
        /\ job'.app = job.app /\ job'.toAdd \subseteq job.toAdd
    BY <1>0, <2>1, BoundAssumption
  <2>3. job.app \in tapped
    BY <1>0 DEF IInv, HasTap
  <2>4. TypeOK'
    BY <1>0, <2>1, <2>2, <2>3 DEF IInv, TypeOK
  <2>5. Live' /\ HasOutput' /\ HasTap'
    <3>1. \A b \in App : outputs'[b] = outputs[b] \/ outputs'[b] = outputs[b] \cup {d}
      BY <1>0, <2>1
    <3>2. d \in connected
      BY <1>0, <2>1 DEF IInv, Live
    <3>3. Live'
      BY <1>0, <2>2, <3>1, <3>2 DEF IInv, Live
    <3>4. HasTap'
      BY <2>1, <2>2, <2>3 DEF HasTap
    <3>5. HasOutput'
      BY <1>0, <2>1, <2>2, <3>1 DEF IInv, HasOutput, TypeOK
    <3>6. QED
      BY <3>3, <3>4, <3>5
  <2>6. ASSUME NEW b \in App
        PROVE  Awaits(b)' \/ AgreesIn(mainQueue, b, outputs[b], persisted[b])'
    <3>1. CASE b = job.app
      BY <2>2, <3>1 DEF Awaits
    <3>2. CASE b # job.app
      <4>1. outputs'[b] = outputs[b]
        BY <1>0, <2>1, <3>2
      <4>2. QED
        BY <1>0, <2>1, <2>2, <4>1 DEF IInv, Agree, Awaits
    <3>3. QED
      BY <3>1, <3>2
  <2>7. QED
    BY <2>4, <2>5, <2>6 DEF IInv, Agree
<1>2. CASE FinishApply
  <2> DEFINE a == job.app
  <2>1. /\ Post(a, outputs[a]) /\ job' = NoJob /\ a \in App
        /\ \/ outputs[a] = {} /\ EraseRoute(a)
           \/ (outputs[a] # {} \/ dead[a] # {}) /\ UNCHANGED <<tapped, outputs, dead, overlooked>>
    BY <1>0, <1>2 DEF FinishApply, route
  <2> HIDE DEF a
  <2>2. mainQueue' \in Seq(Block)
    BY <1>0, <2>1, Posted
  <2>3. TypeOK'
    BY <1>0, <2>1, <2>2, Erased DEF IInv, TypeOK
  <2>4. Live' /\ HasTap'
    BY <1>0, <2>1, Erased DEF IInv, Live, HasTap
  <2>5. HasOutput'
    <3>1. CASE outputs[a] = {} /\ EraseRoute(a)
      BY <1>0, <2>1, <2>3, <3>1, Erased DEF IInv, HasOutput, TypeOK, a
    <3>2. CASE (outputs[a] # {} \/ dead[a] # {}) /\ UNCHANGED <<tapped, outputs, dead, overlooked>>
      BY <1>0, <2>1, <3>2 DEF IInv, HasOutput, a
    <3>3. QED
      BY <2>1, <3>1, <3>2
  <2>6. ASSUME NEW b \in App
        PROVE  Awaits(b)' \/ AgreesIn(mainQueue, b, outputs[b], persisted[b])'
    <3>1. outputs'[b] = outputs[b] /\ outputs[b] \in SUBSET Device /\ persisted'[b] = persisted[b]
      BY <1>0, <2>1, Erased
    <3>2. CASE b = a
      BY <1>0, <2>1, <3>1, <3>2, Posted
    <3>3. CASE b # a
      <4>1. AskedIn(routingQueue, b) \/ AgreesIn(mainQueue, b, outputs[b], persisted[b])
        BY <3>3 DEF IInv, Agree, Awaits, a
      <4>2. QED
        BY <1>0, <2>1, <3>1, <3>3, <4>1, Posted DEF Awaits
    <3>4. QED
      BY <3>2, <3>3
  <2>7. QED
    BY <2>3, <2>4, <2>5, <2>6 DEF IInv, Agree
<1>3. QED
  BY <1>1, <1>2

(* Devices come and go, and the HAL tells of it. *)
LEMMA DevicesKeep ==
  ASSUME IInv, Listener \/ \E d \in Device : Unplug(d) \/ PlugIn(d)
  PROVE  IInv'
<1>0. /\ connected \subseteq Device /\ events \in 0..MaxEvents
      /\ outputs \in [App -> SUBSET Device] /\ dead \in [App -> SUBSET Device]
      /\ job \in [app : App, toAdd : SUBSET Device] \cup {NoJob}
      /\ mainQueue \in Seq(Block) /\ persisted \in [App -> SUBSET Device]
  BY DEF IInv, TypeOK
<1>1. ASSUME NEW d \in Device, Unplug(d)
      PROVE  IInv'
  <2>1. /\ connected' = connected \ {d} /\ notified' = TRUE
        /\ outputs' = [a \in App |-> outputs[a] \ {d}]
        /\ dead' = [a \in App |-> dead[a] \cup (outputs[a] \cap {d})]
        /\ job' = IF job = NoJob THEN NoJob ELSE [job EXCEPT !.toAdd = @ \ {d}]
        /\ UNCHANGED <<persisted, tapped, overlooked, mainQueue, routingQueue>>
        /\ events' \in 0..MaxEvents
    BY <1>0, <1>1, BoundAssumption DEF Unplug, Happens
  <2>2. /\ job = NoJob <=> job' = NoJob
        /\ job # NoJob => /\ job' \in [app : App, toAdd : SUBSET Device]
                          /\ job'.app = job.app /\ job'.toAdd = job.toAdd \ {d}
    <3>1. CASE job = NoJob
      BY <2>1, <3>1
    <3>2. CASE job # NoJob
      <4>1. job \in [app : App, toAdd : SUBSET Device] /\ job' = [job EXCEPT !.toAdd = @ \ {d}]
        BY <1>0, <2>1, <3>2
      <4>2. QED
        BY <3>2, <4>1, BoundAssumption
    <3>3. QED
      BY <3>1, <3>2
  <2>3. \A a \in App : outputs'[a] = outputs[a] \ {d} /\ dead'[a] = dead[a] \cup (outputs[a] \cap {d})
    BY <2>1
  <2>4. TypeOK'
    <3>1. outputs' \in [App -> SUBSET Device] /\ dead' \in [App -> SUBSET Device]
      BY <1>0, <2>1
    <3>2. \A a \in App \ tapped : outputs'[a] = {} /\ dead'[a] = {}
      BY <2>3 DEF IInv, TypeOK
    <3>3. job' \in [app : App, toAdd : SUBSET Device] \cup {NoJob}
      BY <2>2
    <3>4. QED
      BY <1>0, <2>1, <3>1, <3>2, <3>3 DEF IInv, TypeOK
  <2>5. Live'
    BY <2>1, <2>2, <2>3 DEF IInv, Live
  <2>6. HasTap'
    BY <2>1, <2>2 DEF IInv, HasTap
  <2>7. HasOutput'
    <3>1. ASSUME NEW a \in tapped
          PROVE  outputs'[a] # {} \/ dead'[a] # {} \/ (job' # NoJob /\ job'.app = a)
      <4>1. outputs[a] # {} \/ dead[a] # {} \/ (job # NoJob /\ job.app = a)
        BY DEF IInv, HasOutput
      <4>2. a \in App
        BY DEF IInv, TypeOK
      <4>3. outputs[a] # {} => outputs'[a] # {} \/ dead'[a] # {}
        BY <2>3, <4>2
      <4>4. dead[a] # {} => dead'[a] # {}
        BY <2>3, <4>2
      <4>5. QED
        BY <2>2, <4>1, <4>3, <4>4
    <3>2. QED
      BY <2>1, <3>1 DEF HasOutput
  <2>8. ASSUME NEW b \in App
        PROVE  Awaits(b)' \/ AgreesIn(mainQueue, b, outputs[b], persisted[b])'
    <3>1. CASE Awaits(b)
      BY <2>1, <2>2, <3>1 DEF Awaits
    <3>2. CASE AgreesIn(mainQueue, b, outputs[b], persisted[b])
      <4>1. outputs'[b] \subseteq outputs[b]
        BY <2>3
      <4>2. AgreesIn(mainQueue, b, outputs'[b], persisted[b])
        BY <3>2, <4>1, AgreesLess
      <4>3. QED
        BY <2>1, <4>2
    <3>3. QED
      BY <3>1, <3>2 DEF IInv, Agree
  <2>9. QED
    BY <2>4, <2>5, <2>6, <2>7, <2>8 DEF IInv, Agree
<1>2. ASSUME NEW d \in Device, PlugIn(d)
      PROVE  IInv'
  <2>1. /\ connected' = connected \cup {d} /\ notified' = TRUE
        /\ UNCHANGED <<persisted, tapped, outputs, dead, overlooked, mainQueue, routingQueue, job>>
        /\ events' \in 0..MaxEvents
    BY <1>0, <1>2, BoundAssumption DEF PlugIn, Happens, route, queues
  <2>2. TypeOK'
    BY <1>0, <2>1 DEF IInv, TypeOK
  <2>3. Live' /\ HasOutput' /\ HasTap'
    BY <2>1 DEF IInv, Live, HasOutput, HasTap
  <2>4. Agree'
    BY <2>1 DEF IInv, Agree, Awaits
  <2>5. QED
    BY <2>2, <2>3, <2>4 DEF IInv
<1>3. CASE Listener
  <2> DEFINE block == [kind |-> "devicesChanged"]
  <2>1. /\ mainQueue' = Append(mainQueue, block) /\ notified' = FALSE
        /\ UNCHANGED <<persisted, connected, tapped, outputs, dead, overlooked, routingQueue, job, events>>
    BY <1>3 DEF Listener, route
  <2>2. block \in Block /\ block.kind # "reconcile"
    BY DEF Block
  <2> HIDE DEF block
  <2>3. mainQueue' \in Seq(Block)
    BY <1>0, <2>1, <2>2, AppendProperties
  <2>4. TypeOK'
    BY <1>0, <2>1, <2>3 DEF IInv, TypeOK
  <2>5. Live' /\ HasOutput' /\ HasTap'
    BY <2>1 DEF IInv, Live, HasOutput, HasTap
  <2>6. ASSUME NEW b \in App
        PROVE  Awaits(b)' \/ AgreesIn(mainQueue, b, outputs[b], persisted[b])'
    <3>1. CASE Awaits(b)
      BY <2>1, <3>1 DEF Awaits
    <3>2. CASE AgreesIn(mainQueue, b, outputs[b], persisted[b])
      <4>1. outputs[b] \in SUBSET Device /\ persisted[b] \in SUBSET Device
        BY <1>0
      <4>2. AgreesIn(Append(mainQueue, block), b, outputs[b], persisted[b])
        BY <1>0, <2>2, <3>2, <4>1, AgreesWithMore
      <4>3. QED
        BY <2>1, <4>2
    <3>3. QED
      BY <3>1, <3>2 DEF IInv, Agree
  <2>7. QED
    BY <2>4, <2>5, <2>6 DEF IInv, Agree
<1>4. QED
  BY <1>1, <1>2, <1>3

(* The process ends and is started again. *)
LEMMA RestartKeeps ==
  ASSUME IInv, Restart
  PROVE  IInv'
<1>0. /\ persisted \in [App -> SUBSET Device] /\ connected \subseteq Device
      /\ events \in 0..MaxEvents
  BY DEF IInv, TypeOK
<1>1. /\ tapped' = {} /\ outputs' = Nothing /\ dead' = Nothing /\ overlooked' = {}
      /\ mainQueue' = <<>> /\ job' = NoJob /\ notified' = FALSE
      /\ UNCHANGED <<persisted, connected>>
      /\ events' \in 0..MaxEvents
  BY <1>0, BoundAssumption DEF Restart, Happens
<1>2. PICK running \in SUBSET Routed : routingQueue' = Requests(running, persisted)
  BY DEF Restart
<1>3. routingQueue' \in Seq(Request)
  BY <1>0, <1>2, RequestsAre DEF Routed
<1>4. /\ Nothing \in [App -> SUBSET Device]
      /\ \A a \in App : Nothing[a] = {}
  BY DEF Nothing
<1>5. mainQueue' \in Seq(Block)
  BY <1>1
<1>6. TypeOK'
  BY <1>0, <1>1, <1>3, <1>4, <1>5 DEF TypeOK
<1>7. Live' /\ HasOutput' /\ HasTap'
  BY <1>1, <1>4 DEF Live, HasOutput, HasTap
<1>8. ASSUME NEW b \in App
      PROVE  AgreesIn(mainQueue, b, outputs[b], persisted[b])'
  <2>1. outputs'[b] = {}
    BY <1>1, <1>4
  <2>2. QED
    BY <2>1, AgreesLess
<1>9. QED
  BY <1>6, <1>7, <1>8 DEF IInv, Agree

-----------------------------------------------------------------------------
(* The theorems. *)

(* The invariant holds at the start. *)
LEMMA InitInv == Init => IInv
<1> SUFFICES ASSUME Init PROVE IInv
  OBVIOUS
<1>1. Nothing \in [App -> SUBSET Device] /\ \A a \in App : Nothing[a] = {}
  BY DEF Nothing
<1>2. TypeOK
  <2>1. mainQueue \in Seq(Block) /\ routingQueue \in Seq(Request)
    BY EmptySeq DEF Init
  <2>2. 0 \in 0..MaxEvents
    BY BoundAssumption
  <2>3. QED
    BY <1>1, <2>1, <2>2 DEF Init, TypeOK
<1>3. Live /\ HasOutput /\ HasTap
  BY <1>1 DEF Init, Live, HasOutput, HasTap
<1>4. Agree
  BY <1>1, AgreesLess DEF Init, Agree
<1>5. QED
  BY <1>2, <1>3, <1>4 DEF IInv

(* Every step keeps it. *)
LEMMA StepInv == IInv /\ [Next]_vars => IInv'
<1> SUFFICES ASSUME IInv, [Next]_vars PROVE IInv'
  OBVIOUS
<1>1. CASE Main
  BY <1>1, MainKeeps
<1>2. CASE BeginApply
  BY <1>2, BeginKeeps
<1>3. CASE FinishApply \/ \E d \in Device : AddOutputDevice(d)
  BY <1>3, JobKeeps
<1>4. CASE Listener \/ \E d \in Device : Unplug(d) \/ PlugIn(d)
  BY <1>4, DevicesKeep
<1>5. CASE Restart
  BY <1>5, RestartKeeps
<1>6. ASSUME NEW a \in App,
             \/ AppLaunches(a)
             \/ \E d \in Device : UserToggled(a, d)
             \/ \E D \in SUBSET Device : SetOutputDevices(a, D)
      PROVE  IInv'
  BY <1>6, UserKeeps
<1>7. CASE RemoveAllOutputOverrides
  <2>1. CASE App = {}
    <3>1. /\ routingQueue' = routingQueue \o Requests({}, Nothing)
          /\ persisted' = Nothing
          /\ UNCHANGED <<connected, notified, tapped, outputs, dead, overlooked, mainQueue, job>>
          /\ events' \in 0..MaxEvents
      BY <1>7, <2>1, BoundAssumption
         DEF RemoveAllOutputOverrides, Routed, Happens, devices, route, IInv, TypeOK
    <3>2. Nothing \in [App -> SUBSET Device]
      BY DEF Nothing
    <3>3. QED
      BY <2>1, <3>1, <3>2, RequestsKeep
  <2>2. CASE App # {}
    BY <1>7, <2>2, UserKeeps
  <2>3. QED
    BY <2>1, <2>2
<1>8. CASE UNCHANGED vars
  <2>1. UNCHANGED <<persisted, connected, notified, tapped, outputs, dead, overlooked, mainQueue,
                    routingQueue, job, events>>
    BY <1>8 DEF vars, devices, route, queues
  <2>2. TypeOK' /\ Live' /\ HasOutput' /\ HasTap'
    BY <2>1 DEF IInv, TypeOK, Live, HasOutput, HasTap
  <2>3. Agree'
    BY <2>1 DEF IInv, Agree, Awaits
  <2>4. QED
    BY <2>2, <2>3 DEF IInv
<1>9. QED
  BY <1>1, <1>2, <1>3, <1>4, <1>5, <1>6, <1>7, <1>8 DEF Next, Routing

-----------------------------------------------------------------------------
(* Outputs to vanished devices are seen to. *)

NoticedIn(q) == \E i \in 1..Len(q) : q[i].kind = "devicesChanged"

(* A notice on the main queue stays there until it is the first block. *)
LEMMA NoticeStays ==
  \A q \in Seq(Block), b \in Block :
    /\ NoticedIn(q) \/ b.kind = "devicesChanged" => NoticedIn(Append(q, b))
    /\ q # <<>> /\ Head(q).kind # "devicesChanged" /\ NoticedIn(q) => NoticedIn(Tail(q))
<1> SUFFICES ASSUME NEW q \in Seq(Block), NEW b \in Block
             PROVE  /\ NoticedIn(q) \/ b.kind = "devicesChanged" => NoticedIn(Append(q, b))
                    /\ q # <<>> /\ Head(q).kind # "devicesChanged" /\ NoticedIn(q)
                       => NoticedIn(Tail(q))
  OBVIOUS
<1>1. NoticedIn(q) \/ b.kind = "devicesChanged" => NoticedIn(Append(q, b))
  <2>1. /\ Len(Append(q, b)) = Len(q) + 1 /\ Len(q) \in Nat
        /\ \A i \in 1..Len(q) : Append(q, b)[i] = q[i]
        /\ Append(q, b)[Len(q) + 1] = b
    BY AppendProperties, LenProperties
  <2>2. QED
    BY <2>1 DEF NoticedIn
<1>2. ASSUME q # <<>>, Head(q).kind # "devicesChanged", NoticedIn(q)
      PROVE  NoticedIn(Tail(q))
  <2>1. /\ Len(Tail(q)) = Len(q) - 1 /\ Len(q) \in Nat \ {0}
        /\ \A i \in 1..(Len(q) - 1) : Tail(q)[i] = q[i + 1]
        /\ Head(q) = q[1]
    BY <1>2, HeadTailProperties, LenProperties, EmptySeq
  <2>2. PICK i \in 1..Len(q) : q[i].kind = "devicesChanged"
    BY <1>2 DEF NoticedIn
  <2>3. i - 1 \in 1..Len(Tail(q)) /\ Tail(q)[i - 1] = q[i]
    BY <1>2, <2>1, <2>2
  <2>4. QED
    BY <2>2, <2>3 DEF NoticedIn
<1>3. QED
  BY <1>1, <1>2

(* A step that changes no output, nor takes a notice or a request away.     *)
LEMMA StillSeenTo ==
  ASSUME SeenTo, UNCHANGED <<notified, dead, overlooked>>,
         NoticedIn(mainQueue) => NoticedIn(mainQueue'),
         \A a \in App : AskedIn(routingQueue, a) => AskedIn(routingQueue', a)
  PROVE  SeenTo'
BY DEF SeenTo, Noticed, NoticedIn, Requested, AskedIn

(* Requests are only added by the main thread. *)
LEMMA RequestsSeenTo ==
  ASSUME IInv, SeenTo, NEW S \in SUBSET App, NEW D \in [App -> SUBSET Device],
         routingQueue' = routingQueue \o Requests(S, D),
         UNCHANGED <<notified, dead, overlooked, mainQueue>>
  PROVE  SeenTo'
<1> DEFINE new == Requests(S, D)
<1>1. new \in Seq(Request) /\ routingQueue \in Seq(Request) /\ routingQueue' = routingQueue \o new
  BY RequestsAre DEF IInv, TypeOK
<1> HIDE DEF new
<1>2. \A a \in App : AskedIn(routingQueue, a) => AskedIn(routingQueue \o new, a)
  BY <1>1, AskedLonger, Zenon
<1>3. \A a \in App : AskedIn(routingQueue, a) => AskedIn(routingQueue', a)
  BY <1>1, <1>2, Zenon
<1>4. QED
  BY <1>3, StillSeenTo

(* What the block of removeRoutesForDisconnectedDevices leaves alone it has *)
(* overlooked.                                                              *)
LEMMA LookSeesTo ==
  ASSUME IInv, SeenTo, DevicesChanged
  PROVE  SeenTo'
<1> DEFINE affected == {a \in App : ~(persisted[a] \subseteq connected)}
           left == [a \in App |-> persisted[a] \cap connected]
           new == Requests(affected, left)
<1>1. /\ routingQueue' = routingQueue \o new /\ routingQueue \in Seq(Request)
      /\ overlooked' = overlooked \cup {a \in App \ affected : dead[a] # {}}
      /\ UNCHANGED dead
  BY DEF IInv, TypeOK, DevicesChanged
<1>2. left \in [App -> SUBSET Device] /\ affected \in SUBSET App
  BY DEF IInv, TypeOK
<1>3. new \in Seq(Request) /\ \A a \in affected : AskedIn(new, a)
  BY <1>2, RequestsAre DEF AskedIn
<1> HIDE DEF affected, left, new
<1>4. \A a \in affected : AskedIn(routingQueue \o new, a)
  BY <1>1, <1>2, <1>3, AskedLonger, Zenon
<1>5. \A a \in affected : Requested(a)'
  BY <1>1, <1>4 DEF Requested, AskedIn
<1>6. QED
  BY <1>1, <1>5 DEF SeenTo

(* A request that is taken up leaves the app without such outputs.          *)
LEMMA BeginSeesTo ==
  ASSUME IInv, SeenTo, BeginApply
  PROVE  SeenTo'
<1> DEFINE r == Head(routingQueue)
           a == r.app
<1>1. /\ routingQueue # <<>> /\ routingQueue' = Tail(routingQueue)
      /\ routingQueue \in Seq(Request) /\ mainQueue \in Seq(Block)
      /\ dead \in [App -> SUBSET Device] /\ UNCHANGED notified
  BY DEF IInv, TypeOK, BeginApply, devices
<1>2. r \in Request /\ \A b \in App : AskedIn(routingQueue, b) /\ r.app # b => AskedIn(routingQueue', b)
  BY <1>1, AskedTail
<1>3. a \in App
  BY <1>2 DEF Request
<1>4. UNCHANGED mainQueue \/ Post(a, {})
  BY DEF BeginApply
<1>5. \/ dead' = [dead EXCEPT ![a] = {}] /\ overlooked' = overlooked \ {a}
      \/ a \notin tapped /\ UNCHANGED <<dead, overlooked>>
  BY DEF BeginApply, EraseRoute, KeepWantedOutputs, route
<1>6. dead'[a] = {}
  BY <1>1, <1>3, <1>5 DEF IInv, TypeOK
<1>7. NoticedIn(mainQueue) => NoticedIn(mainQueue')
  <2>1. [kind |-> "reconcile", app |-> a, devices |-> {}] \in Block
    BY <1>3 DEF Block
  <2>2. QED
    BY <1>1, <1>4, <2>1, NoticeStays DEF Post
<1>8. ASSUME NEW b \in App, b # a, dead'[b] # {}
      PROVE  (Noticed \/ Requested(b) \/ b \in overlooked)'
  <2>1. dead[b] # {} /\ (b \in overlooked => b \in overlooked')
    BY <1>1, <1>5, <1>8
  <2>2. NoticedIn(mainQueue) \/ notified \/ AskedIn(routingQueue, b) \/ b \in overlooked
    BY <2>1 DEF SeenTo, Noticed, NoticedIn, Requested, AskedIn
  <2>3. NoticedIn(mainQueue') \/ notified' \/ AskedIn(routingQueue', b) \/ b \in overlooked'
    BY <1>1, <1>2, <1>7, <1>8, <2>1, <2>2
  <2>4. QED
    BY <2>3 DEF Noticed, NoticedIn, Requested, AskedIn
<1>9. QED
  BY <1>6, <1>8 DEF SeenTo

(* The end of a job. *)
LEMMA FinishSeesTo ==
  ASSUME IInv, SeenTo, FinishApply
  PROVE  SeenTo'
<1>1. /\ job.app \in App /\ outputs[job.app] \in SUBSET Device
      /\ UNCHANGED <<notified, routingQueue>> /\ Post(job.app, outputs[job.app])
      /\ mainQueue \in Seq(Block)
  BY DEF IInv, TypeOK, FinishApply, devices
<1>2. UNCHANGED <<dead, overlooked>> \/ (dead[job.app] = {} /\ EraseRoute(job.app))
  BY DEF FinishApply, route
<1>3. \A b \in App : dead'[b] # {} => dead[b] # {} /\ (b \in overlooked => b \in overlooked')
  BY <1>1, <1>2 DEF EraseRoute, IInv, TypeOK
<1>4. NoticedIn(mainQueue) => NoticedIn(mainQueue')
  <2>1. [kind |-> "reconcile", app |-> job.app, devices |-> outputs[job.app]] \in Block
    BY <1>1 DEF Block
  <2>2. QED
    BY <1>1, <2>1, NoticeStays DEF Post
<1>5. QED
  BY <1>1, <1>3, <1>4 DEF SeenTo, Noticed, NoticedIn, Requested

(* Every step.  Devices that go are notified; a new process has no routes.  *)
LEMMA SeenToKept == IInv /\ SeenTo /\ [Next]_vars => SeenTo'
<1> SUFFICES ASSUME IInv, SeenTo, [Next]_vars PROVE SeenTo'
  OBVIOUS
<1>1. CASE DevicesChanged
  BY <1>1, LookSeesTo
<1>2. CASE Reconcile
  <2>1. /\ mainQueue # <<>> /\ mainQueue' = Tail(mainQueue) /\ mainQueue \in Seq(Block)
        /\ Head(mainQueue).kind = "reconcile"
        /\ UNCHANGED <<notified, dead, overlooked, routingQueue>>
    BY <1>2 DEF Reconcile, IInv, TypeOK, devices, route
  <2>2. Head(mainQueue) \in Block
    BY <2>1, HeadTailProperties
  <2>3. NoticedIn(mainQueue) => NoticedIn(mainQueue')
    BY <2>1, <2>2, NoticeStays
  <2>4. QED
    BY <2>1, <2>3, StillSeenTo
<1>3. CASE BeginApply
  BY <1>3, BeginSeesTo
<1>4. CASE FinishApply
  BY <1>4, FinishSeesTo
<1>5. ASSUME NEW d \in Device, AddOutputDevice(d)
      PROVE  SeenTo'
  BY <1>5, StillSeenTo DEF AddOutputDevice, devices
<1>6. CASE Listener
  <2>1. [kind |-> "devicesChanged"] \in Block
    BY DEF Block
  <2>2. NoticedIn(mainQueue')
    BY <1>6, <2>1, NoticeStays DEF Listener, IInv, TypeOK
  <2>3. QED
    BY <2>2 DEF SeenTo, Noticed, NoticedIn
<1>7. ASSUME NEW d \in Device, Unplug(d) \/ PlugIn(d)
      PROVE  SeenTo'
  BY <1>7 DEF Unplug, PlugIn, SeenTo, Noticed
<1>8. CASE Restart
  BY <1>8 DEF Restart, Nothing, SeenTo
<1>9. ASSUME NEW a \in App, AppLaunches(a)
      PROVE  SeenTo'
  <2>1. persisted \in [App -> SUBSET Device] /\ {a} \in SUBSET App
    BY DEF IInv, TypeOK
  <2>2. /\ routingQueue' = routingQueue \o Requests({a}, persisted)
        /\ UNCHANGED <<notified, dead, overlooked, mainQueue>>
    BY <1>9 DEF AppLaunches, devices, route
  <2>3. QED
    BY <2>1, <2>2, RequestsSeenTo
<1>10. CASE RemoveAllOutputOverrides
  <2>1. Nothing \in [App -> SUBSET Device] /\ Routed \in SUBSET App
    BY DEF Nothing, Routed
  <2>2. /\ routingQueue' = routingQueue \o Requests(Routed, Nothing)
        /\ UNCHANGED <<notified, dead, overlooked, mainQueue>>
    BY <1>10 DEF RemoveAllOutputOverrides, devices, route
  <2>3. QED
    BY <2>1, <2>2, RequestsSeenTo
<1>11. ASSUME NEW a \in App, NEW D \in SUBSET Device, SetOutputOverride(a, D),
              UNCHANGED <<devices, route, mainQueue, job>>
       PROVE  SeenTo'
  <2>1. /\ routingQueue' = Append(routingQueue, [app |-> a, devices |-> D])
        /\ UNCHANGED <<notified, dead, overlooked, mainQueue>>
    BY <1>11 DEF SetOutputOverride, devices, route
  <2>2. [app |-> a, devices |-> D] \in Request /\ routingQueue \in Seq(Request)
    BY DEF Request, IInv, TypeOK
  <2>3. \A b \in App : AskedIn(routingQueue, b) => AskedIn(routingQueue', b)
    BY <2>1, <2>2, AskedOneMore
  <2>4. QED
    BY <2>1, <2>3, StillSeenTo
<1>12. ASSUME NEW a \in App, NEW d \in Device, UserToggled(a, d)
       PROVE  SeenTo'
  <2> DEFINE D == IF d \in persisted[a] THEN persisted[a] \ {d} ELSE persisted[a] \cup {d}
  <2>1. D \in SUBSET Device
    BY DEF IInv, TypeOK
  <2>2. SetOutputOverride(a, D) /\ UNCHANGED <<devices, route, mainQueue, job>>
    BY <1>12 DEF UserToggled
  <2> HIDE DEF D
  <2>3. QED
    BY <1>11, <2>1, <2>2
<1>13. ASSUME NEW a \in App, NEW D \in SUBSET Device, SetOutputDevices(a, D)
       PROVE  SeenTo'
  BY <1>11, <1>13 DEF SetOutputDevices
<1>14. CASE UNCHANGED vars
  BY <1>14, StillSeenTo DEF vars, devices, route, queues
<1>15. QED
  BY <1>1, <1>2, <1>3, <1>4, <1>5, <1>6, <1>7, <1>8, <1>9, <1>10, <1>12, <1>13, <1>14
     DEF Next, Main, Routing

(* The invariant always holds: routes, job and queues agree with each       *)
(* other, and what plays to vanished devices is seen to.                    *)
THEOREM Invariance == Spec => [](IInv /\ SeenTo)
<1>1. Init => SeenTo
  BY DEF Init, Nothing, SeenTo
<1>2. QED
  BY <1>1, InitInv, StepInv, SeenToKept, PTL DEF Spec

(* Every variable keeps its type, and outputs are held by routes.           *)
THEOREM TypeCorrect == Spec => []TypeOK
<1>1. IInv => TypeOK
  BY DEF IInv
<1>2. QED
  BY <1>1, Invariance, PTL

(* A tap that mutes an app plays to a connected device, is being changed,   *)
(* or has outputs to vanished devices whose removal is under way; or the    *)
(* block that looks for these has overlooked them.                          *)
THEOREM TapsNotSilent == Spec => []NoSilentTap
<1>1. IInv /\ SeenTo => NoSilentTap
  BY DEF IInv, TypeOK, HasOutput, SeenTo, NoSilentTap
<1>2. QED
  BY <1>1, Invariance, PTL

(* When nothing is under way, each app plays only to devices persisted for  *)
(* it.                                                                      *)
LEMMA SettledInv == IInv => RoutedIsPersisted
<1> SUFFICES ASSUME IInv, Settled, NEW a \in App
             PROVE  outputs[a] \subseteq persisted[a]
  BY DEF RoutedIsPersisted
<1>1. mainQueue = <<>> /\ routingQueue = <<>> /\ job = NoJob
  BY DEF Settled
<1>2. ~Awaits(a)
  BY <1>1 DEF Awaits, AskedIn
<1>3. AgreesIn(<<>>, a, outputs[a], persisted[a])
  BY <1>1, <1>2 DEF IInv, Agree
<1>4. QED
  BY <1>3 DEF AgreesIn

(* Whatever crossed, what plays when every queue is empty is what the menu  *)
(* shows as chosen: the safety half of SettlesAsPersisted.                  *)
THEOREM SettledAgrees == Spec => []RoutedIsPersisted
BY SettledInv, Invariance, PTL

(* What a step may take away from an app.                                   *)
Lost(a) == outputs[a] \ outputs'[a]

(* An output on a device that stays ends only for a request without it, or  *)
(* with the process.                                                        *)
LEMMA StepKeepsOutputs ==
  ASSUME IInv, [Next]_vars, NEW a \in App, NEW d \in Lost(a) \cap connected'
  PROVE  \/ routingQueue # <<>> /\ Head(routingQueue).app = a
            /\ d \notin Head(routingQueue).devices
         \/ tapped' = {} /\ events' # events
<1>0. /\ outputs \in [App -> SUBSET Device] /\ events \in 0..MaxEvents
      /\ outputs[a] \subseteq connected
      /\ d \in outputs[a] /\ d \notin outputs'[a] /\ d \in connected'
  BY DEF IInv, TypeOK, Live, Lost
<1>1. outputs' # outputs
  BY <1>0
<1>2. CASE BeginApply
  <2> DEFINE r == Head(routingQueue)
             found == r.devices \cap connected
  <2>1. /\ routingQueue # <<>>
        /\ \/ (r.devices = {} \/ found = {}) /\ EraseRoute(r.app)
           \/ KeepWantedOutputs(r.app, found)
    BY <1>1, <1>2 DEF BeginApply, route
  <2>2. d \in connected
    BY <1>0
  <2>3. d \in found <=> d \in r.devices
    BY <2>2
  <2> HIDE DEF r
  <2>4. CASE (r.devices = {} \/ found = {}) /\ EraseRoute(r.app)
    <3>1. d \notin r.devices
      BY <2>3, <2>4
    <3>2. r.app = a
      BY <1>0, <2>4 DEF EraseRoute
    <3>3. QED
      BY <2>1, <3>1, <3>2 DEF r
  <2>5. CASE KeepWantedOutputs(r.app, found)
    <3>1. outputs' = [outputs EXCEPT ![r.app] = @ \cap found]
      BY <2>5 DEF KeepWantedOutputs
    <3>2. r.app = a /\ d \notin found
      BY <1>0, <3>1
    <3>3. QED
      BY <2>1, <2>3, <3>2 DEF r
  <2>6. QED
    BY <2>1, <2>4, <2>5
<1>3. CASE FinishApply
  <2>1. outputs[job.app] = {} /\ outputs' = [outputs EXCEPT ![job.app] = {}]
    BY <1>1, <1>3 DEF FinishApply, EraseRoute, route
  <2>2. QED
    BY <1>0, <2>1
<1>4. ASSUME NEW e \in Device, AddOutputDevice(e)
      PROVE  FALSE
  <2>1. outputs' = [outputs EXCEPT ![job.app] = @ \cup {e}]
    BY <1>1, <1>4 DEF AddOutputDevice
  <2>2. QED
    BY <1>0, <2>1
<1>5. ASSUME NEW e \in Device, Unplug(e) \/ PlugIn(e)
      PROVE  FALSE
  <2>1. CASE Unplug(e)
    BY <1>0, <2>1 DEF Unplug
  <2>2. CASE PlugIn(e)
    BY <1>1, <2>2 DEF PlugIn, route
  <2>3. QED
    BY <1>5, <2>1, <2>2
<1>6. CASE Restart
  BY <1>0, <1>6, BoundAssumption DEF Restart, Happens
<1>7. CASE Main \/ Listener \/ RemoveAllOutputOverrides
  BY <1>1, <1>7 DEF Main, DevicesChanged, Reconcile, Listener, RemoveAllOutputOverrides, route
<1>8. ASSUME NEW b \in App,
             \/ AppLaunches(b)
             \/ \E e \in Device : UserToggled(b, e)
             \/ \E D \in SUBSET Device : SetOutputDevices(b, D)
      PROVE  FALSE
  BY <1>1, <1>8 DEF AppLaunches, UserToggled, SetOutputDevices, route
<1>9. CASE UNCHANGED vars
  BY <1>1, <1>9 DEF vars, route
<1>10. QED
  BY <1>2, <1>3, <1>4, <1>5, <1>6, <1>7, <1>8, <1>9 DEF Next, Routing

(* Changing an app's devices does not interrupt those it keeps.             *)
THEOREM KeptPlayOn == Spec => KeptOutputsPlayOn
<1> DEFINE Kept == \A a \in App : \A d \in (outputs[a] \ outputs'[a]) \cap connected' :
                      \/ routingQueue # <<>> /\ Head(routingQueue).app = a
                         /\ d \notin Head(routingQueue).devices
                      \/ tapped' = {} /\ events' # events
<1>1. IInv /\ [Next]_vars => Kept
  BY StepKeepsOutputs DEF Lost
<1>2. QED
  BY <1>1, Invariance, PTL DEF Spec, KeptOutputsPlayOn

-----------------------------------------------------------------------------
(* Controls: what a change of the output device leaves when everything that *)
(* is under way has been dealt with, and that the Null Device does not       *)
(* vanish under anybody.                                                     *)

SyncTypes ==
  /\ output \in OutputDevice /\ active \in BOOLEAN
  /\ pc \in {"idle", "match", "request", "propagate", "enable", "copy", "listen"}
  /\ value \in [Control -> [{"bgm", "output"} -> 0 .. 1]]
  /\ valueChanged \subseteq Control /\ skipped \subseteq Control
DriverTypes == enabled \subseteq Control /\ pending \subseteq Control /\ requests \in Nat
TogglingTypes ==
  /\ nullActive \in BOOLEAN /\ listed \in BOOLEAN
  /\ default \in {"bgm", "null", "other"} /\ devicesChanged \in BOOLEAN
  /\ toggle \in ToggleStates
  /\ blocks \subseteq {"toggle", "toggleBack", "disable"} /\ disabling \in BOOLEAN
OtherTypes ==
  /\ alive \in BOOLEAN /\ changes \in 0 .. MaxChanges /\ others \in 0 .. MaxOthers
  /\ unhandled \subseteq Unhandled

\* A change of the output device makes one request at most, and the end of
\* BGMApp one more.
Counted ==
  /\ requests <= changes + 1
  /\ alive => requests <= changes
  /\ alive /\ pc \in {"match", "request"} => requests < changes

\* Togglings overlapped, and one began on a guess or came to nothing.
Overtaken == "toggledAgain" \in unhandled /\ unhandled \cap {"enableNull", "getDefault"} # {}

\* The block that is next in the toggling has been dispatched.
Dispatched ==
  /\ toggle = "SettingBGMDeviceAsDefault" => "toggleBack" \in blocks
  /\ toggle = "DisablingNullDevice" => "disable" \in blocks
  /\ default = "null" =>
       /\ listed
       /\ toggle = "SettingBGMDeviceAsDefault" \/ "setBGM" \in unhandled \/ Overtaken

\* With one toggling at a time, the Null Device is active during it only, unless
\* it could not be disabled, and the first block will be dispatched once the HAL
\* has noticed, unless it has run and could not set the default.
ToggledOnce ==
  "toggledAgain" \notin unhandled =>
    /\ disabling => toggle = "NotToggling"
    /\ toggle = "NotToggling" /\ ~disabling => ~nullActive \/ "disableNull" \in unhandled
    /\ toggle = "SettingNullDeviceAsDefault" => default # "null"
    /\ alive /\ pc = "enable" =>
         toggle = "SettingNullDeviceAsDefault" /\ ~nullActive /\ ~listed
    /\ alive /\ toggle = "SettingNullDeviceAsDefault" /\ pc # "enable" =>
         /\ nullActive
         /\ listed => devicesChanged \/ "toggle" \in blocks \/ "setNull" \in unhandled

\* What is pending is what is wanted, from the request on, unless one has been
\* ignored, aborted or not made.
Unsettled == unhandled \cap {"ignored", "abort", "match"} # {}
Asked ==
  ~Unsettled =>
    /\ requests = 0 => pending = enabled
    /\ (alive => pc \notin {"match", "request"}) => pending = Wanted

\* Once the values are copied they stay equal, but for those that are under
\* way and those that could not be copied, of controls that may yet come.
Copied ==
  /\ pc = "idle" => active
  /\ alive /\ pc \in {"listen", "idle"} =>
       \A c \in Has[output] \ skipped :
         /\ c \in enabled \/ c \notin pending
         /\ c \in enabled => value[c]["bgm"] = value[c]["output"] \/ c \in valueChanged

ControlsInv ==
  /\ SyncTypes /\ DriverTypes /\ TogglingTypes /\ OtherTypes
  /\ Counted /\ Dispatched /\ ToggledOnce /\ Asked /\ Copied

LEMMA ControlsStart == ControlsInit => ControlsInv
<1> SUFFICES ASSUME ControlsInit PROVE ControlsInv
  OBVIOUS
<1> USE ControlsAssumption DEF ControlsInit
<1>1. Has[output] \subseteq Control
  OBVIOUS
<1>2. value \in [Control -> [{"bgm", "output"} -> 0 .. 1]]
  OBVIOUS
<1>3. \A c \in Control : value[c]["bgm"] = value[c]["output"]
  OBVIOUS
<1>4. SyncTypes
  BY <1>2 DEF SyncTypes
<1>5. DriverTypes /\ OtherTypes
  BY <1>1 DEF DriverTypes, OtherTypes
<1>8. TogglingTypes
  BY DEF TogglingTypes, ToggleStates
<1>6. Counted /\ Dispatched /\ ToggledOnce
  BY DEF Counted, Dispatched, ToggledOnce
<1>7. Asked /\ Copied
  BY <1>1, <1>3 DEF Asked, Copied, Wanted
<1> QED
  BY <1>4, <1>5, <1>6, <1>7, <1>8 DEF ControlsInv

-----------------------------------------------------------------------------
(* What a step that has nothing to do with them leaves alone.                *)
LEMMA TogglingKept ==
  ASSUME ControlsInv, UNCHANGED <<null, toggling, alive>>,
         pc' = "enable" <=> pc = "enable", unhandled \subseteq unhandled'
  PROVE  TogglingTypes' /\ Dispatched' /\ ToggledOnce'
<1>1. UNCHANGED <<nullActive, listed, default, devicesChanged, toggle, blocks, disabling>>
  BY DEF null, toggling
<1>2. TogglingTypes' /\ Dispatched'
  BY <1>1 DEF ControlsInv, TogglingTypes, Dispatched, Overtaken
<1>3. ToggledOnce'
  BY <1>1 DEF ControlsInv, ToggledOnce
<1> QED
  BY <1>2, <1>3

LEMMA MoreChanges == \A i, m, n \in Nat :
    m <= n => (i <= m + 1 => i <= n + 1) /\ (i <= m => i <= n) /\ (i < m => i < n)
  OBVIOUS

LEMMA AskedKept ==
  ASSUME ControlsInv, UNCHANGED <<driver, alive, output>>, unhandled \subseteq unhandled',
         changes <= changes', changes' \in Nat,
         pc' # pc => pc' \notin {"match", "request"} /\ pc \notin {"match", "request"}
  PROVE  DriverTypes' /\ Counted' /\ Asked'
<1>1. UNCHANGED <<enabled, pending, requests>>
  BY DEF driver
<1>2. DriverTypes'
  BY <1>1 DEF ControlsInv, DriverTypes
<1>3. Counted'
  <2>1. requests \in Nat /\ changes \in Nat /\ Counted
    BY ControlsAssumption DEF ControlsInv, DriverTypes, OtherTypes
  <2>2. pc' \in {"match", "request"} => pc \in {"match", "request"}
    OBVIOUS
  <2>3. alive' <=> alive
    OBVIOUS
  <2>4. /\ requests <= changes + 1 => requests <= changes' + 1
        /\ requests <= changes => requests <= changes'
        /\ requests < changes => requests < changes'
    BY <2>1, MoreChanges
  <2> QED
    BY <1>1, <2>1, <2>2, <2>3, <2>4 DEF Counted
<1>4. Asked'
  BY <1>1 DEF ControlsInv, Asked, Unsettled, Wanted
<1> QED
  BY <1>2, <1>3, <1>4

LEMMA CopiedKept ==
  ASSUME ControlsInv, UNCHANGED <<sync, enabled, pending>>, alive' => alive
  PROVE  SyncTypes' /\ Copied'
<1>1. UNCHANGED <<output, active, pc, value, valueChanged, skipped>>
  BY DEF sync
<1>2. SyncTypes'
  BY <1>1 DEF ControlsInv, SyncTypes
<1>3. Copied'
  BY <1>1 DEF ControlsInv, Copied
<1> QED
  BY <1>2, <1>3

LEMMA OthersKept ==
  ASSUME ControlsInv, UNCHANGED <<alive, counters, unhandled>>
  PROVE  OtherTypes' /\ changes' = changes /\ changes \in Nat
  BY ControlsAssumption DEF ControlsInv, OtherTypes, counters

(* A call of the HAL that is made, or throws.                                *)
LEMMA CalledKeeps ==
  ASSUME ControlsInv, UNCHANGED alive, Succeeds \/ \E call \in Unhandled : Throws(call)
  PROVE  OtherTypes' /\ changes' = changes /\ changes \in Nat /\ unhandled \subseteq unhandled'
<1>1. changes \in 0 .. MaxChanges /\ others \in 0 .. MaxOthers /\ unhandled \subseteq Unhandled
      /\ alive' \in BOOLEAN
  BY DEF ControlsInv, OtherTypes
<1>2. CASE Succeeds
  BY <1>1, <1>2, OthersKept DEF Succeeds
<1>3. CASE \E call \in Unhandled : Throws(call)
  <2>1. /\ others < MaxOthers /\ others' = others + 1 /\ changes' = changes
        /\ unhandled \subseteq unhandled' /\ unhandled' \subseteq Unhandled
    BY <1>1, <1>3 DEF Throws, Event
  <2>2. others' \in 0 .. MaxOthers /\ changes \in Nat
    BY <1>1, <2>1, ControlsAssumption
  <2> QED
    BY <1>1, <2>1, <2>2 DEF OtherTypes
<1> QED
  BY <1>2, <1>3

-----------------------------------------------------------------------------
(* The driver and the host.                                                  *)

LEMMA PerformKeeps ==
  ASSUME ControlsInv, PerformConfigChange
  PROVE  ControlsInv'
<1>1. /\ requests > 0 /\ requests' = requests - 1 /\ enabled' = pending
      /\ UNCHANGED <<sync, pending, null, toggling, alive, counters, unhandled>>
  BY DEF PerformConfigChange, SetEnabledControls
<1>2. /\ UNCHANGED <<output, active, pc, value, valueChanged, skipped>>
      /\ OtherTypes' /\ changes' = changes /\ changes \in Nat
  BY <1>1, OthersKept DEF sync
<1>3. TogglingTypes' /\ Dispatched' /\ ToggledOnce'
  BY <1>1, <1>2, TogglingKept
<1>4. SyncTypes' /\ DriverTypes' /\ Counted'
  BY <1>1, <1>2 DEF ControlsInv, SyncTypes, DriverTypes, Counted
<1>5. Asked'
  BY <1>1, <1>2 DEF ControlsInv, DriverTypes, Asked, Unsettled, Wanted
<1>6. Copied'
  BY <1>1, <1>2 DEF ControlsInv, Copied
<1> QED
  BY <1>2, <1>3, <1>4, <1>5, <1>6 DEF ControlsInv

LEMMA AbortKeeps ==
  ASSUME ControlsInv, AbortConfigChange
  PROVE  ControlsInv'
<1>1. /\ requests > 0 /\ requests' = requests - 1 /\ unhandled' = unhandled \cup {"abort"}
      /\ UNCHANGED <<sync, enabled, pending, null, toggling, alive, counters>>
  BY DEF AbortConfigChange
<1>2. UNCHANGED <<pc, changes, others>>
  BY <1>1 DEF sync, counters
<1>3. TogglingTypes' /\ Dispatched' /\ ToggledOnce' /\ SyncTypes' /\ Copied'
  BY <1>1, <1>2, TogglingKept, CopiedKept
<1>4. DriverTypes' /\ Counted' /\ OtherTypes' /\ Asked'
  BY <1>1, <1>2, ControlsAssumption
     DEF ControlsInv, DriverTypes, OtherTypes, Unhandled, Counted, Asked, Unsettled
<1> QED
  BY <1>3, <1>4 DEF ControlsInv

LEMMA HostUpdatesKeeps ==
  ASSUME ControlsInv, HostUpdatesDevices
  PROVE  ControlsInv'
<1>1. /\ listed # nullActive /\ listed' = nullActive /\ devicesChanged' = TRUE
      /\ default' \in {"bgm", "other"} \/ default' = default
      /\ default = "null" => default' # "null"
      /\ UNCHANGED <<sync, driver, nullActive, toggling, alive, counters, unhandled>>
  BY DEF HostUpdatesDevices
<1>2. UNCHANGED <<output, pc, toggle, blocks, disabling, enabled, pending>>
  BY <1>1 DEF sync, toggling, driver
<1>3. OtherTypes' /\ SyncTypes' /\ Copied' /\ DriverTypes' /\ Counted' /\ Asked'
  BY <1>1, <1>2, OthersKept, CopiedKept, AskedKept
<1>4. TogglingTypes' /\ Dispatched'
  BY <1>1, <1>2 DEF ControlsInv, TogglingTypes, Dispatched, Overtaken
<1>5. ToggledOnce'
  BY <1>1, <1>2 DEF ControlsInv, TogglingTypes, ToggledOnce
<1> QED
  BY <1>3, <1>4, <1>5 DEF ControlsInv

-----------------------------------------------------------------------------
(* A change of the output device, step by step.                              *)

LEMMA ChangeOutputKeeps ==
  ASSUME ControlsInv, NEW d \in OutputDevice, ChangeOutput(d)
  PROVE  ControlsInv'
<1>1. /\ alive /\ pc = "idle" /\ changes < MaxChanges /\ changes' = changes + 1
      /\ output' = d /\ active' = FALSE /\ pc' = "match" /\ skipped' = {}
      /\ UNCHANGED <<valueChanged, driver, null, toggling, alive, others, unhandled>>
  BY DEF ChangeOutput
<1>2. value' \in [Control -> [{"bgm", "output"} -> 0 .. 1]]
  <2>1. PICK v \in 0 .. 1 : value' = [c \in Control |-> [value[c] EXCEPT !["output"] = v]]
    BY DEF ChangeOutput
  <2>2. \A c \in Control : value[c] \in [{"bgm", "output"} -> 0 .. 1]
    BY DEF ControlsInv, SyncTypes
  <2> QED
    BY <2>1, <2>2
<1>3. SyncTypes' /\ Copied'
  BY <1>1, <1>2 DEF ControlsInv, SyncTypes, Copied
<1>4. TogglingTypes' /\ Dispatched' /\ ToggledOnce'
  BY <1>1, TogglingKept
<1>5. UNCHANGED <<enabled, pending, requests>> /\ (alive' <=> alive)
  BY <1>1 DEF driver
<1>6. DriverTypes' /\ OtherTypes' /\ Counted'
  <2>1. changes \in 0 .. MaxChanges /\ MaxChanges \in Nat /\ requests \in Nat /\ requests <= changes
    BY <1>1, ControlsAssumption DEF ControlsInv, OtherTypes, DriverTypes, Counted
  <2>2. changes' \in 0 .. MaxChanges /\ requests < changes' /\ requests <= changes'
        /\ requests <= changes' + 1
    BY <1>1, <2>1
  <2> QED
    BY <1>1, <1>5, <2>2 DEF ControlsInv, DriverTypes, OtherTypes, Counted
<1>7. Asked'
  BY <1>1, <1>5 DEF ControlsInv, Asked, Unsettled
<1> QED
  BY <1>3, <1>4, <1>6, <1>7 DEF ControlsInv

LEMMA MatchKeeps ==
  ASSUME ControlsInv, MatchControlsListOf
  PROVE  ControlsInv'
<1>1. /\ alive /\ pc = "match" /\ pc' \in {"copy", "request"}
      /\ UNCHANGED <<output, active, value, valueChanged, skipped, driver, null, toggling, alive>>
  BY DEF MatchControlsListOf
<1>2. \/ /\ pc' = IF enabled = Has[output] THEN "copy" ELSE "request"
         /\ unhandled' = IF enabled = Has[output] /\ pending # Has[output]
                         THEN unhandled \cup {"ignored"} ELSE unhandled
         /\ UNCHANGED counters
      \/ pc' = "copy" /\ Throws("match")
  BY DEF MatchControlsListOf
<1>3. OtherTypes' /\ changes' = changes /\ changes \in Nat /\ unhandled \subseteq unhandled'
  <2>1. CASE Throws("match")
    BY <1>1, <2>1, CalledKeeps DEF Unhandled, SwallowedCalls
  <2>2. CASE UNCHANGED counters /\ unhandled' \in {unhandled, unhandled \cup {"ignored"}}
    BY <1>1, <2>2, ControlsAssumption DEF ControlsInv, OtherTypes, Unhandled, counters
  <2> QED
    BY <1>2, <2>1, <2>2
<1>4. SyncTypes' /\ Copied'
  BY <1>1 DEF ControlsInv, SyncTypes, Copied
<1>5. TogglingTypes' /\ Dispatched' /\ ToggledOnce'
  BY <1>1, <1>3, TogglingKept
<1>6. UNCHANGED <<enabled, pending, requests>> /\ (alive' <=> alive)
  BY <1>1 DEF driver
<1>7. DriverTypes' /\ Counted'
  BY <1>1, <1>3, <1>6 DEF ControlsInv, DriverTypes, Counted
<1>8. Asked'
  <2>1. ~Unsettled' => ~Unsettled
    BY <1>3 DEF Unsettled
  <2>2. CASE Throws("match")
    BY <2>2 DEF Throws, Asked, Unsettled
  <2>3. CASE ~Unsettled' /\ pc' = "copy" /\ enabled = Has[output] /\ pending = Has[output]
    BY <1>1, <1>6, <2>1, <2>3 DEF ControlsInv, Asked, Wanted
  <2>4. CASE pc' = "request"
    BY <1>1, <1>6, <2>1, <2>4 DEF ControlsInv, Asked
  <2>5. \/ pc' = "request" \/ Throws("match") \/ "ignored" \in unhandled'
        \/ pc' = "copy" /\ enabled = Has[output] /\ pending = Has[output]
    BY <1>2
  <2>6. "ignored" \in unhandled' => Unsettled'
    BY DEF Unsettled
  <2> QED
    BY <2>2, <2>3, <2>4, <2>5, <2>6 DEF Asked
<1> QED
  BY <1>3, <1>4, <1>5, <1>7, <1>8 DEF ControlsInv

(* What is pending after a request, if nothing pending was in its way.       *)
LEMMA RequestMade ==
  ASSUME ControlsInv, NEW wanted \in SUBSET Control, RequestEnabledControls(wanted)
  PROVE  /\ DriverTypes' /\ enabled' = enabled /\ requests' <= requests + 1
         /\ unhandled' \subseteq Unhandled /\ unhandled \subseteq unhandled'
         /\ ~Unsettled' => pending' = wanted /\ (requests' = 0 => enabled = wanted)
<1> DEFINE changed == (enabled \ wanted) \cup (wanted \ enabled)
<1>1. /\ pending' = (pending \ changed) \cup (wanted \cap changed)
      /\ requests' = IF changed = {} THEN requests ELSE requests + 1
      /\ unhandled' = IF requests > 0 /\ pending' # wanted
                      THEN unhandled \cup {"ignored"} ELSE unhandled
      /\ enabled' = enabled
  BY DEF RequestEnabledControls
<1>2. DriverTypes' /\ requests' <= requests + 1
  BY <1>1 DEF ControlsInv, DriverTypes
<1>3. unhandled' \subseteq Unhandled /\ unhandled \subseteq unhandled'
  BY <1>1 DEF ControlsInv, OtherTypes, Unhandled
<1>4. ASSUME ~Unsettled'
      PROVE  pending' = wanted /\ (requests' = 0 => enabled = wanted)
  <2>1. ~Unsettled /\ (requests = 0 \/ pending' = wanted) /\ requests \in Nat
    BY <1>1, <1>3, <1>4 DEF ControlsInv, DriverTypes, Unsettled
  <2>2. requests = 0 => pending = enabled
    BY <2>1 DEF ControlsInv, Asked
  <2>3. pending' = wanted
    BY <1>1, <2>1, <2>2
  <2>4. changed = {} => enabled = wanted
    OBVIOUS
  <2> QED
    BY <1>1, <2>1, <2>3, <2>4
<1> QED
  BY <1>1, <1>2, <1>3, <1>4

LEMMA RequestKeeps ==
  ASSUME ControlsInv, SetEnabledOutputControls
  PROVE  ControlsInv'
<1>1. /\ alive /\ pc = "request" /\ pc' \in {"propagate", "copy"} /\ Has[output] \in SUBSET Control
      /\ UNCHANGED <<output, active, value, valueChanged, skipped, null, toggling, alive>>
  BY ControlsAssumption DEF SetEnabledOutputControls, ControlsInv, SyncTypes
<1>2. SyncTypes' /\ Copied'
  BY <1>1 DEF ControlsInv, SyncTypes, Copied
<1>3. CASE RequestEnabledControls(Has[output]) /\ UNCHANGED counters
  <2>1. UNCHANGED <<changes, others>> /\ (alive' <=> alive)
    BY <1>1, <1>3 DEF counters
  <2>2. TogglingTypes' /\ Dispatched' /\ ToggledOnce'
    BY <1>1, <1>3, RequestMade, TogglingKept
  <2>3. DriverTypes' /\ OtherTypes'
    BY <1>1, <1>3, <2>1, RequestMade DEF ControlsInv, OtherTypes
  <2>4. Counted'
    <3>1. /\ requests \in Nat /\ requests' \in Nat /\ requests' <= requests + 1
          /\ changes \in Nat /\ requests < changes
      BY <1>1, <1>3, <2>3, RequestMade, ControlsAssumption
         DEF ControlsInv, DriverTypes, OtherTypes, Counted
    <3>2. requests' <= changes /\ requests' <= changes + 1
      BY <3>1
    <3> QED
      BY <1>1, <2>1, <3>2 DEF Counted
  <2>5. Asked'
    BY <1>1, <1>3, <2>1, RequestMade DEF Asked, Wanted
  <2> QED
    BY <1>2, <2>2, <2>3, <2>4, <2>5 DEF ControlsInv
<1>4. CASE Throws("match") /\ UNCHANGED driver
  <2>1. OtherTypes' /\ changes' = changes /\ changes \in Nat /\ unhandled \subseteq unhandled'
    BY <1>1, <1>4, CalledKeeps DEF Unhandled, SwallowedCalls
  <2>2. TogglingTypes' /\ Dispatched' /\ ToggledOnce'
    BY <1>1, <2>1, TogglingKept
  <2>3. UNCHANGED <<enabled, pending, requests>>
    BY <1>4 DEF driver
  <2>4. DriverTypes' /\ Counted'
    BY <1>1, <2>1, <2>3 DEF ControlsInv, DriverTypes, Counted
  <2>5. Asked'
    BY <1>4 DEF Throws, Asked, Unsettled
  <2> QED
    BY <1>2, <2>1, <2>2, <2>4, <2>5 DEF ControlsInv
<1> QED
  BY <1>3, <1>4 DEF SetEnabledOutputControls

LEMMA PropagateKeeps ==
  ASSUME ControlsInv, PropagateControlListChange
  PROVE  ControlsInv'
<1> DEFINE again == IF Toggled THEN {"toggledAgain"} ELSE {}
<1>1. /\ alive /\ pc = "propagate" /\ pc' \in {"enable", "copy"}
      /\ UNCHANGED <<output, active, value, valueChanged, skipped, driver, null, blocks,
                     disabling, alive>>
  BY DEF PropagateControlListChange
<1>2. \/ /\ default = "bgm" /\ pc' = "enable" /\ toggle' = "SettingNullDeviceAsDefault"
         /\ unhandled' = unhandled \cup again /\ UNCHANGED counters
      \/ default # "bgm" /\ pc' = "copy" /\ UNCHANGED <<toggle, counters, unhandled>>
      \/ /\ default # "bgm" /\ pc' = "enable" /\ toggle' = "SettingNullDeviceAsDefault"
         /\ Event /\ unhandled' = unhandled \cup again \cup {"getDefault"}
  BY DEF PropagateControlListChange
<1>3. UNCHANGED <<nullActive, listed, default, devicesChanged>> /\ (alive' <=> alive)
  BY <1>1 DEF null
<1>4. SyncTypes' /\ Copied'
  BY <1>1 DEF ControlsInv, SyncTypes, Copied
<1>5. OtherTypes' /\ changes' = changes /\ changes \in Nat /\ unhandled \subseteq unhandled'
  <2>1. /\ unhandled \subseteq unhandled' /\ unhandled' \subseteq Unhandled
    BY <1>2 DEF ControlsInv, OtherTypes, Unhandled, SwallowedCalls
  <2>2. CASE UNCHANGED counters
    BY <1>1, <2>1, <2>2, ControlsAssumption DEF ControlsInv, OtherTypes, counters
  <2>3. CASE Event
    BY <1>1, <2>1, <2>3, ControlsAssumption DEF ControlsInv, OtherTypes, Event
  <2> QED
    BY <1>2, <2>1, <2>2, <2>3
<1>6. DriverTypes' /\ Counted' /\ Asked'
  BY <1>1, <1>3, <1>5, AskedKept
<1>7. CASE pc' = "copy"
  <2>1. UNCHANGED toggling
    BY <1>1, <1>2, <1>7 DEF toggling
  <2> QED
    BY <1>1, <1>4, <1>5, <1>6, <1>7, <2>1, TogglingKept DEF ControlsInv
<1>8. CASE pc' = "enable"
  <2>1. toggle' = "SettingNullDeviceAsDefault"
    BY <1>2, <1>8
  <2>2. "toggledAgain" \notin unhandled' => ~Toggled
    BY <1>2, <1>8
  <2>3. default = "null" => listed /\ Overtaken'
    <3>1. default = "null" => Toggled /\ listed
      BY DEF ControlsInv, Dispatched, Toggled
    <3>2. default = "null" => "getDefault" \in unhandled'
      BY <1>2, <1>8
    <3> QED
      BY <2>2, <3>1, <3>2 DEF Overtaken
  <2>4. TogglingTypes' /\ Dispatched'
    BY <1>1, <1>3, <2>1, <2>3 DEF ControlsInv, TogglingTypes, ToggleStates, Dispatched
  <2>5. "toggledAgain" \notin unhandled' => default # "null"
    BY <2>2 DEF ControlsInv, Dispatched, Toggled
  <2>6. ToggledOnce'
    BY <1>1, <1>3, <1>8, <2>1, <2>2, <2>5 DEF Toggled, ToggledOnce
  <2> QED
    BY <1>4, <1>5, <1>6, <2>4, <2>6 DEF ControlsInv
<1> QED
  BY <1>1, <1>7, <1>8

LEMMA EnableNullKeeps ==
  ASSUME ControlsInv, EnableNullDevice
  PROVE  ControlsInv'
<1>1. /\ alive /\ pc = "enable" /\ pc' = "copy"
      /\ \/ nullActive' = TRUE /\ toggle' = toggle /\ Succeeds
         \/ toggle' = "NotToggling" /\ nullActive' = nullActive /\ Throws("enableNull")
      /\ UNCHANGED <<output, active, value, valueChanged, skipped, driver, listed, default,
                     devicesChanged, blocks, disabling, alive>>
  BY DEF EnableNullDevice
<1>2. OtherTypes' /\ changes' = changes /\ changes \in Nat /\ unhandled \subseteq unhandled'
  BY <1>1, CalledKeeps DEF Unhandled, SwallowedCalls
<1>3. SyncTypes' /\ Copied'
  BY <1>1 DEF ControlsInv, SyncTypes, Copied
<1>4. DriverTypes' /\ Counted' /\ Asked'
  BY <1>1, <1>2, AskedKept
<1>5. TogglingTypes'
  BY <1>1 DEF ControlsInv, TogglingTypes, ToggleStates
<1>6. CASE nullActive' = TRUE /\ toggle' = toggle
  BY <1>1, <1>2, <1>3, <1>4, <1>5, <1>6 DEF ControlsInv, Dispatched, Overtaken, ToggledOnce
<1>7. CASE toggle' = "NotToggling" /\ nullActive' = nullActive /\ Throws("enableNull")
  <2>1. "enableNull" \in unhandled'
    BY <1>7 DEF Throws
  <2>2. "toggledAgain" \notin unhandled' => default # "null" /\ ~nullActive /\ ~listed
    BY <1>1, <1>2 DEF ControlsInv, ToggledOnce
  <2>3. Dispatched'
    BY <1>1, <1>7, <2>1, <2>2 DEF ControlsInv, Dispatched, Overtaken
  <2>4. ToggledOnce'
    BY <1>1, <1>7, <2>2 DEF ToggledOnce
  <2> QED
    BY <1>2, <1>3, <1>4, <1>5, <2>3, <2>4 DEF ControlsInv
<1> QED
  BY <1>1, <1>6, <1>7

LEMMA CopyKeeps ==
  ASSUME ControlsInv, CopyFromOutput
  PROVE  ControlsInv'
<1> DEFINE copied == Has[output] \cap enabled
<1>1. /\ alive /\ pc = "copy" /\ pc' = "listen" /\ skipped' = Has[output] \ enabled
      /\ value' = [c \in Control |->
                     IF c \in copied THEN [value[c] EXCEPT !["bgm"] = value[c]["output"]]
                     ELSE value[c]]
      /\ valueChanged' = valueChanged \cup {c \in copied : value[c]["bgm"] # value[c]["output"]}
      /\ UNCHANGED <<output, active, driver, null, toggling, alive, counters, unhandled>>
  BY DEF CopyFromOutput
<1>2. /\ Has[output] \subseteq Control /\ output \in OutputDevice
      /\ \A c \in Control : value[c] \in [{"bgm", "output"} -> 0 .. 1]
  BY ControlsAssumption DEF ControlsInv, SyncTypes
<1>3. \A c \in Control :
        /\ value'[c] \in [{"bgm", "output"} -> 0 .. 1]
        /\ c \in copied => value'[c]["bgm"] = value'[c]["output"]
  BY <1>1, <1>2
<1>4. SyncTypes'
  BY <1>1, <1>2, <1>3 DEF ControlsInv, SyncTypes
<1>5. UNCHANGED enabled
  BY <1>1 DEF driver
<1>6. Copied'
  BY <1>1, <1>2, <1>3, <1>5 DEF Copied
<1>7. OtherTypes' /\ DriverTypes' /\ Counted' /\ Asked'
  BY <1>1, OthersKept, AskedKept
<1>8. TogglingTypes' /\ Dispatched' /\ ToggledOnce'
  BY <1>1, TogglingKept
<1> QED
  BY <1>4, <1>6, <1>7, <1>8 DEF ControlsInv

(* The steps that are about values and listeners only.                       *)
LEMMA SyncStepKeeps ==
  ASSUME ControlsInv, UNCHANGED <<output, driver, null, toggling, alive, unhandled>>,
         OtherTypes', changes' = changes, SyncTypes', Copied',
         pc' = pc \/ (pc = "listen" /\ pc' = "idle")
  PROVE  ControlsInv'
<1>1. TogglingTypes' /\ Dispatched' /\ ToggledOnce'
  BY TogglingKept
<1>2. changes \in Nat
  BY ControlsAssumption DEF ControlsInv, OtherTypes
<1>3. DriverTypes' /\ Counted' /\ Asked'
  BY <1>2, AskedKept
<1> QED
  BY <1>1, <1>3 DEF ControlsInv

LEMMA AddListenersKeeps ==
  ASSUME ControlsInv, AddListeners
  PROVE  ControlsInv'
<1>1. /\ alive /\ pc = "listen" /\ pc' = "idle" /\ active' = TRUE
      /\ UNCHANGED <<output, value, valueChanged, skipped, driver, null, toggling, alive,
                     counters, unhandled>>
  BY DEF AddListeners
<1>2. UNCHANGED <<enabled, pending>>
  BY <1>1 DEF driver
<1>3. SyncTypes' /\ Copied'
  BY <1>1, <1>2 DEF ControlsInv, SyncTypes, Copied
<1> QED
  BY <1>1, <1>3, OthersKept, SyncStepKeeps

LEMMA ListenerKeeps ==
  ASSUME ControlsInv, BGMDeviceListenerProc
  PROVE  ControlsInv'
<1>1. PICK c \in valueChanged :
        LET copied == c \in Has[output] \cap enabled IN
        /\ valueChanged' = valueChanged \ {c}
        /\ value' = IF copied
                    THEN [value EXCEPT ![c]["output"] = value[c]["bgm"]] ELSE value
        /\ skipped' = IF copied THEN skipped \ {c} ELSE skipped
  BY DEF BGMDeviceListenerProc
<1>2. /\ alive /\ pc = "idle" /\ active
      /\ UNCHANGED <<output, active, pc, driver, null, toggling, alive, counters, unhandled>>
  BY DEF BGMDeviceListenerProc
<1>3. /\ c \in Control /\ Has[output] \subseteq Control /\ value \in [Control -> [{"bgm", "output"} -> 0 .. 1]]
      /\ \A k \in Control : value[k] \in [{"bgm", "output"} -> 0 .. 1]
  BY ControlsAssumption DEF ControlsInv, SyncTypes
<1>4. /\ \A k \in Control \ {c} : value'[k] = value[k]
      /\ value' \in [Control -> [{"bgm", "output"} -> 0 .. 1]]
      /\ c \in Has[output] \cap enabled => value'[c]["bgm"] = value'[c]["output"]
      /\ c \notin Has[output] \cap enabled => value'[c] = value[c]
  BY <1>1, <1>3
<1>5. SyncTypes'
  BY <1>1, <1>2, <1>4 DEF ControlsInv, SyncTypes
<1>6. UNCHANGED <<enabled, pending>>
  BY <1>2 DEF driver
<1>7. \A k \in Has[output] \ skipped' :
        /\ k \in enabled \/ k \notin pending
        /\ k \in enabled => value'[k]["bgm"] = value'[k]["output"] \/ k \in valueChanged'
  <2> SUFFICES ASSUME NEW k \in Has[output] \ skipped'
               PROVE  /\ k \in enabled \/ k \notin pending
                      /\ k \in enabled => value'[k]["bgm"] = value'[k]["output"] \/ k \in valueChanged'
    OBVIOUS
  <2>1. CASE k = c /\ k \in enabled
    BY <1>4, <2>1
  <2>2. CASE k # c \/ k \notin enabled
    <3>1. k \in Has[output] \ skipped
      BY <1>1, <2>2
    <3>2. k \in enabled => k # c /\ value'[k] = value[k]
      BY <1>3, <1>4, <2>2
    <3> QED
      BY <1>1, <1>2, <3>1, <3>2 DEF ControlsInv, Copied
  <2> QED
    BY <2>1, <2>2
<1>8. Copied'
  BY <1>2, <1>6, <1>7 DEF Copied
<1> QED
  BY <1>2, <1>5, <1>8, OthersKept, SyncStepKeeps

LEMMA NobodyListensKeeps ==
  ASSUME ControlsInv, NobodyListens
  PROVE  ControlsInv'
<1>1. PICK c \in valueChanged :
        /\ valueChanged' = valueChanged \ {c}
        /\ skipped' = IF pc = "listen" THEN skipped \cup {c} ELSE skipped
  BY DEF NobodyListens
<1>2. /\ alive /\ ~active
      /\ UNCHANGED <<output, active, pc, value, driver, null, toggling, alive, counters, unhandled>>
  BY DEF NobodyListens
<1>3. UNCHANGED <<enabled, pending>> /\ pc # "idle"
  BY <1>2 DEF driver, ControlsInv, Copied
<1>4. SyncTypes' /\ Copied'
  BY <1>1, <1>2, <1>3 DEF ControlsInv, SyncTypes, Copied
<1> QED
  BY <1>2, <1>4, OthersKept, SyncStepKeeps

-----------------------------------------------------------------------------
(* Toggling the default device.                                              *)

LEMMA TogglingStepKeeps ==
  ASSUME ControlsInv, UNCHANGED <<sync, driver, alive>>,
         Succeeds \/ \E call \in Unhandled : Throws(call),
         TogglingTypes', Dispatched', ToggledOnce'
  PROVE  ControlsInv'
<1>1. UNCHANGED <<output, pc, enabled, pending>>
  BY DEF sync, driver
<1>2. OtherTypes' /\ changes' = changes /\ changes \in Nat /\ unhandled \subseteq unhandled'
  BY CalledKeeps
<1>3. SyncTypes' /\ Copied'
  BY <1>1, CopiedKept
<1>4. DriverTypes' /\ Counted' /\ Asked'
  BY <1>1, <1>2, AskedKept
<1> QED
  BY <1>2, <1>3, <1>4 DEF ControlsInv

LEMMA DevicesListenerKeeps ==
  ASSUME ControlsInv, DevicesListener
  PROVE  ControlsInv'
<1>1. /\ devicesChanged' = FALSE
      /\ \/ toggle = "NotToggling" /\ blocks' = blocks
         \/ blocks' = blocks \cup {"toggle"}
      /\ UNCHANGED <<sync, driver, nullActive, listed, default, toggle, disabling, alive,
                     counters, unhandled>>
  BY DEF DevicesListener
<1>2. UNCHANGED pc
  BY <1>1 DEF sync
<1>3. TogglingTypes' /\ Dispatched'
  BY <1>1 DEF ControlsInv, TogglingTypes, Dispatched, Overtaken
<1>4. ToggledOnce'
  BY <1>1, <1>2 DEF ControlsInv, ToggledOnce
<1> QED
  BY <1>1, <1>3, <1>4, TogglingStepKeeps DEF Succeeds

LEMMA ToggleBlockKeeps ==
  ASSUME ControlsInv, ToggleBlock
  PROVE  ControlsInv'
<1>1. /\ \/ /\ toggle = "SettingNullDeviceAsDefault" /\ listed /\ default' = "null"
            /\ toggle' = "SettingBGMDeviceAsDefault"
            /\ blocks' = (blocks \ {"toggle"}) \cup {"toggleBack"} /\ Succeeds
         \/ /\ blocks' = blocks \ {"toggle"} /\ UNCHANGED <<default, toggle>>
            /\ \/ (toggle # "SettingNullDeviceAsDefault" \/ ~listed) /\ Succeeds
               \/ Throws("setNull")
      /\ UNCHANGED <<sync, driver, nullActive, listed, devicesChanged, disabling, alive>>
  BY DEF ToggleBlock
<1>2. UNCHANGED pc /\ unhandled \subseteq unhandled'
      /\ (Throws("setNull") => "setNull" \in unhandled')
  BY <1>1 DEF sync, Succeeds, Throws
<1>3. TogglingTypes' /\ Dispatched'
  BY <1>1, <1>2 DEF ControlsInv, TogglingTypes, ToggleStates, Dispatched, Overtaken
<1>4. ToggledOnce'
  BY <1>1, <1>2 DEF ControlsInv, ToggledOnce
<1>5. Succeeds \/ \E call \in Unhandled : Throws(call)
  BY <1>1 DEF Unhandled, SwallowedCalls
<1> QED
  BY <1>1, <1>3, <1>4, <1>5, TogglingStepKeeps

LEMMA ToggleBackBlockKeeps ==
  ASSUME ControlsInv, ToggleBackBlock
  PROVE  ControlsInv'
<1>1. /\ \/ /\ toggle = "SettingBGMDeviceAsDefault"
            /\ \/ default' = "bgm" /\ Succeeds
               \/ default' = default /\ Throws("setBGM")
            /\ toggle' = "DisablingNullDevice"
            /\ blocks' = (blocks \ {"toggleBack"}) \cup {"disable"}
         \/ /\ toggle # "SettingBGMDeviceAsDefault" /\ Succeeds
            /\ blocks' = blocks \ {"toggleBack"} /\ UNCHANGED <<default, toggle>>
      /\ UNCHANGED <<sync, driver, nullActive, listed, devicesChanged, disabling, alive>>
  BY DEF ToggleBackBlock
<1>2. UNCHANGED pc /\ unhandled \subseteq unhandled'
      /\ (Throws("setBGM") => "setBGM" \in unhandled')
  BY <1>1 DEF sync, Succeeds, Throws
<1>3. TogglingTypes' /\ Dispatched'
  BY <1>1, <1>2 DEF ControlsInv, TogglingTypes, ToggleStates, Dispatched, Overtaken
<1>4. ToggledOnce'
  BY <1>1, <1>2 DEF ControlsInv, ToggledOnce
<1>5. Succeeds \/ \E call \in Unhandled : Throws(call)
  BY <1>1 DEF Unhandled, SwallowedCalls
<1> QED
  BY <1>1, <1>3, <1>4, <1>5, TogglingStepKeeps

LEMMA DisableBlockKeeps ==
  ASSUME ControlsInv, DisableNullDeviceBlock
  PROVE  ControlsInv'
<1>1. /\ blocks' = blocks \ {"disable"}
      /\ \/ /\ toggle = "DisablingNullDevice" /\ toggle' = "NotToggling" /\ disabling' = TRUE
         \/ toggle # "DisablingNullDevice" /\ UNCHANGED <<toggle, disabling>>
      /\ UNCHANGED <<sync, driver, null, alive, counters, unhandled>>
  BY DEF DisableNullDeviceBlock
<1>2. UNCHANGED <<pc, nullActive, listed, default, devicesChanged>>
  BY <1>1 DEF sync, null
<1>3. TogglingTypes' /\ Dispatched'
  BY <1>1, <1>2 DEF ControlsInv, TogglingTypes, ToggleStates, Dispatched, Overtaken
<1>4. ToggledOnce'
  BY <1>1, <1>2 DEF ControlsInv, ToggledOnce
<1> QED
  BY <1>1, <1>3, <1>4, TogglingStepKeeps DEF Succeeds

LEMMA DisableNullKeeps ==
  ASSUME ControlsInv, DisableNullDevice
  PROVE  ControlsInv'
<1>1. /\ disabling /\ disabling' = FALSE
      /\ \/ nullActive' = FALSE /\ Succeeds
         \/ nullActive' = nullActive /\ Throws("disableNull")
      /\ UNCHANGED <<sync, driver, listed, default, devicesChanged, toggle, blocks, alive>>
  BY DEF DisableNullDevice
<1>2. UNCHANGED pc /\ unhandled \subseteq unhandled'
      /\ (Throws("disableNull") => "disableNull" \in unhandled')
  BY <1>1 DEF sync, Succeeds, Throws
<1>3. TogglingTypes' /\ Dispatched'
  BY <1>1, <1>2 DEF ControlsInv, TogglingTypes, Dispatched, Overtaken
<1>4. ToggledOnce'
  BY <1>1, <1>2 DEF ControlsInv, ToggledOnce
<1>5. Succeeds \/ \E call \in Unhandled : Throws(call)
  BY <1>1 DEF Unhandled, SwallowedCalls
<1> QED
  BY <1>1, <1>3, <1>4, <1>5, TogglingStepKeeps

-----------------------------------------------------------------------------
(* The user and other devices.                                               *)

LEMMA Outside ==
  ASSUME ControlsInv, Event, UNCHANGED <<alive, unhandled>>
  PROVE  OtherTypes' /\ changes' = changes /\ changes \in Nat
<1>1. others < MaxOthers /\ others' = others + 1 /\ changes' = changes
  BY DEF Event
<1> QED
  BY <1>1, ControlsAssumption DEF ControlsInv, OtherTypes

LEMMA UserSetsKeeps ==
  ASSUME ControlsInv, NEW c \in Control, UserSets(c)
  PROVE  ControlsInv'
<1>1. /\ c \in enabled /\ value' = [value EXCEPT ![c]["bgm"] = 1 - @]
      /\ valueChanged' = valueChanged \cup {c}
      /\ UNCHANGED <<output, active, pc, skipped, driver, null, toggling, alive, unhandled>>
  BY DEF UserSets
<1>2. OtherTypes' /\ changes' = changes
  BY <1>1, Outside DEF UserSets
<1>3. /\ value \in [Control -> [{"bgm", "output"} -> 0 .. 1]]
      /\ value[c] \in [{"bgm", "output"} -> 0 .. 1]
  BY DEF ControlsInv, SyncTypes
<1>4. 1 - value[c]["bgm"] \in 0 .. 1
  <2>1. value[c]["bgm"] \in 0 .. 1
    BY <1>3
  <2> QED
    BY <2>1
<1>5. /\ value' \in [Control -> [{"bgm", "output"} -> 0 .. 1]]
      /\ \A k \in Control \ {c} : value'[k] = value[k]
  BY <1>1, <1>3, <1>4
<1>6. SyncTypes'
  BY <1>1, <1>5 DEF ControlsInv, SyncTypes
<1>7. UNCHANGED <<enabled, pending>> /\ Has[output] \subseteq Control
  BY <1>1, ControlsAssumption DEF driver, ControlsInv, SyncTypes
<1>8. Copied'
  BY <1>1, <1>5, <1>7 DEF ControlsInv, Copied
<1> QED
  BY <1>1, <1>2, <1>6, <1>8, SyncStepKeeps

LEMMA DefaultKeeps ==
  ASSUME ControlsInv, UserChangesDefault \/ OtherDeviceComesOrGoes
  PROVE  ControlsInv'
<1>1. /\ Event
      /\ default' \in {"bgm", "other"} \/ default' = default
      /\ devicesChanged' = devicesChanged \/ devicesChanged' = TRUE
      /\ UNCHANGED <<sync, driver, nullActive, listed, toggling, alive, unhandled>>
  BY DEF UserChangesDefault, OtherDeviceComesOrGoes
<1>2. UNCHANGED <<output, pc, toggle, blocks, disabling, enabled, pending>>
  BY <1>1 DEF sync, toggling, driver
<1>3. OtherTypes' /\ changes' = changes /\ changes \in Nat
  BY <1>1, Outside
<1>4. SyncTypes' /\ Copied' /\ DriverTypes' /\ Counted' /\ Asked'
  BY <1>1, <1>2, <1>3, CopiedKept, AskedKept
<1>5. TogglingTypes' /\ Dispatched'
  BY <1>1, <1>2 DEF ControlsInv, TogglingTypes, Dispatched, Overtaken
<1>6. ToggledOnce'
  BY <1>1, <1>2 DEF ControlsInv, ToggledOnce
<1> QED
  BY <1>3, <1>4, <1>5, <1>6 DEF ControlsInv

LEMMA BGMAppGoesKeeps ==
  ASSUME ControlsInv, BGMAppGoes
  PROVE  ControlsInv'
<1>1. /\ alive /\ alive' = FALSE /\ RequestEnabledControls(Control)
      /\ others < MaxOthers /\ others' = others + 1 /\ changes' = changes
      /\ UNCHANGED <<sync, null, toggling>>
  BY DEF BGMAppGoes, Event
<1>2. UNCHANGED <<output, active, pc, value, valueChanged, skipped>>
      /\ UNCHANGED <<nullActive, listed, default, devicesChanged, toggle, blocks, disabling>>
  BY <1>1 DEF sync, null, toggling
<1>3. SyncTypes' /\ TogglingTypes' /\ Dispatched'
  BY <1>1, <1>2, RequestMade DEF ControlsInv, SyncTypes, TogglingTypes, Dispatched, Overtaken
<1>4. Copied'
  BY <1>1, <1>2 DEF ControlsInv, Copied
<1>5. DriverTypes' /\ OtherTypes'
  <2>1. changes \in 0 .. MaxChanges /\ others' \in 0 .. MaxOthers
    BY <1>1, ControlsAssumption DEF ControlsInv, OtherTypes
  <2>2. DriverTypes' /\ unhandled' \subseteq Unhandled
    BY <1>1, RequestMade
  <2> QED
    BY <1>1, <2>1, <2>2 DEF OtherTypes
<1>6. ToggledOnce'
  BY <1>1, <1>2, RequestMade DEF ControlsInv, ToggledOnce
<1>7. Counted'
  <2>1. /\ requests \in Nat /\ requests' \in Nat /\ requests' <= requests + 1
        /\ changes \in Nat /\ requests <= changes
    BY <1>1, <1>5, RequestMade, ControlsAssumption
       DEF ControlsInv, DriverTypes, OtherTypes, Counted
  <2>2. requests' <= changes + 1
    BY <2>1
  <2> QED
    BY <1>1, <2>2 DEF Counted
<1>8. Asked'
  BY <1>1, RequestMade DEF Asked, Wanted
<1> QED
  BY <1>3, <1>4, <1>5, <1>6, <1>7, <1>8 DEF ControlsInv

-----------------------------------------------------------------------------
LEMMA ControlsStep == ControlsInv /\ [ControlsNext]_controlsVars => ControlsInv'
<1> SUFFICES ASSUME ControlsInv, [ControlsNext]_controlsVars PROVE ControlsInv'
  OBVIOUS
<1>1. CASE UNCHANGED controlsVars
  <2>1. UNCHANGED <<sync, driver, null, toggling, alive, counters, unhandled>>
    BY <1>1 DEF controlsVars
  <2> QED
    BY <2>1, TogglingKept, TogglingStepKeeps DEF sync, Succeeds
<1>2. CASE PerformConfigChange \/ AbortConfigChange \/ HostUpdatesDevices
  BY <1>2, PerformKeeps, AbortKeeps, HostUpdatesKeeps
<1>3. CASE \E d \in OutputDevice : ChangeOutput(d)
  BY <1>3, ChangeOutputKeeps
<1>4. CASE Activate
  BY <1>4, MatchKeeps, RequestKeeps, PropagateKeeps, EnableNullKeeps, CopyKeeps,
     AddListenersKeeps DEF Activate
<1>5. CASE BGMDeviceListenerProc \/ NobodyListens
  BY <1>5, ListenerKeeps, NobodyListensKeeps
<1>6. CASE Toggling
  BY <1>6, DevicesListenerKeeps, ToggleBlockKeeps, ToggleBackBlockKeeps, DisableBlockKeeps,
     DisableNullKeeps DEF Toggling
<1>7. CASE \E c \in Control : UserSets(c)
  BY <1>7, UserSetsKeeps
<1>8. CASE UserChangesDefault \/ OtherDeviceComesOrGoes \/ BGMAppGoes
  BY <1>8, DefaultKeeps, BGMAppGoesKeeps
<1> QED
  BY <1>1, <1>2, <1>3, <1>4, <1>5, <1>6, <1>7, <1>8 DEF ControlsNext

\* What holds at every step, whatever devices with whatever controls there
\* are, and however changes and the user's doings cross.
THEOREM ControlsInvariance == ControlsSpec => []ControlsInv
  BY ControlsStart, ControlsStep, PTL DEF ControlsSpec

\* Every variable keeps its type, and there is at most one request for each
\* change of the output device and one for the end of BGMApp.
THEOREM ControlsTypeCorrect == ControlsSpec => []ControlsTypeOK
<1>1. ControlsInv => ControlsTypeOK
  <2> SUFFICES ASSUME ControlsInv PROVE ControlsTypeOK
    OBVIOUS
  <2>1. requests \in 0 .. MaxChanges + 1
    <3>1. requests \in Nat /\ changes \in Nat /\ requests <= changes + 1
          /\ changes <= MaxChanges /\ MaxChanges \in Nat
      BY ControlsAssumption DEF ControlsInv, DriverTypes, OtherTypes, Counted
    <3>2. requests <= MaxChanges + 1
      BY <3>1, MoreChanges
    <3> QED
      BY <3>1, <3>2
  <2> QED
    BY <2>1 DEF ControlsInv, SyncTypes, DriverTypes, TogglingTypes, OtherTypes, ControlsTypeOK
<1> QED
  BY <1>1, ControlsInvariance, PTL

\* The Null Device is not disabled while it is the default device, unless the HAL
\* refused to make BGMDevice the default again, or a second toggling of the
\* default device began before the first was over.
THEOREM NullStays == ControlsSpec => NullStaysWhileDefault
<1>1. ControlsInv => [DisableNullDevice /\ ~nullActive' =>
                        default # "null" \/ unhandled \cap {"setBGM", "toggledAgain"} # {}]_controlsVars
  BY DEF ControlsInv, Dispatched, Overtaken, ToggledOnce, DisableNullDevice
<1> QED
  BY <1>1, ControlsInvariance, PTL DEF NullStaysWhileDefault

\* Nothing of the toggling is under way.
AtRest ==
  /\ alive /\ pc # "enable" /\ blocks = {} /\ ~disabling
  /\ listed = nullActive /\ ~devicesChanged

\* While the Null Device is the default device, the block that makes BGMDevice
\* the default again is on its way, unless that was refused or overlapping
\* togglings lost it; and no toggling stops half way: once no notification, block
\* or call is under way the Null Device is hidden and not the default, with the
\* exceptions NullDeviceHiddenAgain names (whose safety part this is).
NullHidden ==
  /\ default = "null" => "toggleBack" \in blocks \/ "setBGM" \in unhandled \/ Overtaken
  /\ AtRest =>
       /\ ~nullActive \/ unhandled \cap {"toggledAgain", "setNull", "disableNull"} # {}
       /\ default # "null" \/ NullMayStayDefault

THEOREM NullDeviceSeenTo == ControlsSpec => []NullHidden
<1>1. ASSUME ControlsInv PROVE NullHidden
  <2>1. default = "null" => "toggleBack" \in blocks \/ "setBGM" \in unhandled \/ Overtaken
    BY <1>1 DEF ControlsInv, Dispatched
  <2>2. ASSUME AtRest, nullActive, "toggledAgain" \notin unhandled
        PROVE  /\ unhandled \cap {"setNull", "disableNull"} # {}
               /\ default = "null" => "disableNull" \in unhandled
    <3>1. toggle \in {"NotToggling", "SettingNullDeviceAsDefault"}
      BY <1>1, <2>2 DEF ControlsInv, TogglingTypes, ToggleStates, Dispatched, AtRest
    <3> QED
      BY <1>1, <2>2, <3>1 DEF ControlsInv, ToggledOnce, AtRest
  <2>3. ASSUME AtRest, default = "null" PROVE NullMayStayDefault
    <3>1. nullActive /\ ("setBGM" \in unhandled \/ Overtaken)
      BY <1>1, <2>1, <2>3 DEF ControlsInv, Dispatched, AtRest
    <3> QED
      BY <2>2, <2>3, <3>1 DEF Overtaken, NullMayStayDefault
  <2> QED
    BY <2>1, <2>2, <2>3 DEF NullHidden
<1> QED
  BY <1>1, ControlsInvariance, PTL

\* When no request is under way, and none is about to be made, BGMDevice has
\* the controls of the output device, or all of them when BGMApp has gone, unless
\* part of a request was ignored because of one under way, or one was aborted or
\* not made (the safety part of ControlsFollowOutput).
ControlsMatch ==
  requests = 0 /\ (alive => pc \notin {"match", "request"}) =>
    enabled = Wanted \/ unhandled \cap {"ignored", "abort", "match"} # {}

THEOREM ControlsMatched == ControlsSpec => []ControlsMatch
<1>1. ControlsInv => ControlsMatch
  BY DEF ControlsInv, Asked, Unsettled, ControlsMatch
<1> QED
  BY <1>1, ControlsInvariance, PTL

\* When no change of the output device or of a value is under way, every control
\* that both devices have has the same value on both, except those skipped
\* (the safety part of ValuesConverge).
ValuesEqual ==
  alive /\ pc = "idle" /\ valueChanged = {} =>
    \A c \in (enabled \cap Has[output]) \ skipped : value[c]["bgm"] = value[c]["output"]

THEOREM ValuesAgree == ControlsSpec => []ValuesEqual
<1>1. ControlsInv => ValuesEqual
  BY DEF ControlsInv, Copied, ValuesEqual
<1> QED
  BY <1>1, ControlsInvariance, PTL
=============================================================================
