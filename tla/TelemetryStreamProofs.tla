----------------------- MODULE TelemetryStreamProofs -----------------------
(***************************************************************************)
(* For any devices, viewers, watchers and capacity: types, no send on a    *)
(* closed channel, and why a watching viewer can fall silent.              *)
(***************************************************************************)
EXTENDS TelemetryStream, TLAPS

\* The registered channel belongs to a viewer of that device whose clean-up
\* has not yet taken it out of the map.
RegisteredIsOpen ==
    \A d \in Devices : subscribers[d] # NoOne =>
        /\ wants[subscribers[d]] = d
        /\ life[subscribers[d]] \in {"watching", "left"}

IInv == TypeOK /\ RegisteredIsOpen /\ SilencedOnlyByAnother

-----------------------------------------------------------------------------
\* Offering a sample to a channel keeps its type and its bound.
LEMMA OfferFacts ==
    ASSUME NEW c \in Seq(Samples), Len(c) <= Capacity, NEW x \in Samples
    PROVE  Offer(c, x) \in Seq(Samples) /\ Len(Offer(c, x)) <= Capacity
  BY StreamAssumption DEF Offer

\* Taking the first sample does too.
LEMMA TailFacts ==
    ASSUME NEW c \in Seq(Samples), c # <<>>, Len(c) <= Capacity
    PROVE  /\ Head(c) \in Samples
           /\ Tail(c) \in Seq(Samples)
           /\ Len(Tail(c)) <= Capacity
  BY StreamAssumption

\* At first no channel holds a sample and nobody is connected.
LEMMA TypeInit == Init => TypeOK
  <1> SUFFICES ASSUME Init PROVE TypeOK
    OBVIOUS
  <1>1. <<>> \in Seq(Samples) /\ Len(<<>>) = 0
    OBVIOUS
  <1> QED
    BY <1>1, StreamAssumption DEF Init, TypeOK, Stages, Streams

\* Senders: what a push or a round may hold, and what it does to a channel.
LEMMA SenderTypeOK ==
    ASSUME TypeOK,
           \/ StartRound \/ NextOfRound
           \/ \E p \in pushes : Push(p)
           \/ \E d \in Devices : WriteTelemetry(d)
    PROVE  TypeOK'
  <1>1. ASSUME NEW d \in Devices, WriteTelemetry(d) PROVE TypeOK'
    <2>1. newest[d] + 1 \in 1..MaxWrites /\ newest' \in [Devices -> 0..MaxWrites]
      BY <1>1, StreamAssumption DEF WriteTelemetry, TypeOK
    <2>2. pushes' \subseteq Pushes
      BY <1>1, <2>1 DEF WriteTelemetry, TypeOK, Pushes, Samples
    <2> QED
      BY <1>1, <2>1, <2>2 DEF WriteTelemetry, TypeOK
  <1>2. CASE StartRound
    <2>1. round' \subseteq Samples
      BY <1>2, StreamAssumption DEF StartRound, TypeOK, Samples
    <2> QED
      BY <1>2, <2>1 DEF StartRound, TypeOK
  <1>3. CASE NextOfRound
    <2>1. round' \subseteq Samples /\ pushes' \subseteq Pushes
      BY <1>3 DEF NextOfRound, TypeOK, Pushes
    <2> QED
      BY <1>3, <2>1 DEF NextOfRound, TypeOK
  <1>4. ASSUME NEW p \in pushes, PushToAll(p) PROVE TypeOK'
    <2>1. p \in Pushes /\ p.sample \in Samples
      BY DEF TypeOK, Pushes
    <2>2. pushes' \subseteq Pushes
      BY <1>4, <2>1 DEF PushToAll, TypeOK, Pushes
    <2>3. allDevices' \in Seq(Samples) /\ Len(allDevices') <= Capacity
      BY <1>4, <2>1, OfferFacts DEF PushToAll, TypeOK
    <2> QED
      BY <1>4, <2>2, <2>3 DEF PushToAll, TypeOK
  <1>5. ASSUME NEW p \in pushes, PushToOne(p) PROVE TypeOK'
    <2>1. p.sample \in Samples /\ p.sample[1] \in Devices
      BY DEF TypeOK, Pushes, Samples
    <2>2. ch' \in [Streams -> Seq(Samples)] /\ \A s \in Streams : Len(ch'[s]) <= Capacity
      <3> DEFINE v == subscribers[p.sample[1]]
      <3>1. CASE v = NoOne
        BY <1>5, <3>1 DEF PushToOne, TypeOK
      <3>2. CASE v # NoOne
        <4>1. v \in Streams
          BY <2>1, <3>2 DEF TypeOK, Streams
        <4>2. ch' = [ch EXCEPT ![v] = Offer(ch[v], p.sample)]
          BY <1>5, <3>2 DEF PushToOne
        <4>3. Offer(ch[v], p.sample) \in Seq(Samples) /\ Len(Offer(ch[v], p.sample)) <= Capacity
          BY <2>1, <4>1, OfferFacts DEF TypeOK
        <4> QED
          BY <4>1, <4>2, <4>3 DEF TypeOK
      <3> QED
        BY <3>1, <3>2
    <2>3. pushes' \subseteq Pushes
      BY <1>5 DEF PushToOne, TypeOK
    <2> QED
      BY <1>5, <2>2, <2>3 DEF PushToOne, TypeOK
  <1> QED
    BY <1>1, <1>2, <1>3, <1>4, <1>5 DEF Push

\* Streams: registering, clean-up, forwarding and reading.
LEMMA StreamTypeOK ==
    ASSUME TypeOK,
           \/ \E v \in Viewers : Subscribe(v) \/ ViewerSteps(v)
           \/ \E w \in Watchers : Watch(w) \/ Receive(w) \/ Forward(w) \/ CloseWatcher(w)
           \/ \E s \in Streams : Read(s) \/ Leave(s)
    PROVE  TypeOK'
  <1>1. ASSUME NEW s \in Streams, NEW stage \in Stages, Become(s, stage)
        PROVE  life' \in [Streams -> Stages]
    BY <1>1 DEF Become, TypeOK
  <1>2. ASSUME NEW v \in Viewers, Subscribe(v) \/ ViewerSteps(v) PROVE TypeOK'
    <2>1. v \in Streams /\ "watching" \in Stages /\ "unsubscribed" \in Stages /\ "closed" \in Stages
      BY DEF Streams, Stages
    <2>2. life' \in [Streams -> Stages]
      BY <1>1, <1>2, <2>1 DEF Subscribe, ViewerSteps, Unsubscribe, CloseViewer
    <2>3. subscribers' \in [Devices -> Viewers \cup {NoOne}]
      BY <1>2 DEF Subscribe, ViewerSteps, Unsubscribe, CloseViewer, MapWithout, TypeOK
    <2> QED
      BY <1>2, <2>2, <2>3 DEF Subscribe, ViewerSteps, Unsubscribe, CloseViewer, TypeOK
  <1>3. ASSUME NEW w \in Watchers, Watch(w) \/ CloseWatcher(w) PROVE TypeOK'
    <2>1. w \in Streams /\ "watching" \in Stages /\ "closed" \in Stages
      BY DEF Streams, Stages
    <2>2. life' \in [Streams -> Stages]
      BY <1>1, <1>3, <2>1 DEF Watch, CloseWatcher
    <2> QED
      BY <1>3, <2>2 DEF Watch, CloseWatcher, TypeOK
  <1>4. ASSUME NEW w \in Watchers, Receive(w) PROVE TypeOK'
    <2>1. Head(allDevices) \in Samples /\ Tail(allDevices) \in Seq(Samples)
          /\ Len(Tail(allDevices)) <= Capacity
      BY <1>4, TailFacts DEF Receive, TypeOK
    <2> QED
      BY <1>4, <2>1 DEF Receive, TypeOK
  <1>5. ASSUME NEW w \in Watchers, Forward(w) PROVE TypeOK'
    <2>1. w \in Streams /\ hand[w] \in Samples
      BY <1>5 DEF Forward, TypeOK, Streams
    <2>2. ch[w] \in Seq(Samples) /\ Len(ch[w]) < Capacity
      BY <1>5, <2>1 DEF Forward, TypeOK
    <2>3. Append(ch[w], hand[w]) \in Seq(Samples) /\ Len(Append(ch[w], hand[w])) <= Capacity
      BY <2>1, <2>2, StreamAssumption
    <2>4. ch' = [ch EXCEPT ![w] = Append(ch[w], hand[w])]
      BY <1>5 DEF Forward
    <2>5. ch' \in [Streams -> Seq(Samples)] /\ \A s \in Streams : Len(ch'[s]) <= Capacity
      BY <2>1, <2>3, <2>4 DEF TypeOK
    <2> QED
      BY <1>5, <2>5 DEF Forward, TypeOK
  <1>6. ASSUME NEW s \in Streams, Read(s) PROVE TypeOK'
    <2>1. ch[s] \in Seq(Samples) /\ ch[s] # <<>> /\ Len(ch[s]) <= Capacity
      BY <1>6 DEF Read, TypeOK
    <2>2. Tail(ch[s]) \in Seq(Samples) /\ Len(Tail(ch[s])) <= Capacity
      BY <2>1, TailFacts
    <2>3. ch' \in [Streams -> Seq(Samples)] /\ \A r \in Streams : Len(ch'[r]) <= Capacity
      BY <1>6, <2>2 DEF Read, TypeOK
    <2> QED
      BY <1>6, <2>3 DEF Read, TypeOK
  <1>7. ASSUME NEW s \in Streams, Leave(s) PROVE TypeOK'
    <2>1. life' \in [Streams -> Stages]
      BY <1>1, <1>7 DEF Leave, Stages
    <2> QED
      BY <1>7, <2>1 DEF Leave, TypeOK
  <1> QED
    BY <1>2, <1>3, <1>4, <1>5, <1>6, <1>7

-----------------------------------------------------------------------------
\* Only Subscribe, Unsubscribe, CloseViewer and Leave touch what the map and
\* the life of viewers say.
LEMMA MapSteps ==
    ASSUME IInv, NEW v \in Viewers, Subscribe(v) \/ ViewerSteps(v) \/ Leave(v)
    PROVE  RegisteredIsOpen' /\ SilencedOnlyByAnother'
  <1> USE StreamAssumption
      DEF IInv, TypeOK, RegisteredIsOpen, SilencedOnlyByAnother, Streams, Become
  <1>1. CASE Subscribe(v)
    BY <1>1 DEF Subscribe
  <1>2. CASE Unsubscribe(v)
    BY <1>2 DEF Unsubscribe, MapWithout, Done
  <1>3. CASE CloseViewer(v)
    BY <1>3 DEF CloseViewer
  <1>4. CASE Leave(v)
    BY <1>4 DEF Leave
  <1> QED
    BY <1>1, <1>2, <1>3, <1>4 DEF ViewerSteps

\* Every other step leaves the map and the viewers' lives alone.
LEMMA OtherSteps ==
    ASSUME IInv, subscribers' = subscribers, wants' = wants,
           \A v \in Viewers : life'[v] = life[v]
    PROVE  RegisteredIsOpen' /\ SilencedOnlyByAnother'
  BY StreamAssumption DEF IInv, TypeOK, RegisteredIsOpen, SilencedOnlyByAnother, Streams

\* Steps of a watcher leave the map and the viewers alone.
LEMMA WatcherSteps ==
    ASSUME IInv, NEW w \in Watchers,
           Watch(w) \/ Receive(w) \/ Forward(w) \/ CloseWatcher(w) \/ Leave(w)
    PROVE  RegisteredIsOpen' /\ SilencedOnlyByAnother'
  <1>1. \A v \in Viewers : v # w
    BY StreamAssumption
  <1>2. /\ subscribers' = subscribers /\ wants' = wants
        /\ \A v \in Viewers : life'[v] = life[v]
    BY <1>1 DEF IInv, TypeOK, Streams, Become, Watch, Receive, Forward, CloseWatcher, Leave
  <1> QED
    BY <1>2, OtherSteps

\* So do the steps of publisher, writers and clients.
LEMMA SenderSteps ==
    ASSUME IInv,
           \/ StartRound \/ NextOfRound
           \/ \E p \in pushes : Push(p)
           \/ \E d \in Devices : WriteTelemetry(d)
           \/ \E s \in Streams : Read(s)
    PROVE  RegisteredIsOpen' /\ SilencedOnlyByAnother'
  <1>1. subscribers' = subscribers /\ wants' = wants /\ life' = life
    BY DEF StartRound, NextOfRound, Push, PushToAll, PushToOne, WriteTelemetry, Read
  <1> QED
    BY <1>1, OtherSteps

\* At first the map is empty.
LEMMA InitInv == Init => IInv
  <1>1. Init => RegisteredIsOpen /\ SilencedOnlyByAnother
    BY DEF Init, RegisteredIsOpen, SilencedOnlyByAnother, Streams
  <1> QED
    BY <1>1, TypeInit DEF IInv

\* Every step keeps the inductive invariant, ...
LEMMA StepInv == IInv /\ [Next]_vars => IInv'
  <1> SUFFICES ASSUME IInv, [Next]_vars PROVE IInv'
    OBVIOUS
  <1>0. TypeOK
    BY DEF IInv
  <1>1. CASE Publish \/ (\E p \in pushes : Push(p)) \/ \E d \in Devices : WriteTelemetry(d)
    <2>1. \/ StartRound \/ NextOfRound
          \/ \E p \in pushes : Push(p)
          \/ \E d \in Devices : WriteTelemetry(d)
      BY <1>1 DEF Publish, Publishing
    <2>2. TypeOK'
      BY <1>0, <2>1, SenderTypeOK
    <2>3. RegisteredIsOpen' /\ SilencedOnlyByAnother'
      BY <2>1, SenderSteps
    <2> QED
      BY <2>2, <2>3 DEF IInv
  <1>2. ASSUME NEW v \in Viewers, Subscribe(v) \/ ViewerSteps(v) PROVE IInv'
    BY <1>0, <1>2, StreamTypeOK, MapSteps DEF IInv
  <1>3. ASSUME NEW w \in Watchers, Watch(w) \/ Receive(w) \/ Forward(w) \/ CloseWatcher(w)
        PROVE  IInv'
    BY <1>0, <1>3, StreamTypeOK, WatcherSteps DEF IInv
  <1>4. ASSUME NEW s \in Streams, Read(s) PROVE IInv'
    BY <1>0, <1>4, StreamTypeOK, SenderSteps DEF IInv
  <1>5. ASSUME NEW s \in Streams, Leave(s) PROVE IInv'
    <2>1. TypeOK'
      BY <1>0, <1>5, StreamTypeOK
    <2>2. RegisteredIsOpen' /\ SilencedOnlyByAnother'
      BY <1>5, MapSteps, WatcherSteps DEF Streams
    <2> QED
      BY <2>1, <2>2 DEF IInv
  <1>6. CASE UNCHANGED vars
    BY <1>6 DEF vars, IInv, TypeOK, RegisteredIsOpen, SilencedOnlyByAnother
  <1> QED
    BY <1>1, <1>2, <1>3, <1>4, <1>5, <1>6 DEF Next

\* ... so it holds always.
LEMMA StreamInv == Spec => []IInv
  BY InitInv, StepInv, PTL DEF Spec

-----------------------------------------------------------------------------
\* Types, and no channel above its capacity, for any number of streams.
THEOREM StreamTypes == Spec => []TypeOK
  <1>1. IInv => TypeOK
    BY DEF IInv
  <1> QED
    BY <1>1, StreamInv, PTL

\* The publisher and the write goroutines never send on a closed channel.
THEOREM StreamNeverSendsOnClosed == Spec => []NeverSendOnClosed
  <1>1. IInv => NeverSendOnClosed
    BY DEF IInv, RegisteredIsOpen, NeverSendOnClosed
  <1> QED
    BY <1>1, StreamInv, PTL

\* A watching viewer is silenced only by another viewer of its device.
THEOREM StreamSilencedOnlyByAnother == Spec => []SilencedOnlyByAnother
  <1>1. IInv => SilencedOnlyByAnother
    BY DEF IInv
  <1> QED
    BY <1>1, StreamInv, PTL
=============================================================================
