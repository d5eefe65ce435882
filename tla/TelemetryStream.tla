-------------------------- MODULE TelemetryStream --------------------------
(***************************************************************************)
(* internal/service/telemetry: how samples reach the streams.  Every       *)
(* successful write starts a goroutine that pushes its sample, and a       *)
(* publisher re-reads the newest sample of every device once a second and  *)
(* pushes those.  A push offers the sample to the allDevices channel and   *)
(* then, under s.mu, to the channel registered for its device; both sends  *)
(* are dropped when the channel is full.                                   *)
(*                                                                         *)
(* A viewer is one call of StreamDevice with its channel and its goroutine *)
(* that waits for ctx.Done; a watcher is one call of StreamAllDevices with *)
(* its forwarding goroutine.  Their consumers read until they go away.     *)
(***************************************************************************)
EXTENDS Integers, Sequences, FiniteSets

CONSTANTS Devices,    \* serial numbers
          Viewers,    \* calls of StreamDevice
          Watchers,   \* calls of StreamAllDevices
          Capacity,   \* of every channel; 100 in the code
          MaxWrites,  \* bound: no more writes once a device has this many
          NoOne       \* no channel registered, no sample in hand

ASSUME StreamAssumption ==
    /\ Capacity \in Nat \ {0}
    /\ MaxWrites \in Nat
    /\ Viewers \cap Watchers = {}
    /\ NoOne \notin Viewers

Streams == Viewers \cup Watchers

VARIABLES
    newest,       \* InfluxDB: number of the newest sample of each device
    wants,        \* the device each viewer asks for
    life,         \* how far each stream has come
    subscribers,  \* s.subscribers: the viewer whose channel is registered
    ch,           \* the samples in each stream's channel
    allDevices,   \* the samples in s.allDevices
    hand,         \* the sample a forwarder has received and not passed on
    pushes,       \* pushes under way: who, which sample, which send is next
    round         \* samples the publisher still has to push in this round

vars == <<newest, wants, life, subscribers, ch, allDevices, hand, pushes, round>>

Samples == Devices \X (1..MaxWrites)

Pushes == [by : {"write", "publisher"}, sample : Samples, next : {"all", "one"}]

Stages == {"absent", "watching", "left", "unsubscribed", "closed"}

Init ==
    /\ newest = [d \in Devices |-> 0]
    /\ wants \in [Viewers -> Devices]
    /\ life = [s \in Streams |-> "absent"]
    /\ subscribers = [d \in Devices |-> NoOne]
    /\ ch = [s \in Streams |-> <<>>]
    /\ allDevices = <<>>
    /\ hand = [w \in Watchers |-> <<>>]
    /\ pushes = {}
    /\ round = {}

Become(s, stage) == life' = [life EXCEPT ![s] = stage]

\* Fault: one sample more than the channel has room for.
OfferAtLimit(c, x) == IF Len(c) <= Capacity THEN Append(c, x) ELSE c

\* select { case c <- x: default: }
Offer(c, x) == IF Len(c) < Capacity THEN Append(c, x) ELSE c

-----------------------------------------------------------------------------
(* Senders *)

\* WriteTelemetry: InfluxDB has taken the sample, the goroutine is started.
WriteTelemetry(d) ==
    /\ \A e \in Devices : newest[e] < MaxWrites
    /\ newest' = [newest EXCEPT ![d] = @ + 1]
    /\ pushes' = pushes \cup
          {[by |-> "write", sample |-> <<d, newest[d] + 1>>, next |-> "all"]}
    /\ UNCHANGED <<wants, life, subscribers, ch, allDevices, hand, round>>

Publishing == {p \in pushes : p.by = "publisher"}

\* startPublisher, a tick whose GetAllLatest succeeds.
StartRound ==
    /\ round = {} /\ Publishing = {}
    /\ round' = {<<d, newest[d]>> : d \in {e \in Devices : newest[e] > 0}}
    /\ round' # {}
    /\ UNCHANGED <<newest, wants, life, subscribers, ch, allDevices, hand, pushes>>

\* for _, t := range data: the next sample, in any order.
NextOfRound ==
    /\ Publishing = {}
    /\ \E x \in round :
          /\ round' = round \ {x}
          /\ pushes' = pushes \cup {[by |-> "publisher", sample |-> x, next |-> "all"]}
    /\ UNCHANGED <<newest, wants, life, subscribers, ch, allDevices, hand>>

\* Fault: no default case, the send to allDevices waits for room.
WaitsForRoom(c) == Len(c) < Capacity

\* The default case makes the select ready whatever the channel holds.
SelectReady(c) == TRUE

PushToAll(p) ==
    /\ p.next = "all"
    /\ SelectReady(allDevices)
    /\ allDevices' = Offer(allDevices, p.sample)
    /\ pushes' = (pushes \ {p}) \cup {[p EXCEPT !.next = "one"]}
    /\ UNCHANGED <<newest, wants, life, subscribers, ch, hand, round>>

\* Under s.mu.RLock: look the device up and offer the sample.
PushToOne(p) ==
    /\ p.next = "one"
    /\ LET v == subscribers[p.sample[1]] IN
          ch' = IF v = NoOne THEN ch ELSE [ch EXCEPT ![v] = Offer(@, p.sample)]
    /\ pushes' = pushes \ {p}
    /\ UNCHANGED <<newest, wants, life, subscribers, allDevices, hand, round>>

Push(p) == PushToAll(p) \/ PushToOne(p)

-----------------------------------------------------------------------------
\* Fault: a viewer whose channel was replaced skips its clean-up.
DoneIfRegistered(s) ==
    life[s] = "left" /\ (s \in Viewers => subscribers[wants[s]] = s)

\* ctx.Done() is closed.
Done(s) == life[s] = "left"

(* StreamDevice *)

\* The channel is registered for the device, over any earlier one.
Subscribe(v) ==
    /\ life[v] = "absent"
    /\ Become(v, "watching")
    /\ subscribers' = [subscribers EXCEPT ![wants[v]] = v]
    /\ UNCHANGED <<newest, wants, ch, allDevices, hand, pushes, round>>

\* Faults: the entry stays in the map; the whole map is made anew.
MapKept(d) == subscribers
MapCleared(d) == [e \in Devices |-> NoOne]

MapWithout(d) == [subscribers EXCEPT ![d] = NoOne]

\* <-ctx.Done(), then delete(s.subscribers, deviceSN) under s.mu: whichever
\* channel is registered for the device by now.
Unsubscribe(v) ==
    /\ Done(v)
    /\ subscribers' = MapWithout(wants[v])
    /\ Become(v, "unsubscribed")
    /\ UNCHANGED <<newest, wants, ch, allDevices, hand, pushes, round>>

\* close(telemetryChan), after s.mu is released.
CloseViewer(v) ==
    /\ life[v] = "unsubscribed"
    /\ Become(v, "closed")
    /\ UNCHANGED <<newest, wants, subscribers, ch, allDevices, hand, pushes, round>>

-----------------------------------------------------------------------------
(* StreamAllDevices *)

Watch(w) ==
    /\ life[w] = "absent"
    /\ Become(w, "watching")
    /\ UNCHANGED <<newest, wants, subscribers, ch, allDevices, hand, pushes, round>>

\* The forwarder has a sample in hand only until its blocking send succeeds.
Receive(w) ==
    /\ life[w] \in {"watching", "left"}
    /\ hand[w] = <<>>
    /\ allDevices # <<>>
    /\ hand' = [hand EXCEPT ![w] = Head(allDevices)]
    /\ allDevices' = Tail(allDevices)
    /\ UNCHANGED <<newest, wants, life, subscribers, ch, pushes, round>>

Forward(w) ==
    /\ hand[w] # <<>>
    /\ Len(ch[w]) < Capacity
    /\ ch' = [ch EXCEPT ![w] = Append(@, hand[w])]
    /\ hand' = [hand EXCEPT ![w] = <<>>]
    /\ UNCHANGED <<newest, wants, life, subscribers, allDevices, pushes, round>>

\* The select sees ctx.Done: close(telemetryChan) and return.
CloseWatcher(w) ==
    /\ Done(w)
    /\ hand[w] = <<>>
    /\ Become(w, "closed")
    /\ UNCHANGED <<newest, wants, subscribers, ch, allDevices, hand, pushes, round>>

-----------------------------------------------------------------------------
(* The handler that consumes a stream. *)

Read(s) ==
    /\ life[s] = "watching"
    /\ ch[s] # <<>>
    /\ ch' = [ch EXCEPT ![s] = Tail(@)]
    /\ UNCHANGED <<newest, wants, life, subscribers, allDevices, hand, pushes, round>>

\* The client disconnects: ctx is done and nobody reads any more.
Leave(s) ==
    /\ life[s] = "watching"
    /\ Become(s, "left")
    /\ UNCHANGED <<newest, wants, subscribers, ch, allDevices, hand, pushes, round>>

ViewerSteps(v) == Unsubscribe(v) \/ CloseViewer(v)

Publish == StartRound \/ NextOfRound \/ \E p \in Publishing : Push(p)

Next ==
    \/ Publish
    \/ \E p \in pushes : Push(p)
    \/ \E d \in Devices : WriteTelemetry(d)
    \/ \E v \in Viewers : Subscribe(v) \/ ViewerSteps(v)
    \/ \E w \in Watchers : Watch(w) \/ Receive(w) \/ Forward(w) \/ CloseWatcher(w)
    \/ \E s \in Streams : Read(s) \/ Leave(s)

Spec == Init /\ [][Next]_vars

\* Runnable goroutines are scheduled and the ticker fires.  A select with
\* several ready cases takes each of them again and again (Go chooses at
\* random), hence the strong fairness of the return on ctx.Done.  Clients owe
\* nothing: they may stop reading, and need never leave.
FairSpec ==
    /\ Spec
    /\ WF_vars(Publish)
    /\ \A v \in Viewers : WF_vars(ViewerSteps(v))
    /\ \A w \in Watchers :
          WF_vars(Receive(w)) /\ WF_vars(Forward(w)) /\ SF_vars(CloseWatcher(w))

-----------------------------------------------------------------------------
(* Properties *)

\* Every variable has its type, and no channel holds more than its capacity.
TypeOK ==
    /\ newest \in [Devices -> 0..MaxWrites]
    /\ wants \in [Viewers -> Devices]
    /\ life \in [Streams -> Stages]
    /\ subscribers \in [Devices -> Viewers \cup {NoOne}]
    /\ ch \in [Streams -> Seq(Samples)]
    /\ \A s \in Streams : Len(ch[s]) <= Capacity
    /\ allDevices \in Seq(Samples) /\ Len(allDevices) <= Capacity
    /\ hand \in [Watchers -> Samples \cup {<<>>}]
    /\ pushes \subseteq Pushes
    /\ round \subseteq Samples

\* A send on a closed channel would panic the server.  A push only sends to
\* the registered channel, and that one is never closed, however viewers of
\* one device replace and remove each other's entries.
NeverSendOnClosed ==
    \A d \in Devices : subscribers[d] # NoOne => life[subscribers[d]] # "closed"

\* A viewer that is still watching stops getting samples only because another
\* call of StreamDevice for the same device replaced or removed its channel.
SilencedOnlyByAnother ==
    \A v \in Viewers :
        life[v] = "watching" /\ subscribers[wants[v]] # v =>
            \E u \in Viewers \ {v} : wants[u] = wants[v] /\ life[u] # "absent"

\* No client can hold up the publisher: a round that is started is finished
\* even when every channel is full and nobody reads.
RoundUnderWay == round # {} \/ Publishing # {}

RoundsEnd == RoundUnderWay ~> ~RoundUnderWay

\* A forwarder in the blocking send to a full channel that nobody reads.
Caught(w) == hand[w] # <<>> /\ Len(ch[w]) = Capacity

\* The goroutine of a viewer that left ends and closes its channel, even when
\* its registration was replaced; the forwarder of a watcher that left ends
\* too, unless it is caught.
StreamsEnd ==
    /\ \A v \in Viewers : (life[v] = "left") ~> (life[v] = "closed")
    /\ \A w \in Watchers : (life[w] = "left") ~> (life[w] = "closed" \/ Caught(w))
=============================================================================
