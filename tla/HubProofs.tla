------------------------------ MODULE HubProofs ------------------------------
(* For any number of clients and senders: no panic, a channel closed after *)
(* its pump, a lock that somebody can always give back, and balances in    *)
(* order that the cache is never behind.                                   *)
EXTENDS Hub, TLAPS

LEMMA InitInvariant == Init => IInv
<1> SUFFICES ASSUME Init PROVE IInv
  OBVIOUS
<1> USE HubAssumption DEF Init
<1>1. TypeOK
  <2>1. queue \in [Client -> Seq(Event)] /\ \A c \in Client : Len(queue[c]) <= Cap
    OBVIOUS
  <2>2. 0 \in Event
    BY DEF Event
  <2> QED
    BY <2>1, <2>2 DEF TypeOK
<1>2. Ranging /\ Open /\ NoPanic
  BY DEF Ranging, Open, NoPanic
<1>3. Cached /\ CacheCoversQueues
  BY DEF Cached, CacheCoversQueues
<1> QED
  BY <1>1, <1>2, <1>3 DEF IInv

(* What a Send under way does to the queues: one event at the end of one   *)
(* queue, unless that is full.                                             *)
LEMMA PutTyped ==
  ASSUME TypeOK, NEW s \in Sender, NEW c \in Client, Put(s, c)
  PROVE  /\ queue' \in [Client -> Seq(Event)]
         /\ \A d \in Client : Len(queue'[d]) <= Cap
         /\ \A d \in Client : \A i \in 1..Len(queue'[d]) :
               \/ i \in 1..Len(queue[d]) /\ queue'[d][i] = queue[d][i]
               \/ queue'[d][i] = IF s = Tracker THEN balance ELSE 0
<1> DEFINE ev == IF s = Tracker THEN balance ELSE 0
<1>1. ev \in Event
  BY HubAssumption DEF TypeOK, Event
<1>2. /\ queue[c] \in Seq(Event) /\ Len(queue[c]) \in Nat
      /\ Append(queue[c], ev) \in Seq(Event)
      /\ Len(Append(queue[c], ev)) = Len(queue[c]) + 1
      /\ \A i \in 1..Len(queue[c]) + 1 :
            Append(queue[c], ev)[i] = IF i \in 1..Len(queue[c]) THEN queue[c][i] ELSE ev
  BY <1>1 DEF TypeOK
<1>3. queue' = [queue EXCEPT ![c] = IF Len(queue[c]) < Cap THEN Append(queue[c], ev)
                                    ELSE queue[c]]
  BY DEF Put
<1> HIDE DEF ev
<1>4. CASE Len(queue[c]) < Cap
  <2>1. queue' = [queue EXCEPT ![c] = Append(queue[c], ev)]
    BY <1>3, <1>4
  <2>2. queue'[c] = Append(queue[c], ev) /\ \A d \in Client \ {c} : queue'[d] = queue[d]
    BY <2>1 DEF TypeOK
  <2>3. queue' \in [Client -> Seq(Event)]
    BY <2>1, <1>2 DEF TypeOK
  <2>4. \A d \in Client : Len(queue'[d]) <= Cap
    BY <2>2, <1>2, <1>4, HubAssumption DEF TypeOK
  <2>5. \A d \in Client : \A i \in 1..Len(queue'[d]) :
               \/ i \in 1..Len(queue[d]) /\ queue'[d][i] = queue[d][i]
               \/ queue'[d][i] = ev
    BY <2>2, <1>2
  <2> QED
    BY <2>3, <2>4, <2>5 DEF ev
<1>5. CASE ~(Len(queue[c]) < Cap)
  <2>1. queue' = queue
    BY <1>3, <1>5 DEF TypeOK
  <2> QED
    BY <2>1 DEF TypeOK
<1> QED
  BY <1>4, <1>5

LEMMA SendTyped ==
  ASSUME IInv, NEW s \in Sender, SendStep(s)
  PROVE  TypeOK'
<1> USE HubAssumption DEF IInv, TypeOK, At, mutex, channel, sending, conns, Thread
<1>1. CASE Send(s)
  <2>1. balance' \in Event
    BY <1>1 DEF Send, Event
  <2> QED
    BY <1>1, <2>1 DEF Send
<1>2. CASE SendOwns(s)
  BY <1>2 DEF SendOwns, Own
<1>3. CASE SendLocks(s)
  BY <1>3 DEF SendLocks, Locked
<1>4. CASE Cache(s)
  BY <1>4 DEF Cache, Unlock
<1>5. CASE SendRLocks(s)
  BY <1>5 DEF SendRLocks, RLock
<1>6. CASE StartRange(s)
  BY <1>6 DEF StartRange
<1>7. ASSUME NEW c \in Client, NextClient(s, c) PROVE TypeOK'
  BY <1>7 DEF NextClient
<1>8. CASE PutEvent(s)
  <2>1. target[s] \in Client /\ ~closed[target[s]]
    BY <1>8 DEF PutEvent, Ranging, Open
  <2>2. Put(s, target[s]) /\ UNCHANGED panicked
    BY <1>8, <2>1 DEF PutEvent
  <2>3. queue' \in [Client -> Seq(Event)] /\ \A c \in Client : Len(queue'[c]) <= Cap
    BY <2>1, <2>2, PutTyped
  <2> QED
    BY <1>8, <2>2, <2>3 DEF PutEvent
<1>9. CASE SendReturns(s)
  BY <1>9 DEF SendReturns, RUnlock
<1> QED
  BY <1>1, <1>2, <1>3, <1>4, <1>5, <1>6, <1>7, <1>8, <1>9 DEF SendStep

LEMMA SendInvariant ==
  ASSUME IInv, NEW s \in Sender, SendStep(s)
  PROVE  Ranging' /\ Open' /\ Cached' /\ CacheCoversQueues' /\ NoPanic'
<1> USE HubAssumption DEF IInv, TypeOK, At, mutex, channel, sending, conns,
                          Ranging, Open, Cached, CacheCoversQueues, NoPanic
<1>1. CASE Send(s)
  BY <1>1 DEF Send, Event
<1>2. CASE SendOwns(s)
  BY <1>2 DEF SendOwns, Own
<1>3. CASE SendLocks(s)
  BY <1>3 DEF SendLocks, Locked
<1>4. CASE Cache(s)
  <2>1. cached' \in Event /\ cached <= cached' /\ cached' <= balance
    BY <1>4 DEF Cache, Event
  <2>2. Ranging' /\ Open' /\ NoPanic'
    BY <1>4 DEF Cache, Unlock
  <2>3. Cached'
    BY <1>4, <2>1 DEF Cache, Event
  <2>4. CacheCoversQueues'
    <3>1. queue' = queue
      BY <1>4 DEF Cache
    <3>2. \A c \in Client : \A i \in 1..Len(queue[c]) : queue[c][i] \in Event
      OBVIOUS
    <3> QED
      BY <2>1, <3>1, <3>2 DEF Event
  <2> QED
    BY <2>2, <2>3, <2>4
<1>5. CASE SendRLocks(s)
  BY <1>5 DEF SendRLocks, RLock
<1>6. CASE StartRange(s)
  BY <1>6 DEF StartRange
<1>7. ASSUME NEW c \in Client, NextClient(s, c)
      PROVE  Ranging' /\ Open' /\ Cached' /\ CacheCoversQueues' /\ NoPanic'
  BY <1>7 DEF NextClient
<1>8. CASE PutEvent(s)
  <2>1. target[s] \in Client /\ ~closed[target[s]]
    BY <1>8 DEF PutEvent
  <2>2. Put(s, target[s]) /\ UNCHANGED panicked
    BY <1>8, <2>1 DEF PutEvent
  <2>3. Ranging' /\ Open' /\ Cached' /\ NoPanic'
    BY <1>8, <2>2 DEF PutEvent
  <2>4. CacheCoversQueues'
    <3>1. (IF s = Tracker THEN balance ELSE 0) <= cached
      BY <1>8 DEF PutEvent, Event
    <3>2. \A c \in Client : \A i \in 1..Len(queue'[c]) :
               \/ i \in 1..Len(queue[c]) /\ queue'[c][i] = queue[c][i]
               \/ queue'[c][i] = IF s = Tracker THEN balance ELSE 0
      BY <2>1, <2>2, PutTyped
    <3>3. cached' = cached
      BY <1>8 DEF PutEvent
    <3> QED
      BY <3>1, <3>2, <3>3
  <2> QED
    BY <2>3, <2>4
<1>9. CASE SendReturns(s)
  BY <1>9 DEF SendReturns, RUnlock
<1> QED
  BY <1>1, <1>2, <1>3, <1>4, <1>5, <1>6, <1>7, <1>8, <1>9 DEF SendStep

(* A client's own steps: Unregister needs the lock alone, so no Send is    *)
(* between picking a client and sending to it.                             *)
LEMMA ServeInvariant ==
  ASSUME IInv, NEW c \in Client, ServeStep(c)
  PROVE  IInv'
<1> USE HubAssumption DEF IInv, TypeOK, ServAt, PumpAt, mutex, channel, sending, conns,
                    Thread, Ranging, Open, Cached, CacheCoversQueues, NoPanic
<1>1. CASE Upgrade(c) \/ ReadFails(c) \/ PumpDone(c)
  <2>1. /\ UNCHANGED <<clients, cached, mutex, channel, link, pump, sending, panicked>>
        /\ \/ serv[c] = "upgrade" /\ ServAt(c, "lock")
           \/ serv[c] = "read" /\ ServAt(c, "done")
           \/ serv[c] = "done" /\ ServAt(c, "relock")
    BY <1>1 DEF Upgrade, ReadFails, PumpDone
  <2>2. serv' \in [Client -> {"upgrade", "lock", "register", "registered", "read",
                            "done", "relock", "unregister", "close", "gone"}]
    <3>1. PICK l \in {"lock", "done", "relock"} : serv' = [serv EXCEPT ![c] = l]
      BY <2>1
    <3>2. serv \in [Client -> {"upgrade", "lock", "register", "registered", "read",
                              "done", "relock", "unregister", "close", "gone"}]
      OBVIOUS
    <3> QED
      BY ONLY <3>1, <3>2
  <2>3. TypeOK'
    <3>1. UNCHANGED <<clients, cached, owner, readers, waiting, closed, queue,
                      link, pump, pc, balance, visited, target, panicked>>
      BY <2>1
    <3> QED
      BY <2>2, <3>1
  <2>4. Ranging' /\ Open' /\ Cached' /\ NoPanic'
    BY <2>1
  <2>5. CacheCoversQueues'
    BY <2>1
  <2> QED
    BY <2>3, <2>4, <2>5
<1>2. CASE ServeOwns(c)
  BY <1>2 DEF ServeOwns, Own
<1>3. CASE Register(c)
  BY <1>3 DEF Register, Locked
<1>4. CASE StartPumps(c)
  BY <1>4 DEF StartPumps, Unlock
<1>5. CASE Unregister(c)
  BY <1>5 DEF Unregister, Locked
<1>6. CASE Close(c)
  BY <1>6 DEF Close, Unlock
<1> QED
  BY <1>1, <1>2, <1>3, <1>4, <1>5, <1>6 DEF ServeStep

(* A step of the pump or of the connection that leaves the queues alone.   *)
LEMMA ConnInvariant ==
  ASSUME IInv,
         pump' \in [Client -> {"none", "select", "write", "stopped"}],
         link' \in [Client -> {"up", "mute", "down"}],
         UNCHANGED <<clients, cached, mutex, channel, serv, sending, panicked>>
  PROVE  IInv'
<1> USE HubAssumption DEF IInv, mutex, channel, sending
<1>1. TypeOK'
  BY DEF TypeOK
<1>2. Ranging' /\ Open' /\ Cached' /\ NoPanic'
  BY DEF Ranging, Open, Cached, NoPanic
<1>3. CacheCoversQueues'
  BY DEF CacheCoversQueues
<1> QED
  BY <1>1, <1>2, <1>3

LEMMA ReceiveInvariant ==
  ASSUME IInv, NEW c \in Client, Receive(c), queue[c] # <<>>
  PROVE  IInv'
<1> USE HubAssumption DEF IInv, TypeOK, PumpAt, mutex, channel, sending,
                          Ranging, Open, Cached, NoPanic
<1>1. /\ queue' = [queue EXCEPT ![c] = Tail(queue[c])]
      /\ pump' = [pump EXCEPT ![c] = "write"]
      /\ UNCHANGED <<clients, cached, mutex, closed, link, serv, sending, panicked>>
  BY DEF Receive
<1>2. /\ Tail(queue[c]) \in Seq(Event)
      /\ Len(queue[c]) \in Nat
      /\ Len(Tail(queue[c])) = Len(queue[c]) - 1
      /\ \A i \in 1..Len(Tail(queue[c])) :
            i + 1 \in 1..Len(queue[c]) /\ Tail(queue[c])[i] = queue[c][i + 1]
  OBVIOUS
<1>3. TypeOK'
  BY <1>1, <1>2
<1>4. Ranging' /\ Open' /\ Cached' /\ NoPanic'
  BY <1>1
<1>5. CacheCoversQueues'
  BY <1>1, <1>2 DEF CacheCoversQueues
<1> QED
  BY <1>3, <1>4, <1>5

LEMMA PumpInvariant ==
  ASSUME IInv, NEW c \in Client, PumpStep(c) \/ LinkStep(c)
  PROVE  IInv'
<1>1. /\ pump \in [Client -> {"none", "select", "write", "stopped"}]
      /\ link \in [Client -> {"up", "mute", "down"}]
  BY DEF IInv, TypeOK
<1>2. CASE Receive(c) /\ queue[c] # <<>>
  BY <1>2, ReceiveInvariant
<1>3. CASE \/ Receive(c) /\ queue[c] = <<>>
           \/ Ping(c) \/ Written(c) \/ GoesMute(c) \/ Breaks(c)
  <2>1. /\ pump' \in [Client -> {"none", "select", "write", "stopped"}]
        /\ link' \in [Client -> {"up", "mute", "down"}]
    BY <1>1, <1>3 DEF Receive, Ping, Written, GoesMute, Breaks, PumpAt
  <2>2. UNCHANGED <<clients, cached, mutex, channel, serv, sending, panicked>>
    BY <1>3 DEF Receive, Ping, Written, GoesMute, Breaks, channel
  <2> QED
    BY <2>1, <2>2, ConnInvariant
<1> QED
  BY <1>2, <1>3 DEF PumpStep, LinkStep

(* IInv holds in every state: a Send that ranges over the clients holds    *)
(* the lock shared, so that none of them can be unregistered.              *)
THEOREM Invariance == Spec => []IInv
<1>1. IInv /\ [Next]_vars => IInv'
  <2> SUFFICES ASSUME IInv, [Next]_vars PROVE IInv'
    OBVIOUS
  <2>1. ASSUME NEW s \in Sender, SendStep(s) PROVE IInv'
    BY <2>1, SendTyped, SendInvariant DEF IInv
  <2>2. ASSUME NEW c \in Client, ServeStep(c) \/ PumpStep(c) \/ LinkStep(c) PROVE IInv'
    BY <2>2, ServeInvariant, PumpInvariant
  <2>3. CASE UNCHANGED vars
    BY <2>3 DEF vars, IInv, TypeOK, Ranging, Open, Cached, CacheCoversQueues, NoPanic
  <2> QED
    BY <2>1, <2>2, <2>3 DEF Next
<1> QED
  BY <1>1, InitInvariant, PTL DEF Spec

(* Every variable of the hub keeps its type, for any number of clients and *)
(* senders: a client's channel never holds more than its bound.            *)
THEOREM TypeCorrect == Spec => []TypeOK
<1>1. IInv => TypeOK
  BY DEF IInv
<1> QED
  BY <1>1, Invariance, PTL

(* For any number of clients and senders: Send never sends on a closed     *)
(* channel, and unregister (hub.go, 80-85) closes each channel once.       *)
THEOREM NeverPanics == Spec => []NoPanic
<1>1. IInv => NoPanic
  BY DEF IInv
<1> QED
  BY <1>1, Invariance, PTL

(* LastBalance is never behind a balance event queued for a dashboard.     *)
THEOREM CacheIsAhead == Spec => []CacheCoversQueues
<1>1. IInv => CacheCoversQueues
  BY DEF IInv
<1> QED
  BY <1>1, Invariance, PTL

(* From <-done on, handleWS runs on without a write pump.                  *)
Waited ==
    \A c \in Client : serv[c] \in {"relock", "unregister", "close", "gone"}
                         => pump[c] = "stopped"

LEMMA WaitedInvariant == ASSUME IInv, Waited, [Next]_vars PROVE Waited'
<1> USE DEF IInv, TypeOK, Waited
<1>1. ASSUME NEW s \in Sender, SendStep(s) PROVE Waited'
  BY <1>1 DEF SendStep, Send, SendOwns, SendLocks, Cache, SendRLocks, StartRange,
              NextClient, PutEvent, SendReturns, conns
<1>2. ASSUME NEW c \in Client, ServeStep(c) PROVE Waited'
  <2>1. CASE Upgrade(c) \/ Register(c) \/ StartPumps(c) \/ ReadFails(c) \/ PumpDone(c)
    BY <2>1 DEF Upgrade, Register, StartPumps, ReadFails, PumpDone, ServAt, PumpAt
  <2>2. CASE ServeOwns(c)
    BY <2>2 DEF ServeOwns, ServAt
  <2>3. CASE Unregister(c) \/ Close(c)
    BY <2>3 DEF Unregister, Close, ServAt
  <2> QED
    BY <1>2, <2>1, <2>2, <2>3 DEF ServeStep
<1>3. ASSUME NEW c \in Client, PumpStep(c) \/ LinkStep(c) PROVE Waited'
  BY <1>3 DEF PumpStep, LinkStep, Receive, Ping, Written, GoesMute, Breaks, PumpAt
<1>4. CASE UNCHANGED vars
  BY <1>4 DEF vars
<1> QED
  BY <1>1, <1>2, <1>3, <1>4 DEF Next

(* A client's channel is closed only after its write pump has returned:    *)
(* handleWS (server.go, 130-181) waits for it before it unregisters.       *)
THEOREM ClosedLast == Spec => []ClosedAfterPump
<1>1. Init => Waited
  BY DEF Init, Waited
<1>2. IInv /\ Waited => ClosedAfterPump
  BY DEF IInv, Open, Waited, ClosedAfterPump
<1> QED
  BY <1>1, <1>2, WaitedInvariant, Invariance, PTL DEF Spec

-----------------------------------------------------------------------------
(* The lock                                                                *)

(* Register and Unregister write the map of clients (hub.go, 76 and 82)    *)
(* and need the lock alone; the range of Send (105) has it under RLock.    *)
THEOREM MapWrittenAlone == Spec => WrittenAlone
<1>1. IInv /\ [Next]_vars => [clients' # clients => \A t \in Thread : ~Reading(t)]_vars
  <2> SUFFICES ASSUME IInv, Next, clients' # clients, NEW t \in Thread, Reading(t)
               PROVE  FALSE
    OBVIOUS
  <2>1. t \in readers
    BY DEF IInv, Ranging, Reading
  <2>2. PICK c \in Client : ServeStep(c)
    BY DEF Next, SendStep, Send, SendOwns, SendLocks, Cache, SendRLocks, StartRange,
           NextClient, PutEvent, SendReturns, PumpStep, LinkStep, Receive, Ping,
           Written, GoesMute, Breaks
  <2>3. Register(c) \/ Unregister(c)
    BY <2>2 DEF ServeStep, Upgrade, ServeOwns, StartPumps, ReadFails, PumpDone, Close
  <2> QED
    BY <2>1, <2>3 DEF Register, Unregister, Locked
<1> QED
  BY <1>1, Invariance, PTL DEF Spec, WrittenAlone

LEMMA LockSend ==
  ASSUME IInv, LockAgrees, NEW s \in Sender, SendStep(s)
  PROVE  LockAgrees'
<1> USE HubAssumption DEF IInv, TypeOK, Thread, LockAgrees, Writing, Reading, At, mutex,
                          conns
<1>1. CASE Send(s)
  BY <1>1 DEF Send
<1>6. CASE SendLocks(s)
  BY <1>6 DEF SendLocks, Locked
<1>7. CASE StartRange(s)
  BY <1>7 DEF StartRange
<1>8. CASE PutEvent(s)
  BY <1>8 DEF PutEvent
<1>9. ASSUME NEW c \in Client, NextClient(s, c) PROVE LockAgrees'
  BY <1>9 DEF NextClient
<1>2. CASE SendOwns(s)
  BY <1>2 DEF SendOwns, Own
<1>3. CASE Cache(s)
  BY <1>3 DEF Cache, Unlock
<1>4. CASE SendRLocks(s)
  BY <1>4 DEF SendRLocks, RLock, sending
<1>5. CASE SendReturns(s)
  BY <1>5 DEF SendReturns, RUnlock
<1> QED
  BY <1>1, <1>2, <1>3, <1>4, <1>5, <1>6, <1>7, <1>8, <1>9 DEF SendStep

LEMMA LockServe ==
  ASSUME IInv, LockAgrees, NEW c \in Client, ServeStep(c)
  PROVE  LockAgrees'
<1> USE HubAssumption DEF IInv, TypeOK, Thread, LockAgrees, Writing, Reading, ServAt,
                          mutex, sending
<1>1. CASE Upgrade(c)
  BY <1>1 DEF Upgrade
<1>2. CASE ServeOwns(c)
  BY <1>2 DEF ServeOwns, Own
<1>3. CASE Register(c) \/ Unregister(c)
  BY <1>3 DEF Register, Unregister, Locked
<1>4. CASE StartPumps(c)
  BY <1>4 DEF StartPumps, Unlock
<1>5. CASE ReadFails(c) \/ PumpDone(c)
  <2>1. \E l \in {"done", "relock"} : serv' = [serv EXCEPT ![c] = l]
    BY <1>5 DEF ReadFails, PumpDone
  <2>2. UNCHANGED <<owner, readers, waiting, pc>> /\ serv[c] \in {"read", "done"}
    BY <1>5 DEF ReadFails, PumpDone
  <2> QED
    BY <2>1, <2>2
<1>6. CASE Close(c)
  BY <1>6 DEF Close, Unlock
<1> QED
  BY <1>1, <1>2, <1>3, <1>4, <1>5, <1>6 DEF ServeStep

LEMMA LockInvariant ==
  ASSUME IInv, LockAgrees, [Next]_vars
  PROVE  LockAgrees'
<1>1. ASSUME NEW c \in Client, PumpStep(c) \/ LinkStep(c) PROVE LockAgrees'
  <2>1. UNCHANGED <<owner, readers, waiting, pc, serv>>
    BY <1>1 DEF PumpStep, LinkStep, Receive, Ping, Written, GoesMute, Breaks, mutex, sending
  <2> QED
    BY <2>1 DEF LockAgrees, Writing, Reading
<1>2. CASE UNCHANGED vars
  BY <1>2 DEF vars, LockAgrees, Writing, Reading
<1> QED
  BY <1>1, <1>2, LockSend, LockServe DEF Next

(* Whoever waits for the lock waits for the owner, or the owner for the    *)
(* readers; a reader that has the lock waits for nobody.                   *)
LEMMA HolderRuns ==
  ASSUME IInv, LockAgrees
  PROVE  NoDeadlock
<1> USE HubAssumption DEF Thread
<1> SUFFICES ASSUME NEW t \in Thread, Blocked(t)
             PROVE  \E u \in Thread : (Writing(u) \/ Reading(u)) /\ ~Blocked(u)
  BY DEF NoDeadlock
<1>1. CASE readers # {}
  <2>1. PICK r \in readers : r \in Sender
    BY <1>1 DEF IInv, TypeOK
  <2>2. Reading(r) /\ r \notin waiting /\ r \notin Client
    BY <2>1 DEF LockAgrees
  <2>3. ~Blocked(r)
    BY <2>2 DEF Blocked, Reading
  <2> QED
    BY <2>1, <2>2, <2>3
<1>2. CASE readers = {}
  <2>1. owner # None
    BY <1>2 DEF Blocked, LockAgrees
  <2>2. owner \in Thread /\ Writing(owner)
    BY <2>1 DEF LockAgrees, IInv, TypeOK
  <2>3. ~Blocked(owner)
    BY <1>2, <2>2 DEF Blocked, Writing
  <2> QED
    BY <2>2, <2>3
<1> QED
  BY <1>1, <1>2

(* No interleaving of Sends, registrations and disconnects leaves everyone *)
(* waiting for h.mu (hub.go, 74-103).                                      *)
THEOREM SomeoneRuns == Spec => []NoDeadlock
<1>1. Init => LockAgrees
  BY HubAssumption DEF Init, LockAgrees, Writing, Reading, Thread
<1>2. IInv /\ LockAgrees => NoDeadlock
  BY HolderRuns
<1> QED
  BY <1>1, <1>2, LockInvariant, Invariance, PTL DEF Spec

-----------------------------------------------------------------------------
(* The order of the balance snapshots                                      *)

(* What is in the channels changes by Put and by Receive only.             *)
LEMMA QueuesKept ==
  ASSUME Fresh, InOrder, UNCHANGED <<queue, balance, pc, visited, target>>
  PROVE  Fresh' /\ InOrder'
BY DEF Fresh, InOrder

LEMMA FreshSend ==
  ASSUME IInv, Fresh, InOrder, NEW s \in Sender, SendStep(s)
  PROVE  Fresh' /\ InOrder'
<1> USE HubAssumption DEF IInv, TypeOK, At, channel, sending, Event
<1>1. CASE Send(s)
  <2>1. InOrder'
    BY <1>1 DEF Send, InOrder
  <2>2. CASE s = Tracker
    <3>1. balance' = balance + 1 /\ cached <= balance /\ queue' = queue
      BY <1>1, <2>2 DEF Send, Cached
    <3>2. \A c \in Client : \A i \in 1..Len(queue'[c]) : queue'[c][i] # balance'
      <4>1. \A c \in Client : \A i \in 1..Len(queue[c]) :
               queue[c][i] \in Nat /\ queue[c][i] <= cached
        BY DEF CacheCoversQueues
      <4> QED
        BY <3>1, <4>1
    <3>3. pc'[s] = "lock"
      BY <1>1 DEF Send
    <3> QED
      BY <2>1, <2>2, <3>2, <3>3 DEF Fresh
  <2>3. CASE s # Tracker
    BY <1>1, <2>1, <2>3 DEF Send, Fresh
  <2> QED
    BY <2>2, <2>3
<1>2. CASE SendOwns(s) \/ SendLocks(s) \/ Cache(s) \/ StartRange(s) \/ SendReturns(s)
  <2>1. /\ UNCHANGED <<queue, balance, target>>
        /\ \/ UNCHANGED visited
           \/ visited' = [visited EXCEPT ![s] = {}] /\ pc[s] = "rlock"
        /\ \E l \in {"own", "cache", "rlock", "range", "idle"} :
              /\ pc' = [pc EXCEPT ![s] = l]
              /\ pc[s] \in {"lock", "own", "cache", "rlock"} \/ l = "idle"
    BY <1>2 DEF SendOwns, SendLocks, Cache, StartRange, SendReturns
  <2>2. InOrder'
    BY <2>1 DEF InOrder
  <2>3. Fresh'
    BY <2>1 DEF Fresh
  <2> QED
    BY <2>2, <2>3
<1>3. CASE SendRLocks(s)
  BY <1>3, QueuesKept DEF SendRLocks
<1>4. ASSUME NEW c \in Client, NextClient(s, c) PROVE Fresh' /\ InOrder'
  <2>1. /\ UNCHANGED <<queue, balance>> /\ pc[s] = "range" /\ c \notin visited[s]
        /\ target' = [target EXCEPT ![s] = c]
        /\ visited' = [visited EXCEPT ![s] = visited[s] \cup {c}]
        /\ pc' = [pc EXCEPT ![s] = "put"]
    BY <1>4 DEF NextClient
  <2>2. InOrder'
    BY <2>1 DEF InOrder
  <2>3. Fresh'
    BY <2>1 DEF Fresh
  <2> QED
    BY <2>2, <2>3
<1>5. CASE PutEvent(s)
  <2> DEFINE ev == IF s = Tracker THEN balance ELSE 0
  <2>1. target[s] \in Client /\ ~closed[target[s]] /\ pc[s] = "put"
    BY <1>5 DEF PutEvent, Ranging, Open
  <2>2. PICK c \in Client : c = target[s]
    BY <2>1
  <2>3. /\ queue' = [queue EXCEPT ![c] = IF Len(queue[c]) < Cap
                                         THEN Append(queue[c], ev) ELSE queue[c]]
        /\ pc' = [pc EXCEPT ![s] = "range"]
        /\ UNCHANGED <<balance, visited, target, cached>>
    BY <1>5, <2>1, <2>2 DEF PutEvent, Put
  <2>4. ev \in Nat /\ balance \in Nat
    OBVIOUS
  <2>5. \A i \in 1..Len(queue[c]) : queue[c][i] \in Nat /\ (ev # 0 => queue[c][i] < ev)
    <3>1. \A i \in 1..Len(queue[c]) : queue[c][i] \in Nat /\ queue[c][i] <= cached
      BY DEF CacheCoversQueues
    <3>2. ASSUME ev # 0, NEW i \in 1..Len(queue[c]) PROVE queue[c][i] < ev
      <4>1. s = Tracker /\ ev = balance /\ balance > 0
        BY <3>2, <2>4
      <4>2. queue[c][i] # balance
        BY <4>1, <2>1, <2>2 DEF Fresh
      <4>3. cached <= balance /\ cached \in Nat
        BY DEF Cached
      <4> QED
        BY <4>1, <4>2, <4>3, <3>1, <2>4
    <3> QED
      BY <3>1, <3>2
  <2>6. CASE Len(queue[c]) < Cap
    <3>1. /\ Len(queue[c]) \in Nat /\ Len(queue'[c]) = Len(queue[c]) + 1
          /\ \A i \in 1..Len(queue[c]) : queue'[c][i] = queue[c][i]
          /\ queue'[c][Len(queue[c]) + 1] = ev
          /\ \A d \in Client \ {c} : queue'[d] = queue[d]
      <4>1. queue'[c] = Append(queue[c], ev) /\ \A d \in Client \ {c} : queue'[d] = queue[d]
        BY <2>3, <2>6
      <4>2. queue[c] \in Seq(Event) /\ ev \in Event
        BY HubAssumption
      <4> HIDE DEF ev
      <4> QED
        BY ONLY <4>1, <4>2
    <3> HIDE DEF ev
    <3>2. InOrder'
      <4> SUFFICES ASSUME NEW d \in Client, NEW i \in 1..Len(queue'[d]),
                          NEW j \in 1..Len(queue'[d]), i < j, queue'[d][j] # 0
                   PROVE  queue'[d][i] < queue'[d][j]
        BY DEF InOrder
      <4>1. CASE d # c
        BY <3>1, <4>1 DEF InOrder
      <4>2. CASE d = c /\ j \in 1..Len(queue[c])
        <5>1. i \in 1..Len(queue[c])
          BY <3>1, <4>2
        <5> QED
          BY <3>1, <4>2, <5>1 DEF InOrder
      <4>3. CASE d = c /\ j = Len(queue[c]) + 1
        <5>1. i \in 1..Len(queue[c])
          BY <3>1, <4>3
        <5> QED
          BY <2>5, <3>1, <4>3, <5>1
      <4> QED
        BY <3>1, <4>1, <4>2, <4>3
    <3>3. Fresh'
      <4> SUFFICES ASSUME Tracker \in Sender
                   PROVE  /\ pc'[Tracker] # "put" \/ s # Tracker
                          /\ pc'[Tracker] = "put" =>
                                target'[Tracker] \in visited'[Tracker]
                          /\ \A d \in Client : \A i \in 1..Len(queue'[d]) :
                                queue'[d][i] = balance' /\ balance' > 0 =>
                                  /\ pc'[Tracker] \in {"idle", "range", "put"}
                                  /\ pc'[Tracker] # "idle" => d \in visited'[Tracker]
                                  /\ pc'[Tracker] = "put" => d # target'[Tracker]
        BY DEF Fresh
      <4>1. CASE s = Tracker
        <5>1. pc'[Tracker] = "range" /\ c \in visited'[Tracker]
          BY <2>1, <2>2, <2>3, <4>1 DEF Fresh
        <5>2. ASSUME NEW d \in Client \ {c}, NEW i \in 1..Len(queue'[d]),
                     queue'[d][i] = balance', balance' > 0
              PROVE  d \in visited'[Tracker]
          BY <2>1, <2>3, <3>1, <4>1, <5>2 DEF Fresh
        <5> QED
          BY <4>1, <5>1, <5>2
      <4>2. CASE s # Tracker
        <5>1. pc'[Tracker] = pc[Tracker] /\ ev = 0
          BY <2>3, <4>2 DEF ev
        <5>2. ASSUME NEW d \in Client, NEW i \in 1..Len(queue'[d]),
                     queue'[d][i] = balance, balance > 0
              PROVE  i \in 1..Len(queue[d]) /\ queue[d][i] = balance
          <6>1. CASE d # c
            BY <3>1, <5>2, <6>1
          <6>2. CASE d = c /\ i \in 1..Len(queue[c])
            BY <3>1, <5>2, <6>2
          <6>3. CASE d = c /\ i = Len(queue[c]) + 1
            BY <3>1, <5>1, <5>2, <6>3
          <6> QED
            BY <3>1, <6>1, <6>2, <6>3
        <5> QED
          BY <2>3, <4>2, <5>1, <5>2 DEF Fresh
      <4> QED
        BY <4>1, <4>2
    <3> QED
      BY <3>2, <3>3
  <2>7. CASE ~(Len(queue[c]) < Cap)
    <3>1. queue' = queue
      BY <2>3, <2>7
    <3>2. InOrder'
      BY <3>1 DEF InOrder
    <3>3. Fresh'
      BY <2>1, <2>2, <2>3, <3>1 DEF Fresh
    <3> QED
      BY <3>2, <3>3
  <2> QED
    BY <2>6, <2>7
<1>6. CASE SendReturns(s)
  BY <1>2, <1>6
<1> QED
  BY <1>1, <1>2, <1>3, <1>4, <1>5 DEF SendStep

LEMMA FreshReceive ==
  ASSUME IInv, Fresh, InOrder, NEW c \in Client, Receive(c)
  PROVE  Fresh' /\ InOrder'
<1>1. UNCHANGED <<balance, pc, visited, target>>
  BY DEF Receive, sending
<1>2. CASE queue[c] = <<>>
  BY <1>1, <1>2, QueuesKept DEF Receive
<1>3. CASE queue[c] # <<>>
  <2>1. queue[c] \in Seq(Event) /\ queue' = [queue EXCEPT ![c] = Tail(queue[c])]
    BY <1>3 DEF Receive, IInv, TypeOK
  <2>2. \A i \in 1..Len(Tail(queue[c])) :
           i + 1 \in 1..Len(queue[c]) /\ Tail(queue[c])[i] = queue[c][i + 1]
    BY <1>3, <2>1
  <2>3. queue'[c] = Tail(queue[c]) /\ \A d \in Client \ {c} : queue'[d] = queue[d]
    BY <2>1 DEF IInv, TypeOK
  <2>4. InOrder'
    <3> SUFFICES ASSUME NEW d \in Client, NEW i \in 1..Len(queue'[d]),
                        NEW j \in 1..Len(queue'[d]), i < j, queue'[d][j] # 0
                 PROVE  queue'[d][i] < queue'[d][j]
      BY DEF InOrder
    <3>0. i < j
      OBVIOUS
    <3>1. CASE d # c
      BY <2>3, <3>1 DEF InOrder
    <3>2. CASE d = c
      <4>0. i \in 1..Len(Tail(queue[c])) /\ j \in 1..Len(Tail(queue[c]))
        BY <2>3, <3>2
      <4>1. /\ i + 1 \in 1..Len(queue[c]) /\ j + 1 \in 1..Len(queue[c]) /\ i + 1 < j + 1
            /\ queue'[d][i] = queue[c][i + 1] /\ queue'[d][j] = queue[c][j + 1]
        <5>1. /\ i + 1 \in 1..Len(queue[c]) /\ j + 1 \in 1..Len(queue[c])
              /\ Tail(queue[c])[i] = queue[c][i + 1] /\ Tail(queue[c])[j] = queue[c][j + 1]
          BY <2>2, <4>0
        <5>2. i \in Nat /\ j \in Nat
          BY <4>0, <2>1
        <5>3. i + 1 < j + 1
          BY ONLY <5>2, <3>0
        <5>4. queue'[d] = Tail(queue[c])
          BY <2>3, <3>2
        <5> QED
          BY ONLY <5>1, <5>3, <5>4
      <4> QED
        BY <4>1 DEF InOrder
    <3> QED
      BY <3>1, <3>2
  <2>5. Fresh'
    <3>1. ASSUME NEW d \in Client, NEW i \in 1..Len(queue'[d])
          PROVE  \E k \in 1..Len(queue[d]) : queue'[d][i] = queue[d][k]
      BY <2>2, <2>3
    <3> QED
      BY <1>1, <3>1 DEF Fresh
  <2> QED
    BY <2>4, <2>5
<1> QED
  BY <1>2, <1>3

LEMMA FreshInvariant ==
  ASSUME IInv, Fresh, InOrder, [Next]_vars
  PROVE  Fresh' /\ InOrder'
<1>1. ASSUME NEW c \in Client, ServeStep(c) \/ Ping(c) \/ Written(c) \/ LinkStep(c)
      PROVE  Fresh' /\ InOrder'
  <2>1. UNCHANGED <<queue, balance, pc, visited, target>>
    BY <1>1 DEF ServeStep, Upgrade, ServeOwns, Register, StartPumps, ReadFails,
                PumpDone, Unregister, Close, Ping, Written, LinkStep, GoesMute, Breaks,
                channel, sending
  <2> QED
    BY <2>1, QueuesKept
<1>2. CASE UNCHANGED vars
  BY <1>2, QueuesKept DEF vars
<1> QED
  BY <1>1, <1>2, FreshSend, FreshReceive DEF Next, PumpStep

(* However Sends and slow clients interleave, a client's channel holds the *)
(* snapshots in the order the tracker took them (balancetracker.go, 44-58),*)
(* none twice, and none newer than the one GET /balance answers with.      *)
THEOREM SnapshotsInOrder == Spec => []BalancesInOrder
<1>1. Init => Fresh /\ InOrder
  BY DEF Init, Fresh, InOrder
<1>2. IInv /\ InOrder => BalancesInOrder
  BY DEF IInv, BalancesInOrder
<1> QED
  BY <1>1, <1>2, FreshInvariant, Invariance, PTL DEF Spec
=============================================================================
