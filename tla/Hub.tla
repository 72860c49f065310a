--------------------------------- MODULE Hub ---------------------------------
(***************************************************************************)
(* The event hub (internal/api/hub.go) with the WebSocket handler of each  *)
(* dashboard client (handleWS in server.go).  Any number of goroutines call*)
(* Send: the engines' notifyFn, the log handler and the balance tracker.   *)
(* A client has two goroutines: handleWS itself, which registers, reads    *)
(* and unregisters, and the write pump.                                    *)
(*                                                                         *)
(* sync.RWMutex is modelled as Go implements it: one goroutine at a time   *)
(* owns the writer side and waits for the readers to leave; RLock waits    *)
(* behind it; Unlock admits every waiting reader.  A panic in any of these *)
(* goroutines ends the process.                                            *)
(***************************************************************************)
EXTENDS Naturals, Sequences

CONSTANTS Client,       \* WebSocket connections
          Sender,       \* goroutines that call Send
          Tracker,      \* the sender of balance events
          None,         \* no goroutine
          Cap,          \* capacity of a client's send channel (256)
          MaxBalances   \* bound: balance events in a behaviour

ASSUME HubAssumption ==
    /\ Client \cap Sender = {}
    /\ None \notin Client \cup Sender
    /\ Cap \in Nat \ {0}
    /\ MaxBalances \in Nat

VARIABLES
    clients,    \* the keys of h.clients
    cached,     \* h.lastBals: the number of the balance event, 0 at first
    owner,      \* h.mu: the goroutine that owns the writer side
    readers,    \* h.mu: the goroutines that hold it shared
    waiting,    \* h.mu: the goroutines waiting in RLock
    closed,     \* closed[c]: c.send is closed
    queue,      \* queue[c]: the contents of c.send
    link,       \* link[c]: the connection
    serv,       \* serv[c]: where c's handleWS is
    pump,       \* pump[c]: where c's write pump is
    pc,         \* pc[s]: where the Send of s is
    balance,    \* balance events the tracker has made
    visited,    \* visited[s]: clients the range loop of s has been through
    target,     \* target[s]: the client it is sending to
    panicked

vars == <<clients, cached, owner, readers, waiting, closed, queue, link,
          serv, pump, pc, balance, visited, target, panicked>>

mutex   == <<owner, readers, waiting>>
channel == <<closed, queue>>
sending == <<pc, balance, visited, target>>
conns   == <<link, serv, pump>>

Thread == Client \cup Sender

(* An event: the number of a balance snapshot, 0 for any other event.      *)
Event == 0..MaxBalances

-----------------------------------------------------------------------------
Init ==
    /\ clients = {}
    /\ cached = 0
    /\ owner = None
    /\ readers = {}
    /\ waiting = {}
    /\ closed = [c \in Client |-> FALSE]
    /\ queue = [c \in Client |-> <<>>]
    /\ link = [c \in Client |-> "up"]
    /\ serv = [c \in Client |-> "upgrade"]
    /\ pump = [c \in Client |-> "none"]
    /\ pc = [s \in Sender |-> "idle"]
    /\ balance = 0
    /\ visited = [s \in Sender |-> {}]
    /\ target = [s \in Sender |-> None]
    /\ panicked = FALSE

(* sync.RWMutex.  Lock first becomes the owner, which makes later readers  *)
(* wait, then goes on when the readers that were there have left.          *)
Own(t)    == owner = None /\ owner' = t /\ UNCHANGED <<readers, waiting>>

Locked(t) == owner = t /\ readers = {} /\ UNCHANGED mutex

Unlock    == owner' = None /\ readers' = readers \cup waiting /\ waiting' = {}

RLock(t)  == /\ t \notin waiting \cup readers
             /\ IF owner = None
                  THEN readers' = readers \cup {t} /\ UNCHANGED waiting
                  ELSE waiting' = waiting \cup {t} /\ UNCHANGED readers
             /\ UNCHANGED owner

RUnlock(t) == readers' = readers \ {t} /\ UNCHANGED <<owner, waiting>>

At(s, l)     == pc' = [pc EXCEPT ![s] = l]
ServAt(c, l) == serv' = [serv EXCEPT ![c] = l]
PumpAt(c, l) == pump' = [pump EXCEPT ![c] = l]

-----------------------------------------------------------------------------
(* Send                                                                    *)

(* The tracker makes a new balance event, the other senders other events.  *)
Send(s) ==
    /\ pc[s] = "idle"
    /\ IF s = Tracker THEN /\ balance < MaxBalances
                           /\ balance' = balance + 1
                      ELSE UNCHANGED balance
    /\ At(s, "lock")
    /\ UNCHANGED <<clients, cached, mutex, channel, conns, visited, target,
                   panicked>>

SendOwns(s) ==
    /\ pc[s] = "lock"
    /\ Own(s)
    /\ At(s, "own")
    /\ UNCHANGED <<clients, cached, channel, conns, balance, visited, target,
                   panicked>>

SendLocks(s) ==
    /\ pc[s] = "own"
    /\ Locked(s)
    /\ At(s, "cache")
    /\ UNCHANGED <<clients, cached, channel, conns, balance, visited, target,
                   panicked>>

(* Mutant: the Unlock is deferred to the end of Send.                      *)
CacheKeepsLock(s) ==
    /\ pc[s] = "cache"
    /\ cached' = IF s = Tracker THEN balance ELSE cached
    /\ At(s, "rlock")
    /\ UNCHANGED <<clients, mutex, channel, conns, balance, visited, target, panicked>>

(* Mutant: the snapshot is overwritten by every event.                     *)
CacheAny(s) ==
    /\ pc[s] = "cache"
    /\ cached' = IF s = Tracker THEN balance ELSE 0
    /\ Unlock
    /\ At(s, "rlock")
    /\ UNCHANGED <<clients, channel, conns, balance, visited, target, panicked>>

(* A balance event is stored for LastBalance, and the lock is released.    *)
Cache(s) ==
    /\ pc[s] = "cache"
    /\ cached' = IF s = Tracker THEN balance ELSE cached
    /\ Unlock
    /\ At(s, "rlock")
    /\ UNCHANGED <<clients, channel, conns, balance, visited, target, panicked>>

SendRLocks(s) ==
    /\ pc[s] = "rlock"
    /\ RLock(s)
    /\ UNCHANGED <<clients, cached, channel, conns, sending, panicked>>

StartRange(s) ==
    /\ pc[s] = "rlock"
    /\ s \in readers
    /\ At(s, "range")
    /\ visited' = [visited EXCEPT ![s] = {}]
    /\ UNCHANGED <<clients, cached, mutex, channel, conns, balance, target,
                   panicked>>

(* for c := range h.clients                                                *)
NextClient(s, c) ==
    /\ pc[s] = "range"
    /\ c \in clients \ visited[s]
    /\ target' = [target EXCEPT ![s] = c]
    /\ visited' = [visited EXCEPT ![s] = @ \cup {c}]
    /\ At(s, "put")
    /\ UNCHANGED <<clients, cached, mutex, channel, conns, balance, panicked>>

(* Mutant: the channel has no bound.                                       *)
PutUnbounded(s, c) ==
    queue' = [queue EXCEPT ![c] = Append(@, IF s = Tracker THEN balance ELSE 0)]

Put(s, c) ==
    queue' = [queue EXCEPT ![c] =
                 IF Len(@) < Cap THEN Append(@, IF s = Tracker THEN balance ELSE 0)
                                 ELSE @]

(* Mutant: a plain send, which waits for room in the channel.              *)
PutEventBlocks(s) ==
    /\ pc[s] = "put"
    /\ Len(queue[target[s]]) < Cap
    /\ Put(s, target[s])
    /\ At(s, "range")
    /\ UNCHANGED <<clients, cached, mutex, closed, conns, balance, visited,
                   target, panicked>>

(* A send on a closed channel panics; a full channel drops the event.      *)
PutEvent(s) ==
    /\ pc[s] = "put"
    /\ IF closed[target[s]] THEN panicked' = TRUE /\ UNCHANGED queue
                            ELSE Put(s, target[s]) /\ UNCHANGED panicked
    /\ At(s, "range")
    /\ UNCHANGED <<clients, cached, mutex, closed, conns, balance, visited, target>>

SendReturns(s) ==
    /\ pc[s] = "range"
    /\ clients \subseteq visited[s]
    /\ RUnlock(s)
    /\ At(s, "idle")
    /\ UNCHANGED <<clients, cached, channel, conns, balance, visited, target,
                   panicked>>

-----------------------------------------------------------------------------
(* handleWS: register, read until an error, wait for the write pump to be  *)
(* done, unregister.                                                       *)

Upgrade(c) ==
    /\ serv[c] = "upgrade"
    /\ ServAt(c, "lock")
    /\ UNCHANGED <<clients, cached, mutex, channel, link, pump, sending, panicked>>

(* h.mu.Lock in register and in unregister.                                *)
ServeOwns(c) ==
    /\ serv[c] \in {"lock", "relock"}
    /\ Own(c)
    /\ ServAt(c, IF serv[c] = "lock" THEN "register" ELSE "unregister")
    /\ UNCHANGED <<clients, cached, channel, link, pump, sending, panicked>>

Register(c) ==
    /\ serv[c] = "register"
    /\ Locked(c)
    /\ clients' = clients \cup {c}
    /\ ServAt(c, "registered")
    /\ UNCHANGED <<cached, channel, link, pump, sending, panicked>>

(* register returns; the write pump is started and the read loop entered.  *)
StartPumps(c) ==
    /\ serv[c] = "registered"
    /\ Unlock
    /\ ServAt(c, "read")
    /\ PumpAt(c, "select")
    /\ UNCHANGED <<clients, cached, channel, link, sending, panicked>>

(* ReadMessage fails: the connection broke, or no pong came for a minute.  *)
ReadFails(c) ==
    /\ serv[c] = "read"
    /\ link[c] # "up"
    /\ ServAt(c, "done")
    /\ UNCHANGED <<clients, cached, mutex, channel, link, pump, sending, panicked>>

(* <-done, then the deferred unregister asks for the lock.                 *)
PumpDone(c) ==
    /\ serv[c] = "done"
    /\ pump[c] = "stopped"
    /\ ServAt(c, "relock")
    /\ UNCHANGED <<clients, cached, mutex, channel, link, pump, sending, panicked>>

(* Mutant: unregister under RLock, beside the Sends.                       *)
UnregisterShared(c) ==
    /\ serv[c] = "unregister"
    /\ clients' = clients \ {c}
    /\ ServAt(c, "close")
    /\ UNCHANGED <<cached, mutex, channel, link, pump, sending, panicked>>

Unregister(c) ==
    /\ serv[c] = "unregister"
    /\ Locked(c)
    /\ clients' = clients \ {c}
    /\ ServAt(c, "close")
    /\ UNCHANGED <<cached, channel, link, pump, sending, panicked>>

(* Closing a closed channel panics, too.                                   *)
Close(c) ==
    /\ serv[c] = "close"
    /\ closed' = [closed EXCEPT ![c] = TRUE]
    /\ panicked' = closed[c]
    /\ Unlock
    /\ ServAt(c, "gone")
    /\ UNCHANGED <<clients, cached, queue, link, pump, sending>>

-----------------------------------------------------------------------------
(* The write pump                                                          *)

(* It receives an event, which it writes, or finds the channel closed and  *)
(* returns.                                                                *)
Receive(c) ==
    /\ pump[c] = "select"
    /\ queue[c] # <<>> \/ closed[c]
    /\ IF queue[c] # <<>>
         THEN PumpAt(c, "write") /\ queue' = [queue EXCEPT ![c] = Tail(@)]
         ELSE PumpAt(c, "stopped") /\ UNCHANGED queue
    /\ UNCHANGED <<clients, cached, mutex, closed, link, serv, sending, panicked>>

(* The ticker fires: a ping is written.                                    *)
Ping(c) ==
    /\ pump[c] = "select"
    /\ PumpAt(c, "write")
    /\ UNCHANGED <<clients, cached, mutex, channel, link, serv, sending, panicked>>

(* Mutant: a write error is ignored.                                       *)
WrittenAnyway(c) ==
    /\ pump[c] = "write"
    /\ PumpAt(c, "select")
    /\ UNCHANGED <<clients, cached, mutex, channel, link, serv, sending, panicked>>

(* WriteMessage fails on a broken connection only, or at its deadline,     *)
(* which breaks the connection.                                            *)
Written(c) ==
    /\ pump[c] = "write"
    /\ PumpAt(c, IF link[c] = "down" THEN "stopped" ELSE "select")
    /\ UNCHANGED <<clients, cached, mutex, channel, link, serv, sending, panicked>>

-----------------------------------------------------------------------------
(* The connection: a peer may stop answering pings while it still takes    *)
(* what is written to it, and a connection may break for good.             *)

GoesMute(c) ==
    /\ link[c] = "up"
    /\ link' = [link EXCEPT ![c] = "mute"]
    /\ UNCHANGED <<clients, cached, mutex, channel, serv, pump, sending, panicked>>

Breaks(c) ==
    /\ link[c] # "down"
    /\ link' = [link EXCEPT ![c] = "down"]
    /\ UNCHANGED <<clients, cached, mutex, channel, serv, pump, sending, panicked>>

-----------------------------------------------------------------------------
SendStep(s) == \/ Send(s) \/ SendOwns(s) \/ SendLocks(s) \/ Cache(s)
               \/ SendRLocks(s) \/ StartRange(s)
               \/ \E c \in Client : NextClient(s, c)
               \/ PutEvent(s) \/ SendReturns(s)

ServeStep(c) == \/ Upgrade(c) \/ ServeOwns(c) \/ Register(c) \/ StartPumps(c) \/ ReadFails(c)
                \/ PumpDone(c) \/ Unregister(c) \/ Close(c)

PumpStep(c) == Receive(c) \/ Ping(c) \/ Written(c)

LinkStep(c) == GoesMute(c) \/ Breaks(c)

Next == /\ ~panicked
        /\ \/ \E s \in Sender : SendStep(s)
           \/ \E c \in Client : ServeStep(c) \/ PumpStep(c) \/ LinkStep(c)

Spec == Init /\ [][Next]_vars

(* A goroutine that can run is run, and a Send under way takes part in     *)
(* that; nobody is obliged to call Send, to connect, or to break.  The     *)
(* writers' mutex hands over in FIFO order once a goroutine has waited for *)
(* a millisecond, so whoever asks for it again and again is served.        *)
SendFairness ==
    \A s \in Sender : /\ WF_vars(~panicked /\ pc[s] # "idle" /\ SendStep(s))
                      /\ SF_vars(~panicked /\ SendOwns(s))
ServeFairness ==
    \A c \in Client : /\ WF_vars(~panicked /\ serv[c] # "upgrade" /\ ServeStep(c))
                      /\ SF_vars(~panicked /\ ServeOwns(c))

(* A write completes or fails within its deadline, and the ticker fires.   *)
FairSpec == /\ Spec /\ SendFairness /\ ServeFairness
            /\ \A c \in Client : WF_vars(~panicked /\ PumpStep(c))

-----------------------------------------------------------------------------
(* Every variable has its type; only Sends take the lock shared, and no    *)
(* send channel holds more than its capacity.                              *)
TypeOK ==
    /\ clients \subseteq Client
    /\ cached \in Event
    /\ owner \in Thread \cup {None}
    /\ readers \subseteq Sender
    /\ waiting \subseteq Sender
    /\ closed \in [Client -> BOOLEAN]
    /\ queue \in [Client -> Seq(Event)]
    /\ \A c \in Client : Len(queue[c]) <= Cap
    /\ link \in [Client -> {"up", "mute", "down"}]
    /\ serv \in [Client -> {"upgrade", "lock", "register", "registered", "read",
                            "done", "relock", "unregister", "close", "gone"}]
    /\ pump \in [Client -> {"none", "select", "write", "stopped"}]
    /\ pc \in [Sender -> {"idle", "lock", "own", "cache", "rlock", "range", "put"}]
    /\ balance \in Event
    /\ visited \in [Sender -> SUBSET Client]
    /\ target \in [Sender -> Client \cup {None}]
    /\ panicked \in BOOLEAN

(* No goroutine sends on a closed channel or closes one twice, however     *)
(* Sends, disconnects and unregistrations interleave.                      *)
NoPanic == ~panicked

(* A client's channel is closed only after its write pump has returned:    *)
(* the pump's branch for a closed channel is never taken.                  *)
ClosedAfterPump == \A c \in Client : closed[c] => pump[c] = "stopped"

(* GET /balance never answers with an older snapshot than a dashboard has  *)
(* been sent: the cache is written before the broadcast.                   *)
CacheCoversQueues ==
    \A c \in Client : \A i \in 1..Len(queue[c]) : queue[c][i] <= cached

(* Snapshots wait in a dashboard's channel in the order they were taken.   *)
InOrder ==
    \A c \in Client : \A i, j \in 1..Len(queue[c]) :
        i < j /\ queue[c][j] # 0 => queue[c][i] < queue[c][j]

(* A dashboard is sent balance snapshots in the order they were taken,     *)
(* none of them twice, and none that GET /balance does not answer with or  *)
(* with a newer one, although Send leaves the lock between the two.        *)
BalancesInOrder == CacheCoversQueues /\ InOrder

(* Nobody waits for a lock that is not given back: whoever waits, there is *)
(* a goroutine between taking h.mu and releasing it that does not wait.    *)
Blocked(t) ==
    \/ /\ t \in Sender
       /\ \/ pc[t] = "lock" /\ owner # None
          \/ pc[t] = "own" /\ readers # {}
          \/ pc[t] = "rlock" /\ t \in waiting
    \/ /\ t \in Client
       /\ \/ serv[t] \in {"lock", "relock"} /\ owner # None
          \/ serv[t] \in {"register", "unregister"} /\ readers # {}

Writing(t) == \/ t \in Sender /\ pc[t] \in {"own", "cache"}
              \/ t \in Client /\ serv[t] \in {"register", "registered",
                                              "unregister", "close"}

Reading(t) == /\ t \in Sender
              /\ pc[t] \in {"range", "put"} \/ (pc[t] = "rlock" /\ t \in readers)

NoDeadlock ==
    \A t \in Thread : Blocked(t) =>
        \E u \in Thread : (Writing(u) \/ Reading(u)) /\ ~Blocked(u)

(* h.clients is never written while a Send has it under RLock: a write to  *)
(* a map during a range over it is a fatal error in Go.                    *)
WrittenAlone == [][clients' # clients => \A t \in Thread : ~Reading(t)]_vars

(* "Slow client: drop the message rather than block": a Send under way     *)
(* returns, also when a client's write pump is gone and its channel full.  *)
SendReturnsAlways == \A s \in Sender : pc[s] # "idle" ~> pc[s] = "idle"

(* The inductive strengthening of NoPanic and CacheCoversQueues.  A Send   *)
(* that ranges over the clients holds the lock shared, and its next target *)
(* is still registered; a registered client's channel is open; from the    *)
(* time the tracker has stored its snapshot the cache is up to date.       *)
Ranging ==
    \A s \in Sender : /\ pc[s] \in {"range", "put"} => s \in readers
                      /\ pc[s] = "put" => target[s] \in clients

Open ==
    \A c \in Client :
        /\ c \in clients => serv[c] \in {"registered", "read", "done", "relock",
                                        "unregister"}
        /\ closed[c] => serv[c] = "gone"

Cached == /\ cached <= balance
          /\ Tracker \in Sender /\ pc[Tracker] \in {"rlock", "range", "put"}
                => cached = balance

IInv == TypeOK /\ Ranging /\ Open /\ Cached /\ CacheCoversQueues /\ NoPanic

(* That of BalancesInOrder: the latest snapshot is in a client's channel   *)
(* only if the tracker's Send is through with that client.                 *)
Fresh ==
    Tracker \in Sender =>
        /\ pc[Tracker] = "put" => target[Tracker] \in visited[Tracker]
        /\ \A c \in Client : \A i \in 1..Len(queue[c]) :
              queue[c][i] = balance /\ balance > 0 =>
                  /\ pc[Tracker] \in {"idle", "range", "put"}
                  /\ pc[Tracker] # "idle" => c \in visited[Tracker]
                  /\ pc[Tracker] = "put" => c # target[Tracker]

(* That of NoDeadlock: h.mu is held by those who are where it is held.     *)
LockAgrees ==
    /\ \A t \in Thread : owner = t <=> Writing(t)
    /\ \A s \in Sender : /\ s \in readers => Reading(s)
                         /\ s \in waiting => pc[s] = "rlock" /\ s \notin readers
                         /\ pc[s] = "cache" => readers = {}
    /\ \A c \in Client : serv[c] \in {"registered", "close"} => readers = {}
    /\ waiting # {} => owner # None

(* A client whose connection broke is removed from the hub in the end.     *)
BrokenIsRemoved ==
    \A c \in Client : link[c] = "down" ~> c \notin clients
=============================================================================
