----------------------------- MODULE Subscriber -----------------------------
(***************************************************************************)
(* The block subscriber of one chain (internal/chain/subscriber.go): a     *)
(* WebSocket subscription, a polling fallback, and the goroutines that     *)
(* Start and reconnect create.  The block handler is the engine's          *)
(* HandleBlock.  Waiting (the reconnect delay, the poll ticker) is left to *)
(* the interleaving; Start never returns an error, so reconnect attempts   *)
(* it once.                                                                *)
(***************************************************************************)
EXTENDS Naturals, Sequences

CONSTANTS Goroutine,  \* goroutines; a dead one may be started again
          Main,       \* the goroutine of main, which calls Start first
          HasWS,      \* the client has a WebSocket connection
          MaxBlock,   \* bound: the blocks of the chain
          Buffer      \* headers a subscription holds before it overflows

ASSUME SubscriberAssumption ==
    /\ Main \in Goroutine
    /\ HasWS \in BOOLEAN
    /\ MaxBlock \in Nat
    /\ Buffer \in Nat

VARIABLES
    head,       \* the chain's latest block
    cancelled,  \* the context is cancelled
    pc,         \* pc[g]: where goroutine g is
    sub,        \* sub[g]: the subscription of g
    queue,      \* queue[g]: headers delivered to it, not yet taken
    seen,       \* seen[g]: lastBlock of a poller
    last        \* the block handled last

vars == <<head, cancelled, pc, sub, queue, seen, last>>

feed == <<sub, queue>>

PC == {"dead", "start", "leaving", "ws", "wsBusy", "reconnect",
       "poll", "fetch", "pollBusy"}

Init ==
    /\ head = 0
    /\ cancelled = FALSE
    /\ pc = [g \in Goroutine |-> IF g = Main THEN "start" ELSE "dead"]
    /\ sub = [g \in Goroutine |-> "none"]
    /\ queue = [g \in Goroutine |-> <<>>]
    /\ seen = [g \in Goroutine |-> 0]
    /\ last = 0

Goto(g, l) == pc' = [pc EXCEPT ![g] = l]

(* The handler is called with the header of block n.                       *)
Handle(n) == last' = n

-----------------------------------------------------------------------------
(* The chain and the connection                                            *)

(* Live subscriptions get the new header; one whose buffer is full fails.  *)
NewBlock ==
    /\ head < MaxBlock
    /\ head' = head + 1
    /\ queue' = [g \in Goroutine |->
                    IF sub[g] = "live" /\ Len(queue[g]) < Buffer
                      THEN Append(queue[g], head') ELSE queue[g]]
    /\ sub' = [g \in Goroutine |->
                    IF sub[g] = "live" /\ Len(queue[g]) >= Buffer
                      THEN "failed" ELSE sub[g]]
    /\ UNCHANGED <<cancelled, pc, seen, last>>

ConnectionLost(g) ==
    /\ sub[g] = "live"
    /\ sub' = [sub EXCEPT ![g] = "failed"]
    /\ UNCHANGED <<head, cancelled, pc, queue, seen, last>>

Cancel ==
    /\ ~cancelled
    /\ cancelled' = TRUE
    /\ UNCHANGED <<head, pc, feed, seen, last>>

-----------------------------------------------------------------------------
(* Start, called by main and by reconnect; then the caller returns.        *)

(* SubscribeNewHead succeeds: go runWS.                                    *)
StartWS(g, h) ==
    /\ pc[g] = "start"
    /\ pc[h] = "dead"
    /\ HasWS
    /\ ~cancelled
    /\ pc' = [pc EXCEPT ![g] = "leaving", ![h] = "ws"]
    /\ sub' = [sub EXCEPT ![h] = "live"]
    /\ UNCHANGED <<head, cancelled, queue, seen, last>>

(* Mutant: reconnect goes on trying after Start has succeeded.             *)
StartPollAgain(g, h) ==
    /\ pc[g] = "start"
    /\ pc[h] = "dead"
    /\ pc' = [pc EXCEPT ![g] = IF g = Main THEN "leaving" ELSE "reconnect",
                        ![h] = "poll"]
    /\ seen' = [seen EXCEPT ![h] = 0]
    /\ UNCHANGED <<head, cancelled, feed, last>>

(* There is no WebSocket or subscribing failed: go runPoll.                *)
StartPoll(g, h) ==
    /\ pc[g] = "start"
    /\ pc[h] = "dead"
    /\ pc' = [pc EXCEPT ![g] = "leaving", ![h] = "poll"]
    /\ seen' = [seen EXCEPT ![h] = 0]
    /\ UNCHANGED <<head, cancelled, feed, last>>

(* The goroutine returns; runWS unsubscribes on the way out.               *)
Leave(g) ==
    /\ pc[g] = "leaving"
    /\ Goto(g, "dead")
    /\ sub' = [sub EXCEPT ![g] = "none"]
    /\ queue' = [queue EXCEPT ![g] = <<>>]
    /\ UNCHANGED <<head, cancelled, seen, last>>

(* Mutant: runPoll does not look at ctx.Done.                              *)
StopSubscription(g) ==
    /\ pc[g] \in {"ws", "reconnect"}
    /\ cancelled
    /\ Goto(g, "leaving")
    /\ UNCHANGED <<head, cancelled, feed, seen, last>>

(* ctx.Done in runWS, in runPoll and at the top of reconnect's loop.       *)
Stop(g) ==
    /\ pc[g] \in {"ws", "poll", "reconnect"}
    /\ cancelled
    /\ Goto(g, "leaving")
    /\ UNCHANGED <<head, cancelled, feed, seen, last>>

-----------------------------------------------------------------------------
(* runWS and reconnect                                                     *)

WsHeader(g) ==
    /\ pc[g] = "ws"
    /\ queue[g] # <<>>
    /\ queue' = [queue EXCEPT ![g] = Tail(@)]
    /\ Handle(Head(queue[g]))
    /\ Goto(g, "wsBusy")
    /\ UNCHANGED <<head, cancelled, sub, seen>>

(* Mutant: runWS gives up when its subscription fails.                     *)
WsErrorReturns(g) ==
    /\ pc[g] = "ws"
    /\ sub[g] = "failed"
    /\ Goto(g, "leaving")
    /\ UNCHANGED <<head, cancelled, feed, seen, last>>

(* sub.Err: headers still in the channel are lost with it.                 *)
WsError(g) ==
    /\ pc[g] = "ws"
    /\ sub[g] = "failed"
    /\ Goto(g, "reconnect")
    /\ UNCHANGED <<head, cancelled, feed, seen, last>>

(* The delay has passed; the context may be cancelled meanwhile.           *)
Reconnect(g) ==
    /\ pc[g] = "reconnect"
    /\ ~cancelled
    /\ Goto(g, "start")
    /\ UNCHANGED <<head, cancelled, feed, seen, last>>

-----------------------------------------------------------------------------
(* runPoll.  A failed BlockNumber or a number already seen changes         *)
(* nothing.                                                                *)

(* Mutant: the number is compared with the wrong bound.                    *)
PollNumberAgain(g) ==
    /\ pc[g] = "poll"
    /\ ~cancelled
    /\ head > 0 /\ head >= seen[g]
    /\ seen' = [seen EXCEPT ![g] = head]
    /\ Goto(g, "fetch")
    /\ UNCHANGED <<head, cancelled, feed, last>>

(* Mutant: the number of the next block to expect is recorded.             *)
PollNumberNext(g) ==
    /\ pc[g] = "poll"
    /\ ~cancelled
    /\ head >= seen[g]
    /\ seen' = [seen EXCEPT ![g] = head + 1]
    /\ Goto(g, "fetch")
    /\ UNCHANGED <<head, cancelled, feed, last>>

(* BlockNumber answers with a number above lastBlock, which is recorded.   *)
PollNumber(g) ==
    /\ pc[g] = "poll"
    /\ ~cancelled
    /\ head > seen[g]
    /\ seen' = [seen EXCEPT ![g] = head]
    /\ Goto(g, "fetch")
    /\ UNCHANGED <<head, cancelled, feed, last>>

(* HeaderByNumber(nil) answers with the latest header, which may be newer  *)
(* than the number just recorded.                                          *)
PollHeader(g) ==
    /\ pc[g] = "fetch"
    /\ ~cancelled
    /\ Handle(head)
    /\ Goto(g, "pollBusy")
    /\ UNCHANGED <<head, cancelled, feed, seen>>

PollHeaderFails(g) ==
    /\ pc[g] = "fetch"
    /\ Goto(g, "poll")
    /\ UNCHANGED <<head, cancelled, feed, seen, last>>

(* The block handler returns; its error is ignored.                        *)
HandlerReturns(g) ==
    /\ pc[g] \in {"wsBusy", "pollBusy"}
    /\ Goto(g, IF pc[g] = "wsBusy" THEN "ws" ELSE "poll")
    /\ UNCHANGED <<head, cancelled, feed, seen, last>>

-----------------------------------------------------------------------------
Step(g) == \/ \E h \in Goroutine : StartWS(g, h) \/ StartPoll(g, h)
           \/ Leave(g) \/ Stop(g)
           \/ WsHeader(g) \/ WsError(g) \/ Reconnect(g)
           \/ PollNumber(g) \/ PollHeader(g) \/ PollHeaderFails(g)
           \/ HandlerReturns(g)

(* After the shutdown nothing is left to do.                               *)
Stopped == /\ \A g \in Goroutine : pc[g] = "dead"
           /\ UNCHANGED vars

Next == \/ NewBlock \/ Cancel
        \/ \E g \in Goroutine : Step(g) \/ ConnectionLost(g)
        \/ Stopped

Spec == Init /\ [][Next]_vars

(* Goroutines that can run are run and the handler returns; a select with  *)
(* several ready cases picks each of them again and again.                 *)
FairSpec == Spec /\ \A g \in Goroutine : WF_vars(Step(g)) /\ SF_vars(Stop(g))

-----------------------------------------------------------------------------
(* Every variable has its type: the numbers are those of blocks the chain  *)
(* has, or 0 when a loop has not seen one.                                 *)
TypeOK ==
    /\ head \in 0..MaxBlock
    /\ cancelled \in BOOLEAN
    /\ pc \in [Goroutine -> PC]
    /\ sub \in [Goroutine -> {"none", "live", "failed"}]
    /\ queue \in [Goroutine -> Seq(1..MaxBlock)]
    /\ seen \in [Goroutine -> 0..MaxBlock]
    /\ last \in 0..MaxBlock

(* However often the subscription breaks, one goroutine at most takes      *)
(* blocks to the handler: HandleBlock never runs twice at a time.          *)
InLoop == {"ws", "wsBusy", "poll", "fetch", "pollBusy"}
SingleLoop ==
    \A g, h \in Goroutine : pc[g] \in InLoop /\ pc[h] \in InLoop => g = h

(* The handler never gets a block older than the last one it got, across   *)
(* the change from subscription to polling too (on a node whose answers    *)
(* are consistent and a chain without reorganisations).                    *)
NeverBackwards == [][last' >= last]_vars

(* The inductive strengthening of SingleLoop and NeverBackwards.  Of the   *)
(* goroutines that still have something to do there is one at most, those  *)
(* in Start and reconnect included; the headers in the channel of a        *)
(* runWS are in order, and newer than the block handled last.              *)
Working(g) == pc[g] \notin {"dead", "leaving"}

OneWorks == \A g, h \in Goroutine : Working(g) /\ Working(h) => g = h

Ordered ==
    /\ last <= head
    /\ \A g \in Goroutine :
          /\ pc[g] = "dead" => sub[g] = "none" /\ queue[g] = <<>>
          /\ pc[g] = "fetch" => head > 0 /\ last <= seen[g] /\ seen[g] <= head
          /\ pc[g] \in {"ws", "wsBusy"} =>
                \A i \in 1..Len(queue[g]) :
                    /\ last < queue[g][i] /\ queue[g][i] <= head
                    /\ \A j \in 1..Len(queue[g]) : i < j => queue[g][i] < queue[g][j]

IInv == TypeOK /\ OneWorks /\ Ordered

(* The block handled last may be handled once more: by a polling loop that *)
(* has not recorded its number yet, or that is about to fetch its header.  *)
Repeats(g) == CASE ~Working(g)                       -> FALSE
                [] pc[g] \in {"poll", "pollBusy"}    -> seen[g] < last
                [] pc[g] = "fetch"                   -> seen[g] = last
                [] OTHER                             -> TRUE

Settled == \A g \in Goroutine : ~Repeats(g)
Busy    == \E g \in Goroutine : pc[g] \in {"wsBusy", "pollBusy"}
Ended   == \A g \in Goroutine : ~Working(g)

Abs == INSTANCE Delivery WITH settled <- Settled, busy <- Busy, ended <- Ended

(* Whatever happens to its connection, the subscriber delivers blocks as   *)
(* Delivery says: in order, none more than twice, until the shutdown.      *)
Delivers == Abs!Spec

(* Until the shutdown there is again and again a goroutine that waits for  *)
(* blocks: no failure leaves the chain without one.                        *)
StaysAlive == []<>(cancelled \/ \E g \in Goroutine : pc[g] \in {"ws", "poll"})

(* After the shutdown signal every goroutine ends.                         *)
ShutsDown == cancelled ~> \A g \in Goroutine : pc[g] = "dead"
=============================================================================
