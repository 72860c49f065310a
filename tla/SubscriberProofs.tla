-------------------------- MODULE SubscriberProofs --------------------------
(* For any number of goroutines and blocks: one block loop at a time, no   *)
(* header older than the last one handled, and Delivery implemented.       *)
EXTENDS Subscriber, TLAPS

LEMMA InitInvariant == Init => IInv
<1> SUFFICES ASSUME Init PROVE IInv
  OBVIOUS
<1> USE SubscriberAssumption DEF Init
<1>1. TypeOK
  <2>1. pc \in [Goroutine -> PC] /\ queue \in [Goroutine -> Seq(1..MaxBlock)]
    BY DEF PC
  <2>3. /\ head \in 0..MaxBlock /\ last \in 0..MaxBlock
        /\ sub \in [Goroutine -> {"none", "live", "failed"}]
    OBVIOUS
  <2>4. cancelled \in BOOLEAN
    OBVIOUS
  <2>5. seen \in [Goroutine -> 0..MaxBlock]
    OBVIOUS
  <2> QED
    BY ONLY <2>1, <2>3, <2>4, <2>5 DEF TypeOK
<1>2. OneWorks /\ Ordered
  BY DEF OneWorks, Working, Ordered
<1> QED
  BY <1>1, <1>2 DEF IInv

(* Removing the first header or adding the chain's next one keeps a        *)
(* channel's contents typed.                                               *)
LEMMA TailTyped ==
  ASSUME NEW S, NEW q \in Seq(S), q # <<>>
  PROVE  /\ Tail(q) \in Seq(S) /\ Len(q) \in Nat \ {0}
         /\ Head(q) = q[1] /\ q[1] \in S
         /\ Len(Tail(q)) = Len(q) - 1
         /\ \A i \in 1..Len(Tail(q)) : i + 1 \in 1..Len(q) /\ Tail(q)[i] = q[i + 1]
  OBVIOUS

LEMMA AppendTyped ==
  ASSUME NEW S, NEW q \in Seq(S), NEW e \in S
  PROVE  /\ Append(q, e) \in Seq(S) /\ Len(q) \in Nat
         /\ Len(Append(q, e)) = Len(q) + 1
         /\ Append(q, e)[Len(q) + 1] = e
         /\ \A i \in 1..Len(q) : Append(q, e)[i] = q[i]
  OBVIOUS

LEMMA NewBlockInvariant ==
  ASSUME IInv, NewBlock
  PROVE  IInv'
<1> USE SubscriberAssumption
<1>1. /\ head' = head + 1 /\ head' \in 1..MaxBlock /\ head \in Nat
      /\ UNCHANGED <<cancelled, pc, seen, last>>
  BY DEF IInv, TypeOK, NewBlock
<1>2. ASSUME NEW g \in Goroutine
      PROVE  /\ queue'[g] \in Seq(1..MaxBlock)
             /\ \/ queue'[g] = queue[g]
                \/ queue'[g] = Append(queue[g], head') /\ sub[g] = "live"
  <2>1. queue[g] \in Seq(1..MaxBlock)
    BY DEF IInv, TypeOK
  <2>2. Append(queue[g], head') \in Seq(1..MaxBlock)
    BY <1>1, <2>1, AppendTyped
  <2>3. queue'[g] = IF sub[g] = "live" /\ Len(queue[g]) < Buffer
                      THEN Append(queue[g], head') ELSE queue[g]
    BY DEF NewBlock
  <2> QED
    BY <2>1, <2>2, <2>3
<1>3. TypeOK'
  <2>1. queue' \in [Goroutine -> Seq(1..MaxBlock)]
    <3>1. queue' = [g \in Goroutine |-> queue'[g]]
      BY DEF NewBlock
    <3> QED
      BY <1>2, <3>1
  <2>2. sub' \in [Goroutine -> {"none", "live", "failed"}]
    BY DEF IInv, TypeOK, NewBlock
  <2> QED
    BY <1>1, <2>1, <2>2 DEF IInv, TypeOK
<1>4. OneWorks'
  BY <1>1 DEF IInv, OneWorks, Working
<1>5. Ordered'
  <2> SUFFICES ASSUME NEW g \in Goroutine
               PROVE  /\ last' <= head'
                      /\ pc'[g] = "dead" => sub'[g] = "none" /\ queue'[g] = <<>>
                      /\ pc'[g] = "fetch" => /\ head' > 0 /\ last' <= seen'[g]
                                               /\ seen'[g] <= head'
                      /\ pc'[g] \in {"ws", "wsBusy"} =>
                            \A i \in 1..Len(queue'[g]) :
                              /\ last' < queue'[g][i] /\ queue'[g][i] <= head'
                              /\ \A j \in 1..Len(queue'[g]) :
                                    i < j => queue'[g][i] < queue'[g][j]
    BY <1>1 DEF Ordered, IInv, TypeOK
  <2>1. last' <= head' /\ last < head' /\ last \in Nat
    BY <1>1 DEF IInv, TypeOK, Ordered
  <2>2. pc'[g] = "dead" => sub'[g] = "none" /\ queue'[g] = <<>>
    <3>1. pc[g] = "dead" => sub[g] = "none" /\ queue[g] = <<>>
      BY DEF IInv, Ordered
    <3>2. sub[g] # "live" => sub'[g] = sub[g] /\ queue'[g] = queue[g]
      BY DEF NewBlock
    <3> QED
      BY <1>1, <3>1, <3>2
  <2>3. ASSUME pc'[g] \in {"ws", "wsBusy"}
        PROVE  \A i \in 1..Len(queue'[g]) :
                  /\ last' < queue'[g][i] /\ queue'[g][i] <= head'
                  /\ \A j \in 1..Len(queue'[g]) :
                        i < j => queue'[g][i] < queue'[g][j]
    <3>1. \A i \in 1..Len(queue[g]) :
                    /\ last < queue[g][i] /\ queue[g][i] <= head
                    /\ \A j \in 1..Len(queue[g]) : i < j => queue[g][i] < queue[g][j]
      BY <1>1, <2>3 DEF IInv, Ordered
    <3>2. /\ queue[g] \in Seq(1..MaxBlock)
          /\ \A i \in 1..Len(queue[g]) : queue[g][i] \in Nat
      BY DEF IInv, TypeOK
    <3>3. CASE queue'[g] = queue[g]
      BY <1>1, <3>1, <3>2, <3>3
    <3>4. CASE queue'[g] = Append(queue[g], head')
      <4>1. /\ Len(queue[g]) \in Nat /\ Len(queue'[g]) = Len(queue[g]) + 1
            /\ queue'[g][Len(queue[g]) + 1] = head'
            /\ \A i \in 1..Len(queue[g]) : queue'[g][i] = queue[g][i]
        BY <1>1, <3>2, <3>4, AppendTyped
      <4>2. ASSUME NEW i \in 1..Len(queue'[g])
            PROVE  /\ i \in 1..Len(queue[g]) \/ i = Len(queue[g]) + 1
                   /\ last < queue'[g][i] /\ queue'[g][i] <= head'
        <5>1. CASE i \in 1..Len(queue[g])
          <6>1. last < queue[g][i] /\ queue[g][i] <= head /\ queue[g][i] \in Nat
            BY <3>1, <3>2, <5>1
          <6>2. queue'[g][i] = queue[g][i] /\ head' = head + 1 /\ head \in Nat
            BY <1>1, <4>1, <5>1
          <6> QED
            BY ONLY <5>1, <6>1, <6>2
        <5>2. CASE i = Len(queue[g]) + 1
          BY <1>1, <2>1, <4>1, <5>2
        <5> QED
          BY <4>1, <5>1, <5>2
      <4>3. ASSUME NEW i \in 1..Len(queue'[g]), NEW j \in 1..Len(queue'[g]), i < j
            PROVE  queue'[g][i] < queue'[g][j]
        <5>1. i \in 1..Len(queue[g])
          BY <4>1, <4>3
        <5>2. CASE j \in 1..Len(queue[g])
          BY <3>1, <4>1, <4>3, <5>1, <5>2
        <5>3. CASE j = Len(queue[g]) + 1
          BY <1>1, <3>1, <3>2, <4>1, <5>1, <5>3
        <5> QED
          BY <4>2, <5>2, <5>3
      <4> QED
        BY <1>1, <4>2, <4>3
    <3> QED
      BY <1>2, <3>3, <3>4
  <2>4. pc'[g] = "fetch" => head' > 0 /\ last' <= seen'[g] /\ seen'[g] <= head'
    BY <1>1, <2>1 DEF IInv, TypeOK, Ordered
  <2> QED
    BY <2>1, <2>2, <2>3, <2>4
<1> QED
  BY <1>3, <1>4, <1>5 DEF IInv

(* The steps that change program counters, subscriptions or lastBlock and  *)
(* leave the chain, the channels and the handled blocks alone.             *)
LEMMA ControlInvariant ==
  ASSUME IInv, NEW g \in Goroutine,
         \/ \E h \in Goroutine : StartWS(g, h) \/ StartPoll(g, h)
         \/ Stop(g) \/ WsError(g) \/ Reconnect(g) \/ ConnectionLost(g)
         \/ PollNumber(g) \/ PollHeaderFails(g) \/ HandlerReturns(g)
  PROVE  IInv'
<1> USE SubscriberAssumption DEF feed
<1>1. UNCHANGED <<head, queue, last>>
  BY DEF StartWS, StartPoll, Stop, WsError, Reconnect, ConnectionLost,
         PollNumber, PollHeaderFails, HandlerReturns, Goto
<1>2. TypeOK' /\ OneWorks'
  <2> USE DEF IInv, TypeOK, PC, OneWorks, Working, Goto
  <2>1. ASSUME NEW h \in Goroutine, StartWS(g, h) \/ StartPoll(g, h)
        PROVE  TypeOK' /\ OneWorks'
    <3>1. CASE StartWS(g, h)
      BY <1>1, <3>1 DEF StartWS
    <3>2. CASE StartPoll(g, h)
      <4>1. seen' \in [Goroutine -> 0..MaxBlock]
        BY <3>2 DEF StartPoll
      <4>2. pc' \in [Goroutine -> PC] /\ OneWorks'
        BY <3>2 DEF StartPoll
      <4>3. UNCHANGED <<head, cancelled, sub, queue, last>>
        BY <3>2 DEF StartPoll
      <4> QED
        BY <4>1, <4>2, <4>3
    <3> QED
      BY <2>1, <3>1, <3>2
  <2>2. CASE Stop(g)
    BY <1>1, <2>2 DEF Stop
  <2>3. CASE WsError(g) \/ Reconnect(g) \/ PollHeaderFails(g)
    BY <1>1, <2>3 DEF WsError, Reconnect, PollHeaderFails
  <2>4. CASE ConnectionLost(g)
    BY <1>1, <2>4 DEF ConnectionLost
  <2>5. CASE PollNumber(g)
    BY <1>1, <2>5 DEF PollNumber
  <2>6. CASE HandlerReturns(g)
    BY <1>1, <2>6 DEF HandlerReturns
  <2> QED
    BY <2>1, <2>2, <2>3, <2>4, <2>5, <2>6
<1>3. \A h \in Goroutine :
         /\ pc'[h] = "dead" => pc[h] = "dead" /\ sub'[h] = sub[h]
         /\ pc'[h] \in {"ws", "wsBusy"} => pc[h] \in {"ws", "wsBusy", "dead"}
  BY DEF IInv, TypeOK, Ordered, StartWS, StartPoll, Stop, WsError, Reconnect,
         ConnectionLost, PollNumber, PollHeaderFails, HandlerReturns, Goto
<1>4. ASSUME NEW h \in Goroutine, pc'[h] = "fetch"
      PROVE  head > 0 /\ last <= seen'[h] /\ seen'[h] <= head
  <2>1. CASE pc[h] = "fetch" /\ seen'[h] = seen[h]
    BY <2>1 DEF IInv, Ordered
  <2>2. CASE PollNumber(g) /\ h = g
    BY <2>2 DEF IInv, TypeOK, Ordered, PollNumber
  <2>3. CASE PollNumber(g) /\ h # g
    BY <1>4, <2>1, <2>3 DEF IInv, TypeOK, PollNumber, Goto
  <2>4. CASE \E i \in Goroutine : StartWS(g, i) \/ StartPoll(g, i)
    BY <1>4, <2>1, <2>4 DEF IInv, TypeOK, StartWS, StartPoll
  <2>5. CASE \/ Stop(g) \/ WsError(g) \/ Reconnect(g) \/ ConnectionLost(g)
             \/ PollHeaderFails(g) \/ HandlerReturns(g)
    BY <1>4, <2>1, <2>5 DEF IInv, TypeOK, Stop, WsError, Reconnect, ConnectionLost,
                            PollHeaderFails, HandlerReturns, Goto
  <2> QED
    BY <2>2, <2>3, <2>4, <2>5
<1>5. Ordered'
  BY <1>1, <1>3, <1>4 DEF IInv, Ordered
<1> QED
  BY <1>2, <1>5 DEF IInv

LEMMA LeaveInvariant ==
  ASSUME IInv, NEW g \in Goroutine, Leave(g)
  PROVE  IInv'
<1> USE SubscriberAssumption DEF feed, Goto, Leave
<1>1. TypeOK'
  BY DEF IInv, TypeOK, PC
<1>2. OneWorks'
  BY DEF IInv, TypeOK, OneWorks, Working
<1>3. Ordered'
  BY DEF IInv, TypeOK, Ordered
<1> QED
  BY <1>1, <1>2, <1>3 DEF IInv

(* The two steps that call the handler: the one goroutine that works is g, *)
(* so no other channel has to stay behind the block it handles.            *)
LEMMA HandleTyped ==
  ASSUME TypeOK, NEW n \in 1..MaxBlock, Handle(n)
  PROVE  last' = n /\ last' \in 0..MaxBlock
BY SubscriberAssumption DEF TypeOK, Handle

LEMMA WsHeaderInvariant ==
  ASSUME IInv, NEW g \in Goroutine, WsHeader(g)
  PROVE  IInv' /\ last' >= last
<1> USE SubscriberAssumption
<1>1. /\ pc[g] = "ws" /\ queue[g] # <<>>
      /\ queue' = [queue EXCEPT ![g] = Tail(queue[g])]
      /\ pc' = [pc EXCEPT ![g] = "wsBusy"]
      /\ UNCHANGED <<head, cancelled, sub, seen>>
      /\ Handle(Head(queue[g]))
  BY DEF WsHeader, Goto
<1>2. /\ queue[g] \in Seq(1..MaxBlock)
      /\ Tail(queue[g]) \in Seq(1..MaxBlock) /\ Len(queue[g]) \in Nat \ {0}
      /\ Head(queue[g]) = queue[g][1] /\ queue[g][1] \in 1..MaxBlock
      /\ Len(Tail(queue[g])) = Len(queue[g]) - 1
      /\ \A i \in 1..Len(Tail(queue[g])) :
            i + 1 \in 1..Len(queue[g]) /\ Tail(queue[g])[i] = queue[g][i + 1]
  <2>1. queue[g] \in Seq(1..MaxBlock)
    BY DEF IInv, TypeOK
  <2> QED
    BY <1>1, <2>1, TailTyped
<1>3. last' = queue[g][1] /\ last' \in 0..MaxBlock
  BY <1>1, <1>2, HandleTyped DEF IInv
<1>4. \A i \in 1..Len(queue[g]) :
          /\ last < queue[g][i] /\ queue[g][i] <= head
          /\ \A j \in 1..Len(queue[g]) : i < j => queue[g][i] < queue[g][j]
  BY <1>1 DEF IInv, Ordered
<1>5. TypeOK'
  BY <1>1, <1>2, <1>3 DEF IInv, TypeOK, PC
<1>6. OneWorks'
  BY <1>1 DEF IInv, TypeOK, OneWorks, Working
<1>7. Ordered'
  <2>1. last' <= head'
    BY <1>1, <1>2, <1>3, <1>4
  <2>2. ASSUME NEW h \in Goroutine, h # g
        PROVE  /\ pc'[h] = "dead" => sub'[h] = "none" /\ queue'[h] = <<>>
               /\ pc'[h] \notin {"ws", "wsBusy", "fetch"}
    BY <1>1, <2>2 DEF IInv, TypeOK, Ordered, OneWorks, Working
  <2>3. \A i \in 1..Len(queue'[g]) :
          /\ last' < queue'[g][i] /\ queue'[g][i] <= head'
          /\ \A j \in 1..Len(queue'[g]) : i < j => queue'[g][i] < queue'[g][j]
    <3>1. queue'[g] = Tail(queue[g]) /\ head' = head
      BY <1>1 DEF IInv, TypeOK
    <3>2. \A i \in 1..Len(queue'[g]) :
             /\ i \in Nat /\ 1 < i + 1
             /\ i + 1 \in 1..Len(queue[g]) /\ queue'[g][i] = queue[g][i + 1]
      BY <1>2, <3>1
    <3>3. 1 \in 1..Len(queue[g])
      BY <1>2
    <3>4. ASSUME NEW i \in 1..Len(queue'[g])
          PROVE  last' < queue'[g][i] /\ queue'[g][i] <= head'
      BY <1>3, <1>4, <3>1, <3>2, <3>3
    <3>5. ASSUME NEW i \in 1..Len(queue'[g]), NEW j \in 1..Len(queue'[g]), i < j
          PROVE  queue'[g][i] < queue'[g][j]
      <4>1. /\ i + 1 \in 1..Len(queue[g]) /\ j + 1 \in 1..Len(queue[g]) /\ i + 1 < j + 1
            /\ queue'[g][i] = queue[g][i + 1] /\ queue'[g][j] = queue[g][j + 1]
        BY <3>2, <3>5
      <4> QED
        BY <1>4, <4>1
    <3> QED
      BY <3>4, <3>5
  <2>4. pc'[g] = "wsBusy"
    BY <1>1 DEF IInv, TypeOK
  <2> QED
    BY <2>1, <2>2, <2>3, <2>4 DEF Ordered
<1>8. last' >= last
  BY <1>2, <1>3, <1>4 DEF IInv, TypeOK
<1> QED
  BY <1>5, <1>6, <1>7, <1>8 DEF IInv

LEMMA PollHeaderInvariant ==
  ASSUME IInv, NEW g \in Goroutine, PollHeader(g)
  PROVE  IInv' /\ last' >= last
<1> USE SubscriberAssumption
<1>1. /\ pc[g] = "fetch" /\ pc' = [pc EXCEPT ![g] = "pollBusy"]
      /\ UNCHANGED <<head, cancelled, sub, queue, seen>>
      /\ Handle(head)
  BY DEF PollHeader, Goto, feed
<1>2. head \in 1..MaxBlock /\ last <= head
  BY <1>1 DEF IInv, TypeOK, Ordered
<1>3. last' = head /\ last' \in 0..MaxBlock
  BY <1>1, <1>2, HandleTyped DEF IInv
<1>4. TypeOK'
  BY <1>1, <1>3 DEF IInv, TypeOK, PC
<1>5. OneWorks'
  BY <1>1 DEF IInv, TypeOK, OneWorks, Working
<1>6. Ordered'
  <2>1. ASSUME NEW h \in Goroutine
        PROVE  /\ pc'[h] = "dead" => sub'[h] = "none" /\ queue'[h] = <<>>
               /\ pc'[h] \notin {"ws", "wsBusy", "fetch"}
    BY <1>1 DEF IInv, TypeOK, Ordered, OneWorks, Working
  <2>2. last' <= head'
    BY <1>1, <1>2, <1>3
  <2> QED
    BY <2>1, <2>2 DEF Ordered
<1>7. last' >= last
  BY <1>2, <1>3 DEF IInv, TypeOK
<1> QED
  BY <1>4, <1>5, <1>6, <1>7 DEF IInv

(* A step keeps the invariant and never goes back in the chain.            *)
LEMMA StepInvariant ==
  ASSUME IInv, [Next]_vars
  PROVE  IInv' /\ last' >= last
<1>1. last \in Nat
  BY SubscriberAssumption DEF IInv, TypeOK
<1>2. CASE NewBlock
  BY <1>1, <1>2, NewBlockInvariant DEF NewBlock
<1>3. CASE Cancel \/ UNCHANGED vars
  <2>1. /\ cancelled' \in BOOLEAN
        /\ UNCHANGED <<head, pc, sub, queue, seen, last>>
    BY <1>3 DEF Cancel, vars, feed, IInv, TypeOK
  <2> QED
    BY <1>1, <2>1 DEF IInv, TypeOK, OneWorks, Working, Ordered
<1>4. ASSUME NEW g \in Goroutine,
             \/ \E h \in Goroutine : StartWS(g, h) \/ StartPoll(g, h)
             \/ Stop(g) \/ WsError(g) \/ Reconnect(g) \/ ConnectionLost(g)
             \/ PollNumber(g) \/ PollHeaderFails(g) \/ HandlerReturns(g)
      PROVE  IInv' /\ last' >= last
  <2>1. last' = last
    BY <1>4 DEF StartWS, StartPoll, Stop, WsError, Reconnect, ConnectionLost,
                PollNumber, PollHeaderFails, HandlerReturns
  <2> QED
    BY <1>1, <1>4, <2>1, ControlInvariant
<1>5. ASSUME NEW g \in Goroutine, Leave(g) PROVE IInv' /\ last' >= last
  <2>1. last' = last
    BY <1>5 DEF Leave
  <2> QED
    BY <1>1, <1>5, <2>1, LeaveInvariant
<1>6. ASSUME NEW g \in Goroutine, WsHeader(g) \/ PollHeader(g)
      PROVE  IInv' /\ last' >= last
  BY <1>6, WsHeaderInvariant, PollHeaderInvariant
<1> QED
  BY <1>2, <1>3, <1>4, <1>5, <1>6 DEF Next, Step, Stopped

(* The inductive invariant: one goroutine that works, headers in order.    *)
THEOREM Invariance == Spec => []IInv
<1>1. IInv /\ [Next]_vars => IInv'
  BY StepInvariant
<1> QED
  BY <1>1, InitInvariant, PTL DEF Spec

(* Every variable of the subscriber keeps its type, for any buffer, any    *)
(* number of goroutines and any number of blocks.                          *)
THEOREM TypeCorrect == Spec => []TypeOK
<1>1. IInv => TypeOK
  BY DEF IInv
<1> QED
  BY <1>1, Invariance, PTL

(* Start, runWS and reconnect (subscriber.go, 33-76 and 117-138) hand the  *)
(* block loop from goroutine to goroutine, and never leave two running.    *)
THEOREM OneLoop == Spec => []SingleLoop
<1>1. IInv => SingleLoop
  BY DEF IInv, OneWorks, Working, SingleLoop, InLoop
<1> QED
  BY <1>1, Invariance, PTL

(* The handler is never given a block older than the last one, whether it  *)
(* comes from runWS (64-66) or from runPoll (99-105).                      *)
THEOREM InOrder == Spec => NeverBackwards
<1>1. IInv /\ [Next]_vars => [last' >= last]_vars
  BY StepInvariant
<1> QED
  BY <1>1, Invariance, PTL DEF Spec, NeverBackwards

-----------------------------------------------------------------------------
(* The refinement: what Delivery sees of the subscriber is its one working *)
(* goroutine, before a step and after it.                                  *)
LEMMA View ==
  ASSUME OneWorks, NEW g \in Goroutine, Working(g)
  PROVE  /\ Settled <=> ~Repeats(g)
         /\ Busy <=> pc[g] \in {"wsBusy", "pollBusy"}
         /\ ~Ended
BY DEF OneWorks, Working, Settled, Repeats, Busy, Ended

LEMMA ViewNext ==
  ASSUME OneWorks', NEW g \in Goroutine, Working(g)'
  PROVE  /\ Settled' <=> ~Repeats(g)'
         /\ Busy' <=> pc'[g] \in {"wsBusy", "pollBusy"}
         /\ ~Ended'
BY DEF OneWorks, Working, Settled, Repeats, Busy, Ended

(* A step that leaves the goroutines' places and numbers alone.            *)
LEMMA ViewKept ==
  ASSUME UNCHANGED <<pc, seen, last>>
  PROVE  Settled' = Settled /\ Busy' = Busy /\ Ended' = Ended
BY DEF Settled, Repeats, Busy, Ended, Working

(* Steps around the block loop: nothing changes for Delivery, except that  *)
(* a poller without a block to repeat settles the last one.                *)
LEMMA ControlRefines ==
  ASSUME IInv, OneWorks', NEW g \in Goroutine,
         \/ \E h \in Goroutine : StartWS(g, h) \/ StartPoll(g, h)
         \/ WsError(g) \/ Reconnect(g) \/ PollNumber(g) \/ PollHeaderFails(g)
  PROVE  [Abs!Next]_Abs!vars
<1> USE SubscriberAssumption
<1>1. UNCHANGED <<head, cancelled, last>>
  BY DEF StartWS, StartPoll, WsError, Reconnect, PollNumber, PollHeaderFails, feed
<1>2. /\ OneWorks /\ pc \in [Goroutine -> PC] /\ seen \in [Goroutine -> 0..MaxBlock]
      /\ head \in Nat /\ last \in Nat /\ last <= head
  BY DEF IInv, TypeOK, Ordered
<1>3. \E h \in Goroutine :
         /\ Working(g) /\ pc[g] \notin {"wsBusy", "pollBusy"}
         /\ Working(h)' /\ pc'[h] \notin {"wsBusy", "pollBusy"}
         /\ Repeats(h)' => Repeats(g)
  <2>1. ASSUME NEW h \in Goroutine, StartWS(g, h) \/ StartPoll(g, h)
        PROVE  /\ Working(g) /\ pc[g] \notin {"wsBusy", "pollBusy"}
               /\ Working(h)' /\ pc'[h] \notin {"wsBusy", "pollBusy"}
               /\ Repeats(g)
    BY <1>2, <2>1 DEF StartWS, StartPoll, Working, Repeats
  <2>2. CASE WsError(g) \/ Reconnect(g)
    BY <1>2, <2>2 DEF WsError, Reconnect, Goto, Working, Repeats
  <2>3. CASE PollNumber(g)
    BY <1>2, <2>3 DEF PollNumber, Goto, Working, Repeats
  <2>4. CASE PollHeaderFails(g)
    <3>1. last <= seen[g]
      BY <2>4 DEF IInv, Ordered, PollHeaderFails
    <3> QED
      BY <1>2, <2>4, <3>1 DEF PollHeaderFails, Goto, Working, Repeats
  <2> QED
    BY <2>1, <2>2, <2>3, <2>4
<1>4. /\ Busy' = Busy /\ Ended' = Ended
      /\ Settled => Settled'
  BY <1>2, <1>3, View, ViewNext DEF Busy, Ended, Settled
<1>5. CASE Settled' = Settled
  BY <1>1, <1>4, <1>5 DEF Abs!vars
<1>6. CASE Settled' # Settled
  <2>1. Settled' = TRUE
    BY <1>4, <1>6 DEF Settled
  <2>2. Abs!Settle
    BY <1>1, <1>4, <2>1 DEF Abs!Settle
  <2> QED
    BY <2>2 DEF Abs!Next
<1> QED
  BY <1>5, <1>6

LEMMA StopRefines ==
  ASSUME IInv, NEW g \in Goroutine, Stop(g)
  PROVE  Abs!End
<1>1. pc[g] \in {"ws", "poll", "reconnect"} /\ pc' = [pc EXCEPT ![g] = "leaving"]
  BY DEF Stop, Goto
<1>2. Working(g) /\ pc \in [Goroutine -> PC] /\ OneWorks
  BY <1>1 DEF Working, IInv, TypeOK
<1>3. ~Busy
  BY <1>1, <1>2, View
<1>4. \A h \in Goroutine : ~Working(h)' /\ pc'[h] \notin {"wsBusy", "pollBusy"}
  BY <1>1, <1>2 DEF OneWorks, Working
<1>5. Ended' = TRUE /\ Settled' = TRUE /\ ~Busy'
  <2>1. \A h \in Goroutine : ~Repeats(h)'
    BY <1>4 DEF Repeats, Working
  <2> QED
    BY <1>4, <2>1 DEF Ended, Settled, Busy
<1>6. Busy' = Busy
  BY <1>3, <1>5 DEF Busy
<1> QED
  BY <1>3, <1>5, <1>6 DEF Stop, feed, Abs!End

LEMMA HandleRefines ==
  ASSUME IInv, OneWorks', NEW g \in Goroutine, WsHeader(g) \/ PollHeader(g)
  PROVE  \E n \in 1..head : Abs!Deliver(n)
<1> USE SubscriberAssumption
<1>1. /\ OneWorks /\ pc \in [Goroutine -> PC] /\ seen \in [Goroutine -> 0..MaxBlock]
      /\ head \in Nat /\ last \in Nat /\ last <= head
  BY DEF IInv, TypeOK, Ordered
<1>2. /\ Working(g) /\ pc[g] \notin {"wsBusy", "pollBusy"}
      /\ Working(g)' /\ pc'[g] \in {"wsBusy", "pollBusy"}
      /\ UNCHANGED <<head, cancelled>>
  BY <1>1 DEF WsHeader, PollHeader, Goto, Working, feed
<1>3. /\ ~Busy /\ Busy' /\ ~Ended /\ ~Ended'
      /\ Settled <=> ~Repeats(g)
      /\ Settled' <=> ~Repeats(g)'
  BY <1>1, <1>2, View, ViewNext
<1>4. \E n \in 1..head : /\ last' = n
                         /\ n > last \/ (n = last /\ Repeats(g))
                         /\ n = last => ~Repeats(g)'
  <2>1. CASE WsHeader(g)
    <3>1. /\ pc[g] = "ws" /\ queue[g] # <<>> /\ last' = Head(queue[g])
          /\ queue[g] \in Seq(1..MaxBlock)
      BY <2>1 DEF WsHeader, Handle, IInv, TypeOK
    <3>2. /\ 1 \in 1..Len(queue[g]) /\ last' = queue[g][1] /\ queue[g][1] \in 1..MaxBlock
      BY <3>1, TailTyped
    <3>3. last < queue[g][1] /\ queue[g][1] <= head
      BY <3>1, <3>2 DEF IInv, Ordered
    <3>4. queue[g][1] \in 1..head
      BY <1>1, <3>2, <3>3
    <3> QED
      BY <1>1, <3>2, <3>3, <3>4
  <2>2. CASE PollHeader(g)
    <3>1. /\ pc[g] = "fetch" /\ last' = head /\ pc'[g] = "pollBusy"
          /\ seen'[g] = seen[g]
      BY <1>1, <2>2 DEF PollHeader, Handle, Goto, feed
    <3>2. head > 0 /\ last <= seen[g] /\ seen[g] <= head
      BY <3>1 DEF IInv, Ordered
    <3>3. head = last => Repeats(g) /\ ~Repeats(g)'
      BY <1>1, <3>1, <3>2 DEF Repeats, Working
    <3>4. head \in 1..head
      BY <1>1, <3>2
    <3> QED
      BY <1>1, <3>1, <3>2, <3>3, <3>4
  <2> QED
    BY <2>1, <2>2
<1>5. PICK n \in 1..head : /\ last' = n
                           /\ n > last \/ (n = last /\ ~Settled)
                           /\ n = last => Settled'
  BY <1>3, <1>4
<1>6. /\ Busy' = TRUE /\ Settled' \in BOOLEAN /\ Ended' = Ended
  BY <1>3 DEF Busy, Settled, Ended
<1> QED
  BY <1>2, <1>3, <1>5, <1>6 DEF Abs!Deliver

LEMMA ReturnRefines ==
  ASSUME IInv, OneWorks', NEW g \in Goroutine, HandlerReturns(g)
  PROVE  Abs!Return
<1>1. /\ OneWorks /\ pc \in [Goroutine -> PC]
      /\ pc[g] \in {"wsBusy", "pollBusy"}
      /\ pc'[g] = IF pc[g] = "wsBusy" THEN "ws" ELSE "poll"
      /\ UNCHANGED <<head, cancelled, seen, last>>
  BY DEF HandlerReturns, Goto, feed, IInv, TypeOK
<1>2. Working(g) /\ Working(g)' /\ Repeats(g)' = Repeats(g)
  BY <1>1 DEF Working, Repeats
<1>3. Busy /\ Busy' = FALSE /\ Ended' = Ended /\ Settled' = Settled
  BY <1>1, <1>2, View, ViewNext DEF Busy, Ended, Settled
<1> QED
  BY <1>1, <1>3 DEF Abs!Return

LEMMA RefinementStep ==
  ASSUME IInv, OneWorks', [Next]_vars
  PROVE  [Abs!Next]_Abs!vars
<1>1. CASE NewBlock
  <2>1. Abs!NewBlock
    BY <1>1, ViewKept DEF NewBlock, Abs!NewBlock
  <2> QED
    BY <2>1 DEF Abs!Next
<1>2. CASE Cancel
  <2>1. Abs!Cancel
    BY <1>2, ViewKept DEF Cancel, Abs!Cancel
  <2> QED
    BY <2>1 DEF Abs!Next
<1>3. ASSUME NEW g \in Goroutine, Leave(g) PROVE [Abs!Next]_Abs!vars
  <2>1. /\ UNCHANGED <<head, cancelled, last>>
        /\ Settled' = Settled /\ Busy' = Busy /\ Ended' = Ended
    BY <1>3 DEF Leave, Goto, IInv, TypeOK, Settled, Repeats, Busy, Ended, Working
  <2> QED
    BY <2>1 DEF Abs!vars
<1>4. ASSUME NEW g \in Goroutine, Stop(g) PROVE [Abs!Next]_Abs!vars
  BY <1>4, StopRefines DEF Abs!Next
<1>5. ASSUME NEW g \in Goroutine, WsHeader(g) \/ PollHeader(g)
      PROVE  [Abs!Next]_Abs!vars
  BY <1>5, HandleRefines DEF Abs!Next
<1>6. ASSUME NEW g \in Goroutine, HandlerReturns(g) PROVE [Abs!Next]_Abs!vars
  BY <1>6, ReturnRefines DEF Abs!Next
<1>7. ASSUME NEW g \in Goroutine, ConnectionLost(g) PROVE [Abs!Next]_Abs!vars
  BY <1>7, ViewKept DEF ConnectionLost, Abs!vars
<1>8. CASE UNCHANGED vars
  BY <1>8, ViewKept DEF vars, Abs!vars
<1> QED
  BY <1>1, <1>2, <1>3, <1>4, <1>5, <1>6, <1>7, <1>8, ControlRefines
     DEF Next, Step, Stopped

LEMMA RefinementInit == Init => Abs!Init
<1> SUFFICES ASSUME Init PROVE Abs!Init
  OBVIOUS
<1>1. Working(Main) /\ Repeats(Main) /\ ~Busy
  BY SubscriberAssumption DEF Init, Working, Repeats, Busy
<1>2. Settled = FALSE /\ Busy = FALSE /\ Ended = FALSE
  BY <1>1, SubscriberAssumption DEF Settled, Busy, Ended
<1> QED
  BY <1>2 DEF Init, Abs!Init

(* Whatever a connection does, for any number of goroutines and any        *)
(* buffer: the handler runs once at a time, on blocks in order, each twice *)
(* at most, and the chain is given up only after the shutdown signal.      *)
THEOREM RefinesDelivery == Spec => Delivers
<1>1. IInv /\ IInv' /\ [Next]_vars => [Abs!Next]_Abs!vars
  BY RefinementStep DEF IInv
<1> QED
  BY <1>1, RefinementInit, Invariance, PTL DEF Spec, Delivers, Abs!Spec
=============================================================================
