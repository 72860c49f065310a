------------------------------ MODULE Triangular ------------------------------
(***************************************************************************)
(* The cycle search of the triangular strategy                             *)
(* (internal/strategy/triangular.go): one Evaluate, as the depth-first     *)
(* walk it performs.  The recursion is the stack todo of the edges each    *)
(* call of dfs has still to visit.  Go iterates over the registry and over *)
(* the graph, which are maps, in any order; the model may also change the  *)
(* order of a token's edges between two visits, which the code does not.   *)
(* What a cycle earns is abstracted: priced is what evaluateCycle is given.*)
(***************************************************************************)
EXTENDS Integers, Sequences, FiniteSets

CONSTANTS Token, Pool,
          T0, T1,       \* the tokens of a pool
          ConfigHops,   \* max_hops of the configuration
          MaxLive       \* bound: pools with a state

ASSUME TriangularAssumption ==
    /\ Token # {}
    /\ T0 \in [Pool -> Token]
    /\ T1 \in [Pool -> Token]
    /\ \A p \in Pool : T0[p] # T1[p]
    /\ ConfigHops \in Nat
    /\ MaxLive \in Nat

VARIABLES
    live,       \* the pools with a state when the graph is built
    starts,     \* tokens of the graph that are not searched yet
    start,      \* startToken
    path,       \* the path from it
    todo,       \* todo[i]: edges that the i-th nested dfs has not visited
    visited,    \* the keys seen
    priced      \* the cycles evaluated

vars == <<live, starts, start, path, todo, visited, priced>>

MaxHops == IF ConfigHops = 0 THEN 3 ELSE ConfigHops

Edge == [pool : Pool, tokenOut : Token]

(* graph[t]: the edges that leave token t.                                 *)
Graph(t) == {e \in Edge : e.pool \in live /\ {t, e.tokenOut} = {T0[e.pool], T1[e.pool]}}

(* cycleKey: the pools of a walk, in sorted order.                         *)
CycleKey(w) == [p \in Pool |-> Cardinality({i \in 1..Len(w) : w[i].pool = p})]

Init ==
    /\ live \in SUBSET Pool
    /\ Cardinality(live) <= MaxLive
    /\ starts = {t \in Token : Graph(t) # {}}
    /\ start = CHOOSE t \in Token : TRUE
    /\ path = <<>>
    /\ todo = <<>>
    /\ visited = {}
    /\ priced = {}

-----------------------------------------------------------------------------
Depth == Len(todo)
Open  == todo[Depth]
Visited(e) == [todo EXCEPT ![Depth] = @ \ {e}]

(* Evaluate calls dfs for the next token.                                  *)
Search(t) ==
    /\ todo = <<>>
    /\ starts' = starts \ {t}
    /\ start' = t
    /\ todo' = <<Graph(t)>>
    /\ UNCHANGED <<live, path, visited, priced>>

(* Two hops are cross-DEX territory.                                       *)
LongEnough == Len(path) >= 2

(* An edge back to the start token.                                        *)
Skip(e) ==
    /\ e.tokenOut = start
    /\ ~LongEnough
    /\ todo' = Visited(e)
    /\ UNCHANGED <<live, starts, start, path, visited, priced>>

(* Mutant: a cycle is priced whatever was seen before.                     *)
CloseAlways(e) ==
    LET w == Append(path, e) IN
    /\ e.tokenOut = start
    /\ LongEnough
    /\ priced' = priced \cup {[start |-> start, path |-> w]}
    /\ visited' = visited \cup {CycleKey(w)}
    /\ todo' = Visited(e)
    /\ UNCHANGED <<live, starts, start, path>>

(* It closes a cycle, which is evaluated if no cycle of these pools was.   *)
Close(e) ==
    LET w == Append(path, e) IN
    /\ e.tokenOut = start
    /\ LongEnough
    /\ IF CycleKey(w) \in visited
         THEN UNCHANGED <<visited, priced>>
         ELSE /\ visited' = visited \cup {CycleKey(w)}
              /\ priced' = priced \cup {[start |-> start, path |-> w]}
    /\ todo' = Visited(e)
    /\ UNCHANGED <<live, starts, start, path>>

(* Mutant: the path's last edge is not compared.                           *)
DuplicateEarlier(e) == \E i \in 1..Len(path) - 1 : path[i].pool = e.pool

(* The edge's pool is on the path.                                         *)
Duplicate(e) == \E i \in 1..Len(path) : path[i].pool = e.pool

Avoid(e) ==
    /\ e.tokenOut # start
    /\ Duplicate(e)
    /\ todo' = Visited(e)
    /\ UNCHANGED <<live, starts, start, path, visited, priced>>

(* Mutant: one hop too many.                                               *)
EdgesAtLong(w) == IF Len(w) > MaxHops THEN {} ELSE Graph(w[Len(w)].tokenOut)

(* Mutant: one hop too few.                                                *)
EdgesAtShort(w) == IF Len(w) + 1 >= MaxHops THEN {} ELSE Graph(w[Len(w)].tokenOut)

(* The edges a call of dfs for path w visits: none if it is long enough.   *)
EdgesAt(w) == IF Len(w) >= MaxHops THEN {} ELSE Graph(w[Len(w)].tokenOut)

(* dfs calls itself for the path with the edge.                            *)
Descend(e) ==
    /\ e.tokenOut # start
    /\ ~Duplicate(e)
    /\ path' = Append(path, e)
    /\ todo' = Append(Visited(e), EdgesAt(path'))
    /\ UNCHANGED <<live, starts, start, visited, priced>>

Visit(e) == Skip(e) \/ Close(e) \/ Avoid(e) \/ Descend(e)

(* dfs returns to its caller.                                              *)
Return ==
    /\ todo # <<>>
    /\ Open = {}
    /\ todo' = SubSeq(todo, 1, Depth - 1)
    /\ path' = IF path = <<>> THEN <<>> ELSE SubSeq(path, 1, Len(path) - 1)
    /\ UNCHANGED <<live, starts, start, visited, priced>>

(* Evaluate has returned.                                                  *)
Done == starts = {} /\ todo = <<>>

Next == \/ \E t \in starts : Search(t)
        \/ todo # <<>> /\ \E e \in Open : Visit(e)
        \/ Return
        \/ Done /\ UNCHANGED vars

Spec == Init /\ [][Next]_vars

-----------------------------------------------------------------------------
(* Every variable has its type: no path and no cycle is longer than        *)
(* max_hops, and there is one call of dfs more than the path has edges.    *)
TypeOK ==
    /\ live \subseteq Pool
    /\ starts \subseteq Token
    /\ start \in Token
    /\ path \in Seq(Edge) /\ Len(path) <= MaxHops
    /\ todo \in Seq(SUBSET Edge)
    /\ IF todo = <<>> THEN path = <<>> ELSE Depth = Len(path) + 1
    /\ \A c \in priced : c.start \in Token /\ c.path \in Seq(Edge) /\ Len(c.path) <= MaxHops

(* "Avoid using the same pool twice in a path": the check leaves out the   *)
(* edge that closes the cycle.  What holds for any graph is that a cycle   *)
(* uses a pool twice only if that pool is its first and its last, and it   *)
(* then has four hops or more.                                             *)
PoolOnce ==
    \A c \in priced : \A i, j \in 1..Len(c.path) :
        i < j /\ c.path[i].pool = c.path[j].pool
           => i = 1 /\ j = Len(c.path) /\ j >= 4

(* Cycles that are rotations, reverses or other orders of the same pools   *)
(* are priced once in a block, from whatever token they are found.         *)
Reordered(v, w) ==
    /\ Len(v) = Len(w)
    /\ \A p \in Pool : Cardinality({i \in 1..Len(v) : v[i].pool = p})
                         = Cardinality({i \in 1..Len(w) : w[i].pool = p})
PricedOnce == \A c, d \in priced : Reordered(c.path, d.path) => c = d

(* The reference: a ring of distinct tokens with a pool between each two   *)
(* neighbours, all pools distinct.                                         *)
Ring(t, r) ==
    /\ \A i, j \in DOMAIN r : i # j => t[i] # t[j] /\ r[i] # r[j]
    /\ \A i \in DOMAIN r : {t[i], t[(i % Len(r)) + 1]} = {T0[r[i]], T1[r[i]]}

(* "Multi-hop cycle across 3+ pools": when the search is over, the pools   *)
(* of every ring of three to max_hops live pools were priced, in one       *)
(* direction and one rotation.                                             *)
Complete ==
    Done => \A n \in 3..MaxHops : \A r \in [1..n -> live] :
        (\E t \in [1..n -> Token] : Ring(t, r)) =>
            \E c \in priced : /\ Len(c.path) = n
                              /\ {c.path[i].pool : i \in 1..n} = {r[i] : i \in 1..n}
=============================================================================
