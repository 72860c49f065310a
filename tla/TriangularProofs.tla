--------------------------- MODULE TriangularProofs ---------------------------
(***************************************************************************)
(* Theorems about Triangular, for any graph and any max_hops: the types,   *)
(* which pool a priced cycle can use twice, and that the search prices     *)
(* every ring of pools, and no two orders of the same pools.               *)
(***************************************************************************)
EXTENDS Triangular, SequenceTheorems, FiniteSetTheorems, TLAPS

(* The token that edge i of path w leaves.                                 *)
From(w, i) == IF i = 1 THEN start ELSE w[i - 1].tokenOut

(* A pool's two tokens.                                                    *)
Joins(p, t, u) == {t, u} = {T0[p], T1[p]}

(* The path is a walk from the start token that does not come back to it,  *)
(* and uses no pool twice.                                                 *)
Walk ==
    /\ \A i \in 1..Len(path) : /\ path[i].tokenOut # start
                               /\ Joins(path[i].pool, From(path, i), path[i].tokenOut)
    /\ \A i, j \in 1..Len(path) : i < j => path[i].pool # path[j].pool

(* The edges that are left to a call of dfs leave the token it is at, and  *)
(* there are none once the path is max_hops long.                          *)
Leaving ==
    \A i \in 1..Len(todo) :
        /\ \A e \in todo[i] : Joins(e.pool, From(path, i), e.tokenOut)
        /\ i > MaxHops => todo[i] = {}

IInv == TypeOK /\ Walk /\ Leaving /\ PoolOnce

LEMMA HopsType == MaxHops \in Nat /\ MaxHops >= 1
  BY TriangularAssumption DEF MaxHops

LEMMA GraphType ==
    ASSUME NEW t
    PROVE  Graph(t) \in SUBSET Edge /\ \A e \in Graph(t) : Joins(e.pool, t, e.tokenOut)
  BY DEF Graph, Joins

(* A closing edge: its pool holds the start token, so it can only be the   *)
(* first pool of the path, and not next to it.                             *)
LEMMA ClosingPool ==
    ASSUME TypeOK, Walk, NEW e \in Edge, LongEnough, e.tokenOut = start,
           Joins(e.pool, From(path, Len(path) + 1), e.tokenOut),
           NEW i \in 1..Len(path), path[i].pool = e.pool
    PROVE  i = 1 /\ Len(path) >= 3
<1>1. /\ Len(path) \in Nat /\ Len(path) >= 2
      /\ \A k \in 1..Len(path) : path[k] \in Edge
      /\ e.pool \in Pool /\ T0[e.pool] # T1[e.pool]
  <2>1. path \in Seq(Edge)
    BY DEF TypeOK
  <2>2. Len(path) \in Nat /\ \A k \in 1..Len(path) : path[k] \in Edge
    BY <2>1
  <2>3. e.pool \in Pool
    BY DEF Edge
  <2> QED BY <2>2, <2>3, TriangularAssumption DEF LongEnough
<1>2. /\ path[i].tokenOut # start
      /\ {From(path, i), path[i].tokenOut} = {T0[e.pool], T1[e.pool]}
  BY DEF Walk, Joins
<1>3. {path[Len(path)].tokenOut, start} = {T0[e.pool], T1[e.pool]}
  <2>1. From(path, Len(path) + 1) = path[Len(path)].tokenOut
    BY <1>1 DEF From
  <2> QED BY <2>1 DEF Joins
<1>4. i = 1
  <2> SUFFICES ASSUME i # 1 PROVE FALSE
    OBVIOUS
  <2>1. From(path, i) # start
    <3>1. i - 1 \in 1..Len(path)
      BY <1>1
    <3> QED BY <3>1 DEF From, Walk
  <2> QED BY <2>1, <1>2, <1>3
<1>5. Len(path) # 2
  <2> SUFFICES ASSUME Len(path) = 2 PROVE FALSE
    OBVIOUS
  <2>1. path[2].tokenOut = path[1].tokenOut
    BY <1>1, <1>2, <1>3, <1>4 DEF Walk
  <2>2. Joins(path[2].pool, path[1].tokenOut, path[2].tokenOut)
    BY DEF Walk, From
  <2>3. T0[path[2].pool] # T1[path[2].pool]
    BY <1>1, TriangularAssumption DEF Edge
  <2> QED BY <2>1, <2>2, <2>3 DEF Joins
<1>6. Len(path) \in Nat /\ Len(path) >= 2
  BY <1>1
<1>7. Len(path) >= 3
  <2> DEFINE n == Len(path)
  <2>1. n \in Nat /\ n >= 2 /\ n # 2
    BY <1>5, <1>6
  <2> HIDE DEF n
  <2>2. n >= 3
    BY <2>1
  <2> QED BY <2>2 DEF n
<1> QED BY <1>4, <1>7, Zenon

LEMMA InitInv == Init => IInv
<1> SUFFICES ASSUME Init PROVE IInv
  OBVIOUS
<1>1. TypeOK
  BY HopsType, TriangularAssumption DEF Init, TypeOK
<1> QED BY <1>1 DEF Init, IInv, Walk, Leaving, PoolOnce

LEMMA SearchInv == ASSUME IInv, NEW t \in starts, Search(t) PROVE IInv'
<1>1. /\ path = <<>> /\ path' = <<>> /\ start' = t /\ t \in Token
      /\ todo' = <<Graph(t)>> /\ starts' \subseteq starts
      /\ UNCHANGED <<live, priced>>
  BY DEF IInv, TypeOK, Search
<1>2. TypeOK'
  BY <1>1, GraphType, HopsType DEF IInv, TypeOK, Depth
<1>3. Walk' /\ PoolOnce'
  BY <1>1 DEF IInv, Walk, PoolOnce
<1>4. Leaving'
  <2>1. Len(todo') = 1 /\ todo'[1] = Graph(t)
    BY <1>1
  <2>2. From(path, 1)' = t
    BY <1>1 DEF From
  <2> QED BY <2>1, <2>2, GraphType, HopsType DEF Leaving
<1> QED BY <1>2, <1>3, <1>4 DEF IInv

(* An edge is crossed off: the other calls of dfs keep theirs.             *)
LEMMA CrossedOff ==
    ASSUME IInv, todo # <<>>, NEW e \in Open
    PROVE  /\ e \in Edge /\ Depth = Len(path) + 1
           /\ Joins(e.pool, From(path, Len(path) + 1), e.tokenOut)
           /\ Visited(e) \in Seq(SUBSET Edge) /\ Len(Visited(e)) = Depth
           /\ \A i \in 1..Depth : Visited(e)[i] \subseteq todo[i]
<1>1. todo \in Seq(SUBSET Edge) /\ Depth = Len(path) + 1 /\ Len(path) \in Nat
  BY DEF IInv, TypeOK
<1>2. Depth \in 1..Len(todo)
  BY <1>1 DEF Depth
<1>3. todo[Depth] \in SUBSET Edge
  BY <1>1, <1>2
<1>4. Visited(e) \in Seq(SUBSET Edge) /\ Len(Visited(e)) = Len(todo)
  BY <1>1, <1>2, <1>3 DEF Visited
<1>5. \A i \in 1..Depth : Visited(e)[i] \subseteq todo[i]
  BY <1>1, <1>2 DEF Visited, Depth
<1> QED BY <1>1, <1>2, <1>3, <1>4, <1>5 DEF IInv, Leaving, Open, Depth

(* A call of dfs that visits an edge has a path that can take one more.    *)
LEMMA RoomForAnother ==
    ASSUME IInv, todo # <<>>, NEW e \in Open
    PROVE  Len(path) < MaxHops
<1>1. Depth \in 1..Len(todo) /\ Depth = Len(path) + 1 /\ Len(path) \in Nat
  BY DEF IInv, TypeOK, Depth
<1> QED BY <1>1, HopsType DEF IInv, Leaving, Open

(* Skip, Close and Avoid leave the path alone.                             *)
LEMMA StayInv ==
    ASSUME IInv, todo # <<>>, NEW e \in Open, todo' = Visited(e),
           UNCHANGED <<live, starts, start, path>>
    PROVE  /\ Walk' /\ Leaving'
           /\ (\A c \in priced' : /\ c.start \in Token /\ c.path \in Seq(Edge)
                                /\ Len(c.path) <= MaxHops) => TypeOK'
<1>1. todo' # <<>> /\ Len(todo') = Depth
  BY CrossedOff DEF IInv, TypeOK, Depth
<1>2. Walk'
  BY DEF IInv, Walk, From
<1>3. Leaving'
  BY <1>1, CrossedOff DEF IInv, Leaving, From, Depth
<1> QED BY <1>1, <1>2, <1>3, CrossedOff DEF IInv, TypeOK, Depth

LEMMA CloseInv == ASSUME IInv, todo # <<>>, NEW e \in Open, Close(e) PROVE IInv'
<1> DEFINE w == Append(path, e)
<1>1. /\ e.tokenOut = start /\ LongEnough
      /\ todo' = Visited(e)
      /\ UNCHANGED <<live, starts, start, path>>
      /\ priced' \subseteq priced \cup {[start |-> start, path |-> w]}
  BY DEF Close
<1>2. path \in Seq(Edge) /\ start \in Token /\ Len(path) \in Nat
  BY DEF IInv, TypeOK
<1>3. /\ w \in Seq(Edge) /\ Len(w) = Len(path) + 1
      /\ \A i \in 1..Len(path) : w[i] = path[i]
      /\ w[Len(path) + 1] = e
  BY <1>2, CrossedOff
<1> HIDE DEF w
<1>4. \A c \in priced' : c.start \in Token /\ c.path \in Seq(Edge) /\ Len(c.path) <= MaxHops
  <2>1. Len(path) < MaxHops
    BY RoomForAnother
  <2> QED BY <2>1, <1>1, <1>2, <1>3, HopsType DEF IInv, TypeOK
<1>5. \A i, j \in 1..Len(w) : i < j /\ w[i].pool = w[j].pool => i = 1 /\ j = Len(w) /\ j >= 4
  <2> SUFFICES ASSUME NEW i \in 1..Len(w), NEW j \in 1..Len(w), i < j, w[i].pool = w[j].pool
               PROVE  i = 1 /\ j = Len(w) /\ j >= 4
    OBVIOUS
  <2>1. i \in 1..Len(path)
    BY <1>2, <1>3
  <2>2. j = Len(w)
    <3> SUFFICES ASSUME j # Len(w) PROVE FALSE
      OBVIOUS
    <3>1. j \in 1..Len(path)
      BY <1>2, <1>3
    <3>2. w[i] = path[i] /\ w[j] = path[j]
      BY <1>3, <2>1, <3>1
    <3>3. path[i].pool # path[j].pool
      BY <2>1, <3>1 DEF IInv, Walk
    <3> QED BY <3>2, <3>3
  <2>3. path[i].pool = e.pool
    BY <1>3, <2>1, <2>2
  <2>4. i = 1 /\ Len(path) >= 3
    BY <1>1, <2>1, <2>3, CrossedOff, ClosingPool DEF IInv
  <2> QED BY <1>2, <1>3, <2>2, <2>4
<1>6. PoolOnce'
  BY <1>1, <1>5 DEF IInv, PoolOnce
<1> QED BY <1>1, <1>4, <1>6, StayInv DEF IInv

LEMMA DescendInv == ASSUME IInv, todo # <<>>, NEW e \in Open, Descend(e) PROVE IInv'
<1> DEFINE edges == EdgesAt(path')
<1>1. /\ e.tokenOut # start /\ ~Duplicate(e)
      /\ path' = Append(path, e)
      /\ todo' = Append(Visited(e), edges)
      /\ UNCHANGED <<live, starts, start, visited, priced>>
  BY DEF Descend
<1>2. path \in Seq(Edge) /\ start \in Token /\ Len(path) \in Nat /\ Len(path) <= MaxHops
  BY DEF IInv, TypeOK
<1>3. /\ path' \in Seq(Edge) /\ Len(path') = Len(path) + 1
      /\ \A i \in 1..Len(path) : path'[i] = path[i]
      /\ path'[Len(path) + 1] = e
  BY <1>1, <1>2, CrossedOff
<1>4. /\ edges \in SUBSET Edge
      /\ \A f \in edges : Joins(f.pool, e.tokenOut, f.tokenOut)
      /\ Len(path) + 1 >= MaxHops => edges = {}
  BY <1>2, <1>3, GraphType DEF EdgesAt
<1> HIDE DEF edges
<1>5. /\ todo' \in Seq(SUBSET Edge) /\ Len(todo') = Len(path) + 2
      /\ \A i \in 1..Len(path) + 1 : todo'[i] = Visited(e)[i]
      /\ todo'[Len(path) + 2] = edges
  BY <1>1, <1>2, <1>4, CrossedOff
<1>6. Len(path) < MaxHops
  BY RoomForAnother
<1>7. TypeOK'
  BY <1>1, <1>3, <1>5, <1>6, HopsType, <1>2 DEF IInv, TypeOK, Depth
<1>8. Walk'
  BY <1>1, <1>2, <1>3, CrossedOff DEF IInv, Walk, From, Duplicate
<1>9. Leaving'
  <2> SUFFICES ASSUME NEW i \in 1..Len(path) + 2
               PROVE  /\ \A f \in todo'[i] : Joins(f.pool, From(path, i)', f.tokenOut)
                      /\ i > MaxHops => todo'[i] = {}
    BY <1>5 DEF Leaving
  <2>1. CASE i = Len(path) + 2
    <3>1. From(path, i)' = e.tokenOut
      BY <2>1, <1>2, <1>3 DEF From
    <3> QED BY <2>1, <3>1, <1>2, <1>4, <1>5, HopsType
  <2>2. CASE i \in 1..Len(path) + 1
    <3>1. From(path, i)' = From(path, i)
      BY <2>2, <1>1, <1>2, <1>3 DEF From
    <3>2. todo'[i] \subseteq todo[i] /\ i \in 1..Len(todo)
      BY <2>2, <1>5, CrossedOff DEF Depth
    <3> QED BY <3>1, <3>2 DEF IInv, Leaving
  <2> QED BY <1>2, <2>1, <2>2
<1>10. PoolOnce'
  BY <1>1 DEF IInv, PoolOnce
<1> QED BY <1>7, <1>8, <1>9, <1>10 DEF IInv

LEMMA VisitInv == ASSUME IInv, todo # <<>>, NEW e \in Open, Visit(e) PROVE IInv'
<1>1. CASE Skip(e) \/ Avoid(e)
  <2>1. todo' = Visited(e) /\ UNCHANGED <<live, starts, start, path, priced>>
    BY <1>1 DEF Skip, Avoid
  <2>2. PoolOnce'
    BY <2>1 DEF IInv, PoolOnce
  <2>3. \A c \in priced' : c.start \in Token /\ c.path \in Seq(Edge) /\ Len(c.path) <= MaxHops
    BY <2>1 DEF IInv, TypeOK
  <2> QED BY <2>1, <2>2, <2>3, StayInv DEF IInv
<1>2. CASE Close(e)
  BY <1>2, CloseInv
<1>3. CASE Descend(e)
  BY <1>3, DescendInv
<1> QED BY <1>1, <1>2, <1>3 DEF Visit

(* A sequence without its last element.                                    *)
LEMMA Shortened ==
    ASSUME NEW S, NEW s \in Seq(S), Len(s) >= 1
    PROVE  LET u == SubSeq(s, 1, Len(s) - 1)
           IN  u \in Seq(S) /\ Len(u) = Len(s) - 1 /\ \A i \in 1..Len(u) : u[i] = s[i]
<1> DEFINE n == Len(s) - 1
<1>1. n \in Nat /\ \A i \in 1..n : s[i] \in S
  OBVIOUS
<1>2. /\ SubSeq(s, 1, n) \in Seq(S)
      /\ Len(SubSeq(s, 1, n)) = IF 1 <= n THEN n - 1 + 1 ELSE 0
      /\ \A i \in 1..n - 1 + 1 : SubSeq(s, 1, n)[i] = s[1 + i - 1]
  <2> HIDE DEF n
  <2> QED BY <1>1, SubSeqProperties
<1> HIDE DEF n
<1>3. Len(SubSeq(s, 1, n)) = n /\ \A i \in 1..n : SubSeq(s, 1, n)[i] = s[i]
  BY <1>1, <1>2
<1> QED BY <1>2, <1>3 DEF n

LEMMA ReturnInv == ASSUME IInv, Return PROVE IInv'
<1>1. /\ todo # <<>> /\ todo' = SubSeq(todo, 1, Depth - 1)
      /\ path' = IF path = <<>> THEN <<>> ELSE SubSeq(path, 1, Len(path) - 1)
      /\ UNCHANGED <<live, starts, start, visited, priced>>
  BY DEF Return
<1>2. /\ path \in Seq(Edge) /\ todo \in Seq(SUBSET Edge) /\ Len(path) \in Nat
      /\ Len(todo) = Len(path) + 1 /\ Len(path) <= MaxHops
  BY <1>1 DEF IInv, TypeOK, Depth
<1>3. /\ todo' \in Seq(SUBSET Edge) /\ Len(todo') = Len(path)
      /\ \A i \in 1..Len(path) : todo'[i] = todo[i]
  BY <1>1, <1>2 DEF Depth
<1>4. CASE path = <<>>
  <2>1. path' = <<>> /\ todo' = <<>>
    BY <1>1, <1>3, <1>4
  <2>2. TypeOK'
    BY <2>1, <1>1, HopsType DEF IInv, TypeOK
  <2> QED BY <2>1, <2>2, <1>1 DEF IInv, Walk, Leaving, PoolOnce
<1>5. CASE path # <<>>
  <2>1. /\ path' \in Seq(Edge) /\ Len(path') = Len(path) - 1 /\ Len(path) >= 1
        /\ \A i \in 1..Len(path') : path'[i] = path[i]
    <3>1. path' = SubSeq(path, 1, Len(path) - 1)
      BY <1>1, <1>5
    <3>2. Len(path) >= 1
      BY <1>2, <1>5
    <3> QED BY <3>1, <3>2, <1>2, Shortened
  <2>2. todo' # <<>>
    BY <2>1, <1>3
  <2>3. TypeOK'
    BY <2>1, <2>2, <1>1, <1>2, <1>3, HopsType DEF IInv, TypeOK, Depth
  <2>4. \A i \in 1..Len(path) : From(path, i)' = From(path, i)
    BY <2>1, <1>1, <1>2 DEF From
  <2>5. Walk'
    <3>1. \A i \in 1..Len(path') : i \in 1..Len(path)
      BY <2>1, <1>2
    <3> QED BY <3>1, <2>1, <2>4, <1>1 DEF IInv, Walk
  <2>6. Leaving'
    BY <2>4, <1>2, <1>3 DEF IInv, Leaving
  <2> QED BY <2>3, <2>5, <2>6, <1>1 DEF IInv, PoolOnce
<1> QED BY <1>4, <1>5

LEMMA StutterInv == ASSUME IInv, UNCHANGED vars PROVE IInv'
  BY DEF vars, IInv, TypeOK, Walk, Leaving, PoolOnce, From, Depth

(* IInv holds in every state: the path is a walk that leaves the start     *)
(* token for good and uses each pool once, so that only a closing edge can *)
(* repeat a pool.                                                          *)
THEOREM Invariance == Spec => []IInv
<1>1. IInv /\ [Next]_vars => IInv'
  BY SearchInv, VisitInv, ReturnInv, StutterInv DEF Next
<1> QED BY InitInv, <1>1, PTL DEF Spec

(* For any pools and any max_hops: dfs (triangular.go, 68-109) never goes  *)
(* deeper than max_hops edges, and every variable keeps its type.          *)
THEOREM TypeCorrect == Spec => []TypeOK
<1>1. IInv => TypeOK
  BY DEF IInv
<1> QED BY <1>1, Invariance, PTL

(* For any pools and any max_hops: a cycle that evaluateCycle is given     *)
(* uses no pool twice, but that its last edge may go back through its      *)
(* first pool when it has four hops or more.                               *)
THEOREM OnceButTheLast == Spec => []PoolOnce
<1>1. IInv => PoolOnce
  BY DEF IInv
<1> QED BY <1>1, Invariance, PTL
-----------------------------------------------------------------------------
(* A closed walk from token t that dfs has to find.                        *)
ClosedWalk(t, w) ==
    /\ w \in Seq(Edge) /\ Len(w) \in 3..MaxHops
    /\ \A i \in 1..Len(w) : w[i] \in Graph(IF i = 1 THEN t ELSE w[i - 1].tokenOut)
    /\ \A i \in 1..Len(w) : w[i].tokenOut = t <=> i = Len(w)
    /\ \A i, j \in 1..Len(w) - 1 : w[i].pool = w[j].pool => i = j

(* Some nested call of dfs is on the walk w and has its next edge to visit.*)
Branch(w, i) == /\ i <= Len(w) /\ w[i] \in todo[i]
                /\ \A k \in 1..i - 1 : w[k] = path[k]
Ahead(w) == \E i \in 1..Len(todo) : Branch(w, i)

(* The closed walks of every token whose search has begun are seen, or are *)
(* still ahead of the search.                                              *)
Found ==
    \A t \in Token \ starts : \A w : ClosedWalk(t, w) =>
        CycleKey(w) \in visited \/ (t = start /\ Ahead(w))

(* The keys seen are those of the cycles priced, each of one cycle.        *)
Keyed ==
    /\ visited = {CycleKey(c.path) : c \in priced}
    /\ \A c, d \in priced : CycleKey(c.path) = CycleKey(d.path) => c = d

CInv == IInv /\ Found /\ Keyed

LEMMA SameWalks ==
    ASSUME UNCHANGED live, NEW t, NEW w
    PROVE  ClosedWalk(t, w)' <=> ClosedWalk(t, w)
  BY DEF ClosedWalk, Graph

LEMMA WalkTypes ==
    ASSUME NEW t \in Token, NEW w, ClosedWalk(t, w)
    PROVE  /\ Len(w) \in Nat /\ Len(w) >= 3 /\ Len(w) <= MaxHops
           /\ \A i \in 1..Len(w) : w[i] \in Edge
  BY HopsType DEF ClosedWalk

LEMMA InitFound == Init => Found
<1> SUFFICES ASSUME Init, NEW t \in Token \ starts, NEW w, ClosedWalk(t, w) PROVE FALSE
  BY DEF Found
<1>1. Graph(t) = {}
  BY DEF Init
<1>2. w[1] \in Graph(t)
  BY WalkTypes DEF ClosedWalk
<1> QED BY <1>1, <1>2

LEMMA SearchFound == ASSUME IInv, Found, NEW u \in starts, Search(u) PROVE Found'
<1>1. /\ todo = <<>> /\ todo' = <<Graph(u)>> /\ start' = u
      /\ starts' = starts \ {u} /\ UNCHANGED <<live, visited>>
  BY DEF Search
<1> SUFFICES ASSUME NEW t \in Token \ starts', NEW w, ClosedWalk(t, w)
             PROVE  CycleKey(w) \in visited \/ (t = u /\ Ahead(w)')
  BY <1>1, SameWalks DEF Found, CycleKey
<1>2. CASE t = u
  <2>1. Len(todo') = 1 /\ todo'[1] = Graph(u)
    BY <1>1
  <2>2. w[1] \in Graph(u) /\ Len(w) >= 3 /\ Len(w) \in Nat
    BY <1>2, WalkTypes DEF ClosedWalk
  <2>3. 1 \in 1..Len(todo') /\ Branch(w, 1)'
    BY <2>1, <2>2 DEF Branch
  <2> QED BY <1>2, <2>3 DEF Ahead
<1>3. CASE t # u
  <2>1. t \in Token \ starts
    BY <1>1, <1>3
  <2>2. ~Ahead(w)
    BY <1>1 DEF Ahead
  <2> QED BY <2>1, <2>2 DEF Found
<1> QED BY <1>2, <1>3

(* A walk that is ahead is so at another edge, or its next edge is the one *)
(* that is visited now.                                                    *)
LEMMA AheadOrHere ==
    ASSUME IInv, todo # <<>>, NEW e \in Open, NEW w, Ahead(w)
    PROVE  \/ \E i \in 1..Len(todo) : Branch(w, i) /\ w[i] \in Visited(e)[i]
           \/ /\ Len(path) + 1 <= Len(w) /\ w[Len(path) + 1] = e
              /\ \A k \in 1..Len(path) : w[k] = path[k]
<1>1. PICK i \in 1..Len(todo) : Branch(w, i)
  BY DEF Ahead
<1>2. todo \in Seq(SUBSET Edge) /\ Len(todo) = Len(path) + 1 /\ Len(path) \in Nat
  BY DEF IInv, TypeOK, Depth
<1>3. CASE i # Len(todo)
  <2>1. Visited(e)[i] = todo[i]
    BY <1>2, <1>3 DEF Visited, Depth
  <2> QED BY <1>1, <2>1 DEF Branch
<1>4. CASE i = Len(todo) /\ w[i] # e
  <2>1. Visited(e)[i] = todo[i] \ {e}
    BY <1>2, <1>4 DEF Visited, Depth
  <2> QED BY <1>1, <1>4, <2>1 DEF Branch
<1>5. CASE i = Len(todo) /\ w[i] = e
  <2>1. i = Len(path) + 1 /\ i - 1 = Len(path)
    BY <1>2, <1>5
  <2> QED BY <1>1, <1>5, <2>1 DEF Branch
<1> QED BY <1>3, <1>4, <1>5

(* When an edge is crossed off and the path stays, the walks are seen or   *)
(* still ahead if the one that goes on with this edge is seen.             *)
LEMMA StayFound ==
    ASSUME IInv, Found, todo # <<>>, NEW e \in Open, todo' = Visited(e),
           UNCHANGED <<live, starts, start, path>>, visited \subseteq visited',
           \A w : /\ ClosedWalk(start, w)
                  /\ Len(path) + 1 <= Len(w) /\ w[Len(path) + 1] = e
                  /\ \A k \in 1..Len(path) : w[k] = path[k]
                  => CycleKey(w) \in visited'
    PROVE  Found'
<1> SUFFICES ASSUME NEW t \in Token \ starts, NEW w, ClosedWalk(t, w)
             PROVE  CycleKey(w) \in visited' \/ (t = start /\ Ahead(w)')
  BY SameWalks DEF Found, CycleKey
<1>1. CASE CycleKey(w) \in visited
  BY <1>1
<1>2. CASE t = start /\ Ahead(w)
  <2>1. CASE \E i \in 1..Len(todo) : Branch(w, i) /\ w[i] \in Visited(e)[i]
    <3>1. PICK i \in 1..Len(todo) : Branch(w, i) /\ w[i] \in Visited(e)[i]
      BY <2>1
    <3>2. Len(todo') = Len(todo)
      BY CrossedOff DEF Depth
    <3>3. Branch(w, i)'
      BY <3>1 DEF Branch
    <3> QED BY <1>2, <3>2, <3>3 DEF Ahead
  <2>2. CASE /\ Len(path) + 1 <= Len(w) /\ w[Len(path) + 1] = e
             /\ \A k \in 1..Len(path) : w[k] = path[k]
    <3>1. ClosedWalk(start, w)
      BY <1>2
    <3> QED BY <2>2, <3>1
  <2> QED BY <1>2, <2>1, <2>2, AheadOrHere
<1> QED BY <1>1, <1>2 DEF Found

LEMMA SkipFound == ASSUME IInv, Found, todo # <<>>, NEW e \in Open, Skip(e) PROVE Found'
<1>1. /\ e.tokenOut = start /\ ~LongEnough /\ todo' = Visited(e)
      /\ UNCHANGED <<live, starts, start, path, visited>>
  BY DEF Skip
<1>2. start \in Token /\ Len(path) \in Nat
  BY DEF IInv, TypeOK
<1>3. ASSUME NEW w, ClosedWalk(start, w), Len(path) + 1 <= Len(w), w[Len(path) + 1] = e
      PROVE  FALSE
  <2>1. Len(w) \in Nat /\ Len(w) >= 3
    BY <1>2, <1>3, WalkTypes
  <2>2. Len(path) + 1 \in 1..Len(w)
    BY <1>2, <1>3, <2>1
  <2>3. Len(path) + 1 = Len(w)
    BY <1>1, <1>3, <2>2 DEF ClosedWalk
  <2> QED BY <1>1, <1>2, <2>1, <2>3 DEF LongEnough
<1> QED BY <1>1, <1>3, StayFound

LEMMA AvoidFound == ASSUME IInv, Found, todo # <<>>, NEW e \in Open, Avoid(e) PROVE Found'
<1>1. /\ e.tokenOut # start /\ Duplicate(e) /\ todo' = Visited(e)
      /\ UNCHANGED <<live, starts, start, path, visited>>
  BY DEF Avoid
<1>2. start \in Token /\ Len(path) \in Nat
  BY DEF IInv, TypeOK
<1>3. ASSUME NEW w, ClosedWalk(start, w), Len(path) + 1 <= Len(w), w[Len(path) + 1] = e,
             \A k \in 1..Len(path) : w[k] = path[k]
      PROVE  FALSE
  <2>1. PICK i \in 1..Len(path) : path[i].pool = e.pool
    BY <1>1 DEF Duplicate
  <2>2. Len(w) \in Nat /\ Len(path) + 1 \in 1..Len(w)
    BY <1>2, <1>3, WalkTypes
  <2>3. Len(path) + 1 # Len(w)
    BY <1>1, <1>3, <2>2 DEF ClosedWalk
  <2>4. i \in 1..Len(w) - 1 /\ Len(path) + 1 \in 1..Len(w) - 1 /\ i # Len(path) + 1
    BY <1>2, <2>2, <2>3
  <2>5. w[i].pool = w[Len(path) + 1].pool
    BY <1>3, <2>1
  <2> QED BY <1>3, <2>4, <2>5 DEF ClosedWalk
<1> QED BY <1>1, <1>3, StayFound

LEMMA CloseFound == ASSUME IInv, Found, todo # <<>>, NEW e \in Open, Close(e) PROVE Found'
<1>1. /\ e.tokenOut = start /\ todo' = Visited(e)
      /\ UNCHANGED <<live, starts, start, path>>
      /\ visited \subseteq visited' /\ CycleKey(Append(path, e)) \in visited'
  BY DEF Close
<1>2. start \in Token /\ path \in Seq(Edge) /\ Len(path) \in Nat /\ e \in Edge
  BY CrossedOff DEF IInv, TypeOK
<1>3. ASSUME NEW w, ClosedWalk(start, w), Len(path) + 1 <= Len(w), w[Len(path) + 1] = e,
             \A k \in 1..Len(path) : w[k] = path[k]
      PROVE  CycleKey(w) \in visited'
  <2>1. Len(w) \in Nat /\ Len(path) + 1 \in 1..Len(w) /\ w \in Seq(Edge)
    BY <1>2, <1>3, WalkTypes DEF ClosedWalk
  <2>2. Len(path) + 1 = Len(w)
    BY <1>1, <1>3, <2>1 DEF ClosedWalk
  <2> DEFINE v == Append(path, e)
  <2>3. /\ v \in Seq(Edge) /\ Len(v) = Len(path) + 1 /\ v[Len(path) + 1] = e
        /\ \A k \in 1..Len(path) : v[k] = path[k]
    BY <1>2
  <2>4. CycleKey(v) \in visited'
    BY <1>1
  <2> HIDE DEF v
  <2>5. \A k \in 1..Len(w) : w[k] = v[k]
    BY <1>2, <1>3, <2>2, <2>3
  <2>6. w = v
    BY <2>1, <2>2, <2>3, <2>5, SeqEqual
  <2> QED BY <2>4, <2>6
<1> QED BY <1>1, <1>3, StayFound

LEMMA DescendFound == ASSUME IInv, Found, todo # <<>>, NEW e \in Open, Descend(e) PROVE Found'
<1> DEFINE edges == EdgesAt(path')
<1>1. /\ e.tokenOut # start /\ path' = Append(path, e)
      /\ todo' = Append(Visited(e), edges)
      /\ UNCHANGED <<live, starts, start, visited>>
  BY DEF Descend
<1>2. /\ start \in Token /\ path \in Seq(Edge) /\ Len(path) \in Nat /\ e \in Edge
      /\ Len(todo) = Len(path) + 1
      /\ Visited(e) \in Seq(SUBSET Edge) /\ Len(Visited(e)) = Len(path) + 1
  BY CrossedOff DEF IInv, TypeOK, Depth
<1>3. /\ Len(path') = Len(path) + 1 /\ path'[Len(path) + 1] = e
      /\ \A k \in 1..Len(path) : path'[k] = path[k]
  BY <1>1, <1>2
<1>4. edges = IF Len(path) + 1 >= MaxHops THEN {} ELSE Graph(e.tokenOut)
  BY <1>1, <1>3 DEF EdgesAt, Graph
<1>5. edges \in SUBSET Edge
  BY <1>4, GraphType
<1> HIDE DEF edges
<1>6. /\ Len(todo') = Len(path) + 2
      /\ \A i \in 1..Len(path) + 1 : todo'[i] = Visited(e)[i]
      /\ todo'[Len(path) + 2] = edges
  BY <1>1, <1>2, <1>5
<1> SUFFICES ASSUME NEW t \in Token \ starts, NEW w, ClosedWalk(t, w)
             PROVE  CycleKey(w) \in visited \/ (t = start /\ Ahead(w)')
  BY <1>1, SameWalks DEF Found, CycleKey
<1>7. CASE CycleKey(w) \in visited
  BY <1>7
<1>8. CASE t = start /\ Ahead(w)
  <2>1. CASE \E i \in 1..Len(todo) : Branch(w, i) /\ w[i] \in Visited(e)[i]
    <3>1. PICK i \in 1..Len(todo) : Branch(w, i) /\ w[i] \in Visited(e)[i]
      BY <2>1
    <3>2. i \in 1..Len(path) + 1 /\ i \in 1..Len(todo') /\ \A k \in 1..i - 1 : k \in 1..Len(path)
      BY <1>2, <1>6
    <3>3. Branch(w, i)'
      BY <1>3, <1>6, <3>1, <3>2 DEF Branch
    <3> QED BY <1>8, <3>2, <3>3 DEF Ahead
  <2>2. CASE /\ Len(path) + 1 <= Len(w) /\ w[Len(path) + 1] = e
             /\ \A k \in 1..Len(path) : w[k] = path[k]
    <3> PICK n \in Nat : n = Len(path) + 2
      BY <1>2
    <3>1. /\ Len(w) \in Nat /\ Len(w) <= MaxHops /\ MaxHops \in Nat
          /\ Len(path) + 1 \in 1..Len(w)
      BY <1>2, <2>2, WalkTypes, HopsType
    <3>2. Len(path) + 1 # Len(w)
      BY <1>1, <1>8, <2>2, <3>1 DEF ClosedWalk
    <3>3. n \in 1..Len(w) /\ n # 1 /\ n - 1 = Len(path) + 1 /\ ~(Len(path) + 1 >= MaxHops)
      BY <1>2, <3>1, <3>2
    <3>4. w[n] \in Graph(w[n - 1].tokenOut)
      BY <3>3 DEF ClosedWalk
    <3>5. w[n] \in edges
      BY <1>4, <2>2, <3>3, <3>4
    <3>6. \A k \in 1..n - 1 : w[k] = path'[k]
      BY <1>2, <1>3, <2>2
    <3>7. n \in 1..Len(todo') /\ todo'[n] = edges
      BY <1>2, <1>6
    <3>8. n <= Len(w)
      BY <3>1, <3>3
    <3>9. Branch(w, n)'
      BY <3>5, <3>6, <3>7, <3>8 DEF Branch
    <3> QED BY <1>8, <3>7, <3>9 DEF Ahead
  <2> QED BY <1>8, <2>1, <2>2, AheadOrHere
<1> QED BY <1>7, <1>8 DEF Found

LEMMA ReturnFound == ASSUME IInv, Found, Return PROVE Found'
<1>1. /\ todo # <<>> /\ Open = {} /\ todo' = SubSeq(todo, 1, Depth - 1)
      /\ path' = IF path = <<>> THEN <<>> ELSE SubSeq(path, 1, Len(path) - 1)
      /\ UNCHANGED <<live, starts, start, visited>>
  BY DEF Return
<1>2. /\ path \in Seq(Edge) /\ todo \in Seq(SUBSET Edge) /\ Len(path) \in Nat
      /\ Len(todo) = Len(path) + 1
  BY <1>1 DEF IInv, TypeOK, Depth
<1>3. Len(todo') = Len(path) /\ \A i \in 1..Len(path) : todo'[i] = todo[i]
  BY <1>1, <1>2, Shortened DEF Depth
<1> SUFFICES ASSUME NEW t \in Token \ starts, NEW w, ClosedWalk(t, w)
             PROVE  CycleKey(w) \in visited \/ (t = start /\ Ahead(w)')
  BY <1>1, SameWalks DEF Found, CycleKey
<1>4. CASE CycleKey(w) \in visited
  BY <1>4
<1>5. CASE t = start /\ Ahead(w)
  <2>1. PICK i \in 1..Len(todo) : Branch(w, i)
    BY <1>5 DEF Ahead
  <2>2. i # Len(todo)
    BY <1>1, <2>1 DEF Branch, Open, Depth
  <2>3. i \in 1..Len(path) /\ path # <<>>
    BY <1>2, <2>2
  <2>4. path' = SubSeq(path, 1, Len(path) - 1)
    BY <1>1, <2>3
  <2>5. \A k \in 1..i - 1 : path'[k] = path[k]
    <3>1. Len(path) >= 1
      BY <1>2, <2>3
    <3>2. Len(path') = Len(path) - 1 /\ \A k \in 1..Len(path') : path'[k] = path[k]
      BY <1>2, <2>4, <3>1, Shortened
    <3>3. \A k \in 1..i - 1 : k \in 1..Len(path')
      BY <1>2, <2>3, <3>2
    <3> QED BY <3>2, <3>3
  <2>6. Branch(w, i)'
    BY <1>3, <2>1, <2>3, <2>5 DEF Branch
  <2> QED BY <1>3, <1>5, <2>3, <2>6 DEF Ahead
<1> QED BY <1>4, <1>5 DEF Found

LEMMA KeyedStep == ASSUME Keyed, [Next]_vars PROVE Keyed'
<1>1. ASSUME UNCHANGED <<visited, priced>> PROVE Keyed'
  BY <1>1 DEF Keyed, CycleKey
<1>2. ASSUME NEW e \in Open, Close(e) PROVE Keyed'
  <2> DEFINE w == Append(path, e)
             new == [start |-> start, path |-> w]
  <2>1. CASE CycleKey(w) \in visited
    BY <1>1, <1>2, <2>1 DEF Close
  <2>2. CASE CycleKey(w) \notin visited
    <3>1. visited' = visited \cup {CycleKey(w)} /\ priced' = priced \cup {new}
      BY <1>2, <2>2 DEF Close
    <3>2. new.path = w
      OBVIOUS
    <3> HIDE DEF w, new
    <3>3. \A c \in priced : CycleKey(c.path) # CycleKey(new.path)
      BY <2>2, <3>2 DEF Keyed
    <3>4. \A c, d \in priced' : CycleKey(c.path) = CycleKey(d.path) => c = d
      BY <3>1, <3>3 DEF Keyed
    <3>5. visited' = {CycleKey(c.path) : c \in priced'}
      BY <3>1, <3>2 DEF Keyed
    <3>6. \A v : CycleKey(v)' = CycleKey(v)
      BY DEF CycleKey
    <3> QED BY <3>4, <3>5, <3>6 DEF Keyed
  <2> QED BY <2>1, <2>2
<1> QED BY <1>1, <1>2 DEF Next, vars, Search, Visit, Skip, Avoid, Descend, Return

LEMMA CInvStep == ASSUME CInv, [Next]_vars PROVE CInv'
<1>1. IInv'
  BY SearchInv, VisitInv, ReturnInv, StutterInv DEF Next, CInv
<1>2. Keyed'
  BY KeyedStep DEF CInv
<1>3. CASE UNCHANGED vars
  <2>1. Found'
    BY <1>3, SameWalks DEF vars, CInv, Found, Ahead, Branch, CycleKey
  <2> QED BY <1>1, <1>2, <2>1 DEF CInv
<1>4. CASE Next
  <2>1. Found'
    BY <1>3, <1>4, SearchFound, SkipFound, CloseFound, AvoidFound, DescendFound, ReturnFound
       DEF Next, Visit, CInv
  <2> QED BY <1>1, <1>2, <2>1 DEF CInv
<1> QED BY <1>3, <1>4

LEMMA Exploration == Spec => []CInv
<1>1. Init => CInv
  BY InitInv, InitFound DEF CInv, Init, Keyed
<1> QED BY <1>1, CInvStep, PTL DEF Spec

(* For any pools and any max_hops: two cycles over the same pools, each as *)
(* often, are not both evaluated in a block: dfs (triangular.go, 82-86)    *)
(* prices the first of the rotations and reverses it meets.                *)
THEOREM PricedOnceHolds == Spec => []PricedOnce
<1>1. CInv => PricedOnce
  <2> SUFFICES ASSUME CInv, NEW c \in priced, NEW d \in priced, Reordered(c.path, d.path)
               PROVE  c = d
    BY DEF PricedOnce
  <2>1. CycleKey(c.path) = CycleKey(d.path)
    BY DEF Reordered, CycleKey
  <2> QED BY <2>1 DEF CInv, Keyed
<1> QED BY <1>1, Exploration, PTL

(* The edges of walk w that go through pool p.                             *)
Uses(w, p) == {i \in 1..Len(w) : w[i].pool = p}

LEMMA UsesAreFinite ==
    ASSUME NEW w \in Seq(Edge), NEW p
    PROVE  IsFiniteSet(Uses(w, p))
<1>1. IsFiniteSet(1..Len(w))
  BY FS_Interval
<1>2. Uses(w, p) \in SUBSET (1..Len(w))
  BY DEF Uses
<1> QED BY <1>1, <1>2, FS_Subset

(* Walks of one key use the same pools, and one of them uses none twice if *)
(* the other does not.                                                     *)
LEMMA OneKey ==
    ASSUME NEW v \in Seq(Edge), NEW w \in Seq(Edge), CycleKey(v) = CycleKey(w)
    PROVE  /\ \A i \in 1..Len(v) : \E j \in 1..Len(w) : w[j].pool = v[i].pool
           /\ (\A i, j \in 1..Len(w) : w[i].pool = w[j].pool => i = j)
                => \A i, j \in 1..Len(v) : v[i].pool = v[j].pool => i = j
<1>1. ASSUME NEW i \in 1..Len(v)
      PROVE  Cardinality(Uses(v, v[i].pool)) = Cardinality(Uses(w, v[i].pool))
  <2>1. v[i] \in Edge
    OBVIOUS
  <2>2. v[i].pool \in Pool
    BY <2>1 DEF Edge
  <2>3. CycleKey(v)[v[i].pool] = CycleKey(w)[v[i].pool]
    OBVIOUS
  <2> QED BY <2>2, <2>3 DEF CycleKey, Uses
<1>2. ASSUME NEW i \in 1..Len(v) PROVE \E j \in 1..Len(w) : w[j].pool = v[i].pool
  <2>1. i \in Uses(v, v[i].pool)
    BY DEF Uses
  <2>2. Cardinality(Uses(v, v[i].pool)) # 0
    BY <2>1, UsesAreFinite, FS_EmptySet
  <2>3. Uses(w, v[i].pool) # {}
    <3>1. Cardinality(Uses(w, v[i].pool)) # 0
      BY <1>1, <2>2
    <3> QED BY <3>1, FS_EmptySet
  <2> QED BY <2>3 DEF Uses
<1>3. ASSUME \A i, j \in 1..Len(w) : w[i].pool = w[j].pool => i = j,
             NEW i \in 1..Len(v), NEW j \in 1..Len(v), v[i].pool = v[j].pool
      PROVE  i = j
  <2>1. PICK k \in 1..Len(w) : w[k].pool = v[i].pool
    BY <1>2
  <2>2. Uses(w, v[i].pool) = {k}
    BY <1>3, <2>1 DEF Uses
  <2>3. Cardinality(Uses(v, v[i].pool)) = 1
    BY <1>1, <2>2, FS_Singleton
  <2>4. PICK x : Uses(v, v[i].pool) = {x}
    BY <2>3, UsesAreFinite, FS_Singleton
  <2>5. i \in Uses(v, v[i].pool) /\ j \in Uses(v, v[i].pool)
    BY <1>3 DEF Uses
  <2> QED BY <2>4, <2>5
<1> QED BY <1>2, <1>3

(* A walk that uses no pool twice is not longer than one over its pools.   *)
LEMMA NotLonger ==
    ASSUME NEW v \in Seq(Edge), NEW w \in Seq(Edge),
           \A i \in 1..Len(v) : \E j \in 1..Len(w) : w[j].pool = v[i].pool,
           \A i, j \in 1..Len(v) : v[i].pool = v[j].pool => i = j
    PROVE  Len(v) <= Len(w)
<1> DEFINE f == [i \in 1..Len(v) |-> CHOOSE j \in 1..Len(w) : w[j].pool = v[i].pool]
<1>1. f \in [1..Len(v) -> 1..Len(w)] /\ \A i \in 1..Len(v) : w[f[i]].pool = v[i].pool
  OBVIOUS
<1>2. Len(v) \in Nat /\ Len(w) \in Nat
  OBVIOUS
<1>3. \A n \in Nat : IsFiniteSet(1..n) /\ Cardinality(1..n) = n
  <2> SUFFICES ASSUME NEW n \in Nat PROVE IsFiniteSet(1..n) /\ Cardinality(1..n) = n
    OBVIOUS
  <2>1. IsFiniteSet(1..n) /\ Cardinality(1..n) = IF 1 > n THEN 0 ELSE n - 1 + 1
    BY FS_Interval
  <2> QED BY <2>1
<1> HIDE DEF f
<1> SUFFICES ASSUME Len(w) < Len(v) PROVE FALSE
  BY <1>2
<1>4. PICK x, y \in 1..Len(v) : x # y /\ f[x] = f[y]
  <2> DEFINE S == 1..Len(v)
             T == 1..Len(w)
  <2>1. IsFiniteSet(S) /\ IsFiniteSet(T) /\ Cardinality(T) < Cardinality(S) /\ f \in [S -> T]
    BY <1>1, <1>2, <1>3
  <2> HIDE DEF S, T
  <2>2. \E x, y \in S : x # y /\ f[x] = f[y]
    BY <2>1, FS_PigeonHole
  <2> QED BY <2>2 DEF S
<1> QED BY <1>1, <1>4

(* The walk round a ring of tokens and pools.                              *)
Round(t, r, n) == [i \in 1..n |-> [pool |-> r[i], tokenOut |-> t[(i % n) + 1]]]

LEMMA RingIsWalked ==
    ASSUME IInv, NEW n \in 3..MaxHops, NEW r \in [1..n -> live], NEW t \in [1..n -> Token],
           Ring(t, r)
    PROVE  /\ ClosedWalk(t[1], Round(t, r, n)) /\ Len(Round(t, r, n)) = n
           /\ \A i \in 1..n : Round(t, r, n)[i].pool = r[i]
           /\ \A i, j \in 1..n : r[i] = r[j] => i = j
<1> DEFINE w == Round(t, r, n)
           next(i) == (i % n) + 1
<1>1. n \in Nat /\ n >= 3 /\ n <= MaxHops /\ MaxHops \in Nat /\ live \subseteq Pool
  BY HopsType DEF IInv, TypeOK
<1>2. ASSUME NEW i \in 1..n
      PROVE  /\ next(i) \in 1..n /\ (next(i) = 1 <=> i = n)
             /\ (i # 1 => i - 1 \in 1..n /\ next(i - 1) = i)
  BY <1>1
<1> HIDE DEF next
<1>3. \A i \in 1..n : w[i] = [pool |-> r[i], tokenOut |-> t[next(i)]]
  BY DEF Round, next
<1>4. \A i \in 1..n : w[i] \in Edge /\ w[i].pool = r[i] /\ w[i].tokenOut = t[next(i)]
  <2> SUFFICES ASSUME NEW i \in 1..n
               PROVE  w[i] \in Edge /\ w[i].pool = r[i] /\ w[i].tokenOut = t[next(i)]
    OBVIOUS
  <2>1. w[i] = [pool |-> r[i], tokenOut |-> t[next(i)]]
    BY <1>3
  <2>2. r[i] \in Pool
    BY <1>1
  <2>3. t[next(i)] \in Token
    BY <1>2
  <2> QED BY <2>1, <2>2, <2>3 DEF Edge
<1>5. w \in Seq(Edge) /\ Len(w) = n
  <2>1. DOMAIN w = 1..n /\ w = [i \in 1..n |-> w[i]]
    BY DEF Round
  <2> QED BY <1>1, <1>4, <2>1
<1> HIDE DEF w
<1>6. Len(r) = n /\ DOMAIN r = 1..n
  BY <1>1
<1>7. /\ \A i, j \in 1..n : i # j => t[i] # t[j] /\ r[i] # r[j]
      /\ \A i \in 1..n : {t[i], t[next(i)]} = {T0[r[i]], T1[r[i]]}
  BY <1>6 DEF Ring, next
<1>8. ASSUME NEW i \in 1..n PROVE w[i] \in Graph(IF i = 1 THEN t[1] ELSE w[i - 1].tokenOut)
  <2>1. (IF i = 1 THEN t[1] ELSE w[i - 1].tokenOut) = t[i]
    BY <1>2, <1>4
  <2>2. w[i] \in Graph(t[i])
    BY <1>4, <1>7 DEF Graph
  <2> QED BY <2>1, <2>2
<1>9. \A i \in 1..n : w[i].tokenOut = t[1] <=> i = n
  BY <1>1, <1>2, <1>4, <1>7
<1>10. \A i, j \in 1..n : r[i] = r[j] => i = j
  BY <1>7
<1>11. \A i, j \in 1..n - 1 : w[i].pool = w[j].pool => i = j
  BY <1>1, <1>4, <1>10
<1>12. ClosedWalk(t[1], w)
  BY <1>1, <1>5, <1>8, <1>9, <1>11 DEF ClosedWalk
<1> QED BY <1>4, <1>5, <1>10, <1>12 DEF w

(* For any pools and any max_hops: when Evaluate returns, dfs              *)
(* (triangular.go, 68-109) has evaluated a cycle over the pools of every   *)
(* ring of three to max_hops pools with a state.                           *)
THEOREM FindsEveryRing == Spec => []Complete
<1>1. CInv => Complete
  <2> SUFFICES ASSUME CInv, Done, NEW n \in 3..MaxHops, NEW r \in [1..n -> live],
                      NEW t \in [1..n -> Token], Ring(t, r)
               PROVE  \E c \in priced : /\ Len(c.path) = n
                                        /\ {c.path[i].pool : i \in 1..n} = {r[i] : i \in 1..n}
    BY DEF Complete
  <2> DEFINE w == Round(t, r, n)
  <2>1. /\ ClosedWalk(t[1], w) /\ Len(w) = n
        /\ \A i \in 1..n : w[i].pool = r[i]
        /\ \A i, j \in 1..n : r[i] = r[j] => i = j
    BY RingIsWalked DEF CInv
  <2> HIDE DEF w
  <2>2. n \in Nat /\ 1 \in 1..n
    BY HopsType
  <2>3. t[1] \in Token \ starts /\ ~Ahead(w)
    BY <2>2 DEF Done, Ahead
  <2>4. CycleKey(w) \in visited
    BY <2>1, <2>3 DEF CInv, Found
  <2>5. PICK c \in priced : CycleKey(c.path) = CycleKey(w)
    BY <2>4 DEF CInv, Keyed
  <2> DEFINE v == c.path
  <2>6. v \in Seq(Edge) /\ w \in Seq(Edge) /\ CycleKey(v) = CycleKey(w)
    BY <2>1, <2>5 DEF CInv, IInv, TypeOK, ClosedWalk
  <2> HIDE DEF v
  <2>7. \A i, j \in 1..Len(w) : w[i].pool = w[j].pool => i = j
    BY <2>1
  <2>8. /\ \A i \in 1..Len(v) : \E j \in 1..Len(w) : w[j].pool = v[i].pool
        /\ \A i, j \in 1..Len(v) : v[i].pool = v[j].pool => i = j
    BY <2>6, <2>7, OneKey
  <2>9. \A i \in 1..Len(w) : \E j \in 1..Len(v) : v[j].pool = w[i].pool
    BY <2>6, OneKey
  <2>10. Len(v) <= Len(w) /\ Len(w) <= Len(v)
    BY <2>6, <2>7, <2>8, <2>9, NotLonger
  <2>11. Len(v) = n
    <3>1. Len(v) \in Nat
      BY <2>6
    <3> QED BY <3>1, <2>1, <2>2, <2>10
  <2>12. {v[i].pool : i \in 1..n} = {r[i] : i \in 1..n}
    <3>1. \A i \in 1..n : \E j \in 1..n : r[j] = v[i].pool
      BY <2>1, <2>8, <2>11
    <3>2. \A i \in 1..n : \E j \in 1..n : v[j].pool = r[i]
      BY <2>1, <2>9, <2>11
    <3>3. ASSUME NEW i \in 1..n PROVE v[i].pool \in {r[j] : j \in 1..n}
      BY <3>1
    <3>4. ASSUME NEW i \in 1..n PROVE r[i] \in {v[j].pool : j \in 1..n}
      BY <3>2
    <3> QED BY <3>3, <3>4
  <2> QED BY <2>11, <2>12 DEF v
<1> QED BY <1>1, Exploration, PTL
=============================================================================
