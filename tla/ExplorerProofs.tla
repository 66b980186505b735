--------------------------- MODULE ExplorerProofs ---------------------------
(***************************************************************************)
(* Proofs about Explorer: no action is lost or started twice when workers  *)
(* push, pop and transfer work, so the search is complete when it ends.    *)
(***************************************************************************)
EXTENDS Explorer, FiniteSetTheorems, SequenceTheorems, TLAPS

(* The parts of the inductive invariant. *)

TypeOK ==
  /\ graph \in [Nodes -> Seq([to : Nodes, runs : BOOLEAN])]
  /\ search \in {"bfs", "dfs"}
  /\ known \subseteq Nodes
  /\ arcs \subseteq Items
  /\ queue \in [Workers -> Seq(Items)]
  /\ gcontext \in [Workers -> Items \cup {NoItem}]
  /\ calls \in Seq(Workers)
  /\ outcome \in {"searching", "finished", "error", "aborted"}

\* The actions of the nodes in S.
WorkOf(S) == {item \in Items : item.node \in S /\ item.action <= Len(graph[item.node])}

\* Where they are: the queues are Q, and the workers run G.
Queued(Q) == {item \in Items : \E w \in Workers : \E i \in 1 .. Len(Q[w]) : Q[w][i] = item}
Running(G) == {item \in Items : \E w \in Workers : G[w] = item}

OnceQueued(Q) ==
  \A w, v \in Workers : \A i \in 1 .. Len(Q[w]), j \in 1 .. Len(Q[v]) :
    Q[w][i] = Q[v][j] => w = v /\ i = j

OnceRunning(G) == \A w, v \in Workers : G[w] = G[v] => w = v \/ G[w] = NoItem

\* Each action of a known node is in one place of a queue, run by one worker, in
\* arcs, or in the hands of the loop that has taken it: one of these only.
Accounted(Q, G, taken) ==
  /\ OnceQueued(Q)
  /\ OnceRunning(G)
  /\ Queued(Q) \cap Running(G) = {}
  /\ (Queued(Q) \cup Running(G)) \cap (arcs \cup taken) = {}
  /\ arcs \cap taken = {}
  /\ Queued(Q) \cup Running(G) \cup arcs \cup taken = WorkOf(known)

ArcsLeadToKnown == \A item \in arcs : Target(item) \in known

\* A loop that called another one has kept an item for itself.
CallersHaveWork == \A i \in 1 .. Len(calls) - 1 : queue[calls[i]] # <<>>

\* Nothing but what can be reached from the first node is found.
KnownIsReachable == \A S \in SUBSET Nodes : Closed(S) => known \subseteq S

FinishedIsIdle ==
  outcome = "finished" => calls = <<>> /\ \A w \in Workers : gcontext[w] = NoItem

IInv ==
  /\ TypeOK
  /\ Accounted(queue, gcontext, {})
  /\ Root \in known
  /\ ArcsLeadToKnown
  /\ KnownIsReachable
  /\ QueuesAreServed
  /\ CallsAreNested
  /\ CallersHaveWork
  /\ FinishedIsIdle

-----------------------------------------------------------------------------
(* Taking from queues and adding to them *)

LEMMA ActionsAreItems ==
  ASSUME graph \in [Nodes -> Seq([to : Nodes, runs : BOOLEAN])], NEW n \in Nodes
  PROVE  /\ Len(graph[n]) \in Nat /\ DOMAIN graph[n] = 1 .. Len(graph[n])
         /\ ActionsOf(n) \in Seq(Items)
         /\ Len(ActionsOf(n)) = Len(graph[n])
         /\ \A i \in 1 .. Len(graph[n]) : ActionsOf(n)[i] = [node |-> n, action |-> i]
<1>1. graph[n] \in Seq([to : Nodes, runs : BOOLEAN])
  OBVIOUS
<1>2. Len(graph[n]) \in Nat /\ DOMAIN graph[n] = 1 .. Len(graph[n])
  BY <1>1, LenProperties
<1>3. ActionsOf(n) \in [1 .. Len(graph[n]) -> Items]
  BY <1>2 DEF ActionsOf, Items
<1>4. ActionsOf(n) \in Seq(Items)
  BY <1>2, <1>3, SeqDef
<1>5. Len(ActionsOf(n)) \in Nat /\ DOMAIN ActionsOf(n) = 1 .. Len(ActionsOf(n))
  BY <1>4, LenProperties
<1>6. 1 .. Len(ActionsOf(n)) = 1 .. Len(graph[n])
  BY <1>3, <1>5
<1>7. Len(ActionsOf(n)) = Len(graph[n])
  <2>1. PICK k \in Nat : k = Len(ActionsOf(n))
    BY <1>5
  <2>2. PICK m \in Nat : m = Len(graph[n])
    BY <1>2
  <2>3. 1 .. k = 1 .. m
    BY <1>6, <2>1, <2>2
  <2>4. k <= m /\ m <= k
    BY <2>3
  <2> QED BY <2>1, <2>2, <2>4
<1> QED BY <1>2, <1>4, <1>7 DEF ActionsOf

\* Taking an item from a queue, at either end, leaves the others where they are.
LEMMA TakingOne ==
  ASSUME TypeOK, NEW w \in Workers, queue[w] # <<>>
  PROVE  /\ Popped(w) \in Items
         /\ Remaining(w) \in [Workers -> Seq(Items)]
         /\ \A v \in Workers : v # w => Remaining(w)[v] = queue[v]
         /\ Len(queue[w]) \in Nat \ {0}
         /\ Len(Remaining(w)[w]) = Len(queue[w]) - 1
         /\ \E e \in {1, Len(queue[w])} :
              /\ queue[w][e] = Popped(w)
              /\ \A i \in 1 .. Len(queue[w]) - 1 :
                   Remaining(w)[w][i] = queue[w][IF i < e THEN i ELSE i + 1]
<1>1. queue[w] \in Seq(Items) /\ Len(queue[w]) \in Nat \ {0}
  BY EmptySeq DEF TypeOK
<1>2. \A i \in 1 .. Len(queue[w]) : queue[w][i] \in Items
  BY <1>1, ElementOfSeq
<1>3. CASE search = "dfs"
  <2> DEFINE rest == SubSeq(queue[w], 1, Len(queue[w]) - 1)
  <2>1. Popped(w) = queue[w][Len(queue[w])] /\ Remaining(w) = [queue EXCEPT ![w] = rest]
    BY <1>3 DEF Popped, Remaining
  <2>2. \A i \in 1 .. Len(queue[w]) - 1 : queue[w][i] \in Items
    BY <1>1, <1>2
  <2>3. /\ rest \in Seq(Items) /\ Len(rest) = Len(queue[w]) - 1
        /\ \A i \in 1 .. Len(queue[w]) - 1 : rest[i] = queue[w][i]
    <3> DEFINE l == Len(queue[w]) - 1
    <3>1. l \in Nat
      BY <1>1
    <3>2. \A i \in 1 .. l : queue[w][i] \in Items
      BY <2>2
    <3>3. /\ SubSeq(queue[w], 1, l) \in Seq(Items)
          /\ Len(SubSeq(queue[w], 1, l)) = IF 1 <= l THEN l - 1 + 1 ELSE 0
          /\ \A i \in 1 .. l - 1 + 1 : SubSeq(queue[w], 1, l)[i] = queue[w][1 + i - 1]
      <4> HIDE DEF l
      <4> QED BY <3>1, <3>2, SubSeqProperties
    <3>4. \A i \in 1 .. l : SubSeq(queue[w], 1, l)[i] = queue[w][i]
      <4> HIDE DEF l
      <4> QED BY <3>1, <3>3
    <3>5. Len(SubSeq(queue[w], 1, l)) = l
      <4> HIDE DEF l
      <4> QED BY <3>1, <3>3
    <3> QED BY <3>3, <3>4, <3>5
  <2> HIDE DEF rest
  <2>4. Remaining(w)[w] = rest /\ \A v \in Workers : v # w => Remaining(w)[v] = queue[v]
    BY <2>1 DEF TypeOK
  <2>5. Remaining(w) \in [Workers -> Seq(Items)]
    BY <2>1, <2>3 DEF TypeOK
  <2>6. Popped(w) \in Items
    BY <1>1, <1>2, <2>1
  <2>7. \A i \in 1 .. Len(queue[w]) - 1 :
           Remaining(w)[w][i] = queue[w][IF i < Len(queue[w]) THEN i ELSE i + 1]
    BY <1>1, <2>3, <2>4
  <2> QED BY <1>1, <2>1, <2>3, <2>4, <2>5, <2>6, <2>7
<1>4. CASE search # "dfs"
  <2> DEFINE rest == Tail(queue[w])
  <2>1. Popped(w) = Head(queue[w]) /\ Remaining(w) = [queue EXCEPT ![w] = rest]
    BY <1>4 DEF Popped, Remaining
  <2>2. /\ Head(queue[w]) = queue[w][1] /\ Head(queue[w]) \in Items
        /\ rest \in Seq(Items) /\ Len(rest) = Len(queue[w]) - 1
        /\ \A i \in 1 .. Len(queue[w]) - 1 : rest[i] = queue[w][i + 1]
    BY <1>1, HeadTailProperties
  <2> HIDE DEF rest
  <2>3. Remaining(w)[w] = rest /\ \A v \in Workers : v # w => Remaining(w)[v] = queue[v]
    BY <2>1 DEF TypeOK
  <2>4. Remaining(w) \in [Workers -> Seq(Items)]
    BY <2>1, <2>2 DEF TypeOK
  <2>5. \A i \in 1 .. Len(queue[w]) - 1 :
           Remaining(w)[w][i] = queue[w][IF i < 1 THEN i ELSE i + 1]
    BY <1>1, <2>2, <2>3
  <2> QED BY <1>1, <2>1, <2>2, <2>3, <2>4, <2>5
<1> QED BY <1>3, <1>4

LEMMA Pop ==
  ASSUME TypeOK, OnceQueued(queue), NEW w \in Workers, queue[w] # <<>>
  PROVE  /\ Popped(w) \in Queued(queue)
         /\ OnceQueued(Remaining(w))
         /\ Queued(Remaining(w)) = Queued(queue) \ {Popped(w)}
<1> DEFINE Q == Remaining(w)
           l == Len(queue[w])
<1>1. PICK e \in {1, l} :
        /\ queue[w][e] = Popped(w)
        /\ \A i \in 1 .. l - 1 : Q[w][i] = queue[w][IF i < e THEN i ELSE i + 1]
  BY TakingOne
<1>2. /\ l \in Nat \ {0} /\ e \in 1 .. l /\ Len(Q[w]) = l - 1
      /\ \A v \in Workers : v # w => Q[v] = queue[v]
      /\ Popped(w) \in Items
  BY <1>1, TakingOne
<1> DEFINE from(v, i) == IF v = w /\ i >= e THEN i + 1 ELSE i
<1>t. \A v \in Workers : Len(queue[v]) \in Nat /\ Len(Q[v]) \in Nat
  <2>1. \A v \in Workers : queue[v] \in Seq(Items)
    BY DEF TypeOK
  <2> QED BY <2>1, <1>2, LenProperties
<1>3. ASSUME NEW v \in Workers, NEW i \in 1 .. Len(Q[v])
      PROVE  /\ from(v, i) \in 1 .. Len(queue[v])
             /\ Q[v][i] = queue[v][from(v, i)]
             /\ v = w => from(v, i) # e
  <2>1. CASE v = w
    <3>1. i \in 1 .. l - 1
      BY <2>1, <1>2
    <3>2. Q[w][i] = queue[w][IF i < e THEN i ELSE i + 1]
      BY <1>1, <3>1
    <3> HIDE DEF Q
    <3> QED BY <3>1, <3>2, <2>1, <1>2
  <2>2. CASE v # w
    BY <2>2, <1>2
  <2> QED BY <2>1, <2>2
<1>4. ASSUME NEW v \in Workers, NEW j \in 1 .. Len(queue[v]), ~(v = w /\ j = e)
      PROVE  \E i \in 1 .. Len(Q[v]) : from(v, i) = j
  <2>1. CASE v = w /\ j > e
    <3>1. j - 1 \in 1 .. Len(Q[v]) /\ from(v, j - 1) = j
      BY <2>1, <1>2
    <3> QED BY <3>1
  <2>2. CASE v = w /\ j < e
    <3>1. j \in 1 .. Len(Q[v]) /\ from(v, j) = j
      BY <2>2, <1>2
    <3> QED BY <3>1
  <2>3. CASE v # w
    <3>1. j \in 1 .. Len(Q[v]) /\ from(v, j) = j
      BY <2>3, <1>2
    <3> QED BY <3>1
  <2>4. e \in Nat /\ j \in Nat
    BY <1>2, <1>t
  <2> QED BY <1>4, <2>1, <2>2, <2>3, <2>4
<1>5. ASSUME NEW v \in Workers, NEW i \in 1 .. Len(Q[v]), NEW j \in 1 .. Len(Q[v]),
             from(v, i) = from(v, j)
      PROVE  i = j
  <2>1. i \in Int /\ j \in Int /\ e \in Int
    BY <1>2, <1>t
  <2> QED BY <2>1, <1>5
<1>6. Popped(w) \in Queued(queue)
  BY <1>1, <1>2 DEF Queued
<1> HIDE DEF from, Q, l
<1>7. OnceQueued(Q)
  <2> SUFFICES ASSUME NEW u \in Workers, NEW v \in Workers, NEW i \in 1 .. Len(Q[u]),
                      NEW j \in 1 .. Len(Q[v]), Q[u][i] = Q[v][j]
               PROVE  u = v /\ i = j
    BY DEF OnceQueued
  <2>1. queue[u][from(u, i)] = queue[v][from(v, j)]
    BY <1>3
  <2>2. u = v /\ from(u, i) = from(v, j)
    BY <2>1, <1>3 DEF OnceQueued
  <2> QED BY <2>2, <1>5
<1>8. ASSUME NEW item \in Items PROVE item \in Queued(Q) <=> item \in Queued(queue) /\ item # Popped(w)
  <2>1. ASSUME item \in Queued(Q) PROVE item \in Queued(queue) /\ item # Popped(w)
    <3>0. PICK v \in Workers : \E i \in 1 .. Len(Q[v]) : Q[v][i] = item
      BY <2>1 DEF Queued
    <3>1. PICK i \in 1 .. Len(Q[v]) : Q[v][i] = item
      BY <3>0
    <3>2. from(v, i) \in 1 .. Len(queue[v]) /\ queue[v][from(v, i)] = item
      BY <3>1, <1>3
    <3>3. item = Popped(w) => v = w /\ from(v, i) = e
      BY <3>2, <1>1, <1>2 DEF OnceQueued, l
    <3> QED BY <3>2, <3>3, <1>3 DEF Queued
  <2>2. ASSUME item \in Queued(queue), item # Popped(w) PROVE item \in Queued(Q)
    <3>0. PICK v \in Workers : \E j \in 1 .. Len(queue[v]) : queue[v][j] = item
      BY <2>2 DEF Queued
    <3>1. PICK j \in 1 .. Len(queue[v]) : queue[v][j] = item
      BY <3>0
    <3>2. ~(v = w /\ j = e)
      BY <3>1, <2>2, <1>1
    <3>3. PICK i \in 1 .. Len(Q[v]) : from(v, i) = j
      BY <3>2, <1>4
    <3> QED BY <3>1, <3>3, <1>3 DEF Queued
  <2> QED BY <2>1, <2>2
<1>9. Queued(Q) = Queued(queue) \ {Popped(w)}
  BY <1>8 DEF Queued
<1> QED BY <1>6, <1>7, <1>9 DEF Q

LEMMA ConcatItems ==
  ASSUME NEW s \in Seq(Items), NEW t \in Seq(Items)
  PROVE  /\ s \o t \in Seq(Items)
         /\ Len(s \o t) = Len(s) + Len(t)
         /\ \A i \in 1 .. Len(s) + Len(t) :
              (s \o t)[i] = IF i <= Len(s) THEN s[i] ELSE t[i - Len(s)]
BY ConcatProperties

\* The actions of a node that nothing is queued of are put after the others.
Pushed(Q, v, n) == [Q EXCEPT ![v] = @ \o ActionsOf(n)]

LEMMA Push ==
  ASSUME TypeOK, NEW Q \in [Workers -> Seq(Items)], OnceQueued(Q),
         NEW v \in Workers, NEW n \in Nodes, Queued(Q) \cap WorkOf({n}) = {}
  PROVE  /\ Pushed(Q, v, n) \in [Workers -> Seq(Items)]
         /\ OnceQueued(Pushed(Q, v, n))
         /\ Queued(Pushed(Q, v, n)) = Queued(Q) \cup WorkOf({n})
         /\ \A w \in Workers : w # v => Pushed(Q, v, n)[w] = Q[w]
         /\ Q[v] # <<>> => Pushed(Q, v, n)[v] # <<>>
<1>r. PICK R : R = Pushed(Q, v, n)
  OBVIOUS
<1> DEFINE A == ActionsOf(n)
<1>1. /\ A \in Seq(Items) /\ Len(A) = Len(graph[n]) /\ Len(A) \in Nat
      /\ \A i \in 1 .. Len(A) : A[i] = [node |-> n, action |-> i]
  BY ActionsAreItems DEF TypeOK
<1>0. R = [Q EXCEPT ![v] = @ \o A]
  BY <1>r DEF Pushed
<1> HIDE DEF A
<1>q. \A w \in Workers : Q[w] \in Seq(Items)
  OBVIOUS
<1>2. Q[v] \in Seq(Items) /\ R[v] = Q[v] \o A /\ \A w \in Workers : w # v => R[w] = Q[w]
  BY <1>0, <1>q
<1>3. /\ Q[v] \o A \in Seq(Items)
      /\ Len(Q[v] \o A) = Len(Q[v]) + Len(A)
      /\ \A i \in 1 .. Len(Q[v]) + Len(A) :
           (Q[v] \o A)[i] = IF i <= Len(Q[v]) THEN Q[v][i] ELSE A[i - Len(Q[v])]
  <2>1. \A q \in Seq(Items) :
           /\ q \o A \in Seq(Items)
           /\ Len(q \o A) = Len(q) + Len(A)
           /\ \A i \in 1 .. Len(q) + Len(A) :
                (q \o A)[i] = IF i <= Len(q) THEN q[i] ELSE A[i - Len(q)]
    BY <1>1, ConcatItems
  <2> QED BY <2>1, <1>q
<1>4. R \in [Workers -> Seq(Items)]
  BY <1>0, <1>2, <1>3
<1>5. \A w \in Workers : Len(Q[w]) \in Nat
  BY LenProperties
<1>6. ASSUME NEW w \in Workers, NEW i \in 1 .. Len(R[w])
      PROVE  \/ i \in 1 .. Len(Q[w]) /\ R[w][i] = Q[w][i] /\ R[w][i] \in Queued(Q)
             \/ /\ w = v /\ i - Len(Q[v]) \in 1 .. Len(A)
                /\ R[w][i] = [node |-> n, action |-> i - Len(Q[v])]
                /\ R[w][i] \in WorkOf({n})
  <2>1. CASE w # v \/ i <= Len(Q[w])
    <3>1. i \in 1 .. Len(Q[w]) /\ R[w][i] = Q[w][i]
      BY <2>1, <1>1, <1>2, <1>3, <1>5
    <3>2. Q[w][i] \in Items
      BY <3>1, ElementOfSeq
    <3> QED BY <3>1, <3>2 DEF Queued
  <2>2. CASE w = v /\ i > Len(Q[w])
    <3>1. i - Len(Q[v]) \in 1 .. Len(A) /\ R[w][i] = A[i - Len(Q[v])]
      BY <2>2, <1>1, <1>2, <1>3, <1>5
    <3>2. R[w][i] = [node |-> n, action |-> i - Len(Q[v])]
      BY <3>1, <1>1
    <3>3. R[w][i] \in WorkOf({n})
      <4> DEFINE k == i - Len(Q[v])
                 item == [node |-> n, action |-> k]
      <4>1. k \in Nat \ {0} /\ k <= Len(graph[n])
        BY <3>1, <1>1
      <4> HIDE DEF k
      <4>2. item \in Items /\ item.node = n /\ item.action = k
        BY <4>1 DEF Items
      <4> HIDE DEF item
      <4>3. item \in WorkOf({n})
        BY <4>1, <4>2 DEF WorkOf
      <4> QED BY <4>3, <3>2 DEF item, k
    <3> QED BY <2>2, <3>1, <3>2, <3>3
  <2>3. i \in Int /\ Len(Q[w]) \in Int
    BY <1>4, <1>5, LenProperties
  <2> QED BY <2>1, <2>2, <2>3
<1>7. OnceQueued(R)
  <2> SUFFICES ASSUME NEW u \in Workers, NEW w \in Workers, NEW i \in 1 .. Len(R[u]),
                      NEW j \in 1 .. Len(R[w]), R[u][i] = R[w][j]
               PROVE  u = w /\ i = j
    BY DEF OnceQueued
  <2>1. CASE R[u][i] \in Queued(Q)
    <3>1. R[u][i] \notin WorkOf({n}) /\ R[w][j] \notin WorkOf({n})
      BY <2>1
    <3>2. /\ i \in 1 .. Len(Q[u]) /\ R[u][i] = Q[u][i]
          /\ j \in 1 .. Len(Q[w]) /\ R[w][j] = Q[w][j]
      BY <3>1, <1>6
    <3>3. Q[u][i] = Q[w][j]
      BY <3>2
    <3> QED BY <3>2, <3>3 DEF OnceQueued
  <2>2. CASE R[u][i] \notin Queued(Q)
    <3>1. /\ u = v /\ R[u][i] = [node |-> n, action |-> i - Len(Q[v])]
          /\ w = v /\ R[w][j] = [node |-> n, action |-> j - Len(Q[v])]
      BY <2>2, <1>6
    <3>2. i - Len(Q[v]) = j - Len(Q[v])
      BY <3>1
    <3>3. i \in Int /\ j \in Int /\ Len(Q[v]) \in Int
      BY <1>4, <1>5, LenProperties
    <3> QED BY <3>1, <3>2, <3>3
  <2> QED BY <2>1, <2>2
<1>8. ASSUME NEW w \in Workers, NEW i \in 1 .. Len(Q[w])
      PROVE  i \in 1 .. Len(R[w]) /\ R[w][i] = Q[w][i]
  BY <1>0, <1>1, <1>2, <1>3, <1>5
<1>9. ASSUME NEW item \in WorkOf({n}) PROVE item \in Queued(R)
  <2>1. item \in Items /\ item.node = n /\ item.action \in 1 .. Len(A)
    BY <1>1 DEF WorkOf, Items
  <2>2. item = [node |-> n, action |-> item.action]
    BY <2>1 DEF Items
  <2> DEFINE k == Len(Q[v]) + item.action
  <2>3. k \in 1 .. Len(R[v]) /\ k > Len(Q[v]) /\ k - Len(Q[v]) = item.action
    BY <2>1, <1>1, <1>2, <1>3, <1>5
  <2>4. R[v][k] = A[item.action]
    <3> HIDE DEF k
    <3> QED BY <2>3, <1>2, <1>3, <1>1, <1>5
  <2>5. R[v][k] = item
    BY <2>1, <2>2, <2>4, <1>1
  <2> QED BY <2>1, <2>3, <2>5 DEF Queued
<1>10. Queued(R) = Queued(Q) \cup WorkOf({n})
  <2>1. ASSUME NEW item \in Queued(R) PROVE item \in Queued(Q) \cup WorkOf({n})
    <3>1. PICK w \in Workers : \E i \in 1 .. Len(R[w]) : R[w][i] = item
      BY DEF Queued
    <3>2. PICK i \in 1 .. Len(R[w]) : R[w][i] = item
      BY <3>1
    <3>3. R[w][i] \in Queued(Q) \/ R[w][i] \in WorkOf({n})
      BY <1>6
    <3> QED BY <3>2, <3>3
  <2>2. Queued(Q) \subseteq Queued(R)
    BY <1>8 DEF Queued
  <2> QED BY <2>1, <2>2, <1>9
<1>11. Q[v] # <<>> => R[v] # <<>>
  BY <1>1, <1>2, ConcatEqualIffEmpty
<1> QED BY <1>2, <1>4, <1>7, <1>10, <1>11, <1>r

-----------------------------------------------------------------------------
(* Where the work is after the parts of a step *)

LEMMA TakeFromQueue ==
  ASSUME TypeOK, Accounted(queue, gcontext, {}), NEW w \in Workers, queue[w] # <<>>
  PROVE  Accounted(Remaining(w), gcontext, {Popped(w)}) /\ Popped(w) \in WorkOf(known)
BY Pop DEF Accounted

LEMMA TakeFromContext ==
  ASSUME TypeOK, Accounted(queue, gcontext, {}), NEW w \in Workers, gcontext[w] # NoItem
  PROVE  /\ Accounted(queue, [gcontext EXCEPT ![w] = NoItem], {gcontext[w]})
         /\ gcontext[w] \in WorkOf(known)
<1> DEFINE G == [gcontext EXCEPT ![w] = NoItem]
<1>1. gcontext[w] \in Running(gcontext)
  BY DEF TypeOK, Running
<1>2. \A v \in Workers : G[v] = IF v = w THEN NoItem ELSE gcontext[v]
  BY DEF TypeOK
<1> HIDE DEF G
<1>3. OnceRunning(G)
  BY <1>2 DEF Accounted, OnceRunning
<1>4. Running(G) = Running(gcontext) \ {gcontext[w]}
  <2>1. ASSUME NEW item \in Items
        PROVE  (\E v \in Workers : G[v] = item)
                 <=> (\E v \in Workers : gcontext[v] = item) /\ item # gcontext[w]
    <3>1. NoItem \notin Items
      BY ExplorerAssumption
    <3>2. \A v \in Workers : gcontext[v] = gcontext[w] => v = w
      BY DEF Accounted, OnceRunning
    <3> QED BY <3>1, <3>2, <1>2
  <2> QED BY <2>1 DEF Running
<1>5. Accounted(queue, G, {gcontext[w]}) /\ gcontext[w] \in WorkOf(known)
  BY <1>1, <1>3, <1>4 DEF Accounted
<1> QED BY <1>5 DEF G

LEMMA StartedRuns ==
  ASSUME TypeOK, NEW Q \in [Workers -> Seq(Items)], NEW item \in Items,
         Accounted(Q, gcontext, {item}), NEW v \in Workers, gcontext[v] = NoItem,
         gcontext' = [gcontext EXCEPT ![v] = item], queue' = Q, UNCHANGED <<graph, known, arcs>>
  PROVE  Accounted(queue, gcontext, {})'
<1>1. \A w \in Workers : gcontext'[w] = IF w = v THEN item ELSE gcontext[w]
  BY DEF TypeOK
<1>2. item \notin Running(gcontext) /\ item # NoItem
  BY ExplorerAssumption DEF Accounted
<1>3. \A w \in Workers : gcontext[w] # item
  BY <1>2 DEF Running
<1>4. OnceRunning(gcontext')
  BY <1>1, <1>2, <1>3 DEF Accounted, OnceRunning
<1>5. Running(gcontext') = Running(gcontext) \cup {item}
  <2>1. ASSUME NEW x \in Items
        PROVE  (\E w \in Workers : gcontext'[w] = x)
                 <=> (\E w \in Workers : gcontext[w] = x) \/ x = item
    <3>1. NoItem \notin Items
      BY ExplorerAssumption
    <3> QED BY <3>1, <1>1
  <2> QED BY <2>1 DEF Running
<1>6. WorkOf(known)' = WorkOf(known)
  BY DEF WorkOf
<1>7. /\ OnceQueued(queue') /\ Queued(queue') = Queued(Q)
      /\ Queued(Q) \cap Running(gcontext) = {}
      /\ (Queued(Q) \cup Running(gcontext)) \cap (arcs \cup {item}) = {}
      /\ arcs \cap {item} = {}
      /\ Queued(Q) \cup Running(gcontext) \cup arcs \cup {item} = WorkOf(known)
  BY DEF Accounted
<1> QED BY <1>4, <1>5, <1>6, <1>7 DEF Accounted

LEMMA TargetIsNode ==
  ASSUME TypeOK, NEW item \in WorkOf(known)
  PROVE  /\ item \in Items /\ item.node \in known
         /\ item.action \in DOMAIN graph[item.node]
         /\ Target(item) \in Nodes
<1>1. /\ item \in Items /\ item.node \in known /\ item.node \in Nodes
      /\ item.action \in Nat \ {0} /\ item.action <= Len(graph[item.node])
  BY DEF WorkOf, Items
<1>2. graph[item.node] \in Seq([to : Nodes, runs : BOOLEAN])
  BY <1>1 DEF TypeOK
<1>3. Len(graph[item.node]) \in Nat /\ DOMAIN graph[item.node] = 1 .. Len(graph[item.node])
  BY <1>2, LenProperties
<1>4. item.action \in 1 .. Len(graph[item.node])
  BY <1>1, <1>3
<1>5. graph[item.node][item.action] \in [to : Nodes, runs : BOOLEAN]
  BY <1>2, <1>4, ElementOfSeq
<1> QED BY <1>1, <1>3, <1>4, <1>5 DEF Target

\* The end of an item: its arc is made, and a new node's actions are queued.
LEMMA MadeNode ==
  ASSUME TypeOK, NEW Q \in [Workers -> Seq(Items)], NEW G, NEW item \in WorkOf(known),
         Accounted(Q, G, {item}), ArcsLeadToKnown, KnownIsReachable, Root \in known,
         NEW v \in Workers, MakeNode(v, item, Q), gcontext' = G, UNCHANGED graph
  PROVE  /\ known' \subseteq Nodes /\ arcs' \subseteq Items
         /\ queue' \in [Workers -> Seq(Items)]
         /\ outcome' \in {outcome, "error"}
         /\ Accounted(queue, gcontext, {})'
         /\ ArcsLeadToKnown' /\ KnownIsReachable' /\ Root \in known'
         /\ \A w \in Workers : w # v => queue'[w] = Q[w]
         /\ Q[v] # <<>> => queue'[v] # <<>>
<1>n. PICK n \in Nodes : n = Target(item)
  BY TargetIsNode
<1>r. PICK R : R = Pushed(Q, v, n)
  OBVIOUS
<1>1. /\ item \in Items /\ item.node \in known
      /\ item.action \in DOMAIN graph[item.node]
  BY TargetIsNode
<1>2. /\ arcs' = arcs \cup {item} /\ known' = known \cup {n}
      /\ queue' = IF n \in known THEN Q ELSE R
      /\ outcome' \in {outcome, "error"}
  BY <1>n, <1>r DEF MakeNode, Pushed
<1>3. /\ OnceQueued(Q) /\ OnceRunning(G)
      /\ Queued(Q) \cap Running(G) = {}
      /\ (Queued(Q) \cup Running(G)) \cap (arcs \cup {item}) = {}
      /\ arcs \cap {item} = {}
      /\ Queued(Q) \cup Running(G) \cup arcs \cup {item} = WorkOf(known)
  BY DEF Accounted
<1>4. WorkOf(known)' = WorkOf(known) \cup WorkOf({n})
  BY <1>2 DEF WorkOf
<1>5. ArcsLeadToKnown'
  <2> SUFFICES ASSUME NEW a \in arcs' PROVE Target(a)' \in known'
    BY DEF ArcsLeadToKnown
  <2>1. Target(a)' = Target(a)
    BY DEF Target
  <2> QED BY <2>1, <1>2, <1>n DEF ArcsLeadToKnown
<1>6. KnownIsReachable' /\ Root \in known'
  <2>1. ASSUME NEW S \in SUBSET Nodes, Closed(S)' PROVE known' \subseteq S
    <3>1. Closed(S)
      BY <2>1 DEF Closed
    <3>2. item.node \in S
      BY <3>1, <1>1 DEF KnownIsReachable
    <3>3. n \in S
      BY <3>1, <3>2, <1>1, <1>n DEF Closed, Target
    <3> QED BY <3>1, <3>3, <1>2 DEF KnownIsReachable
  <2> QED BY <2>1, <1>2 DEF KnownIsReachable
<1>7. CASE n \in known
  <2>1. WorkOf(known)' = WorkOf(known) /\ queue' = Q
    BY <1>2, <1>7 DEF WorkOf
  <2>2. Accounted(queue, gcontext, {})'
    BY <2>1, <1>2, <1>3 DEF Accounted
  <2>3. /\ queue' \in [Workers -> Seq(Items)] /\ \A w \in Workers : queue'[w] = Q[w]
    BY <2>1
  <2> QED BY <2>2, <2>3, <1>1, <1>2, <1>5, <1>6 DEF TypeOK
<1>8. CASE n \notin known
  <2>1. WorkOf(known) \cap WorkOf({n}) = {}
    BY <1>8 DEF WorkOf
  <2>2. Queued(Q) \cap WorkOf({n}) = {}
    BY <2>1, <1>3
  <2>3. /\ R \in [Workers -> Seq(Items)] /\ OnceQueued(R)
        /\ Queued(R) = Queued(Q) \cup WorkOf({n})
        /\ \A w \in Workers : w # v => R[w] = Q[w]
        /\ Q[v] # <<>> => R[v] # <<>>
    <3>1. OnceQueued(Q)
      BY <1>3
    <3>2. /\ Pushed(Q, v, n) \in [Workers -> Seq(Items)]
          /\ OnceQueued(Pushed(Q, v, n))
          /\ Queued(Pushed(Q, v, n)) = Queued(Q) \cup WorkOf({n})
          /\ \A w \in Workers : w # v => Pushed(Q, v, n)[w] = Q[w]
          /\ Q[v] # <<>> => Pushed(Q, v, n)[v] # <<>>
      BY <3>1, <2>2, Push
    <3> QED BY <3>2, <1>r
  <2>4. queue' = R
    BY <1>2, <1>8
  <2>5. Accounted(queue, gcontext, {})'
    <3>1. /\ OnceQueued(queue') /\ OnceRunning(gcontext')
          /\ Queued(queue') = Queued(Q) \cup WorkOf({n}) /\ Running(gcontext') = Running(G)
      BY <2>3, <2>4, <1>3
    <3>2. /\ (Queued(Q) \cup WorkOf({n})) \cap Running(G) = {}
          /\ (Queued(Q) \cup WorkOf({n}) \cup Running(G)) \cap (arcs' \cup {}) = {}
      BY <2>1, <1>2, <1>3
    <3>3. Queued(Q) \cup WorkOf({n}) \cup Running(G) \cup arcs' = WorkOf(known)'
      BY <1>2, <1>3, <1>4
    <3> QED BY <3>1, <3>2, <3>3 DEF Accounted
  <2> QED BY <2>3, <2>4, <2>5, <1>1, <1>2, <1>5, <1>6 DEF TypeOK
<1> QED BY <1>7, <1>8

\* start_gcontext of an idle worker.
LEMMA Started ==
  ASSUME TypeOK, NEW Q \in [Workers -> Seq(Items)], NEW item \in WorkOf(known),
         Accounted(Q, gcontext, {item}), ArcsLeadToKnown, KnownIsReachable, Root \in known,
         NEW v \in Workers, gcontext[v] = NoItem, StartGContext(v, item, Q), UNCHANGED graph
  PROVE  /\ known' \subseteq Nodes /\ arcs' \subseteq Items
         /\ queue' \in [Workers -> Seq(Items)]
         /\ gcontext' \in [Workers -> Items \cup {NoItem}]
         /\ outcome' \in {outcome, "error"}
         /\ Accounted(queue, gcontext, {})'
         /\ ArcsLeadToKnown' /\ KnownIsReachable' /\ Root \in known'
         /\ \A w \in Workers : w # v => queue'[w] = Q[w] /\ gcontext'[w] = gcontext[w]
         /\ IF Runs(item) THEN gcontext'[v] = item /\ queue'[v] = Q[v]
                          ELSE gcontext'[v] = NoItem /\ (Q[v] # <<>> => queue'[v] # <<>>)
<1>1. item \in Items
  BY TargetIsNode
<1>2. CASE Runs(item)
  <2>1. /\ gcontext' = [gcontext EXCEPT ![v] = item] /\ queue' = Q
        /\ UNCHANGED <<known, arcs, outcome>>
    BY <1>2 DEF StartGContext
  <2>2. Accounted(queue, gcontext, {})'
    BY <2>1, <1>1, StartedRuns
  <2>3. ArcsLeadToKnown' /\ KnownIsReachable' /\ Root \in known'
    BY <2>1 DEF ArcsLeadToKnown, KnownIsReachable, Closed, Target
  <2> QED BY <2>1, <2>2, <2>3, <1>1, <1>2 DEF TypeOK
<1>3. CASE ~Runs(item)
  <2>1. MakeNode(v, item, Q) /\ gcontext' = gcontext
    BY <1>3 DEF StartGContext
  <2> QED BY <2>1, <1>3, MadeNode DEF TypeOK
<1> QED BY <1>2, <1>3

-----------------------------------------------------------------------------
(* Steps *)

\* The innermost loop: the others are of other workers, which have work left.
LEMMA Innermost ==
  ASSUME IInv, NEW w \in Workers, InLoop(w)
  PROVE  /\ gcontext[w] = NoItem /\ outcome = "searching"
         /\ \E l \in Nat \ {0} :
              /\ l = Len(calls) /\ DOMAIN calls = 1 .. l /\ calls[l] = w
              /\ \A i \in 1 .. l - 1 : calls[i] \in Workers /\ calls[i] # w
<1>1. calls \in Seq(Workers) /\ calls # <<>>
  BY DEF IInv, TypeOK, InLoop
<1>2. Len(calls) \in Nat \ {0} /\ DOMAIN calls = 1 .. Len(calls)
  BY <1>1, EmptySeq, LenProperties
<1>3. \A i \in 1 .. Len(calls) : calls[i] \in Workers
  BY <1>1, ElementOfSeq
<1>4. PICK l \in Nat \ {0} : l = Len(calls)
  BY <1>2
<1>5. calls[l] = w /\ l \in DOMAIN calls /\ outcome = "searching"
  BY <1>2, <1>4 DEF InLoop
<1>6. gcontext[w] = NoItem
  BY <1>5 DEF IInv, CallsAreNested
<1>7. ASSUME NEW i \in 1 .. l - 1 PROVE calls[i] \in Workers /\ calls[i] # w
  <2>1. i \in 1 .. l /\ i # l
    OBVIOUS
  <2> QED BY <2>1, <1>2, <1>3, <1>4, <1>5 DEF IInv, CallsAreNested
<1> QED BY <1>2, <1>4, <1>5, <1>6, <1>7

\* What the loop of w takes, and that it is in no other place then.
LEMMA Taken ==
  ASSUME IInv, NEW w \in Workers, queue[w] # <<>>
  PROVE  \E item \in WorkOf(known), Q \in [Workers -> Seq(Items)] :
           /\ item = Popped(w) /\ Q = Remaining(w)
           /\ Accounted(Q, gcontext, {item})
           /\ \A v \in Workers : v # w => Q[v] = queue[v]
           /\ Len(queue[w]) > 1 => Q[w] # <<>>
<1>1. Accounted(Remaining(w), gcontext, {Popped(w)}) /\ Popped(w) \in WorkOf(known)
  BY TakeFromQueue DEF IInv
<1>2. /\ Remaining(w) \in [Workers -> Seq(Items)]
      /\ \A v \in Workers : v # w => Remaining(w)[v] = queue[v]
      /\ Len(queue[w]) \in Nat /\ Len(Remaining(w)[w]) = Len(queue[w]) - 1
  BY TakingOne DEF IInv
<1>3. Len(queue[w]) > 1 => Remaining(w)[w] # <<>>
  BY <1>2, EmptySeq
<1> QED BY <1>1, <1>2, <1>3

LEMMA TransferInv ==
  ASSUME IInv, NEW w \in Workers, NEW v \in Workers, Transfer(w, v)
  PROVE  IInv'
<1>a. /\ InLoop(w) /\ Len(queue[w]) > 1 /\ queue[v] = <<>> /\ gcontext[v] = NoItem
      /\ UNCHANGED <<graph, search>>
  BY DEF Transfer, FirstSleeping, Sleeping
<1>b. queue[w] # <<>> /\ v # w
  BY <1>a, EmptySeq
<1>c. PICK item \in WorkOf(known), Q \in [Workers -> Seq(Items)] :
        /\ item = Popped(w) /\ Q = Remaining(w)
        /\ Accounted(Q, gcontext, {item})
        /\ \A u \in Workers : u # w => Q[u] = queue[u]
        /\ Q[w] # <<>>
  BY <1>a, <1>b, Taken
<1>d. StartGContext(v, item, Q) /\ calls' = IF Runs(item) THEN calls ELSE calls \o Entered(v)
  BY <1>c DEF Transfer
<1>o. outcome = "searching"
  BY <1>a, Innermost
<1>e. PICK l \in Nat \ {0} :
        /\ l = Len(calls) /\ DOMAIN calls = 1 .. l /\ calls[l] = w
        /\ \A i \in 1 .. l - 1 : calls[i] \in Workers /\ calls[i] # w
  BY <1>a, Innermost
<1>f. \A i \in 1 .. l - 1 : queue[calls[i]] # <<>> /\ calls[i] # v
  BY <1>a, <1>e DEF IInv, CallersHaveWork
<1>g. \A i \in 1 .. l :
        /\ gcontext[calls[i]] = NoItem
        /\ \A j \in 1 .. l : calls[i] = calls[j] => i = j
  BY <1>e DEF IInv, CallsAreNested
<1>h. \A i \in 1 .. l : calls[i] # v /\ calls[i] \in Workers
  BY <1>b, <1>e, <1>f
<1>1. /\ known' \subseteq Nodes /\ arcs' \subseteq Items
      /\ queue' \in [Workers -> Seq(Items)]
      /\ gcontext' \in [Workers -> Items \cup {NoItem}]
      /\ outcome' \in {outcome, "error"}
      /\ Accounted(queue, gcontext, {})'
      /\ ArcsLeadToKnown' /\ KnownIsReachable' /\ Root \in known'
      /\ \A u \in Workers : u # v => queue'[u] = Q[u] /\ gcontext'[u] = gcontext[u]
      /\ IF Runs(item) THEN gcontext'[v] = item /\ queue'[v] = Q[v]
                       ELSE gcontext'[v] = NoItem /\ (Q[v] # <<>> => queue'[v] # <<>>)
  <2>1. /\ TypeOK /\ ArcsLeadToKnown /\ KnownIsReachable /\ Root \in known
        /\ gcontext[v] = NoItem /\ UNCHANGED graph
        /\ Accounted(Q, gcontext, {item}) /\ StartGContext(v, item, Q)
    BY <1>a, <1>c, <1>d DEF IInv
  <2> QED BY <2>1, Started
<1>q. \A u \in Workers : u # v => queue'[u] = Q[u]
  BY <1>1
<1>2. item # NoItem
  BY <1>c, ExplorerAssumption DEF WorkOf
<1>3. \A i \in 1 .. l : queue'[calls[i]] # <<>>
  <2>1. ASSUME NEW i \in 1 .. l - 1 PROVE queue'[calls[i]] # <<>>
    <3>1. PICK u \in Workers : u = calls[i] /\ u # w /\ u # v /\ queue[u] # <<>>
      BY <1>e, <1>f
    <3>2. queue'[u] # <<>>
      BY <3>1, <1>c, <1>q
    <3> QED BY <3>1, <3>2
  <2>2. queue'[calls[l]] # <<>>
    BY <1>b, <1>c, <1>e, <1>q
  <2>3. \A i \in 1 .. l : i \in 1 .. l - 1 \/ i = l
    BY <1>e
  <2> QED BY <2>1, <2>2, <2>3
<1>4. CASE calls' = calls /\ (Runs(item) \/ queue'[v] = <<>>)
  <2>1. QueuesAreServed'
    <3> SUFFICES ASSUME NEW u \in Workers, queue'[u] # <<>>, gcontext'[u] = NoItem
                 PROVE  \E i \in DOMAIN calls' : calls'[i] = u
      BY DEF QueuesAreServed
    <3>1. u # v
      BY <1>1, <1>2, <1>4
    <3>2. CASE u = w
      BY <3>2, <1>e, <1>4
    <3>3. CASE u # w
      BY <3>1, <3>3, <1>1, <1>c, <1>4 DEF IInv, QueuesAreServed
    <3> QED BY <3>2, <3>3
  <2>2. CallsAreNested'
    BY <1>e, <1>g, <1>h, <1>1, <1>4 DEF CallsAreNested
  <2>3. CallersHaveWork'
    BY <1>3, <1>4, <1>e DEF CallersHaveWork
  <2>4. FinishedIsIdle' /\ TypeOK'
    BY <1>a, <1>o, <1>1, <1>4 DEF FinishedIsIdle, IInv, TypeOK
  <2> QED BY <2>1, <2>2, <2>3, <2>4, <1>1 DEF IInv
<1>5. CASE calls' = calls \o <<v>> /\ ~Runs(item)
  <2>0. /\ calls' \in Seq(Workers) /\ Len(calls') = l + 1
        /\ DOMAIN calls' = 1 .. l + 1
        /\ \A i \in 1 .. l : calls'[i] = calls[i]
        /\ calls'[l + 1] = v
    <3>1. calls \in Seq(Workers) /\ calls' = Append(calls, v)
      BY <1>5, AppendIsConcat DEF IInv, TypeOK
    <3>2. /\ Append(calls, v) \in Seq(Workers) /\ Len(Append(calls, v)) = Len(calls) + 1
          /\ \A i \in 1 .. Len(calls) : Append(calls, v)[i] = calls[i]
          /\ Append(calls, v)[Len(calls) + 1] = v
      BY <3>1, AppendProperties
    <3>3. /\ calls' \in Seq(Workers) /\ Len(calls') = l + 1
          /\ \A i \in 1 .. l : calls'[i] = calls[i]
          /\ calls'[l + 1] = v
      BY <3>1, <3>2, <1>e
    <3> QED BY <3>3, LenProperties
  <2>1. QueuesAreServed'
    <3> SUFFICES ASSUME NEW u \in Workers, queue'[u] # <<>>, gcontext'[u] = NoItem
                 PROVE  \E i \in DOMAIN calls' : calls'[i] = u
      BY DEF QueuesAreServed
    <3>1. CASE u = v
      <4>1. l + 1 \in DOMAIN calls'
        BY <2>0
      <4> QED BY <3>1, <4>1, <2>0
    <3>2. CASE u = w
      <4>1. l \in 1 .. l /\ l \in DOMAIN calls'
        BY <2>0
      <4>2. calls'[l] = w
        BY <4>1, <2>0, <1>e
      <4> QED BY <3>2, <4>1, <4>2
    <3>3. CASE u # w /\ u # v
      <4>0. queue[u] # <<>> /\ gcontext[u] = NoItem
        BY <3>3, <1>1, <1>c
      <4>1. PICK i \in 1 .. l : calls[i] = u
        BY <4>0, <1>e DEF IInv, QueuesAreServed
      <4>2. i \in 1 .. l + 1
        BY <1>e
      <4> QED BY <4>1, <4>2, <2>0
    <3> QED BY <3>1, <3>2, <3>3
  <2>2. CallsAreNested'
    <3> SUFFICES ASSUME NEW i \in 1 .. l + 1
                 PROVE  /\ \A j \in 1 .. l + 1 : calls'[i] = calls'[j] => i = j
                        /\ gcontext'[calls'[i]] = NoItem
      BY <2>0 DEF CallsAreNested
    <3>1. \A j \in 1 .. l + 1 : j \in 1 .. l \/ j = l + 1
      BY <1>e
    <3>2. gcontext'[calls'[i]] = NoItem
      <4>1. CASE i = l + 1
        BY <4>1, <2>0, <1>1, <1>5
      <4>2. CASE i \in 1 .. l
        BY <4>2, <2>0, <1>1, <1>g, <1>h
      <4> QED BY <4>1, <4>2, <3>1
    <3>3. ASSUME NEW j \in 1 .. l + 1, calls'[i] = calls'[j] PROVE i = j
      BY <3>1, <3>3, <2>0, <1>g, <1>h
    <3> QED BY <3>2, <3>3
  <2>3. CallersHaveWork'
    <3>1. ASSUME NEW i \in 1 .. Len(calls') - 1 PROVE i \in 1 .. l
      BY <2>0, <1>e
    <3> QED BY <3>1, <2>0, <1>3 DEF CallersHaveWork
  <2>4. FinishedIsIdle' /\ TypeOK'
    BY <2>0, <1>a, <1>o, <1>1 DEF FinishedIsIdle, IInv, TypeOK
  <2> QED BY <2>1, <2>2, <2>3, <2>4, <1>1 DEF IInv
<1>6. (calls' = calls /\ (Runs(item) \/ queue'[v] = <<>>)) \/ (calls' = calls \o <<v>> /\ ~Runs(item))
  <2>1. calls \o <<>> = calls
    BY ConcatEmptySeq DEF IInv, TypeOK
  <2> QED BY <2>1, <1>d DEF Entered
<1> QED BY <1>4, <1>5, <1>6

LEMMA StartNextInv ==
  ASSUME IInv, NEW w \in Workers, StartNext(w)
  PROVE  IInv'
<1>a. InLoop(w) /\ queue[w] # <<>> /\ UNCHANGED <<graph, search>>
  BY DEF StartNext
<1>c. PICK item \in WorkOf(known), Q \in [Workers -> Seq(Items)] :
        /\ item = Popped(w) /\ Q = Remaining(w)
        /\ Accounted(Q, gcontext, {item})
        /\ \A u \in Workers : u # w => Q[u] = queue[u]
  BY <1>a, Taken
<1>d. StartGContext(w, item, Q) /\ calls' = IF Runs(item) THEN Return ELSE calls
  BY <1>c DEF StartNext
<1>o. outcome = "searching" /\ gcontext[w] = NoItem
  BY <1>a, Innermost
<1>e. PICK l \in Nat \ {0} :
        /\ l = Len(calls) /\ DOMAIN calls = 1 .. l /\ calls[l] = w
        /\ \A i \in 1 .. l - 1 : calls[i] \in Workers /\ calls[i] # w
  BY <1>a, Innermost
<1>f. \A i \in 1 .. l - 1 : queue[calls[i]] # <<>>
  BY <1>a, <1>e DEF IInv, CallersHaveWork
<1>g. \A i \in 1 .. l :
        /\ gcontext[calls[i]] = NoItem
        /\ \A j \in 1 .. l : calls[i] = calls[j] => i = j
  BY <1>e DEF IInv, CallsAreNested
<1>1. /\ known' \subseteq Nodes /\ arcs' \subseteq Items
      /\ queue' \in [Workers -> Seq(Items)]
      /\ gcontext' \in [Workers -> Items \cup {NoItem}]
      /\ outcome' \in {outcome, "error"}
      /\ Accounted(queue, gcontext, {})'
      /\ ArcsLeadToKnown' /\ KnownIsReachable' /\ Root \in known'
      /\ \A u \in Workers : u # w => queue'[u] = Q[u] /\ gcontext'[u] = gcontext[u]
      /\ IF Runs(item) THEN gcontext'[w] = item /\ queue'[w] = Q[w]
                       ELSE gcontext'[w] = NoItem /\ (Q[w] # <<>> => queue'[w] # <<>>)
  BY <1>a, <1>c, <1>d, <1>o, Started DEF IInv
<1>q. \A u \in Workers : u # w => queue'[u] = Q[u] /\ gcontext'[u] = gcontext[u]
  BY <1>1
<1>2. item # NoItem
  BY <1>c, ExplorerAssumption DEF WorkOf
<1>3. \A i \in 1 .. l - 1 :
        queue'[calls[i]] # <<>> /\ gcontext'[calls[i]] = gcontext[calls[i]]
  <2> SUFFICES ASSUME NEW i \in 1 .. l - 1
               PROVE  queue'[calls[i]] # <<>> /\ gcontext'[calls[i]] = gcontext[calls[i]]
    OBVIOUS
  <2>1. PICK u \in Workers : u = calls[i] /\ u # w /\ queue[u] # <<>>
    BY <1>e, <1>f
  <2>2. queue'[u] # <<>> /\ gcontext'[u] = gcontext[u]
    BY <2>1, <1>c, <1>q
  <2> QED BY <2>1, <2>2
<1>4. CASE Runs(item)
  <2>1. calls' = SubSeq(calls, 1, l - 1)
    BY <1>d, <1>e, <1>4 DEF Return
  <2>2. /\ calls' \in Seq(Workers) /\ Len(calls') = l - 1
        /\ DOMAIN calls' = 1 .. l - 1
        /\ \A i \in 1 .. l - 1 : calls'[i] = calls[i]
    <3> DEFINE k == l - 1
    <3>1. k \in Nat /\ \A i \in 1 .. k : calls[i] \in Workers
      BY <1>e
    <3> HIDE DEF k
    <3>2. /\ SubSeq(calls, 1, k) \in Seq(Workers)
          /\ Len(SubSeq(calls, 1, k)) = IF 1 <= k THEN k - 1 + 1 ELSE 0
          /\ \A i \in 1 .. k - 1 + 1 : SubSeq(calls, 1, k)[i] = calls[1 + i - 1]
      BY <3>1, SubSeqProperties
    <3>3. Len(SubSeq(calls, 1, k)) = k /\ \A i \in 1 .. k : SubSeq(calls, 1, k)[i] = calls[i]
      BY <3>1, <3>2
    <3>4. DOMAIN SubSeq(calls, 1, k) = 1 .. k
      BY <3>2, <3>3, LenProperties
    <3> QED BY <2>1, <3>2, <3>3, <3>4 DEF k
  <2>3. QueuesAreServed'
    <3> SUFFICES ASSUME NEW u \in Workers, queue'[u] # <<>>, gcontext'[u] = NoItem
                 PROVE  \E i \in DOMAIN calls' : calls'[i] = u
      BY DEF QueuesAreServed
    <3>1. u # w
      BY <1>1, <1>2, <1>4
    <3>2. queue[u] # <<>> /\ gcontext[u] = NoItem
      BY <3>1, <1>1, <1>c
    <3>3. PICK i \in 1 .. l : calls[i] = u
      BY <3>2, <1>e DEF IInv, QueuesAreServed
    <3>4. i # l
      BY <3>1, <3>3, <1>e
    <3>5. i \in 1 .. l - 1
      BY <3>4, <1>e
    <3> QED BY <3>3, <3>5, <2>2
  <2>4. CallsAreNested'
    <3>1. \A i \in 1 .. l - 1 : i \in 1 .. l
      BY <1>e
    <3> QED BY <3>1, <2>2, <1>3, <1>g DEF CallsAreNested
  <2>5. CallersHaveWork'
    <3>1. \A i \in 1 .. Len(calls') - 1 : i \in 1 .. l - 1
      BY <2>2, <1>e
    <3> QED BY <3>1, <2>2, <1>3 DEF CallersHaveWork
  <2>6. FinishedIsIdle' /\ TypeOK'
    BY <2>2, <1>a, <1>o, <1>1 DEF FinishedIsIdle, IInv, TypeOK
  <2> QED BY <2>3, <2>4, <2>5, <2>6, <1>1 DEF IInv
<1>5. CASE ~Runs(item)
  <2>1. calls' = calls /\ gcontext'[w] = NoItem
    BY <1>d, <1>1, <1>5
  <2>2. QueuesAreServed'
    <3> SUFFICES ASSUME NEW u \in Workers, queue'[u] # <<>>, gcontext'[u] = NoItem
                 PROVE  \E i \in DOMAIN calls : calls[i] = u
      BY <2>1 DEF QueuesAreServed
    <3>1. CASE u = w
      BY <3>1, <1>e
    <3>2. CASE u # w
      BY <3>2, <1>1, <1>c DEF IInv, QueuesAreServed
    <3> QED BY <3>1, <3>2
  <2>3. CallsAreNested'
    <3>1. \A i \in 1 .. l : i \in 1 .. l - 1 \/ i = l
      BY <1>e
    <3>2. \A i \in 1 .. l : gcontext'[calls[i]] = NoItem
      BY <3>1, <2>1, <1>e, <1>g, <1>3
    <3> QED BY <3>2, <2>1, <1>e, <1>g DEF CallsAreNested
  <2>4. CallersHaveWork'
    BY <2>1, <1>3, <1>e DEF CallersHaveWork
  <2>5. FinishedIsIdle' /\ TypeOK'
    BY <2>1, <1>a, <1>o, <1>1 DEF FinishedIsIdle, IInv, TypeOK
  <2> QED BY <2>2, <2>3, <2>4, <2>5, <1>1 DEF IInv
<1> QED BY <1>4, <1>5

LEMMA OneCall ==
  ASSUME NEW w \in Workers
  PROVE  /\ <<w>> \in Seq(Workers) /\ Len(<<w>>) = 1
         /\ DOMAIN <<w>> = {1} /\ <<w>>[1] = w
OBVIOUS

LEMMA FinishRunInv ==
  ASSUME IInv, NEW w \in Workers, FinishRun(w)
  PROVE  IInv'
<1>a. /\ outcome = "searching" /\ calls = <<>> /\ gcontext[w] # NoItem
      /\ gcontext' = [gcontext EXCEPT ![w] = NoItem]
      /\ calls' = Entered(w)
      /\ UNCHANGED <<graph, search>>
  BY DEF FinishRun
<1>b. PICK item, G :
       /\ item \in WorkOf(known)
       /\ item = gcontext[w] /\ G = [gcontext EXCEPT ![w] = NoItem]
  BY <1>a, TakeFromContext DEF IInv
<1> item \in WorkOf(known)
  BY <1>b
<1>c. PICK Q \in [Workers -> Seq(Items)] : Q = queue
  BY DEF IInv, TypeOK
<1>d. Accounted(Q, G, {item}) /\ MakeNode(w, item, Q)
  BY <1>a, <1>b, <1>c, TakeFromContext DEF IInv, FinishRun
<1>1. /\ known' \subseteq Nodes /\ arcs' \subseteq Items
      /\ queue' \in [Workers -> Seq(Items)]
      /\ outcome' \in {outcome, "error"}
      /\ Accounted(queue, gcontext, {})'
      /\ ArcsLeadToKnown' /\ KnownIsReachable' /\ Root \in known'
      /\ \A u \in Workers : u # w => queue'[u] = Q[u]
  BY <1>a, <1>b, <1>d, MadeNode DEF IInv
<1>2. \A u \in Workers : gcontext'[u] = IF u = w THEN NoItem ELSE gcontext[u]
  BY <1>a DEF IInv, TypeOK
<1>3. calls' = <<>> \/ calls' = <<w>>
  BY <1>a DEF Entered
<1>4. QueuesAreServed'
  <2> SUFFICES ASSUME NEW u \in Workers, queue'[u] # <<>>, gcontext'[u] = NoItem
               PROVE  \E i \in DOMAIN calls' : calls'[i] = u
    BY DEF QueuesAreServed
  <2>1. u = w
    <3>1. u # w => queue[u] # <<>> /\ gcontext[u] = NoItem
      BY <1>1, <1>2, <1>c
    <3>2. DOMAIN calls = {}
      BY <1>a
    <3> QED BY <3>1, <3>2 DEF IInv, QueuesAreServed
  <2>2. calls' = <<w>>
    BY <2>1, <1>a DEF Entered
  <2>3. 1 \in DOMAIN <<w>> /\ <<w>>[1] = w
    BY OneCall
  <2> QED BY <2>1, <2>2, <2>3
<1>5. CallsAreNested' /\ CallersHaveWork'
  <2>1. CASE calls' = <<>>
    <3>1. Len(<<>>) = 0 /\ DOMAIN <<>> = {}
      OBVIOUS
    <3> QED BY <2>1, <3>1 DEF CallsAreNested, CallersHaveWork
  <2>2. CASE calls' = <<w>>
    <3>1. Len(calls') = 1 /\ DOMAIN calls' = {1} /\ calls'[1] = w
      BY <2>2, OneCall
    <3> QED BY <3>1, <1>2 DEF CallsAreNested, CallersHaveWork
  <2> QED BY <1>3, <2>1, <2>2
<1>6. FinishedIsIdle'
  BY <1>a, <1>1 DEF FinishedIsIdle
<1>7. TypeOK'
  <2>1. gcontext' \in [Workers -> Items \cup {NoItem}]
    BY <1>a DEF IInv, TypeOK
  <2>2. calls' \in Seq(Workers)
    BY <1>3, OneCall, EmptySeq
  <2> QED BY <2>1, <2>2, <1>a, <1>1 DEF IInv, TypeOK
<1> QED BY <1>1, <1>4, <1>5, <1>6, <1>7 DEF IInv

LEMMA InitInv == Init => IInv
<1> SUFFICES ASSUME Init PROVE IInv
  OBVIOUS
<1>1. /\ graph \in [Nodes -> Seq([to : Nodes, runs : BOOLEAN])]
      /\ 0 \in Workers /\ Root \in Nodes
  <2>1. 0 \in Workers
    BY ExplorerAssumption DEF Workers
  <2>2. graph \in [Nodes -> Seq([to : Nodes, runs : BOOLEAN])]
    <3>1. graph \in Graphs
      BY DEF Init
    <3>2. Graphs \subseteq [Nodes -> Seq([to : Nodes, runs : BOOLEAN])]
      BY ExplorerAssumption
    <3> QED BY <3>1, <3>2
  <2> QED BY <2>1, <2>2, ExplorerAssumption
<1>2. ActionsOf(Root) \in Seq(Items)
  BY <1>1, ActionsAreItems
<1>3. TypeOK
  <2>1. queue \in [Workers -> Seq(Items)]
    BY <1>2, EmptySeq DEF Init
  <2>2. calls \in Seq(Workers)
    BY <1>1, OneCall DEF Init
  <2> QED BY <1>1, <2>1, <2>2 DEF Init, TypeOK
<1>4. Accounted(queue, gcontext, {})
  <2>1. PICK Q \in [Workers -> Seq(Items)] : Q = [w \in Workers |-> <<>>]
    <3>1. [w \in Workers |-> <<>>] \in [Workers -> Seq(Items)]
      BY EmptySeq
    <3> QED BY <3>1
  <2>2. \A w \in Workers : Len(Q[w]) = 0
    BY <2>1
  <2>3. OnceQueued(Q) /\ Queued(Q) = {}
    BY <2>2 DEF OnceQueued, Queued
  <2>4. queue = Pushed(Q, 0, Root)
    <3>1. <<>> \o ActionsOf(Root) = ActionsOf(Root)
      BY <1>2, ConcatEmptySeq
    <3> QED BY <3>1, <2>1, <1>1 DEF Init, Pushed
  <2>5. OnceQueued(queue) /\ Queued(queue) = WorkOf({Root})
    <3>1. Queued(Q) \cap WorkOf({Root}) = {}
      BY <2>3
    <3>2. /\ OnceQueued(Pushed(Q, 0, Root))
          /\ Queued(Pushed(Q, 0, Root)) = Queued(Q) \cup WorkOf({Root})
      BY <3>1, <2>3, <1>1, <1>3, Push
    <3> QED BY <3>2, <2>3, <2>4
  <2>6. Running(gcontext) = {} /\ OnceRunning(gcontext)
    BY ExplorerAssumption DEF Init, Running, OnceRunning
  <2> QED BY <2>5, <2>6 DEF Init, Accounted
<1>5. Root \in known /\ ArcsLeadToKnown /\ KnownIsReachable
  BY DEF Init, ArcsLeadToKnown, KnownIsReachable, Closed
<1>6. /\ \A w \in Workers : w # 0 => queue[w] = <<>>
      /\ \A w \in Workers : gcontext[w] = NoItem
      /\ Len(calls) = 1 /\ DOMAIN calls = {1} /\ calls[1] = 0
      /\ outcome = "searching"
  BY <1>1, OneCall DEF Init
<1>7. QueuesAreServed /\ CallsAreNested /\ CallersHaveWork /\ FinishedIsIdle
  BY <1>6, <1>1 DEF QueuesAreServed, CallsAreNested, CallersHaveWork, FinishedIsIdle
<1> QED BY <1>3, <1>4, <1>5, <1>7 DEF IInv

\* A step that leaves the search as it is, or ends it with nothing to do.
LEMMA SameSearchInv ==
  ASSUME IInv, UNCHANGED <<graph, search, known, arcs, queue, gcontext, calls>>,
         \/ outcome' \in {outcome, "aborted"}
         \/ Finish
  PROVE  IInv'
<1>1. /\ graph' = graph /\ search' = search /\ known' = known /\ arcs' = arcs
      /\ queue' = queue /\ gcontext' = gcontext /\ calls' = calls
  OBVIOUS
<1>2. TypeOK'
  BY <1>1 DEF IInv, TypeOK, Finish
<1>3. Accounted(queue, gcontext, {})'
  <2>1. WorkOf(known)' = WorkOf(known)
    BY <1>1 DEF WorkOf
  <2> QED BY <2>1, <1>1 DEF IInv, Accounted
<1>4. ArcsLeadToKnown' /\ KnownIsReachable' /\ Root \in known'
  BY <1>1 DEF IInv, ArcsLeadToKnown, KnownIsReachable, Closed, Target
<1>5. QueuesAreServed' /\ CallsAreNested' /\ CallersHaveWork'
  BY <1>1 DEF IInv, QueuesAreServed, CallsAreNested, CallersHaveWork
<1>6. FinishedIsIdle'
  BY <1>1 DEF IInv, FinishedIsIdle, Finish
<1> QED BY <1>2, <1>3, <1>4, <1>5, <1>6 DEF IInv

LEMMA NextInv == IInv /\ [Next]_vars => IInv'
<1> SUFFICES ASSUME IInv, [Next]_vars PROVE IInv'
  OBVIOUS
<1>1. ASSUME NEW w \in Workers, StartNext(w) PROVE IInv'
  BY <1>1, StartNextInv
<1>2. ASSUME NEW w \in Workers, PopEmpty(w) PROVE IInv'
  BY <1>2, SameSearchInv DEF PopEmpty
<1>3. ASSUME NEW w \in Workers, FinishRun(w) PROVE IInv'
  BY <1>3, FinishRunInv
<1>4. ASSUME NEW w \in Workers, NEW v \in Workers, Transfer(w, v) PROVE IInv'
  BY <1>4, TransferInv
<1>5. ASSUME Finish PROVE IInv'
  BY <1>5, SameSearchInv DEF Finish
<1>6. ASSUME UNCHANGED vars PROVE IInv'
  BY <1>6, SameSearchInv DEF vars
<1> QED BY <1>1, <1>2, <1>3, <1>4, <1>5, <1>6 DEF Next

LEMMA SpecInv == Spec => []IInv
BY InitInv, NextInv, PTL DEF Spec

-----------------------------------------------------------------------------
(* The theorems *)

\* Generator.final_check finds every queue empty: a worker that has a queue runs
\* something or is in the loop of its start_next_in_queue.
THEOREM QueuesServed == Spec => []QueuesAreServed
BY SpecInv, PTL DEF IInv

\* start_next_in_queue, which calls itself for a worker that work is transferred to,
\* never gets to a worker that is in its loop already, nor to one that runs.
THEOREM CallsNested == Spec => []CallsAreNested
BY SpecInv, PTL DEF IInv

\* What a worker runs is replaced only by main_cycle, when it has ended, and never by
\* a transfer.
THEOREM BusyLeftAlone == Spec => BusyWorkersAreLeftAlone
<1> DEFINE Alone == \A w \in Workers :
             gcontext[w] # NoItem /\ gcontext'[w] # gcontext[w] =>
               gcontext'[w] = NoItem /\ calls = <<>>
<1>1. IInv /\ [Next]_vars => [Alone]_vars
  <2> SUFFICES ASSUME IInv, Next PROVE Alone
    OBVIOUS
  <2>0. gcontext \in [Workers -> Items \cup {NoItem}]
    BY DEF IInv, TypeOK
  <2>1. ASSUME NEW w \in Workers, StartNext(w) PROVE Alone
    <3>1. gcontext[w] = NoItem
      BY <2>1, Innermost DEF StartNext
    <3> QED BY <2>0, <2>1, <3>1 DEF StartNext, StartGContext
  <2>2. ASSUME NEW w \in Workers, NEW v \in Workers, Transfer(w, v) PROVE Alone
    BY <2>0, <2>2 DEF Transfer, FirstSleeping, Sleeping, StartGContext
  <2>3. ASSUME NEW w \in Workers, FinishRun(w) PROVE Alone
    BY <2>0, <2>3 DEF FinishRun
  <2>4. ASSUME NEW w \in Workers, PopEmpty(w) PROVE Alone
    BY <2>4 DEF PopEmpty
  <2>5. ASSUME Finish PROVE Alone
    BY <2>5 DEF Finish
  <2> QED BY <2>1, <2>2, <2>3, <2>4, <2>5 DEF Next
<1> QED BY <1>1, SpecInv, PTL DEF Spec, BusyWorkersAreLeftAlone

\* An action of a known node is in one queue once, or run by one worker, until its
\* arc is added to the state space; then it is nowhere.
THEOREM WorkConserved == Spec => []WorkIsConserved
<1>1. IInv => WorkIsConserved
  <2> SUFFICES ASSUME IInv, NEW n \in known, NEW item \in Range(ActionsOf(n))
               PROVE  Cardinality(Places(item)) = IF item \in arcs THEN 0 ELSE 1
    BY DEF WorkIsConserved
  <2>1. TypeOK /\ Accounted(queue, gcontext, {}) /\ n \in Nodes
    BY DEF IInv, TypeOK
  <2>2. item \in WorkOf(known) /\ item \in Items
    <3>1. /\ DOMAIN ActionsOf(n) = 1 .. Len(graph[n]) /\ Len(graph[n]) \in Nat
          /\ \A i \in 1 .. Len(graph[n]) : ActionsOf(n)[i] = [node |-> n, action |-> i]
      BY <2>1, ActionsAreItems DEF TypeOK, ActionsOf
    <3>2. PICK i \in 1 .. Len(graph[n]) : item = [node |-> n, action |-> i]
      <4>1. PICK f : f = ActionsOf(n)
        OBVIOUS
      <4>2. PICK i : i \in DOMAIN f /\ item = f[i]
        BY <4>1 DEF Range
      <4>3. i \in DOMAIN ActionsOf(n) /\ item = ActionsOf(n)[i]
        BY <4>1, <4>2
      <4> HIDE DEF ActionsOf
      <4>4. i \in 1 .. Len(graph[n])
        BY <3>1, <4>3
      <4> QED BY <3>1, <4>3, <4>4
    <3> QED BY <3>1, <3>2, <2>1 DEF WorkOf, Items
  <2>3. \A w \in Workers : DOMAIN queue[w] = 1 .. Len(queue[w]) /\ Len(queue[w]) \in Nat
    BY <2>1, LenProperties DEF TypeOK
  <2>4. ASSUME item \notin Queued(queue)
        PROVE  \A w \in Workers : {i \in DOMAIN queue[w] : queue[w][i] = item} = {}
    BY <2>2, <2>3, <2>4 DEF Queued
  <2>5. ASSUME item \notin Running(gcontext)
        PROVE  {w \in Workers : gcontext[w] = item} = {}
    BY <2>2, <2>5 DEF Running
  <2>6. CASE item \in arcs
    <3>1. item \notin Queued(queue) /\ item \notin Running(gcontext)
      BY <2>1, <2>6 DEF Accounted
    <3>2. Places(item) = {}
      BY <3>1, <2>4, <2>5 DEF Places
    <3> QED BY <3>2, <2>6, FS_EmptySet
  <2>7. CASE item \in Queued(queue)
    <3>1. PICK w \in Workers : \E i \in 1 .. Len(queue[w]) : queue[w][i] = item
      BY <2>7 DEF Queued
    <3>2. PICK i \in 1 .. Len(queue[w]) : queue[w][i] = item
      BY <3>1
    <3>3. \A v \in Workers : \A j \in 1 .. Len(queue[v]) :
             queue[v][j] = item => v = w /\ j = i
      BY <3>2, <2>1 DEF Accounted, OnceQueued
    <3>4. /\ {j \in DOMAIN queue[w] : queue[w][j] = item} = {i}
          /\ \A v \in Workers : v # w => {j \in DOMAIN queue[v] : queue[v][j] = item} = {}
      BY <3>2, <3>3, <2>3
    <3>5. item \notin Running(gcontext) /\ item \notin arcs
      BY <2>1, <2>7 DEF Accounted
    <3>6. Places(item) = {<<w, i>>}
      <4>1. UNION {{v} \X {j \in DOMAIN queue[v] : queue[v][j] = item} : v \in Workers}
              = {<<w, i>>}
        BY <3>4
      <4>2. {v \in Workers : gcontext[v] = item} \X {0} = {}
        BY <3>5, <2>5
      <4> QED BY <4>1, <4>2 DEF Places
    <3> QED BY <3>5, <3>6, FS_Singleton
  <2>8. CASE item \in Running(gcontext)
    <3>1. PICK w \in Workers : gcontext[w] = item
      BY <2>8 DEF Running
    <3>2. item # NoItem
      BY <2>2, ExplorerAssumption
    <3>3. {v \in Workers : gcontext[v] = item} = {w}
      BY <3>1, <3>2, <2>1 DEF Accounted, OnceRunning
    <3>4. item \notin Queued(queue) /\ item \notin arcs
      BY <2>1, <2>8 DEF Accounted
    <3>5. Places(item) = {<<w, 0>>}
      <4>1. UNION {{v} \X {j \in DOMAIN queue[v] : queue[v][j] = item} : v \in Workers} = {}
        BY <3>4, <2>4
      <4>2. {v \in Workers : gcontext[v] = item} \X {0} = {<<w, 0>>}
        BY <3>3
      <4> QED BY <4>1, <4>2 DEF Places
    <3> QED BY <3>4, <3>5, FS_Singleton
  <2> QED BY <2>1, <2>2, <2>6, <2>7, <2>8 DEF Accounted
<1> QED BY <1>1, SpecInv, PTL

\* "It checks all possible runs": a search that ends without an error or an abort has
\* found exactly the nodes that can be reached from the first one, with an arc for
\* each of their actions, for every program, number of workers and order of reports.
THEOREM StateSpaceIsExplored == Spec => []ExploresStateSpace
<1>1. IInv => ExploresStateSpace
  <2> SUFFICES ASSUME IInv, outcome = "finished"
               PROVE  /\ Closed(known)
                      /\ \A n \in known : Range(ActionsOf(n)) \subseteq arcs
    BY DEF ExploresStateSpace, IInv, KnownIsReachable
  <2>1. TypeOK /\ calls = <<>> /\ \A w \in Workers : gcontext[w] = NoItem
    BY DEF IInv, FinishedIsIdle
  <2>2. \A w \in Workers : queue[w] = <<>>
    <3>1. DOMAIN calls = {}
      BY <2>1
    <3> QED BY <3>1, <2>1 DEF IInv, QueuesAreServed
  <2>3. arcs = WorkOf(known)
    <3>1. Queued(queue) = {}
      BY <2>2 DEF Queued
    <3>2. Running(gcontext) = {}
      BY <2>1, ExplorerAssumption DEF Running
    <3> QED BY <3>1, <3>2 DEF IInv, Accounted
  <2>4. ASSUME NEW n \in known, NEW i \in DOMAIN graph[n]
        PROVE  [node |-> n, action |-> i] \in arcs /\ graph[n][i].to \in known
    <3>1. n \in Nodes /\ i \in Nat \ {0} /\ i <= Len(graph[n])
      <4>1. n \in Nodes
        BY <2>1 DEF TypeOK
      <4>2. DOMAIN graph[n] = 1 .. Len(graph[n]) /\ Len(graph[n]) \in Nat
        BY <4>1, <2>1, ActionsAreItems DEF TypeOK
      <4> QED BY <4>1, <4>2
    <3>2. PICK item : item = [node |-> n, action |-> i]
      OBVIOUS
    <3>3. item \in Items /\ item.node = n /\ item.action = i
      BY <3>1, <3>2 DEF Items
    <3>4. item \in arcs
      BY <3>1, <3>3, <2>3 DEF WorkOf
    <3>5. Target(item) \in known
      BY <3>4 DEF IInv, ArcsLeadToKnown
    <3> QED BY <3>2, <3>3, <3>4, <3>5 DEF Target
  <2>5. Closed(known)
    BY <2>4 DEF Closed, IInv
  <2>6. ASSUME NEW n \in known PROVE Range(ActionsOf(n)) \subseteq arcs
    <3>1. /\ DOMAIN graph[n] = 1 .. Len(graph[n])
          /\ \A i \in 1 .. Len(graph[n]) : ActionsOf(n)[i] = [node |-> n, action |-> i]
          /\ DOMAIN ActionsOf(n) = 1 .. Len(graph[n])
      BY <2>1, ActionsAreItems DEF TypeOK, ActionsOf
    <3>2. PICK f : f = ActionsOf(n)
      OBVIOUS
    <3>3. Range(ActionsOf(n)) = {f[i] : i \in DOMAIN f}
      BY <3>2 DEF Range
    <3>4. ASSUME NEW i \in DOMAIN f PROVE f[i] \in arcs
      <4>1. i \in DOMAIN graph[n]
        BY <3>1, <3>2
      <4>2. f[i] = [node |-> n, action |-> i]
        BY <3>1, <3>2, <4>1
      <4> QED BY <4>1, <4>2, <2>4
    <3> QED BY <3>3, <3>4
  <2> QED BY <2>5, <2>6
<1> QED BY <1>1, SpecInv, PTL

=============================================================================
