------------------------------ MODULE Collection ------------------------------
(***************************************************************************)
(* QPI::Collection, the container that contracts use for order books and   *)
(* the node for the priorities of pending transactions.  The elements of   *)
(* all povs share one array without gaps; those of one pov form a binary   *)
(* search tree, with the higher priorities on the left.  The povs are in a *)
(* hash table with open addressing, where a slot that was given up keeps   *)
(* a mark until the table is cleaned up.                                   *)
(***************************************************************************)
EXTENDS Integers, Sequences, FiniteSets

CONSTANTS
  Pov, Value, Priority, NoValue,
  Capacity,          \* L, of the elements and of the table alike
  PovHome,           \* the slot where the search for a pov begins
  RebuildPopulation, \* a tree of more elements than this may be balanced (32)
  MaxMarks           \* bound: callers clean up before there are more marks

ASSUME CollectionAssumption ==
  /\ Capacity \in Nat \ {0} /\ RebuildPopulation \in Nat \ {0} /\ MaxMarks \in Nat
  /\ PovHome \in [Pov -> 0 .. Capacity - 1]
  /\ Priority \subseteq Int /\ NoValue \notin Value

NullIndex == -1

VARIABLES
  nodes,        \* _elements
  povTable,     \* _povs
  povFlags,     \* _povOccupationFlags: 0 empty, 1 occupied, 2 marked for removal
  nodeCount,    \* _population
  removalMarks, \* _markRemovalCounter
  returned      \* the index that the last add or remove returned

collectionVars == <<nodes, povTable, povFlags, nodeCount, removalMarks, returned>>

Slot == 0 .. Capacity - 1
Link == Slot \cup {NullIndex}

EmptyNode == [value |-> NoValue, priority |-> 0, slot |-> 0, parent |-> 0, left |-> 0, right |-> 0]
EmptyPov  == [pov |-> NoValue, population |-> 0, head |-> 0, tail |-> 0, root |-> 0]

CollectionInit ==
  /\ nodes = [i \in Slot |-> EmptyNode]
  /\ povTable = [i \in Slot |-> EmptyPov]
  /\ povFlags = [i \in Slot |-> 0]
  /\ nodeCount = 0
  /\ removalMarks = 0
  /\ returned = NullIndex

(***************************************************************************)
(* The hash table of the povs                                              *)
(***************************************************************************)

\* The slots in the order in which a search for p looks at them.
Probe(p, k) == (PovHome[p] + k) % Capacity

\* How many of them come before the first empty one.
Reach(p, flags) ==
  CHOOSE k \in 0 .. Capacity :
    /\ \A j \in 0 .. k - 1 : flags[Probe(p, j)] # 0
    /\ k < Capacity => flags[Probe(p, k)] = 0

SlotOf(p) ==
  LET hits == {k \in 0 .. Reach(p, povFlags) - 1 :
                 povFlags[Probe(p, k)] = 1 /\ povTable[Probe(p, k)].pov = p} IN
  IF hits = {} THEN NullIndex
  ELSE Probe(p, CHOOSE k \in hits : \A j \in hits : k <= j)

\* Where a pov without elements goes: the first slot marked for removal before the
\* first empty one, else that empty one.
SlotFor(p) ==
  LET marked == {k \in 0 .. Reach(p, povFlags) - 1 : povFlags[Probe(p, k)] = 2} IN
  IF marked # {} THEN Probe(p, CHOOSE k \in marked : \A j \in marked : k <= j)
  ELSE IF Reach(p, povFlags) < Capacity THEN Probe(p, Reach(p, povFlags))
  ELSE NullIndex

(***************************************************************************)
(* The trees: t is the array of the elements                               *)
(***************************************************************************)

\* The elements below i in order.
InOrder(t, i) ==
  LET walk[j \in Link] ==
        IF j = NullIndex THEN << >>
        ELSE walk[t[j].left] \o <<j>> \o walk[t[j].right]
  IN walk[i]

\* The element that has no child on the side where priority q belongs.
SearchElement(t, root, q) ==
  LET down[i \in Slot] ==
        LET child == IF t[i].priority >= q THEN t[i].right ELSE t[i].left IN
        IF child = NullIndex THEN i ELSE down[child]
  IN down[root]

\* How many elements SearchElement looks at.
SearchIterations(t, root, q) ==
  LET down[i \in Slot] ==
        LET child == IF t[i].priority >= q THEN t[i].right ELSE t[i].left IN
        IF child = NullIndex THEN 1 ELSE 1 + down[child]
  IN down[root]

\* The element after or before i in its tree.
NextElement(t, i) ==
  LET leftmost[j \in Slot] == IF t[j].left = NullIndex THEN j ELSE leftmost[t[j].left]
      up[j \in Slot] ==
        LET above == t[j].parent IN
        IF above = NullIndex \/ t[above].right # j THEN above ELSE up[above]
  IN IF t[i].right # NullIndex THEN leftmost[t[i].right] ELSE up[i]

PreviousElement(t, i) ==
  LET rightmost[j \in Slot] == IF t[j].right = NullIndex THEN j ELSE rightmost[t[j].right]
      up[j \in Slot] ==
        LET above == t[j].parent IN
        IF above = NullIndex \/ t[above].left # j THEN above ELSE up[above]
  IN IF t[i].left # NullIndex THEN rightmost[t[i].left] ELSE up[i]

\* The parent of i gets c in place of i, and c gets that parent.
Reparent(t, i, c) ==
  LET p  == t[i].parent
      t1 == IF p = NullIndex THEN t
            ELSE IF t[p].right = i THEN [t EXCEPT ![p].right = c]
            ELSE [t EXCEPT ![p].left = c]
  IN IF c = NullIndex THEN t1 ELSE [t1 EXCEPT ![c].parent = p]

\* A balanced tree of the same elements in the same order; its root.
Middle(lo, hi, n) == IF lo = 0 /\ hi = n - 1 THEN n \div 2 ELSE (lo + hi) \div 2

BalancedRoot(t, root) ==
  LET s == InOrder(t, root) IN s[(Len(s) \div 2) + 1]

Balanced(t, root) ==
  LET s == InOrder(t, root)
      n == Len(s)
      At(k) == s[k + 1]
      RootOf(lo, hi) == IF lo > hi THEN NullIndex ELSE At(Middle(lo, hi, n))
      place[r \in (0 .. n) \X (-1 .. n) \X Link] ==
        LET lo == r[1] hi == r[2] m == Middle(lo, hi, n) IN
        IF lo > hi THEN {}
        ELSE {<<At(m), r[3], RootOf(lo, m - 1), RootOf(m + 1, hi)>>}
               \cup place[<<lo, m - 1, At(m)>>] \cup place[<<m + 1, hi, At(m)>>]
      links == place[<<0, n - 1, NullIndex>>]
  IN [i \in Slot |->
        IF \E l \in links : l[1] = i
        THEN LET l == CHOOSE x \in links : x[1] = i IN
             [t[i] EXCEPT !.parent = l[2], !.left = l[3], !.right = l[4]]
        ELSE t[i]]

(***************************************************************************)
(* The procedures                                                          *)
(***************************************************************************)

\* Add an element behind those of its pov that have the same or a higher priority.
Add(p, v, q) ==
  LET found == SlotOf(p)
      slot  == IF found # NullIndex THEN found ELSE SlotFor(p)
      new   == nodeCount
      fresh == [value |-> v, priority |-> q, slot |-> slot,
                parent |-> NullIndex, left |-> NullIndex, right |-> NullIndex]
      pov   == povTable[slot]
      above == SearchElement(nodes, pov.root, q)
      tree  == [nodes EXCEPT ![new] = [fresh EXCEPT !.parent = above],
                             ![above] = IF @.priority >= q THEN [@ EXCEPT !.right = new]
                                                           ELSE [@ EXCEPT !.left = new]]
      size  == pov.population + 1
      rebuild == /\ size > RebuildPopulation
                 /\ SearchIterations(nodes, pov.root, q) > size \div 4
      head  == IF nodes[pov.head].priority < q THEN new ELSE pov.head
      tail  == IF head # new /\ nodes[pov.tail].priority >= q THEN new ELSE pov.tail
  IN
  /\ nodeCount < Capacity
  /\ slot # NullIndex
  /\ nodeCount' = nodeCount + 1
  /\ returned' = new
  /\ povFlags' = [povFlags EXCEPT ![slot] = 1]
  /\ IF found = NullIndex \/ pov.population = 0
     THEN /\ nodes' = [nodes EXCEPT ![new] = fresh]
          /\ povTable' = [povTable EXCEPT ![slot] =
                [pov |-> p, population |-> 1, head |-> new, tail |-> new, root |-> new]]
     ELSE /\ nodes' = IF rebuild THEN Balanced(tree, pov.root) ELSE tree
          /\ povTable' = [povTable EXCEPT ![slot] =
                [@ EXCEPT !.population = size, !.head = head, !.tail = tail,
                          !.root = IF rebuild THEN BalancedRoot(tree, pov.root) ELSE @]]
  /\ UNCHANGED removalMarks

\* Mutant: the next element leaves its child behind.
TakenOutForgettingChild(t, pov, i) ==
  LET e == t[i]
      next == NextElement(t, i)
      child == IF e.right # NullIndex THEN e.right ELSE e.left
  IN
  [tree |-> Reparent(t, i, child),
   root |-> IF e.parent = NullIndex THEN child ELSE pov.root,
   head |-> IF i = pov.head THEN next ELSE pov.head,
   tail |-> IF i = pov.tail THEN PreviousElement(t, i) ELSE pov.tail,
   free |-> i, next |-> next]

\* Taking element i out of a tree that has others: the tree, its root, head and tail,
\* the index that becomes free and the index of the next element.
TakenOut(t, pov, i) ==
  LET e    == t[i]
      next == NextElement(t, i)
      both == e.left # NullIndex /\ e.right # NullIndex
      \* With two children the next element moves to i, and its place is freed.
      below == t[next].right
      t1 == IF next = e.right THEN [t EXCEPT ![i].right = below]
            ELSE [t EXCEPT ![t[next].parent].left = below]
      t2 == IF below = NullIndex THEN t1
            ELSE [t1 EXCEPT ![below].parent = IF next = e.right THEN i ELSE t[next].parent]
      t3 == [t2 EXCEPT ![i].value = t[next].value, ![i].priority = t[next].priority]
      \* Otherwise its only child, if any, takes its place.
      child == IF e.right # NullIndex THEN e.right ELSE e.left
      isHead == e.left = NullIndex /\ i = pov.head
  IN
  IF both
  THEN [tree |-> t3, root |-> pov.root, head |-> pov.head, free |-> next, next |-> i,
        tail |-> IF next = pov.tail THEN PreviousElement(t, next) ELSE pov.tail]
  ELSE [tree |-> Reparent(t, i, child),
        root |-> IF e.parent = NullIndex THEN child ELSE pov.root,
        head |-> IF isHead THEN next ELSE pov.head,
        tail |-> IF e.right = NullIndex /\ ~isHead /\ i = pov.tail
                 THEN PreviousElement(t, i) ELSE pov.tail,
        free |-> i, next |-> next]

\* The element at index src moves to index dst.
MovedTree(t, src, dst) ==
  LET e  == t[src]
      t1 == [t EXCEPT ![dst] = e]
      t2 == IF e.left = NullIndex THEN t1 ELSE [t1 EXCEPT ![e.left].parent = dst]
      t3 == IF e.right = NullIndex THEN t2 ELSE [t2 EXCEPT ![e.right].parent = dst]
  IN IF e.parent = NullIndex THEN t3
     ELSE IF t3[e.parent].left = src THEN [t3 EXCEPT ![e.parent].left = dst]
     ELSE [t3 EXCEPT ![e.parent].right = dst]

\* Mutant: the tail is not updated.
MovedPovButTail(pov, src, dst) ==
  LET To(i) == IF i = src THEN dst ELSE i IN
  [pov EXCEPT !.root = To(@), !.head = To(@)]

MovedPov(pov, src, dst) ==
  LET To(i) == IF i = src THEN dst ELSE i IN
  [pov EXCEPT !.root = To(@), !.head = To(@), !.tail = To(@)]

\* Remove an element; the last one of the array fills the gap.
RemoveElement(i) ==
  LET slot == nodes[i].slot
      pov  == povTable[slot]
      out  == IF pov.population > 1 THEN TakenOut(nodes, pov, i)
              ELSE [tree |-> nodes, root |-> pov.root, head |-> pov.head, tail |-> pov.tail,
                    free |-> i, next |-> NullIndex]
      \* What a marked slot still holds is never read: the model clears it.
      table == [povTable EXCEPT ![slot] =
                  IF pov.population = 1 THEN EmptyPov
                  ELSE [@ EXCEPT !.population = @ - 1, !.root = out.root,
                                 !.head = out.head, !.tail = out.tail]]
      last == nodeCount - 1
      moves == last # 0 /\ out.free # last
      owner == out.tree[last].slot
  IN
  /\ i < nodeCount
  /\ nodeCount' = last
  /\ nodes' = [(IF moves THEN MovedTree(out.tree, last, out.free) ELSE out.tree)
                 EXCEPT ![last] = EmptyNode]
  /\ povTable' = IF moves THEN [table EXCEPT ![owner] = MovedPov(@, last, out.free)] ELSE table
  /\ returned' = IF moves /\ out.next = last THEN out.free ELSE out.next
  /\ IF pov.population > 1
     THEN UNCHANGED <<povFlags, removalMarks>>
     ELSE /\ removalMarks < MaxMarks
          /\ povFlags' = [povFlags EXCEPT ![slot] = 2]
          /\ removalMarks' = removalMarks + 1

Replace(i, v) ==
  /\ i < nodeCount
  /\ nodes' = [nodes EXCEPT ![i].value = v]
  /\ UNCHANGED <<povTable, povFlags, nodeCount, removalMarks, returned>>

\* The new slot of each occupied slot when the povs are inserted, in the order of their
\* slots, into an empty table.
NewSlots ==
  LET first(k, n) == Probe(povTable[k].pov, n)
      place[k \in 0 .. Capacity] ==
        IF k = 0 THEN << >>
        ELSE IF povFlags[k - 1] # 1 THEN place[k - 1]
        ELSE LET taken == {place[k - 1][j][2] : j \in 1 .. Len(place[k - 1])}
                 n == CHOOSE n \in 0 .. Capacity - 1 :
                        /\ first(k - 1, n) \notin taken
                        /\ \A j \in 0 .. n - 1 : first(k - 1, j) \in taken
             IN Append(place[k - 1], <<k - 1, first(k - 1, n)>>)
  IN place[Capacity]

\* cleanup: drop the marks by building the table anew.
Cleanup ==
  LET moves == NewSlots
      slots == {moves[j][2] : j \in 1 .. Len(moves)}
      from(s) == moves[CHOOSE j \in 1 .. Len(moves) : moves[j][2] = s][1]
      to(s)   == moves[CHOOSE j \in 1 .. Len(moves) : moves[j][1] = s][2]
  IN
  /\ removalMarks # 0
  /\ removalMarks' = 0
  /\ povTable' = [s \in Slot |-> IF s \in slots THEN povTable[from(s)] ELSE EmptyPov]
  /\ povFlags' = [s \in Slot |-> IF s \in slots THEN 1 ELSE 0]
  /\ nodes' = [i \in Slot |-> IF i < nodeCount
                              THEN [nodes[i] EXCEPT !.slot = to(@)] ELSE nodes[i]]
  /\ UNCHANGED <<nodeCount, returned>>

CollectionNext ==
  \/ \E p \in Pov, v \in Value, q \in Priority : Add(p, v, q)
  \/ \E i \in Slot : RemoveElement(i) \/ \E v \in Value : Replace(i, v)
  \/ Cleanup

CollectionSpec == CollectionInit /\ [][CollectionNext]_collectionVars

(***************************************************************************)
(* Reading by priority                                                     *)
(***************************************************************************)

\* The first element of priority at most q, found by walking on or back from where a
\* search for q ends.
HeadIndexAt(slot, q) ==
  LET pov == povTable[slot]
      Low(i) == i = NullIndex \/ nodes[i].priority <= q
      forward[i \in Link] == IF Low(i) THEN i ELSE forward[NextElement(nodes, i)]
      back[i \in Slot] ==
        LET before == PreviousElement(nodes, i) IN
        IF before = NullIndex \/ ~Low(before) THEN i ELSE back[before]
      start == SearchElement(nodes, pov.root, q)
  IN IF nodes[pov.head].priority <= q THEN pov.head
     ELSE IF nodes[pov.tail].priority > q THEN NullIndex
     ELSE IF Low(start) THEN back[start] ELSE forward[start]

\* The last element of priority at least q.
TailIndexAt(slot, q) ==
  LET pov == povTable[slot]
      High(i) == i = NullIndex \/ nodes[i].priority >= q
      forward[i \in Slot] ==
        LET after == NextElement(nodes, i) IN
        IF after = NullIndex \/ ~High(after) THEN i ELSE forward[after]
      back[i \in Link] == IF High(i) THEN i ELSE back[PreviousElement(nodes, i)]
      start == SearchElement(nodes, pov.root, q)
  IN IF nodes[pov.head].priority < q THEN NullIndex
     ELSE IF nodes[pov.tail].priority >= q THEN pov.tail
     ELSE IF High(start) THEN forward[start] ELSE back[start]

(***************************************************************************)
(* Properties                                                              *)
(***************************************************************************)

CollectionTypeOK ==
  /\ nodes \in [Slot -> [value : Value \cup {NoValue}, priority : Priority \cup {0}, slot : Slot,
                         parent : Link, left : Link, right : Link]]
  /\ povTable \in [Slot -> [pov : Pov \cup {NoValue}, population : 0 .. Capacity,
                            head : Link, tail : Link, root : Link]]
  /\ povFlags \in [Slot -> 0 .. 2]
  /\ nodeCount \in 0 .. Capacity /\ removalMarks \in Nat /\ returned \in Link

QueueIndices(p) ==
  LET slot == SlotOf(p) IN
  IF slot = NullIndex THEN << >> ELSE InOrder(nodes, povTable[slot].root)

QueueOf(p) ==
  LET slot == SlotOf(p)
      walk[j \in Link] ==
        IF j = NullIndex THEN << >>
        ELSE walk[nodes[j].left]
               \o <<[value |-> nodes[j].value, priority |-> nodes[j].priority]>>
               \o walk[nodes[j].right]
  IN IF slot = NullIndex THEN << >> ELSE walk[povTable[slot].root]

CursorOf ==
  IF returned = NullIndex THEN << >>
  ELSE LET p == povTable[nodes[returned].slot].pov
           s == QueueIndices(p)
       IN <<p, CHOOSE k \in 1 .. Len(s) : s[k] = returned>>

Queues == INSTANCE PriorityQueues WITH
  MaxElements <- Capacity,
  queues <- [p \in Pov |-> QueueOf(p)],
  cursor <- CursorOf

\* The trees, the gapless array and the hash table with its marks keep, for every pov, the
\* priority queue a contract sees: each add and remove (the move of the last element, the
\* balancing and the cleanup included) has its effect on one queue alone, and returns the
\* index of the new element or of the one that follows.
ImplementsQueues ==
  Queues!QueuesInit /\ [][UNCHANGED collectionVars \/ Queues!QueuesNext]_<<[p \in Pov |-> QueueOf(p)], CursorOf>>

\* headIndex and tailIndex find the ends of every queue and of its part that is limited
\* by a priority, wherever the search in the tree ends.
EndsFound ==
  \A p \in Pov : SlotOf(p) # NullIndex =>
    LET s == QueueIndices(p)
        pov == povTable[SlotOf(p)]
        Pr(k) == nodes[s[k]].priority
        low(q)  == {k \in 1 .. Len(s) : Pr(k) <= q}
        high(q) == {k \in 1 .. Len(s) : Pr(k) >= q}
    IN /\ pov.head = s[1] /\ pov.tail = s[Len(s)] /\ pov.population = Len(s)
       /\ \A q \in Priority :
            /\ HeadIndexAt(SlotOf(p), q) =
                 IF low(q) = {} THEN NullIndex ELSE s[CHOOSE k \in low(q) : \A j \in low(q) : k <= j]
            /\ TailIndexAt(SlotOf(p), q) =
                 IF high(q) = {} THEN NullIndex ELSE s[CHOOSE k \in high(q) : \A j \in high(q) : j <= k]
===============================================================================
