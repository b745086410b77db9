------------------------- MODULE InstallOrderProofs -------------------------
(***************************************************************************)
(* The order of installation is right for every resolved graph: proofs     *)
(* about InstallOrder.                                                     *)
(***************************************************************************)
EXTENDS InstallOrder, SequenceTheorems, TLAPS

OnStack(p) == \E i \in DOMAIN stack : stack[i].pkg = p
InList(p) == \E i \in DOMAIN list : list[i] = p

(* A package has been seen when it is being visited, is listed, or is the  *)
(* project.  It is in one place and there once.                            *)
SeenPartition ==
  /\ \A p \in seen : OnStack(p) \/ InList(p) \/ p = graph.root
  /\ \A p \in Names : OnStack(p) \/ InList(p) => p \in seen
  /\ \A p \in Names : ~(OnStack(p) /\ InList(p))
  /\ \A i, j \in DOMAIN stack : stack[i].pkg = stack[j].pkg => i = j
  /\ \A i, j \in DOMAIN list : list[i] = list[j] => i = j

(* The stack is a path: what is deeper is needed by what is above.         *)
StackIsPath ==
  \A i, j \in DOMAIN stack : i <= j => Needs(stack[i].pkg, stack[j].pkg)

(* The dependencies a visit has passed are seen.                           *)
PassedAreSeen ==
  \A i \in DOMAIN stack : \A m \in DOMAIN graph.deps[stack[i].pkg] :
    /\ m < stack[i].next
    /\ graph.deps[stack[i].pkg][m] \in graph.closed
    => graph.deps[stack[i].pkg][m] \in seen

ClosedCovered == graph.closed \subseteq todo \cup seen

OrderInv == /\ TypeOK
            /\ SeenPartition
            /\ StackIsPath
            /\ PassedAreSeen
            /\ ClosedCovered
            /\ OnlyCyclesOutOfOrder

-----------------------------------------------------------------------------
(* Facts about the graph and the stack.                                    *)

LEMMA NeedsSelf == ASSUME NEW p PROVE Needs(p, p)
  BY DEF Needs

LEMMA NeedsStep ==
  ASSUME NEW p, NEW q \in graph.closed, NEW d \in DepsOf(q), Needs(p, q)
  PROVE  Needs(p, d)
  BY DEF Needs

LEMMA StackTop ==
  ASSUME TypeOK, stack # <<>>
  PROVE  /\ Len(stack) \in DOMAIN stack /\ Len(stack) \in Nat
         /\ DOMAIN stack = 1..Len(stack)
         /\ Top \in Visit /\ Top.pkg \in graph.closed /\ Top.pkg \in Names
         /\ graph.deps[Top.pkg] \in Seq(Names)
         /\ Popped \in Seq(Visit)
         /\ DOMAIN Popped = 1..(Len(stack) - 1)
         /\ \A i \in DOMAIN Popped : Popped[i] = stack[i]
<1>1. /\ stack \in Seq(Visit) /\ Len(stack) \in Nat /\ Len(stack) # 0
      /\ DOMAIN stack = 1..Len(stack)
  BY LenProperties, EmptySeq DEF TypeOK
<1>2. Len(stack) \in DOMAIN stack
  BY <1>1
<1>3. Top \in Visit /\ Top.pkg \in graph.closed
  BY <1>1, <1>2, ElementOfSeq DEF Top, TypeOK
<1>4. Top.pkg \in Names /\ graph.deps[Top.pkg] \in Seq(Names)
  BY <1>3 DEF TypeOK, SortableGraph
<1>5. /\ Popped \in Seq(Visit)
      /\ Len(Popped) = IF 1 <= Len(stack) - 1 THEN Len(stack) - 1 - 1 + 1 ELSE 0
      /\ \A i \in 1..(Len(stack) - 1 - 1 + 1) : Popped[i] = stack[1 + i - 1]
  <2>1. \A i \in 1..(Len(stack) - 1) : stack[i] \in Visit
    BY <1>1, ElementOfSeq
  <2>2. 1 \in Int /\ Len(stack) - 1 \in Int
    BY <1>1
  <2>3. QED
    BY <2>1, <2>2, SubSeqProperties DEF Popped
<1>6. Len(Popped) = Len(stack) - 1
  <2>1. ASSUME NEW n \in Nat, n # 0
        PROVE  (IF 1 <= n - 1 THEN n - 1 - 1 + 1 ELSE 0) = n - 1
    BY <2>1
  <2>2. QED
    BY ONLY <1>1, <1>5, <2>1
<1>7. DOMAIN Popped = 1..(Len(stack) - 1)
  BY <1>5, <1>6, LenProperties
<1>8. \A i \in DOMAIN Popped : Popped[i] = stack[i]
  <2>1. SUFFICES ASSUME NEW i \in DOMAIN Popped PROVE Popped[i] = stack[i]
    OBVIOUS
  <2>2. i \in 1..(Len(stack) - 1 - 1 + 1) /\ 1 + i - 1 = i
    BY ONLY <1>1, <1>7, <2>1
  <2>3. QED
    BY ONLY <1>5, <2>2
<1>9. QED
  BY <1>1, <1>2, <1>3, <1>4, <1>5, <1>7, <1>8

(* The top of the stack moves on to its next dependency.                   *)
LEMMA AdvancedStack ==
  ASSUME TypeOK, stack # <<>>
  PROVE  /\ Advanced \in Seq(Visit)
         /\ DOMAIN Advanced = DOMAIN stack
         /\ \A i \in DOMAIN stack : Advanced[i].pkg = stack[i].pkg
         /\ \A i \in DOMAIN stack :
              Advanced[i].next = IF i = Len(stack) THEN Top.next + 1 ELSE stack[i].next
<1> DEFINE n == Len(stack)
           v == [stack[n] EXCEPT !.next = @ + 1]
<1>1. n \in DOMAIN stack /\ stack[n] \in Visit /\ stack \in Seq(Visit)
      /\ DOMAIN stack = 1..n
  BY StackTop DEF Top, TypeOK
<1>2. v \in Visit /\ v.pkg = stack[n].pkg /\ v.next = stack[n].next + 1
  BY <1>1 DEF Visit
<1>3. Advanced = [stack EXCEPT ![n] = v]
  BY DEF Advanced
<1> HIDE DEF v
<1>4. Advanced \in Seq(Visit)
  BY <1>1, <1>2, <1>3, ExceptSeq
<1>5. QED
  BY <1>1, <1>2, <1>3, <1>4 DEF Top

-----------------------------------------------------------------------------
(* Type correctness.                                                       *)

LEMMA CallType ==
  ASSUME TypeOK, NEW p \in graph.closed, NEW s \in Seq(Visit),
         \A i \in DOMAIN s : s[i].pkg \in graph.closed, Call(p, s)
  PROVE  /\ seen' \subseteq graph.closed
         /\ stack' \in Seq(Visit)
         /\ \A i \in DOMAIN stack' : stack'[i].pkg \in graph.closed
<1> DEFINE v == [pkg |-> p, next |-> 1]
<1>1. v \in Visit /\ v.pkg = p
  BY DEF Visit, TypeOK, SortableGraph
<1>2. CASE p \in seen
  BY <1>2 DEF Call, TypeOK
<1>3. CASE p \notin seen
  <2>1. seen' = seen \cup {p} /\ stack' = Append(s, v)
    BY <1>3 DEF Call
  <2>2. /\ stack' \in Seq(Visit) /\ DOMAIN s = 1..Len(s) /\ Len(s) \in Nat
        /\ DOMAIN stack' = 1..(Len(s) + 1)
    BY <1>1, <2>1, AppendProperties, LenProperties
  <2> HIDE DEF v
  <2>3. \A i \in DOMAIN stack' : stack'[i] = v \/ (i \in DOMAIN s /\ stack'[i] = s[i])
    BY <1>1, <2>1, <2>2, AppendProperties
  <2>4. QED
    BY <1>1, <2>1, <2>2, <2>3 DEF TypeOK
<1>4. QED
  BY <1>2, <1>3

LEMMA InitOrderType == Init => TypeOK
  BY GraphsAssumption, EmptySeq DEF Init, TypeOK

LEMMA NextOrderType == TypeOK /\ [Next]_vars => TypeOK'
<1> SUFFICES ASSUME TypeOK, [Next]_vars PROVE TypeOK'
  OBVIOUS
<1>1. CASE NextOfClosedSet
  <2>1. PICK p \in todo : todo' = todo \ {p} /\ Call(p, stack)
    BY <1>1 DEF NextOfClosedSet
  <2>2. QED
    BY <1>1, <2>1, CallType DEF NextOfClosedSet, TypeOK
<1>2. CASE NextDependency
  <2> DEFINE d == graph.deps[Top.pkg][Top.next]
  <2>1. Advanced \in Seq(Visit) /\ \A i \in DOMAIN Advanced : Advanced[i].pkg \in graph.closed
    BY <1>2, AdvancedStack DEF NextDependency, TypeOK
  <2>2. CASE d \in graph.closed
    BY <1>2, <2>1, <2>2, CallType DEF NextDependency, TypeOK
  <2>3. CASE d \notin graph.closed
    BY <1>2, <2>1, <2>3 DEF NextDependency, TypeOK
  <2>4. QED
    BY <2>2, <2>3
<1>3. CASE FinishVisit
  <2>1. Top.pkg \in graph.closed /\ Popped \in Seq(Visit)
        /\ \A i \in DOMAIN Popped : Popped[i].pkg \in graph.closed
    BY <1>3, StackTop DEF FinishVisit, TypeOK
  <2>2. list' \in Seq(graph.closed \ {graph.root})
    <3>1. CASE Top.pkg = graph.root
      BY <1>3, <3>1 DEF FinishVisit, Listed, TypeOK
    <3>2. CASE Top.pkg # graph.root
      BY <1>3, <2>1, <3>2, AppendProperties DEF FinishVisit, Listed, TypeOK
    <3>3. QED
      BY <3>1, <3>2
  <2>3. QED
    BY <1>3, <2>1, <2>2 DEF FinishVisit, TypeOK
<1>4. CASE UNCHANGED vars
  BY <1>4 DEF vars, TypeOK
<1>5. QED
  BY <1>1, <1>2, <1>3, <1>4 DEF Next

(* Type correctness: only chosen packages are visited, and the list never  *)
(* holds the project.                                                      *)
THEOREM InstallOrderTyped == Spec => []TypeOK
  BY InitOrderType, NextOrderType, PTL DEF Spec

-----------------------------------------------------------------------------
(* The order.                                                              *)

LEMMA ListKept ==
  ASSUME OrderInv, graph' = graph, list' = list
  PROVE  OnlyCyclesOutOfOrder'
  BY DEF OrderInv, OnlyCyclesOutOfOrder, DepsOf, Needs

(* A call of the visit for p, over visits s of the packages on the stack.  *)
LEMMA CallKeeps ==
  ASSUME OrderInv, NEW p \in graph.closed, NEW s \in Seq(Visit),
         DOMAIN s = DOMAIN stack,
         \A i \in DOMAIN s : s[i].pkg = stack[i].pkg,
         \A i \in DOMAIN s : Needs(s[i].pkg, p),
         \A i \in DOMAIN s : \A m \in DOMAIN graph.deps[s[i].pkg] :
            /\ m < s[i].next
            /\ graph.deps[s[i].pkg][m] \in graph.closed
            => graph.deps[s[i].pkg][m] \in seen \cup {p},
         Call(p, s), graph' = graph, list' = list
  PROVE  /\ SeenPartition' /\ StackIsPath' /\ PassedAreSeen'
         /\ seen' = seen \cup {p}
<1>1. TypeOK /\ p \in Names
  BY DEF OrderInv, TypeOK, SortableGraph
<1>2. seen' = seen \cup {p}
  BY DEF Call
<1>3. CASE p \in seen
  <2>1. stack' = s /\ seen' = seen
    BY <1>3 DEF Call
  <2>2. SeenPartition'
    BY <2>1 DEF OrderInv, SeenPartition, OnStack, InList
  <2>3. StackIsPath'
    BY <2>1 DEF OrderInv, StackIsPath, Needs, DepsOf
  <2>4. PassedAreSeen'
    BY <2>1, <1>3 DEF PassedAreSeen
  <2>5. QED
    BY <1>2, <2>2, <2>3, <2>4
<1>4. CASE p \notin seen
  <2> DEFINE v == [pkg |-> p, next |-> 1]
             n == Len(s) + 1
  <2>1. v \in Visit /\ v.pkg = p /\ v.next = 1
    BY <1>1 DEF Visit
  <2>2. stack' = Append(s, v)
    BY <1>4 DEF Call
  <2> HIDE DEF v
  <2>3. /\ DOMAIN s = 1..Len(s) /\ Len(s) \in Nat
        /\ DOMAIN stack' = 1..n
        /\ stack'[n] = v
        /\ \A i \in DOMAIN s : stack'[i] = s[i]
    BY <2>1, <2>2, AppendProperties, LenProperties
  <2>4. n \notin DOMAIN s /\ DOMAIN stack' = DOMAIN s \cup {n} /\ n \in Nat
    BY <2>3
  <2>5. ~InList(p) /\ ~OnStack(p)
    BY <1>1, <1>4 DEF OrderInv, SeenPartition
  <2>6. \A q : OnStack(q)' <=> OnStack(q) \/ q = p
    BY <2>1, <2>3, <2>4 DEF OnStack
  <2>7. \A q : InList(q)' <=> InList(q)
    BY DEF InList
  <2>8. \A i, j \in DOMAIN stack' : stack'[i].pkg = stack'[j].pkg => i = j
    <3>1. \A i \in DOMAIN s : stack'[i].pkg = stack[i].pkg /\ stack'[i].pkg # p
      BY <2>3, <2>5 DEF OnStack
    <3>2. stack'[n].pkg = p
      BY <2>1, <2>3
    <3>3. QED
      BY <2>4, <3>1, <3>2 DEF OrderInv, SeenPartition
  <2>9. SeenPartition'
    <3>1. \A q \in seen' : OnStack(q)' \/ InList(q)' \/ q = graph.root
      BY <1>2, <2>6, <2>7 DEF OrderInv, SeenPartition
    <3>2. \A q \in Names : OnStack(q)' \/ InList(q)' => q \in seen'
      BY <1>2, <2>6, <2>7 DEF OrderInv, SeenPartition
    <3>3. \A q \in Names : ~(OnStack(q)' /\ InList(q)')
      BY <2>5, <2>6, <2>7 DEF OrderInv, SeenPartition
    <3>4. QED
      BY <2>8, <3>1, <3>2, <3>3 DEF OrderInv, SeenPartition
  <2>10. StackIsPath'
    <3>1. SUFFICES ASSUME NEW i \in DOMAIN stack', NEW j \in DOMAIN stack', i <= j
                   PROVE  Needs(stack'[i].pkg, stack'[j].pkg)
      BY DEF StackIsPath, Needs, DepsOf
    <3>2. CASE i \in DOMAIN s /\ j \in DOMAIN s
      BY <2>3, <3>1, <3>2 DEF OrderInv, StackIsPath
    <3>3. CASE i \in DOMAIN s /\ j = n
      BY <2>1, <2>3, <3>3
    <3>4. CASE i = n /\ j = n
      BY <3>4, NeedsSelf
    <3>5. CASE i = n /\ j \in DOMAIN s
      BY <2>3, <3>1, <3>5
    <3>6. QED
      BY <2>4, <3>2, <3>3, <3>4, <3>5
  <2>11. PassedAreSeen'
    <3>1. SUFFICES ASSUME NEW i \in DOMAIN stack',
                          NEW m \in DOMAIN graph.deps[stack'[i].pkg],
                          m < stack'[i].next,
                          graph.deps[stack'[i].pkg][m] \in graph.closed
                   PROVE  graph.deps[stack'[i].pkg][m] \in seen'
      BY DEF PassedAreSeen
    <3>2. CASE i \in DOMAIN s
      BY <1>2, <2>3, <3>1, <3>2
    <3>3. CASE i = n
      <4>1. stack'[i].pkg = p /\ stack'[i].next = 1
        BY <2>1, <2>3, <3>3
      <4>2. graph.deps[p] \in Seq(Names)
        BY <1>1 DEF TypeOK, SortableGraph
      <4>3. m \in 1..Len(graph.deps[p]) /\ Len(graph.deps[p]) \in Nat
        BY <3>1, <4>1, <4>2, LenProperties
      <4>4. QED
        BY <3>1, <4>1, <4>3
    <3>4. QED
      BY <2>4, <3>2, <3>3
  <2>12. QED
    BY <1>2, <2>9, <2>10, <2>11
<1>5. QED
  BY <1>3, <1>4

(* The end of the visit of p: its dependencies are listed, or they are     *)
(* being visited below it and so need it.                                  *)
LEMMA FinishKeeps ==
  ASSUME OrderInv, FinishVisit
  PROVE  SeenPartition' /\ StackIsPath' /\ PassedAreSeen' /\ OnlyCyclesOutOfOrder'
<1> DEFINE p == Top.pkg
           n == Len(stack)
<1>1. /\ stack # <<>> /\ stack' = Popped /\ list' = Listed(p)
      /\ UNCHANGED <<graph, seen>>
      /\ Top.next > Len(graph.deps[p])
  BY DEF FinishVisit
<1>2. /\ n \in DOMAIN stack /\ n \in Nat /\ DOMAIN stack = 1..n
      /\ Top \in Visit /\ p \in graph.closed /\ p \in Names
      /\ graph.deps[p] \in Seq(Names)
      /\ DOMAIN stack' = 1..(n - 1)
      /\ \A i \in DOMAIN stack' : stack'[i] = stack[i]
  BY <1>1, StackTop DEF OrderInv
<1>3. stack[n].pkg = p /\ OnStack(p) /\ ~InList(p) /\ p \in seen
  BY <1>2 DEF Top, OnStack, OrderInv, SeenPartition
<1> HIDE DEF n
<1>4. \A q : OnStack(q)' <=> OnStack(q) /\ q # p
  <2>1. ASSUME NEW q, OnStack(q), q # p PROVE OnStack(q)'
    <3>1. PICK i \in DOMAIN stack : stack[i].pkg = q
      BY <2>1 DEF OnStack
    <3>2. i # n
      BY <1>3, <2>1, <3>1
    <3>3. i \in DOMAIN stack'
      BY <1>2, <3>2
    <3>4. QED
      BY <1>2, <3>1, <3>3 DEF OnStack
  <2>2. ASSUME NEW q, OnStack(q)' PROVE OnStack(q) /\ q # p
    <3>1. PICK i \in DOMAIN stack' : stack'[i].pkg = q
      BY <2>2 DEF OnStack
    <3>2. i \in DOMAIN stack /\ stack[i].pkg = q /\ i # n
      BY <1>2, <3>1
    <3>3. QED
      BY <1>2, <1>3, <3>2 DEF OnStack, OrderInv, SeenPartition
  <2>3. QED
    BY <2>1, <2>2
<1>5. /\ list \in Seq(Names) /\ Len(list) \in Nat /\ DOMAIN list = 1..Len(list)
      /\ \A i \in DOMAIN list : list'[i] = list[i]
      /\ p = graph.root => list' = list
      /\ p # graph.root => /\ DOMAIN list' = DOMAIN list \cup {Len(list) + 1}
                           /\ list'[Len(list) + 1] = p
  <2>1. list \in Seq(Names)
    <3>1. graph.closed \ {graph.root} \subseteq Names
      BY DEF OrderInv, TypeOK, SortableGraph
    <3>2. list \in Seq(graph.closed \ {graph.root})
      BY DEF OrderInv, TypeOK
    <3>3. QED
      BY <3>1, <3>2
  <2>2. Len(list) \in Nat /\ DOMAIN list = 1..Len(list)
    BY <2>1, LenProperties
  <2>3. CASE p = graph.root
    BY <1>1, <2>1, <2>2, <2>3 DEF Listed
  <2>4. CASE p # graph.root
    <3>1. list' = Append(list, p)
      BY <1>1, <2>4 DEF Listed
    <3> HIDE DEF p
    <3>2. DOMAIN list' = 1..(Len(list) + 1)
      BY <1>2, <2>1, <3>1, AppendProperties, LenProperties
    <3>3. \A i \in DOMAIN list : list'[i] = list[i]
      BY <1>2, <2>1, <2>2, <3>1, AppendProperties
    <3>4. list'[Len(list) + 1] = p
      BY <1>2, <2>1, <3>1, AppendProperties
    <3>5. DOMAIN list' = DOMAIN list \cup {Len(list) + 1}
      BY <2>2, <3>1, <3>2
    <3>6. QED
      BY <2>1, <2>2, <2>4, <3>3, <3>4, <3>5
  <2>5. QED
    BY <2>3, <2>4
<1>6. \A q : InList(q)' <=> InList(q) \/ (q = p /\ p # graph.root)
  <2> HIDE DEF p
  <2>1. CASE p = graph.root
    BY <1>5, <2>1 DEF InList
  <2>2. CASE p # graph.root
    BY <1>5, <2>2 DEF InList
  <2>3. QED
    BY <2>1, <2>2
<1>7. SeenPartition'
  <2> HIDE DEF p
  <2>1. \A q \in seen' : OnStack(q)' \/ InList(q)' \/ q = graph'.root
    BY <1>1, <1>4, <1>6 DEF OrderInv, SeenPartition
  <2>2. \A q \in Names : OnStack(q)' \/ InList(q)' => q \in seen'
    BY <1>1, <1>3, <1>4, <1>6 DEF OrderInv, SeenPartition
  <2>3. \A q \in Names : ~(OnStack(q)' /\ InList(q)')
    BY <1>4, <1>6 DEF OrderInv, SeenPartition
  <2>4. \A i, j \in DOMAIN stack' : stack'[i].pkg = stack'[j].pkg => i = j
    BY <1>2 DEF OrderInv, SeenPartition
  <2>5. \A i, j \in DOMAIN list' : list'[i] = list'[j] => i = j
    <3>1. CASE p = graph.root
      BY <1>5, <3>1 DEF OrderInv, SeenPartition
    <3>2. CASE p # graph.root
      BY <1>3, <1>5, <3>2 DEF OrderInv, SeenPartition, InList
    <3>3. QED
      BY <3>1, <3>2
  <2>6. QED
    BY <2>1, <2>2, <2>3, <2>4, <2>5 DEF SeenPartition
<1>8. StackIsPath' /\ PassedAreSeen'
  <2>1. StackIsPath'
    BY <1>1, <1>2 DEF OrderInv, StackIsPath, Needs, DepsOf
  <2>2. PassedAreSeen'
    BY <1>1, <1>2 DEF OrderInv, PassedAreSeen
  <2>3. QED
    BY <2>1, <2>2
<1>9. \A d \in DepsOf(p) \ {graph.root} : InList(d) \/ Needs(d, p)
  <2>1. SUFFICES ASSUME NEW d \in DepsOf(p) \ {graph.root} PROVE InList(d) \/ Needs(d, p)
    OBVIOUS
  <2>2. PICK m \in DOMAIN graph.deps[p] : graph.deps[p][m] = d
    BY <2>1 DEF DepsOf
  <2>3. m < Top.next
    <3>1. m \in 1..Len(graph.deps[p]) /\ Len(graph.deps[p]) \in Nat
      BY <1>2, <2>2, LenProperties
    <3>2. Top.next \in Nat
      BY <1>2 DEF Visit
    <3>3. QED
      BY <1>1, <3>1, <3>2
  <2>4. d \in seen
    BY <1>2, <2>1, <2>2, <2>3 DEF OrderInv, PassedAreSeen, Top, DepsOf, n
  <2>5. CASE InList(d)
    BY <2>5
  <2>6. CASE OnStack(d)
    <3>1. PICK i \in DOMAIN stack : stack[i].pkg = d
      BY <2>6 DEF OnStack
    <3>2. i <= n
      BY <1>2, <3>1
    <3>3. QED
      BY <1>2, <1>3, <3>1, <3>2 DEF OrderInv, StackIsPath
  <2>7. QED
    BY <2>1, <2>4, <2>5, <2>6 DEF OrderInv, SeenPartition
<1>10. OnlyCyclesOutOfOrder'
  <2> HIDE DEF p
  <2>1. \A q, d : Needs(q, d)' <=> Needs(q, d)
    BY <1>1 DEF Needs, DepsOf
  <2>2. SUFFICES ASSUME NEW i \in DOMAIN list', NEW d \in DepsOf(list'[i]) \ {graph.root}
                 PROVE  (\E j \in 1..(i - 1) : list'[j] = d) \/ Needs(d, list'[i])
    BY <1>1, <2>1 DEF OnlyCyclesOutOfOrder, DepsOf
  <2>3. CASE i \in DOMAIN list
    <3>1. list'[i] = list[i]
      BY <1>5, <2>3
    <3>2. (\E j \in 1..(i - 1) : list[j] = d) \/ Needs(d, list[i])
      BY <2>2, <2>3, <3>1 DEF OrderInv, OnlyCyclesOutOfOrder
    <3>3. \A j \in 1..(i - 1) : list'[j] = list[j]
      BY <1>5, <2>3
    <3>4. QED
      BY <3>1, <3>2, <3>3
  <2>4. CASE i \notin DOMAIN list
    <3>1. p # graph.root /\ i = Len(list) + 1 /\ list'[i] = p
      BY <1>5, <2>2, <2>4
    <3>2. InList(d) \/ Needs(d, p)
      BY <1>9, <2>2, <3>1
    <3>3. CASE InList(d)
      <4>1. PICK j \in DOMAIN list : list[j] = d
        BY <3>3 DEF InList
      <4>2. j \in 1..(i - 1) /\ list'[j] = d
        BY <1>5, <3>1, <4>1
      <4>3. QED
        BY <4>2
    <3>4. QED
      BY <3>1, <3>2, <3>3
  <2>5. QED
    BY <2>3, <2>4
<1>11. QED
  BY <1>7, <1>8, <1>10

LEMMA InitOrder == Init => OrderInv
<1> SUFFICES ASSUME Init PROVE OrderInv
  OBVIOUS
<1>1. TypeOK
  BY InitOrderType
<1>2. DOMAIN stack = {} /\ DOMAIN list = {} /\ seen = {} /\ todo = graph.closed
  BY DEF Init
<1>3. QED
  BY <1>1, <1>2 DEF OrderInv, SeenPartition, StackIsPath, PassedAreSeen,
     ClosedCovered, OnlyCyclesOutOfOrder, OnStack, InList

LEMMA NextOrder == OrderInv /\ [Next]_vars => OrderInv'
<1> SUFFICES ASSUME OrderInv, [Next]_vars PROVE OrderInv'
  OBVIOUS
<1>a. TypeOK /\ TypeOK'
  BY NextOrderType DEF OrderInv
<1>1. CASE NextOfClosedSet
  <2>1. PICK p \in todo : todo' = todo \ {p} /\ Call(p, stack)
    BY <1>1 DEF NextOfClosedSet
  <2>2. p \in graph.closed /\ stack = <<>> /\ graph' = graph /\ list' = list
    BY <1>1, <1>a DEF NextOfClosedSet, TypeOK
  <2>3. stack \in Seq(Visit) /\ DOMAIN stack = {}
    BY <1>a, <2>2 DEF TypeOK
  <2>4. SeenPartition' /\ StackIsPath' /\ PassedAreSeen' /\ seen' = seen \cup {p}
    BY <2>1, <2>2, <2>3, CallKeeps
  <2>5. ClosedCovered'
    BY <2>1, <2>2, <2>4 DEF OrderInv, ClosedCovered
  <2>6. QED
    BY <1>a, <2>2, <2>4, <2>5, ListKept DEF OrderInv
<1>2. CASE NextDependency
  <2> DEFINE p == Top.pkg
             d == graph.deps[p][Top.next]
  <2>1. /\ stack # <<>> /\ Top.next <= Len(graph.deps[p])
        /\ UNCHANGED <<graph, todo, list>>
    BY <1>2 DEF NextDependency
  <2>2. /\ Len(stack) \in DOMAIN stack /\ DOMAIN stack = 1..Len(stack)
        /\ Len(stack) \in Nat
        /\ Top \in Visit /\ p \in graph.closed /\ graph.deps[p] \in Seq(Names)
        /\ stack[Len(stack)].pkg = p
    BY <1>a, <2>1, StackTop DEF Top
  <2>3. /\ Advanced \in Seq(Visit) /\ DOMAIN Advanced = DOMAIN stack
        /\ \A i \in DOMAIN stack : Advanced[i].pkg = stack[i].pkg
        /\ \A i \in DOMAIN stack :
             Advanced[i].next = IF i = Len(stack) THEN Top.next + 1 ELSE stack[i].next
    BY <1>a, <2>1, AdvancedStack
  <2>4. Top.next \in DOMAIN graph.deps[p] /\ Top.next \in Nat
    BY <2>1, <2>2, LenProperties DEF Visit
  <2>5. ASSUME NEW i \in DOMAIN stack, NEW m \in DOMAIN graph.deps[stack[i].pkg],
               m < Advanced[i].next, graph.deps[stack[i].pkg][m] \in graph.closed
        PROVE  graph.deps[stack[i].pkg][m] \in seen \cup {d}
    <3>1. CASE m < stack[i].next
      BY <2>5, <3>1 DEF OrderInv, PassedAreSeen
    <3>2. CASE i = Len(stack) /\ ~(m < stack[i].next)
      <4>1. m < Top.next + 1 /\ ~(m < Top.next) /\ stack[i].pkg = p
        BY <2>2, <2>3, <2>5, <3>2 DEF Top
      <4>2. m \in Nat
        BY <2>2, <2>5, <4>1, LenProperties
      <4>3. m = Top.next
        BY <2>4, <4>1, <4>2
      <4>4. QED
        BY <4>1, <4>3
    <3>3. QED
      BY <2>3, <2>5, <3>1, <3>2
  <2>6. CASE d \in graph.closed
    <3>1. d \in DepsOf(p)
      BY <2>4, <2>6 DEF DepsOf
    <3>2. \A i \in DOMAIN stack : Needs(stack[i].pkg, p)
      BY <2>2 DEF OrderInv, StackIsPath
    <3>3. \A i \in DOMAIN stack : Needs(stack[i].pkg, d)
      BY <2>2, <3>1, <3>2, NeedsStep
    <3>4. Call(d, Advanced)
      BY <1>2, <2>6 DEF NextDependency
    <3> HIDE DEF d
    <3>5. SeenPartition' /\ StackIsPath' /\ PassedAreSeen' /\ seen' = seen \cup {d}
      BY <2>1, <2>3, <2>5, <2>6, <3>3, <3>4, CallKeeps
    <3>6. ClosedCovered'
      BY <2>1, <3>5 DEF OrderInv, ClosedCovered
    <3>7. QED
      BY <1>a, <2>1, <3>5, <3>6, ListKept DEF OrderInv
  <2>7. CASE d \notin graph.closed
    <3>1. stack' = Advanced /\ seen' = seen
      BY <1>2, <2>7 DEF NextDependency
    <3> HIDE DEF d
    <3>2. SeenPartition'
      BY <2>1, <2>3, <3>1 DEF OrderInv, SeenPartition, OnStack, InList
    <3>3. StackIsPath'
      BY <2>1, <2>3, <3>1 DEF OrderInv, StackIsPath, Needs, DepsOf
    <3>4. PassedAreSeen'
      BY <2>1, <2>3, <2>5, <2>7, <3>1 DEF PassedAreSeen
    <3>5. ClosedCovered'
      BY <2>1, <3>1 DEF OrderInv, ClosedCovered
    <3>6. QED
      BY <1>a, <2>1, <3>2, <3>3, <3>4, <3>5, ListKept DEF OrderInv
  <2>8. QED
    BY <2>6, <2>7
<1>3. CASE FinishVisit
  <2>1. ClosedCovered'
    BY <1>3 DEF FinishVisit, OrderInv, ClosedCovered
  <2>2. QED
    BY <1>a, <1>3, <2>1, FinishKeeps DEF OrderInv
<1>4. CASE UNCHANGED vars
  <2>1. UNCHANGED <<graph, todo, stack, seen, list>>
    BY <1>4 DEF vars
  <2>2. SeenPartition'
    BY <2>1 DEF OrderInv, SeenPartition, OnStack, InList
  <2>3. StackIsPath'
    BY <2>1 DEF OrderInv, StackIsPath, Needs, DepsOf
  <2>4. PassedAreSeen' /\ ClosedCovered'
    BY <2>1 DEF OrderInv, PassedAreSeen, ClosedCovered
  <2>5. QED
    BY <1>a, <2>1, <2>2, <2>3, <2>4, ListKept DEF OrderInv
<1>5. QED
  BY <1>1, <1>2, <1>3, <1>4 DEF Next

LEMMA OrderInvariant == Spec => []OrderInv
  BY InitOrder, NextOrder, PTL DEF Spec

(* In every resolved graph a package is installed after each package it    *)
(* depends on, except where the two need each other.                       *)
THEOREM DependenciesFirst == Spec => []OnlyCyclesOutOfOrder
<1>1. OrderInv => OnlyCyclesOutOfOrder
  BY DEF OrderInv
<1>2. QED
  BY <1>1, OrderInvariant, PTL

LEMMA OrderListsOnce ==
  ASSUME OrderInv PROVE ListsEachOnce
<1>1. SUFFICES ASSUME Sorted
               PROVE  {list[i] : i \in DOMAIN list} = graph.closed \ {graph.root}
  BY DEF ListsEachOnce, OrderInv, SeenPartition
<1>2. todo = {} /\ DOMAIN stack = {}
  BY <1>1 DEF Sorted
<1>3. graph.closed \ {graph.root} \subseteq {list[i] : i \in DOMAIN list}
  BY <1>1, <1>2 DEF OrderInv, ClosedCovered, SeenPartition, OnStack, InList
<1>4. {list[i] : i \in DOMAIN list} \subseteq graph.closed \ {graph.root}
  BY <1>1, LenProperties, ElementOfSeq DEF OrderInv, TypeOK
<1>5. QED
  BY <1>3, <1>4

(* In every resolved graph each chosen package but the project is listed,  *)
(* and listed once.                                                        *)
THEOREM EachListedOnce == Spec => []ListsEachOnce
  BY OrderListsOnce, OrderInvariant, PTL
=============================================================================
