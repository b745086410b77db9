--------------------------- MODULE ResolverProofs ---------------------------
(***************************************************************************)
(* Theorems about Resolver for every set of names and of worlds, of any    *)
(* size and with any circular dependencies: types; that versions are tried *)
(* from newer to older; that a successful answer meets every               *)
(* dependency, in plain worlds; and in orderly ones that a conflict leaves *)
(* no solution out, a success no newer one, and that reports are genuine.  *)
(***************************************************************************)
EXTENDS ResolverInv, SequenceTheorems, FiniteSetTheorems, TLAPS

-----------------------------------------------------------------------------
(* Types of the pieces the actions are built from.                         *)

LEMMA AllDepsType ==
  ASSUME NEW p \in Package
  PROVE  AllDeps(p) \in Seq(Dependency)
<1>1. p.deps \in Seq(Dependency) /\ p.more \in Seq(Dependency)
  BY DEF Package
<1>2. QED
  BY <1>1, ConcatProperties DEF AllDeps

LEMMA DepType ==
  ASSUME pkg \in Package, k \in Nat, k >= 1, k <= Len(AllDeps(pkg))
  PROVE  Dep \in Dependency /\ Dep.name \in Names /\ Dep.con \in Constraint
<1>1. AllDeps(pkg) \in Seq(Dependency)
  BY AllDepsType
<1>2. k \in 1..Len(AllDeps(pkg))
  BY <1>1, LenProperties
<1>3. Dep \in Dependency
  BY <1>1, <1>2, ElementOfSeq DEF Dep
<1>4. QED
  BY <1>3 DEF Dependency

LEMMA GraphOpsType ==
  ASSUME NEW h \in Graph, NEW p \in Package, NEW d \in Dependency, NEW n \in Names
  PROVE  /\ AddClosed(h, p) \in Graph
         /\ Register(h, d, p) \in Graph
         /\ OpenNew(h, d, p) \in Graph
         /\ AddConstraint(h, d, p) \in Graph
         /\ AddConflict(h, n) \in Graph
         /\ AddUnknown(h, n) \in Graph
         /\ [h EXCEPT !.open = @ \ {n}] \in Graph
<1>1. p.name \in Names /\ d.name \in Names /\ d.con \in Constraint
  BY DEF Package, Dependency
<1>2. AddClosed(h, p) \in Graph
  BY <1>1 DEF AddClosed, Graph
<1>3. Register(h, d, p) \in Graph
  BY <1>1 DEF Register, Graph
<1>4. <<d.con>> \in Seq(Constraint) /\ Append(h.own[d.name], d.con) \in Seq(Constraint)
  BY <1>1, AppendProperties DEF Graph
<1>5. OpenNew(h, d, p) \in Graph
  BY <1>1, <1>3, <1>4 DEF OpenNew, Register, Graph
<1>6. AddConstraint(h, d, p) \in Graph
  BY <1>1, <1>3, <1>4 DEF AddConstraint, Register, Graph
<1>7. AddConflict(h, n) \in Graph /\ AddUnknown(h, n) \in Graph
      /\ [h EXCEPT !.open = @ \ {n}] \in Graph
  BY DEF AddConflict, AddUnknown, Graph
<1>8. QED
  BY <1>2, <1>3, <1>5, <1>6, <1>7

LEMMA TopType ==
  ASSUME stack \in Seq(Frame), stack # <<>>
  PROVE  /\ Len(stack) \in 1..Len(stack)
         /\ Top \in Frame
         /\ Popped \in Seq(Frame)
         /\ Len(Popped) = Len(stack) - 1
         /\ \A i \in 1..Len(Popped) : Popped[i] = stack[i]
<1>1. Len(stack) \in Nat /\ Len(stack) # 0
  BY LenProperties, EmptySeq
<1>2. \A i \in 1..(Len(stack) - 1) : stack[i] \in Frame
  BY <1>1, ElementOfSeq
<1>3. /\ Popped \in Seq(Frame)
      /\ Len(Popped) = IF 1 <= Len(stack) - 1 THEN Len(stack) - 1 - 1 + 1 ELSE 0
      /\ \A i \in 1..(Len(stack) - 1 - 1 + 1) : Popped[i] = stack[1 + i - 1]
  <2>1. 1 \in Int /\ Len(stack) - 1 \in Int
    BY <1>1
  <2>2. QED
    BY <1>2, <2>1, SubSeqProperties DEF Popped
<1>4. Len(stack) \in 1..Len(stack) /\ Top \in Frame
  BY <1>1, ElementOfSeq DEF Top
<1>5. Len(Popped) = Len(stack) - 1
  <2>1. ASSUME NEW n \in Nat, n # 0
        PROVE  (IF 1 <= n - 1 THEN n - 1 - 1 + 1 ELSE 0) = n - 1
    BY <2>1
  <2>2. QED
    BY ONLY <1>1, <1>3, <2>1
<1>6. \A i \in 1..Len(Popped) : Popped[i] = stack[i]
  BY <1>1, <1>3, <1>5
<1>7. QED
  BY <1>3, <1>4, <1>5, <1>6

-----------------------------------------------------------------------------
(* Type correctness.                                                       *)

LEMMA InitType == Init => TypeOK
<1> SUFFICES ASSUME Init PROVE TypeOK
  OBVIOUS
<1>1. world \in World /\ world.root \in Package
  BY WorldsAssumption DEF Init, World
<1>2. EmptyGraph \in Graph
  BY DEF EmptyGraph, Graph
<1>3. AddClosed(EmptyGraph, world.root) \in Graph
  <2>1. world.root.name \in Names
    BY <1>1 DEF Package
  <2>2. QED
    BY <1>1, <1>2, <2>1 DEF AddClosed, Graph
<1>4. QED
  BY <1>1, <1>3, EmptySeq, NoneAssumption DEF Init, TypeOK, Answer

LEMMA EligibleType ==
  ASSUME world \in World, NEW f \in Frame
  PROVE  Eligible(f) \subseteq Package
<1>1. f.name \in Names
  BY DEF Frame
<1>2. world.repo[f.name] \subseteq Package
  BY <1>1 DEF World
<1>3. QED
  BY <1>2 DEF Eligible

LEMMA PushType ==
  ASSUME TypeOK, ResolvePop
  PROVE  \E f \in Frame : stack' = Append(stack, f)
<1>1. PICK n \in LastOpen(g) :
        stack' = Append(stack, [graph |-> [g EXCEPT !.open = @ \ {n}],
                                name |-> n, tried |-> None])
  BY DEF ResolvePop
<1>2. g \in Graph /\ n \in Names
  BY <1>1 DEF ResolvePop, LastOpen, Graph, TypeOK
<1>3. [g EXCEPT !.open = @ \ {n}] \in Graph
  BY <1>2 DEF Graph
<1>4. [graph |-> [g EXCEPT !.open = @ \ {n}], name |-> n, tried |-> None] \in Frame
  BY <1>2, <1>3 DEF Frame
<1>5. QED
  BY <1>1, <1>4

LEMMA NextType == TypeOK /\ [Next]_vars => TypeOK'
<1> SUFFICES ASSUME TypeOK, [Next]_vars PROVE TypeOK'
  OBVIOUS
<1> USE DEF TypeOK
<1>a. ASSUME Adding
      PROVE  /\ g \in Graph /\ pkg \in Package /\ Dep \in Dependency
             /\ Dep.name \in Names
  BY <1>a, DepType DEF Adding
<1>b. ASSUME pc = "search"
      PROVE  /\ Len(stack) \in 1..Len(stack)
             /\ Top \in Frame /\ Top.graph \in Graph /\ Top.name \in Names
             /\ Popped \in Seq(Frame)
  BY <1>b, TopType DEF Frame
<1>c. ASSUME NEW h, Added(h), h \in Graph, pc = "add"
      PROVE  TypeOK'
  BY <1>c DEF Added
<1>1. CASE AddNewDependency
  BY <1>1, <1>a, <1>c, GraphOpsType DEF AddNewDependency, Adding
<1>2. CASE AppendConstraints
  BY <1>2, <1>a, <1>c, GraphOpsType DEF AppendConstraints, Adding
<1>3. CASE PinnedMatches
  BY <1>3, <1>a, <1>c, GraphOpsType DEF PinnedMatches, Adding
<1>4. CASE PinnedConflicts
  <2>1. AddConflict(Register(g, Dep, pkg), Dep.name) \in Graph
    BY <1>4, <1>a, GraphOpsType DEF PinnedConflicts
  <2>2. QED
    BY <1>4, <2>1 DEF PinnedConflicts, Adding
<1>5. CASE DepsAdded
  BY <1>5 DEF DepsAdded
<1>6. CASE ResolveEmpty
  BY <1>6 DEF ResolveEmpty, Answer
<1>7. CASE ResolvePop
  <2>1. stack' \in Seq(Frame) /\ stack' # <<>>
    BY <1>7, PushType, AppendProperties
  <2>2. QED
    BY <1>7, <2>1 DEF ResolvePop
<1>8. ASSUME NEW h \in Graph, NEW answer \in Answer, pc = "search", ReturnWith(h, answer)
      PROVE  TypeOK'
  BY <1>8, <1>b DEF ReturnWith
<1>9. CASE FindUnknown
  <2>1. AddUnknown(Top.graph, Top.name) \in Graph
    BY <1>9, <1>b DEF FindUnknown, AddUnknown, Graph
  <2>2. QED
    BY <1>9, <1>8, <2>1 DEF FindUnknown, Answer
<1>10. CASE FindNoMatch
  <2>1. AddConflict(Top.graph, Top.name) \in Graph
    BY <1>10, <1>b DEF FindNoMatch, AddConflict, Graph
  <2>2. QED
    BY <1>10, <1>8, <2>1 DEF FindNoMatch, Answer
<1>11. CASE FindOK
  <2>1. PICK p \in NewestOf(Eligible(Top)) :
          /\ stack' = [stack EXCEPT ![Len(stack)].tried = p]
          /\ g' = AddClosed(Top.graph, p)
          /\ pkg' = p
    BY <1>11 DEF FindOK
  <2>2. pc = "search"
    BY <1>11 DEF FindOK
  <2>3. p \in Package
    BY <2>1, <2>2, <1>b, EligibleType DEF NewestOf
  <2>4. g' \in Graph
    BY <2>1, <2>2, <2>3, <1>b DEF AddClosed, Graph, Package
  <2>5. stack' \in Seq(Frame)
    <3>1. [Top EXCEPT !.tried = p] \in Frame
      BY <2>2, <2>3, <1>b DEF Frame
    <3>2. stack' = [stack EXCEPT ![Len(stack)] = [Top EXCEPT !.tried = p]]
      BY <2>1 DEF Top
    <3>3. QED
      BY <3>1, <3>2, <2>2, <1>b, ExceptSeq
  <2>6. QED
    BY <1>11, <2>1, <2>3, <2>4, <2>5, NoneAssumption DEF FindOK
<1>12. CASE ReturnToCaller
  BY <1>12 DEF ReturnToCaller
<1>13. CASE PassAnswerOn
  BY <1>13, TopType DEF PassAnswerOn
<1>14. CASE TryOlder
  BY <1>14 DEF TryOlder
<1>15. CASE UNCHANGED vars
  BY <1>15 DEF vars
<1>16. QED
  BY <1>1, <1>2, <1>3, <1>4, <1>5, <1>6, <1>7, <1>9, <1>10, <1>11, <1>12,
     <1>13, <1>14, <1>15 DEF Next

(* Type correctness: every value the resolver holds has the shape the C    *)
(* structures give it, and it looks for versions only inside a call.       *)
THEOREM TypeCorrect == Spec => []TypeOK
  BY InitType, NextType, PTL DEF Spec

-----------------------------------------------------------------------------
(* Versions are tried from newer to older.                                 *)

LEMMA FrameSet ==
  ASSUME TypeOK, NEW p, stack # <<>>,
         stack' = [stack EXCEPT ![Len(stack)].tried = p]
  PROVE  /\ DOMAIN stack' = DOMAIN stack
         /\ stack'[Len(stack)].tried = p
         /\ \A i \in DOMAIN stack : i # Len(stack) => stack'[i] = stack[i]
<1>1. Len(stack) \in DOMAIN stack /\ Top \in Frame
  BY TopType, LenProperties DEF TypeOK
<1>2. stack[Len(stack)] \in Frame
  BY <1>1 DEF Top
<1>3. stack' = [stack EXCEPT ![Len(stack)] = [stack[Len(stack)] EXCEPT !.tried = p]]
  OBVIOUS
<1>4. [stack[Len(stack)] EXCEPT !.tried = p].tried = p
  BY <1>2 DEF Frame
<1>5. QED
  BY <1>1, <1>3, <1>4

LEMMA StepOlder == TypeOK /\ [Next]_vars => [OnlyOlder]_vars
<1> SUFFICES ASSUME TypeOK, Next PROVE OnlyOlder
  BY DEF vars
<1>1. CASE UNCHANGED stack
  BY <1>1 DEF OnlyOlder
<1>2. CASE stack # <<>> /\ stack' = Popped
  <2>1. \A i \in DOMAIN stack' : stack'[i] = stack[i]
    BY <1>2, TopType, LenProperties DEF TypeOK
  <2>2. QED
    BY <2>1 DEF OnlyOlder
<1>3. CASE ResolvePop
  <2>1. PICK f \in Frame : stack' = Append(stack, f)
    BY <1>3, PushType
  <2>2. \A i \in DOMAIN stack : stack'[i] = stack[i]
    BY <2>1, AppendProperties, LenProperties DEF TypeOK
  <2>3. QED
    BY <2>2 DEF OnlyOlder
<1>4. CASE FindOK
  <2>1. PICK p \in Eligible(Top) :
          stack' = [stack EXCEPT ![Len(stack)].tried = p]
    BY <1>4 DEF FindOK, NewestOf
  <2>2. stack # <<>>
    BY <1>4 DEF FindOK, TypeOK
  <2>3. Top.tried = None \/ Compare(p.version, Top.tried.version) < 0
    BY <2>1 DEF Eligible
  <2>4. QED
    BY <2>1, <2>2, <2>3, FrameSet DEF OnlyOlder, Top
<1>5. CASE FindUnknown \/ FindNoMatch
  BY <1>2, <1>5 DEF FindUnknown, FindNoMatch, ReturnWith, TypeOK
<1>6. QED
  BY <1>1, <1>2, <1>3, <1>4, <1>5 DEF Next, AddNewDependency, AppendConstraints,
     PinnedMatches, PinnedConflicts, Added, DepsAdded, ResolveEmpty,
     ReturnToCaller, PassAnswerOn, TryOlder

(* While a call of resolve is active it never takes up a version that is   *)
(* not older than the one it tried last, so it tries none of them twice.   *)
THEOREM TriesOlderVersions == Spec => TriedGetsOlder
<1>1. Spec => []TypeOK
  BY TypeCorrect
<1>2. TypeOK /\ [Next]_vars => [OnlyOlder]_vars
  BY StepOlder
<1>3. QED
  BY <1>1, <1>2, PTL DEF Spec, TriedGetsOlder

-----------------------------------------------------------------------------
(* Lemmas about constraints and about the operations on a graph.           *)

LEMMA MatchesMeetsAll ==
  ASSUME NEW v, NEW cs \in Seq(Constraint), NEW b \in BOOLEAN,
         \A j \in DOMAIN cs : cs[j].req = "ANY" <=> b,
         MatchesConstraints(v, cs)
  PROVE  \A j \in DOMAIN cs : Meets(v, cs[j])
<1>1. CASE b
  BY <1>1 DEF Meets
<1>2. CASE ~b
  <2>1. SUFFICES ASSUME NEW j \in DOMAIN cs, ~Meets(v, cs[j]) PROVE FALSE
    OBVIOUS
  <2>2. PICK i \in 1..(j - 1) : cs[i].req = "ANY"
    BY <2>1 DEF MatchesConstraints
  <2>3. i \in DOMAIN cs
    BY <2>1, <2>2, LenProperties
  <2>4. QED
    BY <1>2, <2>2, <2>3
<1>3. QED
  BY <1>1, <1>2

LEMMA PackagesType ==
  ASSUME world \in World
  PROVE  Packages(world) \subseteq Package
  BY DEF Packages, World

LEMMA PlainDep ==
  ASSUME Plain(world), NEW p \in Packages(world), NEW i \in DOMAIN AllDeps(p)
  PROVE  /\ AllDeps(p)[i].name # world.root.name
         /\ AllDeps(p)[i].con.req = "ANY" <=> AllDeps(p)[i].name \in WildNames(world)
  BY DEF Plain, DepsOf

(* Registering the package that asks changes nothing the invariant sees.   *)
LEMMA RegisterKeeps ==
  ASSUME NEW h \in Graph, NEW d \in Dependency, NEW p \in Package
  PROVE  LET r == Register(h, d, p)
         IN  /\ r.closed = h.closed /\ r.open = h.open /\ r.own = h.own
             /\ r \in Graph
  BY DEF Register, Graph, Dependency

LEMMA OpenNewKeeps ==
  ASSUME NEW h \in Graph, NEW d \in Dependency, NEW p \in Package,
         Bookkept(h, {}), h.own[d.name] = <<>>, d.name # world.root.name,
         d.con.req = "ANY" <=> d.name \in WildNames(world)
  PROVE  LET r == OpenNew(h, d, p)
         IN  /\ r.closed = h.closed
             /\ Bookkept(r, {})
             /\ Accounted(r, d)
             /\ \A e \in Dependency : Accounted(h, e) => Accounted(r, e)
<1> DEFINE r == OpenNew(h, d, p)
<1>1. d.name \in Names /\ d.con \in Constraint
  BY DEF Dependency
<1>2. /\ r.closed = h.closed
      /\ r.open = h.open \cup {d.name}
      /\ r.own = [h.own EXCEPT ![d.name] = <<d.con>>]
  <2> DEFINE q == Register(h, d, p)
  <2>1. q \in Graph /\ q.closed = h.closed /\ q.open = h.open /\ q.own = h.own
    BY RegisterKeeps
  <2>2. r = [q EXCEPT !.own[d.name] = <<d.con>>, !.open = @ \cup {d.name}]
    BY DEF OpenNew
  <2> HIDE DEF q, r
  <2>3. QED
    BY <2>1, <2>2 DEF Graph
<1>3. h.own \in [Names -> Seq(Constraint)]
  BY DEF Graph
<1>4. /\ r.own[d.name] = <<d.con>>
      /\ \A n \in Names \ {d.name} : r.own[n] = h.own[n]
  BY <1>1, <1>2, <1>3
<1>5. h.closed[d.name] = None
  BY <1>1 DEF Bookkept
<1>6. Bookkept(r, {})
  <2>1. r.closed[world.root.name] = world.root
    BY <1>2 DEF Bookkept
  <2>2. ASSUME NEW n \in Names
        PROVE  /\ r.closed[n] # None =>
                     r.closed[n] \in Packages(world) /\ r.closed[n].name = n
               /\ n \in r.open \cup {} => r.closed[n] = None /\ r.own[n] # <<>>
               /\ r.own[n] # <<>> => r.closed[n] # None \/ n \in r.open \cup {}
               /\ r.closed[n] # None /\ n # world.root.name => r.own[n] # <<>>
               /\ \A j \in DOMAIN r.own[n] :
                    r.own[n][j].req = "ANY" <=> n \in WildNames(world)
    <3>1. CASE n = d.name
      BY <3>1, <1>2, <1>4, <1>5
    <3>2. CASE n # d.name
      BY <3>2, <1>2, <1>4 DEF Bookkept
    <3>3. QED
      BY <3>1, <3>2
  <2>3. QED
    BY <2>1, <2>2 DEF Bookkept
<1>7. Accounted(r, d)
  BY <1>2, <1>4, <1>5 DEF Accounted
<1>8. ASSUME NEW e \in Dependency, Accounted(h, e)
      PROVE  Accounted(r, e)
  <2>1. CASE e.name = d.name
    BY <2>1, <1>5, <1>8 DEF Accounted
  <2>2. CASE e.name # d.name
    BY <2>2, <1>2, <1>4, <1>8 DEF Accounted, Dependency
  <2>3. QED
    BY <2>1, <2>2
<1>9. QED
  BY <1>2, <1>6, <1>7, <1>8

LEMMA AddConstraintKeeps ==
  ASSUME NEW h \in Graph, NEW d \in Dependency, NEW p \in Package,
         Bookkept(h, {}), h.own[d.name] # <<>>, h.closed[d.name] = None,
         d.con.req = "ANY" <=> d.name \in WildNames(world)
  PROVE  LET r == AddConstraint(h, d, p)
         IN  /\ r.closed = h.closed
             /\ Bookkept(r, {})
             /\ Accounted(r, d)
             /\ \A e \in Dependency : Accounted(h, e) => Accounted(r, e)
<1> DEFINE r == AddConstraint(h, d, p)
           old == h.own[d.name]
<1>1. d.name \in Names /\ d.con \in Constraint
  BY DEF Dependency
<1>2. /\ r.closed = h.closed
      /\ r.open = h.open
      /\ r.own = [h.own EXCEPT ![d.name] = Append(old, d.con)]
  <2> DEFINE q == Register(h, d, p)
  <2>1. q \in Graph /\ q.closed = h.closed /\ q.open = h.open /\ q.own = h.own
    BY RegisterKeeps
  <2>2. r = [q EXCEPT !.own[d.name] = Append(@, d.con)]
    BY DEF AddConstraint
  <2> HIDE DEF q, r
  <2>3. QED
    BY <2>1, <2>2 DEF Graph
<1>3. h.own \in [Names -> Seq(Constraint)] /\ old \in Seq(Constraint)
  BY <1>1 DEF Graph
<1>4. /\ r.own[d.name] = Append(old, d.con)
      /\ \A n \in Names \ {d.name} : r.own[n] = h.own[n]
  BY <1>1, <1>2, <1>3
<1>5. /\ r.own[d.name] # <<>>
      /\ DOMAIN r.own[d.name] = DOMAIN old \cup {Len(old) + 1}
      /\ r.own[d.name][Len(old) + 1] = d.con
      /\ \A j \in DOMAIN old : r.own[d.name][j] = old[j]
  <2>1. DOMAIN old = 1..Len(old) /\ Len(old) \in Nat
    BY <1>3, LenProperties
  <2>2. Append(old, d.con) \in Seq(Constraint)
    BY <1>1, <1>3, AppendProperties
  <2>3. DOMAIN Append(old, d.con) = 1..(Len(old) + 1)
    BY <1>1, <1>3, <2>2, AppendProperties, LenProperties
  <2>4. QED
    BY <1>1, <1>3, <1>4, <2>1, <2>3, AppendProperties
<1>6. Bookkept(r, {})
  <2>1. r.closed[world.root.name] = world.root
    BY <1>2 DEF Bookkept
  <2>2. ASSUME NEW n \in Names
        PROVE  /\ r.closed[n] # None =>
                     r.closed[n] \in Packages(world) /\ r.closed[n].name = n
               /\ n \in r.open \cup {} => r.closed[n] = None /\ r.own[n] # <<>>
               /\ r.own[n] # <<>> => r.closed[n] # None \/ n \in r.open \cup {}
               /\ r.closed[n] # None /\ n # world.root.name => r.own[n] # <<>>
               /\ \A j \in DOMAIN r.own[n] :
                    r.own[n][j].req = "ANY" <=> n \in WildNames(world)
    <3>1. CASE n = d.name
      BY <3>1, <1>2, <1>5 DEF Bookkept
    <3>2. CASE n # d.name
      BY <3>2, <1>2, <1>4 DEF Bookkept
    <3>3. QED
      BY <3>1, <3>2
  <2>3. QED
    BY <2>1, <2>2 DEF Bookkept
<1>7. Accounted(r, d)
  BY <1>2, <1>5 DEF Accounted
<1>8. ASSUME NEW e \in Dependency, Accounted(h, e)
      PROVE  Accounted(r, e)
  <2>1. CASE e.name = d.name
    BY <2>1, <1>2, <1>5, <1>8 DEF Accounted
  <2>2. CASE e.name # d.name
    BY <2>2, <1>2, <1>4, <1>8 DEF Accounted, Dependency
  <2>3. QED
    BY <2>1, <2>2
<1>9. QED
  BY <1>2, <1>6, <1>7, <1>8

(* Adding one dependency of p advances the count of those added.           *)
LEMMA Advance ==
  ASSUME world \in World,
         NEW h \in Graph, NEW r, NEW p \in Package, NEW i \in Nat,
         i \in DOMAIN AllDeps(p), Bookkept(h, {}), r.closed = h.closed,
         AllAccounted(h, p, i),
         Accounted(r, AllDeps(p)[i]),
         \A e \in Dependency : Accounted(h, e) => Accounted(r, e)
  PROVE  AllAccounted(r, p, i + 1)
<1> SUFFICES ASSUME NEW n \in Names, r.closed[n] # None,
                    NEW j \in DOMAIN AllDeps(r.closed[n]),
                    r.closed[n] = p => j < i + 1
             PROVE  Accounted(r, AllDeps(r.closed[n])[j])
  BY DEF AllAccounted
<1>1. r.closed[n] \in Package
  BY PackagesType DEF Bookkept
<1>2. AllDeps(r.closed[n])[j] \in Dependency /\ j \in Nat
  BY <1>1, AllDepsType, LenProperties, ElementOfSeq
<1>3. CASE r.closed[n] = p /\ j = i
  BY <1>3
<1>4. CASE r.closed[n] = p => j < i
  BY <1>2, <1>4 DEF AllAccounted
<1>5. QED
  BY <1>2, <1>3, <1>4

(* Choosing an eligible version for the popped name.                       *)
LEMMA ChooseSound ==
  ASSUME Plain(world), world \in World, NEW f \in Frame, FrameSound(f),
         NEW p \in Eligible(f)
  PROVE  LET r == AddClosed(f.graph, p)
         IN  Bookkept(r, {}) /\ AllAccounted(r, p, 1) /\ p \in Packages(world)
<1> DEFINE h == f.graph
           r == AddClosed(h, p)
<1>1. h \in Graph /\ f.name \in Names
  BY DEF Frame
<1>2. p \in world.repo[f.name] /\ MatchesConstraints(p.version, h.own[f.name])
  BY DEF Eligible
<1>3. p.name = f.name /\ p \in Packages(world) /\ p \in Package
  BY <1>1, <1>2, PackagesType DEF Plain, Packages
<1>4. Bookkept(h, {f.name}) /\ AllAccounted(h, None, 0)
  BY DEF FrameSound
<1>5. h.closed[f.name] = None
  BY <1>1, <1>4 DEF Bookkept
<1>6. /\ r.open = h.open /\ r.own = h.own
      /\ r.closed = [h.closed EXCEPT ![f.name] = p]
  BY <1>1, <1>3, <1>5 DEF AddClosed, Graph
<1>7. h.closed \in [Names -> Package \cup {None}] /\ p # None
  BY <1>1, <1>3, NoneAssumption DEF Graph
<1>8. r.closed[f.name] = p /\ \A n \in Names \ {f.name} : r.closed[n] = h.closed[n]
  BY <1>1, <1>6, <1>7
<1>9. f.name # world.root.name
  <2>1. world.root # None
    BY NoneAssumption DEF World
  <2>2. QED
    BY <1>4, <1>5, <2>1 DEF Bookkept
<1>10. Bookkept(r, {})
  <2>1. r.closed[world.root.name] = world.root
    <3>1. world.root.name \in Names
      BY DEF World, Package
    <3>2. QED
      BY <3>1, <1>4, <1>8, <1>9 DEF Bookkept
  <2>2. ASSUME NEW n \in Names
        PROVE  /\ r.closed[n] # None =>
                     r.closed[n] \in Packages(world) /\ r.closed[n].name = n
               /\ n \in r.open \cup {} => r.closed[n] = None /\ r.own[n] # <<>>
               /\ r.own[n] # <<>> => r.closed[n] # None \/ n \in r.open \cup {}
               /\ r.closed[n] # None /\ n # world.root.name => r.own[n] # <<>>
               /\ \A j \in DOMAIN r.own[n] :
                    r.own[n][j].req = "ANY" <=> n \in WildNames(world)
    <3>1. CASE n = f.name
      BY <3>1, <1>3, <1>4, <1>6, <1>7, <1>8 DEF Bookkept, FrameSound
    <3>2. CASE n # f.name
      BY <3>2, <1>4, <1>6, <1>8 DEF Bookkept
    <3>3. QED
      BY <3>1, <3>2
  <2>3. QED
    BY <2>1, <2>2 DEF Bookkept
<1>11. ASSUME NEW e \in Dependency, Accounted(h, e)
       PROVE  Accounted(r, e)
  <2>1. e.name \in Names
    BY DEF Dependency
  <2>2. CASE e.name = f.name
    <3>1. h.own[f.name] \in Seq(Constraint)
      BY <1>1 DEF Graph
    <3>2. (f.name \in WildNames(world)) \in BOOLEAN
      OBVIOUS
    <3>3. \A j \in DOMAIN h.own[f.name] :
            h.own[f.name][j].req = "ANY" <=> f.name \in WildNames(world)
      BY <1>1, <1>4 DEF Bookkept
    <3>4. \A j \in DOMAIN h.own[f.name] : Meets(p.version, h.own[f.name][j])
      BY <1>2, <3>1, <3>2, <3>3, MatchesMeetsAll
    <3>5. PICK j \in DOMAIN h.own[f.name] : h.own[f.name][j] = e.con
      BY <1>5, <1>11, <2>2 DEF Accounted
    <3>6. QED
      BY <1>7, <1>8, <2>2, <3>4, <3>5 DEF Accounted
  <2>3. CASE e.name # f.name
    BY <1>6, <1>8, <1>11, <2>1, <2>3 DEF Accounted
  <2>4. QED
    BY <2>2, <2>3
<1>12. AllAccounted(r, p, 1)
  <2>1. SUFFICES ASSUME NEW n \in Names, r.closed[n] # None,
                        NEW j \in DOMAIN AllDeps(r.closed[n]),
                        r.closed[n] = p => j < 1
                 PROVE  Accounted(r, AllDeps(r.closed[n])[j])
    BY DEF AllAccounted
  <2>2. r.closed[n] \in Package
    BY <2>1, <1>10, PackagesType DEF Bookkept
  <2>3. AllDeps(r.closed[n])[j] \in Dependency /\ j \in 1..Len(AllDeps(r.closed[n]))
    BY <2>2, AllDepsType, LenProperties, ElementOfSeq
  <2>4. n # f.name
    BY <2>1, <2>3, <1>8
  <2>5. Accounted(h, AllDeps(h.closed[n])[j])
    BY <2>1, <2>4, <1>4, <1>7, <1>8 DEF AllAccounted
  <2>6. QED
    BY <2>3, <2>4, <2>5, <1>8, <1>11
<1>13. QED
  BY <1>3, <1>10, <1>12

-----------------------------------------------------------------------------
(* The invariant holds at first and every step keeps it.                   *)

LEMMA InitSound == Init /\ Plain(world) => SoundnessInv
<1> SUFFICES ASSUME Init, Plain(world) PROVE SoundnessInv
  OBVIOUS
<1>1. TypeOK
  BY InitType
<1>2. world \in World /\ world.root \in Package /\ world.root.name \in Names
  BY <1>1 DEF TypeOK, World, Package
<1>3. /\ g.closed = [n \in Names |-> IF n = world.root.name THEN world.root ELSE None]
      /\ g.open = {} /\ g.own = [n \in Names |-> <<>>]
  BY <1>2 DEF Init, AddClosed, EmptyGraph
<1>4. Bookkept(g, {})
  BY <1>2, <1>3, NoneAssumption DEF Bookkept, Packages
<1>5. AllAccounted(g, pkg, k)
  <2>1. SUFFICES ASSUME NEW n \in Names, g.closed[n] # None,
                        NEW j \in DOMAIN AllDeps(g.closed[n]),
                        g.closed[n] = pkg => j < 1
                 PROVE  FALSE
    BY DEF AllAccounted, Init
  <2>2. g.closed[n] = pkg
    BY <2>1, <1>3 DEF Init
  <2>3. j \in 1..Len(AllDeps(pkg))
    BY <2>1, <2>2, <1>2, AllDepsType, LenProperties DEF Init
  <2>4. QED
    BY <2>1, <2>2, <2>3
<1>6. HandSound
  BY <1>2, <1>3, <1>4, <1>5 DEF HandSound, Init, Packages
<1>7. QED
  BY <1>1, <1>6, EmptySeq DEF SoundnessInv, FramesSound, Init

LEMMA WorldKept == [Next]_vars => world' = world
  BY DEF Next, vars, AddNewDependency, AppendConstraints, PinnedMatches,
     PinnedConflicts, Added, DepsAdded, ResolveEmpty, ResolvePop, FindUnknown,
     FindNoMatch, ReturnWith, FindOK, ReturnToCaller, PassAnswerOn, TryOlder

(* The frames of the calls in progress.                                    *)
LEMMA PopFrames ==
  ASSUME SoundnessInv, stack # <<>>, stack' = Popped, world' = world
  PROVE  FramesSound'
<1>1. \A i \in DOMAIN stack' : i \in DOMAIN stack /\ stack'[i] = stack[i]
  BY TopType, LenProperties DEF SoundnessInv, TypeOK
<1>2. QED
  BY <1>1 DEF SoundnessInv, FramesSound, FrameSound, Bookkept

LEMMA KeepFrames ==
  ASSUME SoundnessInv, stack' = stack, world' = world
  PROVE  FramesSound'
  BY DEF SoundnessInv, FramesSound, FrameSound, Bookkept

LEMMA PushFrames ==
  ASSUME SoundnessInv, ResolvePop
  PROVE  FramesSound'
<1>1. PICK n \in LastOpen(g) :
        stack' = Append(stack, [graph |-> [g EXCEPT !.open = @ \ {n}],
                                name |-> n, tried |-> None])
  BY DEF ResolvePop
<1> DEFINE h == [g EXCEPT !.open = @ \ {n}]
           f == [graph |-> h, name |-> n, tried |-> None]
<1>2. g \in Graph /\ n \in Names /\ n \in g.open
  BY <1>1 DEF ResolvePop, LastOpen, Graph, SoundnessInv, TypeOK
<1>3. /\ h.closed = g.closed /\ h.own = g.own /\ h.open = g.open \ {n}
      /\ h \in Graph
  BY <1>2 DEF Graph
<1>4. Bookkept(g, {}) /\ AllAccounted(g, None, 0)
  BY DEF SoundnessInv, HandSound, ResolvePop
<1>5. Bookkept(h, {n})
  <2> HIDE DEF h, f
  <2>1. h.open \cup {n} = g.open
    BY <1>2, <1>3
  <2>2. QED
    BY <1>3, <1>4, <2>1 DEF Bookkept
<1>6. AllAccounted(h, None, 0)
  BY <1>3, <1>4 DEF AllAccounted, Accounted
<1>7. FrameSound(f)
  BY <1>3, <1>5, <1>6 DEF FrameSound
<1>8. f \in Frame
  BY <1>2, <1>3 DEF Frame
<1>9. \A i \in DOMAIN stack' :
        stack'[i] = f \/ (i \in DOMAIN stack /\ stack'[i] = stack[i])
  <2>1. stack \in Seq(Frame) /\ stack' \in Seq(Frame) /\ stack' = Append(stack, f)
    BY <1>1, <1>8, AppendProperties DEF SoundnessInv, TypeOK
  <2>2. /\ DOMAIN stack = 1..Len(stack) /\ Len(stack) \in Nat
        /\ DOMAIN stack' = 1..(Len(stack) + 1)
    BY <1>8, <2>1, AppendProperties, LenProperties
  <2>3. QED
    BY <1>8, <2>1, <2>2, AppendProperties
<1>10. \A i \in DOMAIN stack' : FrameSound(stack'[i])
  BY <1>7, <1>9 DEF SoundnessInv, FramesSound
<1>11. world' = world
  BY DEF ResolvePop
<1>12. QED
  BY <1>10, <1>11 DEF FramesSound, FrameSound, Bookkept

LEMMA TriedFrames ==
  ASSUME SoundnessInv, NEW p, stack # <<>>, world' = world,
         stack' = [stack EXCEPT ![Len(stack)].tried = p]
  PROVE  FramesSound'
<1>1. Len(stack) \in DOMAIN stack /\ stack[Len(stack)] \in Frame
  BY TopType, LenProperties DEF SoundnessInv, TypeOK, Top
<1>2. /\ DOMAIN stack' = DOMAIN stack
      /\ \A i \in DOMAIN stack : /\ stack'[i].graph = stack[i].graph
                                 /\ stack'[i].name = stack[i].name
  <2>1. stack' = [stack EXCEPT ![Len(stack)] = [stack[Len(stack)] EXCEPT !.tried = p]]
    OBVIOUS
  <2>2. /\ [stack[Len(stack)] EXCEPT !.tried = p].graph = stack[Len(stack)].graph
        /\ [stack[Len(stack)] EXCEPT !.tried = p].name = stack[Len(stack)].name
    BY <1>1 DEF Frame
  <2>3. QED
    BY <1>1, <2>1, <2>2
<1>3. \A i \in DOMAIN stack' : FrameSound(stack'[i])
  BY <1>2 DEF SoundnessInv, FramesSound, FrameSound
<1>4. QED
  BY <1>3 DEF FramesSound, FrameSound, Bookkept

(* What is in hand: the graph the innermost call works on or returns.      *)
LEMMA AddedSound ==
  ASSUME SoundnessInv, Adding, world' = world, NEW r, Added(r),
         r.closed = g.closed, Bookkept(r, {}), Accounted(r, Dep),
         \A e \in Dependency : Accounted(g, e) => Accounted(r, e)
  PROVE  HandSound' /\ FramesSound'
<1>1. /\ pc = "add" /\ g \in Graph /\ pkg \in Package /\ k \in Nat
      /\ Bookkept(g, {}) /\ AllAccounted(g, pkg, k)
  BY DEF SoundnessInv, TypeOK, HandSound, Adding
<1>2. k \in DOMAIN AllDeps(pkg)
  BY <1>1, AllDepsType, LenProperties DEF Adding, SoundnessInv, TypeOK
<1>3. AllAccounted(r, pkg, k + 1)
  BY <1>1, <1>2, Advance DEF SoundnessInv, TypeOK, Dep
<1>4. Bookkept(g, {})'
  BY DEF Bookkept, Added
<1>5. AllAccounted(g, pkg, k)'
  BY <1>3 DEF Added
<1>6. HandSound'
  BY <1>1, <1>4, <1>5 DEF HandSound, Added, SoundnessInv
<1>7. FramesSound'
  BY KeepFrames DEF Added
<1>8. QED
  BY <1>6, <1>7

LEMMA NextSound == Plain(world) /\ SoundnessInv /\ [Next]_vars => SoundnessInv'
<1> SUFFICES ASSUME Plain(world), SoundnessInv, [Next]_vars
             PROVE  SoundnessInv'
  OBVIOUS
<1>a. TypeOK /\ TypeOK' /\ world' = world /\ world \in World
  BY NextType, WorldKept DEF SoundnessInv, TypeOK
<1>b. ASSUME Adding
      PROVE  /\ pc = "add" /\ g \in Graph /\ pkg \in Package /\ Dep \in Dependency
             /\ Bookkept(g, {}) /\ AllAccounted(g, pkg, k)
             /\ Dep.name # world.root.name
             /\ Dep.con.req = "ANY" <=> Dep.name \in WildNames(world)
  <2>1. /\ pc = "add" /\ g \in Graph /\ pkg \in Package /\ Dep \in Dependency
        /\ Bookkept(g, {}) /\ AllAccounted(g, pkg, k) /\ pkg \in Packages(world)
    BY <1>a, <1>b, DepType DEF Adding, TypeOK, SoundnessInv, HandSound
  <2>2. k \in DOMAIN AllDeps(pkg)
    BY <1>a, <1>b, <2>1, AllDepsType, LenProperties DEF Adding, TypeOK
  <2>3. QED
    BY <2>1, <2>2, PlainDep DEF Dep
<1>c. FramesSound
  BY DEF SoundnessInv
<1>1. CASE AddNewDependency
  <2>1. Adding /\ g.own[Dep.name] = <<>> /\ Added(OpenNew(g, Dep, pkg))
    BY <1>1 DEF AddNewDependency
  <2>2. HandSound' /\ FramesSound'
    BY <2>1, <1>a, <1>b, OpenNewKeeps, AddedSound
  <2>3. QED
    BY <1>a, <2>2 DEF SoundnessInv
<1>2. CASE AppendConstraints
  <2>1. /\ Adding /\ g.own[Dep.name] # <<>> /\ g.closed[Dep.name] = None
        /\ Added(AddConstraint(g, Dep, pkg))
    BY <1>2 DEF AppendConstraints
  <2>2. HandSound' /\ FramesSound'
    BY <2>1, <1>a, <1>b, AddConstraintKeeps, AddedSound
  <2>3. QED
    BY <1>a, <2>2 DEF SoundnessInv
<1>3. CASE PinnedMatches
  <2> DEFINE r == Register(g, Dep, pkg)
  <2>1. /\ Adding /\ g.closed[Dep.name] # None /\ PinnedAgrees(g, Dep) /\ Added(r)
    BY <1>3 DEF PinnedMatches
  <2>2. r.closed = g.closed /\ r.open = g.open /\ r.own = g.own
    BY <2>1, <1>b, RegisterKeeps
  <2>3. Meets(g.closed[Dep.name].version, Dep.con)
    BY <2>1 DEF PinnedAgrees, MatchesConstraints
  <2> HIDE DEF r
  <2>4. Accounted(r, Dep)
    BY <2>1, <2>2, <2>3 DEF Accounted
  <2>5. Bookkept(r, {}) /\ \A e \in Dependency : Accounted(g, e) => Accounted(r, e)
    BY <2>1, <2>2, <1>b DEF Bookkept, Accounted
  <2>6. HandSound' /\ FramesSound'
    BY <2>1, <2>2, <2>4, <2>5, <1>a, AddedSound
  <2>7. QED
    BY <1>a, <2>6 DEF SoundnessInv
<1>4. CASE PinnedConflicts
  <2>1. Adding /\ g.closed[Dep.name] # None /\ stack' = stack
    BY <1>4 DEF PinnedConflicts
  <2>2. stack # <<>>
    BY <2>1, <1>b DEF SoundnessInv, HandSound, Dependency
  <2>3. pc' = "search"
    BY <1>4, <2>2 DEF PinnedConflicts
  <2>4. QED
    BY <1>a, <2>1, <2>3, KeepFrames DEF SoundnessInv, HandSound
<1>5. CASE DepsAdded
  <2>1. /\ g \in Graph /\ pkg \in Package /\ k > Len(AllDeps(pkg)) /\ k \in Nat
        /\ Bookkept(g, {}) /\ AllAccounted(g, pkg, k)
    BY <1>5, <1>a DEF DepsAdded, SoundnessInv, HandSound, TypeOK
  <2>2. \A j \in DOMAIN AllDeps(pkg) : j < k
    BY <2>1, AllDepsType, LenProperties
  <2>3. AllAccounted(g, None, 0)
    BY <2>1, <2>2 DEF AllAccounted
  <2>4. g' = g /\ pc' = "resolve" /\ stack' = stack
    BY <1>5 DEF DepsAdded
  <2>5. HandSound'
    BY <1>a, <2>1, <2>3, <2>4 DEF HandSound, Bookkept
  <2>6. QED
    BY <1>a, <2>4, <2>5, KeepFrames DEF SoundnessInv
<1>6. CASE ResolveEmpty
  <2>1. /\ Bookkept(g, {}) /\ AllAccounted(g, None, 0) /\ g.open = {}
        /\ g' = g /\ pc' = "return" /\ stack' = stack
    BY <1>6 DEF ResolveEmpty, SoundnessInv, HandSound
  <2>2. HandSound'
    BY <1>a, <2>1 DEF HandSound, Bookkept
  <2>3. QED
    BY <1>a, <2>1, <2>2, KeepFrames DEF SoundnessInv
<1>7. CASE ResolvePop
  <2>1. pc' = "search"
    BY <1>7 DEF ResolvePop
  <2>2. QED
    BY <1>7, <1>a, <2>1, PushFrames DEF SoundnessInv, HandSound
<1>8. CASE FindUnknown \/ FindNoMatch
  <2>1. stack # <<>> /\ stack' = Popped /\ pc' = "return" /\ status' # "SUCCESS"
    BY <1>8, <1>a DEF FindUnknown, FindNoMatch, ReturnWith, TypeOK
  <2>2. QED
    BY <1>a, <2>1, PopFrames DEF SoundnessInv, HandSound
<1>9. CASE FindOK
  <2>1. PICK p \in Eligible(Top) :
          /\ stack' = [stack EXCEPT ![Len(stack)].tried = p]
          /\ g' = AddClosed(Top.graph, p)
          /\ pkg' = p
    BY <1>9 DEF FindOK, NewestOf
  <2>2. stack # <<>> /\ k' = 1 /\ pc' = "add"
    BY <1>9, <1>a DEF FindOK, TypeOK
  <2>3. Len(stack) \in DOMAIN stack /\ Top \in Frame
    BY <1>a, <2>2, TopType, LenProperties DEF TypeOK
  <2>4. FrameSound(Top)
    BY <2>3 DEF SoundnessInv, FramesSound, Top
  <2> DEFINE r == AddClosed(Top.graph, p)
  <2>5. Bookkept(r, {}) /\ AllAccounted(r, p, 1) /\ p \in Packages(world)
    BY <1>a, <2>1, <2>3, <2>4, ChooseSound
  <2>6. stack' # <<>>
    BY <2>1, <2>3
  <2>7. HandSound'
    <3> HIDE DEF r
    <3>1. Bookkept(g, {})' /\ AllAccounted(g, pkg, k)'
      BY <1>a, <2>1, <2>2, <2>5 DEF Bookkept, r
    <3>2. QED
      BY <1>a, <2>1, <2>2, <2>5, <2>6, <3>1 DEF HandSound
  <2>8. QED
    BY <1>a, <2>1, <2>2, <2>7, TriedFrames DEF SoundnessInv
<1>10. CASE ReturnToCaller
  <2>1. pc = "return" /\ pc' = "done" /\ UNCHANGED <<stack, g, status>>
    BY <1>10 DEF ReturnToCaller
  <2>2. HandSound'
    BY <1>a, <2>1 DEF HandSound, Bookkept, SoundnessInv
  <2>3. QED
    BY <1>a, <2>1, <2>2, KeepFrames DEF SoundnessInv
<1>11. CASE PassAnswerOn
  <2>1. /\ pc = "return" /\ stack # <<>> /\ stack' = Popped
        /\ UNCHANGED <<pc, g, status>>
    BY <1>11 DEF PassAnswerOn
  <2>2. HandSound'
    BY <1>a, <2>1 DEF HandSound, Bookkept, SoundnessInv
  <2>3. QED
    BY <1>a, <2>1, <2>2, PopFrames DEF SoundnessInv
<1>12. CASE TryOlder
  <2>1. pc' = "search" /\ stack' = stack
    BY <1>12 DEF TryOlder
  <2>2. QED
    BY <1>a, <2>1, KeepFrames DEF SoundnessInv, HandSound
<1>13. CASE UNCHANGED vars
  <2>1. HandSound'
    BY <1>13 DEF vars, HandSound, Bookkept, SoundnessInv
  <2>2. QED
    BY <1>13, <1>a, <2>1, KeepFrames DEF vars, SoundnessInv
<1>14. QED
  BY <1>1, <1>2, <1>3, <1>4, <1>5, <1>6, <1>7, <1>8, <1>9, <1>10, <1>11, <1>12,
     <1>13 DEF Next

LEMMA SoundAnswer == SoundnessInv => SuccessIsSound
<1> SUFFICES ASSUME SoundnessInv, Answered("SUCCESS")
             PROVE  IsSolution(ClosedSet(g))
  BY DEF SuccessIsSound
<1>1. /\ g \in Graph /\ world \in World
      /\ Bookkept(g, {}) /\ AllAccounted(g, None, 0) /\ g.open = {}
  BY DEF SoundnessInv, TypeOK, HandSound, Answered
<1>2. world.root.name \in Names /\ world.root # None
  BY <1>1, NoneAssumption DEF World, Package
<1>3. ASSUME NEW p \in ClosedSet(g)
      PROVE  p \in Package /\ p.name \in Names /\ g.closed[p.name] = p /\ p # None
  <2>1. PICK n \in Names : p = g.closed[n] /\ p # None
    BY DEF ClosedSet
  <2>2. QED
    BY <1>1, <2>1, PackagesType DEF Bookkept
<1>4. world.root \in ClosedSet(g)
  BY <1>1, <1>2 DEF Bookkept, ClosedSet
<1>5. ASSUME NEW p \in ClosedSet(g), NEW q \in ClosedSet(g), p.name = q.name
      PROVE  p = q
  BY <1>3, <1>5
<1>6. ASSUME NEW p \in ClosedSet(g), NEW i \in DOMAIN AllDeps(p)
      PROVE  \E q \in ClosedSet(g) : /\ q.name = AllDeps(p)[i].name
                                     /\ Meets(q.version, AllDeps(p)[i].con)
  <2> DEFINE d == AllDeps(p)[i]
  <2>1. p \in Package /\ p.name \in Names /\ g.closed[p.name] = p /\ p # None
    BY <1>3
  <2>2. d \in Dependency /\ d.name \in Names
    <3>1. d \in Dependency
      BY <2>1, AllDepsType, LenProperties, ElementOfSeq
    <3>2. QED
      BY <3>1 DEF Dependency
  <2>3. Accounted(g, d)
    BY <1>1, <2>1 DEF AllAccounted
  <2> HIDE DEF d
  <2>4. g.closed[d.name] # None
    <3>1. SUFFICES ASSUME g.closed[d.name] = None PROVE FALSE
      OBVIOUS
    <3>2. g.own[d.name] = <<>>
      BY <1>1, <2>2, <3>1 DEF Bookkept
    <3>3. QED
      BY <2>3, <3>1, <3>2 DEF Accounted
  <2>5. Meets(g.closed[d.name].version, d.con)
    BY <2>3, <2>4 DEF Accounted
  <2>6. g.closed[d.name] \in ClosedSet(g) /\ g.closed[d.name].name = d.name
    BY <1>1, <2>2, <2>4 DEF Bookkept, ClosedSet
  <2>7. QED
    BY <2>5, <2>6 DEF d
<1>7. QED
  BY <1>4, <1>5, <1>6 DEF IsSolution

(* The world is never written, so a plain world stays one.                 *)
LEMMA NextPlain == Plain(world) /\ [Next]_vars => Plain(world)'
  BY WorldKept DEF Plain, Packages, WildNames

(* In every plain world the graph in hand and the graph of every call of   *)
(* resolve in progress account for every dependency of their packages.     *)
THEOREM SearchSound == Spec => []SearchStaysSound
<1>1. Init => SearchStaysSound
  BY InitSound DEF SearchStaysSound
<1>2. SearchStaysSound /\ [Next]_vars => SearchStaysSound'
  BY NextSound, WorldKept DEF SearchStaysSound, Plain, Packages, WildNames
<1>3. QED
  BY <1>1, <1>2, PTL DEF Spec

(* The answer SUCCESS of the resolver, in plain worlds, is a solution: one *)
(* version per name, the project among them, and every dependency of every *)
(* package chosen is met by the version chosen for its name.               *)
THEOREM ResolverSound == Spec => []PlainSuccessIsSound
<1>1. Plain(world) /\ SearchStaysSound => SuccessIsSound
  BY SoundAnswer DEF SearchStaysSound
<1>2. SearchStaysSound => PlainSuccessIsSound
  BY <1>1 DEF PlainSuccessIsSound
<1>3. QED
  BY <1>2, SearchSound, PTL

-----------------------------------------------------------------------------
(* Completeness.  What versions compare to, and what a solution contains.  *)

LEMMA CompareInt ==
  ASSUME NEW a \in Version, NEW b \in Version
  PROVE  Compare(a, b) \in Int /\ Compare(a, a) = 0
<1>1. Len(a) \in Nat /\ Len(b) \in Nat
  BY DEF Version
<1>2. \A n : CompareN(a, b, n) \in {-1, 0, 1}
  BY DEF CompareN
<1>3. CompareN(a, a, SmallerOf(Len(a), Len(a))) = 0
  <2>1. SmallerOf(Len(a), Len(a)) = Len(a)
    BY DEF SmallerOf
  <2>2. ASSUME NEW i \in 1..Len(a) PROVE ~ComponentBelow(a[i], a[i])
    <3>1. a \in Seq({0, 1} \X Nat)
      BY DEF Version, Numeric, Alpha
    <3>2. a[i] \in {0, 1} \X Nat
      BY <3>1, <1>1
    <3>3. a[i][1] \in Int /\ a[i][2] \in Int
      BY <3>2
    <3>4. \A x \in Int : ~(x < x)
      OBVIOUS
    <3>5. QED
      BY ONLY <3>3, <3>4, Zenon DEF ComponentBelow
  <2>3. QED
    BY <2>1, <2>2 DEF CompareN
<1>4. QED
  BY <1>1, <1>2, <1>3 DEF Compare

LEMMA ChosenType ==
  ASSUME NEW h \in Graph
  PROVE  ClosedSet(h) \subseteq Package
BY DEF ClosedSet, Graph

LEMMA SolvingType ==
  ASSUME world \in World, NEW S \in Solving
  PROVE  /\ S \subseteq Package
         /\ IsSolution(S)
         /\ \A q \in S : q = world.root \/ \E m \in world.known : q \in world.repo[m]
BY DEF Solving, Solutions, World

(* Package and version of a name are found in its directory.               *)
LEMMA OrderlyRepo ==
  ASSUME world \in World, Orderly(world), NEW n \in Names,
         NEW p \in world.repo[n], NEW q \in world.repo[n]
  PROVE  /\ p.name = n /\ p \in Package /\ p \in Packages(world)
         /\ p.version \in Version
         /\ Compare(p.version, q.version) = 0 => p = q
BY DEF Orderly, World, Package, Packages

(* A solution that contains what was chosen contains, for a name that is   *)
(* open, a version that fits.                                              *)
LEMMA SolutionHas ==
  ASSUME world \in World, Orderly(world), NEW h \in Graph, NEW n \in Names,
         Kept(h, {n}), NEW S \in Solved(h)
  PROVE  \E q \in S : q \in world.repo[n] /\ MatchesConstraints(q.version, h.own[n])
<1>1. /\ S \in Solving /\ IsSolution(S) /\ ClosedSet(h) \subseteq S
      /\ \A q \in S : q = world.root \/ \E m \in world.known : q \in world.repo[m]
  BY SolvingType DEF Solved
<1>2. h.own[n] \in Seq(Constraint) /\ h.own[n] # <<>>
  BY DEF Graph, Kept
<1>3. 1 \in DOMAIN h.own[n] /\ DOMAIN h.own[n] = 1..Len(h.own[n])
  BY <1>2, LenProperties, EmptySeq
<1>4. \A j \in DOMAIN h.own[n] : \E p \in ClosedSet(h) : \E d \in DepsOf(p) :
        d.name = n /\ d.con = h.own[n][j]
  BY DEF Kept
<1>5. ASSUME NEW p \in ClosedSet(h), NEW d \in DepsOf(p)
      PROVE  \E q \in S : q.name = d.name /\ Meets(q.version, d.con)
  BY <1>1, <1>5 DEF IsSolution, DepsOf
<1>6. PICK q \in S : q.name = n
  BY <1>3, <1>4, <1>5
<1>7. n # world.root.name
  <2>1. PICK p \in ClosedSet(h) : \E d \in DepsOf(p) : d.name = n
    BY <1>3, <1>4
  <2>2. p \in Packages(world)
    BY <2>1 DEF Kept, ClosedSet
  <2>3. QED
    BY <2>1, <2>2 DEF Orderly
<1>8. ASSUME NEW j \in DOMAIN h.own[n]
      PROVE  Meets(q.version, h.own[n][j])
  <2>1. PICK r \in S : r.name = n /\ Meets(r.version, h.own[n][j])
    BY <1>4, <1>5
  <2>2. r = q
    BY <1>1, <1>6, <2>1 DEF IsSolution
  <2>3. QED
    BY <2>1, <2>2
<1>9. q \in world.repo[n]
  <2>1. PICK m \in world.known : q \in world.repo[m]
    BY <1>1, <1>6, <1>7
  <2>2. m \in Names
    BY <2>1 DEF World
  <2>3. QED
    BY <1>6, <2>1, <2>2, OrderlyRepo
<1>10. QED
  BY <1>8, <1>9 DEF MatchesConstraints

-----------------------------------------------------------------------------
(* What the operations do to a graph.                                      *)

LEMMA KeptAdd ==
  ASSUME NEW h \in Graph, NEW r \in Graph, NEW p \in ClosedSet(h), NEW d \in DepsOf(p),
         d \in Dependency, d.name # world.root.name, Kept(h, {}),
         r.closed = h.closed, r.conflicts = h.conflicts, r.unknown = h.unknown,
         h.closed[d.name] = None,
         r.open \subseteq h.open \cup {d.name},
         r.own[d.name] # <<>>,
         \A n \in Names \ {d.name} : r.own[n] = h.own[n],
         \A j \in DOMAIN r.own[d.name] :
           \/ r.own[d.name][j] = d.con
           \/ j \in DOMAIN h.own[d.name] /\ r.own[d.name][j] = h.own[d.name][j]
  PROVE  Kept(r, {})
<1>1. ClosedSet(r) = ClosedSet(h)
  BY DEF ClosedSet
<1>2. ASSUME NEW n \in Names
      PROVE  \A j \in DOMAIN r.own[n] : \E q \in ClosedSet(r) : \E e \in DepsOf(q) :
               e.name = n /\ e.con = r.own[n][j]
  <2>1. CASE n = d.name
    <3>1. ASSUME NEW j \in DOMAIN r.own[n]
          PROVE  \E q \in ClosedSet(h) : \E e \in DepsOf(q) : e.name = n /\ e.con = r.own[n][j]
      <4>1. CASE r.own[n][j] = d.con
        BY <2>1, <4>1
      <4>2. CASE j \in DOMAIN h.own[n] /\ r.own[n][j] = h.own[n][j]
        BY <4>2 DEF Kept
      <4>3. QED
        BY <2>1, <4>1, <4>2
    <3>2. QED
      BY <1>1, <3>1
  <2>2. CASE n # d.name
    <3>1. r.own[n] = h.own[n]
      BY <2>2
    <3>2. QED
      BY <1>1, <3>1 DEF Kept
  <2>3. QED
    BY <2>1, <2>2
<1>3. ASSUME NEW n \in Names
      PROVE  /\ r.closed[n] # None => r.closed[n] \in Packages(world) /\ r.closed[n].name = n
             /\ n \in r.open \cup {} => r.closed[n] = None /\ r.own[n] # <<>>
             /\ r.closed[n] # None /\ n # world.root.name => r.own[n] # <<>>
  <2>1. CASE n = d.name
    BY <2>1 DEF Kept
  <2>2. CASE n # d.name
    BY <2>2 DEF Kept
  <2>3. QED
    BY <2>1, <2>2
<1>4. /\ r.conflicts = {} /\ r.unknown = {}
      /\ r.closed[world.root.name] = world.root
  BY DEF Kept
<1>5. QED
  BY <1>2, <1>3, <1>4 DEF Kept

LEMMA OpenNewKept ==
  ASSUME NEW h \in Graph, NEW p \in ClosedSet(h), NEW d \in DepsOf(p), d \in Dependency,
         d.name # world.root.name, Kept(h, {}), h.own[d.name] = <<>>
  PROVE  Kept(OpenNew(h, d, p), {}) /\ OpenNew(h, d, p).closed = h.closed
<1> DEFINE r == OpenNew(h, d, p)
           q == Register(h, d, p)
<1>1. p \in Package /\ d.name \in Names /\ d.con \in Constraint
  BY ChosenType DEF Dependency
<1>2. r \in Graph /\ q \in Graph
  <2>1. \E n : n \in Names
    BY <1>1
  <2>2. QED
    BY <1>1, <2>1, GraphOpsType
<1>3. /\ q.closed = h.closed /\ q.open = h.open /\ q.own = h.own
      /\ q.conflicts = h.conflicts /\ q.unknown = h.unknown
  BY DEF Register, Graph
<1>4. r = [q EXCEPT !.own[d.name] = <<d.con>>, !.open = @ \cup {d.name}]
  BY DEF OpenNew
<1> HIDE DEF q, r
<1>5. /\ r.closed = h.closed /\ r.open = h.open \cup {d.name}
      /\ r.own = [h.own EXCEPT ![d.name] = <<d.con>>]
      /\ r.conflicts = h.conflicts /\ r.unknown = h.unknown
  BY <1>2, <1>3, <1>4 DEF Graph
<1>6. h.closed[d.name] = None
  BY <1>1 DEF Kept
<1>7. /\ r.own[d.name] = <<d.con>>
      /\ \A n \in Names \ {d.name} : r.own[n] = h.own[n]
  BY <1>1, <1>5 DEF Graph
<1>8. \A j \in DOMAIN r.own[d.name] : r.own[d.name][j] = d.con
  BY <1>7
<1>9. r.own[d.name] # <<>>
  BY <1>7
<1>10. Kept(r, {})
  BY <1>2, <1>5, <1>6, <1>7, <1>8, <1>9, KeptAdd
<1>11. QED
  BY <1>5, <1>10 DEF r

LEMMA AddConstraintKept ==
  ASSUME NEW h \in Graph, NEW p \in ClosedSet(h), NEW d \in DepsOf(p), d \in Dependency,
         d.name # world.root.name, Kept(h, {}), h.own[d.name] # <<>>,
         h.closed[d.name] = None
  PROVE  Kept(AddConstraint(h, d, p), {}) /\ AddConstraint(h, d, p).closed = h.closed
<1> DEFINE r == AddConstraint(h, d, p)
           q == Register(h, d, p)
           old == h.own[d.name]
<1>1. p \in Package /\ d.name \in Names /\ d.con \in Constraint
  BY ChosenType DEF Dependency
<1>2. r \in Graph /\ q \in Graph
  <2>1. \E n : n \in Names
    BY <1>1
  <2>2. QED
    BY <1>1, <2>1, GraphOpsType
<1>3. /\ q.closed = h.closed /\ q.open = h.open /\ q.own = h.own
      /\ q.conflicts = h.conflicts /\ q.unknown = h.unknown
  BY DEF Register, Graph
<1>4. r = [q EXCEPT !.own[d.name] = Append(@, d.con)]
  BY DEF AddConstraint
<1> HIDE DEF q, r
<1>5. /\ r.closed = h.closed /\ r.open = h.open
      /\ r.own = [h.own EXCEPT ![d.name] = Append(old, d.con)]
      /\ r.conflicts = h.conflicts /\ r.unknown = h.unknown
  BY <1>2, <1>3, <1>4 DEF Graph
<1>6. old \in Seq(Constraint) /\ h.own \in [Names -> Seq(Constraint)]
  BY <1>1 DEF Graph
<1>7. /\ r.own[d.name] = Append(old, d.con)
      /\ \A n \in Names \ {d.name} : r.own[n] = h.own[n]
  BY <1>1, <1>5, <1>6
<1>8. /\ DOMAIN old = 1..Len(old) /\ Len(old) \in Nat
      /\ DOMAIN Append(old, d.con) = 1..(Len(old) + 1)
      /\ Append(old, d.con)[Len(old) + 1] = d.con
      /\ \A j \in 1..Len(old) : Append(old, d.con)[j] = old[j]
  BY <1>1, <1>6, AppendProperties, LenProperties
<1>9. \A j \in DOMAIN r.own[d.name] :
        \/ r.own[d.name][j] = d.con
        \/ j \in DOMAIN h.own[d.name] /\ r.own[d.name][j] = h.own[d.name][j]
  BY <1>7, <1>8
<1>10. r.own[d.name] # <<>>
  BY <1>1, <1>6, <1>7, AppendProperties
<1>11. Kept(r, {})
  BY <1>2, <1>5, <1>7, <1>9, <1>10, KeptAdd
<1>12. QED
  BY <1>5, <1>11 DEF r

LEMMA RegisterKept ==
  ASSUME NEW h \in Graph, NEW d \in Dependency, NEW p, Kept(h, {})
  PROVE  /\ Kept(Register(h, d, p), {})
         /\ Register(h, d, p).closed = h.closed
<1> DEFINE q == Register(h, d, p)
<1>1. /\ q.closed = h.closed /\ q.open = h.open /\ q.own = h.own
      /\ q.conflicts = h.conflicts /\ q.unknown = h.unknown
  BY DEF Register, Graph
<1> HIDE DEF q
<1>2. Kept(q, {})
  BY <1>1 DEF Kept, ClosedSet
<1>3. QED
  BY <1>1, <1>2 DEF q

(* The newest eligible version is chosen: a solution that has a version    *)
(* still to be tried has this one, or one that is older.                   *)
LEMMA ChooseComplete ==
  ASSUME world \in World, Orderly(world), NEW f \in Frame,
         Kept(f.graph, {f.name}), f.name \notin f.graph.open,
         Untried(f), Newest(f.graph),
         NEW p \in NewestOf(Eligible(f))
  PROVE  LET r == AddClosed(f.graph, p)
         IN  /\ p \in world.repo[f.name]
             /\ ClosedSet(r) = ClosedSet(f.graph) \cup {p}
             /\ Kept(r, {})
             /\ Newest(r)
             /\ UntriedOrTaken([f EXCEPT !.tried = p])
<1> DEFINE h == f.graph
           n == f.name
           r == AddClosed(h, p)
           e == [f EXCEPT !.tried = p]
<1>1. /\ h \in Graph /\ n \in Names
      /\ e.graph = h /\ e.name = n /\ e.tried = p
  BY DEF Frame
<1>2. p \in world.repo[n] /\ p.name = n /\ p \in Package /\ p \in Packages(world) /\ p # None
  <2>1. p \in world.repo[n]
    BY DEF NewestOf, Eligible
  <2>2. QED
    BY <1>1, <2>1, OrderlyRepo, NoneAssumption
<1>3. h.closed[n] = None /\ h.own[n] # <<>> /\ h.closed \in [Names -> Package \cup {None}]
  BY <1>1 DEF Kept, Graph
<1>4. /\ r.open = h.open /\ r.own = h.own
      /\ r.conflicts = h.conflicts /\ r.unknown = h.unknown
      /\ r.closed = [h.closed EXCEPT ![n] = p]
  BY <1>1, <1>2, <1>3 DEF AddClosed, Graph
<1>5. r.closed[n] = p /\ \A m \in Names \ {n} : r.closed[m] = h.closed[m]
  BY <1>1, <1>3, <1>4
<1> HIDE DEF r, e
<1>6. ClosedSet(r) = ClosedSet(h) \cup {p}
  BY <1>1, <1>2, <1>3, <1>5 DEF ClosedSet
<1>7. n # world.root.name /\ world.root.name \in Names
  <2>1. world.root # None /\ world.root.name \in Names
    BY NoneAssumption DEF World, Package
  <2>2. QED
    BY <1>3, <2>1 DEF Kept
<1>8. Kept(r, {})
  <2>1. r.closed[world.root.name] = world.root
    BY <1>5, <1>7 DEF Kept
  <2>2. ASSUME NEW m \in Names
        PROVE  /\ r.closed[m] # None => r.closed[m] \in Packages(world) /\ r.closed[m].name = m
               /\ m \in r.open \cup {} => r.closed[m] = None /\ r.own[m] # <<>>
               /\ r.closed[m] # None /\ m # world.root.name => r.own[m] # <<>>
    <3>1. CASE m = n
      BY <3>1, <1>2, <1>3, <1>4, <1>5
    <3>2. CASE m # n
      BY <3>2, <1>4, <1>5 DEF Kept
    <3>3. QED
      BY <3>1, <3>2
  <2>3. ASSUME NEW m \in Names
        PROVE  \A j \in DOMAIN r.own[m] : \E q \in ClosedSet(r) : \E d \in DepsOf(q) :
                 d.name = m /\ d.con = r.own[m][j]
    BY <1>4, <1>6 DEF Kept
  <2>4. r.conflicts = {} /\ r.unknown = {}
    BY <1>4 DEF Kept
  <2>5. QED
    BY <2>1, <2>2, <2>3, <2>4 DEF Kept
<1>9. ASSUME NEW q \in Eligible(f)
      PROVE  /\ q \in world.repo[n] /\ q.name = n
             /\ MatchesConstraints(q.version, h.own[n])
             /\ Compare(q.version, p.version) \in Int
             /\ Compare(q.version, p.version) <= 0
             /\ Compare(q.version, p.version) = 0 => q = p
  <2>1. q \in world.repo[n] /\ MatchesConstraints(q.version, h.own[n])
    BY DEF Eligible
  <2>2. Compare(q.version, p.version) <= 0
    BY DEF NewestOf
  <2>3. QED
    BY <1>1, <1>2, <2>1, <2>2, OrderlyRepo, CompareInt
<1>10. ASSUME NEW S \in Solved(h)
       PROVE  \E q \in Eligible(f) : q \in S
  BY DEF Untried
<1>11. UntriedOrTaken(e)
  <2>1. SUFFICES ASSUME NEW S \in Solved(h) PROVE p \in S \/ Eligible(e) \cap S # {}
    BY <1>1 DEF UntriedOrTaken
  <2>2. PICK q \in Eligible(f) : q \in S
    BY <1>10
  <2>3. CASE Compare(q.version, p.version) = 0
    BY <1>9, <2>2, <2>3
  <2>4. CASE Compare(q.version, p.version) < 0
    BY <1>1, <1>9, <2>2, <2>4 DEF Eligible
  <2>5. QED
    BY <1>9, <2>3, <2>4
<1>12. Newest(r)
  <2>1. SUFFICES ASSUME NEW S \in Solving, AsNew(S, r) PROVE ClosedSet(r) \subseteq S
    BY DEF Newest
  <2>2. AsNew(S, h)
    BY <1>6, <2>1 DEF AsNew
  <2>3. S \in Solved(h)
    BY <2>2 DEF Newest, Solved
  <2>4. PICK q \in Eligible(f) : q \in S
    BY <1>10, <2>3
  <2>5. PICK t \in S : t.name = n /\ Compare(t.version, p.version) >= 0
    BY <1>2, <1>6, <2>1 DEF AsNew
  <2>6. t = q
    BY <1>9, <2>4, <2>5, SolvingType DEF IsSolution
  <2>7. q = p
    BY <1>9, <2>5, <2>6
  <2>8. QED
    BY <1>6, <2>3, <2>4, <2>7 DEF Solved
<1>13. QED
  BY <1>2, <1>6, <1>8, <1>11, <1>12 DEF r, e

(* A chosen version that refuses a dependency of a chosen package.         *)
LEMMA PinRefused ==
  ASSUME world \in World, NEW h \in Graph, Kept(h, {}),
         NEW p \in ClosedSet(h), NEW d \in DepsOf(p), d.name \in Names,
         h.closed[d.name] # None, ~PinnedAgrees(h, d)
  PROVE  Solved(h) = {}
<1> SUFFICES ASSUME NEW S \in Solved(h) PROVE FALSE
  OBVIOUS
<1>1. S \in Solving /\ IsSolution(S) /\ ClosedSet(h) \subseteq S
  BY SolvingType DEF Solved
<1>2. h.closed[d.name] \in S /\ h.closed[d.name].name = d.name
  BY <1>1 DEF ClosedSet, Kept
<1>3. PICK q \in S : q.name = d.name /\ Meets(q.version, d.con)
  BY <1>1 DEF IsSolution, DepsOf
<1>4. q = h.closed[d.name]
  BY <1>1, <1>2, <1>3 DEF IsSolution
<1>5. QED
  BY <1>3, <1>4 DEF PinnedAgrees, MatchesConstraints

-----------------------------------------------------------------------------
(* What the invariant says of values in a world that stays as it is.       *)

LEMMA SameSolutions == world' = world => Solving' = Solving
BY DEF Solving, Solutions, IsSolution

LEMMA SameKept ==
  ASSUME world' = world, NEW h, NEW pending
  PROVE  Kept(h, pending)' <=> Kept(h, pending)
BY DEF Kept, Packages, ClosedSet

LEMMA SameNewest ==
  ASSUME world' = world, NEW h
  PROVE  Newest(h)' <=> Newest(h)
BY SameSolutions DEF Newest, AsNew, ClosedSet

LEMMA SameUntried ==
  ASSUME world' = world, NEW f
  PROVE  /\ Untried(f)' <=> Untried(f)
         /\ UntriedOrTaken(f)' <=> UntriedOrTaken(f)
<1>1. Eligible(f)' = Eligible(f)
  BY DEF Eligible
<1>2. Solved(f.graph)' = Solved(f.graph)
  BY SameSolutions DEF Solved, ClosedSet
<1>3. QED
  BY <1>1, <1>2 DEF Untried, UntriedOrTaken

LEMMA SameFrame ==
  ASSUME world' = world, NEW f, NEW chosen
  PROVE  FrameComplete(f, chosen)' <=> FrameComplete(f, chosen)
<1>1. Kept(f.graph, {f.name})' <=> Kept(f.graph, {f.name})
  BY SameKept
<1>2. Newest(f.graph)' <=> Newest(f.graph)
  BY SameNewest
<1>3. (ClosedSet(f.graph) \subseteq chosen)' <=> ClosedSet(f.graph) \subseteq chosen
  BY DEF ClosedSet
<1>4. QED
  BY <1>1, <1>2, <1>3, SameUntried DEF FrameComplete

LEMMA SameGenuine ==
  ASSUME world' = world, NEW h, NEW n
  PROVE  Genuine(h, n)' <=> Genuine(h, n)
BY DEF Genuine

-----------------------------------------------------------------------------
(* The frames of the calls in progress.                                    *)

LEMMA CompleteFrame ==
  ASSUME CompletenessInv, stack # <<>>
  PROVE  /\ Len(stack) \in DOMAIN stack /\ Top \in Frame
         /\ FrameComplete(Top, Chosen(Len(stack) - 1))
<1>1. Len(stack) \in DOMAIN stack /\ Top \in Frame
  BY TopType, LenProperties DEF CompletenessInv, TypeOK
<1>2. QED
  BY <1>1 DEF CompletenessInv, FramesComplete, Top

(* A frame that stays, with the one below it                               *)
LEMMA FrameStays ==
  ASSUME CompletenessInv, world' = world, NEW i \in DOMAIN stack,
         stack'[i] = stack[i], i = 1 \/ stack'[i - 1] = stack[i - 1]
  PROVE  FrameComplete(stack[i], Chosen(i - 1))'
<1>1. i \in Nat \ {0}
  BY LenProperties DEF CompletenessInv, TypeOK
<1>2. Chosen(i - 1)' = Chosen(i - 1)
  BY <1>1 DEF Chosen, ClosedSet
<1> DEFINE f == stack[i]
           c == Chosen(i - 1)
<1>3. FrameComplete(f, c)
  BY DEF CompletenessInv, FramesComplete
<1>4. \A e, b : FrameComplete(e, b) => FrameComplete(e, b)'
  BY SameFrame
<1>5. QED
  BY <1>2, <1>3, <1>4

LEMMA KeepComplete ==
  ASSUME CompletenessInv, stack' = stack, world' = world
  PROVE  FramesComplete'
<1>1. SUFFICES ASSUME NEW i \in DOMAIN stack
               PROVE  FrameComplete(stack[i], Chosen(i - 1))'
  BY DEF FramesComplete
<1>2. QED
  BY FrameStays

LEMMA PopComplete ==
  ASSUME CompletenessInv, stack # <<>>, stack' = Popped, world' = world
  PROVE  FramesComplete'
<1>1. /\ DOMAIN stack = 1..Len(stack) /\ DOMAIN stack' = 1..(Len(stack) - 1)
      /\ Len(stack) \in Nat
      /\ \A i \in DOMAIN stack' : stack'[i] = stack[i]
  BY TopType, LenProperties DEF CompletenessInv, TypeOK
<1>2. SUFFICES ASSUME NEW i \in DOMAIN stack'
               PROVE  FrameComplete(stack[i], Chosen(i - 1))'
  BY DEF FramesComplete
<1>3. i \in DOMAIN stack /\ (i = 1 \/ i - 1 \in DOMAIN stack')
  BY <1>1, <1>2
<1>4. QED
  BY <1>1, <1>3, FrameStays

LEMMA TriedComplete ==
  ASSUME CompletenessInv, NEW p, stack # <<>>, world' = world,
         stack' = [stack EXCEPT ![Len(stack)].tried = p],
         p \in world.repo[Top.name],
         UntriedOrTaken([Top EXCEPT !.tried = p])
  PROVE  /\ FramesComplete'
         /\ Chosen(Len(stack))' = ClosedSet(Top.graph) \cup {p}
<1> DEFINE f == [Top EXCEPT !.tried = p]
           c == Chosen(Len(stack) - 1)
<1>1. /\ Len(stack) \in DOMAIN stack /\ Top \in Frame
      /\ FrameComplete(Top, c)
  BY CompleteFrame
<1>2. DOMAIN stack = 1..Len(stack) /\ Len(stack) \in Nat \ {0}
  BY <1>1, LenProperties DEF CompletenessInv, TypeOK
<1>3. f.graph = Top.graph /\ f.name = Top.name /\ f.tried = p
  BY <1>1 DEF Frame
<1>4. stack' = [stack EXCEPT ![Len(stack)] = f]
  BY DEF Top
<1>5. f \in Frame
  <2>1. p \in Package
    BY <1>1 DEF CompletenessInv, TypeOK, World, Frame
  <2>2. QED
    BY <1>1, <2>1 DEF Frame
<1> HIDE DEF f
<1>6. Len(stack') = Len(stack)
  BY <1>1, <1>2, <1>4, <1>5, ExceptSeq DEF CompletenessInv, TypeOK
<1>7. /\ DOMAIN stack' = DOMAIN stack
      /\ stack'[Len(stack)] = f
      /\ \A i \in DOMAIN stack : i # Len(stack) => stack'[i] = stack[i]
  BY <1>1, <1>4
<1>8. FrameComplete(f, c)
  BY <1>1, <1>3 DEF FrameComplete, f
<1>9. c' = c
  <2>1. CASE Len(stack) = 1
    BY <1>6, <2>1 DEF Chosen
  <2>2. CASE Len(stack) # 1
    <3>1. /\ Len(stack) - 1 # 0 /\ Len(stack) - 1 # Len(stack)
          /\ Len(stack) - 1 \in DOMAIN stack
      <4>1. \A m \in Nat \ {0} : m # 1 => m - 1 # 0 /\ m - 1 # m /\ m - 1 \in 1..m
        OBVIOUS
      <4>2. QED
        BY <1>2, <2>2, <4>1
    <3>2. stack'[Len(stack) - 1] = stack[Len(stack) - 1]
      BY <1>7, <3>1
    <3>3. QED
      BY ONLY <1>6, <3>1, <3>2, world' = world DEF Chosen, ClosedSet
  <2>3. QED
    BY <2>1, <2>2
<1> HIDE DEF c
<1>10. \A e, b : FrameComplete(e, b) => FrameComplete(e, b)'
  BY SameFrame
<1>11. ASSUME NEW i \in DOMAIN stack
      PROVE  FrameComplete(stack[i], Chosen(i - 1))'
  <2>1. CASE i = Len(stack)
    <3>1. FrameComplete(stack[Len(stack)], Chosen(Len(stack) - 1))'
      BY <1>7, <1>8, <1>9, <1>10, <1>6 DEF c
    <3>2. QED
      BY <2>1, <3>1
  <2>2. CASE i # Len(stack)
    BY <1>2, <1>7, <2>2, FrameStays
  <2>3. QED
    BY <2>1, <2>2
<1>12. FramesComplete'
  BY <1>7, <1>11 DEF FramesComplete
<1>13. Chosen(Len(stack))' = ClosedSet(Top.graph) \cup {p}
  <2>1. Len(stack) # 0 /\ Len(stack)' = Len(stack)
    BY <1>2, <1>6
  <2>2. stack'[Len(stack)].graph = Top.graph /\ stack'[Len(stack)].tried = p
    BY <1>3, <1>7
  <2>3. QED
    BY ONLY <2>1, <2>2 DEF Chosen, ClosedSet
<1>14. QED
  BY <1>12, <1>13

LEMMA PushComplete ==
  ASSUME CompletenessInv, Orderly(world), ResolvePop
  PROVE  FramesComplete' /\ Untried(Top)'
<1>1. PICK n \in LastOpen(g) :
        stack' = Append(stack, [graph |-> [g EXCEPT !.open = @ \ {n}],
                                name |-> n, tried |-> None])
  BY DEF ResolvePop
<1> DEFINE h == [g EXCEPT !.open = @ \ {n}]
           f == [graph |-> h, name |-> n, tried |-> None]
           m == Len(stack)
<1>2. /\ g \in Graph /\ n \in Names /\ n \in g.open
      /\ world \in World /\ world' = world /\ stack \in Seq(Frame) /\ m \in Nat
      /\ Kept(g, {}) /\ Newest(g) /\ ClosedSet(g) \subseteq Chosen(m)
  BY <1>1, LenProperties
     DEF ResolvePop, LastOpen, Graph, CompletenessInv, TypeOK, HandComplete
<1>3. /\ h.closed = g.closed /\ h.own = g.own /\ h.open = g.open \ {n}
      /\ h.conflicts = g.conflicts /\ h.unknown = g.unknown /\ h \in Graph
  BY <1>2 DEF Graph
<1>4. f.graph = h /\ f.name = n /\ f.tried = None /\ f \in Frame
  BY <1>2, <1>3 DEF Frame
<1>5. stack' = Append(stack, f)
  BY <1>1
<1> HIDE DEF h, f, m
<1>6. /\ DOMAIN stack = 1..m /\ Len(stack') = m + 1 /\ DOMAIN stack' = 1..(m + 1)
      /\ stack'[m + 1] = f /\ \A i \in 1..m : stack'[i] = stack[i]
  <2>1. stack' \in Seq(Frame)
    BY <1>2, <1>4, <1>5, AppendProperties
  <2>2. QED
    BY <1>2, <1>4, <1>5, <2>1, AppendProperties, LenProperties DEF m
<1>7. ClosedSet(h) = ClosedSet(g)
  BY <1>3 DEF ClosedSet
<1>8. Kept(h, {n})
  <2>1. h.open \cup {n} = g.open
    BY <1>2, <1>3
  <2>2. QED
    BY <1>2, <1>3, <1>7, <2>1 DEF Kept
<1>9. Newest(h)
  BY <1>2, <1>7 DEF Newest, AsNew
<1>10. Untried(f)
  <2>1. ASSUME NEW S \in Solved(h) PROVE Eligible(f) \cap S # {}
    <3>1. PICK q \in S : q \in world.repo[n] /\ MatchesConstraints(q.version, h.own[n])
      BY <1>2, <1>3, <1>8, SolutionHas
    <3>2. q \in Eligible(f)
      BY <1>4, <3>1 DEF Eligible
    <3>3. QED
      BY <3>1, <3>2
  <2>2. QED
    BY <1>4, <2>1 DEF Untried
<1>11. FrameComplete(f, Chosen(m))
  BY <1>2, <1>3, <1>4, <1>7, <1>8, <1>9, <1>10 DEF FrameComplete, Untried, UntriedOrTaken
<1>12. ASSUME NEW i \in DOMAIN stack'
       PROVE  FrameComplete(stack[i], Chosen(i - 1))'
  <2>1. CASE i = m + 1
    <3>1. i - 1 = m /\ stack'[i] = f
      BY <1>2, <1>6, <2>1
    <3>2. i - 1 = 0 \/ i - 1 \in 1..m
      <4>1. \A x \in Nat : x = 0 \/ x \in 1..x
        OBVIOUS
      <4>2. QED
        BY <1>2, <3>1, <4>1
    <3>3. Chosen(i - 1)' = Chosen(i - 1)
      BY <1>2, <1>6, <3>2 DEF Chosen, ClosedSet
    <3>4. FrameComplete(f, Chosen(i - 1))
      BY <1>11, <3>1
    <3>5. \A e, c : FrameComplete(e, c) => FrameComplete(e, c)'
      BY <1>2, SameFrame
    <3>6. QED
      BY <3>1, <3>3, <3>4, <3>5
  <2>2. CASE i # m + 1
    <3>1. i \in DOMAIN stack /\ (i = 1 \/ i - 1 \in 1..m)
      BY <1>2, <1>6, <2>2
    <3>2. QED
      BY <1>2, <1>6, <3>1, FrameStays
  <2>3. QED
    BY <2>1, <2>2
<1>13. FramesComplete'
  BY <1>12 DEF FramesComplete
<1>14. Untried(Top)'
  <2>1. Top' = f
    BY <1>6 DEF Top
  <2>2. \A e : Untried(e) => Untried(e)'
    BY <1>2, SameUntried
  <2>3. QED
    BY <1>10, <2>1, <2>2
<1>15. QED
  BY <1>13, <1>14

-----------------------------------------------------------------------------
(* What is in hand.                                                        *)

LEMMA HandAdding ==
  ASSUME CompletenessInv, Orderly(world), Adding
  PROVE  /\ world \in World /\ g \in Graph /\ pkg \in Package
         /\ pkg \in ClosedSet(g) /\ Kept(g, {}) /\ Newest(g)
         /\ ClosedSet(g) \subseteq Chosen(Len(stack))
         /\ Dep \in Dependency /\ Dep.name \in Names /\ Dep \in DepsOf(pkg)
         /\ k \in DOMAIN AllDeps(pkg)
         /\ Dep.name # world.root.name
<1>1. /\ world \in World /\ g \in Graph /\ pkg \in Package
      /\ pkg \in ClosedSet(g) /\ Kept(g, {}) /\ Newest(g)
      /\ ClosedSet(g) \subseteq Chosen(Len(stack))
      /\ Dep \in Dependency /\ Dep.name \in Names
  BY DepType DEF CompletenessInv, TypeOK, HandComplete, Adding
<1>2. k \in DOMAIN AllDeps(pkg)
  BY <1>1, AllDepsType, LenProperties DEF Adding, CompletenessInv, TypeOK
<1>3. Dep \in DepsOf(pkg)
  BY <1>2 DEF DepsOf, Dep
<1>4. pkg \in Packages(world)
  BY <1>1 DEF Kept, ClosedSet
<1>5. QED
  BY <1>1, <1>2, <1>3, <1>4 DEF Orderly

(* The graph in hand and those of the calls, when no call begins or ends   *)
LEMMA HandStays ==
  ASSUME CompletenessInv, world' = world, stack' = stack, TypeOK',
         NEW r, g' = r, Kept(r, {}), Newest(r), r.closed = g.closed,
         ClosedSet(g) \subseteq Chosen(Len(stack)),
         pc' = "add" \/ pc' = "resolve", pc' = "add" => pkg' \in ClosedSet(g)
  PROVE  CompletenessInv'
<1>1. Chosen(Len(stack))' = Chosen(Len(stack)) /\ ClosedSet(r) = ClosedSet(g)
  BY DEF Chosen, ClosedSet
<1>2. \A h : (Kept(h, {}) => Kept(h, {})') /\ (Newest(h) => Newest(h)')
  BY SameKept, SameNewest
<1>3. Kept(g, {})' /\ Newest(g)'
  BY <1>2
<1>4. ClosedSet(g)' = ClosedSet(g)
  BY <1>1 DEF ClosedSet
<1>5. HandComplete'
  BY <1>1, <1>3, <1>4 DEF HandComplete
<1>6. Blames'
  BY DEF Blames
<1>7. QED
  BY <1>5, <1>6, KeepComplete DEF CompletenessInv

LEMMA AddedComplete ==
  ASSUME CompletenessInv, Orderly(world), Adding, TypeOK',
         NEW r, Added(r), Kept(r, {}), r.closed = g.closed
  PROVE  CompletenessInv'
<1>1. /\ Newest(g) /\ pkg \in ClosedSet(g)
      /\ ClosedSet(g) \subseteq Chosen(Len(stack))
  BY HandAdding
<1>2. Newest(r)
  BY <1>1 DEF Newest, AsNew, ClosedSet
<1>3. QED
  BY <1>1, <1>2, HandStays DEF Added, Adding

(* A solution that takes everything chosen inside the innermost call, or   *)
(* any solution when no call is in progress                                *)
Covers(S) == S \in Solving /\ Chosen(Len(stack)) \subseteq S

LEMMA AllCover ==
  ASSUME world \in World, stack = <<>>, NEW S \in Solving
  PROVE  Covers(S)
BY SolvingType DEF Covers, Chosen, IsSolution

LEMMA TakenCover ==
  ASSUME stack # <<>>, stack \in Seq(Frame), NEW S \in Solved(Top.graph), Top.tried \in S
  PROVE  Covers(S)
<1>1. Len(stack) # 0
  BY EmptySeq
<1>2. QED
  BY <1>1 DEF Covers, Chosen, Solved, Top

(* When nothing covers what was tried last, something else is untried.     *)
LEMMA TriedInVain ==
  ASSUME CompletenessInv, \A S : ~Covers(S)
  PROVE  /\ stack = <<>> => Solving = {}
         /\ stack # <<>> => Untried(Top)
<1>1. world \in World /\ stack \in Seq(Frame)
  BY DEF CompletenessInv, TypeOK
<1>2. CASE stack = <<>>
  BY <1>1, <1>2, AllCover
<1>3. CASE stack # <<>>
  <2>1. UntriedOrTaken(Top)
    BY <1>3, CompleteFrame DEF FrameComplete
  <2>2. \A S \in Solved(Top.graph) : Top.tried \notin S
    BY <1>1, <1>3, TakenCover
  <2>3. QED
    BY <1>3, <2>1, <2>2 DEF UntriedOrTaken, Untried
<1>4. QED
  BY <1>2, <1>3

LEMMA PinnedInVain ==
  ASSUME CompletenessInv, Orderly(world), PinnedConflicts
  PROVE  \A S : ~Covers(S)
<1>1. Adding /\ g.closed[Dep.name] # None /\ ~PinnedAgrees(g, Dep)
  BY DEF PinnedConflicts
<1>2. Solved(g) = {}
  BY <1>1, HandAdding, PinRefused
<1>3. ClosedSet(g) \subseteq Chosen(Len(stack))
  BY <1>1, HandAdding
<1>4. QED
  BY <1>2, <1>3 DEF Covers, Solved

(* The name that a chosen version is refused for is in conflict.           *)
LEMMA PinnedBlames ==
  ASSUME CompletenessInv, Orderly(world), PinnedConflicts
  PROVE  InConflict'
<1> DEFINE n == Dep.name
           q == Register(g, Dep, pkg)
           r == AddConflict(q, n)
<1>1. /\ Adding /\ g.closed[n] # None /\ ~PinnedAgrees(g, Dep)
      /\ g' = r /\ world' = world
  BY DEF PinnedConflicts
<1>2. /\ g \in Graph /\ pkg \in Package /\ n \in Names /\ Dep \in Dependency
      /\ Kept(g, {}) /\ k \in DOMAIN AllDeps(pkg)
  BY <1>1, HandAdding
<1>3. q \in Graph
  BY <1>2, GraphOpsType
<1>4. q.closed = g.closed /\ q.conflicts = {} /\ q.unknown = {}
  BY <1>2 DEF Register, Graph, Kept
<1>5. pkg \in q.by[n]
  <2>1. q.by = [g.by EXCEPT ![n] = @ \cup {pkg}] /\ g.by \in [Names -> SUBSET Package]
    BY <1>2 DEF Register, Graph
  <2>2. QED
    BY <1>2, <2>1
<1> HIDE DEF q
<1>6. /\ r.closed = g.closed /\ r.conflicts = {n} /\ r.unknown = {} /\ pkg \in r.by[n]
  BY <1>3, <1>4, <1>5 DEF AddConflict, Graph
<1>7. AllDeps(pkg)[k].name = n /\ ~Meets(g.closed[n].version, AllDeps(pkg)[k].con)
  BY <1>1 DEF Dep, PinnedAgrees, MatchesConstraints
<1> HIDE DEF n, r
<1>8. Genuine(r, n)
  BY <1>1, <1>2, <1>6, <1>7 DEF Genuine
<1>9. PICK h, m : h = r /\ m = n
  OBVIOUS
<1>10. Genuine(h, m)'
  BY <1>1, <1>8, <1>9, SameGenuine
<1>11. QED
  BY <1>1, <1>2, <1>6, <1>9, <1>10 DEF InConflict

LEMMA ConflictsKept ==
  ASSUME CompletenessInv, Orderly(world), PinnedConflicts, TypeOK', world' = world
  PROVE  CompletenessInv'
<1>1. FramesComplete'
  BY KeepComplete DEF PinnedConflicts
<1>2. InConflict' /\ g' # None
  BY PinnedBlames, NoneAssumption, GraphOpsType, HandAdding DEF PinnedConflicts
<1>3. /\ stack = <<>> => Solving = {}
      /\ stack # <<>> => Untried(Top)
  BY PinnedInVain, TriedInVain
<1>4. CASE stack # <<>>
  <2>1. pc' = "search" /\ stack' = stack
    BY <1>4 DEF PinnedConflicts
  <2>2. Top' = Top
    BY <2>1 DEF Top
  <2>3. \A f : Untried(f) => Untried(f)'
    BY SameUntried
  <2>4. Untried(Top)'
    BY <1>3, <1>4, <2>2, <2>3
  <2>5. HandComplete' /\ Blames'
    BY <1>2, <2>1, <2>4 DEF HandComplete, Blames
  <2>6. QED
    BY <1>1, <2>5 DEF CompletenessInv
<1>5. CASE stack = <<>>
  <2>1. pc' = "done" /\ stack' = <<>>
    BY <1>5 DEF PinnedConflicts
  <2>2. NoneLeft'
    BY <1>3, <1>5, <2>1, SameSolutions DEF NoneLeft
  <2>3. /\ Adding /\ Kept(g, {}) /\ Newest(g) /\ Dep.name \in Names /\ g \in Graph
        /\ g' = AddConflict(Register(g, Dep, pkg), Dep.name)
    BY HandAdding DEF PinnedConflicts
  <2>4. g'.closed = g.closed
    BY <2>3 DEF AddConflict, Register, Graph
  <2>5. PICK h : h = g'
    OBVIOUS
  <2>6. Newest(h)
    BY <2>3, <2>4, <2>5 DEF Newest, AsNew, ClosedSet
  <2>7. Newest(g)'
    BY <2>5, <2>6, SameNewest
  <2>8. HandComplete' /\ Blames'
    BY <1>2, <2>1, <2>2, <2>7 DEF HandComplete, Blames
  <2>9. QED
    BY <1>1, <2>8 DEF CompletenessInv
<1>6. QED
  BY <1>4, <1>5

LEMMA EmptyKept ==
  ASSUME CompletenessInv, ResolveEmpty, TypeOK', world' = world
  PROVE  CompletenessInv'
<1>1. /\ Kept(g, {}) /\ Newest(g) /\ g' = g /\ stack' = stack
      /\ pc' = "return" /\ status' = "SUCCESS"
  BY DEF ResolveEmpty, CompletenessInv, HandComplete
<1>2. \A h : Newest(h) => Newest(h)'
  BY SameNewest
<1>3. Newest(g)'
  BY <1>1, <1>2
<1>4. HandComplete' /\ Blames'
  BY <1>1, <1>3 DEF HandComplete, Blames, Kept
<1>5. QED
  BY <1>1, <1>4, KeepComplete DEF CompletenessInv

LEMMA PopKept ==
  ASSUME CompletenessInv, Orderly(world), ResolvePop, TypeOK', world' = world
  PROVE  CompletenessInv'
<1>1. FramesComplete' /\ Untried(Top)'
  BY PushComplete
<1>2. pc' = "search" /\ g' = None
  BY DEF ResolvePop
<1>3. Top'.tried = None
  <2>1. PICK f \in Frame : stack' = Append(stack, f) /\ f.tried = None
    <3>1. PICK n \in LastOpen(g) :
            stack' = Append(stack, [graph |-> [g EXCEPT !.open = @ \ {n}],
                                    name |-> n, tried |-> None])
      BY DEF ResolvePop
    <3>2. PICK f \in Frame : stack' = Append(stack, f)
      BY PushType DEF CompletenessInv
    <3>3. stack \in Seq(Frame) /\ f \in Frame
      BY <3>2 DEF CompletenessInv, TypeOK
    <3>4. stack'[Len(stack) + 1] = f
      BY <3>2, <3>3, AppendProperties
    <3>5. stack'[Len(stack) + 1].tried = None
      BY <3>1, <3>3
    <3>6. QED
      BY <3>2, <3>4, <3>5
  <2>2. stack \in Seq(Frame)
    BY DEF CompletenessInv, TypeOK
  <2>3. Len(stack') = Len(stack) + 1 /\ stack'[Len(stack) + 1] = f
    BY <2>1, <2>2, AppendProperties
  <2>4. QED
    BY <2>1, <2>3 DEF Top
<1>4. HandComplete' /\ Blames'
  BY <1>1, <1>2, <1>3 DEF HandComplete, Blames
<1>5. QED
  BY <1>1, <1>4 DEF CompletenessInv

LEMMA UnknownKept ==
  ASSUME CompletenessInv, FindUnknown, TypeOK', world' = world
  PROVE  CompletenessInv'
<1>1. /\ pc = "search" /\ stack # <<>> /\ stack' = Popped /\ pc' = "return"
      /\ status' = "UNKNOWN" /\ g' = AddUnknown(Top.graph, Top.name)
      /\ Top.name \notin world.known
  BY DEF FindUnknown, ReturnWith, CompletenessInv, TypeOK
<1>2. Top \in Frame /\ Kept(Top.graph, {Top.name})
  BY <1>1, CompleteFrame DEF FrameComplete
<1>3. Top.name \in Names /\ g'.conflicts = {} /\ g'.unknown = {Top.name}
  BY <1>1, <1>2 DEF Frame, AddUnknown, Kept, Graph
<1>4. HandComplete'
  BY <1>1 DEF HandComplete
<1>5. Blames'
  BY <1>1, <1>3 DEF Blames
<1>6. QED
  BY <1>1, <1>4, <1>5, PopComplete DEF CompletenessInv

(* No version is left, so no solution agrees with the graph of the call;   *)
(* and none with the version that the call before it took.                 *)
LEMMA NoMatchLeaves ==
  ASSUME CompletenessInv, FindNoMatch, world' = world
  PROVE  NoneLeft'
<1>1. /\ pc = "search" /\ stack # <<>> /\ stack' = Popped /\ Eligible(Top) = {}
      /\ world \in World /\ stack \in Seq(Frame)
  BY DEF FindNoMatch, ReturnWith, CompletenessInv, TypeOK
<1>2. Untried(Top) /\ ClosedSet(Top.graph) \subseteq Chosen(Len(stack) - 1)
  BY <1>1, CompleteFrame DEF CompletenessInv, HandComplete, FrameComplete
<1>3. ASSUME NEW S \in Solving PROVE ~(Chosen(Len(stack) - 1) \subseteq S)
  BY <1>1, <1>2 DEF Untried, Solved
<1>4. /\ Len(stack) \in Nat \ {0} /\ Len(Popped) = Len(stack) - 1 /\ Popped \in Seq(Frame)
      /\ \A i \in 1..Len(Popped) : Popped[i] = stack[i]
  BY <1>1, TopType, LenProperties
<1>5. CASE Popped = <<>>
  <2>1. Len(stack) - 1 = 0
    BY <1>4, <1>5
  <2>2. Chosen(Len(stack) - 1) = {world.root}
    BY <2>1 DEF Chosen
  <2>3. Solving = {}
    BY <1>1, <1>3, <2>2, SolvingType DEF IsSolution
  <2>4. QED
    BY <1>1, <1>5, <2>3, SameSolutions DEF NoneLeft
<1>6. CASE Popped # <<>>
  <2>1. /\ Len(Popped) \in 1..Len(Popped) /\ Len(stack) - 1 # 0
        /\ Popped[Len(Popped)] = stack[Len(stack) - 1]
    BY <1>4, <1>6, LenProperties, EmptySeq
  <2>2. PICK f : f = stack[Len(stack) - 1]
    OBVIOUS
  <2>3. Chosen(Len(stack) - 1) = ClosedSet(f.graph) \cup {f.tried}
    BY <2>1, <2>2 DEF Chosen
  <2>4. \A S \in Solved(f.graph) : f.tried \notin S
    BY <1>3, <2>3 DEF Solved
  <2>5. Solved(f.graph)' = Solved(f.graph)
    BY SameSolutions DEF Solved, ClosedSet
  <2>6. Top' = f
    BY <1>1, <2>1, <2>2 DEF Top
  <2>7. \A S \in Solved(Top.graph)' : Top'.tried \notin S
    BY <2>4, <2>5, <2>6
  <2>8. QED
    BY <1>1, <1>6, <2>7 DEF NoneLeft
<1>7. QED
  BY <1>5, <1>6

LEMMA NoMatchBlames ==
  ASSUME CompletenessInv, FindNoMatch, world' = world
  PROVE  InConflict'
<1>1. /\ pc = "search" /\ stack # <<>> /\ Eligible(Top) = {}
      /\ \/ g # None /\ g' = g
         \/ g = None /\ g' = AddConflict(Top.graph, Top.name)
  BY DEF FindNoMatch, ReturnWith, CompletenessInv, TypeOK
<1>2. IF g = None THEN Top.tried = None ELSE InConflict
  BY <1>1 DEF CompletenessInv, Blames
<1>3. CASE g # None
  <2>1. PICK n \in Names : g.conflicts = {n} /\ g.unknown = {} /\ Genuine(g, n)
    BY <1>2, <1>3 DEF InConflict
  <2>2. PICK h : h = g
    OBVIOUS
  <2>3. Genuine(h, n)'
    BY <2>1, <2>2, SameGenuine
  <2>4. g' = h
    BY <1>1, <1>3, <2>2
  <2>5. QED
    BY <2>1, <2>2, <2>3, <2>4 DEF InConflict
<1>4. CASE g = None
  <2>1. PICK f \in Frame : f = Top
    BY <1>1, CompleteFrame
  <2>2. /\ f.tried = None /\ f.name \in Names /\ f.graph \in Graph
        /\ Kept(f.graph, {f.name}) /\ Eligible(f) = {}
    BY <1>1, <1>2, <1>4, <2>1, CompleteFrame DEF FrameComplete, Frame
  <2>3. PICK h : h = AddConflict(f.graph, f.name)
    OBVIOUS
  <2>4. /\ h.closed = f.graph.closed /\ h.own = f.graph.own
        /\ h.conflicts = {f.name} /\ h.unknown = {}
    BY <2>2, <2>3 DEF AddConflict, Graph, Kept
  <2>5. h.closed[f.name] = None
    BY <2>2, <2>4 DEF Kept
  <2>6. Genuine(h, f.name)
    BY <2>2, <2>4, <2>5 DEF Genuine, Eligible
  <2>7. Genuine(h, f.name)'
    BY <2>6, SameGenuine
  <2>8. g' = h
    BY <1>1, <1>4, <2>1, <2>3
  <2>9. QED
    BY <2>2, <2>4, <2>7, <2>8 DEF InConflict
<1>5. QED
  BY <1>3, <1>4

LEMMA NoMatchKept ==
  ASSUME CompletenessInv, FindNoMatch, TypeOK', world' = world
  PROVE  CompletenessInv'
<1>1. /\ stack # <<>> /\ stack' = Popped /\ pc' = "return" /\ status' = "CONFLICT"
  BY DEF FindNoMatch, ReturnWith, CompletenessInv, TypeOK
<1>2. HandComplete'
  BY <1>1, NoMatchLeaves DEF HandComplete
<1>3. Blames'
  BY <1>1, NoMatchBlames DEF Blames
<1>4. QED
  BY <1>1, <1>2, <1>3, PopComplete DEF CompletenessInv

LEMMA ChoiceKept ==
  ASSUME CompletenessInv, Orderly(world), FindOK, TypeOK', world' = world
  PROVE  CompletenessInv'
<1>1. PICK p \in NewestOf(Eligible(Top)) :
        /\ stack' = [stack EXCEPT ![Len(stack)].tried = p]
        /\ g' = AddClosed(Top.graph, p)
        /\ pkg' = p
  BY DEF FindOK
<1>2. pc = "search" /\ pc' = "add" /\ stack # <<>> /\ world \in World
  BY DEF FindOK, CompletenessInv, TypeOK
<1>3. PICK f \in Frame : f = Top
  BY <1>2, CompleteFrame
<1>4. /\ Kept(f.graph, {f.name}) /\ f.name \notin f.graph.open
      /\ Untried(f) /\ Newest(f.graph)
  BY <1>2, <1>3, CompleteFrame DEF FrameComplete, CompletenessInv, HandComplete
<1>5. PICK r : r = AddClosed(f.graph, p)
  OBVIOUS
<1>6. /\ p \in world.repo[f.name]
      /\ ClosedSet(r) = ClosedSet(f.graph) \cup {p}
      /\ Kept(r, {}) /\ Newest(r)
      /\ UntriedOrTaken([f EXCEPT !.tried = p])
  BY <1>1, <1>2, <1>3, <1>4, <1>5, ChooseComplete
<1>7. FramesComplete' /\ Chosen(Len(stack))' = ClosedSet(f.graph) \cup {p}
  BY <1>1, <1>2, <1>3, <1>6, TriedComplete
<1>8. g' = r
  BY <1>1, <1>3, <1>5
<1>9. Kept(r, {})' /\ Newest(r)'
  BY <1>6, SameKept, SameNewest
<1>10. Kept(g, {})' /\ Newest(g)'
  BY <1>8, <1>9
<1>11. ClosedSet(g)' = ClosedSet(r)
  BY <1>8 DEF ClosedSet
<1>12. HandComplete'
  BY <1>1, <1>2, <1>6, <1>7, <1>10, <1>11 DEF HandComplete
<1>13. Blames'
  BY <1>2 DEF Blames
<1>14. QED
  BY <1>7, <1>12, <1>13 DEF CompletenessInv

(* An answer that is handed on, or back, says the same.                    *)
LEMMA SameInConflict ==
  ASSUME world' = world, g' = g, InConflict
  PROVE  InConflict'
<1>1. PICK n \in Names : g.conflicts = {n} /\ g.unknown = {} /\ Genuine(g, n)
  BY DEF InConflict
<1>2. PICK h : h = g
  OBVIOUS
<1>3. Genuine(h, n)'
  BY <1>1, <1>2, SameGenuine
<1>4. QED
  BY <1>1, <1>2, <1>3 DEF InConflict

LEMMA ReturnKept ==
  ASSUME CompletenessInv, ReturnToCaller \/ PassAnswerOn, TypeOK', world' = world
  PROVE  CompletenessInv'
<1>1. /\ pc = "return" /\ g' = g /\ status' = status
      /\ \/ stack = <<>> /\ stack' = stack /\ pc' = "done"
         \/ stack # <<>> /\ stack' = Popped /\ status # "CONFLICT" /\ pc' = "return"
  BY DEF ReturnToCaller, PassAnswerOn
<1>2. FramesComplete'
  BY <1>1, KeepComplete, PopComplete
<1>3. ASSUME status = "CONFLICT" PROVE NoneLeft'
  BY <1>1, <1>3, SameSolutions DEF CompletenessInv, HandComplete, NoneLeft
<1>4. ASSUME status = "SUCCESS"
      PROVE  Newest(g)'
  <2>1. Newest(g)
    BY <1>1, <1>4 DEF CompletenessInv, HandComplete
  <2>2. \A h : Newest(h) => Newest(h)'
    BY SameNewest
  <2>3. QED
    BY <1>1, <2>1, <2>2
<1>5. HandComplete'
  BY <1>1, <1>3, <1>4 DEF HandComplete
<1>6. Blames'
  <2>1. \/ status = "SUCCESS" /\ g.conflicts = {} /\ g.unknown = {}
        \/ /\ status = "UNKNOWN" /\ g.conflicts = {}
           /\ \E n \in Names \ world.known : g.unknown = {n}
        \/ status = "CONFLICT" /\ InConflict
    BY <1>1 DEF CompletenessInv, Blames
  <2>2. InConflict => InConflict'
    BY <1>1, SameInConflict
  <2>3. QED
    BY <1>1, <2>1, <2>2 DEF Blames
<1>7. QED
  BY <1>2, <1>5, <1>6 DEF CompletenessInv

LEMMA OlderKept ==
  ASSUME CompletenessInv, TryOlder, TypeOK', world' = world
  PROVE  CompletenessInv'
<1>1. /\ pc = "return" /\ status = "CONFLICT" /\ stack # <<>>
      /\ pc' = "search" /\ g' = g /\ stack' = stack
  BY DEF TryOlder
<1>2. NoneLeft /\ InConflict /\ g # None
  BY <1>1, NoneAssumption DEF CompletenessInv, HandComplete, Blames, TypeOK
<1>3. PICK f : f = Top
  OBVIOUS
<1>4. UntriedOrTaken(f)
  BY <1>1, <1>3, CompleteFrame DEF FrameComplete
<1>5. \A S \in Solved(f.graph) : f.tried \notin S
  BY <1>1, <1>2, <1>3 DEF NoneLeft
<1>6. Untried(f)
  BY <1>4, <1>5 DEF UntriedOrTaken, Untried
<1>7. Untried(f)'
  BY <1>6, SameUntried
<1>8. Top' = f
  BY <1>1, <1>3 DEF Top
<1>9. HandComplete'
  BY <1>1, <1>7, <1>8 DEF HandComplete
<1>10. Blames'
  BY <1>1, <1>2, SameInConflict DEF Blames
<1>11. QED
  BY <1>1, <1>9, <1>10, KeepComplete DEF CompletenessInv

LEMMA StutterKept ==
  ASSUME CompletenessInv, UNCHANGED vars
  PROVE  CompletenessInv'
<1>1. /\ world' = world /\ stack' = stack /\ g' = g /\ pc' = pc /\ pkg' = pkg
      /\ k' = k /\ status' = status
  BY DEF vars
<1>2. TypeOK'
  BY <1>1, NextType DEF CompletenessInv
<1>3. \A h : Newest(h) <=> Newest(h)'
  BY <1>1, SameNewest
<1>4. \A h : Kept(h, {}) <=> Kept(h, {})'
  BY <1>1, SameKept
<1>5. \A f : Untried(f) <=> Untried(f)'
  BY <1>1, SameUntried
<1>6. NoneLeft' <=> NoneLeft
  <2>1. Top' = Top
    BY <1>1 DEF Top
  <2>2. Solved(Top.graph)' = Solved(Top.graph)
    BY <1>1, <2>1, SameSolutions DEF Solved, ClosedSet
  <2>3. QED
    BY <1>1, <2>1, <2>2, SameSolutions DEF NoneLeft
<1>7. /\ (Newest(g)' <=> Newest(g)) /\ (Kept(g, {})' <=> Kept(g, {}))
      /\ (Untried(Top)' <=> Untried(Top)) /\ Top' = Top
      /\ Chosen(Len(stack))' = Chosen(Len(stack)) /\ ClosedSet(g)' = ClosedSet(g)
  <2>1. Top' = Top
    BY <1>1 DEF Top
  <2>2. QED
    BY <1>1, <1>3, <1>4, <1>5, <2>1 DEF Chosen, ClosedSet
<1>8. HandComplete'
  BY <1>1, <1>6, <1>7 DEF CompletenessInv, HandComplete
<1>9. Blames'
  BY <1>1, <1>7, SameInConflict DEF CompletenessInv, Blames
<1>10. QED
  BY <1>1, <1>2, <1>8, <1>9, KeepComplete DEF CompletenessInv

LEMMA NextComplete == Orderly(world) /\ CompletenessInv /\ [Next]_vars => CompletenessInv'
<1> SUFFICES ASSUME Orderly(world), CompletenessInv, [Next]_vars
             PROVE  CompletenessInv'
  OBVIOUS
<1>a. TypeOK' /\ world' = world
  BY NextType, WorldKept DEF CompletenessInv
<1>1. CASE AddNewDependency
  <2>1. Adding /\ g.own[Dep.name] = <<>> /\ Added(OpenNew(g, Dep, pkg))
    BY <1>1 DEF AddNewDependency
  <2>2. Kept(OpenNew(g, Dep, pkg), {}) /\ OpenNew(g, Dep, pkg).closed = g.closed
    BY <2>1, HandAdding, OpenNewKept
  <2>3. QED
    BY <1>a, <2>1, <2>2, AddedComplete
<1>2. CASE AppendConstraints
  <2>1. /\ Adding /\ g.own[Dep.name] # <<>> /\ g.closed[Dep.name] = None
        /\ Added(AddConstraint(g, Dep, pkg))
    BY <1>2 DEF AppendConstraints
  <2>2. /\ Kept(AddConstraint(g, Dep, pkg), {})
        /\ AddConstraint(g, Dep, pkg).closed = g.closed
    BY <2>1, HandAdding, AddConstraintKept
  <2>3. QED
    BY <1>a, <2>1, <2>2, AddedComplete
<1>3. CASE PinnedMatches
  <2>1. Adding /\ Added(Register(g, Dep, pkg))
    BY <1>3 DEF PinnedMatches
  <2>2. Kept(Register(g, Dep, pkg), {}) /\ Register(g, Dep, pkg).closed = g.closed
    BY <2>1, HandAdding, RegisterKept
  <2>3. QED
    BY <1>a, <2>1, <2>2, AddedComplete
<1>4. CASE PinnedConflicts
  BY <1>a, <1>4, ConflictsKept
<1>5. CASE DepsAdded
  <2>1. /\ Kept(g, {}) /\ Newest(g) /\ ClosedSet(g) \subseteq Chosen(Len(stack))
        /\ g' = g /\ stack' = stack /\ pc' = "resolve"
    BY <1>5 DEF DepsAdded, CompletenessInv, HandComplete
  <2>2. QED
    BY <1>a, <2>1, HandStays
<1>6. CASE ResolveEmpty
  BY <1>a, <1>6, EmptyKept
<1>7. CASE ResolvePop
  BY <1>a, <1>7, PopKept
<1>8. CASE FindUnknown
  BY <1>a, <1>8, UnknownKept
<1>9. CASE FindNoMatch
  BY <1>a, <1>9, NoMatchKept
<1>10. CASE FindOK
  BY <1>a, <1>10, ChoiceKept
<1>11. CASE ReturnToCaller \/ PassAnswerOn
  BY <1>a, <1>11, ReturnKept
<1>12. CASE TryOlder
  BY <1>a, <1>12, OlderKept
<1>13. CASE UNCHANGED vars
  BY <1>13, StutterKept
<1>14. QED
  BY <1>1, <1>2, <1>3, <1>4, <1>5, <1>6, <1>7, <1>8, <1>9, <1>10, <1>11, <1>12,
     <1>13 DEF Next

LEMMA InitComplete == Init => CompletenessInv
<1> SUFFICES ASSUME Init PROVE CompletenessInv
  OBVIOUS
<1>1. TypeOK /\ world \in World /\ world.root \in Package /\ world.root.name \in Names
  BY InitType DEF TypeOK, World, Package
<1>2. /\ g.closed = [n \in Names |-> IF n = world.root.name THEN world.root ELSE None]
      /\ g.open = {} /\ g.own = [n \in Names |-> <<>>]
      /\ g.conflicts = {} /\ g.unknown = {}
  BY <1>1 DEF Init, AddClosed, EmptyGraph
<1>3. world.root # None
  BY <1>1, NoneAssumption
<1>4. ClosedSet(g) = {world.root}
  BY <1>1, <1>2, <1>3 DEF ClosedSet
<1>5. Kept(g, {})
  BY <1>1, <1>2 DEF Kept, Packages
<1>6. Newest(g)
  BY <1>1, <1>4, SolvingType DEF Newest, IsSolution
<1>7. HandComplete
  BY <1>4, <1>5, <1>6 DEF HandComplete, Init, Chosen
<1>8. FramesComplete /\ Blames
  BY DEF FramesComplete, Blames, Init
<1>9. QED
  BY <1>1, <1>7, <1>8 DEF CompletenessInv

LEMMA OrderlyStays == [Next]_vars => (Orderly(world) <=> Orderly(world)')
BY WorldKept DEF Orderly, Packages

LEMMA SearchComplete == Spec => [](Orderly(world) => CompletenessInv)
<1>1. Init => (Orderly(world) => CompletenessInv)
  BY InitComplete
<1>2. (Orderly(world) => CompletenessInv) /\ [Next]_vars
        => (Orderly(world) => CompletenessInv)'
  BY NextComplete, OrderlyStays
<1>3. QED
  BY <1>1, <1>2, PTL DEF Spec

(* CONFLICT is no premature answer: in orderly worlds, of any size and     *)
(* with any circular dependencies, the search gives up only when no choice *)
(* of versions meets every dependency.                                     *)
THEOREM ConflictComplete == Spec => [](Orderly(world) => ConflictIsComplete)
<1>1. CompletenessInv => ConflictIsComplete
  <2>1. SUFFICES ASSUME CompletenessInv, pc = "done", status = "CONFLICT",
                        NEW S \in Solving
                 PROVE  FALSE
    BY DEF ConflictIsComplete, Answered, Solving
  <2>2. NoneLeft /\ stack = <<>>
    BY <2>1 DEF CompletenessInv, HandComplete
  <2>3. QED
    BY <2>1, <2>2 DEF NoneLeft
<1>2. (Orderly(world) => CompletenessInv) => (Orderly(world) => ConflictIsComplete)
  BY <1>1
<1>3. QED
  BY <1>2, SearchComplete, PTL

(* SUCCESS takes the newest versions that are possible: in orderly worlds  *)
(* no solution is as new in every name chosen and newer in one.            *)
THEOREM SuccessNewest == Spec => [](Orderly(world) => SuccessIsNewest)
<1>1. CompletenessInv => SuccessIsNewest
  <2>1. SUFFICES ASSUME CompletenessInv, pc = "done", status = "SUCCESS",
                        NEW S \in Solving, AsNew(S, g),
                        NEW p \in ClosedSet(g), NEW q \in S, q.name = p.name,
                        Compare(q.version, p.version) > 0
                 PROVE  FALSE
    BY DEF SuccessIsNewest, Answered, Solving, AsNew
  <2>2. Newest(g) /\ world \in World
    BY <2>1 DEF CompletenessInv, HandComplete, TypeOK
  <2>3. p \in S
    BY <2>1, <2>2 DEF Newest
  <2>4. p = q /\ p \in Package
    BY <2>1, <2>2, <2>3, SolvingType DEF IsSolution
  <2>5. Compare(p.version, p.version) = 0
    BY <2>4, CompareInt DEF Package
  <2>6. QED
    BY <2>1, <2>4, <2>5
<1>2. (Orderly(world) => CompletenessInv) => (Orderly(world) => SuccessIsNewest)
  BY <1>1
<1>3. QED
  BY <1>2, SearchComplete, PTL

(* However much was tried before: the graph that is reported blames one    *)
(* name, and rightly, for the answer.                                      *)
THEOREM ReportGenuine == Spec => [](Orderly(world) => ReportIsGenuine)
<1>1. CompletenessInv => ReportIsGenuine
  <2>1. SUFFICES ASSUME CompletenessInv, pc = "done" PROVE ReportIsGenuine
    BY DEF ReportIsGenuine
  <2>2. \/ status = "SUCCESS" /\ g.conflicts = {} /\ g.unknown = {}
        \/ /\ status = "UNKNOWN" /\ g.conflicts = {}
           /\ \E n \in Names \ world.known : g.unknown = {n}
        \/ InConflict
    BY <2>1 DEF CompletenessInv, Blames
  <2>3. Cardinality({}) = 0 /\ \A n : Cardinality({n}) = 1
    BY FS_EmptySet, FS_Singleton
  <2>4. CASE status = "SUCCESS" /\ g.conflicts = {} /\ g.unknown = {}
    BY <2>3, <2>4 DEF ReportIsGenuine
  <2>5. CASE /\ status = "UNKNOWN" /\ g.conflicts = {}
             /\ \E n \in Names \ world.known : g.unknown = {n}
    <3>1. PICK n \in Names \ world.known : g.unknown = {n}
      BY <2>5
    <3>2. g.conflicts \cup g.unknown = {n}
      BY <2>5, <3>1
    <3>3. Cardinality(g.conflicts \cup g.unknown) <= 1
      <4>1. Cardinality(g.conflicts \cup g.unknown) = 1
        BY <2>3, <3>2, Zenon
      <4>2. QED
        BY <4>1
    <3>4. g.unknown \cap world.known = {} /\ g.unknown # {}
      BY <3>1
    <3>5. QED
      BY <2>5, <3>3, <3>4 DEF ReportIsGenuine
  <2>6. CASE InConflict
    <3>1. PICK n \in Names : g.conflicts = {n} /\ g.unknown = {} /\ Genuine(g, n)
      BY <2>6 DEF InConflict
    <3>2. g.conflicts \cup g.unknown = {n}
      BY <3>1
    <3>3. Cardinality(g.conflicts \cup g.unknown) <= 1
      <4>1. Cardinality(g.conflicts \cup g.unknown) = 1
        BY <2>3, <3>2, Zenon
      <4>2. QED
        BY <4>1
    <3>4. g.unknown \cap world.known = {} /\ g.conflicts # {}
      BY <3>1
    <3>5. \A m \in g.conflicts : Genuine(g, m)
      BY <3>1
    <3>6. QED
      BY <3>3, <3>4, <3>5, Zenon DEF ReportIsGenuine, Genuine
  <2>7. QED
    BY <2>2, <2>4, <2>5, <2>6
<1>2. (Orderly(world) => CompletenessInv) => (Orderly(world) => ReportIsGenuine)
  BY <1>1
<1>3. QED
  BY <1>2, SearchComplete, PTL
=============================================================================
