--------------------------- MODULE ProcessProofs ---------------------------
(***************************************************************************)
(* Theorems about Process for any number of processes and streams, any     *)
(* output they may write and pipes of any size.                            *)
(***************************************************************************)
EXTENDS Process, TLAPS

(* Descriptors are read between select and waitpid only.                   *)
ReadsInTurn == pc \notin {"read", "failed"} => unread = {}

(* What the parent knows of each process agrees with the process.          *)
Accounted ==
  \A p \in Procs :
    /\ pid[p] = "none" => pc = "start" /\ i <= p
    /\ pid[p] = "running" => child[p] # "none"
    /\ pid[p] \in {"reaped", "lost"} => Gone(p)
    /\ pid[p] = "reaped" => status[p] = WaitStatus(p)
    /\ pc = "done" => pid[p] # "running"

(* What a process wrote before select returned is read, or will be.        *)
Drained ==
  pc \in {"read", "reap"} =>
    \A p \in over :
      /\ Gone(p)
      /\ \A s \in heard :
           pid[p] = "running" => pipe[p][s] = 0 \/ <<p, s>> \in unread

Inv == TypeOK /\ ReadsInTurn /\ Accounted /\ Drained

-----------------------------------------------------------------------------
LEMMA InitialInv == Init => Inv
BY NAssumption, PlansAssumption, CodesAssumption, HearingsAssumption, PipeSizeAssumption
   DEF Init, Inv, TypeOK, ReadsInTurn, Accounted, Drained, Procs

LEMMA IndexAdvances ==
  ASSUME NEW p \in Procs, i = p, i' = i + 1
  PROVE  i' \in 1..(N + 1)
BY NAssumption DEF Procs

LEMMA ChildEnds ==
  ASSUME TypeOK, NEW p \in Procs, NEW how \in {"exited", "killed"}, Ends(p, how)
  PROVE  /\ child' \in [Procs -> {"none", "alive", "exited", "killed"}]
         /\ left' \in [Procs -> [Streams -> Nat]]
         /\ shared' \subseteq Procs
BY DEF TypeOK, Ends

LEMMA TypeStep ==
  ASSUME TypeOK, ReadsInTurn, [Next]_vars
  PROVE  TypeOK'
<1> USE NAssumption, PlansAssumption, CodesAssumption, PipeSizeAssumption
    DEF TypeOK, ReadsInTurn, Procs, children, parent
<1>1. CASE StartedAll
  BY <1>1 DEF StartedAll
<1>2. CASE Select
  <2>1. Ready \subseteq {p \in Procs : pid[p] = "running"} \X Streams
    BY DEF Ready, Watched
  <2>2. QED
    BY <1>2, <2>1 DEF Select
<1>3. CASE WaitedForAll
  BY <1>3 DEF WaitedForAll
<1>4. CASE ReadAll
  BY <1>4 DEF ReadAll
<1>5. CASE ReapedAll
  BY <1>5 DEF ReapedAll
<1>6. CASE WaitFails
  BY <1>6 DEF WaitFails
<1>7. ASSUME NEW p \in Procs, Fork(p)
      PROVE  TypeOK'
  <2>1. i' \in 1..(N + 1)
    BY <1>7, IndexAdvances DEF Fork, Started
  <2>2. unread = {} /\ unread' = {}
    BY <1>7 DEF Fork, Started
  <2>3. /\ pid' \in [Procs -> {"none", "running", "reaped", "lost", "failed"}]
        /\ child' \in [Procs -> {"none", "alive", "exited", "killed"}]
    BY <1>7 DEF Fork
  <2>4. left' \in [Procs -> [Streams -> Nat]]
    BY <1>7 DEF Fork
  <2>5. QED
    BY <1>7, <2>1, <2>2, <2>3, <2>4 DEF Fork, Started
<1>8. ASSUME NEW p \in Procs, ForkFails(p)
      PROVE  TypeOK'
  BY <1>8 DEF ForkFails, Started
<1>9. ASSUME NEW p \in Procs, Reap(p)
      PROVE  TypeOK'
  <2>1. i' \in 1..(N + 1)
    BY <1>9, IndexAdvances DEF Reap
  <2>2. unread = {} /\ unread' = {}
    BY <1>9 DEF Reap
  <2>3. pid' \in [Procs -> {"none", "running", "reaped", "lost", "failed"}]
    BY <1>9 DEF Reap
  <2>4. WaitStatus(p) \in Codes
    BY DEF WaitStatus
  <2>5. status' \in [Procs -> Codes \cup {-1}]
    <3>1. PICK c \in Codes : status' = [status EXCEPT ![p] = c]
      BY <1>9, <2>4 DEF Reap, StatusOf
    <3>2. QED
      BY <3>1
  <2>6. QED
    BY <1>9, <2>1, <2>2, <2>3, <2>5 DEF Reap
<1>10. ASSUME NEW p \in Procs, NotYet(p)
      PROVE  TypeOK'
  <2>1. i' \in 1..(N + 1)
    BY <1>10, IndexAdvances DEF NotYet
  <2>2. QED
    BY <1>10, <2>1 DEF NotYet
<1>11. ASSUME NEW p \in Procs, BackgroundEnds(p)
      PROVE  TypeOK'
  BY <1>11 DEF BackgroundEnds
<1>12. ASSUME NEW p \in Procs, Exit(p)
      PROVE  TypeOK'
  <2>1. code' \in [Procs -> Codes]
    BY <1>12 DEF Exit
  <2>2. QED
    BY <1>12, <2>1, ChildEnds DEF Exit, Ends
<1>13. ASSUME NEW p \in Procs, Killed(p)
      PROVE  TypeOK'
  BY <1>13 DEF Killed, Ends
<1>14. ASSUME NEW p \in Procs, NEW s \in Streams, Read(p, s)
      PROVE  TypeOK'
  <2>1. PICK m \in 1..pipe[p][s] : pipe' = [pipe EXCEPT ![p][s] = @ - m]
    BY <1>14 DEF Read
  <2>2. pipe[p][s] - m \in 0..PipeSize
    BY <2>1
  <2>3. pipe' \in [Procs -> [Streams -> 0..PipeSize]]
    BY <2>1, <2>2
  <2>4. QED
    BY <1>14, <2>3 DEF Read
<1>15. ASSUME NEW p \in Procs, NEW s \in Streams, NothingToRead(p, s)
      PROVE  TypeOK'
  BY <1>15 DEF NothingToRead
<1>16. ASSUME NEW p \in Procs, NEW s \in Streams, Write(p, s)
      PROVE  TypeOK'
  <2>1. left[p][s] - 1 \in Nat /\ pipe[p][s] + 1 \in 0..PipeSize
    BY <1>16 DEF Write
  <2>2. left' \in [Procs -> [Streams -> Nat]]
    BY <1>16, <2>1 DEF Write
  <2>3. pipe' \in [Procs -> [Streams -> 0..PipeSize]]
    BY <1>16, <2>1 DEF Write
  <2>4. QED
    BY <1>16, <2>2, <2>3 DEF Write
<1>17. CASE UNCHANGED vars
  BY <1>17 DEF vars
<1>18. QED
  BY <1>1, <1>2, <1>3, <1>4, <1>5, <1>6, <1>7, <1>8, <1>9, <1>10, <1>11, <1>12, <1>13, <1>14, <1>15, <1>16, <1>17 DEF Next, WaitStep, ChildStep

LEMMA ReadsInTurnStep ==
  ASSUME TypeOK, ReadsInTurn, [Next]_vars
  PROVE  ReadsInTurn'
<1> USE DEF ReadsInTurn, children, parent
<1>1. CASE StartedAll
  BY <1>1 DEF StartedAll
<1>2. CASE Select
  BY <1>2 DEF Select
<1>3. CASE WaitedForAll
  BY <1>3 DEF WaitedForAll
<1>4. CASE ReadAll
  BY <1>4 DEF ReadAll
<1>5. CASE ReapedAll
  BY <1>5 DEF ReapedAll
<1>6. CASE WaitFails
  BY <1>6 DEF WaitFails
<1>7. ASSUME NEW p \in Procs, Fork(p)
      PROVE  ReadsInTurn'
  BY <1>7 DEF Fork, Started
<1>8. ASSUME NEW p \in Procs, ForkFails(p)
      PROVE  ReadsInTurn'
  BY <1>8 DEF ForkFails, Started
<1>9. ASSUME NEW p \in Procs, Reap(p)
      PROVE  ReadsInTurn'
  BY <1>9 DEF Reap
<1>10. ASSUME NEW p \in Procs, NotYet(p)
      PROVE  ReadsInTurn'
  BY <1>10 DEF NotYet
<1>11. ASSUME NEW p \in Procs, BackgroundEnds(p)
      PROVE  ReadsInTurn'
  BY <1>11 DEF BackgroundEnds
<1>12. ASSUME NEW p \in Procs, Exit(p)
      PROVE  ReadsInTurn'
  BY <1>12 DEF Exit, Ends
<1>13. ASSUME NEW p \in Procs, Killed(p)
      PROVE  ReadsInTurn'
  BY <1>13 DEF Killed, Ends
<1>14. ASSUME NEW p \in Procs, NEW s \in Streams, Read(p, s)
      PROVE  ReadsInTurn'
  BY <1>14 DEF Read
<1>15. ASSUME NEW p \in Procs, NEW s \in Streams, NothingToRead(p, s)
      PROVE  ReadsInTurn'
  BY <1>15 DEF NothingToRead
<1>16. ASSUME NEW p \in Procs, NEW s \in Streams, Write(p, s)
      PROVE  ReadsInTurn'
  BY <1>16 DEF Write
<1>17. CASE UNCHANGED vars
  BY <1>17 DEF vars
<1>18. QED
  BY <1>1, <1>2, <1>3, <1>4, <1>5, <1>6, <1>7, <1>8, <1>9, <1>10, <1>11, <1>12, <1>13, <1>14, <1>15, <1>16, <1>17 DEF Next, WaitStep, ChildStep

LEMMA AccountedStep ==
  ASSUME TypeOK, Accounted, [Next]_vars
  PROVE  Accounted'
<1> USE NAssumption DEF TypeOK, Accounted, Procs, children, parent, Gone, WaitStatus
<1>1. CASE StartedAll
  BY <1>1 DEF StartedAll
<1>2. CASE Select
  BY <1>2 DEF Select
<1>3. CASE WaitedForAll
  BY <1>3 DEF WaitedForAll, Waiting
<1>4. CASE ReadAll
  BY <1>4 DEF ReadAll
<1>5. CASE ReapedAll
  BY <1>5 DEF ReapedAll
<1>6. CASE WaitFails
  BY <1>6 DEF WaitFails
<1>7. ASSUME NEW p \in Procs, Fork(p)
      PROVE  Accounted'
  BY <1>7 DEF Fork, Started
<1>8. ASSUME NEW p \in Procs, ForkFails(p)
      PROVE  Accounted'
  BY <1>8 DEF ForkFails, Started
<1>9. ASSUME NEW p \in Procs, Reap(p)
      PROVE  Accounted'
  <2>1. \A q \in Procs : q # p => pid'[q] = pid[q] /\ status'[q] = status[q]
    BY <1>9 DEF Reap, StatusOf
  <2>2. /\ pid'[p] \in {"reaped", "lost"}
        /\ pid'[p] = "reaped" => status'[p] = WaitStatus(p)
    BY <1>9 DEF Reap, StatusOf
  <2>3. Gone(p) /\ UNCHANGED <<child, code>> /\ pc' = "reap" /\ pc = "reap"
    BY <1>9 DEF Reap
  <2>4. QED
    BY <2>1, <2>2, <2>3
<1>10. ASSUME NEW p \in Procs, NotYet(p)
      PROVE  Accounted'
  BY <1>10 DEF NotYet
<1>11. ASSUME NEW p \in Procs, BackgroundEnds(p)
      PROVE  Accounted'
  BY <1>11 DEF BackgroundEnds
<1>12. ASSUME NEW p \in Procs, Exit(p)
      PROVE  Accounted'
  BY <1>12 DEF Exit, Ends
<1>13. ASSUME NEW p \in Procs, Killed(p)
      PROVE  Accounted'
  BY <1>13 DEF Killed, Ends
<1>14. ASSUME NEW p \in Procs, NEW s \in Streams, Read(p, s)
      PROVE  Accounted'
  BY <1>14 DEF Read
<1>15. ASSUME NEW p \in Procs, NEW s \in Streams, NothingToRead(p, s)
      PROVE  Accounted'
  BY <1>15 DEF NothingToRead
<1>16. ASSUME NEW p \in Procs, NEW s \in Streams, Write(p, s)
      PROVE  Accounted'
  BY <1>16 DEF Write
<1>17. CASE UNCHANGED vars
  BY <1>17 DEF vars
<1>18. QED
  BY <1>1, <1>2, <1>3, <1>4, <1>5, <1>6, <1>7, <1>8, <1>9, <1>10, <1>11, <1>12, <1>13, <1>14, <1>15, <1>16, <1>17 DEF Next, WaitStep, ChildStep

LEMMA DrainedStep ==
  ASSUME TypeOK, ReadsInTurn, Drained, [Next]_vars
  PROVE  Drained'
<1> USE DEF TypeOK, Drained, children, parent, Gone
<1>1. CASE StartedAll
  BY <1>1 DEF StartedAll
<1>2. CASE Select
  BY <1>2 DEF Select, Ready, Watched
<1>3. CASE WaitedForAll
  BY <1>3 DEF WaitedForAll
<1>4. CASE ReadAll
  BY <1>4 DEF ReadAll, ReadsInTurn
<1>5. CASE ReapedAll
  BY <1>5 DEF ReapedAll
<1>6. CASE WaitFails
  BY <1>6 DEF WaitFails
<1>7. ASSUME NEW p \in Procs, Fork(p)
      PROVE  Drained'
  BY <1>7 DEF Fork, Started
<1>8. ASSUME NEW p \in Procs, ForkFails(p)
      PROVE  Drained'
  BY <1>8 DEF ForkFails, Started
<1>9. ASSUME NEW p \in Procs, Reap(p)
      PROVE  Drained'
  BY <1>9 DEF Reap, StatusOf
<1>10. ASSUME NEW p \in Procs, NotYet(p)
      PROVE  Drained'
  BY <1>10 DEF NotYet
<1>11. ASSUME NEW p \in Procs, BackgroundEnds(p)
      PROVE  Drained'
  BY <1>11 DEF BackgroundEnds
<1>12. ASSUME NEW p \in Procs, Exit(p)
      PROVE  Drained'
  BY <1>12 DEF Exit, Ends
<1>13. ASSUME NEW p \in Procs, Killed(p)
      PROVE  Drained'
  BY <1>13 DEF Killed, Ends
<1>14. ASSUME NEW p \in Procs, NEW s \in Streams, Read(p, s)
      PROVE  Drained'
  BY <1>14 DEF Read
<1>15. ASSUME NEW p \in Procs, NEW s \in Streams, NothingToRead(p, s)
      PROVE  Drained'
  BY <1>15 DEF NothingToRead
<1>16. ASSUME NEW p \in Procs, NEW s \in Streams, Write(p, s)
      PROVE  Drained'
  BY <1>16 DEF Write
<1>17. CASE UNCHANGED vars
  BY <1>17 DEF vars
<1>18. QED
  BY <1>1, <1>2, <1>3, <1>4, <1>5, <1>6, <1>7, <1>8, <1>9, <1>10, <1>11, <1>12, <1>13, <1>14, <1>15, <1>16, <1>17 DEF Next, WaitStep, ChildStep

-----------------------------------------------------------------------------
(* Every step keeps Inv.                                                   *)
LEMMA InvStep == Inv /\ [Next]_vars => Inv'
BY TypeStep, ReadsInTurnStep, AccountedStep, DrainedStep DEF Inv

(* Variables keep their types.                                             *)
THEOREM ProcessTyped == Spec => []TypeOK
<1>1. Inv => TypeOK
  BY DEF Inv
<1>2. QED
  BY <1>1, InitialInv, InvStep, PTL DEF Spec

(* fatso_process_wait_all answers success when every process has ended,    *)
(* and files each exit status under the process it is of.                  *)
THEOREM StatusesFiled == Spec => []EachItsStatus
<1>1. Inv => EachItsStatus
  BY DEF Inv, TypeOK, Accounted, EachItsStatus
<1>2. QED
  BY <1>1, InitialInv, InvStep, PTL DEF Spec

(* What a process wrote that was gone when select returned is passed on    *)
(* before its pipes are closed.                                            *)
THEOREM DrainedFirst == Spec => []DrainedBeforeReap
<1>1. Inv => DrainedBeforeReap
  BY DEF Inv, ReadsInTurn, Drained, DrainedBeforeReap
<1>2. QED
  BY <1>1, InitialInv, InvStep, PTL DEF Spec
=============================================================================
