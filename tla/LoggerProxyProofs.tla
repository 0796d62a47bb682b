-------------------------- MODULE LoggerProxyProofs --------------------------
(***************************************************************************)
(* Proofs about LoggerProxy, for every finite set of threads and every     *)
(* limit.  IInv has a part about the mutex, the handle and the directory   *)
(* and two parts that count lines.                                         *)
(***************************************************************************)
EXTENDS LoggerProxy, FiniteSetTheorems, TLAPS

\* Creation and replacement of the file are done by the holder of the mutex.
HolderWorks ==
  \A t \in Threads : mutex = t <=> pc[t] \in {"recheck", "open", "reset", "close"}

\* What the places in write() say about the handle.
HandleFollows ==
  /\ \A t \in Threads : pc[t] = "open" => ~open
  /\ \A t \in Threads : pc[t] = "reset" => open
  /\ ~raced => \A t \in Threads : pc[t] \in {"size", "try_lock", "write"} => open

\* What was written stands in the files of the directory.
DirectoryHolds ==
  /\ open => file \in files
  /\ \A n \in Seconds : lines[n] > 0 => n \in files

Counters == {t \in Threads : pc[t] = "count"}
Writers  == {t \in Threads : pc[t] = "write"}

\* The lines of the file are counted, but for those whose writers stand before
\* CountLine; and threads enter WriteLine only below the limit.
LimitHeld ==
  ~missed =>
    /\ \A t \in Threads : pc[t] = "reset" => lines[file] = 0
    /\ lines[file] <= size + Cardinality(Counters)
    /\ lines[file] + Cardinality(Writers) < MaxFileSize + Cardinality(Threads)

\* The files that were replaced keep to the limit too.
AllBounded ==
  ~missed => \A n \in Seconds : n # file => lines[n] < MaxFileSize + Cardinality(Threads)

LockInv == TypeOK /\ HolderWorks /\ HandleFollows /\ DirectoryHolds /\ LinesKept

IInv == LockInv /\ LimitHeld /\ AllBounded

-----------------------------------------------------------------------------
(* Type correctness.                                                       *)

\* The variables have their types before anything is logged.
LEMMA InitTypeOK == Init => TypeOK
<1> SUFFICES ASSUME Init PROVE TypeOK
  OBVIOUS
<1>1. size \in Nat /\ lines \in [Seconds -> Nat] /\ writes \in Nat
  BY DEF Init
<1> QED
  BY <1>1 DEF Init, TypeOK

\* Every step keeps the types.
LEMMA StepTypeOK == TypeOK /\ [Next]_vars => TypeOK'
<1> SUFFICES ASSUME TypeOK, [Next]_vars PROVE TypeOK'
  OBVIOUS
<1> USE DEF TypeOK, lockVars, diskVars
<1>1. ASSUME NEW t \in Threads, BeginWrite(t) PROVE TypeOK'
  BY <1>1 DEF BeginWrite, Goto
<1>2. ASSUME NEW t \in Threads, CheckFile(t) PROVE TypeOK'
  BY <1>2 DEF CheckFile, Goto
<1>3. ASSUME NEW t \in Threads, Lock(t) PROVE TypeOK'
  BY <1>3 DEF Lock, Goto
<1>4. ASSUME NEW t \in Threads, Recheck(t) PROVE TypeOK'
  BY <1>4 DEF Recheck, Goto
<1>5. ASSUME NEW t \in Threads, OpenFile(t) PROVE TypeOK'
  <2>1. file' \in Seconds /\ files' \subseteq Seconds /\ lines' \in [Seconds -> Nat]
    BY <1>5 DEF OpenFile
  <2>2. lost' \in BOOLEAN /\ repeated' \in BOOLEAN
    BY <1>5 DEF OpenFile
  <2> QED
    BY <1>5, <2>1, <2>2 DEF OpenFile, Goto
<1>6. ASSUME NEW t \in Threads, OpenFails(t) PROVE TypeOK'
  BY <1>6 DEF OpenFails, Goto
<1>7. ASSUME NEW t \in Threads, ResetSize(t) PROVE TypeOK'
  BY <1>7 DEF ResetSize, Goto
<1>8. ASSUME NEW t \in Threads, CheckSize(t) PROVE TypeOK'
  BY <1>8 DEF CheckSize, Goto
<1>9. ASSUME NEW t \in Threads, TryLock(t) PROVE TypeOK'
  BY <1>9 DEF TryLock, Goto
<1>10. ASSUME NEW t \in Threads, TryLockFails(t) PROVE TypeOK'
  BY <1>10 DEF TryLockFails, Goto
<1>11. ASSUME NEW t \in Threads, CloseFile(t) PROVE TypeOK'
  BY <1>11 DEF CloseFile, Goto
<1>12. ASSUME NEW t \in Threads, WriteLine(t) PROVE TypeOK'
  <2>1. lines' \in [Seconds -> Nat]
    BY <1>12 DEF WriteLine
  <2>2. pc' \in [Threads -> {"idle", "check", "lock", "recheck", "open", "reset",
                            "size", "try_lock", "close", "write", "count"}]
    BY <1>12 DEF WriteLine, Goto
  <2>3. lost' \in BOOLEAN /\ raced' \in BOOLEAN /\ missed' \in BOOLEAN
    BY <1>12 DEF WriteLine
  <2> QED
    BY <1>12, <2>1, <2>2, <2>3 DEF WriteLine
<1>13. ASSUME NEW t \in Threads, CountLine(t) PROVE TypeOK'
  BY <1>13 DEF CountLine, Goto
<1>14. CASE ClockMoves
  BY <1>14 DEF ClockMoves
<1>15. ASSUME NEW t \in Threads, DirectoryFails(t) PROVE TypeOK'
  BY <1>15 DEF DirectoryFails
<1>16. CASE UNCHANGED vars
  BY <1>16 DEF vars
<1> QED
  BY <1>1, <1>2, <1>3, <1>4, <1>5, <1>6, <1>7, <1>8, <1>9, <1>10,
     <1>11, <1>12, <1>13, <1>14, <1>15, <1>16
  DEF Next, Step

\* Every variable keeps its type.
THEOREM TypeCorrect == Spec => []TypeOK
<1>1. Init => TypeOK
  BY InitTypeOK
<1>2. TypeOK /\ [Next]_vars => TypeOK'
  BY StepTypeOK
<1> QED
  BY <1>1, <1>2, PTL DEF Spec

-----------------------------------------------------------------------------
(* The mutex and the handle.                                               *)

\* Every step keeps the part of the invariant about the mutex and the handle.
LEMMA StepLockInv == LockInv /\ [Next]_vars => LockInv'
<1> SUFFICES ASSUME LockInv, [Next]_vars PROVE LockInv'
  OBVIOUS
<1>0. TypeOK /\ TypeOK'
  BY StepTypeOK DEF LockInv
<1> USE <1>0, ThreadsAssumption
    DEF LockInv, TypeOK, HolderWorks, HandleFollows, DirectoryHolds, LinesKept,
        lockVars, diskVars
<1>1. ASSUME NEW t \in Threads, BeginWrite(t) PROVE LockInv'
  BY <1>1 DEF BeginWrite, Goto, OtherAt
<1>2. ASSUME NEW t \in Threads, CheckFile(t) PROVE LockInv'
  BY <1>2 DEF CheckFile, Goto, OtherAt
<1>3. ASSUME NEW t \in Threads, Lock(t) PROVE LockInv'
  BY <1>3 DEF Lock, Goto, OtherAt
<1>4. ASSUME NEW t \in Threads, Recheck(t) PROVE LockInv'
  BY <1>4 DEF Recheck, Goto, OtherAt
<1>5. ASSUME NEW t \in Threads, OpenFile(t) PROVE LockInv'
  BY <1>5 DEF OpenFile, Goto, OtherAt
<1>6. ASSUME NEW t \in Threads, OpenFails(t) PROVE LockInv'
  BY <1>6 DEF OpenFails, Goto, OtherAt
<1>7. ASSUME NEW t \in Threads, ResetSize(t) PROVE LockInv'
  BY <1>7 DEF ResetSize, Goto, OtherAt
<1>8. ASSUME NEW t \in Threads, CheckSize(t) PROVE LockInv'
  BY <1>8 DEF CheckSize, Goto, OtherAt
<1>9. ASSUME NEW t \in Threads, TryLock(t) PROVE LockInv'
  BY <1>9 DEF TryLock, Goto, OtherAt
<1>10. ASSUME NEW t \in Threads, TryLockFails(t) PROVE LockInv'
  BY <1>10 DEF TryLockFails, Goto, OtherAt
<1>11. ASSUME NEW t \in Threads, CloseFile(t) PROVE LockInv'
  BY <1>11 DEF CloseFile, Goto, OtherAt
<1>12. ASSUME NEW t \in Threads, WriteLine(t) PROVE LockInv'
  BY <1>12 DEF WriteLine, Goto, OtherAt
<1>13. ASSUME NEW t \in Threads, CountLine(t) PROVE LockInv'
  BY <1>13 DEF CountLine, Goto, OtherAt
<1>14. CASE ClockMoves
  BY <1>14 DEF ClockMoves
<1>15. ASSUME NEW t \in Threads, DirectoryFails(t) PROVE LockInv'
  BY <1>15 DEF DirectoryFails
<1>16. CASE UNCHANGED vars
  BY <1>16 DEF vars
<1> QED
  BY <1>1, <1>2, <1>3, <1>4, <1>5, <1>6, <1>7, <1>8, <1>9, <1>10,
     <1>11, <1>12, <1>13, <1>14, <1>15, <1>16
  DEF Next, Step

-----------------------------------------------------------------------------
(* Counting threads.                                                       *)

\* The threads at a place are finitely many.
LEMMA PlacesFinite ==
  /\ IsFiniteSet(Counters) /\ Cardinality(Counters) \in Nat
  /\ IsFiniteSet(Writers) /\ Cardinality(Writers) \in Nat
  /\ Cardinality(Threads) \in Nat
<1>1. Counters \subseteq Threads /\ Writers \subseteq Threads
  BY DEF Counters, Writers
<1> QED
  BY <1>1, ThreadsAssumption, FS_Subset, FS_CardinalityType

\* A thread that is neither writing nor counting is one more than those that are.
LEMMA PlacesFit ==
  ASSUME NEW t \in Threads, pc[t] \notin {"write", "count"}
  PROVE  Cardinality(Writers) + Cardinality(Counters) < Cardinality(Threads)
<1> DEFINE Busy == Writers \cup Counters
<1>1. Writers \cap Counters = {}
  BY DEF Writers, Counters
<1>2. /\ IsFiniteSet(Busy)
      /\ Cardinality(Busy) = Cardinality(Writers) + Cardinality(Counters)
                              - Cardinality(Writers \cap Counters)
  BY PlacesFinite, FS_Union
<1>3. Busy \subseteq Threads /\ t \notin Busy
  BY DEF Writers, Counters
<1>4. Cardinality(Busy) <= Cardinality(Threads) /\ Busy # Threads
  BY <1>3, ThreadsAssumption, FS_Subset
<1>5. Cardinality(Busy) # Cardinality(Threads)
  BY <1>3, <1>4, ThreadsAssumption, FS_Subset
<1>6. Cardinality(Writers \cap Counters) = 0
  BY <1>1, FS_EmptySet
<1>7. Cardinality(Busy) = Cardinality(Writers) + Cardinality(Counters)
  BY <1>2, <1>6, PlacesFinite
<1> QED
  BY <1>4, <1>5, <1>7, PlacesFinite

\* A thread that moves between other places changes neither number.
LEMMA OthersStay ==
  ASSUME TypeOK, NEW t \in Threads, NEW place, Goto(t, place)
  PROVE  /\ pc[t] # "count" /\ place # "count" => Counters' = Counters
         /\ pc[t] # "write" /\ place # "write" => Writers' = Writers
<1> QED
  BY DEF Counters, Writers, Goto, TypeOK

\* A thread that comes to WriteLine.
LEMMA WriterComes ==
  ASSUME TypeOK, NEW t \in Threads, pc[t] # "write", Goto(t, "write")
  PROVE  Cardinality(Writers') = Cardinality(Writers) + 1
<1>1. Writers' = Writers \cup {t} /\ t \notin Writers
  BY DEF Writers, Goto, TypeOK
<1> QED
  BY <1>1, PlacesFinite, FS_AddElement

\* A thread that has written its line is to count it.
LEMMA WriterCounts ==
  ASSUME TypeOK, NEW t \in Threads, pc[t] = "write", Goto(t, "count")
  PROVE  /\ Cardinality(Writers') = Cardinality(Writers) - 1
         /\ Cardinality(Counters') = Cardinality(Counters) + 1
<1>1. Writers' = Writers \ {t} /\ t \in Writers
  BY DEF Writers, Goto, TypeOK
<1>2. Counters' = Counters \cup {t} /\ t \notin Counters
  BY DEF Counters, Goto, TypeOK
<1> QED
  BY <1>1, <1>2, PlacesFinite, FS_AddElement, FS_RemoveElement

\* A thread that has counted its line.
LEMMA CounterLeaves ==
  ASSUME TypeOK, NEW t \in Threads, pc[t] = "count", Goto(t, "idle")
  PROVE  Cardinality(Counters') = Cardinality(Counters) - 1
<1>1. Counters' = Counters \ {t} /\ t \in Counters
  BY DEF Counters, Goto, TypeOK
<1> QED
  BY <1>1, PlacesFinite, FS_RemoveElement

-----------------------------------------------------------------------------
(* The inductive invariant.                                                *)

\* The inductive invariant holds before anything is logged.
LEMMA InitIInv == Init => IInv
<1> SUFFICES ASSUME Init PROVE IInv
  OBVIOUS
<1>1. LockInv
  BY ThreadsAssumption, InitTypeOK
     DEF Init, LockInv, HolderWorks, HandleFollows, DirectoryHolds, LinesKept
<1>2. Counters = {} /\ Writers = {}
  BY DEF Init, Counters, Writers
<1>3. Cardinality(Counters) = 0 /\ Cardinality(Writers) = 0
  BY <1>2, FS_EmptySet
<1>4. \A n \in Seconds : lines[n] = 0
  BY DEF Init
<1>5. LimitHeld /\ AllBounded
  BY <1>3, <1>4, PlacesFinite, MaxFileSizeAssumption DEF Init, LimitHeld, AllBounded
<1> QED
  BY <1>1, <1>5 DEF IInv

\* Every step keeps the part of the invariant that counts lines.
LEMMA StepLimitHeld == IInv /\ [Next]_vars => LimitHeld'
<1> SUFFICES ASSUME IInv, [Next]_vars PROVE LimitHeld'
  OBVIOUS
<1>0. TypeOK /\ TypeOK' /\ HolderWorks /\ HandleFollows
  BY StepTypeOK DEF IInv, LockInv
<1> USE <1>0, MaxFileSizeAssumption, PlacesFinite DEF IInv, LimitHeld, lockVars, diskVars
<1>1. ASSUME NEW t \in Threads, BeginWrite(t) PROVE LimitHeld'
  <2>1. Counters' = Counters /\ Writers' = Writers
    BY <1>1, OthersStay DEF BeginWrite
  <2> QED
    BY <1>1, <2>1 DEF BeginWrite, Goto, TypeOK
<1>2. ASSUME NEW t \in Threads, CheckFile(t) PROVE LimitHeld'
  <2>1. Counters' = Counters /\ Writers' = Writers
    BY <1>2, OthersStay DEF CheckFile
  <2> QED
    BY <1>2, <2>1 DEF CheckFile, Goto, TypeOK
<1>3. ASSUME NEW t \in Threads, Lock(t) PROVE LimitHeld'
  <2>1. Counters' = Counters /\ Writers' = Writers
    BY <1>3, OthersStay DEF Lock
  <2> QED
    BY <1>3, <2>1 DEF Lock, Goto, TypeOK
<1>4. ASSUME NEW t \in Threads, Recheck(t) PROVE LimitHeld'
  <2>1. Counters' = Counters /\ Writers' = Writers
    BY <1>4, OthersStay DEF Recheck
  <2> QED
    BY <1>4, <2>1 DEF Recheck, Goto, TypeOK
<1>5. ASSUME NEW t \in Threads, OpenFile(t) PROVE LimitHeld'
  <2>1. Counters' = Counters /\ Writers' = Writers
    BY <1>5, OthersStay DEF OpenFile
  <2>2. lines'[file'] = 0
    BY <1>5 DEF OpenFile, HandleFollows, TypeOK
  <2>3. Cardinality(Writers) < MaxFileSize + Cardinality(Threads)
    BY <1>5, PlacesFit DEF OpenFile
  <2> QED
    BY <1>5, <2>1, <2>2, <2>3 DEF OpenFile, TypeOK
<1>6. ASSUME NEW t \in Threads, OpenFails(t) PROVE LimitHeld'
  <2>1. Counters' = Counters /\ Writers' = Writers
    BY <1>6, OthersStay DEF OpenFails
  <2> QED
    BY <1>6, <2>1 DEF OpenFails, Goto, TypeOK
<1>7. ASSUME NEW t \in Threads, ResetSize(t) PROVE LimitHeld'
  <2>1. Counters' = Counters
    BY <1>7, OthersStay DEF ResetSize
  <2>2. ~missed => lines[file] = 0
    BY <1>7 DEF ResetSize
  <2>3. Cardinality(Writers) < Cardinality(Threads)
    BY <1>7, PlacesFit DEF ResetSize
  <2>4. Writers' = Writers \/ Cardinality(Writers') = Cardinality(Writers) + 1
    BY <1>7, OthersStay, WriterComes DEF ResetSize
  <2>5. \A u \in Threads : pc'[u] # "reset"
    BY <1>7 DEF ResetSize, Goto, HolderWorks, TypeOK
  <2> QED
    BY <1>7, <2>1, <2>2, <2>3, <2>4, <2>5 DEF ResetSize, TypeOK
<1>8. ASSUME NEW t \in Threads, CheckSize(t) PROVE LimitHeld'
  <2>1. Counters' = Counters
    BY <1>8, OthersStay DEF CheckSize
  <2>2. CASE size >= MaxFileSize
    <3>1. Writers' = Writers
      BY <1>8, <2>2, OthersStay DEF CheckSize
    <3> QED
      BY <1>8, <2>1, <2>2, <3>1 DEF CheckSize, Goto, TypeOK
  <2>3. CASE size < MaxFileSize
    <3>1. Cardinality(Writers') = Cardinality(Writers) + 1
      BY <1>8, <2>3, WriterComes DEF CheckSize, TypeOK
    <3>2. Cardinality(Writers) + Cardinality(Counters) < Cardinality(Threads)
      BY <1>8, PlacesFit DEF CheckSize
    <3>3. \A u \in Threads : pc'[u] = "reset" => pc[u] = "reset"
      BY <1>8, <2>3 DEF CheckSize, Goto, TypeOK
    <3> QED
      BY <1>8, <2>1, <2>3, <3>1, <3>2, <3>3 DEF CheckSize, TypeOK
  <2> QED
    BY <2>2, <2>3 DEF TypeOK
<1>9. ASSUME NEW t \in Threads, TryLock(t) PROVE LimitHeld'
  <2>1. Counters' = Counters /\ Writers' = Writers
    BY <1>9, OthersStay DEF TryLock
  <2> QED
    BY <1>9, <2>1 DEF TryLock, Goto, TypeOK
<1>10. ASSUME NEW t \in Threads, TryLockFails(t) PROVE LimitHeld'
  BY <1>10 DEF TryLockFails
<1>11. ASSUME NEW t \in Threads, CloseFile(t) PROVE LimitHeld'
  <2>1. Counters' = Counters /\ Writers' = Writers
    BY <1>11, OthersStay DEF CloseFile
  <2> QED
    BY <1>11, <2>1 DEF CloseFile, Goto, TypeOK
<1>12. ASSUME NEW t \in Threads, WriteLine(t) PROVE LimitHeld'
  <2>1. /\ Cardinality(Writers') = Cardinality(Writers) - 1
        /\ Cardinality(Counters') = Cardinality(Counters) + 1
    BY <1>12, WriterCounts DEF WriteLine
  <2>2. \A u \in Threads : pc'[u] = "reset" => pc[u] = "reset"
    BY <1>12 DEF WriteLine, Goto, TypeOK
  <2>3. ~missed' => ~missed /\ \A u \in Threads : pc'[u] # "reset"
    BY <1>12, <2>2 DEF WriteLine, OtherAt
  <2>4. lines'[file'] \in {lines[file], lines[file] + 1} /\ size' = size
    BY <1>12 DEF WriteLine, TypeOK
  <2> QED
    BY <2>1, <2>3, <2>4 DEF TypeOK
<1>13. ASSUME NEW t \in Threads, CountLine(t) PROVE LimitHeld'
  <2>1. Cardinality(Counters') = Cardinality(Counters) - 1
    BY <1>13, CounterLeaves DEF CountLine
  <2>2. Writers' = Writers
    BY <1>13, OthersStay DEF CountLine
  <2>3. \A u \in Threads : pc'[u] = "reset" => pc[u] = "reset"
    BY <1>13 DEF CountLine, Goto, TypeOK
  <2> QED
    BY <1>13, <2>1, <2>2, <2>3 DEF CountLine, TypeOK
<1>14. CASE ClockMoves
  BY <1>14 DEF ClockMoves, Counters, Writers
<1>15. ASSUME NEW t \in Threads, DirectoryFails(t) PROVE LimitHeld'
  BY <1>15 DEF DirectoryFails, Counters, Writers
<1>16. CASE UNCHANGED vars
  BY <1>16 DEF vars, Counters, Writers
<1> QED
  BY <1>1, <1>2, <1>3, <1>4, <1>5, <1>6, <1>7, <1>8, <1>9, <1>10,
     <1>11, <1>12, <1>13, <1>14, <1>15, <1>16
  DEF Next, Step

\* Only WriteLine adds lines, and to the last file; a replaced one was bounded.
LEMMA StepAllBounded == IInv /\ [Next]_vars => AllBounded'
<1> SUFFICES ASSUME IInv, [Next]_vars PROVE AllBounded'
  OBVIOUS
<1>0. TypeOK
  BY DEF IInv, LockInv
<1>1. ~missed => \A n \in Seconds : lines[n] < MaxFileSize + Cardinality(Threads)
  BY <1>0, PlacesFinite, MaxFileSizeAssumption DEF IInv, LimitHeld, AllBounded, TypeOK
<1>2. ~missed' => ~missed
  BY DEF Next, Step, vars, ClockMoves, BeginWrite, DirectoryFails, CheckFile, Lock,
         Recheck, OpenFile, OpenFails, ResetSize, CheckSize, TryLock, TryLockFails,
         CloseFile, WriteLine, CountLine
<1>3. CASE UNCHANGED diskVars
  BY <1>2, <1>3 DEF IInv, AllBounded, diskVars
<1>4. ASSUME NEW t \in Threads, OpenFile(t) PROVE AllBounded'
  BY <1>0, <1>1, <1>2, <1>4, PlacesFinite, MaxFileSizeAssumption
     DEF OpenFile, AllBounded, TypeOK, diskVars
<1>5. ASSUME NEW t \in Threads, WriteLine(t) PROVE AllBounded'
  BY <1>0, <1>1, <1>2, <1>5 DEF WriteLine, AllBounded, TypeOK
<1> QED
  BY <1>3, <1>4, <1>5
     DEF Next, Step, vars, ClockMoves, BeginWrite, DirectoryFails, CheckFile, Lock,
         Recheck, OpenFails, ResetSize, CheckSize, TryLock, TryLockFails, CloseFile,
         CountLine

\* The strengthening of every safety property below.
THEOREM IInvCorrect == Spec => []IInv
<1>1. Init => IInv
  BY InitIInv
<1>2. IInv /\ [Next]_vars => IInv'
  BY StepLockInv, StepLimitHeld, StepAllBounded DEF IInv
<1> QED
  BY <1>1, <1>2, PTL DEF Spec

-----------------------------------------------------------------------------
(* The safety properties.                                                  *)

\* create_file() never finds the stream open, and never runs twice at once
\* (logger_proxy.hpp:84-101, 113).
THEOREM OpensClosedHandleCorrect == Spec => []OpensClosedHandle
<1>1. IInv => OpensClosedHandle
  BY DEF IInv, LockInv, HolderWorks, HandleFollows, OpensClosedHandle
<1> QED
  BY <1>1, IInvCorrect, PTL

\* No line is lost unless two threads used the stream at once or create_file() met
\* a file of the same second (logger_proxy.hpp:84-113, 127; utils.hpp:31).
THEOREM LinesKeptCorrect == Spec => []LinesKept
<1>1. IInv => LinesKept
  BY DEF IInv, LockInv
<1> QED
  BY <1>1, IInvCorrect, PTL

\* A file exceeds its limit by less than one line per thread, short of a failed
\* try_lock() and of a write before the reset (logger_proxy.hpp:93-103, 117, 128).
THEOREM FileBoundedCorrect == Spec => []FileBounded
<1>1. IInv => FileBounded
  BY PlacesFinite, MaxFileSizeAssumption
     DEF IInv, LockInv, TypeOK, LimitHeld, AllBounded, FileBounded
<1> QED
  BY <1>1, IInvCorrect, PTL
=============================================================================
