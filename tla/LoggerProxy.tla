---------------------------- MODULE LoggerProxy ----------------------------
(***************************************************************************)
(* One logger_proxy (src/logger/logger_proxy.hpp): write() called by many  *)
(* threads, the log file it creates when there is none and replaces when   *)
(* it is full.  The mutex guards creation and replacement only; the tests  *)
(* before it and the writing behind it are not locked.                     *)
(*                                                                         *)
(* A file is named after the second in which it is created, in local time  *)
(* (src/logger/utils.hpp); opening a name that is there empties the file.  *)
(* All lines have length one, so sizes count lines.  A data race on the    *)
(* stream keeps the line or loses it.                                      *)
(***************************************************************************)
EXTENDS Integers, FiniteSets

CONSTANTS
  Threads,      \* the threads that log
  NoThread,     \* stands for the holder of a free mutex
  Seconds,      \* the seconds of local time, as names of files
  MaxFileSize,  \* max_file_size
  MaxWrites     \* bound: calls of write()

ASSUME ThreadsAssumption     == IsFiniteSet(Threads) /\ NoThread \notin Threads
ASSUME MaxFileSizeAssumption == MaxFileSize \in Nat \ {0}
ASSUME MaxWritesAssumption   == MaxWrites \in Nat

VARIABLES
  pc,        \* where each thread stands in write()
  flag,      \* flag_: the directory has been seen or created
  mutex,     \* the thread that holds mutex_, or NoThread
  rotating,  \* that thread is replacing a full file
  open,      \* file_handle_.is_open()
  size,      \* current_file_size_
  clock,     \* the second it is
  file,      \* the name of the file that was opened last
  files,     \* the names of the files in the directory
  lines,     \* the lines in each file
  writes,    \* calls of write() so far
  lost,      \* history: a line was lost
  raced,     \* history: the stream was used by two threads at once, or closed
             \* under a thread that had found it open
  repeated,  \* history: a file was opened whose name was there already
  missed     \* history: a line was written past the limit without a lock, or
             \* into a new file before current_file_size_ was reset

lockVars == <<mutex, rotating>>
diskVars == <<file, files, lines>>
vars == <<pc, flag, lockVars, open, size, clock, diskVars, writes, lost, raced,
          repeated, missed>>

TypeOK ==
  /\ pc \in [Threads -> {"idle", "check", "lock", "recheck", "open", "reset",
                         "size", "try_lock", "close", "write", "count"}]
  /\ flag \in BOOLEAN
  /\ mutex \in Threads \cup {NoThread}
  /\ rotating \in BOOLEAN
  /\ open \in BOOLEAN
  /\ size \in Nat
  /\ clock \in Seconds
  /\ file \in Seconds /\ files \subseteq Seconds /\ lines \in [Seconds -> Nat]
  /\ writes \in Nat
  /\ lost \in BOOLEAN /\ raced \in BOOLEAN
  /\ repeated \in BOOLEAN /\ missed \in BOOLEAN

\* Nothing is open, and the directory is empty.
Init ==
  /\ pc = [t \in Threads |-> "idle"]
  /\ flag = FALSE
  /\ mutex = NoThread /\ rotating = FALSE
  /\ open = FALSE /\ size = 0
  /\ clock \in Seconds
  /\ file = clock /\ files = {} /\ lines = [n \in Seconds |-> 0]
  /\ writes = 0
  /\ lost = FALSE /\ raced = FALSE /\ repeated = FALSE /\ missed = FALSE

Goto(t, place) == pc' = [pc EXCEPT ![t] = place]

\* The other threads are at one of the places.
OtherAt(t, places) == \E u \in Threads \ {t} : pc[u] \in places

-----------------------------------------------------------------------------

\* Time goes on, or back: the clock may be set, and an hour of local time comes twice.
ClockMoves ==
  /\ clock' \in Seconds \ {clock}
  /\ UNCHANGED <<pc, flag, lockVars, open, size, diskVars, writes, lost, raced, repeated, missed>>

\* write() is called; the directory exists or is created under call_once.
BeginWrite(t) ==
  /\ pc[t] = "idle" /\ writes < MaxWrites
  /\ Goto(t, "check")
  /\ flag' = TRUE
  /\ writes' = writes + 1
  /\ UNCHANGED <<lockVars, open, size, clock, diskVars, lost, raced, repeated, missed>>

\* The directory cannot be created: the exception leaves write(), and the next call
\* tries again.
DirectoryFails(t) ==
  /\ pc[t] = "idle" /\ writes < MaxWrites
  /\ ~flag
  /\ writes' = writes + 1
  /\ UNCHANGED <<pc, flag, lockVars, open, size, clock, diskVars, lost, raced, repeated, missed>>

\* Variant of CheckFile: the file is taken to be there.
CheckFile_Skipped(t) ==
  /\ pc[t] = "check"
  /\ Goto(t, "size")
  /\ UNCHANGED <<flag, lockVars, open, size, clock, diskVars, writes, lost, raced, repeated, missed>>

\* The first is_file_valid(), without the lock.
CheckFile(t) ==
  /\ pc[t] = "check"
  /\ Goto(t, IF open THEN "size" ELSE "lock")
  /\ UNCHANGED <<flag, lockVars, open, size, clock, diskVars, writes, lost, raced, repeated, missed>>

Lock(t) ==
  /\ pc[t] = "lock" /\ mutex = NoThread
  /\ mutex' = t
  /\ Goto(t, "recheck")
  /\ UNCHANGED <<flag, rotating, open, size, clock, diskVars, writes, lost, raced, repeated, missed>>

\* Variant of Recheck: is_file_valid() is not called again under the lock.
Recheck_Skipped(t) ==
  /\ pc[t] = "recheck"
  /\ Goto(t, "open")
  /\ UNCHANGED <<flag, lockVars, open, size, clock, diskVars, writes, lost, raced, repeated, missed>>

\* The second is_file_valid(), under the lock.
Recheck(t) ==
  /\ pc[t] = "recheck"
  /\ Goto(t, IF open THEN "size" ELSE "open")
  /\ mutex' = IF open THEN NoThread ELSE mutex
  /\ UNCHANGED <<flag, rotating, open, size, clock, diskVars, writes, lost, raced, repeated, missed>>

\* create_file() opens a file with the name of this second; if there is one, it is
\* emptied.  A stream that is open already refuses.
OpenFile(t) ==
  /\ pc[t] = "open"
  /\ Goto(t, "reset")
  /\ open' = TRUE
  /\ IF open THEN UNCHANGED <<diskVars, lost, repeated>>
     ELSE /\ file' = clock
          /\ files' = files \cup {clock}
          /\ lines' = [lines EXCEPT ![clock] = 0]
          /\ lost' = (lost \/ lines[clock] > 0)
          /\ repeated' = (repeated \/ clock \in files)
  /\ UNCHANGED <<flag, lockVars, size, clock, writes, raced, missed>>

\* create_file() cannot open the file: its exception leaves write().
OpenFails(t) ==
  /\ pc[t] = "open"
  /\ Goto(t, "idle")
  /\ mutex' = NoThread /\ rotating' = FALSE
  /\ UNCHANGED <<flag, open, size, clock, diskVars, writes, lost, raced, repeated, missed>>

\* create_file() goes on: the file is empty.  The lock is given back.
ResetSize(t) ==
  /\ pc[t] = "reset"
  /\ Goto(t, IF rotating THEN "write" ELSE "size")
  /\ size' = 0
  /\ mutex' = NoThread /\ rotating' = FALSE
  /\ UNCHANGED <<flag, open, clock, diskVars, writes, lost, raced, repeated, missed>>

\* Variant of CheckSize: a file may exceed the limit by one.
CheckSize_Exceeds(t) ==
  /\ pc[t] = "size"
  /\ Goto(t, IF size > MaxFileSize THEN "try_lock" ELSE "write")
  /\ UNCHANGED <<flag, lockVars, open, size, clock, diskVars, writes, lost, raced, repeated, missed>>

\* The file is full or not, by a test without the lock.
CheckSize(t) ==
  /\ pc[t] = "size"
  /\ Goto(t, IF size >= MaxFileSize THEN "try_lock" ELSE "write")
  /\ UNCHANGED <<flag, lockVars, open, size, clock, diskVars, writes, lost, raced, repeated, missed>>

\* try_lock() succeeds: this thread replaces the file, without testing again.
TryLock(t) ==
  /\ pc[t] = "try_lock" /\ mutex = NoThread
  /\ mutex' = t /\ rotating' = TRUE
  /\ Goto(t, "close")
  /\ UNCHANGED <<flag, open, size, clock, diskVars, writes, lost, raced, repeated, missed>>

\* try_lock() fails: the line goes to whatever file there is.
TryLockFails(t) ==
  /\ pc[t] = "try_lock" /\ mutex # NoThread
  /\ Goto(t, "write")
  /\ missed' = TRUE
  /\ UNCHANGED <<flag, lockVars, open, size, clock, diskVars, writes, lost, raced, repeated>>

\* close_file(), maybe under a thread that has found the file open.
CloseFile(t) ==
  /\ pc[t] = "close"
  /\ open' = FALSE
  /\ Goto(t, "open")
  /\ raced' = (raced \/ OtherAt(t, {"size", "try_lock", "write"}))
  /\ UNCHANGED <<flag, lockVars, size, clock, diskVars, writes, lost, repeated, missed>>

\* The line is put into the stream.  A closed stream loses it; a stream that
\* another thread writes to, opens or closes at the same time may.
WriteLine(t) ==
  LET shared == OtherAt(t, {"write", "open", "close"})
  IN /\ pc[t] = "write"
     /\ Goto(t, "count")
     /\ \/ open /\ lines' = [lines EXCEPT ![file] = @ + 1] /\ UNCHANGED lost
        \/ (open => shared) /\ lost' = TRUE /\ UNCHANGED lines
     /\ raced' = (raced \/ shared)
     /\ missed' = (missed \/ OtherAt(t, {"reset"}))
     /\ UNCHANGED <<flag, lockVars, open, size, clock, file, files, writes, repeated>>

\* current_file_size_ grows by the length of the line; write() returns.
CountLine(t) ==
  /\ pc[t] = "count"
  /\ Goto(t, "idle")
  /\ size' = size + 1
  /\ UNCHANGED <<flag, lockVars, open, clock, diskVars, writes, lost, raced, repeated, missed>>

Step(t) ==
  \/ CheckFile(t) \/ Lock(t) \/ Recheck(t) \/ OpenFile(t) \/ OpenFails(t)
  \/ ResetSize(t) \/ CheckSize(t) \/ TryLock(t) \/ TryLockFails(t)
  \/ CloseFile(t) \/ WriteLine(t) \/ CountLine(t)

Next ==
  \/ ClockMoves
  \/ \E t \in Threads : BeginWrite(t) \/ DirectoryFails(t) \/ Step(t)

Spec == Init /\ [][Next]_vars

-----------------------------------------------------------------------------
(* Safety.                                                                 *)

\* A file is opened only on a closed handle, by one thread at a time: open() on an
\* open stream would fail, and with the failure bit set every later line be lost
\* although is_open() stays true.
OpensClosedHandle ==
  /\ \A t \in Threads : pc[t] = "open" => ~open
  /\ \A t, u \in Threads : pc[t] = "open" /\ pc[u] \in {"open", "reset", "close"} => t = u

\* There are two ways to lose a line and no other: two threads used the stream at
\* once, or a file was opened under a name that was there, because the last file was
\* replaced in the second of its creation or the clock had gone back.
LinesKept == lost => raced \/ repeated

\* A file grows past its limit by at most one line per thread that had passed the
\* test of the size, unless a thread failed to get the lock for a full file or
\* wrote between the opening of a file and the reset of the size.
FileBounded ==
  ~missed => \A n \in files : lines[n] < MaxFileSize + Cardinality(Threads)
=============================================================================
