----------------------------- MODULE FileSinks -----------------------------
(***************************************************************************)
(* spdlog's file sinks (sinks/file_sinks.h, contrib/sinks/step_file_sink.h)*)
(* on file_helper (details/file_helper.h): by size, by day and by step.    *)
(* The program logs to a daily one.  A sink runs under its mutex, so a     *)
(* call is one step; opening (after five tries), removing, renaming and    *)
(* writing may fail.  What is written stays for a while in the FILE's      *)
(* buffer: until the C library writes it out, which it may do at any time, *)
(* or _flush or close() make it, whose failures nobody looks at.           *)
(* Time is counted in hours, say, of days of Day hours; local time jumps   *)
(* by Jump at JumpAt when summer time begins or ends.                      *)
(***************************************************************************)
EXTENDS Integers, Sequences, FiniteSets

CONSTANTS Kinds,        \* the sinks considered: "rotating", "daily", "step"
          MaxSize, MaxFiles,    \* of the rotating and the step sink
          HeaderSize,           \* of the step sink's header, none if 0
          StepSeconds, Day, RotationHour, Jump, JumpAt,
          MaxTime,      \* bound: how long it goes on
          MaxMsgs,      \* bound: messages
          MaxFaults     \* bound: operations that fail, buffers killed with the process
ASSUME FileAssumption ==
    /\ Kinds \subseteq {"rotating", "daily", "step"}
    /\ MaxSize \in Nat /\ HeaderSize \in Nat /\ HeaderSize < MaxSize
    /\ MaxFiles \in Nat
    /\ Day \in Nat \ {0} /\ RotationHour \in 0..(Day - 1)
    /\ StepSeconds \in Nat \ {0} /\ Jump \in Int /\ JumpAt \in Int

VARIABLES
    kind,
    delete_empty_files, \* _delete_empty_files, of the step sink
    now,
    dir,        \* the directory: name -> the messages in that file
    file,       \* the name of the open file, _fd, or NoFile
    buffered,   \* how many of its last messages are in the buffer of _fd
    current,    \* _current_filename, of the step sink
    size,       \* _current_size
    tp,         \* _rotation_tp, _tp: when to change files
    logged,     \* how many messages have been logged
    faults,
    crashed     \* written to a null FILE

state == <<dir, file, buffered, current, size, tp>>
set == <<kind, delete_empty_files>>
vars == <<set, now, state, logged, faults, crashed>>

\* (The daily sink does not look at sizes, and only its files tell the time.)
Sizes == IF kind = "daily" THEN {1} ELSE 1..2
Time == IF kind = "daily" THEN now ELSE 0

\* written is the time of the sink's call.  The message's own time is taken by
\* the caller before it waits for the sink's mutex; no sink looks at it.
Message(n, sz) == [n |-> n, size |-> sz, written |-> Time]
Header == [n |-> 0, size |-> HeaderSize, written |-> Time]
NoFile == <<"none", 0>>

Total(s) == LET sum[i \in 0..Len(s)] ==
                    IF i = 0 THEN 0 ELSE sum[i - 1] + s[i].size
            IN  sum[Len(s)]

-----------------------------------------------------------------------------
(* Files and clock.                                                         *)
file_exists(f) == f \in DOMAIN dir
Without(d, f) == [g \in DOMAIN d \ {f} |-> d[g]]
With(d, f, s) == [g \in DOMAIN d \cup {f} |-> IF g = f THEN s ELSE d[g]]
Renamed(d, f, g) == IF f \in DOMAIN d THEN With(Without(d, f), g, d[f]) ELSE d
\* (Mutant: in mode "wb".)
OpenedAnew(d, f) == With(d, f, <<>>)
\* open(f), in mode "ab": creates the file or goes on at its end.
Opened(d, f) == IF f \in DOMAIN d THEN d ELSE With(d, f, <<>>)
Extended(d, f, s) == [d EXCEPT ![f] = @ \o s]
\* The last k messages of f are never written.
Cut(d, f, k) == [d EXCEPT ![f] = SubSeq(@, 1, Len(@) - k)]

Offset(t) == IF t >= JumpAt THEN Jump ELSE 0
localtime(t) == t + Offset(t)
Period(t) == (localtime(t) - RotationHour) \div Day

\* (Mutant: a day after the message.)
next_rotation_tp_late == now + Day

\* mktime is told whether it is summer time now, not at the time asked for.
next_rotation_tp ==
    LET today == (localtime(now) \div Day) * Day + RotationHour - Offset(now)
    IN  IF today > now THEN today ELSE today + Day

Base == <<"log", 0>>
DailyName == <<"day", localtime(now)>>
TmpName == <<"tmp", localtime(now)>>
Target(f) == <<"ext", f[2]>>

(* The constructors.                                                        *)
rotating_file_sink ==
    /\ kind = "rotating" /\ now = 0
    /\ file = Base /\ dir = [f \in {Base} |-> <<>>]
    /\ size = 0

daily_file_sink ==
    /\ kind = "daily" /\ now \in 0..(Day - 1)
    /\ file = DailyName /\ dir = [f \in {DailyName} |-> <<>>]
    /\ tp = next_rotation_tp

step_file_sink ==
    /\ kind = "step" /\ now = 0
    /\ delete_empty_files \in BOOLEAN
    /\ current = TmpName /\ file = TmpName
    /\ dir = [f \in {TmpName} |-> IF HeaderSize > 0 THEN <<Header>> ELSE <<>>]
    /\ size = HeaderSize
    /\ tp = now + StepSeconds

\* (What a sink does not have is given some value.)
Init ==
    /\ kind \in Kinds
    /\ \/ /\ rotating_file_sink
          /\ delete_empty_files = TRUE /\ current = NoFile /\ tp = 0
       \/ /\ daily_file_sink
          /\ delete_empty_files = TRUE /\ current = NoFile /\ size = 0
       \/ step_file_sink
    /\ buffered \in 0..Len(dir[file])
    /\ logged = 0 /\ faults = 0 /\ crashed = FALSE

Tick == /\ kind # "rotating"
        /\ now < MaxTime /\ now' = now + 1
        /\ UNCHANGED <<set, state, logged, faults, crashed>>

Spend(n) == faults + n <= MaxFaults /\ faults' = faults + n

\* After cost failures that went unnoticed an operation fails, and the exception
\* ends the call.
Throw(cost) == Spend(cost + 1) /\ UNCHANGED crashed

\* The directory once the buffer is emptied, or lost but for all but the last k
\* messages, which fflush and fclose say and nobody hears.
Losses == 0..buffered
Cost(k) == IF k = 0 THEN 0 ELSE 1
Drained(k) == IF k = 0 THEN dir ELSE Cut(dir, file, k)

\* write(msg) to f, the last thing each sink does with a message, with b
\* messages in the buffer: it goes behind them, and if the buffer is full they
\* are written out, and it with them or not (or in part).
\* If that fails the exception tells of one message, whatever else is lost.
Write(d, f, b, cost, m) ==
    \/ /\ f = NoFile
       /\ crashed' = TRUE /\ dir' = d /\ buffered' = 0 /\ Spend(cost)
    \/ /\ f # NoFile
       /\ dir' = Extended(d, f, <<m>>)
       /\ buffered' \in {0, 1, b + 1}
       /\ Spend(cost) /\ UNCHANGED crashed
    \/ /\ f # NoFile /\ Throw(cost)
       /\ \E k \in 0..b : dir' = Cut(d, f, k)
       /\ buffered' = 0

-----------------------------------------------------------------------------
(* rotating_file_sink                                                       *)

\* (Mutant: the files are moved from the first to the last.)
ShiftedUp(d, k) ==
    IF Base \in DOMAIN d THEN [f \in {<<"log", MaxFiles>>} |-> d[Base]] ELSE d

\* The files once those from k on have been made out of the ones before.
Shifted(d, k) ==
    LET kept == {i \in 0..MaxFiles : IF i >= k THEN <<"log", i - 1>> \in DOMAIN d
                                     ELSE /\ i # k - 1 \/ k > MaxFiles
                                          /\ <<"log", i>> \in DOMAIN d}
    IN  [f \in {<<"log", i>> : i \in kept} |->
            IF f[2] >= k THEN d[<<"log", f[2] - 1>>] ELSE d[f]]

\* What a rotation that fails leaves of d: the last file could not be
\* removed, one could not be renamed, or the new one could not be opened.
HalfRotated(d) ==
    {d : i \in {i \in {MaxFiles} : i > 0 /\ <<"log", i>> \in DOMAIN d}}
    \cup {Without(Shifted(d, i + 1), <<"log", i>>) :
             i \in {i \in 1..MaxFiles : <<"log", i - 1>> \in DOMAIN d}}
    \cup {Shifted(d, 1)}

\* (Mutant: the size is reset before the rotation.)
RotateThenWriteReset(m) ==
    \E k \in Losses :
       /\ size' = m.size
       /\ \/ /\ file' = Base
             /\ Write(With(Shifted(Drained(k), 1), Base, <<>>), Base, 0, Cost(k), m)
          \/ /\ Throw(Cost(k))
             /\ dir' \in HalfRotated(Drained(k))
             /\ file' = NoFile /\ buffered' = 0

RotateThenWrite(m) ==
    \E k \in Losses :
       \/ /\ size' = m.size
          /\ file' = Base
          /\ Write(With(Shifted(Drained(k), 1), Base, <<>>), Base, 0, Cost(k), m)
       \/ /\ Throw(Cost(k)) /\ size' = size + m.size
          /\ dir' \in HalfRotated(Drained(k))
          /\ file' = NoFile /\ buffered' = 0

LogRotating(m) ==
    /\ kind = "rotating"
    /\ IF size + m.size > MaxSize THEN RotateThenWrite(m)
       ELSE /\ size' = size + m.size
            /\ Write(dir, file, buffered, 0, m)
            /\ UNCHANGED file
    /\ UNCHANGED <<current, tp>>

-----------------------------------------------------------------------------
(* daily_file_sink                                                          *)

LogDaily(m) ==
    /\ kind = "daily"
    /\ IF now < tp THEN Write(dir, file, buffered, 0, m) /\ UNCHANGED <<file, tp>>
       ELSE \E k \in Losses :
              \/ /\ file' = DailyName
                 /\ tp' = next_rotation_tp
                 /\ Write(Opened(Drained(k), DailyName), DailyName, 0, Cost(k), m)
              \/ /\ Throw(Cost(k))
                 /\ file' = NoFile /\ buffered' = 0
                 /\ dir' = Drained(k)
                 /\ UNCHANGED tp
    /\ UNCHANGED <<current, size>>

-----------------------------------------------------------------------------
(* step_file_sink                                                           *)

Empty == delete_empty_files /\ size <= HeaderSize

\* (Mutant: the file is not given its final name.)
ClosedAsItIs(d) == IF Empty THEN Without(d, current) ELSE d

\* close_current_file: if it is asked for a file with nothing but its header is
\* removed, any other gets its final name.  The FILE stays open until open().
Closed(d) == IF Empty THEN Without(d, current)
             ELSE Renamed(d, current, Target(current))

\* The outcome of close_current_file when an operation fails, or when the
\* empty file is not there any more: an exception, whatever is open.
CloseThrows == \/ Throw(0)
               \/ Empty /\ ~file_exists(current) /\ UNCHANGED <<faults, crashed>>

\* The new file of d, with its header if there is one.
Headed(d) == IF HeaderSize > 0 THEN Extended(d, TmpName, <<Header>>) ELSE d

ChangeThenWrite(m) ==
    \/ /\ CloseThrows /\ UNCHANGED state
    \/ /\ ~(Empty /\ ~file_exists(current))
       /\ current' = TmpName
       /\ \E k \in Losses :
            LET d == Closed(Drained(k))
            IN  \/ /\ file' = TmpName /\ tp' = now + StepSeconds
                   /\ size' = HeaderSize + m.size
                   /\ Write(Headed(Opened(d, TmpName)), TmpName, Cost(HeaderSize),
                            Cost(k), m)
                \/ /\ Throw(Cost(k))   \* opening fails
                   /\ file' = NoFile /\ buffered' = 0 /\ dir' = d
                   /\ UNCHANGED <<size, tp>>
                \/ /\ HeaderSize > 0 /\ Throw(Cost(k))   \* writing the header fails
                   /\ file' = TmpName /\ buffered' = 0 /\ dir' = Opened(d, TmpName)
                   /\ size' = HeaderSize /\ tp' = now + StepSeconds

\* A file of this second is kept, whatever its size.
LogStep(m) ==
    /\ kind = "step"
    /\ LET due == now >= tp \/ size + m.size > MaxSize
       IN  IF due /\ ~file_exists(TmpName) THEN ChangeThenWrite(m)
           ELSE /\ tp' = IF due THEN now + StepSeconds ELSE tp
                /\ size' = size + m.size
                /\ Write(dir, file, buffered, 0, m)
                /\ UNCHANGED <<file, current>>

-----------------------------------------------------------------------------
Log == /\ logged < MaxMsgs /\ logged' = logged + 1
       /\ ~crashed
       /\ \E sz \in Sizes : LET m == Message(logged', sz)
                            IN  LogRotating(m) \/ LogDaily(m) \/ LogStep(m)
       /\ UNCHANGED <<set, now>>

\* _flush.  (Without a file fflush empties the buffers of other files.)
Flush == /\ ~crashed /\ file # NoFile
         /\ \E k \in Losses : dir' = Drained(k) /\ Spend(Cost(k))
         /\ buffered' = 0
         /\ UNCHANGED <<set, now, file, current, size, tp, logged, crashed>>

\* The process ends, in order or with what is in the buffer, and is started
\* again: the rotating sink goes on with its file, the daily one opens the file
\* of the minute.
Restart == /\ ~crashed /\ kind # "step"
           /\ file' = IF kind = "rotating" THEN Base ELSE DailyName
           /\ \E k \in Losses : dir' = Opened(Drained(k), file') /\ Spend(Cost(k))
           /\ buffered' = 0
           /\ size' = IF kind = "rotating" THEN Total(dir'[file']) ELSE size
           /\ tp' = IF kind = "daily" THEN next_rotation_tp ELSE tp
           /\ UNCHANGED <<set, now, current, logged, crashed>>

Next == Tick \/ Log \/ Flush \/ Restart

Spec == Init /\ [][Next]_vars

-----------------------------------------------------------------------------
Numbers(f) == {dir[f][i].n : i \in DOMAIN dir[f]}

\* The messages in the files but for the last b of the open one's.
Messages(b) == {n \in 1..logged : \E f \in DOMAIN dir : \E i \in DOMAIN dir[f] :
                   dir[f][i].n = n /\ (f = file => i <= Len(dir[f]) - b)}
Held == Messages(0)
OnDisk == Messages(buffered)

(* What has left the buffer stays in some file whatever fails afterwards, in*)
(* a rotation or a change of files half way too; only the rotating sink     *)
(* gives a message up, when it is older than all that stay.  And the        *)
(* rotating and the daily sink recover by themselves: a call in which       *)
(* nothing fails puts its message into a file, whatever failed before.  (Not*)
(* so the step sink, which a first failure may end or kill.)                *)
FilesKeep ==
    [][/\ \A n \in OnDisk : \/ n \in Held'
                            \/ kind = "rotating" /\ \A m \in Held' : n < m
       /\ kind # "step" /\ logged' > logged /\ faults' = faults =>
             logged' \in Held' /\ ~crashed']_vars

(* The rotating sink never has a message in a later file than an older one, *)
(* keeps to its size (but for a message that is longer), and as long as     *)
(* nothing failed what its files hold is the end of what was logged and     *)
(* nothing is thrown away before there are MaxFiles beside the current one. *)
RotatingKeepsTheLatest ==
    kind = "rotating" =>
        LET held == UNION {Numbers(f) : f \in DOMAIN dir}
        IN  /\ \A f, g \in DOMAIN dir : f[2] > g[2] =>
                  \A a \in Numbers(f), b \in Numbers(g) : a < b
            /\ \A f \in DOMAIN dir : \/ Total(dir[f]) <= MaxSize
                                     \/ Len(dir[f]) = 1
            /\ faults = 0 => /\ \A a \in held : a..logged \subseteq held
                             /\ \/ held = 1..logged
                                \/ Cardinality(DOMAIN dir) = MaxFiles + 1

(* "Rotating file sink based on date. rotates at midnight"                  *)
(* (file_sinks.h:191), or at the hour it is given: no file holds messages   *)
(* written before and after that hour.  (One that was logged just before    *)
(* and had to wait for the sink may be written after it.)                   *)
OneDayPerFile ==
    kind = "daily" =>
        \A f \in DOMAIN dir : \A i, j \in DOMAIN dir[f] :
            Period(dir[f][i].written) = Period(dir[f][j].written)

(* The step sink leaves no file behind under its temporary name but the one *)
(* it writes, and until something fails each file begins with its only      *)
(* header.                                                                  *)
StepFilesComplete ==
    (kind = "step" /\ ~crashed) =>
        /\ \A f \in DOMAIN dir : f[1] = "tmp" => f = current
        /\ HeaderSize > 0 /\ faults = 0 =>
              \A f \in DOMAIN dir : \A i \in DOMAIN dir[f] :
                 dir[f][i].n = 0 <=> i = 1
=============================================================================
