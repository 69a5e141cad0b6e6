--------------------------- MODULE Loggers_proofs ---------------------------
(***************************************************************************)
(* The properties of Loggers, for any threads, names, levels and bounds:   *)
(* whom global settings reach, when an error may go unprinted, and that no *)
(* message is missed in silence.  The invariant is Types; Reach, which     *)
(* follows a handler being set for all loggers one after the other;        *)
(* Earned, which finds for the time of a logger's last error the line with *)
(* that time, printed or about to be; and Delivered, on top of these, which says how far a  *)
(* thread on its way with a message has brought it.                        *)
(***************************************************************************)
EXTENDS Loggers, SequenceTheorems, FiniteSetTheorems, WellFoundedInduction, TLAPS

Choices == Levels \cup {"default", "other"}
Setups == [Settings -> Choices]
LoggerType == [set : Setups, own : SUBSET Settings, async : BOOLEAN, last_err : Nat]
JobType == [n : Nat, id : Nat, at : Nat, handler : {"default", "other"},
            todo : SUBSET Nat]
MsgType == [level : Levels, urgent : BOOLEAN, over : BOOLEAN]
ErrorType == [id : Nat, at : Nat, printed : BOOLEAN]
Logging == {"format", "sink", "flush", "handle", "set", "print"}

Types ==
    /\ registered \in [Names -> Nat]
    /\ \A n \in Names : registered[n] <= Len(loggers)
    /\ loggers \in Seq(LoggerType)
    /\ globals \in [set : Setups, async : BOOLEAN]
    /\ msgs \in Seq(MsgType) /\ errors \in Seq(ErrorType)
    /\ time \in Nat /\ time >= Window
    /\ pc \in [Threads -> {"idle", "handlers"} \cup Logging]
    /\ job \in [Threads -> JobType]
    /\ \A t \in Threads : pc[t] \in Logging => job[t].id \in 1..Len(loggers)
    /\ raced \in BOOLEAN

\* A logger whose handler is as thread t sets it, or its own.
Has(id, h) == "err_handler" \in loggers[id].own \/ loggers[id].set["err_handler"] = h
OneAtATime ==
    ~raced => \A t, u \in Threads : pc[t] = "handlers" /\ pc[u] = "handlers" => t = u
HandlersSet ==
    ~raced => \A t \in Threads, n \in Names :
                 \/ pc[t] # "handlers" \/ registered[n] = 0
                 \/ registered[n] \in job[t].todo
                 \/ Has(registered[n], job[t].handler)
Reach == SettingsReachAll /\ OneAtATime /\ HandlersSet

\* The time of the last error is that of a line.
Earned ==
    /\ \A id \in 1..Len(loggers) :
          loggers[id].last_err = 0 \/ loggers[id].last_err \in Lines(id)
    /\ SilenceIsEarned

-----------------------------------------------------------------------------
LEMMA SettingsAre == /\ Settings = {"level", "flush_level", "err_handler"}
                     /\ \A s \in Settings : Values[s] \subseteq Choices
                     /\ Values.err_handler = {"default", "other"}
BY DEF Settings, Values, Choices

LEMMA PlainSetup == Plain \in Setups
  <1>1. Plain = [s \in Settings |-> Plain[s]]
    BY SettingsAre DEF Plain
  <1>2. \A s \in Settings : Plain[s] \in Choices
    BY SettingsAre, LoggerAssumption DEF Plain, Choices, info, off
  <1> QED
    BY <1>1, <1>2 DEF Setups

LEMMA NewOne ==
    ASSUME NEW set \in Setups, NEW own \in SUBSET Settings, NEW async \in BOOLEAN
    PROVE  /\ NewLogger(set, own) \in LoggerType
           /\ [NewLogger(set, own) EXCEPT !.async = async] \in LoggerType
           /\ NewLogger(set, own).last_err = 0
           /\ NewLogger(set, own).set = set /\ NewLogger(set, own).own = own
           /\ [NewLogger(set, own) EXCEPT !.async = async].last_err = 0
           /\ [NewLogger(set, own) EXCEPT !.async = async].set = set
           /\ [NewLogger(set, own) EXCEPT !.async = async].own = own
BY DEF NewLogger, LoggerType

LEMMA NoJobType == NoJob \in JobType
BY DEF NoJob, JobType

LEMMA JobNext ==
    ASSUME Types, NEW t \in Threads, NEW k \in Nat,
           job' = [job EXCEPT ![t].at = k]
    PROVE  /\ job' \in [Threads -> JobType]
           /\ job'[t].id = job[t].id /\ job'[t].at = k
           /\ \A u \in Threads \ {t} : job'[u] = job[u]
  <1> DEFINE j == job[t]
             n == [j EXCEPT !.at = k]
  <1>1. j \in JobType
    BY DEF Types
  <1>2. job' = [job EXCEPT ![t] = n]
    OBVIOUS
  <1> HIDE DEF j
  <1>3. n \in JobType /\ n.id = j.id /\ n.at = k
    BY <1>1 DEF JobType
  <1> HIDE DEF n
  <1> QED
    BY <1>2, <1>3 DEF Types, j

LEMMA JobId ==
    ASSUME NEW k \in Nat, NEW m \in Nat
    PROVE  /\ [NoJob EXCEPT !.id = k] \in JobType /\ [NoJob EXCEPT !.id = k].id = k
           /\ [NoJob EXCEPT !.n = m, !.id = k] \in JobType
           /\ [NoJob EXCEPT !.n = m, !.id = k].id = k
BY DEF NoJob, JobType

\* What msgs and the next place of a thread become.
LEMMA Over ==
    ASSUME Types, NEW n
    PROVE  /\ [msgs EXCEPT ![n].over = TRUE] \in Seq(MsgType)
           /\ [msgs EXCEPT ![n].urgent = TRUE] \in Seq(MsgType)
  <1>1. msgs \in Seq(MsgType) /\ Len(msgs) \in Nat /\ DOMAIN msgs = 1..Len(msgs)
        /\ \A i \in 1..Len(msgs) : msgs[i] \in MsgType
    BY DEF Types
  <1>2. \A m \in MsgType : /\ [m EXCEPT !.over = TRUE] \in MsgType
                           /\ [m EXCEPT !.urgent = TRUE] \in MsgType
    BY DEF MsgType
  <1> DEFINE a == [msgs EXCEPT ![n].over = TRUE]
             b == [msgs EXCEPT ![n].urgent = TRUE]
  <1>3. /\ a = [i \in 1..Len(msgs) |-> a[i]] /\ b = [i \in 1..Len(msgs) |-> b[i]]
        /\ \A i \in 1..Len(msgs) : a[i] \in MsgType /\ b[i] \in MsgType
    BY <1>1, <1>2
  <1> HIDE DEF a, b
  <1>4. a \in Seq(MsgType) /\ b \in Seq(MsgType)
    BY <1>1, <1>3
  <1> QED
    BY <1>4 DEF a, b

\* What With does to the loggers.
Effect(w, ids, s, v, own) ==
    /\ w \in Seq(LoggerType) /\ Len(w) = Len(loggers)
    /\ \A id \in 1..Len(loggers) :
          /\ w[id].last_err = loggers[id].last_err
          /\ id \notin ids => w[id] = loggers[id]
          /\ id \in ids => w[id].set[s] = v
          /\ id \in ids /\ own = TRUE => s \in w[id].own
          /\ \A z \in Settings \ {s} : /\ w[id].set[z] = loggers[id].set[z]
                                       /\ z \in w[id].own <=> z \in loggers[id].own

LEMMA WithEffect ==
    ASSUME Types, NEW ids, NEW s \in Settings, NEW v \in Choices, NEW own \in BOOLEAN
    PROVE  Effect(With(ids, s, v, own), ids, s, v, own)
  <1> DEFINE new(l) == [l EXCEPT !.set[s] = v,
                                 !.own = IF own THEN @ \cup {s} ELSE @ \ {s}]
             w == With(ids, s, v, own)
  <1>1. ASSUME NEW l \in LoggerType
        PROVE  /\ new(l) \in LoggerType /\ new(l).last_err = l.last_err
               /\ new(l).set[s] = v
               /\ own => s \in new(l).own
               /\ \A z \in Settings \ {s} : /\ new(l).set[z] = l.set[z]
                                            /\ z \in new(l).own <=> z \in l.own
    BY <1>1 DEF LoggerType, Setups
  <1>2. loggers \in Seq(LoggerType) /\ Len(loggers) \in Nat
        /\ DOMAIN loggers = 1..Len(loggers)
        /\ \A id \in 1..Len(loggers) : loggers[id] \in LoggerType
    BY DEF Types
  <1>3. w = [id \in 1..Len(loggers) |-> IF id \in ids THEN new(loggers[id])
                                        ELSE loggers[id]]
    BY <1>2 DEF With
  <1> HIDE DEF new, w
  <1>4. \A id \in 1..Len(loggers) : w[id] \in LoggerType
    BY <1>1, <1>2, <1>3
  <1>5. w \in Seq(LoggerType) /\ Len(w) = Len(loggers)
    BY <1>2, <1>3, <1>4
  <1>6. Effect(w, ids, s, v, own)
    BY <1>1, <1>2, <1>3, <1>5 DEF Effect
  <1> QED
    BY <1>6 DEF w

-----------------------------------------------------------------------------
(* What the steps do.                                                       *)

\* A step of a thread that sets nothing and has not failed before.
Quietly(t) ==
    /\ UNCHANGED <<registryVars, raced, time>> /\ msgs' \in Seq(MsgType)
    /\ pc' \in [Threads -> {"idle", "handlers"} \cup Logging]
    /\ job' \in [Threads -> JobType]
    /\ pc[t] # "handlers" /\ pc'[t] # "handlers"
    /\ \A u \in Threads \ {t} : pc'[u] = pc[u] /\ job'[u] = job[u]
    /\ pc'[t] \in Logging => job'[t].id \in 1..Len(loggers)

Call1(t) == \E id \in DOMAIN loggers :
               flush(t, id) \/ \E level \in Levels : Log(t, id, level)
Sinking(t) == \/ FormatThrows(t) \/ Format(t) \/ Sink(t) \/ SinkThrows(t) \/ Sunk(t)
              \/ SinkFlushes(t) \/ FlushThrows(t) \/ Flushed(t) \/ HandleOtherwise(t)

LEMMA ReturnEffect ==
    ASSUME Types, NEW t \in Threads, Return(t)
    PROVE  /\ pc' \in [Threads -> {"idle", "handlers"} \cup Logging]
           /\ job' \in [Threads -> JobType] /\ pc'[t] = "idle"
           /\ msgs' \in Seq(MsgType)
           /\ \A u \in Threads \ {t} : pc'[u] = pc[u] /\ job'[u] = job[u]
BY NoJobType, Over DEF Return, Go, Types

LEMMA SinkingQuiet ==
    ASSUME Types, NEW t \in Threads, Sinking(t)
    PROVE  Quietly(t) /\ pc[t] # "print" /\ errors' = errors
  <1>1. CASE FormatThrows(t)
    BY <1>1 DEF FormatThrows, Go, Quietly, Types, Logging, logVars
  <1>2. CASE Format(t)
    BY <1>2 DEF Format, Go, Quietly, Types, Logging, logVars
  <1>3. ASSUME pc[t] \in {"sink", "flush"}, pc' = pc, job' = [job EXCEPT ![t].at = @ + 1],
               UNCHANGED <<registryVars, raced, time, errors, msgs>>
        PROVE  Quietly(t) /\ pc[t] # "print" /\ errors' = errors
    <2>1. job' \in [Threads -> JobType] /\ job'[t].id = job[t].id
      <3>1. job[t].at + 1 \in Nat
        BY DEF Types, JobType
      <3>2. job' = [job EXCEPT ![t].at = job[t].at + 1]
        BY <1>3
      <3> QED
        BY <3>1, <3>2, JobNext
    <2> QED
      BY <1>3, <2>1 DEF Quietly, Types, Logging
  <1>4. CASE Sink(t) \/ SinkFlushes(t)
    BY <1>3, <1>4 DEF Sink, SinkFlushes, logVars
  <1>5. CASE SinkThrows(t)
    BY <1>5 DEF SinkThrows, Go, Quietly, Types, Logging, logVars
  <1>6. CASE FlushThrows(t)
    BY <1>6 DEF FlushThrows, Go, Quietly, Types, Logging, logVars
  <1>7. CASE Sunk(t)
    <2>1. CASE Return(t)
      BY <1>7, <2>1, ReturnEffect DEF Sunk, Quietly, Logging, logVars
    <2>2. CASE Go(t, "flush") /\ job' = [job EXCEPT ![t].at = 1]
      <3>1. job' \in [Threads -> JobType] /\ job'[t].id = job[t].id
        <4>1. 1 \in Nat
          OBVIOUS
        <4> QED
          BY <2>2, <4>1, JobNext
      <3>2. pc[t] = "sink" /\ UNCHANGED <<registryVars, raced, time, errors>>
            /\ msgs' = [msgs EXCEPT ![job[t].n].urgent = TRUE]
        BY <1>7, <2>2 DEF Sunk, logVars, Return, Go, Types
      <3>3. msgs' \in Seq(MsgType)
        BY <3>2, Over
      <3> QED
        BY <2>2, <3>1, <3>2, <3>3 DEF Go, Quietly, Types, Logging
    <2> QED
      BY <1>7, <2>1, <2>2 DEF Sunk
  <1>8. CASE Flushed(t)
    BY <1>8, ReturnEffect DEF Flushed, Quietly, Logging, logVars
  <1>9. CASE HandleOtherwise(t)
    BY <1>9, ReturnEffect DEF HandleOtherwise, Quietly, Logging, logVars
  <1> QED
    BY <1>1, <1>2, <1>4, <1>5, <1>6, <1>7, <1>8, <1>9 DEF Sinking

LEMMA Call1Quiet ==
    ASSUME Types, NEW t \in Threads, Call1(t)
    PROVE  Quietly(t) /\ pc[t] # "print" /\ errors' = errors
  <1>1. PICK id \in 1..Len(loggers) :
           flush(t, id) \/ \E level \in Levels : Log(t, id, level)
    BY DEF Call1, Types
  <1>2. id \in Nat
    BY <1>1 DEF Types
  <1>3. CASE flush(t, id)
    BY <1>1, <1>2, <1>3, JobId DEF flush, Call, Go, Quietly, Types, Logging, logVars
  <1>4. ASSUME NEW level \in Levels, Log(t, id, level)
        PROVE  Quietly(t) /\ pc[t] # "print" /\ errors' = errors
    <2>1. CASE UNCHANGED <<msgs, job, pc>>
      BY <1>4, <2>1 DEF Log, Call, Quietly, Types, Logging
    <2>2. CASE /\ msgs' = Append(msgs, [level |-> level, urgent |-> FALSE, over |-> FALSE])
               /\ job' = [job EXCEPT ![t] = [NoJob EXCEPT !.n = Len(msgs'), !.id = id]]
               /\ pc' = [pc EXCEPT ![t] = "format"]
      <3>1. msgs' \in Seq(MsgType) /\ Len(msgs') \in Nat
        <4>1. [level |-> level, urgent |-> FALSE, over |-> FALSE] \in MsgType
          BY DEF MsgType
        <4> QED
          BY <2>2, <4>1, AppendProperties DEF Types
      <3>2. job' \in [Threads -> JobType] /\ job'[t].id = id
            /\ \A u \in Threads \ {t} : job'[u] = job[u]
        BY <1>2, <2>2, <3>1, JobId DEF Types
      <3> QED
        BY <1>1, <1>4, <2>2, <3>1, <3>2 DEF Log, Call, Quietly, Types, Logging
    <2> QED
      BY <1>4, <2>1, <2>2 DEF Log
  <1> QED
    BY <1>1, <1>3, <1>4

Inv == Types /\ Reach /\ Earned

-----------------------------------------------------------------------------
(* The invariant is kept.                                                   *)

LEMMA Registry ==
    ASSUME Types
    PROVE  /\ Len(loggers) \in Nat /\ DOMAIN loggers = 1..Len(loggers)
           /\ \A id \in 1..Len(loggers) : /\ loggers[id] \in LoggerType
                                          /\ loggers[id].set \in Setups
                                          /\ loggers[id].own \in SUBSET Settings
                                          /\ loggers[id].last_err \in Nat
           /\ \A n \in Names : registered[n] = 0 \/ registered[n] \in 1..Len(loggers)
           /\ globals.set \in Setups /\ globals.async \in BOOLEAN
  <1>1. /\ Len(loggers) \in Nat /\ DOMAIN loggers = 1..Len(loggers)
        /\ \A id \in 1..Len(loggers) : loggers[id] \in LoggerType
    BY DEF Types
  <1>2. \A l \in LoggerType : /\ l.set \in Setups /\ l.own \in SUBSET Settings
                             /\ l.last_err \in Nat
    BY DEF LoggerType
  <1>3. \A n \in Names : registered[n] \in Nat /\ registered[n] <= Len(loggers)
    BY DEF Types
  <1>4. \A n \in Names : registered[n] = 0 \/ registered[n] \in 1..Len(loggers)
    BY <1>1, <1>3
  <1>5. globals.set \in Setups /\ globals.async \in BOOLEAN
    BY DEF Types
  <1> QED
    BY <1>1, <1>2, <1>4, <1>5

\* A line stays a line while the threads that are about to print one are.
LEMMA LinesStay ==
    ASSUME Len(errors) \in Nat, Len(errors') \in Nat, Len(errors) <= Len(errors'),
           DOMAIN errors = 1..Len(errors), DOMAIN errors' = 1..Len(errors'),
           \A j \in 1..Len(errors) : errors'[j] = errors[j],
           \A t \in Threads : pc[t] = "print" =>
                /\ pc'[t] = "print"
                /\ job'[t].id = job[t].id /\ job'[t].at = job[t].at
    PROVE  \A id : Lines(id) \subseteq Lines(id)'
  <1> TAKE id
  <1>1. \A j \in DOMAIN errors : j \in DOMAIN errors' /\ errors'[j] = errors[j]
    OBVIOUS
  <1> QED
    BY <1>1 DEF Lines

\* Every time of a last error has its line, and every silence.
LEMMA EarnedStays ==
    ASSUME Earned, \A id : Lines(id) \subseteq Lines(id)',
           \A id \in 1..Len(loggers') :
              \/ loggers'[id].last_err = 0
              \/ id \in 1..Len(loggers) /\ loggers'[id].last_err = loggers[id].last_err
              \/ loggers'[id].last_err \in Lines(id)',
           \A i \in DOMAIN errors' :
              \/ i \in DOMAIN errors /\ errors'[i] = errors[i]
              \/ errors'[i].printed
              \/ NearLine(i)'
    PROVE  Earned'
  <1>1. ASSUME NEW id \in 1..Len(loggers'), loggers'[id].last_err # 0
        PROVE  loggers'[id].last_err \in Lines(id)'
    <2>1. CASE id \in 1..Len(loggers) /\ loggers'[id].last_err = loggers[id].last_err
      <3>1. loggers[id].last_err \in Lines(id)
        BY <1>1, <2>1 DEF Earned
      <3> QED
        BY <2>1, <3>1
    <2> QED
      BY <1>1, <2>1
  <1>2. ASSUME NEW i \in DOMAIN errors', ~errors'[i].printed
        PROVE  NearLine(i)'
    <2>1. CASE i \in DOMAIN errors /\ errors'[i] = errors[i]
      <3>1. PICK at \in Lines(errors[i].id) : errors[i].at < at + Window
        BY <1>2, <2>1 DEF Earned, SilenceIsEarned, NearLine
      <3>2. \A id : at \in Lines(id) => at \in Lines(id)'
        OBVIOUS
      <3>3. at \in Lines(errors[i].id)'
        BY <2>1, <3>1, <3>2
      <3> QED
        BY <2>1, <3>1, <3>3 DEF NearLine
    <2> QED
      BY <1>2, <2>1
  <1>3. SilenceIsEarned'
    BY <1>2 DEF SilenceIsEarned
  <1> QED
    BY <1>1, <1>3 DEF Earned

\* ... as when there is no new line and no new silence.
LEMMA NothingNew ==
    ASSUME Types, Earned, errors' = errors,
           \A t \in Threads : pc[t] = "print" =>
                /\ pc'[t] = "print"
                /\ job'[t].id = job[t].id /\ job'[t].at = job[t].at,
           \A id \in 1..Len(loggers') :
              \/ loggers'[id].last_err = 0
              \/ id \in 1..Len(loggers) /\ loggers'[id].last_err = loggers[id].last_err
              \/ loggers'[id].last_err \in Lines(id)'
    PROVE  Earned'
  <1>1. Len(errors) \in Nat /\ DOMAIN errors = 1..Len(errors)
    BY LenProperties DEF Types
  <1>2. \A id : Lines(id) \subseteq Lines(id)'
    BY <1>1, LinesStay
  <1> QED
    BY <1>2, EarnedStays

LEMMA Quiet ==
    ASSUME Inv, NEW t \in Threads, Quietly(t), pc[t] # "print", errors' = errors
    PROVE  Inv'
  <1>1. /\ UNCHANGED <<registered, loggers, globals, raced, time, errors>>
        /\ pc[t] # "handlers" /\ pc'[t] # "handlers"
        /\ \A u \in Threads \ {t} : pc'[u] = pc[u] /\ job'[u] = job[u]
        /\ pc'[t] \in Logging => job'[t].id \in 1..Len(loggers)
    BY DEF Quietly, registryVars
  <1>2. Types'
    BY <1>1 DEF Inv, Quietly, Types
  <1>3. Iterating' = Iterating
    BY <1>1 DEF Iterating
  <1>4. Reach'
    <2>1. SettingsReachAll'
      BY <1>1, <1>3 DEF Inv, Reach, SettingsReachAll
    <2>2. OneAtATime'
      BY <1>1 DEF Inv, Reach, OneAtATime
    <2>3. HandlersSet'
      BY <1>1 DEF Inv, Reach, HandlersSet, Has
    <2> QED
      BY <2>1, <2>2, <2>3 DEF Reach
  <1>5. Earned'
    BY <1>1, NothingNew DEF Inv
  <1> QED
    BY <1>2, <1>4, <1>5 DEF Inv

(* A logger is entered in the registry.                                      *)
LEMMA Entering ==
    ASSUME Inv, NEW n \in Names, NEW l \in LoggerType, l.last_err = 0,
           l.own = Settings \/ l.set = globals.set,
           Enter(n, l), UNCHANGED <<globals, msgs, errors, time, pc, job>>,
           raced' = (raced \/ Iterating)
    PROVE  Inv'
  <1>0. Types /\ Reach /\ Earned
    BY DEF Inv
  <1>1. /\ loggers' = Append(loggers, l)
        /\ registered' = [registered EXCEPT ![n] = Len(loggers')]
    BY DEF Enter
  <1>2. /\ loggers' \in Seq(LoggerType) /\ Len(loggers) \in Nat
        /\ Len(loggers') = Len(loggers) + 1 /\ loggers'[Len(loggers) + 1] = l
        /\ \A id \in 1..Len(loggers) : loggers'[id] = loggers[id]
    BY <1>0, <1>1, AppendProperties DEF Types
  <1>3. /\ registered' \in [Names -> Nat] /\ registered'[n] = Len(loggers) + 1
        /\ \A m \in Names \ {n} : registered'[m] = registered[m]
    BY <1>0, <1>1, <1>2 DEF Types
  <1>4. \A m \in Names : registered[m] = 0 \/ registered[m] \in 1..Len(loggers)
    BY <1>0, Registry
  <1>5. Types'
    <2>1. ASSUME NEW m \in Names PROVE registered'[m] <= Len(loggers')
      <3>1. registered[m] \in Nat /\ registered[m] <= Len(loggers)
        BY <1>0 DEF Types
      <3> QED
        BY <1>2, <1>3, <3>1
    <2>2. \A u \in Threads : pc'[u] \in Logging => job'[u].id \in 1..Len(loggers')
      BY <1>0, <1>2 DEF Types
    <2>3. raced' \in BOOLEAN
      BY <1>0 DEF Types, Iterating
    <2> QED
      BY <1>0, <1>2, <1>3, <2>1, <2>2, <2>3 DEF Types
  <1>6. Iterating' = Iterating
    BY DEF Iterating
  <1>7. SettingsReachAll'
    <2> SUFFICES ASSUME NEW m \in Names, NEW s \in Settings
                 PROVE  \/ registered'[m] = 0
                        \/ s = "err_handler" /\ (raced' \/ Iterating')
                        \/ s \in loggers'[registered'[m]].own
                        \/ loggers'[registered'[m]].set[s] = globals'.set[s]
      BY DEF SettingsReachAll
    <2>1. CASE m = n
      BY <1>2, <1>3, <2>1
    <2>2. CASE m # n
      <3>1. registered'[m] = registered[m]
        BY <1>3, <2>2
      <3>2. CASE registered[m] = 0
        BY <3>1, <3>2
      <3>3. CASE registered[m] \in 1..Len(loggers)
        <4>1. loggers'[registered'[m]] = loggers[registered[m]]
          BY <1>2, <3>1, <3>3
        <4> QED
          BY <1>0, <1>6, <3>1, <4>1 DEF Reach, SettingsReachAll
      <3> QED
        BY <1>4, <3>2, <3>3
    <2> QED
      BY <2>1, <2>2
  <1>8. OneAtATime' /\ HandlersSet'
    \* A thread that goes through the loggers is in a race now.
    BY DEF OneAtATime, HandlersSet, Iterating
  <1>9. Earned'
    <2>1. ASSUME NEW id \in 1..Len(loggers')
          PROVE  \/ loggers'[id].last_err = 0
                 \/ id \in 1..Len(loggers) /\ loggers'[id].last_err = loggers[id].last_err
      <3>1. id = Len(loggers) + 1 \/ id \in 1..Len(loggers)
        BY <1>2
      <3> QED
        BY <1>2, <3>1
    <2> QED
      BY <1>0, <2>1, NothingNew
  <1> QED
    BY <1>5, <1>7, <1>8, <1>9 DEF Inv, Reach

LEMMA Creating ==
    ASSUME Inv, NEW t \in Threads, NEW n \in Names,
           Create(t, n) \/ create_async(t, n) \/ register_logger(t, n)
    PROVE  Inv'
  <1>0. /\ Types /\ globals.set \in Setups /\ globals.async \in BOOLEAN
        /\ Settings \in SUBSET Settings /\ {} \in SUBSET Settings
    BY Registry DEF Inv
  <1>1. ASSUME NEW async \in BOOLEAN, CreateAs(t, n, async)
        PROVE  Inv'
    <2>1. UNCHANGED <<msgs, errors, time, pc, job>> /\ pc[t] = "idle"
      BY <1>1 DEF CreateAs, Call, logVars
    <2>2. CASE Throws(n)
      <3>1. UNCHANGED <<registryVars, raced>>
        BY <1>1, <2>2 DEF CreateAs
      <3>2. Quietly(t) /\ pc[t] # "print"
        BY <1>0, <2>1, <3>1 DEF Quietly, Types, Logging
      <3> QED
        BY <2>1, <3>2, Quiet
    <2>3. CASE ~Throws(n)
      <3> DEFINE l == [NewLogger(globals.set, {}) EXCEPT !.async = async]
      <3>1. Enter(n, l) /\ raced' = (raced \/ Iterating) /\ globals' = globals
        BY <1>1, <2>3 DEF CreateAs
      <3>2. l \in LoggerType /\ l.last_err = 0 /\ l.set = globals.set
        BY <1>0, <1>1, NewOne
      <3> HIDE DEF l
      <3> QED
        BY <2>1, <3>1, <3>2, Entering
    <2> QED
      BY <2>2, <2>3
  <1>2. CASE register_logger(t, n)
    <2>1. UNCHANGED <<msgs, errors, time, pc, job>> /\ pc[t] = "idle"
      BY <1>2 DEF register_logger, Call, logVars
    <2>2. CASE Throws(n)
      <3>1. UNCHANGED <<registryVars, raced>>
        BY <1>2, <2>2 DEF register_logger
      <3>2. Quietly(t) /\ pc[t] # "print"
        BY <1>0, <2>1, <3>1 DEF Quietly, Types, Logging
      <3> QED
        BY <2>1, <3>2, Quiet
    <2>3. CASE ~Throws(n)
      <3> DEFINE l == NewLogger(Plain, Settings)
      <3>1. Enter(n, l) /\ raced' = (raced \/ Iterating) /\ globals' = globals
        BY <1>2, <2>3 DEF register_logger
      <3>2. l \in LoggerType /\ l.last_err = 0 /\ l.own = Settings
        BY PlainSetup DEF NewLogger, LoggerType
      <3> HIDE DEF l
      <3> QED
        BY <2>1, <3>1, <3>2, Entering
    <2> QED
      BY <2>2, <2>3
  <1> QED
    BY <1>0, <1>1, <1>2 DEF Create, create_async

LEMMA Dropping ==
    ASSUME Inv, NEW t \in Threads, NEW ns, drop(t, ns)
    PROVE  Inv'
  <1>0. Types /\ Reach /\ Earned
    BY DEF Inv
  <1>1. /\ registered' = [n \in Names |-> IF n \in ns THEN 0 ELSE registered[n]]
        /\ UNCHANGED <<loggers, globals, msgs, errors, time, pc, job>>
        /\ raced' \in BOOLEAN /\ (raced => raced')
    BY <1>0 DEF drop, logVars, Types, Iterating
  <1>2. \A n \in Names : registered'[n] = 0 \/ registered'[n] = registered[n]
    BY <1>1
  <1>3. Types'
    BY <1>0, <1>1, <1>2 DEF Types
  <1>4. SettingsReachAll'
    BY <1>0, <1>1, <1>2 DEF Reach, SettingsReachAll, Iterating
  <1>5. OneAtATime' /\ HandlersSet'
    BY <1>0, <1>1, <1>2 DEF Reach, OneAtATime, HandlersSet, Has
  <1>6. Earned'
    BY <1>0, <1>1, NothingNew
  <1> QED
    BY <1>3, <1>4, <1>5, <1>6 DEF Inv, Reach

(* A setting changes no time of an error, and no thread's place but between  *)
(* idle and handlers.                                                       *)
SamePlaces ==
    /\ pc' \in [Threads -> {"idle", "handlers"} \cup Logging]
    /\ job' \in [Threads -> JobType]
    /\ \A u \in Threads :
          pc[u] \in Logging \/ pc'[u] \in Logging => pc'[u] = pc[u] /\ job'[u] = job[u]

LEMMA Setting ==
    ASSUME Inv, NEW ids, NEW s \in Settings, NEW v \in Choices, NEW own \in BOOLEAN,
           loggers' = With(ids, s, v, own), SamePlaces,
           UNCHANGED <<registered, msgs, errors, time>>,
           globals' \in [set : Setups, async : BOOLEAN], raced' \in BOOLEAN
    PROVE  Types' /\ Earned'
  <1>0. Types /\ Earned
    BY DEF Inv
  <1>1. /\ loggers' \in Seq(LoggerType) /\ Len(loggers') = Len(loggers)
        /\ \A id \in 1..Len(loggers) : loggers'[id].last_err = loggers[id].last_err
    <2>1. Effect(loggers', ids, s, v, own)
      BY <1>0, WithEffect
    <2> QED
      BY <2>1 DEF Effect
  <1>2. Types'
    <2>1. \A u \in Threads : pc'[u] \in Logging => job'[u].id \in 1..Len(loggers')
      BY <1>0, <1>1 DEF Types, SamePlaces
    <2>2. \A n \in Names : registered'[n] <= Len(loggers')
      BY <1>0, <1>1 DEF Types
    <2> QED
      BY <1>0, <1>1, <2>1, <2>2 DEF Types, SamePlaces
  <1>3. Earned'
    BY <1>0, <1>1, NothingNew DEF SamePlaces, Logging
  <1> QED
    BY <1>2, <1>3

LEMMA GlobalsNext ==
    ASSUME Types, NEW s \in Settings, NEW v \in Choices,
           globals' = [globals EXCEPT !.set[s] = v]
    PROVE  /\ globals' \in [set : Setups, async : BOOLEAN] /\ globals'.set[s] = v
           /\ \A z \in Settings \ {s} : globals'.set[z] = globals.set[z]
BY DEF Types, Setups

LEMMA SettingAll ==
    ASSUME Inv, NEW t \in Threads, NEW s \in Settings, NEW v \in Values[s], SetAll(t, s, v)
    PROVE  Inv'
  <1>0. Types /\ Reach /\ v \in Choices /\ s # "err_handler" /\ FALSE \in BOOLEAN
    BY SettingsAre DEF Inv, SetAll
  <1>1. /\ loggers' = With(Registered, s, v, FALSE)
        /\ globals' = [globals EXCEPT !.set[s] = v]
        /\ UNCHANGED <<registered, msgs, errors, time, pc, job, raced>>
    BY DEF SetAll, logVars
  <1>2. /\ globals' \in [set : Setups, async : BOOLEAN] /\ globals'.set[s] = v
        /\ \A z \in Settings \ {s} : globals'.set[z] = globals.set[z]
    BY <1>0, <1>1, GlobalsNext
  <1>3. Types' /\ Earned'
    <2>1. SamePlaces /\ raced' \in BOOLEAN
      BY <1>0, <1>1 DEF SamePlaces, Types
    <2> QED
      BY <1>0, <1>1, <1>2, <2>1, Setting
  <1>4. \A n \in Names : registered[n] = 0 \/ registered[n] \in 1..Len(loggers) \cap Registered
    BY <1>0, Registry DEF Registered
  <1>5. \A id \in 1..Len(loggers) :
           /\ id \in Registered => loggers'[id].set[s] = v
           /\ \A z \in Settings \ {s} :
                 /\ loggers'[id].set[z] = loggers[id].set[z]
                 /\ z \in loggers'[id].own <=> z \in loggers[id].own
    <2>1. Effect(loggers', Registered, s, v, FALSE)
      BY <1>0, <1>1, WithEffect
    <2> QED
      BY <2>1 DEF Effect
  <1>6. SettingsReachAll'
    <2> SUFFICES ASSUME NEW n \in Names, NEW z \in Settings, registered[n] # 0,
                        ~(z = "err_handler" /\ (raced \/ Iterating))
                 PROVE  \/ z \in loggers'[registered[n]].own
                        \/ loggers'[registered[n]].set[z] = globals'.set[z]
      BY <1>1 DEF SettingsReachAll, Iterating
    <2>1. CASE z = s
      BY <1>2, <1>4, <1>5, <2>1
    <2>2. CASE z # s
      BY <1>0, <1>2, <1>4, <1>5, <2>2 DEF Reach, SettingsReachAll
    <2> QED
      BY <2>1, <2>2
  <1>7. OneAtATime'
    BY <1>0, <1>1 DEF Reach, OneAtATime
  <1>8. HandlersSet'
    <2> SUFFICES ASSUME ~raced, NEW u \in Threads, NEW n \in Names,
                        pc[u] = "handlers", registered[n] # 0,
                        registered[n] \notin job[u].todo
                 PROVE  Has(registered[n], job[u].handler)'
      BY <1>1 DEF HandlersSet
    <2>1. Has(registered[n], job[u].handler)
      BY <1>0 DEF Reach, HandlersSet
    <2> QED
      BY <1>0, <1>1, <1>4, <1>5, <2>1, SettingsAre DEF Has
  <1> QED
    BY <1>3, <1>6, <1>7, <1>8 DEF Inv, Reach

(* Loggers are set on their own: one, or all there are.                     *)
LEMMA SettingOwn ==
    ASSUME Inv, NEW ids, NEW s \in Settings, NEW v \in Choices,
           loggers' = With(ids, s, v, TRUE),
           UNCHANGED <<registered, globals, msgs, errors, time, pc, job>>,
           raced' \in BOOLEAN, raced => raced',
           s = "err_handler" /\ Iterating => raced'
    PROVE  Inv'
  <1>0. Types /\ Reach /\ TRUE \in BOOLEAN
    BY DEF Inv
  <1>1. Types' /\ Earned'
    <2>1. SamePlaces /\ globals' \in [set : Setups, async : BOOLEAN]
      BY <1>0 DEF SamePlaces, Types
    <2> QED
      BY <1>0, <2>1, Setting
  <1>2. \A n \in Names : registered[n] = 0 \/ registered[n] \in 1..Len(loggers)
    BY <1>0, Registry
  <1>3. \A id \in 1..Len(loggers) :
           /\ id \notin ids => loggers'[id] = loggers[id]
           /\ id \in ids => s \in loggers'[id].own
           /\ \A z \in Settings \ {s} :
                 /\ loggers'[id].set[z] = loggers[id].set[z]
                 /\ z \in loggers'[id].own <=> z \in loggers[id].own
    <2>1. Effect(loggers', ids, s, v, TRUE)
      BY <1>0, WithEffect
    <2> QED
      BY <2>1 DEF Effect
  <1>4. SettingsReachAll'
    <2> SUFFICES ASSUME NEW n \in Names, NEW z \in Settings, registered[n] # 0,
                        ~(z = "err_handler" /\ (raced' \/ Iterating))
                 PROVE  \/ z \in loggers'[registered[n]].own
                        \/ loggers'[registered[n]].set[z] = globals.set[z]
      BY DEF SettingsReachAll, Iterating
    <2>1. /\ registered[n] \in 1..Len(loggers)
          /\ \/ z \in loggers[registered[n]].own
             \/ loggers[registered[n]].set[z] = globals.set[z]
      BY <1>0, <1>2 DEF Reach, SettingsReachAll
    <2>2. CASE registered[n] \in ids /\ z = s
      BY <1>3, <2>1, <2>2
    <2>3. CASE registered[n] \notin ids \/ z # s
      BY <1>3, <2>1, <2>3
    <2> QED
      BY <2>2, <2>3
  <1>5. OneAtATime'
    BY <1>0 DEF Reach, OneAtATime
  <1>6. HandlersSet'
    <2> SUFFICES ASSUME ~raced', NEW t \in Threads, NEW n \in Names,
                        pc[t] = "handlers", registered[n] # 0,
                        registered[n] \notin job[t].todo
                 PROVE  Has(registered[n], job[t].handler)'
      BY DEF HandlersSet
    <2>1. s # "err_handler" /\ Has(registered[n], job[t].handler)
      BY <1>0 DEF Iterating, Reach, HandlersSet
    <2> QED
      BY <1>2, <1>3, <2>1, SettingsAre DEF Has
  <1> QED
    BY <1>1, <1>4, <1>5, <1>6 DEF Inv, Reach

LEMMA OwnSettings ==
    ASSUME Inv, NEW t \in Threads,
           \/ \E v \in Levels : apply_all(t, v)
           \/ \E s \in Settings : \E v \in Values[s] :
                 \E id \in DOMAIN loggers : SetOwn(t, id, s, v)
    PROVE  Inv'
  <1>0. raced \in BOOLEAN
    BY DEF Inv, Types
  <1>1. ASSUME NEW v \in Levels, apply_all(t, v)
        PROVE  Inv'
    <2>1. "level" \in Settings /\ "level" # "err_handler" /\ v \in Choices
      BY SettingsAre DEF Choices
    <2>2. /\ loggers' = With(Registered, "level", v, TRUE) /\ raced' = raced
          /\ UNCHANGED <<registered, globals, msgs, errors, time, pc, job>>
      BY <1>1 DEF apply_all, logVars
    <2> QED
      BY <1>0, <2>1, <2>2, SettingOwn
  <1>2. ASSUME NEW s \in Settings, NEW v \in Values[s], NEW id \in DOMAIN loggers,
               SetOwn(t, id, s, v)
        PROVE  Inv'
    <2>1. v \in Choices
      BY SettingsAre
    <2>2. /\ loggers' = With({id}, s, v, TRUE)
          /\ raced' = (raced \/ (s = "err_handler" /\ (Iterating \/ Handling(id))))
          /\ UNCHANGED <<registered, globals, msgs, errors, time, pc, job>>
      BY <1>2 DEF SetOwn, logVars
    <2>3. raced' \in BOOLEAN
      BY <1>0, <2>2 DEF Iterating, Handling
    <2> QED
      BY <1>0, <2>1, <2>2, <2>3, SettingOwn
  <1> QED
    BY <1>1, <1>2

LEMMA SettingMode ==
    ASSUME Inv, NEW t \in Threads, NEW async \in BOOLEAN, SetMode(t, async)
    PROVE  Inv'
  <1>0. Types /\ Reach /\ Earned
    BY DEF Inv
  <1>1. /\ globals' = [globals EXCEPT !.async = async]
        /\ UNCHANGED <<registered, loggers, msgs, errors, time, pc, job, raced>>
    BY DEF SetMode, logVars
  <1>2. globals' \in [set : Setups, async : BOOLEAN] /\ globals'.set = globals.set
    BY <1>0, <1>1 DEF Types
  <1>3. Types'
    BY <1>0, <1>1, <1>2 DEF Types
  <1>4. Reach'
    BY <1>0, <1>1, <1>2 DEF Reach, SettingsReachAll, OneAtATime, HandlersSet, Has, Iterating
  <1>5. Earned'
    BY <1>0, <1>1, NothingNew
  <1> QED
    BY <1>3, <1>4, <1>5 DEF Inv

(* A handler for all: the loggers in the registry are noted ...              *)
LEMMA HandlersBegin ==
    ASSUME Inv, NEW t \in Threads, NEW h \in Values.err_handler, set_error_handler(t, h)
    PROVE  Inv'
  <1>0. Types /\ Reach /\ Earned /\ h \in {"default", "other"}
    BY SettingsAre DEF Inv
  <1>1. /\ UNCHANGED <<registered, loggers, globals, msgs, errors, time>>
        /\ pc' = [pc EXCEPT ![t] = "handlers"] /\ pc[t] = "idle"
        /\ job' = [job EXCEPT ![t].todo = Registered, ![t].handler = h]
        /\ raced' = (raced \/ Iterating)
    BY DEF set_error_handler, Call, registryVars, logVars
  <1>2. Registered \in SUBSET Nat /\ \A n \in Names : registered[n] = 0 \/ registered[n] \in Registered
    BY <1>0 DEF Types, Registered
  <1>3. /\ job' \in [Threads -> JobType] /\ job'[t].todo = Registered
        /\ job'[t].handler = h
        /\ \A u \in Threads \ {t} : job'[u] = job[u]
    <2> DEFINE j == job[t]
               n == [j EXCEPT !.todo = Registered, !.handler = h]
    <2>1. j \in JobType
      BY <1>0 DEF Types
    <2>2. job' = [job EXCEPT ![t] = n]
      BY <1>1
    <2> HIDE DEF j
    <2>3. n \in JobType /\ n.todo = Registered /\ n.handler = h
      BY <1>0, <1>2, <2>1 DEF JobType
    <2> HIDE DEF n
    <2> QED
      BY <1>0, <2>2, <2>3 DEF Types
  <1>4. /\ pc' \in [Threads -> {"idle", "handlers"} \cup Logging] /\ pc'[t] = "handlers"
        /\ \A u \in Threads \ {t} : pc'[u] = pc[u]
    BY <1>0, <1>1 DEF Types
  <1>5. Types'
    <2>1. \A u \in Threads : pc'[u] \in Logging => job'[u].id \in 1..Len(loggers')
      BY <1>0, <1>1, <1>3, <1>4 DEF Types, Logging
    <2>2. raced' \in BOOLEAN
      BY <1>0, <1>1 DEF Types, Iterating
    <2> QED
      BY <1>0, <1>1, <1>3, <1>4, <2>1, <2>2 DEF Types
  <1>6. SettingsReachAll'
    BY <1>0, <1>1, <1>4 DEF Reach, SettingsReachAll, Iterating
  <1>7. OneAtATime'
    BY <1>0, <1>1, <1>4 DEF Reach, OneAtATime, Iterating
  <1>8. HandlersSet'
    BY <1>0, <1>1, <1>2, <1>3, <1>4 DEF Reach, HandlersSet, Has, Iterating
  <1>9. Earned'
    BY <1>0, <1>1, <1>3, <1>4, NothingNew
  <1> QED
    BY <1>5, <1>6, <1>7, <1>8, <1>9 DEF Inv, Reach

(* ... given it one by one ...                                              *)
LEMMA HandlersGoOn ==
    ASSUME Inv, NEW t \in Threads, SetNextHandler(t)
    PROVE  Inv'
  <1>0. /\ Types /\ Reach /\ Earned /\ pc[t] = "handlers" /\ FALSE \in BOOLEAN
        /\ "err_handler" \in Settings
    BY SettingsAre DEF Inv, SetNextHandler
  <1>1. PICK id \in job[t].todo :
           /\ loggers' = With({id}, "err_handler", job[t].handler, FALSE)
           /\ job' = [job EXCEPT ![t].todo = @ \ {id}]
           /\ raced' = (raced \/ Handling(id))
    BY DEF SetNextHandler
  <1>2. UNCHANGED <<registered, globals, msgs, errors, time, pc>>
    BY DEF SetNextHandler, logVars
  <1>3. /\ job' \in [Threads -> JobType] /\ job'[t].todo = job[t].todo \ {id}
        /\ job'[t].handler = job[t].handler /\ job[t].handler \in Choices
        /\ \A u \in Threads \ {t} : job'[u] = job[u]
    <2> DEFINE j == job[t]
               n == [j EXCEPT !.todo = @ \ {id}]
    <2>1. j \in JobType
      BY <1>0 DEF Types
    <2>2. job' = [job EXCEPT ![t] = n]
      BY <1>1
    <2> HIDE DEF j
    <2>3. n \in JobType /\ n.todo = j.todo \ {id} /\ n.handler = j.handler
          /\ j.handler \in Choices
      BY <2>1 DEF JobType, Choices
    <2> HIDE DEF n
    <2> QED
      BY <1>0, <2>2, <2>3 DEF Types, j
  <1>4. raced' \in BOOLEAN /\ (raced => raced') /\ Iterating /\ Iterating'
    BY <1>0, <1>1, <1>2 DEF Types, Handling, Iterating
  <1>5. Types' /\ Earned'
    <2>1. SamePlaces /\ globals' \in [set : Setups, async : BOOLEAN]
      BY <1>0, <1>2, <1>3 DEF SamePlaces, Types, Logging
    <2> QED
      BY <1>0, <1>1, <1>2, <1>3, <1>4, <2>1, Setting
  <1>6. \A n \in Names : registered[n] = 0 \/ registered[n] \in 1..Len(loggers)
    BY <1>0, Registry
  <1>7. \A k \in 1..Len(loggers) :
           /\ k # id => loggers'[k] = loggers[k]
           /\ k = id => loggers'[k].set["err_handler"] = job[t].handler
           /\ \A z \in Settings \ {"err_handler"} :
                 /\ loggers'[k].set[z] = loggers[k].set[z]
                 /\ z \in loggers'[k].own <=> z \in loggers[k].own
    <2>1. Effect(loggers', {id}, "err_handler", job[t].handler, FALSE)
      BY <1>0, <1>1, <1>3, WithEffect
    <2> QED
      BY <2>1 DEF Effect
  <1>8. SettingsReachAll'
    <2> SUFFICES ASSUME NEW n \in Names, NEW z \in Settings, registered[n] # 0,
                        z # "err_handler"
                 PROVE  \/ z \in loggers'[registered[n]].own
                        \/ loggers'[registered[n]].set[z] = globals.set[z]
      BY <1>2, <1>4 DEF SettingsReachAll
    <2>1. \/ z \in loggers[registered[n]].own
          \/ loggers[registered[n]].set[z] = globals.set[z]
      BY <1>0 DEF Reach, SettingsReachAll
    <2> QED
      BY <1>6, <1>7, <2>1
  <1>9. OneAtATime'
    BY <1>0, <1>2, <1>4 DEF Reach, OneAtATime
  <1>10. HandlersSet'
    <2> SUFFICES ASSUME ~raced', NEW u \in Threads, NEW n \in Names,
                        pc[u] = "handlers", registered[n] # 0,
                        registered[n] \notin job'[u].todo
                 PROVE  Has(registered[n], job[u].handler)'
      BY <1>2 DEF HandlersSet
    <2>1. u = t
      BY <1>0, <1>4 DEF Reach, OneAtATime
    <2>2. CASE registered[n] = id
      BY <1>2, <1>3, <1>6, <1>7, <2>1, <2>2 DEF Has
    <2>3. CASE registered[n] # id
      <3>1. Has(registered[n], job[t].handler)
        BY <1>0, <1>3, <1>4, <2>1, <2>3 DEF Reach, HandlersSet
      <3> QED
        BY <1>2, <1>3, <1>6, <1>7, <2>1, <2>3, <3>1 DEF Has
    <2> QED
      BY <2>2, <2>3
  <1> QED
    BY <1>5, <1>8, <1>9, <1>10 DEF Inv, Reach

(* ... and then it is the global one.                                       *)
LEMMA HandlersEnd ==
    ASSUME Inv, NEW t \in Threads, LastHandlerSet(t)
    PROVE  Inv'
  <1>0. /\ Types /\ Reach /\ Earned /\ pc[t] = "handlers" /\ job[t].todo = {}
        /\ "err_handler" \in Settings
    BY SettingsAre DEF Inv, LastHandlerSet
  <1>1. /\ globals' = [globals EXCEPT !.set["err_handler"] = job[t].handler]
        /\ pc' = [pc EXCEPT ![t] = "idle"] /\ job' = [job EXCEPT ![t] = NoJob]
        /\ UNCHANGED <<registered, loggers, msgs, errors, time, raced>>
    BY DEF LastHandlerSet, logVars
  <1>2. job[t].handler \in Choices
    BY <1>0 DEF Types, JobType, Choices
  <1>3. /\ globals' \in [set : Setups, async : BOOLEAN]
        /\ globals'.set["err_handler"] = job[t].handler
        /\ \A z \in Settings \ {"err_handler"} : globals'.set[z] = globals.set[z]
    BY <1>0, <1>1, <1>2, GlobalsNext
  <1>4. /\ pc' \in [Threads -> {"idle", "handlers"} \cup Logging] /\ pc'[t] = "idle"
        /\ job' \in [Threads -> JobType]
        /\ \A u \in Threads \ {t} : pc'[u] = pc[u] /\ job'[u] = job[u]
    BY <1>0, <1>1, NoJobType DEF Types
  <1>5. Types'
    BY <1>0, <1>1, <1>3, <1>4 DEF Types, Logging
  <1>6. SettingsReachAll'
    <2> SUFFICES ASSUME NEW n \in Names, NEW z \in Settings, registered[n] # 0,
                        ~(z = "err_handler" /\ (raced \/ Iterating'))
                 PROVE  \/ z \in loggers[registered[n]].own
                        \/ loggers[registered[n]].set[z] = globals'.set[z]
      BY <1>1 DEF SettingsReachAll
    <2>1. CASE z = "err_handler"
      <3>1. Has(registered[n], job[t].handler)
        BY <1>0, <2>1 DEF Reach, HandlersSet
      <3> QED
        BY <1>3, <2>1, <3>1 DEF Has
    <2>2. CASE z # "err_handler"
      BY <1>0, <1>3, <2>2 DEF Reach, SettingsReachAll
    <2> QED
      BY <2>1, <2>2
  <1>7. OneAtATime'
    BY <1>0, <1>1, <1>4 DEF Reach, OneAtATime
  <1>8. HandlersSet'
    BY <1>0, <1>1, <1>4 DEF Reach, HandlersSet, Has
  <1>9. Earned'
    BY <1>0, <1>1, <1>4, NothingNew
  <1> QED
    BY <1>5, <1>6, <1>7, <1>8, <1>9 DEF Inv, Reach

-----------------------------------------------------------------------------
(* Errors.                                                                  *)

LEMMA Happening ==
    ASSUME Types, NEW t \in Threads, pc[t] \in Logging, NEW at \in Nat,
           NEW printed \in BOOLEAN, Happened(t, at, printed)
    PROVE  /\ errors' \in Seq(ErrorType) /\ Len(errors) \in Nat
           /\ Len(errors') = Len(errors) + 1
           /\ \A i \in 1..Len(errors) : errors'[i] = errors[i]
           /\ errors'[Len(errors')].id = job[t].id
           /\ errors'[Len(errors')].at = at
           /\ errors'[Len(errors')].printed = printed
  <1> DEFINE e == [id |-> job[t].id, at |-> at, printed |-> printed]
  <1>1. job[t].id \in Nat
    BY DEF Types, JobType
  <1>2. /\ e \in ErrorType /\ e.id = job[t].id /\ e.at = at /\ e.printed = printed
    BY <1>1 DEF ErrorType
  <1>3. errors' = Append(errors, e)
    BY DEF Happened
  <1> HIDE DEF e
  <1>4. /\ errors' \in Seq(ErrorType) /\ Len(errors') = Len(errors) + 1
        /\ \A i \in 1..Len(errors) : errors'[i] = errors[i]
        /\ errors'[Len(errors) + 1] = e
    BY <1>2, <1>3, AppendProperties DEF Types
  <1>5. Len(errors) \in Nat
    BY DEF Types
  <1> QED
    BY <1>2, <1>4, <1>5

LEMMA Looking ==
    ASSUME Inv, NEW t \in Threads, LookAtTime(t)
    PROVE  Inv'
  <1>0. /\ Types /\ Reach /\ Earned /\ pc[t] = "handle" /\ "handle" \in Logging
        /\ job[t].id \in 1..Len(loggers) /\ time \in Nat
    BY DEF Inv, LookAtTime, Types, Logging
  <1>1. UNCHANGED <<registered, loggers, globals, raced, time>>
    BY DEF LookAtTime, registryVars
  <1>2. CASE TooSoon(job[t].id)
    <2>1. Happened(t, time, FALSE) /\ Return(t)
      BY <1>2 DEF LookAtTime
    <2>2. /\ errors' \in Seq(ErrorType) /\ errors \in Seq(ErrorType)
          /\ Len(errors) \in Nat /\ Len(errors') = Len(errors) + 1
          /\ \A i \in 1..Len(errors) : errors'[i] = errors[i]
          /\ errors'[Len(errors')].id = job[t].id /\ errors'[Len(errors')].at = time
      BY <1>0, <2>1, Happening DEF Types
    <2>3. /\ pc' \in [Threads -> {"idle", "handlers"} \cup Logging]
          /\ job' \in [Threads -> JobType] /\ pc'[t] = "idle"
          /\ msgs' \in Seq(MsgType)
          /\ \A u \in Threads \ {t} : pc'[u] = pc[u] /\ job'[u] = job[u]
      BY <1>0, <2>1, ReturnEffect
    <2>4. Types'
      BY <1>0, <1>1, <2>2, <2>3 DEF Types, Logging
    <2>5. Reach'
      BY <1>0, <1>1, <2>3 DEF Reach, SettingsReachAll, OneAtATime, HandlersSet, Has, Iterating
    <2>6. \A id : Lines(id) \subseteq Lines(id)'
      <3>1. DOMAIN errors = 1..Len(errors) /\ DOMAIN errors' = 1..Len(errors')
        BY <2>2, LenProperties
      <3> QED
        BY <1>0, <2>2, <2>3, <3>1, LinesStay
    \* The time of the last error, which it was too soon after, has a line.
    <2>7. ASSUME NEW i, i = Len(errors') PROVE NearLine(i)'
      <3> DEFINE last == loggers[job[t].id].last_err
      <3>1. last \in Nat
        BY <1>0, Registry
      <3>2. /\ time < last + Window /\ time >= Window /\ time \in Nat
            /\ Window \in Nat
        BY <1>0, <1>2, LoggerAssumption DEF TooSoon, Types
      <3>3. last # 0 => last \in Lines(job[t].id)
        BY <1>0 DEF Earned
      <3> HIDE DEF last
      <3>4. last # 0
        BY <3>1, <3>2
      <3>5. \A id : id = job[t].id => last \in Lines(id)'
        BY <2>6, <3>3, <3>4
      <3>6. last \in Lines(errors[i].id)'
        BY <2>2, <2>7, <3>5
      <3> QED
        BY <2>2, <2>7, <3>2, <3>6 DEF NearLine
    <2>8. Earned'
      <3>1. ASSUME NEW i \in DOMAIN errors'
            PROVE  (i \in DOMAIN errors /\ errors'[i] = errors[i]) \/ NearLine(i)'
        <4>1. i \in 1..Len(errors') /\ DOMAIN errors = 1..Len(errors)
          BY <2>2, LenProperties
        <4>2. CASE i = Len(errors')
          BY <2>7, <4>2
        <4>3. CASE i # Len(errors')
          BY <2>2, <4>1, <4>3
        <4> QED
          BY <4>2, <4>3
      <3> QED
        BY <1>0, <1>1, <2>6, <3>1, EarnedStays
    <2> QED
      BY <2>4, <2>5, <2>8 DEF Inv
  <1>3. CASE ~TooSoon(job[t].id)
    <2>1. /\ Go(t, "set") /\ job' = [job EXCEPT ![t].at = time]
          /\ UNCHANGED <<msgs, errors>>
      BY <1>3 DEF LookAtTime
    <2>2. /\ job' \in [Threads -> JobType] /\ job'[t].id = job[t].id
          /\ \A u \in Threads \ {t} : job'[u] = job[u]
      BY <1>0, <2>1, JobNext
    <2>3. Quietly(t) /\ pc[t] # "print" /\ errors' = errors
      BY <1>0, <1>1, <2>1, <2>2 DEF Go, Quietly, Types, Logging, registryVars
    <2> QED
      BY <2>3, Quiet
  <1> QED
    BY <1>2, <1>3

LEMMA SettingTime ==
    ASSUME Inv, NEW t \in Threads, SetErrorTime(t)
    PROVE  Inv'
  <1>0. /\ Types /\ Reach /\ Earned /\ pc[t] = "set" /\ "set" \in Logging
        /\ job[t].id \in 1..Len(loggers) /\ job[t].at \in Nat
    BY DEF Inv, SetErrorTime, Types, Logging, JobType
  <1>1. /\ UNCHANGED <<registered, globals, raced, time, msgs, errors, job>>
        /\ loggers' = [loggers EXCEPT ![job[t].id].last_err = job[t].at]
    BY DEF SetErrorTime, logVars
  <1>3. /\ pc' \in [Threads -> {"idle", "handlers"} \cup Logging] /\ pc'[t] = "print"
        /\ \A u \in Threads \ {t} : pc'[u] = pc[u] /\ job'[u] = job[u]
    BY <1>0, <1>1 DEF SetErrorTime, Go, Types, Logging
  <1>4. /\ loggers' \in Seq(LoggerType) /\ Len(loggers') = Len(loggers)
        /\ loggers'[job[t].id].last_err = job[t].at
        /\ \A id \in 1..Len(loggers) :
              /\ loggers'[id].set = loggers[id].set /\ loggers'[id].own = loggers[id].own
              /\ id # job[t].id => loggers'[id] = loggers[id]
    <2> DEFINE k == job[t].id
               a == job[t].at
               l == loggers[k]
               n == [l EXCEPT !.last_err = a]
    <2>1. l \in LoggerType /\ a \in Nat /\ k \in 1..Len(loggers)
      BY <1>0, Registry
    <2>2. loggers' = [loggers EXCEPT ![k] = n]
      BY <1>1
    <2> HIDE DEF l, a
    <2>3. n \in LoggerType /\ n.last_err = a /\ n.set = l.set /\ n.own = l.own
      BY <2>1 DEF LoggerType
    <2> HIDE DEF n, k
    <2>4. /\ loggers' \in Seq(LoggerType) /\ Len(loggers') = Len(loggers)
          /\ loggers'[k] = n
          /\ \A id \in 1..Len(loggers) : id # k => loggers'[id] = loggers[id]
      BY <1>0, <2>1, <2>2, <2>3 DEF Types
    <2> QED
      BY <2>3, <2>4 DEF k, l, a
  <1>5. Types'
    <2>1. \A u \in Threads : pc'[u] \in Logging => job'[u].id \in 1..Len(loggers')
      BY <1>0, <1>1, <1>3, <1>4 DEF Types, Logging
    <2>2. \A n \in Names : registered'[n] <= Len(loggers')
      BY <1>0, <1>1, <1>4 DEF Types
    <2> QED
      BY <1>0, <1>1, <1>3, <1>4, <2>1, <2>2 DEF Types
  <1>6. \A n \in Names : registered[n] = 0 \/ registered[n] \in 1..Len(loggers)
    BY <1>0, Registry
  <1>7. Reach'
    <2>1. Iterating' = Iterating
      BY <1>0, <1>3 DEF Iterating
    <2>2. SettingsReachAll'
      BY <1>0, <1>1, <1>4, <1>6, <2>1 DEF Reach, SettingsReachAll
    <2>3. OneAtATime'
      BY <1>0, <1>1, <1>3 DEF Reach, OneAtATime
    <2>4. HandlersSet'
      <3> SUFFICES ASSUME ~raced, NEW u \in Threads, NEW n \in Names,
                          pc'[u] = "handlers", registered[n] # 0,
                          registered[n] \notin job'[u].todo
                   PROVE  Has(registered[n], job[u].handler)'
        BY <1>1 DEF HandlersSet
      <3>1. u # t /\ job'[u] = job[u] /\ pc[u] = "handlers"
        BY <1>3
      <3>2. Has(registered[n], job[u].handler)
        BY <1>0, <3>1 DEF Reach, HandlersSet
      <3>3. /\ loggers'[registered[n]].set = loggers[registered[n]].set
            /\ loggers'[registered[n]].own = loggers[registered[n]].own
        BY <1>4, <1>6
      <3> QED
        BY <1>1, <3>1, <3>2, <3>3 DEF Has
    <2> QED
      BY <2>2, <2>3, <2>4 DEF Reach
  \* The line with the new time is about to be printed.
  <1>8. ASSUME NEW id, id = job[t].id PROVE job[t].at \in Lines(id)'
    BY <1>1, <1>3, <1>8 DEF Lines
  <1>9. ASSUME NEW id \in 1..Len(loggers')
        PROVE  \/ id \in 1..Len(loggers) /\ loggers'[id].last_err = loggers[id].last_err
               \/ loggers'[id].last_err \in Lines(id)'
    <2>1. CASE id = job[t].id
      BY <1>4, <1>8, <2>1
    <2>2. CASE id # job[t].id
      BY <1>4, <2>2
    <2> QED
      BY <2>1, <2>2
  <1>10. Earned'
    BY <1>0, <1>1, <1>3, <1>9, NothingNew
  <1> QED
    BY <1>5, <1>7, <1>10 DEF Inv

LEMMA Printing ==
    ASSUME Inv, NEW t \in Threads, PrintError(t)
    PROVE  Inv'
  <1>0. /\ Types /\ Reach /\ Earned /\ pc[t] = "print" /\ "print" \in Logging
        /\ job[t].at \in Nat
    BY DEF Inv, PrintError, Types, Logging, JobType
  <1>1. /\ UNCHANGED <<registered, loggers, globals, raced, time>>
        /\ Happened(t, job[t].at, TRUE) /\ Return(t)
    BY DEF PrintError, registryVars
  <1>2. /\ errors' \in Seq(ErrorType) /\ errors \in Seq(ErrorType)
        /\ Len(errors) \in Nat /\ Len(errors') = Len(errors) + 1
        /\ \A i \in 1..Len(errors) : errors'[i] = errors[i]
        /\ errors'[Len(errors')].id = job[t].id
        /\ errors'[Len(errors')].at = job[t].at
        /\ errors'[Len(errors')].printed
        /\ DOMAIN errors = 1..Len(errors) /\ DOMAIN errors' = 1..Len(errors')
    BY <1>0, <1>1, Happening, LenProperties DEF Types
  <1>3. /\ pc' \in [Threads -> {"idle", "handlers"} \cup Logging]
        /\ job' \in [Threads -> JobType] /\ pc'[t] = "idle"
        /\ msgs' \in Seq(MsgType)
        /\ \A u \in Threads \ {t} : pc'[u] = pc[u] /\ job'[u] = job[u]
    BY <1>0, <1>1, ReturnEffect
  <1>4. Types'
    BY <1>0, <1>1, <1>2, <1>3 DEF Types, Logging
  <1>5. Reach'
    BY <1>0, <1>1, <1>3 DEF Reach, SettingsReachAll, OneAtATime, HandlersSet, Has, Iterating
  \* The line about to be printed is printed.
  <1>6. ASSUME NEW id PROVE Lines(id) \subseteq Lines(id)'
    <2>1. /\ \A j \in DOMAIN errors : j \in DOMAIN errors' /\ errors'[j] = errors[j]
          /\ Len(errors') \in DOMAIN errors'
      BY <1>2
    <2>2. \A u \in Threads : /\ pc[u] = "print" /\ job[u].id = id
                             => job[u].at \in Lines(id)'
      <3>1. ASSUME NEW u \in Threads, pc[u] = "print", job[u].id = id, u # t
            PROVE  job[u].at \in Lines(id)'
        BY <1>3, <3>1 DEF Lines
      <3>2. job[t].id = id => job[t].at \in Lines(id)'
        BY <1>2, <2>1 DEF Lines
      <3> QED
        BY <3>1, <3>2
    <2> QED
      BY <2>1, <2>2 DEF Lines
  <1>7. ASSUME NEW i \in DOMAIN errors'
        PROVE  (i \in DOMAIN errors /\ errors'[i] = errors[i]) \/ errors'[i].printed
    BY <1>2
  <1>8. Earned'
    BY <1>0, <1>1, <1>6, <1>7, EarnedStays
  <1> QED
    BY <1>4, <1>5, <1>8 DEF Inv

-----------------------------------------------------------------------------
LEMMA InitInv == Init => Inv
  <1> SUFFICES ASSUME Init
               PROVE  Inv
    OBVIOUS
  <1>1. /\ loggers = <<NewLogger(Plain, {})>> /\ msgs = <<>> /\ errors = <<>>
        /\ time = Window /\ raced = FALSE /\ globals = [set |-> Plain, async |-> FALSE]
        /\ pc = [t \in Threads |-> "idle"] /\ job = [t \in Threads |-> NoJob]
        /\ \A t \in Threads : pc[t] = "idle"
    BY DEF Init
  <1>2. /\ registered \in [Names -> Nat]
        /\ \A n \in Names : registered[n] = 0 \/ registered[n] = 1
    BY DEF Init
  <1>3. /\ NewLogger(Plain, {}) \in LoggerType /\ NewLogger(Plain, {}).last_err = 0
        /\ NewLogger(Plain, {}).set = Plain
    BY PlainSetup DEF NewLogger, LoggerType
  <1>4. /\ loggers \in Seq(LoggerType) /\ Len(loggers) = 1
        /\ loggers[1].last_err = 0 /\ loggers[1].set = Plain
    BY <1>1, <1>3
  <1>5. Types
    <2>1. globals \in [set : Setups, async : BOOLEAN]
      BY <1>1, PlainSetup
    <2>2. msgs \in Seq(MsgType) /\ errors \in Seq(ErrorType)
      BY <1>1
    <2>3. time \in Nat /\ time >= Window
      BY <1>1, LoggerAssumption
    <2>4. /\ pc \in [Threads -> {"idle", "handlers"} \cup Logging]
          /\ job \in [Threads -> JobType]
          /\ \A t \in Threads : pc[t] \in Logging => job[t].id \in 1..Len(loggers)
      BY <1>1, NoJobType DEF Logging
    <2>5. \A n \in Names : registered[n] <= Len(loggers)
      BY <1>2, <1>4
    <2> QED
      BY <1>1, <1>2, <1>4, <2>1, <2>2, <2>3, <2>4, <2>5 DEF Types
  <1>6. Reach
    <2>1. SettingsReachAll
      BY <1>1, <1>2, <1>4 DEF SettingsReachAll
    <2> QED
      BY <1>1, <2>1 DEF Reach, OneAtATime, HandlersSet
  <1>7. Earned
    BY <1>1, <1>4 DEF Earned, SilenceIsEarned
  <1> QED
    BY <1>5, <1>6, <1>7 DEF Inv

LEMMA Step == Inv /\ [Next]_vars => Inv'
  <1> SUFFICES ASSUME Inv, [Next]_vars
               PROVE  Inv'
    OBVIOUS
  <1>1. CASE Tick
    <2>1. /\ UNCHANGED <<registered, loggers, globals, msgs, errors, pc, job, raced>>
          /\ time' = time + 1 /\ Window \in Nat
      BY <1>1, LoggerAssumption DEF Tick, registryVars, logVars
    <2>2. Types'
      BY <2>1 DEF Inv, Types
    <2>3. Reach'
      BY <2>1 DEF Inv, Reach, SettingsReachAll, OneAtATime, HandlersSet, Has, Iterating
    <2>4. Earned'
      BY <2>1, NothingNew DEF Inv
    <2> QED
      BY <2>2, <2>3, <2>4 DEF Inv
  <1>2. CASE UNCHANGED vars
    <2>1. UNCHANGED <<registered, loggers, globals, msgs, errors, time, pc, job, raced>>
      BY <1>2 DEF vars, registryVars, logVars
    <2> QED
      BY <2>1 DEF Inv, Types, Reach, SettingsReachAll, OneAtATime, HandlersSet, Has,
                  Iterating, Earned, Lines, NearLine, SilenceIsEarned
  <1>3. ASSUME NEW t \in Threads, Call1(t) \/ Sinking(t)
        PROVE  Inv'
    BY <1>3, SinkingQuiet, Call1Quiet, Quiet DEF Inv
  <1>4. ASSUME NEW t \in Threads, add_sink(t) \/ remove_sink(t)
        PROVE  Inv'
    <2>1. Quietly(t) /\ pc[t] # "print" /\ errors' = errors
      BY <1>4 DEF Inv, Types, add_sink, remove_sink, Call, Quietly, logVars, Logging
    <2> QED
      BY <2>1, Quiet
  <1>5. ASSUME NEW t \in Threads, NEW n \in Names,
               Create(t, n) \/ create_async(t, n) \/ register_logger(t, n)
        PROVE  Inv'
    BY <1>5, Creating
  <1>6. ASSUME NEW t \in Threads, NEW ns, drop(t, ns)
        PROVE  Inv'
    BY <1>6, Dropping
  <1>7. ASSUME NEW t \in Threads, NEW s \in Settings, NEW v \in Values[s], SetAll(t, s, v)
        PROVE  Inv'
    BY <1>7, SettingAll
  <1>8. ASSUME NEW t \in Threads,
               \/ \E v \in Levels : apply_all(t, v)
               \/ \E s \in Settings : \E v \in Values[s] :
                     \E id \in DOMAIN loggers : SetOwn(t, id, s, v)
        PROVE  Inv'
    BY <1>8, OwnSettings
  <1>9. ASSUME NEW t \in Threads, NEW async \in BOOLEAN, SetMode(t, async)
        PROVE  Inv'
    BY <1>9, SettingMode
  <1>10. ASSUME NEW t \in Threads,
                \/ \E h \in Values.err_handler : set_error_handler(t, h)
                \/ SetNextHandler(t) \/ LastHandlerSet(t)
         PROVE  Inv'
    BY <1>10, HandlersBegin, HandlersGoOn, HandlersEnd
  <1>11. ASSUME NEW t \in Threads, LookAtTime(t) \/ SetErrorTime(t) \/ PrintError(t)
         PROVE  Inv'
    BY <1>11, Looking, SettingTime, Printing
  <1> QED
    BY <1>1, <1>2, <1>3, <1>4, <1>5, <1>6, <1>7, <1>8, <1>9, <1>10, <1>11
       DEF Next, Call1, Sinking

LEMMA Invariant == Spec => []Inv
BY InitInv, Step, PTL DEF Spec

(* A global setting reaches every logger there is and every one to come,     *)
(* whatever is created, dropped and set meanwhile, as long as no handler for *)
(* all has met another access.  (registry.h)                                *)
THEOREM Reaching == Spec => []SettingsReachAll
  <1>1. Inv => SettingsReachAll
    BY DEF Inv, Reach
  <1> QED
    BY <1>1, Invariant, PTL

(* However many threads fail at the same time, and wherever they are between *)
(* looking at the time of the last error, setting it and printing, an error  *)
(* goes unprinted only within a minute of a line that is printed or that a   *)
(* thread is about to print.  (_default_err_handler)                        *)
THEOREM Earning == Spec => []SilenceIsEarned
  <1>1. Inv => SilenceIsEarned
    BY DEF Inv, Earned
  <1> QED
    BY <1>1, Invariant, PTL

-----------------------------------------------------------------------------
(* Where a message is.                                                      *)

Got(s, n) == Lets(s, n) => In(s, n)
Safe(s, n) == Lets(s, n) => \E i \in 1..flushed[s] : written[s][i] = n
Reported(n) == n \notin handled =>
                  \A s \in {"file", "first"} :
                      Got(s, n) /\ (msgs[n].urgent => Safe(s, n))

\* The first member stays where it is; what is written and flushed grows.
Stored ==
    /\ members \in Seq({"first", "second"}) /\ Len(members) >= 1 /\ members[1] = "first"
    /\ \A s \in Leaves : /\ written[s] \in Seq(Nat) /\ flushed[s] \in Nat
                         /\ flushed[s] <= Len(written[s])
Grows ==
    /\ sink_level' = sink_level /\ handled \subseteq handled'
    /\ \A s \in Leaves : /\ Len(written[s]) <= Len(written'[s])
                         /\ \A i \in 1..Len(written[s]) : written'[s][i] = written[s][i]
                         /\ flushed[s] <= flushed'[s]

\* A thread on its way with message n has brought it as far as it stands.
Carries(t, n) == pc[t] \in Logging /\ job[t].n = n
Underway(t, n) ==
    /\ n \in 1..Len(msgs) /\ ~msgs[n].over
    /\ pc[t] = "format" => job[t].at = 1
    /\ pc[t] \in {"format", "sink"} => ~msgs[n].urgent
    /\ pc[t] = "sink" => /\ job[t].at > 1 => Got("file", n)
                         /\ job[t].at > 2 => Got("first", n)
    /\ pc[t] = "flush" => /\ Got("file", n) /\ Got("first", n)
                          /\ job[t].at > 1 => Safe("file", n)
                          /\ job[t].at > 2 => Safe("first", n)
    /\ pc[t] \in {"set", "print"} => n \in handled
AtSink(t) == pc[t] \in {"format", "sink", "flush"} => job[t].at >= 1
Delivered ==
    /\ Stored
    /\ \A t \in Threads : AtSink(t)
    /\ \A t \in Threads, n \in Nat \ {0} : Carries(t, n) => Underway(t, n)
    /\ \A t, u \in Threads, n \in Nat \ {0} : Carries(t, n) /\ Carries(u, n) => t = u
    /\ \A n \in 1..Len(msgs) : msgs[n].over => Reported(n)

LEMMA StillThere ==
    ASSUME NEW a, NEW b, NEW top \in Nat, NEW k \in Nat, NEW l \in Nat, NEW n,
           k <= l, k <= top, \A i \in 1..top : b[i] = a[i]
    PROVE  (\E i \in 1..k : a[i] = n) => \E i \in 1..l : b[i] = n
  <1> SUFFICES ASSUME NEW i \in 1..k, a[i] = n PROVE \E j \in 1..l : b[j] = n
    OBVIOUS
  <1>1. i \in 1..top /\ i \in 1..l
    OBVIOUS
  <1> QED
    BY <1>1

LEMMA Persists ==
    ASSUME Stored, Stored', Grows, NEW s \in Leaves, NEW n, msgs'[n].level = msgs[n].level
    PROVE  /\ Lets(s, n)' <=> Lets(s, n)
           /\ Got(s, n) => Got(s, n)'
           /\ Safe(s, n) => Safe(s, n)'
  <1>1. Lets(s, n)' <=> Lets(s, n)
    BY DEF Lets, Grows
  <1>2. /\ written[s] \in Seq(Nat) /\ written'[s] \in Seq(Nat)
        /\ Len(written[s]) \in Nat /\ Len(written'[s]) \in Nat
        /\ DOMAIN written[s] = 1..Len(written[s]) /\ DOMAIN written'[s] = 1..Len(written'[s])
        /\ Len(written[s]) <= Len(written'[s]) /\ flushed[s] <= flushed'[s]
        /\ flushed[s] \in Nat /\ flushed'[s] \in Nat /\ flushed[s] <= Len(written[s])
        /\ \A i \in 1..Len(written[s]) : written'[s][i] = written[s][i]
    BY LenProperties DEF Stored, Grows
  <1> DEFINE a == written[s]
             b == written'[s]
             top == Len(a)
             long == Len(b)
             k == flushed[s]
             l == flushed'[s]
  <1>3. top \in Nat /\ long \in Nat /\ k \in Nat /\ l \in Nat
    BY <1>2
  <1>4. /\ a = written[s] /\ b = written'[s] /\ top = Len(a) /\ long = Len(b)
        /\ k = flushed[s] /\ l = flushed'[s]
    OBVIOUS
  <1> HIDE DEF a, b, top, long, k, l
  <1>5. k <= top /\ top <= long /\ k <= l /\ \A i \in 1..top : b[i] = a[i]
    BY <1>2, <1>4
  <1>6. /\ (\E i \in 1..top : a[i] = n) => \E i \in 1..long : b[i] = n
        /\ (\E i \in 1..k : a[i] = n) => \E i \in 1..l : b[i] = n
    BY <1>3, <1>5, StillThere
  <1>7. In(s, n) => In(s, n)'
    BY <1>2, <1>4, <1>6 DEF In
  <1>8. (\E i \in 1..flushed[s] : written[s][i] = n) =>
            \E i \in 1..flushed'[s] : written'[s][i] = n
    BY <1>4, <1>6
  <1> QED
    BY <1>1, <1>7, <1>8 DEF Got, Safe

\* Thread t alone moves, with its message if it has one, or a new one.
LEMMA OneMoves ==
    ASSUME Delivered, msgs \in Seq(MsgType), Stored', Grows, NEW t \in Threads,
           \A u \in Threads \ {t} : pc'[u] = pc[u] /\ job'[u] = job[u], AtSink(t)',
           \A n \in 1..Len(msgs) : /\ n \in 1..Len(msgs') /\ msgs'[n].level = msgs[n].level
                                   /\ msgs'[n] = msgs[n] \/ Carries(t, n),
           \A n \in 1..Len(msgs') : n \in 1..Len(msgs) \/ (n = Len(msgs) + 1 /\ ~msgs'[n].over),
           \A n \in Nat \ {0} : Carries(t, n)' =>
                Underway(t, n)' /\ (Carries(t, n) \/ n = Len(msgs) + 1),
           \A n \in 1..Len(msgs) : Carries(t, n) /\ msgs'[n].over => Reported(n)'
    PROVE  Delivered'
  <1>0. Len(msgs) \in Nat
    BY LenProperties
  <1>1. \A s \in {"file", "first"} : s \in Leaves
    BY DEF Leaves
  <1>2. ASSUME NEW n \in 1..Len(msgs), NEW s \in {"file", "first"}
        PROVE  /\ Lets(s, n)' <=> Lets(s, n)
               /\ Got(s, n) => Got(s, n)'
               /\ Safe(s, n) => Safe(s, n)'
    BY <1>1, Persists DEF Delivered
  <1>3. \A u \in Threads \ {t}, n \in Nat \ {0} : Carries(u, n)' <=> Carries(u, n)
    BY DEF Carries
  <1>4. ASSUME NEW u \in Threads \ {t}, NEW n \in Nat \ {0}, Carries(u, n)
        PROVE  Underway(u, n)' /\ n \in 1..Len(msgs) /\ ~Carries(t, n)
    <2>1. Underway(u, n) /\ ~Carries(t, n)
      BY <1>4 DEF Delivered
    <2>2. n \in 1..Len(msgs) /\ msgs'[n] = msgs[n] /\ n \in 1..Len(msgs')
      BY <2>1 DEF Underway
    <2>3. handled \subseteq handled' /\ pc'[u] = pc[u] /\ job'[u] = job[u]
      BY DEF Grows
    <2>4. /\ Got("file", n) => Got("file", n)'
          /\ Got("first", n) => Got("first", n)'
          /\ Safe("file", n) => Safe("file", n)'
          /\ Safe("first", n) => Safe("first", n)'
      BY <1>2, <2>2
    <2>5. Underway(u, n)'
      BY <2>1, <2>2, <2>3, <2>4 DEF Underway
    <2> QED
      BY <2>1, <2>2, <2>5
  <1>5. \A u \in Threads, n \in Nat \ {0} : Carries(u, n)' => Underway(u, n)'
    BY <1>3, <1>4
  <1>6. ASSUME NEW u \in Threads \ {t}, NEW n \in Nat \ {0}, Carries(u, n)', Carries(t, n)'
        PROVE  FALSE
    <2>1. n \in 1..Len(msgs) /\ ~Carries(t, n)
      BY <1>3, <1>4, <1>6
    <2> QED
      BY <1>0, <1>6, <2>1
  <1>7. \A u, v \in Threads, n \in Nat \ {0} : Carries(u, n)' /\ Carries(v, n)' => u = v
    <2> TAKE u, v \in Threads, n \in Nat \ {0}
    <2>1. CASE u = t \/ v = t
      BY <1>6, <2>1
    <2>2. CASE u # t /\ v # t
      BY <1>3, <2>2 DEF Delivered
    <2> QED
      BY <2>1, <2>2
  <1>8. ASSUME NEW n \in 1..Len(msgs'), msgs'[n].over PROVE Reported(n)'
    <2>1. n \in 1..Len(msgs)
      BY <1>8
    <2>2. CASE Carries(t, n)
      BY <1>8, <2>1, <2>2
    <2>3. CASE ~Carries(t, n)
      <3>1. msgs'[n] = msgs[n] /\ Reported(n) /\ handled \subseteq handled'
        BY <1>8, <2>1, <2>3 DEF Delivered, Grows
      <3>2. /\ Got("file", n) => Got("file", n)'
            /\ Got("first", n) => Got("first", n)'
            /\ Safe("file", n) => Safe("file", n)'
            /\ Safe("first", n) => Safe("first", n)'
        BY <1>2, <2>1
      <3> QED
        BY <3>1, <3>2 DEF Reported
    <2> QED
      BY <2>2, <2>3
  <1>9. \A u \in Threads : AtSink(u)'
    BY DEF Delivered, AtSink
  <1> QED
    BY <1>5, <1>7, <1>8, <1>9 DEF Delivered

\* Nothing is stored.
SameStore == UNCHANGED <<written, flushed, sink_level>> /\ handled \subseteq handled'
LEMMA Stays ==
    ASSUME Stored, SameStore, UNCHANGED members
    PROVE  Stored' /\ Grows
BY DEF Stored, SameStore, Grows

-----------------------------------------------------------------------------
(* What the sinks take.                                                     *)

LEMMA HowOften ==
    ASSUME NEW ms, NEW S, ms \in Seq(S), NEW s
    PROVE  /\ Times(ms, s) \in Nat
           /\ (\E i \in 1..Len(ms) : ms[i] = s) => Times(ms, s) > 0
  <1> DEFINE I == {i \in DOMAIN ms : ms[i] = s}
  <1>1. Len(ms) \in Nat /\ DOMAIN ms = 1..Len(ms)
    BY LenProperties
  <1>2. IsFiniteSet(1..Len(ms)) /\ I \in SUBSET (1..Len(ms))
    BY <1>1, FS_Interval
  <1>3. IsFiniteSet(I) /\ Times(ms, s) = Cardinality(I)
    BY <1>2, FS_Subset DEF Times
  <1>4. (\E i \in 1..Len(ms) : ms[i] = s) => I # {}
    BY <1>1
  <1> HIDE DEF I
  <1>5. Cardinality(I) \in Nat /\ (I # {} => Cardinality(I) # 0)
    BY <1>3, FS_CardinalityType, FS_EmptySet
  <1> QED
    BY <1>3, <1>4, <1>5

LEMMA TakenIs ==
    ASSUME NEW ms \in Seq(Leaves), NEW n \in Nat, NEW s \in Leaves, Stored
    PROVE  /\ Taken(ms, n)[s] \in Seq(Nat)
           /\ Len(written[s]) <= Len(Taken(ms, n)[s])
           /\ \A i \in 1..Len(written[s]) : Taken(ms, n)[s][i] = written[s][i]
           /\ Lets(s, n) /\ (\E i \in 1..Len(ms) : ms[i] = s) =>
                \E i \in 1..Len(Taken(ms, n)[s]) : Taken(ms, n)[s][i] = n
  <1> DEFINE k == Times(ms, s)
             w == written[s]
             more == [i \in 1..k |-> n]
             both == w \o more
  <1>1. k \in Nat /\ ((\E i \in 1..Len(ms) : ms[i] = s) => k > 0)
    BY HowOften
  <1>2. w \in Seq(Nat) /\ Len(w) \in Nat
    BY LenProperties DEF Stored
  <1>3. Taken(ms, n)[s] = IF Lets(s, n) THEN both ELSE w
    BY DEF Taken
  <1> HIDE DEF k, w
  <1>4. more \in Seq(Nat) /\ Len(more) = k /\ (k > 0 => more[1] = n)
    BY <1>1
  <1> HIDE DEF more
  <1>5. /\ both \in Seq(Nat) /\ Len(both) = Len(w) + k
        /\ \A i \in 1..(Len(w) + k) :
              both[i] = IF i <= Len(w) THEN w[i] ELSE more[i - Len(w)]
    BY <1>2, <1>4, ConcatProperties
  <1> HIDE DEF both
  <1>6. k > 0 => Len(w) + 1 \in 1..Len(both) /\ both[Len(w) + 1] = n
    <2> SUFFICES ASSUME k > 0 PROVE Len(w) + 1 \in 1..Len(both) /\ both[Len(w) + 1] = n
      OBVIOUS
    <2>1. Len(w) + 1 \in 1..(Len(w) + k) /\ ~(Len(w) + 1 <= Len(w)) /\ (Len(w) + 1) - Len(w) = 1
      BY <1>1, <1>2
    <2> QED
      BY <1>4, <1>5, <2>1
  <1>7. /\ Len(w) <= Len(both) /\ \A i \in 1..Len(w) : both[i] = w[i]
    BY <1>1, <1>2, <1>5
  <1>8. CASE Lets(s, n)
    BY <1>1, <1>2, <1>3, <1>5, <1>6, <1>7, <1>8 DEF w
  <1>9. CASE ~Lets(s, n)
    BY <1>2, <1>3, <1>9 DEF w
  <1> QED
    BY <1>8, <1>9

LEMMA Takes ==
    ASSUME NEW ms \in Seq(Leaves), NEW n \in Nat, Stored,
           written' = Taken(ms, n), UNCHANGED <<members, sink_level, flushed, handled, msgs>>
    PROVE  /\ Stored' /\ Grows
           /\ \A s \in Leaves : (\E i \in 1..Len(ms) : ms[i] = s) => Got(s, n)'
  <1> DEFINE w == Taken(ms, n)
  <1>1. ASSUME NEW s \in Leaves
        PROVE  /\ w[s] \in Seq(Nat) /\ Len(written[s]) <= Len(w[s])
               /\ \A i \in 1..Len(written[s]) : w[s][i] = written[s][i]
               /\ Lets(s, n) /\ (\E i \in 1..Len(ms) : ms[i] = s) =>
                    \E i \in 1..Len(w[s]) : w[s][i] = n
    BY TakenIs
  <1>2. written' = w
    OBVIOUS
  <1> HIDE DEF w
  <1>3. \A s \in Leaves : Len(written[s]) \in Nat /\ Len(w[s]) \in Nat
                          /\ DOMAIN w[s] = 1..Len(w[s])
    BY <1>1, LenProperties DEF Stored
  <1>4. Stored'
    BY <1>1, <1>2, <1>3 DEF Stored
  <1>5. Grows
    BY <1>1, <1>2 DEF Grows, Stored
  <1>6. \A s \in Leaves : Lets(s, n)' <=> Lets(s, n)
    BY DEF Lets
  <1>7. \A s \in Leaves : (\E i \in 1..Len(ms) : ms[i] = s) => Got(s, n)'
    BY <1>1, <1>2, <1>3, <1>6 DEF Got, In
  <1> QED
    BY <1>4, <1>5, <1>7

LEMMA Flushes ==
    ASSUME NEW ms \in Seq(Leaves), Stored,
           flushed' = [s \in Leaves |-> IF Times(ms, s) > 0 THEN Len(written[s])
                                        ELSE flushed[s]],
           UNCHANGED <<members, sink_level, written, handled, msgs>>
    PROVE  /\ Stored' /\ Grows
           /\ \A s \in Leaves, n \in Nat :
                 (\E i \in 1..Len(ms) : ms[i] = s) /\ Got(s, n) => Safe(s, n)'
  <1>1. \A s \in Leaves :
           flushed'[s] = IF Times(ms, s) > 0 THEN Len(written[s]) ELSE flushed[s]
    OBVIOUS
  <1>2. \A s \in Leaves : /\ Len(written[s]) \in Nat /\ flushed[s] \in Nat
                          /\ flushed[s] <= Len(written[s])
                          /\ DOMAIN written[s] = 1..Len(written[s])
    BY LenProperties DEF Stored
  <1>3. Stored' /\ Grows
    BY <1>1, <1>2 DEF Stored, Grows
  <1>4. ASSUME NEW s \in Leaves, NEW n \in Nat, \E i \in 1..Len(ms) : ms[i] = s, Got(s, n)
        PROVE  Safe(s, n)'
    <2>1. flushed'[s] = Len(written[s])
      BY <1>1, <1>4, HowOften
    <2>2. Lets(s, n)' <=> Lets(s, n)
      BY DEF Lets
    <2> QED
      BY <1>2, <1>4, <2>1, <2>2 DEF Safe, Got, In
  <1> QED
    BY <1>3, <1>4

\* The sinks of a logger: the file, and the members of the other.
LEMMA MembersAre ==
    ASSUME Stored, NEW k \in 1..Len(Sinks)
    PROVE  /\ Members(Sinks[k]) \in Seq(Leaves) /\ DOMAIN Members(Sinks[k]) = 1..Len(Members(Sinks[k]))
           /\ Len(Members(Sinks[k])) \in Nat
           /\ k = 1 \/ k = 2
           /\ k = 1 => \E i \in 1..Len(Members(Sinks[k])) : Members(Sinks[k])[i] = "file"
           /\ k = 2 => \E i \in 1..Len(Members(Sinks[k])) : Members(Sinks[k])[i] = "first"
  <1>1. Len(Sinks) = 2 /\ Sinks[1] = "file" /\ Sinks[2] = "dist"
    BY DEF Sinks
  <1>2. CASE k = 1
    <2>1. Members(Sinks[k]) = <<"file">>
      BY <1>1, <1>2 DEF Members
    <2>2. /\ <<"file">> \in Seq(Leaves) /\ Len(<<"file">>) = 1
          /\ <<"file">>[1] = "file"
      BY DEF Leaves
    <2> DEFINE q == <<"file">>
    <2>3. q \in Seq(Leaves) /\ Len(q) = 1 /\ q[1] = "file" /\ Members(Sinks[k]) = q
      BY <2>1, <2>2
    <2> HIDE DEF q
    <2>4. DOMAIN q = 1..Len(q) /\ 1 \in 1..Len(q)
      BY <2>3
    <2> QED
      BY <1>2, <2>3, <2>4
  <1>3. CASE k = 2
    <2>1. Members(Sinks[k]) = members
      BY <1>1, <1>3 DEF Members
    <2>2. /\ members \in Seq(Leaves) /\ Len(members) \in Nat /\ DOMAIN members = 1..Len(members)
          /\ 1 \in 1..Len(members) /\ members[1] = "first"
      <3>1. {"first", "second"} \subseteq Leaves
        BY DEF Leaves
      <3> QED
        BY <3>1, LenProperties, SeqMonotonic DEF Stored
    <2> QED
      BY <1>3, <2>1, <2>2
  <1> QED
    BY <1>1, <1>2, <1>3

LEMMA SomeMembers ==
    ASSUME NEW ms \in Seq(Leaves), NEW k \in DOMAIN ms
    PROVE  SubSeq(ms, 1, k - 1) \in Seq(Leaves)
  <1>1. k \in 1..Len(ms) /\ Len(ms) \in Nat /\ \A i \in 1..Len(ms) : ms[i] \in Leaves
    BY LenProperties, ElementOfSeq
  <1>2. \A i \in 1..(k - 1) : ms[i] \in Leaves
    BY <1>1
  <1> QED
    BY <1>1, <1>2, SubSeqProperties

-----------------------------------------------------------------------------
(* What the steps do.                                                       *)

\* t goes on with what it has, or stops having one.
LEMMA Working ==
    ASSUME Delivered, Types, Stored', Grows, NEW t \in Threads,
           \A u \in Threads \ {t} : pc'[u] = pc[u] /\ job'[u] = job[u], AtSink(t)',
           msgs' = msgs,
           \A n \in Nat \ {0} : Carries(t, n)' => Carries(t, n) /\ Underway(t, n)'
    PROVE  Delivered'
  <1>1. msgs \in Seq(MsgType)
    BY DEF Types
  <1>2. ASSUME NEW n \in 1..Len(msgs), Carries(t, n), msgs'[n].over PROVE FALSE
    <2>1. n \in Nat \ {0}
      BY <1>1, LenProperties
    <2>2. Underway(t, n)
      BY <1>2, <2>1 DEF Delivered
    <2> QED
      BY <1>2, <2>2 DEF Underway
  <1>3. /\ \A n \in 1..Len(msgs) : n \in 1..Len(msgs') /\ msgs'[n] = msgs[n]
        /\ \A n \in 1..Len(msgs') : n \in 1..Len(msgs)
    OBVIOUS
  <1>4. \A n \in 1..Len(msgs) : Carries(t, n) /\ msgs'[n].over => Reported(n)'
    BY <1>2
  <1>5. \A n \in Nat \ {0} : Carries(t, n)' =>
           Underway(t, n)' /\ (Carries(t, n) \/ n = Len(msgs) + 1)
    OBVIOUS
  <1>6. /\ \A n \in 1..Len(msgs) : /\ n \in 1..Len(msgs') /\ msgs'[n].level = msgs[n].level
                                   /\ msgs'[n] = msgs[n] \/ Carries(t, n)
        /\ \A n \in 1..Len(msgs') : n \in 1..Len(msgs) \/ (n = Len(msgs) + 1 /\ ~msgs'[n].over)
    BY <1>3
  <1> QED
    BY <1>1, <1>4, <1>5, <1>6, OneMoves

LEMMA Ends ==
    ASSUME Delivered, Types, Stored', Grows, NEW t \in Threads, Return(t), pc[t] \in Logging,
           \A n \in 1..Len(msgs) : Carries(t, n) => n \in handled' \/ (n \notin handled =>
              \A s \in {"file", "first"} : Got(s, n) /\ (msgs[n].urgent => Safe(s, n)))
    PROVE  Delivered'
  <1> DEFINE m == job[t].n
  <1>1. /\ msgs \in Seq(MsgType) /\ DOMAIN msgs = 1..Len(msgs)
        /\ \A n \in 1..Len(msgs) : msgs[n] \in MsgType
        /\ Len(msgs) \in Nat /\ m \in Nat /\ pc'[t] = "idle"
        /\ \A u \in Threads \ {t} : pc'[u] = pc[u] /\ job'[u] = job[u]
    BY ReturnEffect, LenProperties DEF Types, JobType
  <1>2. /\ Len(msgs') = Len(msgs)
        /\ \A n \in 1..Len(msgs) : /\ msgs'[n].level = msgs[n].level
                                   /\ msgs'[n].urgent = msgs[n].urgent
                                   /\ n # m => msgs'[n] = msgs[n]
    <2>1. CASE m = 0
      BY <2>1 DEF Return
    <2>2. CASE m # 0
      <3>1. msgs' = [msgs EXCEPT ![m].over = TRUE]
        BY <2>2 DEF Return
      <3>2. DOMAIN msgs' = 1..Len(msgs) /\ msgs' \in Seq(MsgType)
        BY <1>1, <3>1, Over
      <3>3. Len(msgs') = Len(msgs)
        BY <1>1, <3>2, LenProperties
      <3>4. \A n \in 1..Len(msgs) : n # m => msgs'[n] = msgs[n]
        BY <1>1, <3>1
      <3>5. m \in 1..Len(msgs) => /\ msgs'[m].level = msgs[m].level
                                  /\ msgs'[m].urgent = msgs[m].urgent
        BY <1>1, <3>1 DEF MsgType
      <3> QED
        BY <3>3, <3>4, <3>5
    <2> QED
      BY <2>1, <2>2
  <1>3. \A n : Carries(t, n) <=> n = m
    BY DEF Carries
  <1>4. AtSink(t)' /\ \A n \in Nat \ {0} : ~Carries(t, n)'
    BY <1>1 DEF Carries, Logging, AtSink
  <1>5. ASSUME NEW n \in 1..Len(msgs), Carries(t, n) PROVE Reported(n)'
    <2>1. \A s \in {"file", "first"} : s \in Leaves
      BY DEF Leaves
    <2>2. ASSUME NEW s \in {"file", "first"}
          PROVE  (Got(s, n) => Got(s, n)') /\ (Safe(s, n) => Safe(s, n)')
      BY <1>2, <2>1, Persists DEF Delivered
    <2>3. /\ Got("file", n) => Got("file", n)'
          /\ Got("first", n) => Got("first", n)'
          /\ Safe("file", n) => Safe("file", n)'
          /\ Safe("first", n) => Safe("first", n)'
      BY <2>2
    <2>4. handled \subseteq handled' /\ msgs'[n].urgent = msgs[n].urgent
      BY <1>2 DEF Grows
    <2> QED
      BY <1>5, <2>3, <2>4 DEF Reported
  <1> HIDE DEF m
  <1>6. \A n \in 1..Len(msgs) : /\ n \in 1..Len(msgs') /\ msgs'[n].level = msgs[n].level
                                /\ msgs'[n] = msgs[n] \/ Carries(t, n)
    BY <1>2, <1>3
  <1>7. \A n \in 1..Len(msgs') : n \in 1..Len(msgs) \/ (n = Len(msgs) + 1 /\ ~msgs'[n].over)
    BY <1>2
  <1> QED
    BY <1>1, <1>4, <1>5, <1>6, <1>7, OneMoves

LEMMA Carrying ==
    ASSUME Delivered, NEW t \in Threads, NEW n \in Nat \ {0}, Carries(t, n)
    PROVE  Underway(t, n)
BY DEF Delivered

\* Nothing but the store's members, or what is not a message.
LEMMA Elsewhere ==
    ASSUME Delivered, UNCHANGED <<written, flushed, sink_level, handled, msgs, pc, job>>, Stored'
    PROVE  Delivered'
  <1>1. \A n : Reported(n) => Reported(n)'
    BY DEF Reported, Got, Safe, Lets, In
  <1>2. \A t, n : Underway(t, n) => Underway(t, n)'
    BY DEF Underway, Got, Safe, Lets, In
  <1>3. \A t : (AtSink(t)' <=> AtSink(t)) /\ \A n : Carries(t, n)' <=> Carries(t, n)
    BY DEF Carries, AtSink
  <1>4. \A n \in 1..Len(msgs) : msgs[n].over => Reported(n)'
    BY <1>1 DEF Delivered
  <1> QED
    BY <1>2, <1>3, <1>4 DEF Delivered

LEMMA AddsOne ==
    ASSUME Types, Delivered, NEW t \in Threads, add_sink(t)
    PROVE  Delivered'
  <1>1. /\ members' = Append(members, "second")
        /\ UNCHANGED <<written, flushed, sink_level, handled, msgs, pc, job>>
    BY DEF add_sink, sinkVars, logVars
  <1>2. /\ members \in Seq({"first", "second"}) /\ "second" \in {"first", "second"}
        /\ Len(members) >= 1 /\ members[1] = "first" /\ Len(members) \in Nat
    BY LenProperties DEF Delivered, Stored
  <1>3. /\ members' \in Seq({"first", "second"}) /\ Len(members') = Len(members) + 1
        /\ \A i \in 1..Len(members) : members'[i] = members[i]
    BY <1>1, <1>2, AppendProperties
  <1>4. Len(members') >= 1 /\ members'[1] = "first"
    BY <1>2, <1>3
  <1>5. Stored'
    BY <1>1, <1>3, <1>4 DEF Delivered, Stored
  <1> QED
    BY <1>1, <1>5, Elsewhere

LEMMA Begins ==
    ASSUME Types, Delivered, NEW t \in Threads, NEW id \in Nat, NEW level \in Levels, Log(t, id, level)
    PROVE  Delivered'
  <1>1. SameStore /\ UNCHANGED members
    BY DEF Log, sinkVars, SameStore
  <1>2. Stored' /\ Grows
    BY <1>1, Stays DEF Delivered
  <1>3. CASE UNCHANGED <<msgs, job, pc>>
    BY <1>2, <1>3, Elsewhere DEF Log, sinkVars
  <1> DEFINE e == [level |-> level, urgent |-> FALSE, over |-> FALSE]
             j == [NoJob EXCEPT !.n = Len(msgs'), !.id = id]
  <1>4. CASE /\ msgs' = Append(msgs, e) /\ job' = [job EXCEPT ![t] = j]
             /\ pc' = [pc EXCEPT ![t] = "format"]
    <2>1. e \in MsgType /\ ~e.over /\ ~e.urgent /\ msgs \in Seq(MsgType) /\ Len(msgs) \in Nat
      BY LenProperties DEF MsgType, Types
    <2> HIDE DEF e
    <2>2. /\ Len(msgs') = Len(msgs) + 1 /\ msgs'[Len(msgs) + 1] = e
          /\ \A i \in 1..Len(msgs) : msgs'[i] = msgs[i]
      BY <1>4, <2>1, AppendProperties
    <2>3. j.n = Len(msgs) + 1 /\ j.at = 1
      BY <2>2 DEF NoJob
    <2> HIDE DEF j
    <2>4. /\ pc'[t] = "format" /\ job'[t] = j
          /\ \A u \in Threads \ {t} : pc'[u] = pc[u] /\ job'[u] = job[u]
      BY <1>4 DEF Types
    <2>5. \A n \in Nat \ {0} : Carries(t, n)' => n = Len(msgs) + 1
      BY <2>3, <2>4 DEF Carries
    <2>6. ASSUME NEW n, n = Len(msgs) + 1 PROVE Underway(t, n)'
      BY <2>1, <2>2, <2>3, <2>4, <2>6 DEF Underway
    <2>7. ASSUME NEW n \in 1..Len(msgs), msgs'[n].over, Carries(t, n) PROVE FALSE
      <3>1. pc[t] = "idle"
        BY <1>4 DEF Log, Call
      <3> QED
        BY <2>7, <3>1 DEF Carries, Logging
    <2>8. \A n \in 1..Len(msgs) : /\ n \in 1..Len(msgs') /\ msgs'[n].level = msgs[n].level
                                  /\ msgs'[n] = msgs[n] \/ Carries(t, n)
      BY <2>1, <2>2
    <2>9. ASSUME NEW n \in 1..Len(msgs')
          PROVE  n \in 1..Len(msgs) \/ (n = Len(msgs) + 1 /\ ~msgs'[n].over)
      <3>1. n \in 1..Len(msgs) \/ n = Len(msgs) + 1
        BY <2>1, <2>2
      <3> QED
        BY <2>1, <2>2, <3>1
    <2>10. \A n \in Nat \ {0} : Carries(t, n)' =>
              Underway(t, n)' /\ (Carries(t, n) \/ n = Len(msgs) + 1)
      BY <2>5, <2>6
    <2>11. AtSink(t)'
      BY <2>3, <2>4 DEF AtSink
    <2> QED
      BY <1>2, <2>1, <2>4, <2>7, <2>8, <2>9, <2>10, <2>11, OneMoves
  <1> QED
    BY <1>3, <1>4 DEF Log

\* Steps that store nothing: formatting, and giving up.
LEMMA Formats ==
    ASSUME Types, Delivered, NEW t \in Threads, FormatThrows(t) \/ Format(t)
    PROVE  Delivered'
  <1>1. /\ SameStore /\ UNCHANGED <<members, msgs, job>>
        /\ pc[t] = "format" /\ pc'[t] \in {"sink", "handle"}
        /\ \A u \in Threads \ {t} : pc'[u] = pc[u] /\ job'[u] = job[u]
    BY DEF FormatThrows, Format, Go, Types, sinkVars, logVars, SameStore
  <1>2. Stored' /\ Grows
    BY <1>1, Stays DEF Delivered
  <1>3. ASSUME NEW n \in Nat \ {0}, Carries(t, n)' PROVE Carries(t, n) /\ Underway(t, n)'
    <2>1. Carries(t, n)
      BY <1>1, <1>3 DEF Carries, Logging
    <2>2. Underway(t, n)
      BY <2>1, Carrying
    <2>3. n \in 1..Len(msgs) /\ ~msgs[n].over /\ ~msgs[n].urgent /\ job[t].at = 1
      BY <1>1, <2>2 DEF Underway
    <2>4. Underway(t, n)'
      BY <1>1, <2>3 DEF Underway
    <2> QED
      BY <2>1, <2>4
  <1>4. AtSink(t)'
    BY <1>1 DEF Delivered, AtSink
  <1> QED
    BY <1>1, <1>2, <1>3, <1>4, Working

LEMMA GivingUp ==
    ASSUME Delivered, NEW t \in Threads, pc[t] \in Logging, pc'[t] = "handle",
           UNCHANGED <<msgs, job>>, NEW n \in Nat \ {0}, Carries(t, n)'
    PROVE  Carries(t, n) /\ Underway(t, n)'
  <1>1. Carries(t, n)
    BY DEF Carries
  <1>2. Underway(t, n)
    BY <1>1, Carrying
  <1>3. n \in 1..Len(msgs) /\ ~msgs[n].over
    BY <1>2 DEF Underway
  <1>4. Underway(t, n)'
    BY <1>3 DEF Underway
  <1> QED
    BY <1>1, <1>4

LEMMA Place ==
    ASSUME Types, Delivered, NEW t \in Threads, pc[t] \in {"sink", "flush"},
           job[t].at <= Len(Sinks)
    PROVE  job[t].at \in 1..Len(Sinks)
BY DEF Delivered, AtSink, Types, JobType, Sinks

LEMMA SinkTakes ==
    ASSUME Types, Delivered, NEW t \in Threads, Sink(t)
    PROVE  Delivered'
  <1>0. PICK k \in Nat, m \in Nat : k = job[t].at /\ m = job[t].n
    BY DEF Types, JobType
  <1> DEFINE ms == Members(Sinks[k])
  <1>1. /\ pc[t] = "sink" /\ k <= Len(Sinks) /\ written' = Taken(ms, m)
        /\ job' = [job EXCEPT ![t].at = @ + 1]
        /\ UNCHANGED <<members, sink_level, flushed, handled, msgs, pc>>
    BY <1>0 DEF Sink, logVars
  <1>3. /\ job'[t].n = m /\ job'[t].at = k + 1
        /\ \A u \in Threads \ {t} : job'[u] = job[u]
        /\ AtSink(t)'
    BY <1>0, <1>1 DEF Types, JobType, AtSink
  <1>5. k \in 1..Len(Sinks)
    BY <1>0, <1>1, Place
  <1>6. /\ ms \in Seq(Leaves) /\ (k = 1 \/ k = 2)
        /\ k = 1 => \E i \in 1..Len(ms) : ms[i] = "file"
        /\ k = 2 => \E i \in 1..Len(ms) : ms[i] = "first"
    BY <1>5, MembersAre DEF Delivered
  <1> HIDE DEF ms
  <1>7. /\ Stored' /\ Grows
        /\ \A s \in Leaves : (\E i \in 1..Len(ms) : ms[i] = s) => Got(s, m)'
    BY <1>1, <1>6, Takes DEF Delivered
  <1>8. (k = 1 => Got("file", m)') /\ (k = 2 => Got("first", m)')
    BY <1>6, <1>7 DEF Leaves
  <1>9. ASSUME NEW n \in Nat \ {0}, Carries(t, n)' PROVE Carries(t, n) /\ Underway(t, n)'
    <2>1. n = m /\ Carries(t, n)
      BY <1>0, <1>1, <1>3, <1>9 DEF Carries
    <2>2. Underway(t, n)
      BY <2>1, Carrying
    <2>3. n \in 1..Len(msgs) /\ ~msgs[n].over /\ ~msgs[n].urgent
          /\ (k > 1 => Got("file", n))
      BY <1>0, <1>1, <2>2 DEF Underway
    <2>4. Got("file", n)'
      <3>1. CASE k = 1
        BY <1>8, <2>1, <3>1
      <3>2. CASE k = 2
        <4>1. Got("file", n) /\ "file" \in Leaves /\ msgs'[n].level = msgs[n].level
          BY <1>1, <2>3, <3>2 DEF Leaves
        <4> QED
          BY <1>7, <4>1, Persists DEF Delivered
      <3> QED
        BY <1>6, <3>1, <3>2
    <2>5. job'[t].at > 2 => Got("first", n)'
      <3>1. job'[t].at > 2 => k = 2
        BY <1>3, <1>6
      <3> QED
        BY <1>8, <2>1, <3>1
    <2>6. Underway(t, n)'
      BY <1>1, <2>3, <2>4, <2>5 DEF Underway
    <2> QED
      BY <2>1, <2>6
  <1> QED
    BY <1>1, <1>3, <1>7, <1>9, Working

LEMMA SinkGivesUp ==
    ASSUME Types, Delivered, NEW t \in Threads, SinkThrows(t)
    PROVE  Delivered'
  <1> DEFINE ms == Members(Sinks[job[t].at])
  <1>1. /\ pc[t] = "sink" /\ pc'[t] = "handle"
        /\ \A u \in Threads \ {t} : pc'[u] = pc[u]
        /\ \E k \in DOMAIN ms : written' = Taken(SubSeq(ms, 1, k - 1), job[t].n)
        /\ UNCHANGED <<members, sink_level, flushed, handled, msgs, job>>
    BY DEF SinkThrows, Go, Types, logVars
  <1>2. PICK k \in DOMAIN ms : written' = Taken(SubSeq(ms, 1, k - 1), job[t].n)
    BY <1>1
  <1>3. job[t].at \in 1..Len(Sinks) /\ job[t].n \in Nat
    BY <1>1, Place DEF SinkThrows, Types, JobType, Sinks
  <1>4. ms \in Seq(Leaves)
    BY <1>3, MembersAre DEF Delivered
  <1> HIDE DEF ms
  <1>5. Stored' /\ Grows
    <2>1. SubSeq(ms, 1, k - 1) \in Seq(Leaves)
      BY <1>4, SomeMembers
    <2> QED
      BY <1>1, <1>2, <1>3, <2>1, Takes DEF Delivered
  <1>6. ASSUME NEW n \in Nat \ {0}, Carries(t, n)' PROVE Carries(t, n) /\ Underway(t, n)'
    BY <1>1, <1>6, GivingUp DEF Logging
  <1>7. AtSink(t)'
    BY <1>1 DEF AtSink
  <1> QED
    BY <1>1, <1>5, <1>6, <1>7, Working

LEMMA SinkIsFlushed ==
    ASSUME Types, Delivered, NEW t \in Threads, SinkFlushes(t)
    PROVE  Delivered'
  <1>0. PICK k \in Nat, m \in Nat : k = job[t].at /\ m = job[t].n
    BY DEF Types, JobType
  <1> DEFINE ms == Members(Sinks[k])
  <1>1. /\ pc[t] = "flush" /\ k <= Len(Sinks)
        /\ flushed' = [s \in Leaves |-> IF Times(ms, s) > 0 THEN Len(written[s])
                                         ELSE flushed[s]]
        /\ job' = [job EXCEPT ![t].at = @ + 1]
        /\ UNCHANGED <<members, sink_level, written, handled, msgs, pc>>
    BY <1>0 DEF SinkFlushes, logVars
  <1>3. /\ job'[t].n = m /\ job'[t].at = k + 1
        /\ \A u \in Threads \ {t} : job'[u] = job[u]
        /\ AtSink(t)'
    BY <1>0, <1>1 DEF Types, JobType, AtSink
  <1>4. k \in 1..Len(Sinks)
    BY <1>0, <1>1, Place
  <1>5. /\ ms \in Seq(Leaves) /\ (k = 1 \/ k = 2)
        /\ k = 1 => \E i \in 1..Len(ms) : ms[i] = "file"
        /\ k = 2 => \E i \in 1..Len(ms) : ms[i] = "first"
    BY <1>4, MembersAre DEF Delivered
  <1> HIDE DEF ms
  <1>6. /\ Stored' /\ Grows
        /\ \A s \in Leaves, n \in Nat :
              (\E i \in 1..Len(ms) : ms[i] = s) /\ Got(s, n) => Safe(s, n)'
    BY <1>1, <1>5, Flushes DEF Delivered
  <1>7. ASSUME NEW n \in Nat \ {0}, Carries(t, n)' PROVE Carries(t, n) /\ Underway(t, n)'
    <2>1. n = m /\ Carries(t, n)
      BY <1>0, <1>1, <1>3, <1>7 DEF Carries
    <2>2. Underway(t, n)
      BY <2>1, Carrying
    <2>3. /\ n \in 1..Len(msgs) /\ ~msgs[n].over /\ Got("file", n) /\ Got("first", n)
          /\ k > 1 => Safe("file", n)
      BY <1>0, <1>1, <2>2 DEF Underway
    <2>4. \A s \in {"file", "first"} :
             Got(s, n)' /\ (Safe(s, n) => Safe(s, n)')
      <3>1. ASSUME NEW s \in {"file", "first"} PROVE Got(s, n)' /\ (Safe(s, n) => Safe(s, n)')
        <4>1. s \in Leaves /\ Got(s, n) /\ msgs'[n].level = msgs[n].level
          BY <1>1, <2>3 DEF Leaves
        <4> QED
          BY <1>6, <4>1, Persists DEF Delivered
      <3> QED
        BY <3>1
    <2>5. Safe("file", n)'
      <3>1. CASE k = 1
        BY <1>5, <1>6, <2>3, <3>1 DEF Leaves
      <3>2. CASE k = 2
        BY <2>3, <2>4, <3>2
      <3> QED
        BY <1>5, <3>1, <3>2
    <2>6. job'[t].at > 2 => Safe("first", n)'
      <3>1. job'[t].at > 2 => k = 2
        BY <1>3, <1>5
      <3>2. k = 2 => Safe("first", n)'
        BY <1>5, <1>6, <2>3 DEF Leaves
      <3> QED
        BY <3>1, <3>2
    <2>7. Got("file", n)' /\ Got("first", n)'
      BY <2>4
    <2>8. Underway(t, n)'
      BY <1>1, <2>3, <2>5, <2>6, <2>7 DEF Underway
    <2> QED
      BY <2>1, <2>8
  <1> QED
    BY <1>1, <1>3, <1>6, <1>7, Working

LEMMA FlushGivesUp ==
    ASSUME Types, Delivered, NEW t \in Threads, FlushThrows(t)
    PROVE  Delivered'
  <1> DEFINE ms == Members(Sinks[job[t].at])
             part(k) == SubSeq(ms, 1, k - 1)
  <1>1. /\ pc[t] = "flush" /\ pc'[t] = "handle"
        /\ \A u \in Threads \ {t} : pc'[u] = pc[u]
        /\ UNCHANGED <<members, sink_level, written, handled, msgs, job>>
    BY DEF FlushThrows, Go, Types, logVars
  <1>2. PICK k \in DOMAIN ms :
           flushed' = [s \in Leaves |-> IF Times(part(k), s) > 0 THEN Len(written[s])
                                        ELSE flushed[s]]
    BY DEF FlushThrows
  <1>3. job[t].at \in 1..Len(Sinks)
    BY <1>1, Place DEF FlushThrows
  <1>4. ms \in Seq(Leaves)
    BY <1>3, MembersAre DEF Delivered
  <1> HIDE DEF ms
  <1>5. Stored' /\ Grows
    <2>1. part(k) \in Seq(Leaves)
      BY <1>4, SomeMembers
    <2> HIDE DEF part
    <2> QED
      BY <1>1, <1>2, <2>1, Flushes DEF Delivered
  <1>6. ASSUME NEW n \in Nat \ {0}, Carries(t, n)' PROVE Carries(t, n) /\ Underway(t, n)'
    BY <1>1, <1>6, GivingUp DEF Logging
  <1>7. AtSink(t)'
    BY <1>1 DEF AtSink
  <1> QED
    BY <1>1, <1>5, <1>6, <1>7, Working

\* All sinks have been given the message, or have been flushed.
LEMMA AllSunk ==
    ASSUME Types, Delivered, NEW t \in Threads, Sunk(t)
    PROVE  Delivered'
  <1>1. /\ pc[t] = "sink" /\ job[t].at > 2 /\ SameStore /\ UNCHANGED members
    BY DEF Sunk, Sinks, sinkVars, SameStore
  <1>2. Stored' /\ Grows
    BY <1>1, Stays DEF Delivered
  <1>3. ASSUME NEW n \in Nat \ {0}, Carries(t, n)
        PROVE  /\ n \in 1..Len(msgs) /\ ~msgs[n].over /\ ~msgs[n].urgent
               /\ Got("file", n) /\ Got("first", n) /\ n = job[t].n
    <2>1. Underway(t, n) /\ job[t].at > 1 /\ n = job[t].n
      BY <1>1, <1>3, Carrying DEF Carries, Types, JobType
    <2> QED
      BY <1>1, <2>1 DEF Underway
  <1>4. CASE Return(t)
    <2>1. \A n \in 1..Len(msgs) : n \in Nat \ {0}
      BY LenProperties DEF Types
    <2>2. \A n \in 1..Len(msgs) : Carries(t, n) =>
             \A s \in {"file", "first"} : Got(s, n) /\ (msgs[n].urgent => Safe(s, n))
      BY <1>3, <2>1
    <2>3. pc[t] \in Logging
      BY <1>1 DEF Logging
    <2> QED
      BY <1>2, <1>4, <2>2, <2>3, Ends
  <1>5. CASE /\ Go(t, "flush") /\ job' = [job EXCEPT ![t].at = 1]
             /\ msgs' = [msgs EXCEPT ![job[t].n].urgent = TRUE]
    <2>1. PICK m \in Nat : m = job[t].n
      BY DEF Types, JobType
    <2>2. /\ msgs \in Seq(MsgType) /\ DOMAIN msgs = 1..Len(msgs)
          /\ \A n \in 1..Len(msgs) : msgs[n] \in MsgType
          /\ Len(msgs) \in Nat
      BY LenProperties DEF Types
    <2>3. msgs' = [msgs EXCEPT ![m].urgent = TRUE]
      BY <1>5, <2>1
    <2>4. DOMAIN msgs' = 1..Len(msgs) /\ msgs' \in Seq(MsgType)
      BY <2>2, <2>3, Over
    <2>5. Len(msgs') = Len(msgs)
      BY <2>2, <2>4, LenProperties
    <2>6. \A n \in 1..Len(msgs) : n # m => msgs'[n] = msgs[n]
      BY <2>2, <2>3
    <2>7. \A n \in 1..Len(msgs) : /\ msgs'[n].level = msgs[n].level
                                  /\ msgs'[n].over = msgs[n].over
      BY <2>2, <2>3 DEF MsgType
    <2>8. /\ pc'[t] = "flush" /\ job'[t].n = m /\ job'[t].at = 1
          /\ \A u \in Threads \ {t} : pc'[u] = pc[u] /\ job'[u] = job[u]
      BY <1>5, <2>1 DEF Go, Types, JobType
    <2>9. Carries(t, m) /\ \A n : (Carries(t, n)' => n = m)
      BY <1>1, <2>1, <2>8 DEF Carries, Logging
    <2>10. ASSUME NEW n \in Nat \ {0}, Carries(t, n)'
           PROVE  Underway(t, n)' /\ Carries(t, n)
      <3>1. n = m /\ Carries(t, n)
        BY <2>9, <2>10
      <3>2. /\ n \in 1..Len(msgs) /\ ~msgs[n].over
            /\ Got("file", n) /\ Got("first", n)
        BY <1>3, <3>1
      <3>3. \A s \in {"file", "first"} : s \in Leaves
        BY DEF Leaves
      <3>4. \A s \in {"file", "first"} : Got(s, n) => Got(s, n)'
        BY <1>2, <2>7, <3>2, <3>3, Persists DEF Delivered
      <3>5. Got("file", n)' /\ Got("first", n)'
        BY <3>2, <3>4
      <3>6. n \in 1..Len(msgs') /\ ~msgs'[n].over
        BY <2>5, <2>7, <3>2
      <3>7. Underway(t, n)'
        BY <2>8, <3>5, <3>6 DEF Underway
      <3> QED
        BY <3>1, <3>7
    <2>11. \A n \in 1..Len(msgs) : /\ n \in 1..Len(msgs') /\ msgs'[n].level = msgs[n].level
                                   /\ msgs'[n] = msgs[n] \/ Carries(t, n)
      BY <2>5, <2>6, <2>7, <2>9
    <2>12. \A n \in 1..Len(msgs') :
              n \in 1..Len(msgs) \/ (n = Len(msgs) + 1 /\ ~msgs'[n].over)
      BY <2>5
    <2>13. ASSUME NEW n \in 1..Len(msgs), Carries(t, n), msgs'[n].over PROVE FALSE
      <3>1. n \in Nat \ {0}
        BY <2>2
      <3> QED
        BY <1>3, <2>7, <2>13, <3>1
    <2>14. \A n \in 1..Len(msgs) : Carries(t, n) /\ msgs'[n].over => Reported(n)'
      BY <2>13
    <2>15. AtSink(t)'
      BY <2>8 DEF AtSink
    <2>16. \A n \in Nat \ {0} : Carries(t, n)' =>
              Underway(t, n)' /\ (Carries(t, n) \/ n = Len(msgs) + 1)
      BY <2>10
    <2> QED
      BY <1>2, <2>2, <2>8, <2>11, <2>12, <2>14, <2>15, <2>16, OneMoves
  <1> QED
    BY <1>4, <1>5 DEF Sunk

LEMMA AllFlushed ==
    ASSUME Types, Delivered, NEW t \in Threads, Flushed(t)
    PROVE  Delivered'
  <1>1. /\ pc[t] = "flush" /\ job[t].at > 2 /\ SameStore /\ UNCHANGED members /\ Return(t)
    BY DEF Flushed, Sinks, sinkVars, SameStore
  <1>2. Stored' /\ Grows
    BY <1>1, Stays DEF Delivered
  <1>3. ASSUME NEW n \in 1..Len(msgs), Carries(t, n)
        PROVE  \A s \in {"file", "first"} : Got(s, n) /\ Safe(s, n)
    <2>1. n \in Nat \ {0}
      BY LenProperties DEF Types
    <2>2. Underway(t, n) /\ job[t].at > 1
      BY <1>1, <1>3, <2>1, Carrying DEF Types, JobType
    <2> QED
      BY <1>1, <2>2 DEF Underway
  <1>4. pc[t] \in Logging
    BY <1>1 DEF Logging
  <1> QED
    BY <1>1, <1>2, <1>3, <1>4, Ends

LEMMA Handles ==
    ASSUME Types, Delivered, NEW t \in Threads,
           HandleOtherwise(t) \/ LookAtTime(t) \/ SetErrorTime(t) \/ PrintError(t)
    PROVE  Delivered'
  <1>1. /\ SameStore /\ UNCHANGED members /\ pc[t] \in {"handle", "set", "print"}
        /\ pc[t] = "handle" => handled' = handled \cup {job[t].n}
    BY DEF HandleOtherwise, LookAtTime, SetErrorTime, PrintError, sinkVars, logVars,
           SameStore
  <1>2. Stored' /\ Grows
    BY <1>1, Stays DEF Delivered
  <1>3. \A n \in Nat \ {0} : Carries(t, n) => n \in handled'
    <2> TAKE n \in Nat \ {0}
    <2>1. CASE pc[t] = "handle"
      BY <1>1, <2>1 DEF Carries
    <2>2. CASE pc[t] \in {"set", "print"}
      BY <1>2, <2>2, Carrying DEF Underway, Grows
    <2> QED
      BY <1>1, <2>1, <2>2
  <1>4. CASE Return(t)
    <2>1. \A n \in 1..Len(msgs) : n \in Nat \ {0}
      BY LenProperties DEF Types
    <2>2. \A n \in 1..Len(msgs) : Carries(t, n) => n \in handled'
      BY <1>3, <2>1
    <2>3. pc[t] \in Logging
      BY <1>1 DEF Logging
    <2> QED
      BY <1>2, <1>4, <2>2, <2>3, Ends
  <1>5. CASE /\ (Go(t, "set") \/ Go(t, "print")) /\ msgs' = msgs
             /\ (job' = job \/ job' = [job EXCEPT ![t].at = time])
    <2>1. /\ pc'[t] \in {"set", "print"} /\ job'[t].n = job[t].n
          /\ \A u \in Threads \ {t} : pc'[u] = pc[u] /\ job'[u] = job[u]
      BY <1>5 DEF Go, Types, JobType
    <2>2. ASSUME NEW n \in Nat \ {0}, Carries(t, n)' PROVE Carries(t, n) /\ Underway(t, n)'
      <3>1. Carries(t, n)
        BY <1>1, <2>1, <2>2 DEF Carries, Logging
      <3>2. n \in 1..Len(msgs) /\ ~msgs[n].over /\ n \in handled'
        BY <1>3, <3>1, Carrying DEF Underway
      <3>3. Underway(t, n)'
        BY <1>5, <2>1, <3>2 DEF Underway
      <3> QED
        BY <3>1, <3>3
    <2>3. AtSink(t)'
      BY <2>1 DEF AtSink
    <2> QED
      BY <1>2, <1>5, <2>1, <2>2, <2>3, Working
  <1> QED
    BY <1>4, <1>5 DEF HandleOtherwise, LookAtTime, SetErrorTime, PrintError, logVars

\* Steps that have to do with no message.
LEMMA Aside ==
    ASSUME Types, Delivered, NEW t \in Threads, SameStore, UNCHANGED <<members, msgs>>,
           \A u \in Threads \ {t} : pc'[u] = pc[u] /\ job'[u] = job[u],
           pc'[t] \in {"idle", "handlers"} \/ (job'[t].n = 0 /\ job'[t].at = 1)
    PROVE  Delivered'
  <1>1. Stored' /\ Grows
    BY Stays DEF Delivered
  <1>2. AtSink(t)' /\ \A n \in Nat \ {0} : ~Carries(t, n)'
    BY DEF AtSink, Carries, Logging
  <1> QED
    BY <1>1, <1>2, Working

-----------------------------------------------------------------------------
(* Removing a member, by induction over the members.                        *)

LEMMA Least ==
    ASSUME NEW T \in SUBSET Nat, T # {}
    PROVE  \E x \in T : \A y \in T : x <= y
  <1> DEFINE R == OpToRel(<, Nat)
  <1>1. IsWellFoundedOn(R, Nat)
    BY NatLessThanWellFounded
  <1>2. \A x, y \in Nat : y < x => <<y, x>> \in R
    BY DEF OpToRel
  <1> HIDE DEF R
  <1>3. PICK x \in T : \A y \in T : ~(<<y, x>> \in R)
    BY <1>1, WFMin
  <1>4. ASSUME NEW y \in T PROVE x <= y
    <2>1. ~(y < x) /\ x \in Nat /\ y \in Nat
      BY <1>2, <1>3, Zenon
    <2> QED
      BY <2>1
  <1> QED
    BY <1>4

LEMMA Induction ==
    ASSUME NEW S, 0 \in S, \A n \in Nat : n \in S => n + 1 \in S
    PROVE  Nat \subseteq S
  <1> SUFFICES ASSUME Nat \ S # {} PROVE FALSE
    OBVIOUS
  <1>1. PICK x \in Nat \ S : \A y \in Nat \ S : x <= y
    BY Least
  <1>2. x # 0 /\ x - 1 \in Nat /\ x - 1 \in S
    BY <1>1
  <1> QED
    BY <1>1, <1>2

Sequences == Seq({"first", "second"})
\* f has what is left of the first 0, 1, ... and n members.
Left(f, ms, m, n) ==
    /\ f \in [0..n -> Sequences] /\ f[0] = <<>>
    /\ \A i \in 1..n : f[i] = IF ms[i] = m THEN f[i - 1] ELSE Append(f[i - 1], ms[i])

LEMMA LeftExists ==
    ASSUME NEW ms \in Sequences, NEW m
    PROVE  \E f : Left(f, ms, m, Len(ms))
  <1> DEFINE S == {n \in Nat : n <= Len(ms) => \E f : Left(f, ms, m, n)}
  <1>0. Len(ms) \in Nat /\ \A i \in 1..Len(ms) : ms[i] \in {"first", "second"}
    BY LenProperties, ElementOfSeq DEF Sequences
  <1>1. 0 \in S
    <2>1. Left([i \in 0..0 |-> <<>>], ms, m, 0)
      BY DEF Left, Sequences
    <2> QED
      BY <2>1
  <1>2. ASSUME NEW n \in Nat, n \in S PROVE n + 1 \in S
    <2> SUFFICES ASSUME n + 1 <= Len(ms) PROVE \E f : Left(f, ms, m, n + 1)
      OBVIOUS
    <2>1. n <= Len(ms) /\ n + 1 \in 1..Len(ms) /\ n \in 0..n
      BY <1>0
    <2>2. PICK f : Left(f, ms, m, n)
      BY <1>2, <2>1
    <2> DEFINE z == IF ms[n + 1] = m THEN f[n] ELSE Append(f[n], ms[n + 1])
               g == [i \in 0..(n + 1) |-> IF i = n + 1 THEN z ELSE f[i]]
    <2>3. z \in Sequences
      <3>1. f[n] \in Sequences /\ ms[n + 1] \in {"first", "second"}
        BY <1>0, <2>1, <2>2 DEF Left
      <3> QED
        BY <3>1, AppendProperties DEF Sequences
    <2>4. g[n + 1] = z /\ \A i \in 0..n : g[i] = f[i]
      OBVIOUS
    <2>5. g \in [0..(n + 1) -> Sequences]
      <3> HIDE DEF z
      <3> QED
        BY <2>2, <2>3 DEF Left
    <2> HIDE DEF g
    <2>6. ASSUME NEW i \in 1..(n + 1)
          PROVE  g[i] = IF ms[i] = m THEN g[i - 1] ELSE Append(g[i - 1], ms[i])
      <3>1. CASE i = n + 1
        <4>1. i - 1 = n /\ g[n] = f[n]
          BY <2>1, <2>4, <3>1
        <4> QED
          BY <2>4, <3>1, <4>1
      <3>2. CASE i # n + 1
        <4>1. i \in 1..n /\ g[i] = f[i] /\ g[i - 1] = f[i - 1]
          BY <2>4, <3>2
        <4> QED
          BY <2>2, <4>1 DEF Left
      <3> QED
        BY <3>1, <3>2
    <2>7. g[0] = <<>>
      BY <2>2, <2>4 DEF Left
    <2> QED
      BY <2>5, <2>6, <2>7 DEF Left
  <1> HIDE DEF S
  <1>3. Nat \subseteq S
    BY <1>1, <1>2, Induction
  <1> QED
    BY <1>0, <1>3 DEF S

LEMMA RemovedIs ==
    ASSUME NEW ms \in Sequences, NEW m
    PROVE  \E f : Left(f, ms, m, Len(ms)) /\ Removed(ms, m) = f[Len(ms)]
  <1> DEFINE G(f) == [i \in 0..Len(ms) |->
                       IF i = 0 THEN <<>>
                       ELSE IF ms[i] = m THEN f[i - 1] ELSE Append(f[i - 1], ms[i])]
             h == CHOOSE f : f = G(f)
  <1>0. Len(ms) \in Nat
    BY LenProperties DEF Sequences
  <1>1. PICK f : Left(f, ms, m, Len(ms))
    BY LeftExists
  <1>2. f = G(f)
    <2>1. ASSUME NEW i \in 0..Len(ms) PROVE f[i] = G(f)[i]
      <3>1. G(f)[i] = IF i = 0 THEN <<>>
                      ELSE IF ms[i] = m THEN f[i - 1] ELSE Append(f[i - 1], ms[i])
        OBVIOUS
      <3>2. CASE i = 0
        BY <1>1, <3>1, <3>2 DEF Left
      <3>3. CASE i # 0
        <4>1. i \in 1..Len(ms)
          BY <1>0, <3>3
        <4>2. f[i] = IF ms[i] = m THEN f[i - 1] ELSE Append(f[i - 1], ms[i])
          BY <1>1, <4>1 DEF Left
        <4> QED
          BY <3>1, <3>3, <4>2
      <3> QED
        BY <3>2, <3>3
    <2>2. f \in [0..Len(ms) -> Sequences] /\ DOMAIN G(f) = 0..Len(ms)
      BY <1>1 DEF Left
    <2> QED
      BY <2>1, <2>2
  <1>3. h = G(h)
    BY <1>2
  <1>4. Removed(ms, m) = h[Len(ms)]
    BY DEF Removed
  <1> HIDE DEF h
  <1>5. /\ h[0] = <<>>
        /\ \A i \in 1..Len(ms) : h[i] = IF ms[i] = m THEN h[i - 1] ELSE Append(h[i - 1], ms[i])
    <2>1. \A i \in 0..Len(ms) :
             h[i] = IF i = 0 THEN <<>>
                    ELSE IF ms[i] = m THEN h[i - 1] ELSE Append(h[i - 1], ms[i])
      BY <1>3
    <2>2. 0 \in 0..Len(ms) /\ \A i \in 1..Len(ms) : i \in 0..Len(ms) /\ i # 0
      BY <1>0
    <2> QED
      BY <2>1, <2>2
  <1> DEFINE S == {i \in Nat : i <= Len(ms) => f[i] = h[i]}
  <1>6. 0 \in S
    BY <1>1, <1>5 DEF Left
  <1>7. ASSUME NEW i \in Nat, i \in S PROVE i + 1 \in S
    <2> SUFFICES ASSUME i + 1 <= Len(ms) PROVE f[i + 1] = h[i + 1]
      OBVIOUS
    <2>1. i + 1 \in 1..Len(ms) /\ (i + 1) - 1 = i /\ f[i] = h[i]
      BY <1>0, <1>7
    <2> QED
      BY <1>1, <1>5, <2>1 DEF Left
  <1> HIDE DEF S
  <1>8. Nat \subseteq S
    BY <1>6, <1>7, Induction
  <1>9. f[Len(ms)] = h[Len(ms)]
    BY <1>0, <1>8 DEF S
  <1> QED
    BY <1>1, <1>4, <1>9

\* The first member is still the first when others are removed.
LEMMA FirstStays ==
    ASSUME NEW ms \in Sequences, NEW m, Len(ms) >= 1, ms[1] # m
    PROVE  /\ Removed(ms, m) \in Sequences /\ Len(Removed(ms, m)) >= 1
           /\ Removed(ms, m)[1] = ms[1]
  <1>0. Len(ms) \in Nat /\ \A i \in 1..Len(ms) : ms[i] \in {"first", "second"}
    BY LenProperties, ElementOfSeq DEF Sequences
  <1>1. PICK f : Left(f, ms, m, Len(ms)) /\ Removed(ms, m) = f[Len(ms)]
    BY RemovedIs
  <1> DEFINE S == {i \in Nat : i + 1 <= Len(ms) => Len(f[i + 1]) >= 1 /\ f[i + 1][1] = ms[1]}
  <1>2. \A i \in 0..Len(ms) : f[i] \in Sequences
    BY <1>1 DEF Left
  <1>3. 0 \in S
    <2>1. 1 \in 1..Len(ms) /\ 1 - 1 = 0 /\ f[0] = <<>>
      BY <1>0, <1>1 DEF Left
    <2>2. f[1] = Append(<<>>, ms[1])
      BY <1>1, <2>1 DEF Left
    <2>3. f[1] = <<ms[1]>>
      BY <2>2
    <2> QED
      BY <2>3
  <1>4. ASSUME NEW i \in Nat, i \in S PROVE i + 1 \in S
    <2> SUFFICES ASSUME (i + 1) + 1 <= Len(ms)
                 PROVE  Len(f[(i + 1) + 1]) >= 1 /\ f[(i + 1) + 1][1] = ms[1]
      OBVIOUS
    <2> DEFINE j == i + 1
    <2>1. j \in 0..Len(ms) /\ j + 1 \in 1..Len(ms) /\ (j + 1) - 1 = j
      BY <1>0
    <2>2. Len(f[j]) >= 1 /\ f[j][1] = ms[1] /\ f[j] \in Sequences
      BY <1>0, <1>2, <1>4, <2>1
    <2>3. f[j + 1] = IF ms[j + 1] = m THEN f[j] ELSE Append(f[j], ms[j + 1])
      BY <1>1, <2>1 DEF Left
    <2> HIDE DEF j
    <2>4. /\ Len(Append(f[j], ms[j + 1])) = Len(f[j]) + 1
          /\ Append(f[j], ms[j + 1])[1] = f[j][1] /\ Len(f[j]) \in Nat
      <3>1. ms[j + 1] \in {"first", "second"}
        BY <1>0, <2>1
      <3>2. Len(f[j]) \in Nat /\ 1 \in 1..Len(f[j])
        BY <2>2, LenProperties DEF Sequences
      <3> QED
        BY <2>2, <3>1, <3>2, AppendProperties DEF Sequences
    <2>5. Len(f[j + 1]) >= 1 /\ f[j + 1][1] = ms[1]
      BY <2>2, <2>3, <2>4
    <2> QED
      BY <2>5 DEF j
  <1> HIDE DEF S
  <1>5. Nat \subseteq S
    BY <1>3, <1>4, Induction
  <1>6. Len(ms) - 1 \in S /\ (Len(ms) - 1) + 1 = Len(ms)
    BY <1>0, <1>5
  <1>7. Len(f[Len(ms)]) >= 1 /\ f[Len(ms)][1] = ms[1]
    BY <1>0, <1>6 DEF S
  <1> QED
    BY <1>0, <1>1, <1>2, <1>7

LEMMA Removes ==
    ASSUME Types, Delivered, NEW t \in Threads, remove_sink(t)
    PROVE  Delivered'
  <1>1. /\ members' = Removed(members, "second")
        /\ UNCHANGED <<written, flushed, sink_level, handled, msgs, pc, job>>
    BY DEF remove_sink, logVars
  <1>2. members \in Sequences /\ Len(members) >= 1 /\ members[1] = "first"
    BY DEF Delivered, Stored, Sequences
  <1>3. members' \in Sequences /\ Len(members') >= 1 /\ members'[1] = "first"
    BY <1>1, <1>2, FirstStays
  <1>4. Stored'
    BY <1>1, <1>3 DEF Delivered, Stored, Sequences
  <1> QED
    BY <1>1, <1>4, Elsewhere

-----------------------------------------------------------------------------
LEMMA InitDelivered == Init => Delivered
  <1> SUFFICES ASSUME Init PROVE Delivered
    OBVIOUS
  <1>1. /\ members = <<"first">> /\ msgs = <<>>
        /\ written = [s \in Leaves |-> <<>>] /\ flushed = [s \in Leaves |-> 0]
        /\ \A t \in Threads : pc[t] = "idle"
    BY DEF Init
  <1>2. Stored
    BY <1>1 DEF Stored
  <1> QED
    BY <1>1, <1>2 DEF Delivered, AtSink, Carries, Logging

LEMMA StepDelivered == Types /\ Delivered /\ [Next]_vars => Delivered'
  <1> SUFFICES ASSUME Types, Delivered, [Next]_vars PROVE Delivered'
    OBVIOUS
  <1> USE DEF sinkVars, logVars
  <1>1. ASSUME UNCHANGED <<sinkVars, msgs, handled, pc, job>> PROVE Delivered'
    BY <1>1, Elsewhere DEF Delivered, Stored
  <1>2. CASE Tick \/ UNCHANGED vars
    BY <1>1, <1>2 DEF Tick, vars
  <1>3. ASSUME NEW t \in Threads, NEW n \in Names,
               Create(t, n) \/ create_async(t, n) \/ register_logger(t, n)
        PROVE  Delivered'
    BY <1>1, <1>3 DEF Create, create_async, CreateAs, register_logger
  <1>4. ASSUME NEW t \in Threads, NEW ns, drop(t, ns) PROVE Delivered'
    BY <1>1, <1>4 DEF drop
  <1>5. ASSUME NEW t \in Threads, NEW s, NEW v,
               SetAll(t, s, v) \/ \E id \in DOMAIN loggers : SetOwn(t, id, s, v)
        PROVE  Delivered'
    BY <1>1, <1>5 DEF SetAll, SetOwn
  <1>6. ASSUME NEW t \in Threads,
               \/ \E async \in BOOLEAN : SetMode(t, async)
               \/ \E v \in Levels : apply_all(t, v)
        PROVE  Delivered'
    BY <1>1, <1>6 DEF SetMode, apply_all
  <1>7. ASSUME NEW t \in Threads,
               \/ \E h \in Values.err_handler : set_error_handler(t, h)
               \/ SetNextHandler(t) \/ LastHandlerSet(t)
        PROVE  Delivered'
    <2>1. SameStore /\ UNCHANGED <<members, msgs>>
      BY <1>7 DEF set_error_handler, SetNextHandler, LastHandlerSet, SameStore
    <2>2. /\ \A u \in Threads \ {t} : pc'[u] = pc[u] /\ job'[u] = job[u]
          /\ pc'[t] \in {"idle", "handlers"}
      BY <1>7 DEF set_error_handler, SetNextHandler, LastHandlerSet, Types
    <2> QED
      BY <2>1, <2>2, Aside
  <1>8. ASSUME NEW t \in Threads, NEW id \in DOMAIN loggers, flush(t, id)
        PROVE  Delivered'
    <2>1. SameStore /\ UNCHANGED <<members, msgs>>
      BY <1>8 DEF flush, SameStore
    <2>2. /\ \A u \in Threads \ {t} : pc'[u] = pc[u] /\ job'[u] = job[u]
          /\ job'[t].n = 0 /\ job'[t].at = 1
      BY <1>8 DEF flush, Go, NoJob, Types
    <2> QED
      BY <2>1, <2>2, Aside
  <1>9. ASSUME NEW t \in Threads, NEW id \in DOMAIN loggers, NEW level \in Levels,
               Log(t, id, level)
        PROVE  Delivered'
    <2>1. id \in Nat
      BY LenProperties DEF Types
    <2> QED
      BY <1>9, <2>1, Begins
  <1>10. ASSUME NEW t \in Threads, Sinking(t) \/ LookAtTime(t) \/ SetErrorTime(t) \/ PrintError(t)
         PROVE  Delivered'
    BY <1>10, Formats, SinkTakes, SinkGivesUp, AllSunk, SinkIsFlushed, FlushGivesUp,
       AllFlushed, Handles DEF Sinking
  <1>11. ASSUME NEW t \in Threads, add_sink(t) \/ remove_sink(t) PROVE Delivered'
    BY <1>11, AddsOne, Removes
  <1> QED
    BY <1>2, <1>3, <1>4, <1>5, <1>6, <1>7, <1>8, <1>9, <1>10, <1>11 DEF Next, Sinking

(* When log() is over, an error handler was told, or the message is in the   *)
(* file and in the member that stands first in the dist_sink, unless below   *)
(* their levels, and flushed if it is urgent: whatever throws on the way,    *)
(* however many threads log, and while members come and go.                  *)
(* (logger_impl.h, _sink_it; dist_sink.h)                                    *)
THEOREM Reporting == Spec => []EveryMissReported
  <1>1. Types /\ Delivered => EveryMissReported
    <2> SUFFICES ASSUME Types, Delivered, NEW n \in DOMAIN msgs, msgs[n].over,
                        n \notin handled, NEW s \in {"file", "first"}, Lets(s, n)
                 PROVE  /\ In(s, n)
                        /\ msgs[n].urgent => \E i \in 1..flushed[s] : written[s][i] = n
      BY DEF EveryMissReported
    <2>1. n \in 1..Len(msgs)
      BY LenProperties DEF Types
    <2>2. Reported(n)
      BY <2>1 DEF Delivered
    <2> QED
      BY <2>2 DEF Reported, Got, Safe
  <1>2. Spec => []Delivered
    <2>1. Inv /\ Inv' /\ Delivered /\ [Next]_vars => Delivered'
      BY StepDelivered DEF Inv
    <2> QED
      BY <2>1, Invariant, InitDelivered, PTL DEF Spec
  <1>3. Inv => Types
    BY DEF Inv
  <1> QED
    BY <1>1, <1>2, <1>3, Invariant, PTL
=============================================================================
