------------------------------ MODULE Loggers ------------------------------
(***************************************************************************)
(* spdlog's registry of loggers (details/registry.h, spdlog_impl.h) and    *)
(* the synchronous logger (details/logger_impl.h) with the sinks it hands  *)
(* its messages to.  What runs with the registry's or a sink's mutex held  *)
(* is one step.  A logger is known by its place in loggers, so that one    *)
(* dropped from the registry goes on being used by whoever holds it.       *)
(***************************************************************************)
EXTENDS Naturals, Sequences, FiniteSets

CONSTANTS Threads, Names,
          Levels,       \* some of level_enum, off among them
          Window,       \* a minute
          MaxCalls,     \* bound: calls of the threads
          MaxFaults,    \* bound: exceptions of the formatter and the sinks
          MaxTime       \* bound: the clock
ASSUME LoggerAssumption ==
    /\ Levels \subseteq 0..6 /\ {2, 6} \subseteq Levels
    /\ Window \in Nat \ {0} /\ MaxCalls \in Nat /\ MaxTime \in Nat

trace == 0  info == 2  off == 6

\* What can be set of a logger, globally or for one; the formatter is set
\* the way the levels are.
Values == [level |-> Levels, flush_level |-> Levels,
           err_handler |-> {"default", "other"}]
Settings == DOMAIN Values

Sinks == <<"file", "dist">>     \* _sinks, of every logger
Leaves == {"file", "first", "second"}

VARIABLES
    registered, \* registry_t::_loggers: name -> logger, 0 if there is none
    loggers,    \* the loggers made so far
    globals,    \* what loggers to come are given
    members,    \* dist_sink::_sinks
    sink_level, \* [Leaves -> Levels], fixed in Init
    written,    \* [Leaves -> the messages taken]
    flushed,    \* [Leaves -> how many of them are flushed]
    msgs,       \* the messages logged, by number
    time,
    pc,
    job,        \* what each thread is logging or setting
    handled,    \* the messages an error handler was told of
    errors,     \* what the default handlers did: printed or not, and when
    calls, faults,
    raced       \* set_error_handler() has met another access: undefined

registryVars == <<registered, loggers, globals>>
sinkVars == <<members, sink_level, written, flushed>>
logVars == <<msgs, handled, errors>>
vars == <<registryVars, sinkVars, logVars, time, pc, job, calls, faults, raced>>

\* The settings of a logger as its constructor makes it.
Plain == [level |-> info, flush_level |-> off, err_handler |-> "default"]
NewLogger(settings, own) ==
    [set |-> settings, own |-> own, async |-> FALSE, last_err |-> 0]

NoJob == [n |-> 0, id |-> 0, at |-> 1, handler |-> "default", todo |-> {}]

Init == \* The program has made one before main() starts.
        /\ loggers = <<NewLogger(Plain, {})>>
        /\ \E n \in Names : registered = [m \in Names |-> IF m = n THEN 1 ELSE 0]
        /\ globals = [set |-> Plain, async |-> FALSE]
        /\ members = <<"first">>
        /\ \E v \in {trace, info + 1} :
              sink_level = [s \in Leaves |-> IF s = "file" THEN v ELSE trace]
        /\ written = [s \in Leaves |-> <<>>] /\ flushed = [s \in Leaves |-> 0]
        /\ msgs = <<>> /\ handled = {} /\ errors = <<>>
        /\ time = Window /\ calls = 0 /\ faults = 0 /\ raced = FALSE
        /\ pc = [t \in Threads |-> "idle"]
        /\ job = [t \in Threads |-> NoJob]

Call(t) == pc[t] = "idle" /\ calls < MaxCalls /\ calls' = calls + 1
Iterating == \E t \in Threads : pc[t] = "handlers"
Registered == {registered[n] : n \in Names} \ {0}

-----------------------------------------------------------------------------
(* The registry.                                                            *)

\* throw_if_exists(name): the exception reaches the caller.
Throws(n) == registered[n] # 0

Enter(n, logger) == /\ loggers' = Append(loggers, logger)
                    /\ registered' = [registered EXCEPT ![n] = Len(loggers')]

\* (Mutant: without the global settings.)
CreateAsPlain(t, n, async) ==
    /\ Call(t) /\ ~Throws(n) /\ Enter(n, [NewLogger(Plain, {}) EXCEPT !.async = async])
    /\ UNCHANGED <<globals, sinkVars, logVars, time, pc, job, faults, raced>>

\* create(): the global settings, and whether the mode is asynchronous.
CreateAs(t, n, async) ==
    /\ Call(t)
    /\ IF Throws(n) THEN UNCHANGED registryVars /\ raced' = raced
       ELSE /\ Enter(n, [NewLogger(globals.set, {}) EXCEPT !.async = async])
            /\ raced' = (raced \/ Iterating)
            /\ globals' = globals
    /\ UNCHANGED <<sinkVars, logVars, time, pc, job, faults>>
Create(t, n) == CreateAs(t, n, globals.async)
create_async(t, n) == CreateAs(t, n, TRUE)

\* register_logger(): a logger made elsewhere comes with settings of its own.
register_logger(t, n) ==
    /\ Call(t)
    /\ IF Throws(n) THEN UNCHANGED registryVars /\ raced' = raced
       ELSE /\ Enter(n, NewLogger(Plain, Settings))
            /\ raced' = (raced \/ Iterating)
            /\ globals' = globals
    /\ UNCHANGED <<sinkVars, logVars, time, pc, job, faults>>

\* drop() of one, drop_all() of every name.
drop(t, ns) == /\ Call(t)
               /\ registered' = [n \in Names |-> IF n \in ns THEN 0 ELSE registered[n]]
               /\ raced' = (raced \/ (registered' # registered /\ Iterating))
               /\ UNCHANGED <<loggers, globals, sinkVars, logVars, time, pc, job, faults>>

\* A setting of some loggers, which is (own) or is not the global one.
With(ids, s, v, own) ==
    [id \in DOMAIN loggers |->
        IF id \in ids
        THEN [loggers[id] EXCEPT !.set[s] = v,
                !.own = IF own THEN @ \cup {s} ELSE @ \ {s}]
        ELSE loggers[id]]

\* set_level() and flush_on() for all.
SetAll(t, s, v) ==
    /\ Call(t) /\ s # "err_handler"
    /\ loggers' = With(Registered, s, v, FALSE)
    /\ globals' = [globals EXCEPT !.set[s] = v]
    /\ UNCHANGED <<registered, sinkVars, logVars, time, pc, job, faults, raced>>

SetMode(t, async) ==
    /\ Call(t)
    /\ globals' = [globals EXCEPT !.async = async]
    /\ UNCHANGED <<registered, loggers, sinkVars, logVars, time, pc, job, faults, raced>>

\* apply_all() of a function that sets the level.
apply_all(t, v) ==
    /\ Call(t)
    /\ loggers' = With(Registered, "level", v, TRUE)
    /\ UNCHANGED <<registered, globals, sinkVars, logVars, time, pc, job, faults, raced>>

\* set_error_handler() for all goes through the loggers without the mutex.
set_error_handler(t, h) ==
    /\ Call(t)
    /\ pc' = [pc EXCEPT ![t] = "handlers"]
    /\ job' = [job EXCEPT ![t].todo = Registered, ![t].handler = h]
    /\ raced' = (raced \/ Iterating)
    /\ UNCHANGED <<registryVars, sinkVars, logVars, time, faults>>

Handling(id) == \E u \in Threads : /\ pc[u] \in {"handle", "set", "print"}
                                 /\ job[u].id = id

SetNextHandler(t) ==
    /\ pc[t] = "handlers"
    /\ \E id \in job[t].todo :
          /\ loggers' = With({id}, "err_handler", job[t].handler, FALSE)
          /\ job' = [job EXCEPT ![t].todo = @ \ {id}]
          /\ raced' = (raced \/ Handling(id))
    /\ UNCHANGED <<registered, globals, sinkVars, logVars, time, pc, calls, faults>>

LastHandlerSet(t) ==
    /\ pc[t] = "handlers" /\ job[t].todo = {}
    /\ globals' = [globals EXCEPT !.set["err_handler"] = job[t].handler]
    /\ pc' = [pc EXCEPT ![t] = "idle"] /\ job' = [job EXCEPT ![t] = NoJob]
    /\ UNCHANGED <<registered, loggers, sinkVars, logVars, time, calls, faults, raced>>

-----------------------------------------------------------------------------
(* One logger.                                                              *)

\* set_level(), flush_on() and set_error_handler() of one.
SetOwn(t, id, s, v) ==
    /\ Call(t)
    /\ loggers' = With({id}, s, v, TRUE)
    /\ raced' = (raced \/ (s = "err_handler" /\ (Iterating \/ Handling(id))))
    /\ UNCHANGED <<registered, globals, sinkVars, logVars, time, pc, job, faults>>

should_log(id, level) == level >= loggers[id].set.level
should_flush_on(id, level) == level >= loggers[id].set.flush_level /\ level # off

Log(t, id, level) ==
    /\ Call(t) /\ ~loggers[id].async
    /\ IF should_log(id, level)
       THEN /\ msgs' = Append(msgs, [level |-> level, urgent |-> FALSE, over |-> FALSE])
            /\ job' = [job EXCEPT ![t] = [NoJob EXCEPT !.n = Len(msgs'), !.id = id]]
            /\ pc' = [pc EXCEPT ![t] = "format"]
       ELSE UNCHANGED <<msgs, job, pc>>
    /\ UNCHANGED <<registryVars, sinkVars, handled, errors, time, faults, raced>>

Fault == faults < MaxFaults /\ faults' = faults + 1
Go(t, where) == pc' = [pc EXCEPT ![t] = where]
Return(t) ==
    /\ Go(t, "idle") /\ job' = [job EXCEPT ![t] = NoJob]
    /\ msgs' = IF job[t].n = 0 THEN msgs ELSE [msgs EXCEPT ![job[t].n].over = TRUE]

\* The arguments do not fit the format string, say.
FormatThrows(t) ==
    /\ pc[t] = "format" /\ Fault /\ Go(t, "handle")
    /\ UNCHANGED <<registryVars, sinkVars, logVars, time, job, calls, raced>>

Format(t) == /\ pc[t] = "format" /\ Go(t, "sink")
             /\ UNCHANGED <<registryVars, sinkVars, logVars, time, job, calls, faults, raced>>

\* A dist_sink is as many sinks as it has members.
Members(s) == IF s = "dist" THEN members ELSE <<s>>
Lets(s, n) == msgs[n].level >= sink_level[s]
Times(ms, s) == Cardinality({i \in DOMAIN ms : ms[i] = s})
Taken(ms, n) ==
    [s \in Leaves |-> IF Lets(s, n)
                      THEN written[s] \o [i \in 1..Times(ms, s) |-> n]
                      ELSE written[s]]

\* sink->log(msg) for one sink after the other.
Sink(t) ==
    /\ pc[t] = "sink" /\ job[t].at <= Len(Sinks)
    /\ written' = Taken(Members(Sinks[job[t].at]), job[t].n)
    /\ job' = [job EXCEPT ![t].at = @ + 1]
    /\ UNCHANGED <<registryVars, members, sink_level, flushed, logVars, time, pc,
                   calls, faults, raced>>

\* (Mutant: the exception is swallowed, and the next sink called.)
SinkThrowsUnheard(t) ==
    /\ pc[t] = "sink" /\ job[t].at <= Len(Sinks) /\ Fault
    /\ job' = [job EXCEPT ![t].at = @ + 1]
    /\ UNCHANGED <<registryVars, sinkVars, logVars, time, pc, calls, raced>>

\* The k-th member throws: those behind it, and the sinks behind this one,
\* do not get the message, nor is anything flushed.
SinkThrows(t) ==
    /\ pc[t] = "sink" /\ job[t].at <= Len(Sinks) /\ Fault
    /\ LET ms == Members(Sinks[job[t].at]) IN
       \E k \in DOMAIN ms : /\ Lets(ms[k], job[t].n)
                            /\ written' = Taken(SubSeq(ms, 1, k - 1), job[t].n)
    /\ Go(t, "handle")
    /\ UNCHANGED <<registryVars, members, sink_level, flushed, logVars, time, job,
                   calls, raced>>

Sunk(t) ==
    /\ pc[t] = "sink" /\ job[t].at > Len(Sinks)
    /\ IF should_flush_on(job[t].id, msgs[job[t].n].level)
       THEN /\ Go(t, "flush") /\ job' = [job EXCEPT ![t].at = 1]
            /\ msgs' = [msgs EXCEPT ![job[t].n].urgent = TRUE]
       ELSE Return(t)
    /\ UNCHANGED <<registryVars, sinkVars, handled, errors, time, calls, faults, raced>>

flush(t, id) ==
    /\ Call(t) /\ ~loggers[id].async
    /\ Go(t, "flush") /\ job' = [job EXCEPT ![t] = [NoJob EXCEPT !.id = id]]
    /\ UNCHANGED <<registryVars, sinkVars, logVars, time, faults, raced>>

SinkFlushes(t) ==
    /\ pc[t] = "flush" /\ job[t].at <= Len(Sinks)
    /\ LET ms == Members(Sinks[job[t].at]) IN
       flushed' = [s \in Leaves |-> IF Times(ms, s) > 0 THEN Len(written[s])
                                    ELSE flushed[s]]
    /\ job' = [job EXCEPT ![t].at = @ + 1]
    /\ UNCHANGED <<registryVars, members, sink_level, written, logVars, time, pc,
                   calls, faults, raced>>

FlushThrows(t) ==
    /\ pc[t] = "flush" /\ job[t].at <= Len(Sinks) /\ Fault /\ Go(t, "handle")
    /\ \E k \in DOMAIN Members(Sinks[job[t].at]) :
          flushed' = [s \in Leaves |->
              IF Times(SubSeq(Members(Sinks[job[t].at]), 1, k - 1), s) > 0
              THEN Len(written[s]) ELSE flushed[s]]
    /\ UNCHANGED <<registryVars, members, sink_level, written, logVars, time, job,
                   calls, raced>>

Flushed(t) ==
    /\ pc[t] = "flush" /\ job[t].at > Len(Sinks) /\ Return(t)
    /\ UNCHANGED <<registryVars, sinkVars, handled, errors, time, calls, faults, raced>>

-----------------------------------------------------------------------------
(* The error handler of a logger; the default one is quiet for a minute.    *)

\* (Mutant: it is quiet once it has printed.)
TooSoonEver(id) == loggers[id].last_err > 0

TooSoon(id) == time < loggers[id].last_err + Window

Happened(t, at, printed) ==
    errors' = Append(errors, [id |-> job[t].id, at |-> at, printed |-> printed])

HandleOtherwise(t) ==
    /\ pc[t] = "handle" /\ loggers[job[t].id].set.err_handler = "other"
    /\ handled' = handled \cup {job[t].n} /\ Return(t)
    /\ UNCHANGED <<registryVars, sinkVars, errors, time, calls, faults, raced>>

\* _default_err_handler(): looks at the time of the last error ...
LookAtTime(t) ==
    /\ pc[t] = "handle" /\ loggers[job[t].id].set.err_handler = "default"
    /\ handled' = handled \cup {job[t].n}
    /\ IF TooSoon(job[t].id)
       THEN Happened(t, time, FALSE) /\ Return(t)
       ELSE /\ Go(t, "set") /\ job' = [job EXCEPT ![t].at = time]
            /\ UNCHANGED <<msgs, errors>>
    /\ UNCHANGED <<registryVars, sinkVars, time, calls, faults, raced>>

\* ... sets it to the time it has looked at ...
SetErrorTime(t) ==
    /\ pc[t] = "set" /\ Go(t, "print")
    /\ loggers' = [loggers EXCEPT ![job[t].id].last_err = job[t].at]
    /\ UNCHANGED <<registered, globals, sinkVars, logVars, time, job, calls, faults, raced>>

\* ... and prints, with that time in the line.
PrintError(t) ==
    /\ pc[t] = "print"
    /\ Happened(t, job[t].at, TRUE) /\ Return(t)
    /\ UNCHANGED <<registryVars, sinkVars, handled, time, calls, faults, raced>>

\* std::remove(): what is left of ms without m, in its order.
Removed(ms, m) ==
    LET left[i \in 0..Len(ms)] ==
            IF i = 0 THEN <<>>
            ELSE IF ms[i] = m THEN left[i - 1] ELSE Append(left[i - 1], ms[i])
    IN  left[Len(ms)]

\* The other member of the dist_sink comes and goes, and may come twice.
add_sink(t) ==
    /\ Call(t) /\ members' = Append(members, "second")
    /\ UNCHANGED <<registryVars, sink_level, written, flushed, logVars, time, pc, job,
                   faults, raced>>
remove_sink(t) ==
    /\ Call(t) /\ members' = Removed(members, "second")
    /\ UNCHANGED <<registryVars, sink_level, written, flushed, logVars, time, pc, job,
                   faults, raced>>

Tick == /\ time < MaxTime /\ time' = time + 1
        /\ UNCHANGED <<registryVars, sinkVars, logVars, pc, job, calls, faults, raced>>

Next ==
    \/ Tick
    \/ \E t \in Threads :
        \/ \E n \in Names : Create(t, n) \/ create_async(t, n) \/ register_logger(t, n)
        \/ \E ns \in {{n} : n \in Names} \cup {Names} : drop(t, ns)
        \/ \E s \in Settings : \E v \in Values[s] :
              \/ SetAll(t, s, v)
              \/ \E id \in DOMAIN loggers : SetOwn(t, id, s, v)
        \/ \E async \in BOOLEAN : SetMode(t, async)
        \/ \E v \in Levels : apply_all(t, v)
        \/ \E h \in Values.err_handler : set_error_handler(t, h)
        \/ SetNextHandler(t) \/ LastHandlerSet(t)
        \/ \E id \in DOMAIN loggers :
              flush(t, id) \/ \E level \in Levels : Log(t, id, level)
        \/ FormatThrows(t) \/ Format(t) \/ Sink(t) \/ SinkThrows(t) \/ Sunk(t)
        \/ SinkFlushes(t) \/ FlushThrows(t) \/ Flushed(t)
        \/ HandleOtherwise(t) \/ LookAtTime(t) \/ SetErrorTime(t) \/ PrintError(t)
        \/ add_sink(t) \/ remove_sink(t)

Spec == Init /\ [][Next]_vars

-----------------------------------------------------------------------------
(* A global setting reaches every logger in the registry, and every one     *)
(* created later: a logger differs from the global settings only in what    *)
(* was set for it alone, or in the error handler while one is being set for *)
(* all, or once that has met a logger made, dropped or handling an error:   *)
(* it goes through the registry without the mutex.  (registry.h)            *)
SettingsReachAll ==
    \A n \in Names, s \in Settings :
        \/ registered[n] = 0
        \/ s = "err_handler" /\ (raced \/ Iterating)
        \/ s \in loggers[registered[n]].own
        \/ loggers[registered[n]].set[s] = globals.set[s]

\* When log() is over, a message is in the file unless its level is too low
\* for that sink, or an error handler was told; the member that stands first
\* in the dist_sink, while it is there, likewise; and an urgent message has
\* been flushed.  (logger_impl.h, _sink_it)
In(s, n) == \E i \in DOMAIN written[s] : written[s][i] = n
EveryMissReported ==
    \A n \in DOMAIN msgs :
        msgs[n].over /\ n \notin handled =>
            \A s \in {"file", "first"} :
                Lets(s, n) =>
                    /\ In(s, n)
                    /\ msgs[n].urgent =>
                        \E i \in 1..flushed[s] : written[s][i] = n

(* The default error handler is quiet about an error only within a minute   *)
(* of a line of the same logger: one that is printed, or one that another   *)
(* thread is about to print, having set the time.  (_default_err_handler)   *)
Lines(id) ==
    {errors[j].at : j \in {k \in DOMAIN errors : errors[k].id = id /\ errors[k].printed}}
    \cup {job[t].at : t \in {u \in Threads : pc[u] = "print" /\ job[u].id = id}}
NearLine(i) == \E at \in Lines(errors[i].id) : errors[i].at < at + Window
SilenceIsEarned == \A i \in DOMAIN errors : errors[i].printed \/ NearLine(i)

(* It prints to stderr "with the max rate of 1 message/minute": no two      *)
(* lines of a logger have times less than a minute apart.  (logger.h:132)   *)
OneReportAMinute ==
    \A i, j \in DOMAIN errors :
        /\ i < j /\ errors[i].id = errors[j].id
        /\ errors[i].printed /\ errors[j].printed
        => errors[j].at >= errors[i].at + Window \/ errors[i].at >= errors[j].at + Window

=============================================================================
