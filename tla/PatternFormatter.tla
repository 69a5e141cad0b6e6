--------------------------- MODULE PatternFormatter ---------------------------
(***************************************************************************)
(* How a pattern becomes the line of a message                             *)
(* (spdlog/details/pattern_formatter_impl.h) and how a terminal gets the   *)
(* line with its colours (spdlog/sinks/ansicolor_sink.h).                  *)
(*                                                                         *)
(* compile_pattern cuts the pattern into formatters, format lets each of   *)
(* them append to the line.  A line is a sequence of pieces: a character,  *)
(* a name, or a number with the width it is padded to, so that positions   *)
(* in the line are the places between pieces.                              *)
(***************************************************************************)
EXTENDS Integers, Sequences, FiniteSets, SequencesExt

-----------------------------------------------------------------------------
(* The clock.  A time is <<sec, ns>> since the epoch.                       *)
CONSTANT Calendar   \* the date of each day, counted from the epoch (external)

ASSUME CalendarAssumption ==
    \A day \in DOMAIN Calendar : Calendar[day] \in [year : Int, mon : 0..11, mday : 1..31]

DayOf(sec, offset) == (sec + offset) \div 86400

\* localtime_r and gmtime_r (external): offset is tm_gmtoff.
Tm(sec, offset) ==
    LET s == sec + offset
        day == DayOf(sec, offset)
        date == Calendar[day]
    IN  [sec |-> s % 60, min |-> (s \div 60) % 60, hour |-> (s \div 3600) % 24,
         wday |-> (day + 4) % 7, gmtoff |-> offset,
         year |-> date.year, mon |-> date.mon, mday |-> date.mday]

\* pattern_time_type::local or utc
get_time(msg, pattern_time) ==
    IF pattern_time = "local" THEN Tm(msg.time[1], msg.zone) ELSE Tm(msg.time[1], 0)

\* Pieces of a line: characters and names, and padded numbers.
Ch(c) == <<c>>
Num(value, width) == <<value, width>>

\* (Mutant: noon is taken for an hour past it.)
to12hNoon(tm) == IF tm.hour >= 12 THEN tm.hour - 12 ELSE tm.hour

ampm(tm) == Ch(IF tm.hour >= 12 THEN "PM" ELSE "AM")
to12h(tm) == IF tm.hour > 12 THEN tm.hour - 12 ELSE tm.hour
\* pad_n_join, of two and of three numbers
pad_n_join(v1, v2, sep) == <<Num(v1, 2), Ch(sep), Num(v2, 2)>>
pad_n_join3(v1, v2, v3, sep) == <<Num(v1, 2), Ch(sep), Num(v2, 2), Ch(sep), Num(v3, 2)>>

\* os::utc_minutes_offset; C++ division drops the fraction.
utc_minutes_offset(tm) == IF tm.gmtoff < 0 THEN -((-tm.gmtoff) \div 60)
                          ELSE tm.gmtoff \div 60

\* (Mutant: a negative offset is split before its sign is taken off.)
zFloor(tm) == LET total == utc_minutes_offset(tm)
              IN  <<Ch(IF total < 0 THEN "-" ELSE "+")>>
                  \o pad_n_join(total \div 60, total % 60, ":")

z_formatter(tm) ==
    LET total == utc_minutes_offset(tm)
        abs == IF total < 0 THEN -total ELSE total
    IN  <<Ch(IF total < 0 THEN "-" ELSE "+")>>
        \o pad_n_join(abs \div 60, abs % 60, ":")

-----------------------------------------------------------------------------
(* The formatters of the flags.                                             *)
days == <<"Sun", "Mon", "Tue", "Wed", "Thu", "Fri", "Sat">>
full_days == <<"Sunday", "Monday", "Tuesday", "Wednesday", "Thursday",
               "Friday", "Saturday">>
months == <<"Jan", "Feb", "Mar", "Apr", "May", "Jun", "Jul", "Aug", "Sept",
            "Oct", "Nov", "Dec">>
full_months == <<"January", "February", "March", "April", "May", "June", "July",
                 "August", "September", "October", "November", "December">>

Clock(tm) == pad_n_join3(tm.hour, tm.min, tm.sec, ":")
Date(tm) == pad_n_join3(tm.mon + 1, tm.mday, tm.year % 100, "/")
Year(tm) == Num(tm.year + 1900, 0)
millis(msg) == (msg.time[2] \div 1000000) % 1000
micros(msg) == (msg.time[2] \div 1000) % 1000000

\* What the flags append that only write from the message, and the clock.
TextFlags == {"n", "l", "L", "t", "P", "i", "v"}
Text(msg) == [n |-> <<Ch(msg.name)>>, l |-> <<Ch(msg.level)>>,
              L |-> <<<<"short", msg.level>>>>, t |-> <<Ch(msg.thread)>>,
              P |-> <<Ch("pid")>>, i |-> <<Num(msg.id, 6)>>, v |-> msg.raw]

TimeFlags == {"a", "A", "b", "h", "B", "c", "C", "Y", "D", "x", "m", "d", "H", "I",
              "M", "S", "e", "f", "F", "E", "p", "r", "R", "T", "X", "z"}
TimeText(msg, tm) ==
    LET day == Ch(days[tm.wday + 1])
        month == Ch(months[tm.mon + 1])
    IN  [a |-> <<day>>, A |-> <<Ch(full_days[tm.wday + 1])>>,
         b |-> <<month>>, h |-> <<month>>, B |-> <<Ch(full_months[tm.mon + 1])>>,
         c |-> <<day, Ch(" "), month, Ch(" "), Num(tm.mday, 0), Ch(" ")>>
               \o Clock(tm) \o <<Ch(" "), Year(tm)>>,
         C |-> <<Num(tm.year % 100, 2)>>, Y |-> <<Year(tm)>>,
         D |-> Date(tm), x |-> Date(tm),
         m |-> <<Num(tm.mon + 1, 2)>>, d |-> <<Num(tm.mday, 2)>>,
         H |-> <<Num(tm.hour, 2)>>, I |-> <<Num(to12h(tm), 2)>>,
         M |-> <<Num(tm.min, 2)>>, S |-> <<Num(tm.sec, 2)>>,
         e |-> <<Num(millis(msg), 3)>>,
         f |-> <<Num(micros(msg), 6)>>,
         F |-> <<Num(msg.time[2], 9)>>, E |-> <<Num(msg.time[1], 0)>>,
         p |-> <<ampm(tm)>>,
         r |-> pad_n_join3(to12h(tm), tm.min, tm.sec, ":") \o <<Ch(" "), ampm(tm)>>,
         R |-> pad_n_join(tm.hour, tm.min, ":"), T |-> Clock(tm), X |-> Clock(tm),
         z |-> z_formatter(tm)]

\* The formatted message: its line and the range of its colour.
Write(line, pieces) == [line EXCEPT !.formatted = @ \o pieces]
ColorStart(line) == [line EXCEPT !.start = Len(line.formatted)]
ColorStop(line) == [line EXCEPT !.end = Len(line.formatted)]

\* full_formatter, of the flag +
FullHead(msg, tm) ==
    <<Ch("["), Year(tm), Ch("-"), Num(tm.mon + 1, 2), Ch("-"), Num(tm.mday, 2),
      Ch(" ")>> \o Clock(tm)
    \o <<Ch("."), Num(millis(msg), 3), Ch("]"), Ch(" "),
         Ch("["), Ch(msg.name), Ch("]"), Ch(" "), Ch("[")>>

full_formatter(line, msg, tm) ==
    Write(ColorStop(Write(ColorStart(Write(line, FullHead(msg, tm))), <<Ch(msg.level)>>)),
          <<Ch("]"), Ch(" ")>> \o msg.raw)

-----------------------------------------------------------------------------
(* compile_pattern.  A formatter is <<"flag", c>>, <<"ch", c>> or           *)
(* <<"user", characters>>.                                                  *)
Flags == TextFlags \cup TimeFlags \cup {"+", "^", "$"}

handle_flag(c) == IF c \in Flags THEN <<<<"flag", c>>>>
                  ELSE <<<<"ch", "%">>, <<"ch", c>>>>

user_chars(chars) == IF chars = <<>> THEN <<>> ELSE <<<<"user", chars>>>>

\* (Mutant: what precedes a flag is kept for the end.)
ReadLate(c, scan) ==
    CASE scan.flag -> [scan EXCEPT !.formatters = @ \o handle_flag(c), !.flag = FALSE]
      [] ~scan.flag /\ c = "%" -> [scan EXCEPT !.flag = TRUE]
      [] ~scan.flag /\ c # "%" -> [scan EXCEPT !.chars = Append(@, c)]

\* One round of the loop; a flag takes two characters.
Read(c, scan) ==
    CASE scan.flag -> [scan EXCEPT !.formatters = @ \o handle_flag(c), !.flag = FALSE]
      [] ~scan.flag /\ c = "%" ->
            [formatters |-> scan.formatters \o user_chars(scan.chars),
             chars |-> <<>>, flag |-> TRUE]
      [] ~scan.flag /\ c # "%" -> [scan EXCEPT !.chars = Append(@, c)]

\* What the loop holds after n characters.
Scans(pattern) ==
    LET scan[n \in 0..Len(pattern)] ==
            IF n = 0 THEN [formatters |-> <<>>, chars |-> <<>>, flag |-> FALSE]
            ELSE Read(pattern[n], scan[n - 1])
    IN  scan

compile_pattern(pattern) ==
    LET scan == Scans(pattern)[Len(pattern)]
    IN  scan.formatters \o user_chars(scan.chars)

\* What one formatter does to the line.
FormatOne(line, f, msg, tm) ==
    CASE f[1] = "user" -> Write(line, [i \in DOMAIN f[2] |-> Ch(f[2][i])])
      [] f[1] = "ch" -> Write(line, <<Ch(f[2])>>)
      [] f[1] = "flag" ->
            CASE f[2] = "+" -> full_formatter(line, msg, tm)
              [] f[2] = "^" -> ColorStart(line)
              [] f[2] = "$" -> ColorStop(line)
              [] f[2] \in TextFlags -> Write(line, Text(msg)[f[2]])
              [] f[2] \in TimeFlags -> Write(line, TimeText(msg, tm)[f[2]])

\* format(), on a new message: the line after n formatters, and with its end.
Lines(formatters, msg, tm) ==
    LET line[n \in 0..Len(formatters)] ==
            IF n = 0 THEN [formatted |-> <<>>, start |-> 0, end |-> 0]
            ELSE FormatOne(line[n - 1], formatters[n], msg, tm)
    IN  line

format(formatters, msg, pattern_time) ==
    Write(Lines(formatters, msg, get_time(msg, pattern_time))[Len(formatters)], <<Ch("eol")>>)

-----------------------------------------------------------------------------
(* ansicolor_sink.                                                          *)
Part(line, from, to) == SubSeq(line.formatted, from + 1, to)

\* Colours go to terminals that are known for them.
should_do_colors(in_terminal, term) ==
    in_terminal /\ term \in {"ansi", "color", "console", "cygwin", "gnome", "konsole",
                             "kterm", "linux", "msys", "putty", "rxvt", "screen",
                             "vt100", "xterm"}

\* (Mutant: the range is used as it is.)
SinkAnyRange(line, colors) ==
    IF colors
    THEN Part(line, 0, line.start) \o <<Ch("colour")>> \o Part(line, line.start, line.end)
         \o <<Ch("reset")>> \o Part(line, line.end, Len(line.formatted))
    ELSE line.formatted

\* _sink_it
_sink_it(line, colors) ==
    IF colors /\ line.end > line.start
    THEN Part(line, 0, line.start) \o <<Ch("colour")>> \o Part(line, line.start, line.end)
         \o <<Ch("reset")>> \o Part(line, line.end, Len(line.formatted))
    ELSE line.formatted

-----------------------------------------------------------------------------
Exploded(f) == IF f[1] = "user" THEN [i \in 1..Len(f[2]) |-> <<"ch", f[2][i]>>] ELSE <<f>>

\* A character of the pattern is a flag iff the % signs right before it are
\* odd in number.
Signs(pattern, i) == CHOOSE n \in 0..(i - 1) :
                        /\ \A j \in (i - n)..(i - 1) : pattern[j] = "%"
                        /\ n = i - 1 \/ pattern[i - n - 1] # "%"
IsFlag(pattern, i) == Signs(pattern, i) % 2 = 1
Meaning(pattern, i) == CASE IsFlag(pattern, i) -> handle_flag(pattern[i])
                         [] ~IsFlag(pattern, i) /\ pattern[i] = "%" -> <<>>
                         [] OTHER -> <<<<"ch", pattern[i]>>>>

(* The scan finds the flags of a pattern and keeps all else in its place;   *)
(* a % with nothing behind it is dropped.  (compile_pattern)                *)
FlagsFound(pattern) ==
    FlattenSeq([i \in 1..Len(compile_pattern(pattern)) |->
                   Exploded(compile_pattern(pattern)[i])])
      = FlattenSeq([i \in 1..Len(pattern) |-> Meaning(pattern, i)])

Plain(out) == FlattenSeq([i \in 1..Len(out) |->
                            IF out[i] \in {Ch("colour"), Ch("reset")} THEN <<>> ELSE <<out[i]>>])
Coloured(out) == LET from == CHOOSE i \in 1..Len(out) : out[i] = Ch("colour")
                     to == CHOOSE i \in 1..Len(out) : out[i] = Ch("reset")
                 IN  SubSeq(out, from + 1, to - 1)
Marks(formatters, c) == {i \in 1..Len(formatters) : formatters[i] = <<"flag", c>>}

(* Colour codes come in pairs and change nothing else of the line, however  *)
(* the marks stand; a range marked once holds the text between its marks,   *)
(* or no codes are written if there is none.  (_sink_it)                    *)
MarkedWrapped(pattern, msg) ==
    LET fs == compile_pattern(pattern)
        line == format(fs, msg, "utc")
        out == _sink_it(line, TRUE)
        b == CHOOSE i \in Marks(fs, "^") : TRUE
        e == CHOOSE i \in Marks(fs, "$") : TRUE
        inside == format(SubSeq(fs, b + 1, e - 1), msg, "utc").formatted
    IN  /\ Plain(out) = line.formatted
        /\ Cardinality({i \in 1..Len(out) : out[i] = Ch("colour")}) \in {0, 1}
        /\ (/\ Cardinality(Marks(fs, "^")) = 1 /\ Cardinality(Marks(fs, "$")) = 1
            /\ b < e /\ Marks(fs, "+") = {})
              => IF inside = <<Ch("eol")>> THEN out = line.formatted
                 ELSE Coloured(out) = Front(inside)

Field(msg, c, pattern_time) == TimeText(msg, get_time(msg, pattern_time))[c]

\* The pattern of the comment on %+, with its colour.
FullPattern == <<"[", "%", "Y", "-", "%", "m", "-", "%", "d", " ", "%", "H", ":", "%",
                 "M", ":", "%", "S", ".", "%", "e", "]", " ", "[", "%", "n", "]",
                 " ", "[", "%", "^", "%", "l", "%", "$", "]", " ", "%", "v">>

\* What %I and %p say of the hour of %H.  "hours in 12 format 1-12" holds but
\* for the hour after midnight, which the code writes 00.
HourTold(hour, I, pm) ==
    /\ hour = IF pm /\ I # 12 THEN I + 12 ELSE I
    /\ pm <=> hour >= 12
    /\ IF hour = 0 THEN I = 0 ELSE I \in 1..12

(* From %E, %F and %z of a local line its clock can be told, and from %I    *)
(* and %p the hour, noon being 12 PM; %e and %f are the front of %F; and    *)
(* the line of %+ is that of the pattern in its comment, the level coloured.*)
(* Midnight is excepted: there %I is 00, not in the 1-12 of its comment     *)
(* (pattern_formatter_impl.h:194).  (z_formatter, to12h, full_formatter)    *)
Dated(msg) ==
    LET tm == get_time(msg, "local")
        F(c) == Field(msg, c, "local")
        sign == IF F("z")[1] = Ch("-") THEN -1 ELSE 1
        offset == sign * (60 * F("z")[2][1] + F("z")[4][1])
        Line(p) == format(compile_pattern(p), msg, "local")
    IN  /\ 3600 * F("T")[1][1] + 60 * F("T")[3][1] + F("T")[5][1]
             = (F("E")[1][1] + 60 * offset) % 86400
        /\ HourTold(F("H")[1][1], F("I")[1][1], F("p") = <<Ch("PM")>>)
        /\ F("e")[1][1] = F("F")[1][1] \div 1000000
        /\ F("f")[1][1] = F("F")[1][1] \div 1000
        /\ Line(<<"%", "+">>) = Line(FullPattern)
=============================================================================
