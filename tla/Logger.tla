-------------------------------- MODULE Logger ---------------------------------
(***************************************************************************)
(* The one Logger of the process and the LOG_ macros (src/Logger.h): each     *)
(* macro sets the shared level and then calls log, which reads it and writes  *)
(* the line to std::cout in pieces.  Nothing is locked, so the threads of      *)
(* the loops interleave between these steps.  The time of a line goes through *)
(* the one struct tm that localtime() returns to everybody                    *)
(* (src/Timestamp.cc).  LOG_FATAL ends the process.                           *)
(***************************************************************************)
EXTENDS Naturals, Sequences

CONSTANTS Threads,
          MUDEBUG,     \* LOG_DEBUG is compiled in
          MaxLines,    \* bound: lines begun in a behaviour
          MaxSeconds   \* bound: ticks of the clock

VARIABLES logLevel_,
          at,          \* where each thread is in its macro
          level,       \* the macro it has called
          pre,         \* log's local: the prefix it has chosen
          clock, tm,   \* the seconds; localtime's static result
          now,         \* Timestamp::now() of each thread's line
          output,      \* the pieces on std::cout
          running      \* the process has not exited

timeVars == <<clock, tm, now>>
vars == <<logLevel_, at, level, pre, timeVars, output, running>>

LogLevel == {"INFO", "ERROR", "FATAL", "DEBUG"}

\* The macros that do something.
Macros == IF MUDEBUG THEN LogLevel ELSE LogLevel \ {"DEBUG"}

\* The zero-initialised logger of instance().
Init ==
    /\ logLevel_ = "INFO"
    /\ at = [t \in Threads |-> "idle"]
    /\ level = [t \in Threads |-> "INFO"]
    /\ pre = [t \in Threads |-> "INFO"]
    /\ clock = 0 /\ tm = 0
    /\ now = [t \in Threads |-> 0]
    /\ output = <<>>
    /\ running = TRUE

Goes(t, from, to) ==
    /\ running
    /\ at[t] = from /\ at' = [at EXCEPT ![t] = to]

SetLogLevel(t, l) ==
    /\ Len(output) < 2 * MaxLines
    /\ Goes(t, "idle", "log")
    /\ level' = [level EXCEPT ![t] = l]
    /\ logLevel_' = l
    /\ UNCHANGED <<pre, timeVars, output, running>>

\* log's switch over logLevel_.
ChoosePrefix(t) ==
    /\ Goes(t, "log", "now")
    /\ pre' = [pre EXCEPT ![t] = logLevel_]
    /\ UNCHANGED <<logLevel_, level, timeVars, output, running>>

\* Timestamp::now, and toString up to its call of localtime.
LocalTime(t) ==
    /\ Goes(t, "now", "prefix")
    /\ now' = [now EXCEPT ![t] = clock]
    /\ tm' = clock
    /\ UNCHANGED <<logLevel_, level, pre, clock, output, running>>

\* The insertions into std::cout: first "[LEVEL]time", then " : msg" and endl.
PrefixOf(l, time)  == [level |-> l, time |-> time, piece |-> "prefix"]
MessageOf(l, time) == [level |-> l, time |-> time, piece |-> "message"]

\* toString formats what localtime's result holds by now.
PutPrefix(t) ==
    /\ Goes(t, "prefix", "message")
    /\ output' = Append(output, PrefixOf(pre[t], tm))
    /\ UNCHANGED <<logLevel_, level, pre, timeVars, running>>

PutMessage(t) ==
    /\ Goes(t, "message", IF level[t] = "FATAL" THEN "exit" ELSE "idle")
    /\ output' = Append(output, MessageOf(level[t], now[t]))
    /\ UNCHANGED <<logLevel_, level, pre, timeVars, running>>

\* LOG_FATAL's exit(-1).
Exit(t) ==
    /\ Goes(t, "exit", "idle")
    /\ running' = FALSE
    /\ UNCHANGED <<logLevel_, level, pre, timeVars, output>>

Tick ==
    /\ running /\ clock < MaxSeconds
    /\ clock' = clock + 1
    /\ UNCHANGED <<logLevel_, at, level, pre, tm, now, output, running>>

Next ==
    \/ \E t \in Threads :
         \/ \E l \in Macros : SetLogLevel(t, l)
         \/ ChoosePrefix(t) \/ LocalTime(t) \/ PutPrefix(t) \/ PutMessage(t) \/ Exit(t)
    \/ Tick

Spec == Init /\ [][Next]_vars

-----------------------------------------------------------------------------
(* Properties *)

\* log writes "[level] time : msg" (Logger.cc): a message stands behind the prefix
\* with the level of its own macro and its own time.
LinesMarked ==
    \A i \in DOMAIN output :
        output[i].piece = "message"
            => i > 1 /\ output[i - 1] = PrefixOf(output[i].level, output[i].time)
=============================================================================
