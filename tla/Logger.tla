------------------------------- MODULE Logger -------------------------------
(***************************************************************************)
(* The logger's severity filter (src/logger.cpp): log calls of several     *)
(* threads, none of which locks anything, against calls that change the    *)
(* flag or the threshold, and starts that read the threshold from the      *)
(* document.  A threshold lives twice: in the SDK logger, where it is      *)
(* applied, and in the instance, from which a restart takes it again.      *)
(***************************************************************************)
EXTENDS Integers, FiniteSets

CONSTANTS Callers,        \* threads
          MaxLevel,       \* severities are 1 .. MaxLevel; 0 is an invalid one
          MaxTimeout,     \* OTELC_FLUSH_TIMEOUT_MS_MAX
          NumAttributes,  \* attributes of every record
          MaxLogCalls,    \* bound: calls of a behaviour
          NoValue

ASSUME LoggerAssumption ==
    /\ MaxLevel \in Nat \ {0} /\ NumAttributes \in Nat
    /\ MaxTimeout \in Nat /\ MaxLogCalls \in Nat
    /\ NoValue \notin Int \cup [severity : Nat, ids : {"span", "zero"}, attributes : Nat]   \* nor a record

VARIABLES
    logger,    \* the instance: state, enabled, field (min_severity), threshold (the SDK's), timeout
    call,      \* thread -> the call it is in
    answer,    \* how the call ended that ended with the last step
    strayed,   \* history: setters overlapped, or a start failed past the severity
    calls

loggerVars == <<logger, call, answer, strayed, calls>>

Severities == 1 .. MaxLevel
Parsed(severity) == severity \in Severities    \* otel_logger_severity() is not kInvalid
Started == logger.state = "started"
NoCall == [op |-> "none"]
Drained == \A t \in Callers : call[t] = NoCall

\* log_span() and log_body_span() read the identifiers before they look at the flag, and
\* log without them when the span is gone.
SpanIds(span) == IF span = "live" THEN "span" ELSE "zero"

LoggerInit ==
    /\ logger = [state |-> "none", enabled |-> FALSE, field |-> NoValue, threshold |-> NoValue, timeout |-> 0]
    /\ call = [t \in Callers |-> NoCall]
    /\ answer = NoValue /\ strayed = FALSE /\ calls = 0

\* seen and up are history: what the threshold and the flag were while a call ran.
Witnessed(l, c) == [t \in Callers |->
    IF c[t] = NoCall THEN NoCall
    ELSE [c[t] EXCEPT !.seen = @ \cup {l.threshold}, !.up = @ \cup {l.enabled}]]

CallEnds(t, result, record) ==
    /\ answer' = [call |-> Witnessed(logger', call)[t], result |-> result, record |-> record]
    /\ call' = Witnessed(logger', [call EXCEPT ![t] = NoCall])

Proceed(t, at) == /\ call' = Witnessed(logger', [call EXCEPT ![t].at = at])
                  /\ answer' = NoValue

CallBegins(t) ==
    /\ call[t] = NoCall /\ calls < MaxLogCalls /\ logger.state # "none"
    /\ \E op \in {"log", "enabled", "set_min_severity"}, severity \in 0 .. MaxLevel,
          span \in {"live", "gone"}, body \in BOOLEAN :
           /\ op # "log" => span = "gone" /\ body
           /\ call' = [call EXCEPT ![t] =
                  [op |-> op, at |-> "flag", severity |-> severity, ids |-> SpanIds(span), span |-> span,
                   body |-> body, added |-> 0, seen |-> {logger.threshold}, up |-> {logger.enabled}]]
    /\ calls' = calls + 1 /\ answer' = NoValue
    /\ UNCHANGED <<logger, strayed>>

\* A log call looks at the flag first, so one on a logger not started may be refused (0).
LogFlag(t) ==
    /\ call[t].op = "log" /\ call[t].at = "flag"
    /\ UNCHANGED <<logger, strayed, calls>>
    /\ \/ ~logger.enabled /\ CallEnds(t, "refused", NoValue)
       \/ logger.enabled /\ (~call[t].body \/ ~Started) /\ CallEnds(t, "error", NoValue)
       \/ logger.enabled /\ call[t].body /\ Started /\ Proceed(t, "check")

\* enabled() reports a logger not started whatever the flag holds.
AskFlag(t) ==
    /\ call[t].op = "enabled" /\ call[t].at = "flag"
    /\ UNCHANGED <<logger, strayed, calls>>
    /\ \/ ~Started /\ CallEnds(t, "error", NoValue)
       \/ Started /\ ~logger.enabled /\ CallEnds(t, "refused", NoValue)
       \/ Started /\ logger.enabled /\ Proceed(t, "check")

Filled(n) == IF n = NumAttributes THEN "body" ELSE "fill"

\* Faulty variant: neither the severity nor the threshold is looked at.
CheckNothing(t) ==
    /\ call[t].op # "none" /\ call[t].at = "check"
    /\ UNCHANGED <<logger, strayed, calls>>
    /\ Proceed(t, Filled(0))

\* otel_logger_record_create() up to the record, and the end of enabled().
Check(t) ==
    LET severity == call[t].severity IN
    /\ call[t].op # "none" /\ call[t].at = "check"
    /\ UNCHANGED <<logger, strayed, calls>>
    /\ \/ ~Parsed(severity) /\ CallEnds(t, "error", NoValue)
       \/ Parsed(severity) /\ severity < logger.threshold /\ CallEnds(t, "refused", NoValue)
       \/ /\ Parsed(severity) /\ severity >= logger.threshold
          /\ IF call[t].op = "enabled" THEN CallEnds(t, "yes", NoValue) ELSE Proceed(t, Filled(0))

\* An attribute the SDK throws on ends the call; the record goes with its pointer.
Fill(t) ==
    /\ call[t].op # "none" /\ call[t].at = "fill"
    /\ UNCHANGED <<logger, strayed, calls>>
    /\ \/ CallEnds(t, "error", NoValue)
       \/ /\ call' = [call EXCEPT ![t].added = @ + 1, ![t].at = Filled(call[t].added + 1)]
          /\ answer' = NoValue

Record(t) == [severity |-> call[t].severity, ids |-> call[t].ids, attributes |-> call[t].added]

\* The body cannot be formatted or is of no known type, or the record is emitted.
Emit(t) ==
    /\ call[t].op # "none" /\ call[t].at = "body"
    /\ UNCHANGED <<logger, strayed, calls>>
    /\ \/ CallEnds(t, "error", NoValue)
       \/ CallEnds(t, "emitted", Record(t))

\* Two stores: the SDK logger's threshold, then the instance's.
SetThreshold(t) ==
    LET severity == call[t].severity IN
    /\ call[t].op = "set_min_severity" /\ call[t].at = "flag"
    /\ UNCHANGED calls
    /\ \/ /\ ~Started \/ ~Parsed(severity)
          /\ UNCHANGED <<logger, strayed>>
          /\ CallEnds(t, "error", NoValue)
       \/ /\ Started /\ Parsed(severity)
          /\ logger' = [logger EXCEPT !.threshold = severity]
          /\ strayed' = \E u \in Callers : call[u].op # "none" /\ call[u].at = "field"
          /\ Proceed(t, "field")

SetField(t) ==
    /\ call[t].op # "none" /\ call[t].at = "field"
    /\ logger' = [logger EXCEPT !.field = call[t].severity]
    /\ CallEnds(t, "ok", NoValue)
    /\ UNCHANGED <<strayed, calls>>

SetEnabled ==
    /\ logger.state # "none"
    /\ logger' = [logger EXCEPT !.enabled = ~@]
    /\ call' = Witnessed(logger', call)
    /\ answer' = NoValue /\ UNCHANGED <<strayed, calls>>

SetFlushTimeout ==
    \E timeout \in 0 .. MaxTimeout :      \* any other is refused
        /\ logger.state # "none"
        /\ logger' = [logger EXCEPT !.timeout = timeout]
        /\ answer' = NoValue /\ UNCHANGED <<call, strayed, calls>>

---------------------------------------------------------------------------
(* The life of the instance.  Start and destroy must not overlap a call.   *)

\* An instance whose section is not found is destroyed again.
Create ==
    /\ logger.state = "none"
    /\ logger' = [state |-> "created", enabled |-> TRUE, field |-> 1, threshold |-> NoValue, timeout |-> MaxTimeout]
    /\ answer' = NoValue /\ UNCHANGED <<call, strayed, calls>>

\* The severity and the timeout of the section are optional.
Sections == [severity : 0 .. MaxLevel \cup {NoValue}, timeout : -1 .. MaxTimeout \cup {NoValue}]

Taken(value, kept) == IF value = NoValue THEN kept ELSE value

\* A start stores the severity before it validates the timeout and builds the pipeline.
StartFails(section) ==
    /\ section.severity = NoValue \/ Parsed(section.severity)
    /\ logger' = [logger EXCEPT !.field = Taken(section.severity, @),
                                !.timeout = IF section.timeout = -1 THEN @ ELSE Taken(section.timeout, @)]
    /\ strayed' = (strayed \/ (Started /\ section.severity # NoValue))

\* Faulty variant: a restart leaves the SDK logger's threshold alone.
StartLeavesThreshold(section) ==
    /\ section.severity = NoValue \/ Parsed(section.severity)
    /\ section.timeout # -1
    /\ LET field == Taken(section.severity, logger.field) IN
       logger' = [logger EXCEPT !.state = "started", !.field = field,
                                !.threshold = IF Started THEN @ ELSE field,
                                !.timeout = Taken(section.timeout, @)]
    /\ strayed' = FALSE

StartSucceeds(section) ==
    /\ section.severity = NoValue \/ Parsed(section.severity)
    /\ section.timeout # -1
    /\ LET field == Taken(section.severity, logger.field) IN
       logger' = [logger EXCEPT !.state = "started", !.field = field, !.threshold = field,
                                !.timeout = Taken(section.timeout, @)]
    /\ strayed' = FALSE

LogStart ==
    /\ Drained /\ logger.state # "none"
    /\ \E section \in Sections : StartFails(section) \/ StartSucceeds(section)
    /\ answer' = NoValue /\ UNCHANGED <<call, calls>>

Destroy ==
    /\ Drained /\ logger.state # "none"
    /\ logger' = [state |-> "none", enabled |-> FALSE, field |-> NoValue, threshold |-> NoValue, timeout |-> 0]
    /\ strayed' = FALSE
    /\ answer' = NoValue /\ UNCHANGED <<call, calls>>

CallStep(t) == \/ CallBegins(t) \/ LogFlag(t) \/ AskFlag(t) \/ Check(t) \/ Fill(t) \/ Emit(t)
               \/ SetThreshold(t) \/ SetField(t)

LoggerNext == \/ \E t \in Callers : CallStep(t)
              \/ SetEnabled \/ SetFlushTimeout \/ Create \/ LogStart \/ Destroy

LoggerSpec == LoggerInit /\ [][LoggerNext]_loggerVars

---------------------------------------------------------------------------
LoggerTypeOK ==
    /\ logger.state \in {"none", "created", "started"} /\ logger.enabled \in BOOLEAN
    /\ logger.field \in Severities \cup {NoValue}
    /\ logger.threshold \in IF Started THEN Severities ELSE {NoValue}
    /\ logger.timeout \in 0 .. MaxTimeout
    /\ \A t \in Callers : call[t] # NoCall =>
           call[t].added \in 0 .. NumAttributes /\ call[t].seen # {} /\ call[t].up # {}
    /\ strayed \in BOOLEAN /\ calls \in 0 .. MaxLogCalls

\* Whatever the flag and the threshold do meanwhile, an answer is one that some moment of
\* the call explains: a record passes a threshold, and a refusal (0) has a threshold or a flag that
\* refused it (logger.cpp:140, :335, :421).  So a threshold set before a call begins, and
\* not changed since, holds for it.
AnswersExplained ==
    answer # NoValue /\ answer.call.op # "set_min_severity" =>
        LET c == answer.call IN
        /\ answer.result \in {"yes", "emitted"} => /\ TRUE \in c.up
                                /\ \E s \in c.seen \ {NoValue} : c.severity >= s
        /\ answer.result = "refused" => \/ FALSE \in c.up
                                \/ \E s \in c.seen \ {NoValue} : c.severity < s

\* A record that reaches the SDK has every attribute and the identifiers of its span; a
\* call that fails part of the way has emitted nothing (logger.cpp:366, :442, :665).
RecordsWhole ==
    answer # NoValue /\ answer.call.op = "log" =>
        /\ (answer.record # NoValue) = (answer.result = "emitted")
        /\ answer.record # NoValue =>
               /\ answer.record.attributes = NumAttributes /\ answer.record.severity \in Severities
               /\ answer.record.ids = IF answer.call.span = "live" THEN "span" ELSE "zero"

\* Every log call ends with an answer its caller can rely on.
CallsAnswered == LoggerTypeOK /\ AnswersExplained /\ RecordsWhole

\* Once no setter is half-way, the severity a restart would take is the one applied, unless
\* two setters overlapped or a start failed behind its severity (logger.cpp:232-234, :839).
SeveritySettles ==
    Started /\ ~strayed /\ (\A t \in Callers : call[t].op # "none" => call[t].at # "field")
        => logger.field = logger.threshold

---------------------------------------------------------------------------
(* The inductive strengthening the proofs use. *)

LogCalls == [op : {"log", "enabled", "set_min_severity"}, at : {"flag", "check", "fill", "body", "field"},
             severity : 0 .. MaxLevel, ids : {"span", "zero"}, span : {"live", "gone"}, body : BOOLEAN,
             added : 0 .. NumAttributes, seen : SUBSET (Severities \cup {NoValue}), up : SUBSET BOOLEAN]

\* What the variables hold; an instance in being has a severity to start with.
LoggerShape ==
    /\ logger \in [state : {"none", "created", "started"}, enabled : BOOLEAN, field : Severities \cup {NoValue},
                   threshold : Severities \cup {NoValue}, timeout : 0 .. MaxTimeout]
    /\ logger.state # "none" => logger.field \in Severities
    /\ call \in [Callers -> LogCalls \cup {NoCall}]

\* A call saw the flag and the threshold as they are, and no start or destroy overlaps it.
CallsWitness ==
    \A t \in Callers : call[t] # NoCall =>
        /\ logger.threshold \in call[t].seen /\ logger.enabled \in call[t].up
        /\ logger.state # "none"
        /\ call[t].at # "flag" => Started

\* What a call has passed, it had a reason to pass.
CallsPassed ==
    \A t \in Callers : call[t] # NoCall =>
        LET c == call[t] IN
        /\ c.ids = SpanIds(c.span)
        /\ c.at \in {"fill", "body"} => c.op = "log"
        /\ c.op = "set_min_severity" => c.at \in {"flag", "field"}
        /\ c.at = "field" => c.op = "set_min_severity" /\ Parsed(c.severity)
        /\ c.at \in {"check", "fill", "body"} => TRUE \in c.up
        /\ c.at \in {"fill", "body"} => Parsed(c.severity) /\ \E s \in c.seen \ {NoValue} : c.severity >= s
        /\ c.at \in {"flag", "check"} => c.added = 0
        /\ c.at = "fill" => c.added < NumAttributes
        /\ c.at = "body" => c.added = NumAttributes

\* Unless setters overlapped, the one between its two stores is alone and stored the threshold.
SettersInTurn ==
    Started /\ ~strayed =>
        \A t \in Callers : call[t].op # "none" /\ call[t].at = "field" =>
            /\ call[t].severity = logger.threshold
            /\ \A u \in Callers : call[u].op # "none" /\ call[u].at = "field" => u = t

LoggerInv == CallsAnswered /\ SeveritySettles /\ LoggerShape /\ CallsWitness /\ CallsPassed /\ SettersInTurn
=============================================================================
