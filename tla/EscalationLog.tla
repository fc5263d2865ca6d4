--------------------------- MODULE EscalationLog ---------------------------
(***************************************************************************)
(* logging.py: the events of the guards of one process, which share a      *)
(* directory and so a file; the hooks, among them OpenTelemetry's and one  *)
(* that feeds a CostTracker; and what cli.py reads from the file.          *)
(*                                                                         *)
(* Every guard has a logger, a manager and a loop of calls of its own (one *)
(* guard per agent loop, guard.py:22-26), possibly in a thread of its own. *)
(* The file is a sequence of pieces of text: the two halves of an event's  *)
(* JSON and the end of a line.  Halves are enough to tell complete lines   *)
(* from torn ones.                                                         *)
(***************************************************************************)
EXTENDS CostTracker, Lists, SequencesExt

CONSTANTS
    None,
    Loggers,      \* the loggers, each standing for its guard and its task
    Hooks,        \* event hooks
    OTelHook,     \* the one that emits spans
    TrackerHook,  \* the one that calls record_escalation
    TriggersOf,   \* logger -> names of the triggers that fire at its guard
    ModelOf,      \* logger -> model_name of the guard's escalation model
    CapOf,        \* logger -> config.escalation_cap of the guard
    Patterns,     \* --model pattern -> the model names it is found in
    Mode,         \* config.on_guard_error
    Closing,      \* the loggers that are closed at some time
    Faults,       \* "disk": flush fails; "hook": hooks raise; "crash"
    MaxEvents,    \* bound: events that are created
    MaxHooks,     \* bound: registrations of hooks in all loggers
    MaxCalls,     \* bound: guarded calls that the tracker counts
    MaxTorn       \* bound: failed flushes and crashes

ASSUME LogAssumption ==
    /\ IsFiniteSet(Loggers)
    /\ None \notin Loggers \cup Hooks
    /\ {OTelHook, TrackerHook} \subseteq Hooks
    /\ \A l \in Loggers : None \notin TriggersOf[l]
    /\ Closing \subseteq Loggers
    /\ Faults \subseteq {"disk", "hook", "crash"}
    /\ {MaxEvents, MaxHooks, MaxCalls, MaxTorn} \subseteq Nat

VARIABLES
    disk,      \* the text of escalations.jsonl
    logger,    \* logger -> its state
    seen,      \* logger -> hook -> the events it received
    tracker,   \* the application's CostTracker
    clock,     \* events created so far; a timestamp
    counted,   \* events whose escalation a manager has counted
    torn       \* failed flushes and crashes so far

lvars == <<disk, logger, seen, tracker, clock, counted, torn>>

Triggers == UNION {TriggersOf[l] : l \in Loggers}

Kinds == {"escalation", "capped", "failopen"}

Event ==
    [at : 1 .. MaxEvents, by : Loggers, kind : Kinds, trigger : Triggers,
     category : Categories \cup {None}]

Category(trigger) ==
    IF trigger = "repeated_error" THEN "failover" ELSE "routing"

EventOf(l, kind, trigger) ==
    [at |-> clock + 1, by |-> l, kind |-> kind, trigger |-> trigger,
     category |-> IF kind = "escalation" THEN Category(trigger) ELSE None]

\* Pieces of text.
Head1(e) == <<"head", e>>
Tail2(e) == <<"tail", e>>
NewLine == <<"newline">>
Line(e) == <<Head1(e), Tail2(e), NewLine>>

(***************************************************************************)
(* A span of OTelEventHook: its name, its attributes, and the event as its *)
(* payload.                                                                *)
(***************************************************************************)
Span(e) ==
    [name |-> CASE e.kind = "escalation" -> "ai_loopguard.escalation"
                [] e.kind = "capped" -> "ai_loopguard.escalation.capped"
                [] e.kind = "failopen" -> "ai_loopguard.fail_open",
     category |-> e.category,
     mode |-> IF e.kind = "failopen" THEN Mode ELSE None,
     event |-> e]

\* What a hook keeps of an event.
Received(h, e) == IF h = OTelHook THEN Span(e) ELSE e

EventSeen(h, r) == IF h = OTelHook THEN r.event ELSE r

NewLogger ==
    [open |-> TRUE, buffer |-> <<>>, hooks |-> <<>>, phase |-> "idle",
     event |-> None, next |-> 0, left |-> 0, escalations |-> 0]

NothingSeen == [l \in Loggers |-> [h \in Hooks |-> {}]]

LogInit ==
    /\ disk = <<>>
    /\ logger = [l \in Loggers |-> NewLogger]
    /\ seen = NothingSeen
    /\ tracker = NewTracker
    /\ clock = 0
    /\ counted = {}
    /\ torn = 0

Idle(l) == logger[l].phase = "idle"

Become(l, self) == logger' = [logger EXCEPT ![l] = self]

-----------------------------------------------------------------------------
(***************************************************************************)
(* The application: its guarded calls, each of which resolves at most two  *)
(* steps and so logs at most two events on its own (WorkPerCallIsBounded   *)
(* of GuardHistory), whatever their triggers, although behind a failed     *)
(* step there is no second one; its hooks; its use of the tracker.         *)
(***************************************************************************)
\* After the last event only what is under way ends, or a logger is closed.
MoreEvents == clock < MaxEvents

\* The call is counted and, under the name of the task, its step.
BeginCall(l) ==
    /\ Idle(l) /\ tracker.calls < MaxCalls /\ MoreEvents
    /\ tracker' = RecordStep(RecordGuardedCall(tracker), l)
    /\ Become(l, [logger[l] EXCEPT !.left = 2])
    /\ UNCHANGED <<disk, seen, clock, counted, torn>>

\* "between independent benchmark runs": no guard is in a call.
ClearTracker ==
    /\ tracker # NewTracker /\ MoreEvents
    /\ \A l \in Loggers : Idle(l)
    /\ tracker' = Clear(tracker)
    /\ logger' = [l \in Loggers |-> [logger[l] EXCEPT !.left = 0]]
    /\ UNCHANGED <<disk, seen, clock, counted, torn>>

\* The application registers a hook once with a logger.
MayRegister(l, h) ==
    /\ MoreEvents
    /\ h \notin Range(logger[l].hooks)
    /\ MapThenSumSet(LAMBDA k : Len(logger[k].hooks), Loggers) < MaxHooks

RegisterHook(l, h) ==
    /\ Idle(l) /\ MayRegister(l, h)
    /\ Become(l, [logger[l] EXCEPT !.hooks = Append(@, h)])
    /\ UNCHANGED <<disk, seen, tracker, clock, counted, torn>>

-----------------------------------------------------------------------------
(***************************************************************************)
(* log, log_capped, log_escalation_failure: write, flush, then dispatch.   *)
(***************************************************************************)
Settled(self) == [self EXCEPT !.phase = "idle", !.event = None, !.next = 0]

\* Behind an event that was logged the call returns, unless it was logged to
\* raise the original error; then the step is resolved once more.
Finished(self) ==
    IF self.event.kind = "failopen" /\ Mode = "raise_original"
    THEN Settled(self)
    ELSE [Settled(self) EXCEPT !.left = 0]

\* What log raises is handled as a failure of the escalation it reports; out
\* of the other two methods it reaches the guard.
Raised(self) ==
    IF self.event.kind = "escalation"
    THEN [self EXCEPT !.phase = "raised", !.next = 0]
    ELSE Settled(self)

Dispatching(self) ==
    IF self.next > Len(self.hooks) THEN Finished(self)
                                   ELSE [self EXCEPT !.phase = "dispatch"]

\* The first n pieces of the text reach the file.
WriteOut(text, n) == disk' = disk \o SubSeq(text, 1, n)

\* Mutant of Flushed: the hooks are called, the text waits for a later flush.
FlushedLater(l, self, text) ==
    /\ WriteOut(text, 0)
    /\ Become(l, Dispatching([self EXCEPT !.buffer = text, !.next = 1]))
    /\ UNCHANGED torn

Flushed(l, self, text) ==
    /\ WriteOut(text, Len(text))
    /\ Become(l, Dispatching([self EXCEPT !.buffer = <<>>, !.next = 1]))
    /\ UNCHANGED torn

\* What cannot be written stays in the buffer and goes out with the next
\* event.
FlushFailed(l, self, text) ==
    /\ "disk" \in Faults /\ torn < MaxTorn
    /\ torn' = torn + 1
    /\ \E n \in 0 .. Len(text) - 1 :
          /\ WriteOut(text, n)
          /\ Become(l, Raised([self EXCEPT
                                 !.buffer = SubSeq(text, n + 1, Len(text))]))

\* Mutant of Reopened: the file is opened for writing.
ReopenedEmpty(text) == <<>>

\* The file is opened in append mode.
Reopened(text) == text

\* The process dies when a part of the text is out; what is not is lost. It
\* starts again with new loggers, hooks and a new tracker.
Dies(text) ==
    /\ "crash" \in Faults /\ torn < MaxTorn
    /\ torn' = torn + 1
    /\ \E n \in 0 .. Len(text) : disk' = Reopened(disk \o SubSeq(text, 1, n))
    /\ logger' = [l \in Loggers |-> NewLogger]
    /\ seen' = NothingSeen
    /\ tracker' = NewTracker

\* A closed sink is still an object, so writing to it raises.
Submit(l, e, self) ==
    LET text == self.buffer \o Line(e)
        with == [self EXCEPT !.event = e]
    IN  /\ clock' = clock + 1
        /\ \/ /\ \/ self.open /\ Flushed(l, with, text)
                 \/ self.open /\ FlushFailed(l, with, text)
                 \/ ~ self.open /\ Become(l, Raised(with)) /\ UNCHANGED <<disk, torn>>
              /\ UNCHANGED <<seen, tracker>>
           \/ self.open /\ Dies(text)

MayLog(l) == Idle(l) /\ logger[l].left > 0 /\ MoreEvents

Capped(l) == logger[l].escalations >= CapOf[l]

\* The model has answered: count, then log.
Escalate(l, trigger) ==
    /\ MayLog(l) /\ ~ Capped(l)
    /\ counted' = counted \cup {EventOf(l, "escalation", trigger)}
    /\ Submit(l, EventOf(l, "escalation", trigger),
              [logger[l] EXCEPT !.left = @ - 1, !.escalations = @ + 1])

\* Nothing is counted when the cap is reached or the model fails.
HandleCap(l, trigger) ==
    /\ MayLog(l) /\ Capped(l)
    /\ Submit(l, EventOf(l, "capped", trigger), [logger[l] EXCEPT !.left = @ - 1])
    /\ UNCHANGED counted

ModelFailure(l, trigger) ==
    /\ MayLog(l) /\ ~ Capped(l)
    /\ Submit(l, EventOf(l, "failopen", trigger),
              [logger[l] EXCEPT !.left = @ - 1])
    /\ UNCHANGED counted

\* An escalation whose log raised is logged once more, as a failure.
HandleFailure(l) ==
    /\ logger[l].phase = "raised" /\ MoreEvents
    /\ Submit(l, EventOf(l, "failopen", logger[l].event.trigger), logger[l])
    /\ UNCHANGED counted

\* Mutant of Receive: the escalation is recorded under its trigger's name.
ReceiveForTrigger(l) ==
    LET h == logger[l].hooks[logger[l].next]
        e == logger[l].event
    IN  /\ seen' = [seen EXCEPT ![l][h] = @ \cup {Received(h, e)}]
        /\ tracker' = IF h = TrackerHook /\ e.kind = "escalation"
                      THEN RecordEscalation(tracker, e.trigger, e.category)
                      ELSE tracker

\* The hook whose turn it is has done its work; the list is read while it is
\* iterated.
Receive(l) ==
    LET h == logger[l].hooks[logger[l].next]
        e == logger[l].event
    IN  /\ seen' = [seen EXCEPT ![l][h] = @ \cup {Received(h, e)}]
        /\ tracker' = IF h = TrackerHook /\ e.kind = "escalation"
                      THEN RecordEscalation(tracker, l, e.category)
                      ELSE tracker

\* A hook may register another one, which the same event then reaches.
HookReturns(l) ==
    /\ logger[l].phase = "dispatch"
    /\ Receive(l)
    /\ LET self == [logger[l] EXCEPT !.next = @ + 1]
       IN  \/ Become(l, Dispatching(self))
           \/ \E h \in Hooks :
                 /\ MayRegister(l, h)
                 /\ Become(l, Dispatching([self EXCEPT !.hooks = Append(@, h)]))
    /\ UNCHANGED <<disk, clock, counted, torn>>

\* Mutant of HookRaises: the other hooks are called nevertheless.
HookRaisesAlone(l) ==
    /\ "hook" \in Faults
    /\ logger[l].phase = "dispatch"
    /\ Receive(l) \/ UNCHANGED <<seen, tracker>>
    /\ Become(l, Dispatching([logger[l] EXCEPT !.next = @ + 1]))
    /\ UNCHANGED <<disk, clock, counted, torn>>

\* It may have done its work or not; the hooks after it are not called.
HookRaises(l) ==
    /\ "hook" \in Faults
    /\ logger[l].phase = "dispatch"
    /\ Receive(l) \/ UNCHANGED <<seen, tracker>>
    /\ Become(l, Raised(logger[l]))
    /\ UNCHANGED <<disk, clock, counted, torn>>

\* close flushes; the sink is closed even when that fails.
Close(l) ==
    LET text == logger[l].buffer
    IN  /\ Idle(l) /\ logger[l].open /\ l \in Closing
        /\ \E n \in IF "disk" \in Faults THEN 0 .. Len(text) ELSE {Len(text)} :
              WriteOut(text, n)
        /\ Become(l, [logger[l] EXCEPT !.open = FALSE, !.buffer = <<>>])
        /\ UNCHANGED <<seen, tracker, clock, counted, torn>>

\* At any other moment too; a part of a buffer may get out then.
Crash ==
    /\ \E l \in Loggers : Dies(logger[l].buffer)
    /\ UNCHANGED <<clock, counted>>

-----------------------------------------------------------------------------
LogNext ==
    \/ ClearTracker
    \/ Crash
    \/ \E l \in Loggers :
          \/ BeginCall(l) \/ Close(l)
          \/ \E h \in Hooks : RegisterHook(l, h)
          \/ \E t \in TriggersOf[l] :
                Escalate(l, t) \/ HandleCap(l, t) \/ ModelFailure(l, t)
          \/ HandleFailure(l) \/ HookReturns(l) \/ HookRaises(l)

LogSpec == LogInit /\ [][LogNext]_lvars

-----------------------------------------------------------------------------
(***************************************************************************)
(* cli.py: loopguard analyze.                                              *)
(***************************************************************************)
\* A line ends at a newline or where the text does, and starts behind the
\* newline before it.
EndsLine(text, i) ==
    IF i <= Len(text) THEN text[i] = NewLine
                      ELSE i > 1 /\ text[i - 1] # NewLine

LineBefore(text, end) ==
    SubSeq(text,
           1 + Max({0} \cup {i \in 1 .. end - 1 : text[i] = NewLine}), end - 1)

LinesOf(text) ==
    SelectAt([end \in 1 .. Len(text) + 1 |-> LineBefore(text, end)],
             {end \in 1 .. Len(text) + 1 : EndsLine(text, end)})

\* json.loads accepts exactly the complete text of an event.
IsJson(line) ==
    /\ Len(line) = 2
    /\ line[1][1] = "head" /\ line[2] = Tail2(line[1][2])

Malformed(line) == line # <<>> /\ ~ IsJson(line)

EventsAt(lines, places) ==
    [i \in 1 .. Cardinality(places) |-> SelectAt(lines, places)[i][1][2]]

\* Mutant of LoadJsonl: reading ends at the first malformed line.
LoadUntilMalformed(text) ==
    LET lines == LinesOf(text)
    IN  EventsAt(lines, {i \in DOMAIN lines :
                           /\ IsJson(lines[i])
                           /\ \A j \in 1 .. i : ~ Malformed(lines[j])})

\* load_jsonl: blank lines are skipped silently, malformed ones with a warning.
LoadJsonl(text) ==
    LET lines == LinesOf(text)
    IN  EventsAt(lines, {i \in DOMAIN lines : IsJson(lines[i])})

\* Mutant of IsEscalation: events that say what failed are taken as well.
IsAnyEvent(e) == e.kind # "capped"

\* _parse_event succeeds on the lines that log wrote.
IsEscalation(e) == e.kind = "escalation"

EventLog(events) ==
    SelectAt(events, {i \in DOMAIN events : IsEscalation(events[i])})

FilterTrigger(events, trigger) ==
    IF trigger = None THEN events
    ELSE SelectAt(events, {i \in DOMAIN events : events[i].trigger = trigger})

FilterSince(events, since) ==
    IF since = None THEN events
    ELSE SelectAt(events, {i \in DOMAIN events : events[i].at >= since})

FilterModel(events, pattern) ==
    IF pattern = None THEN events
    ELSE SelectAt(events, {i \in DOMAIN events :
                             ModelOf[events[i].by] \in Patterns[pattern]})

\* What analyze reports of a log with the options --trigger, --since, --model.
Analyze(events, trigger, since, pattern) ==
    FilterModel(FilterSince(FilterTrigger(events, trigger), since), pattern)

TriggerBreakdown(events) ==
    [t \in {events[i].trigger : i \in DOMAIN events} |->
        Cardinality({i \in DOMAIN events : events[i].trigger = t})]

-----------------------------------------------------------------------------
(***************************************************************************)
(* Type invariant.                                                         *)
(***************************************************************************)
LoggerState ==
    [open : BOOLEAN, buffer : Seq({NewLine} \cup ({"head", "tail"} \X Event)),
     hooks : Seq(Hooks), phase : {"idle", "dispatch", "raised"},
     event : Event \cup {None}, next : 0 .. MaxHooks + 1, left : 0 .. 2,
     escalations : 0 .. MaxEvents]

LogTypeOK ==
    /\ logger \in [Loggers -> LoggerState]
    /\ \A l \in Loggers : Len(logger[l].hooks) <= MaxHooks
    /\ IsTracker(tracker, Loggers)
    /\ clock \in 0 .. MaxEvents /\ torn \in 0 .. MaxTorn
    /\ counted \subseteq Event

Logged(e) == {Head1(e), Tail2(e)} \subseteq Range(disk)

EventsSeen(l, h) == {EventSeen(h, r) : r \in seen[l][h]}

(***************************************************************************)
(* "Flush immediately (ensures logs survive crashes)" (logging.py:230-235):*)
(* whatever a hook, a span or a counter shows is also in the file, even if *)
(* an earlier flush failed half-way.                                       *)
(***************************************************************************)
HooksSeeLoggedEvents ==
    \A l \in Loggers, h \in Hooks : \A e \in EventsSeen(l, h) : Logged(e)

(***************************************************************************)
(* Hooks are called in the order of registration and one that raises keeps *)
(* the event from those behind it (logging.py:250-251): a hook never has   *)
(* an event that one registered before it has not.                         *)
(***************************************************************************)
FirstAt(l, h) ==
    Min({i \in DOMAIN logger[l].hooks : logger[l].hooks[i] = h})

LaterHooksSeeNoMore ==
    \A l \in Loggers : \A g, h \in Range(logger[l].hooks) :
        FirstAt(l, g) < FirstAt(l, h) => EventsSeen(l, h) \subseteq EventsSeen(l, g)

(***************************************************************************)
(* analyze reports escalations that were counted, each once, and no event  *)
(* of another kind, whatever lines are torn; a breakdown by trigger since  *)
(* any date adds up to the total since that date (cli.py:62-71, 95-155).   *)
(***************************************************************************)
AnalyzeIsSound ==
    LET all == EventLog(LoadJsonl(disk))
    IN  /\ Range(all) \subseteq counted
        /\ IsInjective(all)
        /\ \A since \in {all[i].at : i \in DOMAIN all}, p \in DOMAIN Patterns :
              LET part == Analyze(all, None, since, p)
              IN  \A t \in DOMAIN TriggerBreakdown(part) :
                     TriggerBreakdown(part)[t] = Len(Analyze(all, t, since, p))

(***************************************************************************)
(* A torn event spoils only the lines glued to its pieces, which may lie   *)
(* apart: of the escalations whose own flush succeeded, analyze misses     *)
(* those that do not start a line, at most two for each failed flush or    *)
(* crash (logging.py:203-204, cli.py:189-205).                             *)
(***************************************************************************)
WrittenAt(e, i) == i + 2 <= Len(disk) /\ SubSeq(disk, i, i + 2) = Line(e)

Missed == {e \in counted : \E i \in DOMAIN disk : WrittenAt(e, i)}
             \ Range(EventLog(LoadJsonl(disk)))

LossIsBounded ==
    LET missed == Missed
    IN  /\ \A e \in missed : \E i \in DOMAIN disk :
              WrittenAt(e, i) /\ i > 1 /\ disk[i - 1] # NewLine
        /\ Cardinality(missed) <= 2 * torn

(***************************************************************************)
(* "Append mode: does not overwrite existing logs across restarts"         *)
(* (logging.py:203), nor does a logger what another one wrote.             *)
(***************************************************************************)
FileOnlyGrows == [][IsPrefix(disk, disk')]_disk

(***************************************************************************)
(* The categories of a tracker add up to its escalations, over all tasks   *)
(* and across clear(), and it never shows more of a category than the file *)
(* (cost.py:140-152, 212-233).                                             *)
(***************************************************************************)
TrackerAgrees ==
    /\ MapThenSumSet(LAMBDA c : RoutingVsFailover(tracker)[c], Categories)
          = TotalEscalations(tracker)
    /\ \A c \in Categories :
          RoutingVsFailover(tracker)[c] <=
             Cardinality({e \in counted : Logged(e) /\ e.category = c})

(***************************************************************************)
(* "Return the escalation rate as a float between 0.0 and 1.0."            *)
(* (cost.py:194, 201): never more escalations than guarded calls.  A call  *)
(* whose log raises behind the tracker is resolved, and counted, again.    *)
(***************************************************************************)
EscalationRateIsFraction == TotalEscalations(tracker) <= tracker.calls

=============================================================================
