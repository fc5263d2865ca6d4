----------------------------- MODULE LogProofs -----------------------------
(***************************************************************************)
(* Theorems about EscalationLog, for any loggers, hooks, failures of the   *)
(* disk, crashes and bounds: what hooks see of the file, in which order,   *)
(* and what analyze reads from it.                                         *)
(***************************************************************************)
EXTENDS EscalationLog, ListProofs

Piece == {NewLine} \cup {Head1(e) : e \in Event} \cup {Tail2(e) : e \in Event}

\* What hooks keep of events.
Records == Event \cup {Span(e) : e \in Event}

LoggerRecord ==
    [open : BOOLEAN, buffer : Seq(Piece), hooks : Seq(Hooks),
     phase : {"idle", "dispatch", "raised"}, event : Event \cup {None},
     next : Nat, left : Nat, escalations : Nat]

\* The event at hand has reached the file before any hook has its turn.
AtHand(self) ==
    /\ self.phase # "idle" => self.event \in Event
    /\ self.phase = "dispatch" =>
          Logged(self.event) /\ self.next \in 1 .. Len(self.hooks)

LogTypes ==
    /\ disk \in Seq(Piece)
    /\ logger \in [Loggers -> LoggerRecord]
    /\ clock \in Nat

HooksKnow ==
    /\ seen \in [Loggers -> [Hooks -> SUBSET Records]]
    /\ HooksSeeLoggedEvents

LogInv ==
    /\ LogTypes
    /\ \A l \in Loggers : AtHand(logger[l])
    /\ HooksKnow

-----------------------------------------------------------------------------
\* The file grows by some text.
Grows == disk' \in Seq(Piece) /\ \E s \in Seq(Piece) : disk' = disk \o s

LEMMA PiecesOfBoth ==
    ASSUME NEW s \in Seq(Piece), NEW t \in Seq(Piece)
    PROVE  Range(s \o t) = Range(s) \cup Range(t)
BY RangeConcatenation

LEMMA GrownKeepsPieces ==
    ASSUME disk \in Seq(Piece), Grows
    PROVE  Range(disk) \subseteq Range(disk')
<1>1. PICK s \in Seq(Piece) : disk' = disk \o s
  BY DEF Grows
<1> QED BY <1>1, PiecesOfBoth

\* A part of a text is a text.
LEMMA PartOfText ==
    ASSUME NEW text \in Seq(Piece), NEW m \in 1 .. Len(text) + 1,
           NEW n \in 0 .. Len(text)
    PROVE  SubSeq(text, m, n) \in Seq(Piece)
<1>1. \A i \in m .. n : text[i] \in Piece
  BY ElementOfSeq, LenProperties
<1> QED BY <1>1, SubSeqProperties, LenProperties

LEMMA WriteOutGrows ==
    ASSUME disk \in Seq(Piece), NEW text \in Seq(Piece),
           NEW n \in 0 .. Len(text), WriteOut(text, n)
    PROVE  Grows
<1>1. SubSeq(text, 1, n) \in Seq(Piece)
  BY PartOfText, LenProperties
<1> QED BY <1>1, ConcatProperties DEF Grows, WriteOut

\* A text that is written out whole has reached the file.
LEMMA WrittenIsLogged ==
    ASSUME disk \in Seq(Piece), NEW b \in Seq(Piece), NEW e \in Event,
           WriteOut(b \o Line(e), Len(b \o Line(e)))
    PROVE  Logged(e)'
<1>1. Line(e) \in Seq(Piece) /\ {Head1(e), Tail2(e)} \subseteq Range(Line(e))
  <2>1. Head1(e) \in Piece /\ Tail2(e) \in Piece /\ NewLine \in Piece
    BY DEF Piece
  <2>2. /\ Line(e) = <<Head1(e), Tail2(e), NewLine>>
        /\ Line(e)[1] = Head1(e) /\ Line(e)[2] = Tail2(e)
        /\ DOMAIN Line(e) = 1 .. 3
    BY DEF Line
  <2> QED BY <2>1, <2>2 DEF Range
<1>2. b \o Line(e) \in Seq(Piece)
  BY <1>1, ConcatProperties
<1>3. SubSeq(b \o Line(e), 1, Len(b \o Line(e))) = b \o Line(e)
  BY <1>2, SubSeqFull
<1>4. Range(disk') = Range(disk) \cup Range(b) \cup Range(Line(e))
  <2>1. disk' = disk \o (b \o Line(e))
    BY <1>3 DEF WriteOut
  <2>2. Range(b \o Line(e)) = Range(b) \cup Range(Line(e))
    BY <1>1, PiecesOfBoth
  <2>3. Range(disk \o (b \o Line(e))) = Range(disk) \cup Range(b \o Line(e))
    BY <1>2, PiecesOfBoth
  <2> QED BY <2>1, <2>2, <2>3
<1> QED BY <1>1, <1>4 DEF Logged

-----------------------------------------------------------------------------
\* The file stays or grows, so what was logged is logged.
DiskKept == Grows \/ UNCHANGED disk

LEMMA LoggedStays ==
    ASSUME disk \in Seq(Piece), DiskKept, NEW e, Logged(e)
    PROVE  Logged(e)'
BY GrownKeepsPieces DEF DiskKept, Logged

LEMMA NothingNewSeen ==
    ASSUME LogInv, DiskKept, UNCHANGED seen
    PROVE  HooksKnow'
<1> SUFFICES ASSUME NEW k \in Loggers, NEW h \in Hooks,
                    NEW e \in EventsSeen(k, h)
             PROVE  Logged(e)'
  BY DEF LogInv, HooksKnow, HooksSeeLoggedEvents, EventsSeen
<1>1. Logged(e)
  BY DEF LogInv, HooksKnow, HooksSeeLoggedEvents
<1> QED BY <1>1, LoggedStays DEF LogInv, LogTypes

\* A step of one logger.
LEMMA LoggerMoves ==
    ASSUME LogInv, DiskKept, HooksKnow', clock' \in Nat,
           NEW l \in Loggers, NEW self \in LoggerRecord, Become(l, self),
           AtHand(self)'
    PROVE  LogInv'
<1>1. /\ logger' \in [Loggers -> LoggerRecord] /\ logger'[l] = self
      /\ \A k \in Loggers \ {l} : logger'[k] = logger[k]
  BY DEF LogInv, LogTypes, Become
<1>2. LogTypes'
  BY <1>1 DEF LogInv, LogTypes, DiskKept, Grows
<1>3. \A k \in Loggers \ {l} : AtHand(logger[k])'
  <2> SUFFICES ASSUME NEW k \in Loggers \ {l} PROVE AtHand(logger[k])'
    OBVIOUS
  <2>1. AtHand(logger[k]) /\ logger'[k] = logger[k]
    BY <1>1 DEF LogInv
  <2>2. Logged(logger[k].event) => Logged(logger[k].event)'
    <3> SUFFICES ASSUME Logged(logger[k].event)
                 PROVE  Logged(logger[k].event)'
      OBVIOUS
    <3> DEFINE e == logger[k].event
    <3>1. logger'[k].event = e
      BY <2>1
    <3>2. Range(disk) \subseteq Range(disk')
      BY GrownKeepsPieces DEF DiskKept, LogInv, LogTypes
    <3> QED BY <3>1, <3>2 DEF Logged
  <2> QED BY <2>1, <2>2 DEF AtHand
<1>4. AtHand(logger[l])'
  BY <1>1 DEF AtHand, Logged
<1> QED BY <1>2, <1>3, <1>4 DEF LogInv

\* An event that is done with, or whose log raised.
LEMMA EndsAtHand ==
    ASSUME NEW self \in LoggerRecord, self.event \in Event
    PROVE  /\ Finished(self) \in LoggerRecord /\ AtHand(Finished(self))'
           /\ Raised(self) \in LoggerRecord /\ AtHand(Raised(self))'
<1>1. /\ Settled(self) \in LoggerRecord /\ Settled(self).phase = "idle"
      /\ Raised(self) \in LoggerRecord /\ AtHand(Raised(self))'
      /\ AtHand(Settled(self))'
  BY DEF Settled, Raised, AtHand, LoggerRecord
<1> DEFINE over == [Settled(self) EXCEPT !.left = 0]
<1>2. over \in LoggerRecord /\ over.phase = "idle"
  BY <1>1 DEF LoggerRecord
<1>3. AtHand(over)'
  BY <1>2 DEF AtHand
<1> QED BY <1>1, <1>2, <1>3 DEF Finished

\* The next hook has its turn, if there is one.
LEMMA DispatchingAtHand ==
    ASSUME NEW self \in LoggerRecord, self.event \in Event, self.next # 0,
           Logged(self.event)'
    PROVE  /\ Dispatching(self) \in LoggerRecord
           /\ AtHand(Dispatching(self))'
<1>1. Len(self.hooks) \in Nat
  BY LenProperties DEF LoggerRecord
<1>2. CASE self.next > Len(self.hooks)
  BY <1>2, EndsAtHand DEF Dispatching
<1>3. CASE ~ (self.next > Len(self.hooks))
  <2> DEFINE d == [self EXCEPT !.phase = "dispatch"]
  <2>1. d \in LoggerRecord /\ d.event = self.event /\ d.next = self.next
        /\ d.hooks = self.hooks /\ d.phase = "dispatch" /\ self.next \in Nat
    BY DEF LoggerRecord
  <2>2. Dispatching(self) = d
    BY <1>3 DEF Dispatching
  <2> HIDE DEF d
  <2>3. d.next \in 1 .. Len(d.hooks)
    BY <1>1, <1>3, <2>1
  <2>4. AtHand(d)'
    BY <2>1, <2>3 DEF AtHand, Logged
  <2> QED BY <2>1, <2>2, <2>4
<1> QED BY <1>2, <1>3

-----------------------------------------------------------------------------
\* A new event is an event.
LEMMA EventType ==
    ASSUME LogInv, MoreEvents, NEW l \in Loggers, NEW kind \in Kinds,
           NEW t \in Triggers
    PROVE  EventOf(l, kind, t) \in Event
<1>1. clock + 1 \in 1 .. MaxEvents
  BY LogAssumption DEF LogInv, LogTypes, MoreEvents
<1> QED BY <1>1 DEF EventOf, Event, Category, Categories

\* The process dies.
LEMMA NewLoggerType == NewLogger \in LoggerRecord /\ NewLogger.phase = "idle"
BY EmptySeq DEF NewLogger, LoggerRecord

LEMMA DiesKeeps ==
    ASSUME LogInv, NEW text \in Seq(Piece), Dies(text), clock' \in Nat
    PROVE  LogInv' /\ DiskKept
<1>1. PICK n \in 0 .. Len(text) : WriteOut(text, n)
  BY DEF Dies, Reopened, WriteOut
<1>2. Grows
  BY <1>1, WriteOutGrows DEF LogInv, LogTypes
<1>3. logger' = [l \in Loggers |-> NewLogger] /\ seen' = NothingSeen
  BY DEF Dies
<1>4. LogTypes'
  BY <1>2, <1>3, NewLoggerType DEF LogInv, LogTypes, Grows
<1>5. HooksKnow'
  BY <1>3 DEF HooksKnow, HooksSeeLoggedEvents, EventsSeen, NothingSeen
<1>6. \A l \in Loggers : AtHand(logger[l])'
  BY <1>3, NewLoggerType DEF AtHand
<1> QED BY <1>2, <1>4, <1>5, <1>6 DEF LogInv, DiskKept

\* An event is submitted: it reaches the file whole before it reaches a hook.
LEMMA SubmitKeeps ==
    ASSUME LogInv, NEW l \in Loggers, NEW e \in Event,
           NEW self \in LoggerRecord, Submit(l, e, self)
    PROVE  LogInv' /\ DiskKept
<1> DEFINE text == self.buffer \o Line(e)
           with == [self EXCEPT !.event = e]
<1>1. /\ with \in LoggerRecord /\ with.event = e
      /\ self.buffer \in Seq(Piece)
  BY DEF LoggerRecord
<1>2. Line(e) \in Seq(Piece)
  BY DEF Line, Piece
<1>3. text \in Seq(Piece) /\ Len(text) \in Nat
  BY <1>1, <1>2, ConcatProperties, LenProperties
<1>4. clock' \in Nat /\ disk \in Seq(Piece)
  BY DEF Submit, LogInv, LogTypes
<1>5. CASE Flushed(l, with, text) /\ UNCHANGED seen
  <2> DEFINE sent == [with EXCEPT !.buffer = <<>>, !.next = 1]
  <2>1. sent \in LoggerRecord /\ sent.event = e /\ sent.next = 1
    BY <1>1, EmptySeq DEF LoggerRecord
  <2>2. Logged(e)' /\ Grows
    <3>1. WriteOut(text, Len(text))
      BY <1>5 DEF Flushed
    <3>2. Logged(e)'
      BY <1>1, <1>4, <3>1, WrittenIsLogged
    <3>3. Len(text) \in 0 .. Len(text)
      BY <1>3
    <3>4. Grows
      BY <1>3, <1>4, <3>1, <3>3, WriteOutGrows
    <3> QED BY <3>2, <3>4
  <2>3. Become(l, Dispatching(sent))
    BY <1>5 DEF Flushed
  <2> HIDE DEF sent
  <2>4. Logged(sent.event)'
    BY <2>1, <2>2 DEF Logged
  <2>5. Dispatching(sent) \in LoggerRecord /\ AtHand(Dispatching(sent))'
    BY <2>1, <2>4, DispatchingAtHand
  <2> QED BY <1>4, <1>5, <2>2, <2>3, <2>5, LoggerMoves, NothingNewSeen DEF DiskKept
<1>6. CASE FlushFailed(l, with, text) /\ UNCHANGED seen
  <2>1. PICK n \in 0 .. Len(text) - 1 :
           /\ WriteOut(text, n)
           /\ Become(l, Raised([with EXCEPT
                           !.buffer = SubSeq(text, n + 1, Len(text))]))
    BY <1>6 DEF FlushFailed
  <2> DEFINE left == [with EXCEPT !.buffer = SubSeq(text, n + 1, Len(text))]
  <2>2. /\ n + 1 \in 1 .. Len(text) + 1 /\ Len(text) \in 0 .. Len(text)
        /\ n \in 0 .. Len(text)
    BY <1>3
  <2>3. SubSeq(text, n + 1, Len(text)) \in Seq(Piece)
    BY <1>3, <2>2, PartOfText
  <2>4. left \in LoggerRecord /\ left.event = e
    BY <1>1, <2>3 DEF LoggerRecord
  <2>5. Grows
    BY <1>3, <1>4, <2>1, <2>2, WriteOutGrows
  <2> HIDE DEF left
  <2>6. Raised(left) \in LoggerRecord /\ AtHand(Raised(left))'
    BY <2>4, EndsAtHand
  <2>7. Become(l, Raised(left))
    BY <2>1 DEF left
  <2> QED BY <1>4, <1>6, <2>5, <2>6, <2>7, LoggerMoves, NothingNewSeen DEF DiskKept
<1>7. CASE Become(l, Raised(with)) /\ UNCHANGED <<disk, seen>>
  <2> HIDE DEF with
  <2>1. Raised(with) \in LoggerRecord /\ AtHand(Raised(with))'
    BY <1>1, EndsAtHand
  <2> QED BY <1>4, <1>7, <2>1, LoggerMoves, NothingNewSeen DEF DiskKept
<1>8. CASE Dies(text)
  BY <1>3, <1>4, <1>8, DiesKeeps
<1> HIDE DEF text, with
<1>9. \/ Flushed(l, with, text) /\ UNCHANGED seen
      \/ FlushFailed(l, with, text) /\ UNCHANGED seen
      \/ Become(l, Raised(with)) /\ UNCHANGED <<disk, seen>>
      \/ Dies(text)
  BY DEF Submit, text, with
<1> QED BY <1>5, <1>6, <1>7, <1>8, <1>9

-----------------------------------------------------------------------------
\* A hook that has its turn receives an event that is in the file.
LEMMA ReceiveKeeps ==
    ASSUME LogInv, NEW l \in Loggers, logger[l].phase = "dispatch",
           UNCHANGED disk, Receive(l)
    PROVE  HooksKnow'
<1> DEFINE self == logger[l]
           h == self.hooks[self.next]
           e == self.event
<1>1. self \in LoggerRecord /\ AtHand(self)
  BY DEF LogInv, LogTypes
<1>2. e \in Event /\ Logged(e) /\ h \in Hooks
  BY <1>1, ElementOfSeq DEF AtHand, LoggerRecord
<1>3. Received(h, e) \in Records /\ EventSeen(h, Received(h, e)) = e
  BY <1>2 DEF Received, EventSeen, Records, Span
<1>4. seen' = [seen EXCEPT ![l][h] = @ \cup {Received(h, e)}]
  BY DEF Receive
<1>5. seen \in [Loggers -> [Hooks -> SUBSET Records]]
  BY DEF LogInv, HooksKnow
<1> HIDE DEF h, e
<1>6. seen' \in [Loggers -> [Hooks -> SUBSET Records]]
  BY <1>2, <1>3, <1>4, <1>5
<1>7. ASSUME NEW k \in Loggers, NEW g \in Hooks, NEW r \in seen'[k][g]
      PROVE  Logged(EventSeen(g, r))
  <2>1. CASE r \in seen[k][g]
    BY <2>1 DEF LogInv, HooksKnow, HooksSeeLoggedEvents, EventsSeen
  <2>2. CASE r \notin seen[k][g]
    <3>1. k = l /\ g = h /\ r = Received(h, e)
      BY <1>2, <1>4, <1>5, <1>7, <2>2
    <3> QED BY <1>2, <1>3, <3>1
  <2> QED BY <2>1, <2>2
<1>8. \A x : Logged(x)' <=> Logged(x)
  BY DEF Logged
<1> QED
  BY <1>6, <1>7, <1>8 DEF HooksKnow, HooksSeeLoggedEvents, EventsSeen, EventSeen

\* Hooks are called one after the other.
LEMMA DispatchKeeps ==
    ASSUME LogInv, NEW l \in Loggers, HookReturns(l) \/ HookRaises(l)
    PROVE  LogInv' /\ DiskKept
<1>0. PICK old \in LoggerRecord : old = logger[l]
  BY DEF LogInv, LogTypes
<1> DEFINE next == [old EXCEPT !.next = @ + 1]
<1>1. /\ old.phase = "dispatch" /\ UNCHANGED <<disk, clock>>
      /\ Receive(l) \/ UNCHANGED seen
  BY <1>0 DEF HookReturns, HookRaises
<1>2. AtHand(old) /\ clock \in Nat
  BY <1>0 DEF LogInv, LogTypes
<1>3. old.event \in Event /\ Logged(old.event)
  BY <1>1, <1>2 DEF AtHand
<1>4. HooksKnow' /\ DiskKept /\ clock' \in Nat
  BY <1>0, <1>1, <1>2, ReceiveKeeps, NothingNewSeen DEF DiskKept
<1>5. next \in LoggerRecord /\ next.event = old.event /\ next.next # 0
  <2>1. old.next + 1 \in Nat /\ old.next + 1 # 0
    BY DEF LoggerRecord
  <2>2. next = [old EXCEPT !.next = old.next + 1]
    OBVIOUS
  <2> HIDE DEF next
  <2> QED BY <2>1, <2>2 DEF LoggerRecord
<1>6. \A x : Logged(x) => Logged(x)'
  BY <1>1 DEF Logged
<1> HIDE DEF next
<1>7. CASE Become(l, Dispatching(next))
  <2>1. Logged(next.event)'
    BY <1>3, <1>5, <1>6
  <2>2. Dispatching(next) \in LoggerRecord /\ AtHand(Dispatching(next))'
    BY <1>3, <1>5, <2>1, DispatchingAtHand
  <2> QED BY <1>4, <1>7, <2>2, LoggerMoves
<1>8. ASSUME NEW h \in Hooks,
             Become(l, Dispatching([next EXCEPT !.hooks = Append(@, h)]))
      PROVE  LogInv' /\ DiskKept
  <2> DEFINE more == [next EXCEPT !.hooks = Append(@, h)]
  <2>1. Append(next.hooks, h) \in Seq(Hooks)
    BY <1>5, AppendProperties DEF LoggerRecord
  <2>2. more \in LoggerRecord /\ more.event = next.event /\ more.next = next.next
    BY <1>5, <2>1 DEF LoggerRecord
  <2> HIDE DEF more
  <2>3. Logged(more.event)'
    BY <1>3, <1>5, <1>6, <2>2
  <2>4. Dispatching(more) \in LoggerRecord /\ AtHand(Dispatching(more))'
    BY <1>3, <1>5, <2>2, <2>3, DispatchingAtHand
  <2>5. Become(l, Dispatching(more))
    BY <1>8 DEF more
  <2> QED BY <1>4, <2>4, <2>5, LoggerMoves
<1>9. CASE Become(l, Raised(old))
  <2>1. Raised(old) \in LoggerRecord /\ AtHand(Raised(old))'
    BY <1>2, <1>3, EndsAtHand
  <2> QED BY <1>4, <1>9, <2>1, LoggerMoves
<1> QED BY <1>0, <1>4, <1>7, <1>8, <1>9 DEF HookReturns, HookRaises, next

-----------------------------------------------------------------------------
\* What a guard has logged, raised and handled.
LEMMA EventsKeep ==
    ASSUME LogInv, NEW l \in Loggers,
           \/ \E t \in TriggersOf[l] :
                 Escalate(l, t) \/ HandleCap(l, t) \/ ModelFailure(l, t)
           \/ HandleFailure(l)
    PROVE  LogInv' /\ DiskKept
<1>1. PICK old \in LoggerRecord : old = logger[l]
  BY DEF LogInv, LogTypes
<1>2. ASSUME NEW t \in TriggersOf[l],
             Escalate(l, t) \/ HandleCap(l, t) \/ ModelFailure(l, t)
      PROVE  LogInv' /\ DiskKept
  <2>1. t \in Triggers /\ MoreEvents /\ old.left > 0
    BY <1>1, <1>2 DEF Triggers, Escalate, HandleCap, ModelFailure, MayLog
  <2>2. \A kind \in Kinds : EventOf(l, kind, t) \in Event
    BY <2>1, EventType
  <2>3. old.left - 1 \in Nat /\ old.escalations + 1 \in Nat
    BY <2>1 DEF LoggerRecord
  <2>4. /\ [old EXCEPT !.left = @ - 1] \in LoggerRecord
        /\ [old EXCEPT !.left = @ - 1, !.escalations = @ + 1] \in LoggerRecord
    BY <2>3 DEF LoggerRecord
  <2> QED
    BY <1>1, <1>2, <2>2, <2>4, SubmitKeeps
    DEF Escalate, HandleCap, ModelFailure, Kinds
<1>3. CASE HandleFailure(l)
  <2>1. old.event \in Event /\ MoreEvents
    BY <1>1, <1>3 DEF HandleFailure, LogInv, AtHand
  <2>2. old.event.trigger \in Triggers
    BY <2>1 DEF Event
  <2>3. EventOf(l, "failopen", old.event.trigger) \in Event
    BY <2>1, <2>2, EventType DEF Kinds
  <2> QED BY <1>1, <1>3, <2>3, SubmitKeeps DEF HandleFailure
<1> QED BY <1>2, <1>3

\* The steps that need no event.
LEMMA IdleKeeps ==
    ASSUME LogInv, NEW l \in Loggers,
           BeginCall(l) \/ Close(l) \/ \E h \in Hooks : RegisterHook(l, h)
    PROVE  LogInv' /\ DiskKept
<1>1. PICK old \in LoggerRecord : old = logger[l]
  BY DEF LogInv, LogTypes
<1>2. old.phase = "idle" /\ UNCHANGED seen /\ clock' \in Nat
  BY <1>1 DEF BeginCall, Close, RegisterHook, Idle, LogInv, LogTypes
<1>3. ASSUME NEW self \in LoggerRecord, self.phase = "idle", Become(l, self),
             DiskKept
      PROVE  LogInv' /\ DiskKept
  <2>1. AtHand(self)'
    BY <1>3 DEF AtHand
  <2> QED BY <1>2, <1>3, <2>1, LoggerMoves, NothingNewSeen
<1>4. CASE BeginCall(l)
  <2> DEFINE self == [old EXCEPT !.left = 2]
  <2>1. self \in LoggerRecord /\ self.phase = "idle"
    BY <1>2 DEF LoggerRecord
  <2>2. Become(l, self) /\ DiskKept
    BY <1>1, <1>4 DEF BeginCall, DiskKept
  <2> HIDE DEF self
  <2> QED BY <1>3, <2>1, <2>2
<1>5. ASSUME NEW h \in Hooks, RegisterHook(l, h) PROVE LogInv' /\ DiskKept
  <2>1. Append(old.hooks, h) \in Seq(Hooks)
    BY AppendProperties DEF LoggerRecord
  <2> DEFINE self == [old EXCEPT !.hooks = Append(@, h)]
  <2>2. self \in LoggerRecord /\ self.phase = "idle"
    BY <1>2, <2>1 DEF LoggerRecord
  <2>3. Become(l, self) /\ DiskKept
    BY <1>1, <1>5 DEF RegisterHook, DiskKept
  <2> HIDE DEF self
  <2> QED BY <1>3, <2>2, <2>3
<1>6. CASE Close(l)
  <2>1. old.buffer \in Seq(Piece) /\ Len(old.buffer) \in Nat
    BY LenProperties DEF LoggerRecord
  <2>2. PICK n \in 0 .. Len(old.buffer) : WriteOut(old.buffer, n)
    BY <1>1, <1>6, <2>1 DEF Close
  <2>3. DiskKept
    BY <2>1, <2>2, WriteOutGrows DEF DiskKept, LogInv, LogTypes
  <2> DEFINE self == [old EXCEPT !.open = FALSE, !.buffer = <<>>]
  <2>4. self \in LoggerRecord /\ self.phase = "idle"
    BY <1>2, EmptySeq DEF LoggerRecord
  <2>5. Become(l, self)
    BY <1>1, <1>6 DEF Close
  <2> HIDE DEF self
  <2> QED BY <1>3, <2>3, <2>4, <2>5
<1> QED BY <1>4, <1>5, <1>6

LEMMA LogStep == LogInv /\ [LogNext]_lvars => LogInv' /\ DiskKept
<1> SUFFICES ASSUME LogInv, [LogNext]_lvars PROVE LogInv' /\ DiskKept
  OBVIOUS
<1>1. CASE ClearTracker
  <2>1. \A l \in Loggers : logger[l] \in LoggerRecord /\ logger[l].phase = "idle"
    BY <1>1 DEF LogInv, LogTypes, ClearTracker, Idle
  <2>2. \A l \in Loggers : /\ logger'[l] \in LoggerRecord
                           /\ logger'[l].phase = "idle"
    BY <1>1, <2>1 DEF ClearTracker, LoggerRecord
  <2>3. UNCHANGED <<disk, seen, clock>>
    BY <1>1 DEF ClearTracker
  <2>4. HooksKnow'
    BY <2>3, NothingNewSeen DEF DiskKept
  <2>5. LogTypes'
    BY <1>1, <2>2, <2>3 DEF LogInv, LogTypes, ClearTracker
  <2> QED BY <2>2, <2>3, <2>4, <2>5 DEF LogInv, AtHand, DiskKept
<1>2. CASE Crash
  <2>1. PICK l \in Loggers : Dies(logger[l].buffer)
    BY <1>2 DEF Crash
  <2>2. logger[l].buffer \in Seq(Piece) /\ clock' \in Nat
    BY <1>2 DEF Crash, LogInv, LogTypes, LoggerRecord
  <2> QED BY <2>1, <2>2, DiesKeeps
<1>3. CASE UNCHANGED lvars
  BY <1>3 DEF lvars, LogInv, LogTypes, HooksKnow, HooksSeeLoggedEvents,
              EventsSeen, AtHand, Logged, DiskKept
<1> QED
  BY <1>1, <1>2, <1>3, IdleKeeps, EventsKeep, DispatchKeeps DEF LogNext

LEMMA LogInitial == LogInit => LogInv
<1> SUFFICES ASSUME LogInit PROVE LogInv
  OBVIOUS
<1> QED
  BY NewLoggerType, EmptySeq
  DEF LogInit, LogInv, LogTypes, HooksKnow, HooksSeeLoggedEvents, EventsSeen,
      NothingSeen, AtHand

\* The invariant of the log holds for ever.
THEOREM LogCorrect == LogSpec => []LogInv
BY LogInitial, LogStep, PTL DEF LogSpec

(***************************************************************************)
(* Whatever a hook, a span or a counter shows is in the file, whichever    *)
(* flushes failed and wherever a crash came in between.                    *)
(***************************************************************************)
THEOREM HooksSeeWhatIsLogged == LogSpec => []HooksSeeLoggedEvents
<1>1. LogInv => HooksSeeLoggedEvents
  BY DEF LogInv, HooksKnow
<1> QED BY <1>1, LogCorrect, PTL

-----------------------------------------------------------------------------
\* Nothing is taken out of the file.
LEMMA GrownIsPrefix ==
    ASSUME disk \in Seq(Piece), Grows
    PROVE  IsPrefix(disk, disk')
<1>1. PICK s \in Seq(Piece) : disk' = disk \o s
  BY DEF Grows
<1>2. /\ Len(disk) \in Nat /\ Len(s) \in Nat
      /\ Len(disk') = Len(disk) + Len(s)
  BY <1>1, LenProperties, ConcatProperties
<1>3. SubSeq(disk, 1, Len(disk)) = SubSeq(disk', 1, Len(disk))
  <2>1. CASE Len(disk) = 0
    BY <1>1, <1>2, <2>1, SubSeqEmpty
  <2>2. CASE Len(disk) # 0
    <3>1. 1 \in 1 .. Len(disk) /\ Len(disk) \in 1 .. Len(disk)
      BY <1>2, <2>2
    <3>2. SubSeq(disk \o s, 1, Len(disk)) = SubSeq(disk, 1, Len(disk))
      BY <3>1, SubSeqOfConcat1
    <3> QED BY <1>1, <3>2
  <2> QED BY <2>1, <2>2
<1> QED BY <1>2, <1>3 DEF IsPrefix

LEMMA LogGrows == LogInv /\ [LogNext]_lvars => [IsPrefix(disk, disk')]_disk
BY LogStep, GrownIsPrefix DEF DiskKept, LogInv, LogTypes

(***************************************************************************)
(* No logger, no failed flush and no restart takes anything out of the     *)
(* file, for any number of them.                                           *)
(***************************************************************************)
THEOREM NothingIsOverwritten == LogSpec => FileOnlyGrows
BY LogCorrect, LogGrows, PTL DEF LogSpec, FileOnlyGrows

-----------------------------------------------------------------------------
(***************************************************************************)
(* The order of the hooks.                                                 *)
(***************************************************************************)
\* Each hook is registered once; what a hook got, those before it got; the
\* first n hooks got the event e; the other hooks got nothing.
InOrder(hooks, got, n, e) ==
    /\ \A i, j \in DOMAIN hooks : hooks[i] = hooks[j] => i = j
    /\ \A i, j \in DOMAIN hooks : i < j => got[hooks[j]] \subseteq got[hooks[i]]
    /\ \A i \in DOMAIN hooks : i <= n => e \in got[hooks[i]]
    /\ \A h \in Hooks \ Range(hooks) : got[h] = {}

Got(l) == [h \in Hooks |-> EventsSeen(l, h)]

\* How many hooks have had their turn with the event at hand.
Turns(self) == IF self.phase = "dispatch" THEN self.next - 1 ELSE 0

HooksInOrder(l) ==
    InOrder(logger[l].hooks, Got(l), Turns(logger[l]), logger[l].event)

OrderInv == LogInv /\ \A l \in Loggers : HooksInOrder(l)

\* One more hook at the end of the list.
LEMMA AppendInOrder ==
    ASSUME NEW hooks \in Seq(Hooks), NEW got, NEW n \in Nat, NEW e,
           InOrder(hooks, got, n, e), n <= Len(hooks),
           NEW h \in Hooks, h \notin Range(hooks)
    PROVE  InOrder(Append(hooks, h), got, n, e)
<1> DEFINE more == Append(hooks, h)
<1>1. /\ Len(hooks) \in Nat /\ DOMAIN hooks = 1 .. Len(hooks)
      /\ DOMAIN more = 1 .. Len(hooks) + 1
      /\ \A i \in DOMAIN hooks : more[i] = hooks[i]
      /\ more[Len(hooks) + 1] = h
  BY AppendProperties, LenProperties
<1>2. \A i \in DOMAIN hooks : hooks[i] # h
  BY DEF Range
<1>3. got[h] = {}
  BY DEF InOrder
<1>4. \A i \in DOMAIN more : i \in DOMAIN hooks \/ i = Len(hooks) + 1
  BY <1>1
<1>5. Range(hooks) \subseteq Range(more)
  BY <1>1 DEF Range
<1> HIDE DEF more
<1>6. \A i, j \in DOMAIN more : more[i] = more[j] => i = j
  BY <1>1, <1>2, <1>4 DEF InOrder
<1>7. \A i, j \in DOMAIN more : i < j => got[more[j]] \subseteq got[more[i]]
  <2> SUFFICES ASSUME NEW i \in DOMAIN more, NEW j \in DOMAIN more, i < j
               PROVE  got[more[j]] \subseteq got[more[i]]
    OBVIOUS
  <2>1. i \in DOMAIN hooks
    BY <1>1
  <2>2. CASE j \in DOMAIN hooks
    BY <1>1, <2>1, <2>2 DEF InOrder
  <2>3. CASE j = Len(hooks) + 1
    BY <1>1, <1>3, <2>3
  <2> QED BY <1>4, <2>2, <2>3
<1>8. \A i \in DOMAIN more : i <= n => e \in got[more[i]]
  <2> SUFFICES ASSUME NEW i \in DOMAIN more, i <= n PROVE e \in got[more[i]]
    OBVIOUS
  <2>1. i \in DOMAIN hooks
    BY <1>1
  <2> QED BY <1>1, <2>1 DEF InOrder
<1>9. \A g \in Hooks \ Range(more) : got[g] = {}
  BY <1>5 DEF InOrder
<1> QED BY <1>6, <1>7, <1>8, <1>9 DEF InOrder, more

\* The next hook gets the event.
LEMMA ReceiveInOrder ==
    ASSUME NEW hooks \in Seq(Hooks), NEW got, DOMAIN got = Hooks, NEW e,
           NEW n \in 1 .. Len(hooks), InOrder(hooks, got, n - 1, e)
    PROVE  InOrder(hooks, [got EXCEPT ![hooks[n]] = @ \cup {e}], n, e)
<1> DEFINE then == [got EXCEPT ![hooks[n]] = @ \cup {e}]
<1>1. /\ Len(hooks) \in Nat /\ DOMAIN hooks = 1 .. Len(hooks)
      /\ \A i \in DOMAIN hooks : hooks[i] \in Hooks
  BY LenProperties, ElementOfSeq
<1>2. /\ then[hooks[n]] = got[hooks[n]] \cup {e}
      /\ \A h \in Hooks : h # hooks[n] => then[h] = got[h]
  BY <1>1
<1>3. hooks[n] \in Range(hooks)
  BY <1>1 DEF Range
<1> HIDE DEF then
<1>4. \A h \in Hooks : got[h] \subseteq then[h]
  BY <1>2
<1>5. \A i, j \in DOMAIN hooks : i < j => then[hooks[j]] \subseteq then[hooks[i]]
  <2> SUFFICES ASSUME NEW i \in DOMAIN hooks, NEW j \in DOMAIN hooks, i < j
               PROVE  then[hooks[j]] \subseteq then[hooks[i]]
    OBVIOUS
  <2>1. got[hooks[j]] \subseteq got[hooks[i]]
    BY DEF InOrder
  <2>2. CASE j = n
    <3>1. i <= n - 1
      BY <1>1, <2>2
    <3>2. e \in got[hooks[i]]
      BY <3>1 DEF InOrder
    <3> QED BY <1>1, <1>2, <1>4, <2>1, <2>2, <3>2
  <2>3. CASE j # n
    <3>1. then[hooks[j]] = got[hooks[j]]
      BY <1>1, <1>2, <2>3 DEF InOrder
    <3> QED BY <1>1, <1>4, <2>1, <3>1
  <2> QED BY <2>2, <2>3
<1>6. \A i \in DOMAIN hooks : i <= n => e \in then[hooks[i]]
  <2> SUFFICES ASSUME NEW i \in DOMAIN hooks, i <= n PROVE e \in then[hooks[i]]
    OBVIOUS
  <2>1. CASE i = n
    BY <1>2, <2>1
  <2>2. CASE i # n
    <3>1. i <= n - 1
      BY <1>1, <2>2
    <3> QED BY <1>1, <1>4, <3>1 DEF InOrder
  <2> QED BY <2>1, <2>2
<1>7. \A h \in Hooks \ Range(hooks) : then[h] = {}
  BY <1>2, <1>3 DEF InOrder
<1> QED BY <1>5, <1>6, <1>7 DEF InOrder, then

\* Another event, which no hook has had a turn with.
LEMMA OtherInOrder ==
    ASSUME NEW hooks \in Seq(Hooks), NEW got, NEW n, NEW e, NEW f,
           InOrder(hooks, got, n, e)
    PROVE  InOrder(hooks, got, 0, f)
<1>1. \A i \in DOMAIN hooks : ~ (i <= 0)
  BY LenProperties
<1> QED BY <1>1 DEF InOrder

\* A logger whose hooks stay as they are, and get nothing.
Rests(k) ==
    /\ logger'[k].hooks = logger[k].hooks
    /\ seen'[k] = seen[k]
    /\ Turns(logger'[k]) = 0 \/ logger'[k] = logger[k]

LEMMA RestInOrder ==
    ASSUME OrderInv, NEW k \in Loggers, Rests(k)
    PROVE  HooksInOrder(k)'
<1>1. Got(k)' = Got(k)
  BY DEF Rests, Got, EventsSeen
<1>2. HooksInOrder(k) /\ logger[k].hooks \in Seq(Hooks)
  BY DEF OrderInv, LogInv, LogTypes, LoggerRecord
<1>3. CASE logger'[k] = logger[k]
  BY <1>1, <1>2, <1>3 DEF HooksInOrder
<1>4. CASE Turns(logger'[k]) = 0
  <2>1. InOrder(logger[k].hooks, Got(k), 0, logger'[k].event)
    BY <1>2, OtherInOrder DEF HooksInOrder
  <2> QED BY <1>1, <1>4, <2>1 DEF HooksInOrder, Rests
<1> QED BY <1>3, <1>4 DEF Rests

\* A step of one logger leaves the others alone.
LEMMA OthersRest ==
    ASSUME LogInv, NEW l \in Loggers, NEW self, Become(l, self),
           NEW k \in Loggers \ {l}, seen'[k] = seen[k]
    PROVE  Rests(k)
BY DEF LogInv, LogTypes, Become, Rests

LEMMA LoggerRests ==
    ASSUME LogInv, UNCHANGED seen, NEW l \in Loggers, NEW self,
           Become(l, self), self.hooks = logger[l].hooks, Turns(self) = 0
    PROVE  \A k \in Loggers : Rests(k)
<1>1. logger'[l] = self
  BY DEF LogInv, LogTypes, Become
<1> QED BY <1>1, OthersRest DEF Rests

\* The hooks of an event that is at its end, or at its first hook.
LEMMA EndKeepsHooks ==
    ASSUME NEW self \in LoggerRecord
    PROVE  /\ Finished(self).hooks = self.hooks /\ Turns(Finished(self)) = 0
           /\ Raised(self).hooks = self.hooks /\ Turns(Raised(self)) = 0
           /\ Dispatching(self).hooks = self.hooks
           /\ Turns(Dispatching(self)) \in {0, self.next - 1}
<1>1. /\ Finished(self).hooks = self.hooks /\ Finished(self).phase = "idle"
      /\ Raised(self).hooks = self.hooks /\ Raised(self).phase # "dispatch"
  BY DEF Finished, Settled, Raised, LoggerRecord
<1>2. CASE self.next > Len(self.hooks)
  BY <1>1, <1>2 DEF Dispatching, Turns
<1>3. CASE ~ (self.next > Len(self.hooks))
  <2>1. /\ Dispatching(self).hooks = self.hooks
        /\ Dispatching(self).next = self.next
        /\ Dispatching(self).phase = "dispatch"
    BY <1>3 DEF Dispatching, LoggerRecord
  <2> QED BY <1>1, <2>1 DEF Turns
<1> QED BY <1>2, <1>3

\* The process has died.
Restarts == logger' = [l \in Loggers |-> NewLogger] /\ seen' = NothingSeen

LEMMA SubmitRests ==
    ASSUME LogInv, NEW l \in Loggers, NEW e \in Event,
           NEW self \in LoggerRecord, self.hooks = logger[l].hooks,
           Submit(l, e, self)
    PROVE  Restarts \/ \A k \in Loggers : Rests(k)
<1> DEFINE text == self.buffer \o Line(e)
           with == [self EXCEPT !.event = e]
<1>1. /\ with \in LoggerRecord /\ with.hooks = logger[l].hooks
      /\ self.buffer \in Seq(Piece)
  BY DEF LoggerRecord
<1>2. Line(e) \in Seq(Piece)
  BY DEF Line, Piece
<1>3. text \in Seq(Piece) /\ Len(text) \in Nat
  BY <1>1, <1>2, ConcatProperties, LenProperties
<1> HIDE DEF with, text
<1>5. CASE Flushed(l, with, text) /\ UNCHANGED seen
  <2> DEFINE sent == [with EXCEPT !.buffer = <<>>, !.next = 1]
  <2>1. sent \in LoggerRecord /\ sent.next = 1 /\ sent.hooks = with.hooks
    BY <1>1, EmptySeq DEF LoggerRecord
  <2>2. Become(l, Dispatching(sent))
    BY <1>5 DEF Flushed
  <2> HIDE DEF sent
  <2>3. Turns(Dispatching(sent)) = 0 /\ Dispatching(sent).hooks = sent.hooks
    BY <2>1, EndKeepsHooks
  <2> QED BY <1>1, <1>5, <2>1, <2>2, <2>3, LoggerRests
<1>6. CASE FlushFailed(l, with, text) /\ UNCHANGED seen
  <2>1. PICK n \in 0 .. Len(text) - 1 :
           Become(l, Raised([with EXCEPT
                        !.buffer = SubSeq(text, n + 1, Len(text))]))
    BY <1>6 DEF FlushFailed
  <2> DEFINE left == [with EXCEPT !.buffer = SubSeq(text, n + 1, Len(text))]
  <2>2. n + 1 \in 1 .. Len(text) + 1 /\ Len(text) \in 0 .. Len(text)
    BY <1>3
  <2>3. SubSeq(text, n + 1, Len(text)) \in Seq(Piece)
    BY <1>3, <2>2, PartOfText
  <2>4. left \in LoggerRecord /\ left.hooks = with.hooks
    BY <1>1, <2>3 DEF LoggerRecord
  <2>5. Become(l, Raised(left))
    BY <2>1
  <2> HIDE DEF left
  <2> QED BY <1>1, <1>6, <2>4, <2>5, EndKeepsHooks, LoggerRests
<1>7. CASE Become(l, Raised(with)) /\ UNCHANGED seen
  BY <1>1, <1>7, EndKeepsHooks, LoggerRests
<1>8. CASE Dies(text)
  BY <1>8 DEF Dies, Restarts
<1>9. \/ Flushed(l, with, text) /\ UNCHANGED seen
      \/ FlushFailed(l, with, text) /\ UNCHANGED seen
      \/ Become(l, Raised(with)) /\ UNCHANGED seen
      \/ Dies(text)
  BY DEF Submit, text, with
<1> QED BY <1>5, <1>6, <1>7, <1>8, <1>9

\* The order of the hooks does not depend on where the event at hand is.
LEMMA EndInOrder ==
    ASSUME NEW self \in LoggerRecord, NEW got,
           InOrder(self.hooks, got, self.next - 1, self.event)
    PROVE  /\ InOrder(Dispatching(self).hooks, got, Turns(Dispatching(self)),
                      Dispatching(self).event)
           /\ InOrder(Raised(self).hooks, got, Turns(Raised(self)),
                      Raised(self).event)
<1>0. self.hooks \in Seq(Hooks)
  BY DEF LoggerRecord
<1>1. \A f : InOrder(self.hooks, got, 0, f)
  BY <1>0, OtherInOrder
<1>2. InOrder(Raised(self).hooks, got, Turns(Raised(self)), Raised(self).event)
  BY <1>1, EndKeepsHooks
<1>3. CASE self.next > Len(self.hooks)
  BY <1>1, <1>2, <1>3, EndKeepsHooks DEF Dispatching
<1>4. CASE ~ (self.next > Len(self.hooks))
  <2>1. /\ Dispatching(self).event = self.event
        /\ Dispatching(self).hooks = self.hooks
        /\ Turns(Dispatching(self)) = self.next - 1
    BY <1>4 DEF Dispatching, Turns, LoggerRecord
  <2> QED BY <1>2, <2>1
<1> QED BY <1>2, <1>3, <1>4

LEMMA ReceiveGets ==
    ASSUME LogInv, NEW l \in Loggers, logger[l].phase = "dispatch", Receive(l)
    PROVE  /\ Got(l)' = [Got(l) EXCEPT
                           ![logger[l].hooks[logger[l].next]] =
                              @ \cup {logger[l].event}]
           /\ \A k \in Loggers \ {l} : seen'[k] = seen[k]
<1>1. logger[l] \in LoggerRecord /\ AtHand(logger[l])
  BY DEF LogInv, LogTypes
<1>2. PICK h \in Hooks : h = logger[l].hooks[logger[l].next]
  BY <1>1, ElementOfSeq DEF AtHand, LoggerRecord
<1>10. PICK e : e = logger[l].event
  OBVIOUS
<1>3. EventSeen(h, Received(h, e)) = e
  BY DEF Received, EventSeen, Span
<1>4. seen' = [seen EXCEPT ![l][h] = @ \cup {Received(h, e)}]
  BY <1>10, <1>2 DEF Receive
<1>5. seen \in [Loggers -> [Hooks -> SUBSET Records]]
  BY DEF LogInv, HooksKnow
<1>6. /\ seen'[l][h] = seen[l][h] \cup {Received(h, e)}
      /\ \A g \in Hooks \ {h} : seen'[l][g] = seen[l][g]
      /\ \A k \in Loggers \ {l} : seen'[k] = seen[k]
  BY <1>10, <1>2, <1>4, <1>5
<1>7. EventsSeen(l, h)' = EventsSeen(l, h) \cup {e}
  BY <1>3, <1>6 DEF EventsSeen
<1>8. \A g \in Hooks \ {h} : EventsSeen(l, g)' = EventsSeen(l, g)
  BY <1>6 DEF EventsSeen
<1>9. Got(l)' = [Got(l) EXCEPT ![h] = @ \cup {e}]
  BY <1>2, <1>7, <1>8 DEF Got
<1> QED BY <1>10, <1>2, <1>6, <1>9

LEMMA DispatchInOrder ==
    ASSUME OrderInv, NEW l \in Loggers, HookReturns(l) \/ HookRaises(l)
    PROVE  \A k \in Loggers : HooksInOrder(k)'
<1>0. PICK old \in LoggerRecord : old = logger[l]
  BY DEF OrderInv, LogInv, LogTypes
<1> DEFINE n == old.next
           next == [old EXCEPT !.next = n + 1]
           then == [Got(l) EXCEPT ![old.hooks[n]] = @ \cup {old.event}]
<1>1. old.phase = "dispatch" /\ LogInv
  BY <1>0 DEF HookReturns, HookRaises, OrderInv
<1>2. /\ old.hooks \in Seq(Hooks) /\ Len(old.hooks) \in Nat
      /\ n \in 1 .. Len(old.hooks)
  <2>1. AtHand(old)
    BY <1>0 DEF OrderInv, LogInv
  <2> QED BY <1>1, <2>1, LenProperties DEF AtHand, LoggerRecord
<1>3. InOrder(old.hooks, Got(l), n - 1, old.event)
  BY <1>0, <1>1 DEF OrderInv, HooksInOrder, Turns
<1>4. DOMAIN Got(l) = Hooks
  BY DEF Got
<1>5. InOrder(old.hooks, then, n, old.event)
  BY <1>2, <1>3, <1>4, ReceiveInOrder
<1>6. /\ next \in LoggerRecord /\ next.next - 1 = n
      /\ next.hooks = old.hooks /\ next.event = old.event
  BY <1>2 DEF LoggerRecord
<1>7. \A k \in Loggers \ {l} : seen'[k] = seen[k]
  BY <1>0, <1>1, ReceiveGets DEF HookReturns, HookRaises
<1>8. Receive(l) => Got(l)' = then
  BY <1>0, <1>1, ReceiveGets
<1>9. UNCHANGED seen => Got(l)' = Got(l)
  BY DEF Got, EventsSeen
<1> HIDE DEF n, next, then
<1>10. ASSUME NEW self, Become(l, self),
              InOrder(self.hooks, Got(l)', Turns(self), self.event)
       PROVE  \A k \in Loggers : HooksInOrder(k)'
  <2>1. logger'[l] = self
    BY <1>1, <1>10 DEF LogInv, LogTypes, Become
  <2>2. HooksInOrder(l)'
    BY <1>10, <2>1 DEF HooksInOrder
  <2>3. \A k \in Loggers \ {l} : HooksInOrder(k)'
    BY <1>1, <1>7, <1>10, OthersRest, RestInOrder
  <2> QED BY <2>2, <2>3
<1>11. CASE HookRaises(l)
  <2>1. Become(l, Raised(old))
    BY <1>0, <1>11 DEF HookRaises
  <2>2. CASE Receive(l)
    <3>1. InOrder(old.hooks, Got(l)', 0, old.event)
      BY <1>2, <1>5, <1>8, <2>2, OtherInOrder
    <3>2. Raised(old).hooks = old.hooks /\ Turns(Raised(old)) = 0
      BY EndKeepsHooks
    <3>3. InOrder(old.hooks, Got(l)', 0, Raised(old).event)
      BY <1>2, <3>1, OtherInOrder
    <3> QED BY <1>10, <2>1, <3>2, <3>3
  <2>3. CASE UNCHANGED seen
    <3>1. InOrder(old.hooks, Got(l)', n - 1, old.event)
      BY <1>3, <1>9, <2>3
    <3>2. InOrder(Raised(old).hooks, Got(l)', Turns(Raised(old)),
                  Raised(old).event)
      BY <3>1, EndInOrder DEF n
    <3> QED BY <1>10, <2>1, <3>2
  <2> QED BY <1>11, <2>2, <2>3 DEF HookRaises
<1>12. CASE HookReturns(l)
  <2>1. InOrder(next.hooks, Got(l)', next.next - 1, next.event)
    BY <1>5, <1>6, <1>8, <1>12 DEF HookReturns
  <2>2. CASE Become(l, Dispatching(next))
    BY <1>6, <1>10, <2>1, <2>2, EndInOrder
  <2>3. ASSUME NEW h \in Hooks, MayRegister(l, h),
               Become(l, Dispatching([next EXCEPT !.hooks = Append(@, h)]))
        PROVE  \A k \in Loggers : HooksInOrder(k)'
    <3> DEFINE more == [next EXCEPT !.hooks = Append(@, h)]
    <3>1. Append(next.hooks, h) \in Seq(Hooks)
      BY <1>2, <1>6, AppendProperties
    <3>2. /\ more \in LoggerRecord /\ more.event = next.event
          /\ more.next = next.next /\ more.hooks = Append(next.hooks, h)
      BY <1>6, <3>1 DEF LoggerRecord
    <3>3. h \notin Range(next.hooks)
      BY <1>0, <1>6, <2>3 DEF MayRegister
    <3>4. InOrder(Append(next.hooks, h), Got(l)', n, next.event)
      BY <1>2, <1>6, <2>1, <3>3, AppendInOrder DEF n
    <3> HIDE DEF more
    <3>5. InOrder(more.hooks, Got(l)', more.next - 1, more.event)
      BY <1>6, <3>2, <3>4
    <3>6. Become(l, Dispatching(more))
      BY <2>3 DEF more
    <3> QED BY <1>10, <3>2, <3>5, <3>6, EndInOrder
  <2>4. \/ Become(l, Dispatching(next))
        \/ \E h \in Hooks :
              /\ MayRegister(l, h)
              /\ Become(l, Dispatching([next EXCEPT !.hooks = Append(@, h)]))
    BY <1>0, <1>12 DEF HookReturns, next, n
  <2> QED BY <2>2, <2>3, <2>4
<1> QED BY <1>11, <1>12

LEMMA RegisterInOrder ==
    ASSUME OrderInv, NEW l \in Loggers, NEW h \in Hooks, RegisterHook(l, h)
    PROVE  \A k \in Loggers : HooksInOrder(k)'
<1>1. PICK old \in LoggerRecord : old = logger[l]
  BY DEF OrderInv, LogInv, LogTypes
<1> DEFINE self == [old EXCEPT !.hooks = Append(@, h)]
<1>2. /\ old.hooks \in Seq(Hooks) /\ Len(old.hooks) \in Nat
      /\ h \notin Range(old.hooks) /\ Turns(old) = 0 /\ Turns(self) = 0
      /\ UNCHANGED seen
  BY <1>1, LenProperties
  DEF RegisterHook, MayRegister, Idle, Turns, LoggerRecord
<1>3. logger'[l] = self /\ Become(l, self) /\ LogInv
  BY <1>1 DEF RegisterHook, Become, OrderInv, LogInv, LogTypes
<1>4. InOrder(old.hooks, Got(l), 0, self.event)
  BY <1>1, <1>2, OtherInOrder DEF OrderInv, HooksInOrder
<1>5. InOrder(Append(old.hooks, h), Got(l), 0, self.event)
  BY <1>2, <1>4, AppendInOrder
<1>6. Got(l)' = Got(l) /\ self.hooks = Append(old.hooks, h)
  BY <1>2 DEF Got, EventsSeen, LoggerRecord
<1> HIDE DEF self
<1>7. HooksInOrder(l)'
  BY <1>2, <1>3, <1>5, <1>6 DEF HooksInOrder
<1>8. \A k \in Loggers \ {l} : HooksInOrder(k)'
  BY <1>2, <1>3, OthersRest, RestInOrder
<1> QED BY <1>7, <1>8

\* The steps of a guard that leave the hooks alone.
LEMMA GuardStepInOrder ==
    ASSUME OrderInv, NEW l \in Loggers,
           \/ BeginCall(l) \/ Close(l) \/ HandleFailure(l)
           \/ \E t \in TriggersOf[l] :
                 Escalate(l, t) \/ HandleCap(l, t) \/ ModelFailure(l, t)
    PROVE  Restarts \/ \A k \in Loggers : Rests(k)
<1>1. PICK old \in LoggerRecord : old = logger[l]
  BY DEF OrderInv, LogInv, LogTypes
<1>2. LogInv
  BY DEF OrderInv
<1>3. CASE BeginCall(l)
  <2> DEFINE self == [old EXCEPT !.left = 2]
  <2>1. Become(l, self) /\ UNCHANGED seen /\ Turns(self) = 0
        /\ self.hooks = old.hooks
    BY <1>1, <1>3 DEF BeginCall, Idle, Turns, LoggerRecord
  <2> HIDE DEF self
  <2> QED BY <1>1, <1>2, <2>1, LoggerRests
<1>4. CASE Close(l)
  <2> DEFINE self == [old EXCEPT !.open = FALSE, !.buffer = <<>>]
  <2>1. Become(l, self) /\ UNCHANGED seen /\ Turns(self) = 0
        /\ self.hooks = old.hooks
    BY <1>1, <1>4 DEF Close, Idle, Turns, LoggerRecord
  <2> HIDE DEF self
  <2> QED BY <1>1, <1>2, <2>1, LoggerRests
<1>5. CASE HandleFailure(l)
  <2>1. old.event \in Event /\ MoreEvents
    BY <1>1, <1>2, <1>5 DEF HandleFailure, LogInv, AtHand
  <2>2. EventOf(l, "failopen", old.event.trigger) \in Event
    BY <1>2, <2>1, EventType DEF Kinds, Event
  <2> QED BY <1>1, <1>2, <1>5, <2>2, SubmitRests DEF HandleFailure
<1>6. ASSUME NEW t \in TriggersOf[l],
             Escalate(l, t) \/ HandleCap(l, t) \/ ModelFailure(l, t)
      PROVE  Restarts \/ \A k \in Loggers : Rests(k)
  <2>1. t \in Triggers /\ MoreEvents /\ old.left > 0
    BY <1>1, <1>6 DEF Triggers, Escalate, HandleCap, ModelFailure, MayLog
  <2>2. \A kind \in Kinds : EventOf(l, kind, t) \in Event
    BY <1>2, <2>1, EventType
  <2>3. old.left - 1 \in Nat /\ old.escalations + 1 \in Nat
    BY <2>1 DEF LoggerRecord
  <2> DEFINE once == [old EXCEPT !.left = @ - 1]
             twice == [old EXCEPT !.left = @ - 1, !.escalations = @ + 1]
  <2>4. /\ once \in LoggerRecord /\ once.hooks = old.hooks
        /\ twice \in LoggerRecord /\ twice.hooks = old.hooks
    BY <2>3 DEF LoggerRecord
  <2>5. \/ Submit(l, EventOf(l, "escalation", t), twice)
        \/ Submit(l, EventOf(l, "capped", t), once)
        \/ Submit(l, EventOf(l, "failopen", t), once)
    BY <1>1, <1>6 DEF Escalate, HandleCap, ModelFailure
  <2> HIDE DEF once, twice
  <2> QED BY <1>1, <1>2, <2>2, <2>4, <2>5, SubmitRests DEF Kinds
<1> QED BY <1>3, <1>4, <1>5, <1>6

LEMMA NewInOrder ==
    ASSUME logger = [l \in Loggers |-> NewLogger], seen = NothingSeen
    PROVE  \A l \in Loggers : HooksInOrder(l)
BY DEF NewLogger, NothingSeen, HooksInOrder, InOrder, Got, EventsSeen, Turns

LEMMA OrderStep == OrderInv /\ [LogNext]_lvars => OrderInv'
<1> SUFFICES ASSUME OrderInv, [LogNext]_lvars PROVE OrderInv'
  OBVIOUS
<1>1. LogInv'
  BY LogStep DEF OrderInv
<1>2. CASE ClearTracker
  <2>1. \A k \in Loggers : Rests(k)
    BY <1>2 DEF ClearTracker, Rests, Turns, Idle, OrderInv, LogInv, LogTypes,
                LoggerRecord
  <2> QED BY <1>1, <2>1, RestInOrder DEF OrderInv
<1>3. CASE Restarts
  <2>1. logger' = [l \in Loggers |-> NewLogger] /\ seen' = NothingSeen
    BY <1>3 DEF Restarts
  <2>2. \A l \in Loggers : HooksInOrder(l)'
    BY <2>1 DEF NewLogger, NothingSeen, HooksInOrder, InOrder, Got, EventsSeen,
                Turns
  <2> QED BY <1>1, <2>2 DEF OrderInv
<1>4. CASE UNCHANGED lvars
  <2>1. \A k \in Loggers : Rests(k)
    BY <1>4 DEF lvars, Rests
  <2> QED BY <1>1, <2>1, RestInOrder DEF OrderInv
<1>5. ASSUME NEW l \in Loggers,
             \/ BeginCall(l) \/ Close(l) \/ HandleFailure(l)
             \/ \E t \in TriggersOf[l] :
                   Escalate(l, t) \/ HandleCap(l, t) \/ ModelFailure(l, t)
      PROVE  OrderInv'
  <2>1. Restarts \/ \A k \in Loggers : Rests(k)
    BY <1>5, GuardStepInOrder
  <2> QED BY <1>1, <1>3, <2>1, RestInOrder DEF OrderInv
<1>6. ASSUME NEW l \in Loggers,
             \/ \E h \in Hooks : RegisterHook(l, h)
             \/ HookReturns(l) \/ HookRaises(l)
      PROVE  OrderInv'
  BY <1>1, <1>6, RegisterInOrder, DispatchInOrder DEF OrderInv
<1>7. Crash => Restarts
  BY DEF Crash, Dies, Restarts
<1> QED BY <1>2, <1>3, <1>4, <1>5, <1>6, <1>7 DEF LogNext

\* Of hooks in order, one that stands behind another one has no more events.
LEMMA OrderIsWhatIsSeen == OrderInv => LaterHooksSeeNoMore
<1> SUFFICES ASSUME OrderInv, NEW l \in Loggers,
                    NEW g \in Range(logger[l].hooks),
                    NEW h \in Range(logger[l].hooks),
                    FirstAt(l, g) < FirstAt(l, h)
             PROVE  EventsSeen(l, h) \subseteq EventsSeen(l, g)
  BY DEF LaterHooksSeeNoMore
<1> DEFINE hooks == logger[l].hooks
<1>1. /\ HooksInOrder(l) /\ hooks \in Seq(Hooks)
      /\ DOMAIN hooks = 1 .. Len(hooks) /\ Len(hooks) \in Nat
  BY LenProperties DEF OrderInv, LogInv, LogTypes, LoggerRecord
<1>2. ASSUME NEW x \in Range(hooks)
      PROVE  \E i \in DOMAIN hooks : hooks[i] = x /\ FirstAt(l, x) = i
  <2>1. PICK i \in DOMAIN hooks : hooks[i] = x
    BY <1>2 DEF Range
  <2>2. {j \in DOMAIN hooks : hooks[j] = x} = {i}
    BY <1>1, <2>1 DEF HooksInOrder, InOrder
  <2>3. i <= i
    BY <1>1
  <2>4. Min({i}) = i
    BY <2>3 DEF Min
  <2> QED BY <2>1, <2>2, <2>4 DEF FirstAt
<1>3. PICK i \in DOMAIN hooks : hooks[i] = g /\ FirstAt(l, g) = i
  BY <1>2
<1>4. PICK j \in DOMAIN hooks : hooks[j] = h /\ FirstAt(l, h) = j
  BY <1>2
<1>5. Got(l)[hooks[j]] \subseteq Got(l)[hooks[i]]
  BY <1>1, <1>3, <1>4 DEF HooksInOrder, InOrder
<1>6. g \in Hooks /\ h \in Hooks
  BY <1>1, <1>3, <1>4, ElementOfSeq
<1> QED BY <1>3, <1>4, <1>5, <1>6 DEF Got

(***************************************************************************)
(* A hook that is registered once never has an event that one registered   *)
(* before it has not: whichever hooks raise, with or without their work    *)
(* done, whichever register others in the middle of a dispatch, and        *)
(* whatever is flushed, closed or lost in between.                         *)
(***************************************************************************)
THEOREM HooksAreServedInOrder == LogSpec => []LaterHooksSeeNoMore
<1>1. LogInit => OrderInv
  BY LogInitial, NewInOrder DEF LogInit, OrderInv
<1> QED BY <1>1, OrderStep, OrderIsWhatIsSeen, PTL DEF LogSpec

-----------------------------------------------------------------------------
(***************************************************************************)
(* What analyze reads.  The events in a text are those it holds the first  *)
(* half of; a text is whole where each of them starts a line and the last  *)
(* line has its end, as it is in a buffer, unless a flush broke the first. *)
(***************************************************************************)
IsStart(piece) == \E e \in Event : piece = Head1(e)

EventsIn(text) == {e \in Event : Head1(e) \in Range(text)}

Once(text) ==
    \A e \in Event : \A i, j \in DOMAIN text :
        text[i] = Head1(e) /\ text[j] = Head1(e) => i = j

Whole(text) ==
    /\ \A i \in 2 .. Len(text) : IsStart(text[i]) => text[i - 1] = NewLine
    /\ text # <<>> => text[Len(text)] = NewLine

\* What is known of an event that is in a text.
Known(e) == e.at <= clock /\ (e.kind = "escalation" => e \in counted)

BufferSound(l) ==
    LET text == logger[l].buffer
    IN  /\ Whole(text) /\ Once(text)
        /\ EventsIn(text) \cap EventsIn(disk) = {}
        /\ \A e \in EventsIn(text) : e.by = l /\ Known(e)

TextInv ==
    /\ counted \subseteq {e \in Event : e.kind = "escalation"}
    /\ Once(disk)
    /\ \A e \in EventsIn(disk) : Known(e)
    /\ \A l \in Loggers : BufferSound(l)

(***************************************************************************)
(* The number of events that do not start a line grows later than the      *)
(* number of failures: a failed flush leaves a line without its end, which *)
(* the next text is glued to, and a buffer that may itself break off when  *)
(* its logger is closed.  With both counted the bound is inductive.        *)
(***************************************************************************)
GluedIn(text) ==
    {i \in 2 .. Len(text) : IsStart(text[i]) /\ text[i - 1] # NewLine}

CutIn(text) == IF text # <<>> /\ text[Len(text)] # NewLine THEN 1 ELSE 0

Waiting == {l \in Loggers : logger[l].buffer # <<>>}

LossInv ==
    /\ torn \in Nat
    /\ Cardinality(GluedIn(disk)) + CutIn(disk) + Cardinality(Waiting) <= 2 * torn

-----------------------------------------------------------------------------
\* Texts, their halves and their concatenation.
LEMMA PiecesDiffer ==
    /\ \A e, f : Head1(e) = Head1(f) => e = f
    /\ \A e, f : Head1(e) # Tail2(f)
    /\ \A e : Head1(e) # NewLine
    /\ \A e : Tail2(e) # NewLine
    /\ \A e : Tail2(e)[1] # "head"
    /\ NewLine[1] # "head"
<1>1. \A e : Head1(e)[1] = "head" /\ Head1(e)[2] = e
  BY DEF Head1
<1>2. \A e : Tail2(e)[1] = "tail"
  BY DEF Tail2
<1>3. NewLine[1] = "newline"
  BY DEF NewLine
<1>4. "head" # "tail" /\ "head" # "newline" /\ "tail" # "newline"
  OBVIOUS
<1> QED BY <1>1, <1>2, <1>3, <1>4

\* An event is in a text when one of the pieces is its first half.
LEMMA EventPlace ==
    ASSUME NEW text \in Seq(Piece), NEW e \in Event
    PROVE  e \in EventsIn(text) <=> \E i \in 1 .. Len(text) : text[i] = Head1(e)
<1>1. DOMAIN text = 1 .. Len(text)
  BY LenProperties
<1> QED BY <1>1 DEF EventsIn, Range

LEMMA EventsOfBoth ==
    ASSUME NEW s \in Seq(Piece), NEW t \in Seq(Piece)
    PROVE  EventsIn(s \o t) = EventsIn(s) \cup EventsIn(t)
BY PiecesOfBoth DEF EventsIn

\* Each event is once in a concatenation if it is once in one of the parts.
LEMMA OnceInBoth ==
    ASSUME NEW s \in Seq(Piece), NEW t \in Seq(Piece)
    PROVE  Once(s \o t) <=> /\ Once(s) /\ Once(t)
                            /\ EventsIn(s) \cap EventsIn(t) = {}
<1> DEFINE m == Len(s)
           n == Len(t)
           st == s \o t
<1>1. /\ m \in Nat /\ n \in Nat
      /\ DOMAIN s = 1 .. m /\ DOMAIN t = 1 .. n /\ DOMAIN st = 1 .. m + n
      /\ \A i \in 1 .. m + n : st[i] = IF i <= m THEN s[i] ELSE t[i - m]
  BY ConcatProperties, LenProperties
<1> HIDE DEF m, n, st
<1>2. \A i \in 1 .. m : i \in 1 .. m + n /\ st[i] = s[i]
  BY <1>1
<1>3. \A i \in 1 .. n : m + i \in 1 .. m + n /\ st[m + i] = t[i]
  BY <1>1
<1>4. \A i \in 1 .. m + n : i \in 1 .. m \/ (i - m \in 1 .. n /\ st[i] = t[i - m])
  BY <1>1
<1>5. /\ \A e \in Event : e \in EventsIn(s) <=> \E i \in 1 .. m : s[i] = Head1(e)
      /\ \A e \in Event : e \in EventsIn(t) <=> \E i \in 1 .. n : t[i] = Head1(e)
  BY EventPlace DEF m, n
<1>6. ASSUME Once(st)
      PROVE  Once(s) /\ Once(t) /\ EventsIn(s) \cap EventsIn(t) = {}
  <2>1. Once(s)
    BY <1>1, <1>2, <1>6 DEF Once
  <2>2. Once(t)
    <3> SUFFICES ASSUME NEW e \in Event, NEW i \in 1 .. n, NEW j \in 1 .. n,
                        t[i] = Head1(e), t[j] = Head1(e)
                 PROVE  i = j
      BY <1>1 DEF Once
    <3>1. m + i = m + j
      BY <1>1, <1>3, <1>6 DEF Once
    <3> QED BY <1>1, <3>1
  <2>3. ASSUME NEW e \in EventsIn(s), e \in EventsIn(t) PROVE FALSE
    <3>1. e \in Event
      BY DEF EventsIn
    <3>2. PICK i \in 1 .. m : s[i] = Head1(e)
      BY <1>5, <3>1
    <3>3. PICK j \in 1 .. n : t[j] = Head1(e)
      BY <1>5, <2>3, <3>1
    <3>4. i = m + j
      BY <1>1, <1>2, <1>3, <1>6, <3>1, <3>2, <3>3 DEF Once
    <3> QED BY <1>1, <3>4
  <2> QED BY <2>1, <2>2, <2>3
<1>7. ASSUME Once(s), Once(t), EventsIn(s) \cap EventsIn(t) = {}
      PROVE  Once(st)
  <2> SUFFICES ASSUME NEW e \in Event, NEW i \in 1 .. m + n, NEW j \in 1 .. m + n,
                      st[i] = Head1(e), st[j] = Head1(e)
               PROVE  i = j
    BY <1>1 DEF Once
  <2>1. CASE i \in 1 .. m /\ j \in 1 .. m
    BY <1>1, <1>2, <1>7, <2>1 DEF Once
  <2>2. CASE i \notin 1 .. m /\ j \notin 1 .. m
    <3>1. i - m = j - m
      BY <1>1, <1>4, <1>7, <2>2 DEF Once
    <3> QED BY <1>1, <3>1
  <2>3. CASE i \in 1 .. m /\ j \notin 1 .. m
    <3>1. e \in EventsIn(s) /\ e \in EventsIn(t)
      BY <1>2, <1>4, <1>5, <2>3
    <3> QED BY <1>7, <3>1
  <2>4. CASE i \notin 1 .. m /\ j \in 1 .. m
    <3>1. e \in EventsIn(s) /\ e \in EventsIn(t)
      BY <1>2, <1>4, <1>5, <2>4
    <3> QED BY <1>7, <3>1
  <2> QED BY <2>1, <2>2, <2>3, <2>4
<1> QED BY <1>6, <1>7 DEF st

LEMMA EmptyText ==
    EventsIn(<<>>) = {} /\ Once(<<>>) /\ Whole(<<>>)
<1>1. <<>> \in Seq(Piece) /\ Len(<<>>) = 0
  BY EmptySeq
<1>2. DOMAIN <<>> = {} /\ Range(<<>>) = {}
  BY DEF Range
<1> QED BY <1>1, <1>2 DEF EventsIn, Once, Whole

\* The text of one event.
LEMMA LineText ==
    ASSUME NEW e \in Event
    PROVE  /\ Line(e) \in Seq(Piece) /\ Len(Line(e)) = 3
           /\ Line(e)[1] = Head1(e) /\ Line(e)[2] = Tail2(e)
           /\ Line(e)[3] = NewLine
           /\ EventsIn(Line(e)) = {e} /\ Once(Line(e)) /\ Whole(Line(e))
<1>1. /\ Line(e) \in Seq(Piece) /\ Len(Line(e)) = 3
      /\ Line(e)[1] = Head1(e) /\ Line(e)[2] = Tail2(e)
      /\ Line(e)[3] = NewLine
  BY DEF Line, Piece
<1>2. DOMAIN Line(e) = 1 .. 3
  BY <1>1, LenProperties
<1>3. \A f, i : i \in 1 .. 3 /\ Line(e)[i] = Head1(f) => i = 1 /\ f = e
  BY <1>1, PiecesDiffer
<1>4. EventsIn(Line(e)) = {e}
  <2>1. \A f \in Event : f \in EventsIn(Line(e)) <=> f = e
    BY <1>1, <1>3, EventPlace
  <2> QED BY <2>1 DEF EventsIn
<1>5. Once(Line(e))
  BY <1>2, <1>3 DEF Once
<1>6. Whole(Line(e))
  BY <1>1, <1>3 DEF Whole, IsStart
<1> QED BY <1>1, <1>4, <1>5, <1>6

LEMMA WholeBoth ==
    ASSUME NEW s \in Seq(Piece), NEW t \in Seq(Piece), Whole(s), Whole(t)
    PROVE  Whole(s \o t)
<1> DEFINE m == Len(s)
           n == Len(t)
           st == s \o t
<1>1. /\ m \in Nat /\ n \in Nat /\ Len(st) = m + n /\ st \in Seq(Piece)
      /\ \A i \in 1 .. m + n : st[i] = IF i <= m THEN s[i] ELSE t[i - m]
  BY ConcatProperties, LenProperties
<1>2. (s # <<>> <=> m # 0) /\ (t # <<>> <=> n # 0)
  BY EmptySeq DEF m, n
<1> HIDE DEF m, n, st
<1>3. /\ \A i \in 2 .. m : IsStart(s[i]) => s[i - 1] = NewLine
      /\ m # 0 => s[m] = NewLine
      /\ \A i \in 2 .. n : IsStart(t[i]) => t[i - 1] = NewLine
      /\ n # 0 => t[n] = NewLine
  BY <1>2 DEF Whole, m, n
<1>4. ASSUME NEW i \in 2 .. m + n, IsStart(st[i]) PROVE st[i - 1] = NewLine
  <2>1. i \in 1 .. m + n /\ i - 1 \in 1 .. m + n
    BY <1>1
  <2>2. CASE i <= m
    <3>1. i \in 2 .. m /\ st[i] = s[i] /\ st[i - 1] = s[i - 1]
      BY <1>1, <2>1, <2>2
    <3> QED BY <1>3, <1>4, <3>1
  <2>3. CASE i = m + 1
    <3>1. st[i - 1] = s[m] /\ m # 0
      BY <1>1, <2>1, <2>3
    <3> QED BY <1>3, <3>1
  <2>4. CASE i > m + 1
    <3>1. /\ i - m \in 2 .. n /\ st[i] = t[i - m]
          /\ st[i - 1] = t[(i - m) - 1]
      BY <1>1, <2>1, <2>4
    <3> QED BY <1>3, <1>4, <3>1
  <2> QED BY <1>1, <2>2, <2>3, <2>4
<1>5. st # <<>> => st[m + n] = NewLine
  <2>1. CASE n # 0
    <3>1. st[m + n] = t[n]
      BY <1>1, <2>1
    <3> QED BY <1>3, <2>1, <3>1
  <2>2. CASE n = 0 /\ m # 0
    <3>1. st[m + n] = s[m]
      BY <1>1, <2>2
    <3> QED BY <1>3, <2>2, <3>1
  <2>3. CASE n = 0 /\ m = 0
    <3>1. st = <<>>
      BY <1>1, <2>3, EmptySeq
    <3> QED BY <3>1
  <2> QED BY <2>1, <2>2, <2>3
<1> QED BY <1>1, <1>4, <1>5 DEF Whole, st

\* The end of a text.
LEMMA EndOfText ==
    ASSUME NEW text \in Seq(Piece), NEW m \in 1 .. Len(text) + 1
    PROVE  LET q == SubSeq(text, m, Len(text))
           IN  /\ q \in Seq(Piece) /\ Len(q) = Len(text) + 1 - m
               /\ \A i \in 1 .. Len(text) + 1 - m : q[i] = text[m + i - 1]
<1>1. Len(text) \in Nat
  BY LenProperties
<1>2. PICK n \in Nat : n = Len(text)
  BY <1>1
<1>3. \A i \in m .. n : text[i] \in Piece
  BY <1>2, ElementOfSeq
<1>4. /\ SubSeq(text, m, n) \in Seq(Piece)
      /\ Len(SubSeq(text, m, n)) = IF m <= n THEN n - m + 1 ELSE 0
      /\ \A i \in 1 .. n - m + 1 : SubSeq(text, m, n)[i] = text[m + i - 1]
  BY <1>1, <1>2, <1>3, SubSeqProperties
<1>5. /\ m \in Int /\ m <= n + 1
      /\ n - m + 1 = n + 1 - m
      /\ (IF m <= n THEN n - m + 1 ELSE 0) = n + 1 - m
  BY <1>2
<1> QED BY <1>2, <1>4, <1>5

\* A text that breaks off in two parts.
LEMMA TornText ==
    ASSUME NEW text \in Seq(Piece), NEW n \in 0 .. Len(text)
    PROVE  LET p == SubSeq(text, 1, n)
               q == SubSeq(text, n + 1, Len(text))
           IN  /\ p \in Seq(Piece) /\ Len(p) = n
               /\ \A i \in 1 .. n : p[i] = text[i]
               /\ q \in Seq(Piece)
               /\ q = <<>> <=> n = Len(text)
               /\ p \o q = text
               /\ Whole(text) => Whole(q)
<1> DEFINE p == SubSeq(text, 1, n)
           q == SubSeq(text, n + 1, Len(text))
           len == Len(text)
<1>1. len \in Nat /\ n \in Nat /\ n <= len
  BY LenProperties
<1>2. \A i \in 1 .. len : text[i] \in Piece
  BY ElementOfSeq
<1>3. p \in Seq(Piece) /\ Len(p) = n /\ \A i \in 1 .. n : p[i] = text[i]
  <2>1. \A i \in 1 .. n : text[i] \in Piece
    BY <1>1, <1>2
  <2>2. 1 \in Int /\ n \in Int /\ n - 1 + 1 = n /\ (~ (1 <= n) => n = 0)
        /\ \A i \in 1 .. n : 1 + i - 1 = i
    BY <1>1
  <2> QED BY <2>1, <2>2, SubSeqProperties
<1>4. /\ q \in Seq(Piece) /\ Len(q) = len - n
      /\ \A i \in 1 .. len - n : q[i] = text[n + i]
  <2>1. PICK m \in 1 .. len + 1 : m = n + 1
    BY <1>1
  <2>2. /\ SubSeq(text, m, len) \in Seq(Piece)
        /\ Len(SubSeq(text, m, len)) = len + 1 - m
        /\ \A i \in 1 .. len + 1 - m : SubSeq(text, m, len)[i] = text[m + i - 1]
    BY EndOfText
  <2>3. q = SubSeq(text, m, len)
    BY <2>1
  <2> HIDE DEF q, len
  <2>4. len + 1 - m = len - n /\ \A i \in 1 .. len - n : m + i - 1 = n + i
    BY <1>1, <2>1
  <2> QED BY <2>2, <2>3, <2>4
<1>5. p \o q = text
  <2>1. /\ 1 \in 1 .. len + 1 /\ n \in 1 - 1 .. len /\ len \in n .. len
    BY <1>1
  <2>2. SubSeq(text, 1, n) \o SubSeq(text, n + 1, len) = SubSeq(text, 1, len)
    BY <2>1, ConcatAdjacentSubSeq
  <2> QED BY <2>2, SubSeqFull
<1> HIDE DEF p, q, len
<1>6. q = <<>> <=> n = len
  BY <1>1, <1>4, EmptySeq
<1>7. ASSUME Whole(text) PROVE Whole(q)
  <2>1. ASSUME NEW i \in 2 .. Len(q), IsStart(q[i]) PROVE q[i - 1] = NewLine
    <3>1. /\ n + i \in 2 .. len /\ i \in 1 .. len - n
          /\ i - 1 \in 1 .. len - n /\ n + (i - 1) = (n + i) - 1
      BY <1>1, <1>4
    <3>2. q[i] = text[n + i] /\ q[i - 1] = text[(n + i) - 1]
      BY <1>4, <3>1
    <3> QED BY <1>7, <2>1, <3>1, <3>2 DEF Whole, len
  <2>2. ASSUME q # <<>> PROVE q[Len(q)] = NewLine
    <3>1. /\ len - n \in 1 .. len - n /\ n + (len - n) = len /\ len # 0
      BY <1>1, <1>6, <2>2
    <3>2. q[Len(q)] = text[len] /\ text # <<>>
      BY <1>4, <3>1, EmptySeq DEF len
    <3> QED BY <1>7, <3>2 DEF Whole, len
  <2> QED BY <2>1, <2>2 DEF Whole
<1> QED BY <1>3, <1>4, <1>5, <1>6, <1>7 DEF p, q, len

-----------------------------------------------------------------------------
\* Some of the text of a logger is written, and b is what it keeps; the others
\* keep their texts, unless they die.
Writes(l, text, n, b) ==
    /\ disk' = disk \o SubSeq(text, 1, n)
    /\ logger'[l].buffer = b
    /\ \A k \in Loggers \ {l} : logger'[k].buffer \in {logger[k].buffer, <<>>}

KnowsMore ==
    /\ clock \in Nat /\ clock' \in Nat /\ clock <= clock'
    /\ counted \subseteq counted'
    /\ counted' \subseteq {e \in Event : e.kind = "escalation"}

\* What is known stays known.
LEMMA KnownStays ==
    ASSUME KnowsMore, NEW e \in Event, Known(e)
    PROVE  Known(e)'
<1>1. e.at \in Nat
  BY DEF Event
<1> QED BY <1>1 DEF KnowsMore, Known

LEMMA WriteKeepsText ==
    ASSUME LogInv, TextInv, KnowsMore,
           NEW l \in Loggers, NEW text \in Seq(Piece),
           NEW n \in 0 .. Len(text), NEW b,
           b = <<>> \/ b = SubSeq(text, n + 1, Len(text)),
           Writes(l, text, n, b),
           Whole(text), Once(text), EventsIn(text) \cap EventsIn(disk) = {},
           \A e \in EventsIn(text) : e.by = l /\ Known(e)'
    PROVE  TextInv'
<1> DEFINE p == SubSeq(text, 1, n)
           q == SubSeq(text, n + 1, Len(text))
<1>1. p \in Seq(Piece) /\ q \in Seq(Piece) /\ p \o q = text /\ Whole(q)
  BY TornText
<1> HIDE DEF p, q
<1>2. /\ EventsIn(text) = EventsIn(p) \cup EventsIn(q)
      /\ Once(p) /\ Once(q) /\ EventsIn(p) \cap EventsIn(q) = {}
  BY <1>1, EventsOfBoth, OnceInBoth
<1>3. disk \in Seq(Piece) /\ disk' = disk \o p
  BY DEF LogInv, LogTypes, Writes, p
<1>4. EventsIn(disk') = EventsIn(disk) \cup EventsIn(p) /\ Once(disk')
  BY <1>1, <1>2, <1>3, EventsOfBoth, OnceInBoth DEF TextInv
<1>5. \A e \in EventsIn(disk') : Known(e)'
  <2>1. \A e \in EventsIn(disk) : e \in Event /\ Known(e)
    BY DEF TextInv, EventsIn
  <2> QED BY <1>2, <1>4, <2>1, KnownStays
<1>6. /\ Whole(b) /\ Once(b) /\ EventsIn(b) \subseteq EventsIn(q)
      /\ logger'[l].buffer = b
  BY <1>1, <1>2, EmptyText DEF q, Writes
<1>7. BufferSound(l)'
  BY <1>2, <1>4, <1>6 DEF BufferSound
<1>8. ASSUME NEW k \in Loggers \ {l} PROVE BufferSound(k)'
  <2>1. BufferSound(k) /\ logger'[k].buffer \in {logger[k].buffer, <<>>}
    BY DEF TextInv, Writes
  <2> DEFINE t == logger[k].buffer
  <2>2. \A e \in EventsIn(t) : e \in Event /\ e.by = k /\ Known(e)'
    BY <2>1, KnownStays DEF BufferSound, EventsIn
  <2>3. EventsIn(t) \cap EventsIn(disk') = {}
    BY <1>2, <1>4, <2>1, <2>2 DEF BufferSound
  <2>4. CASE logger'[k].buffer = t
    BY <2>1, <2>2, <2>3, <2>4 DEF BufferSound
  <2>5. CASE logger'[k].buffer = <<>>
    BY <2>5, EmptyText DEF BufferSound
  <2> QED BY <2>1, <2>4, <2>5
<1> QED BY <1>4, <1>5, <1>7, <1>8 DEF TextInv, KnowsMore

-----------------------------------------------------------------------------
LEMMA GluedType ==
    ASSUME NEW text \in Seq(Piece)
    PROVE  /\ IsFiniteSet(GluedIn(text)) /\ CutIn(text) \in 0 .. 1
           /\ Cardinality(GluedIn(text)) + CutIn(text) \in Nat
<1>1. Len(text) \in Nat
  BY LenProperties
<1>2. IsFiniteSet(2 .. Len(text))
  BY <1>1, FS_Interval
<1>3. GluedIn(text) \in SUBSET (2 .. Len(text))
  BY DEF GluedIn
<1>4. IsFiniteSet(GluedIn(text))
  BY <1>2, <1>3, FS_Subset
<1>5. Cardinality(GluedIn(text)) \in Nat
  BY <1>4, FS_CardinalityType
<1>6. CutIn(text) \in 0 .. 1
  BY DEF CutIn
<1> QED BY <1>4, <1>5, <1>6

\* What a text that is whole, or a part of it, adds behind another one.
LEMMA WriteGlues ==
    ASSUME NEW old \in Seq(Piece), NEW text \in Seq(Piece), Whole(text),
           NEW n \in 0 .. Len(text)
    PROVE  LET new == old \o SubSeq(text, 1, n)
           IN  /\ IsFiniteSet(GluedIn(old)) /\ IsFiniteSet(GluedIn(new))
               /\ n = 0 => new = old
               /\ CutIn(old) \in 0 .. 1 /\ CutIn(new) \in 0 .. 1
               /\ n = Len(text) /\ n # 0 => CutIn(new) = 0
               /\ GluedIn(new) \subseteq
                     GluedIn(old) \cup
                        (IF CutIn(old) = 1 THEN {Len(old) + 1} ELSE {})
<1> DEFINE p == SubSeq(text, 1, n)
           new == old \o p
           m == Len(old)
<1>1. /\ p \in Seq(Piece) /\ Len(p) = n /\ n \in Nat /\ m \in Nat
      /\ \A i \in 1 .. n : p[i] = text[i]
  BY TornText, LenProperties
<1>2. /\ new \in Seq(Piece) /\ Len(new) = m + n
      /\ \A i \in 1 .. m + n : new[i] = IF i <= m THEN old[i] ELSE p[i - m]
  BY <1>1, ConcatProperties
<1>3. /\ old # <<>> <=> m # 0
      /\ new # <<>> <=> m + n # 0
      /\ text = <<>> => n = 0
  BY <1>1, <1>2, EmptySeq
<1>4. n = 0 => new = old
  <2>1. n = 0 => p = <<>>
    BY <1>1, EmptySeq
  <2> QED BY <2>1, ConcatEmptySeq
<1>5. IsFiniteSet(GluedIn(old)) /\ IsFiniteSet(GluedIn(new))
  BY <1>2, GluedType
<1>6. CutIn(old) \in 0 .. 1 /\ CutIn(new) \in 0 .. 1
  BY <1>2, GluedType
<1> HIDE DEF p, new, m
<1>7. ASSUME n = Len(text), n # 0 PROVE CutIn(new) = 0
  <2>1. new[m + n] = text[n]
    BY <1>1, <1>2, <1>7
  <2> QED BY <1>2, <1>3, <1>7, <2>1 DEF CutIn, Whole
<1>8. ASSUME NEW i \in GluedIn(new)
      PROVE  i \in GluedIn(old) \/ (CutIn(old) = 1 /\ i = m + 1)
  <2>1. /\ i \in 2 .. m + n /\ i \in 1 .. m + n /\ i - 1 \in 1 .. m + n
        /\ IsStart(new[i]) /\ new[i - 1] # NewLine
    BY <1>1, <1>2 DEF GluedIn
  <2>2. CASE i <= m
    <3>1. i \in 2 .. m /\ new[i] = old[i] /\ new[i - 1] = old[i - 1]
      BY <1>1, <1>2, <2>1, <2>2
    <3> QED BY <2>1, <3>1 DEF GluedIn, m
  <2>3. CASE i = m + 1
    <3>1. m # 0 /\ new[i - 1] = old[m]
      BY <1>1, <1>2, <2>1, <2>3
    <3> QED BY <1>3, <2>1, <2>3, <3>1 DEF CutIn, m
  <2>4. CASE i > m + 1
    <3>1. /\ i - m \in 2 .. n /\ i - m \in 1 .. n /\ (i - m) - 1 \in 1 .. n
          /\ new[i] = p[i - m] /\ new[i - 1] = p[(i - m) - 1]
      BY <1>1, <1>2, <2>1, <2>4
    <3>2. IsStart(text[i - m]) /\ text[(i - m) - 1] # NewLine
      BY <1>1, <2>1, <3>1
    <3>3. i - m \in 2 .. Len(text)
      BY <1>1, <3>1, LenProperties
    <3> QED BY <3>2, <3>3 DEF Whole
  <2> QED BY <1>1, <2>1, <2>2, <2>3, <2>4
<1>9. GluedIn(new) \subseteq GluedIn(old) \cup (IF CutIn(old) = 1 THEN {m + 1} ELSE {})
  BY <1>8
<1> QED BY <1>4, <1>5, <1>6, <1>7, <1>9 DEF new, p, m

LEMMA WriteLoses ==
    ASSUME NEW old \in Seq(Piece), NEW text \in Seq(Piece), Whole(text),
           NEW n \in 0 .. Len(text)
    PROVE  LET new == old \o SubSeq(text, 1, n)
               before == Cardinality(GluedIn(old)) + CutIn(old)
               after == Cardinality(GluedIn(new)) + CutIn(new)
           IN  /\ before \in Nat /\ after \in Nat /\ after <= before + 1
               /\ n \in {0, Len(text)} => after <= before
<1> DEFINE new == old \o SubSeq(text, 1, n)
           g == Cardinality(GluedIn(old))
           h == Cardinality(GluedIn(new))
           c == CutIn(old)
           d == CutIn(new)
           more == IF c = 1 THEN {Len(old) + 1} ELSE {}
<1>1. /\ IsFiniteSet(GluedIn(old)) /\ IsFiniteSet(GluedIn(new))
      /\ n = 0 => new = old
      /\ c \in 0 .. 1 /\ d \in 0 .. 1
      /\ n = Len(text) /\ n # 0 => d = 0
      /\ GluedIn(new) \subseteq GluedIn(old) \cup more
  BY WriteGlues
<1>2. IsFiniteSet(more) /\ Cardinality(more) = c
  <2>1. CASE c = 1
    <3>1. more = {Len(old) + 1}
      BY <2>1
    <3> QED BY <2>1, <3>1, FS_Singleton
  <2>2. CASE c = 0
    <3>1. more = {}
      BY <2>2
    <3> QED BY <2>2, <3>1, FS_EmptySet
  <2> QED BY <1>1, <2>1, <2>2
<1> HIDE DEF more, c, d, new
<1>3. IsFiniteSet(GluedIn(old) \cup more) /\ IsFiniteSet(GluedIn(old) \cap more)
  BY <1>1, <1>2, FS_Union, FS_Intersection
<1>4. /\ Cardinality(GluedIn(old) \cup more)
             = g + c - Cardinality(GluedIn(old) \cap more)
      /\ Cardinality(GluedIn(old) \cap more) \in Nat
      /\ g \in Nat /\ h \in Nat
  BY <1>1, <1>2, <1>3, FS_Union, FS_CardinalityType
<1>5. h <= Cardinality(GluedIn(old) \cup more)
  BY <1>1, <1>3, FS_Subset
<1> HIDE DEF g, h
<1>6. h <= g + c
  BY <1>1, <1>4, <1>5
<1>7. n = 0 => h = g /\ d = c
  BY <1>1 DEF g, h, c, d
<1>8. g + c \in Nat /\ h + d \in Nat /\ h + d <= g + c + 1
  BY <1>1, <1>4, <1>6
<1>9. n \in {0, Len(text)} => h + d <= g + c
  BY <1>1, <1>4, <1>6, <1>7
<1> QED BY <1>8, <1>9 DEF g, h, c, d, new

LEMMA WriteBounds ==
    ASSUME LogInv, LossInv, NEW l \in Loggers, NEW text \in Seq(Piece),
           Whole(text), NEW n \in 0 .. Len(text), NEW b, Writes(l, text, n, b),
           \/ torn' = torn + 1
           \/ torn' = torn /\ b = <<>> /\ n = Len(text)
           \/ torn' = torn /\ b = <<>> /\ text = logger[l].buffer
    PROVE  LossInv'
<1> DEFINE before == Cardinality(GluedIn(disk)) + CutIn(disk)
           after == Cardinality(GluedIn(disk')) + CutIn(disk')
           w == Cardinality(Waiting)
           x == Cardinality(Waiting')
<1>1. disk \in Seq(Piece) /\ disk' = disk \o SubSeq(text, 1, n)
  BY DEF LogInv, LogTypes, Writes
<1>2. /\ before \in Nat /\ after \in Nat /\ after <= before + 1
      /\ n \in {0, Len(text)} => after <= before
  BY <1>1, WriteLoses
<1>3. /\ \A k \in Loggers \ {l} : k \in Waiting' => k \in Waiting
      /\ l \in Waiting' <=> b # <<>>
      /\ Waiting \in SUBSET Loggers /\ Waiting' \in SUBSET Loggers
  BY DEF Writes, Waiting
<1>4. IsFiniteSet(Waiting) /\ IsFiniteSet(Waiting')
  BY <1>3, FS_Subset, LogAssumption
<1>5. w \in Nat /\ x \in Nat
  BY <1>4, FS_CardinalityType
<1>6. x <= w + 1
  <2>1. /\ IsFiniteSet(Waiting \cup {l})
        /\ Cardinality(Waiting \cup {l}) \in {w, w + 1}
    BY <1>4, FS_AddElement
  <2>2. Waiting' \in SUBSET (Waiting \cup {l})
    BY <1>3
  <2>3. x <= Cardinality(Waiting \cup {l})
    BY <2>1, <2>2, FS_Subset
  <2> QED BY <1>5, <2>1, <2>3
<1>7. b = <<>> => x <= IF l \in Waiting THEN w - 1 ELSE w
  <2> SUFFICES ASSUME b = <<>> PROVE x <= IF l \in Waiting THEN w - 1 ELSE w
    OBVIOUS
  <2>1. Waiting' \in SUBSET (Waiting \ {l})
    BY <1>3
  <2>2. /\ IsFiniteSet(Waiting \ {l})
        /\ Cardinality(Waiting \ {l}) = IF l \in Waiting THEN w - 1 ELSE w
    BY <1>4, FS_RemoveElement
  <2>3. x <= Cardinality(Waiting \ {l})
    BY <2>1, <2>2, FS_Subset
  <2> QED BY <2>2, <2>3
<1>8. text = logger[l].buffer /\ l \notin Waiting => n = 0
  <2>1. text = <<>> => n = 0
    BY EmptySeq
  <2> QED BY <2>1 DEF Waiting
<1>9. torn \in Nat /\ before + w <= 2 * torn
  BY DEF LossInv
<1> HIDE DEF before, after, w, x
<1>10. torn' \in Nat /\ after + x <= 2 * torn'
  <2>1. CASE torn' = torn + 1
    BY <1>2, <1>5, <1>6, <1>9, <2>1
  <2>2. CASE torn' = torn /\ b = <<>> /\ n = Len(text)
    BY <1>2, <1>5, <1>7, <1>9, <2>2
  <2>3. CASE torn' = torn /\ b = <<>> /\ text = logger[l].buffer
    <3>1. CASE l \in Waiting
      BY <1>2, <1>5, <1>7, <1>9, <2>3, <3>1
    <3>2. CASE l \notin Waiting
      BY <1>2, <1>5, <1>7, <1>8, <1>9, <2>3, <3>2
    <3> QED BY <3>1, <3>2
  <2> QED BY <2>1, <2>2, <2>3
<1> QED BY <1>10 DEF LossInv, after, x

\* A step after which the file is the same and every buffer, too, or empty.
LEMMA TextStays ==
    ASSUME TextInv, KnowsMore, disk' = disk,
           \A k \in Loggers : logger'[k].buffer \in {logger[k].buffer, <<>>}
    PROVE  TextInv'
<1>1. \A e \in EventsIn(disk) : Known(e)'
  BY KnownStays DEF TextInv, EventsIn
<1>2. ASSUME NEW k \in Loggers PROVE BufferSound(k)'
  <2> DEFINE t == logger[k].buffer
  <2>1. CASE logger'[k].buffer = <<>>
    BY <2>1, EmptyText DEF BufferSound
  <2>2. CASE logger'[k].buffer = t
    <3>1. BufferSound(k)
      BY DEF TextInv
    <3>2. \A e \in EventsIn(t) : e \in Event /\ e.by = k /\ Known(e)'
      BY <3>1, KnownStays DEF BufferSound, EventsIn
    <3> QED BY <2>2, <3>1, <3>2 DEF BufferSound
  <2> QED BY <2>1, <2>2
<1> QED BY <1>1, <1>2 DEF TextInv, KnowsMore

LEMMA LossStays ==
    ASSUME LogInv, LossInv, disk' = disk,
           \A k \in Loggers : logger'[k].buffer \in {logger[k].buffer, <<>>},
           torn' = torn \/ torn' = torn + 1
    PROVE  LossInv'
<1>1. Waiting' \in SUBSET Waiting /\ Waiting \in SUBSET Loggers
  BY DEF Waiting
<1>2. IsFiniteSet(Waiting)
  BY <1>1, FS_Subset, LogAssumption
<1>3. /\ IsFiniteSet(Waiting')
      /\ Cardinality(Waiting') <= Cardinality(Waiting)
  BY <1>1, <1>2, FS_Subset
<1>4. Cardinality(Waiting) \in Nat /\ Cardinality(Waiting') \in Nat
  BY <1>2, <1>3, FS_CardinalityType
<1>5. Cardinality(GluedIn(disk)) + CutIn(disk) \in Nat
  BY GluedType DEF LogInv, LogTypes
<1> QED BY <1>3, <1>4, <1>5 DEF LossInv

-----------------------------------------------------------------------------
\* How an event ends leaves the buffer alone.
LEMMA EndKeepsBuffer ==
    ASSUME NEW self \in LoggerRecord
    PROVE  /\ Raised(self).buffer = self.buffer
           /\ Dispatching(self).buffer = self.buffer
<1>1. /\ Settled(self) \in LoggerRecord /\ Settled(self).buffer = self.buffer
      /\ Raised(self).buffer = self.buffer
  BY DEF Settled, Raised, LoggerRecord
<1>2. Finished(self).buffer = self.buffer
  BY <1>1 DEF Finished, LoggerRecord
<1>3. [self EXCEPT !.phase = "dispatch"].buffer = self.buffer
  BY DEF LoggerRecord
<1> QED BY <1>1, <1>2, <1>3 DEF Dispatching

LEMMA BecomesOnly ==
    ASSUME LogInv, NEW l \in Loggers, NEW self, Become(l, self)
    PROVE  /\ logger'[l] = self
           /\ \A k \in Loggers \ {l} : logger'[k] = logger[k]
BY DEF LogInv, LogTypes, Become

LEMMA BufferKept ==
    ASSUME LogInv, NEW l \in Loggers,
           \E self : Become(l, self) /\ self.buffer = logger[l].buffer
    PROVE  \A k \in Loggers : logger'[k].buffer = logger[k].buffer
BY BecomesOnly

LEMMA BecomesWritten ==
    ASSUME LogInv, NEW l \in Loggers, NEW text, NEW n, WriteOut(text, n),
           NEW self, Become(l, self), NEW b, self.buffer = b
    PROVE  Writes(l, text, n, b)
<1>1. /\ logger'[l] = self
      /\ \A k \in Loggers \ {l} : logger'[k] = logger[k]
  BY BecomesOnly
<1> QED BY <1>1 DEF Writes, WriteOut

\* The process dies while this text is written.
LEMMA DiesReads ==
    ASSUME LogInv, TextInv, LossInv, KnowsMore,
           NEW l \in Loggers, NEW text \in Seq(Piece), Dies(text),
           Whole(text), Once(text), EventsIn(text) \cap EventsIn(disk) = {},
           \A e \in EventsIn(text) : e.by = l /\ Known(e)'
    PROVE  TextInv' /\ LossInv'
<1>1. PICK n \in 0 .. Len(text) : disk' = disk \o SubSeq(text, 1, n)
  BY DEF Dies, Reopened
<1>2. torn' = torn + 1 /\ \A k \in Loggers : logger'[k].buffer = <<>>
  BY DEF Dies, NewLogger
<1>3. Writes(l, text, n, <<>>)
  BY <1>1, <1>2 DEF Writes
<1>4. TextInv'
  BY <1>3, WriteKeepsText
<1>5. LossInv'
  BY <1>2, <1>3, WriteBounds
<1> QED BY <1>4, <1>5

\* What a new event does to the texts.
LEMMA SubmitReads ==
    ASSUME LogInv, TextInv, LossInv, NEW l \in Loggers, NEW e \in Event,
           e.at = clock + 1, e.by = l, e.kind = "escalation" => e \in counted',
           NEW self \in LoggerRecord, self.buffer = logger[l].buffer,
           Submit(l, e, self), KnowsMore
    PROVE  TextInv' /\ LossInv'
<1> DEFINE old == self.buffer
           text == old \o Line(e)
           with == [self EXCEPT !.event = e]
<1>1. with \in LoggerRecord /\ with.buffer = old /\ old \in Seq(Piece)
  BY DEF LoggerRecord
<1>2. BufferSound(l) /\ clock' = clock + 1
  BY DEF TextInv, Submit
<1>3. e \notin EventsIn(old) /\ e \notin EventsIn(disk)
  <2>1. ~ (e.at <= clock)
    BY DEF LogInv, LogTypes
  <2> QED BY <1>2, <2>1 DEF TextInv, BufferSound, Known
<1>4. /\ text \in Seq(Piece) /\ Whole(text) /\ Once(text)
      /\ EventsIn(text) = EventsIn(old) \cup {e}
      /\ Len(text) \in Nat /\ text # <<>>
  <2>1. /\ Line(e) \in Seq(Piece) /\ Len(Line(e)) = 3
        /\ EventsIn(Line(e)) = {e} /\ Once(Line(e)) /\ Whole(Line(e))
    BY LineText
  <2> HIDE DEF old
  <2>2. text \in Seq(Piece) /\ Len(text) = Len(old) + 3 /\ Len(old) \in Nat
    <3>1. text \in Seq(Piece) /\ Len(text) = Len(old) + Len(Line(e))
      BY <1>1, <2>1, ConcatProperties
    <3>2. Len(old) \in Nat
      BY <1>1, LenProperties
    <3> QED BY <2>1, <3>1, <3>2
  <2>3. EventsIn(text) = EventsIn(old) \cup {e} /\ Once(text) /\ Whole(text)
    BY <1>1, <1>2, <1>3, <2>1, EventsOfBoth, OnceInBoth, WholeBoth
    DEF BufferSound, old
  <2>4. Len(text) # 0
    BY <2>2
  <2> QED BY <2>2, <2>3, <2>4, EmptySeq
<1> HIDE DEF text, old, with
<1>5. /\ EventsIn(text) \cap EventsIn(disk) = {}
      /\ \A f \in EventsIn(text) : f.by = l /\ Known(f)'
  <2>1. \A f \in EventsIn(old) : f \in Event /\ f.by = l /\ Known(f)'
    BY <1>2, KnownStays DEF BufferSound, EventsIn, old
  <2>2. Known(e)'
    <3>1. clock' \in Nat
      BY DEF KnowsMore
    <3> QED BY <1>2, <3>1 DEF Known
  <2> QED BY <1>2, <1>3, <1>4, <2>1, <2>2 DEF BufferSound, old
<1>6. CASE Flushed(l, with, text)
  <2> DEFINE sent == [with EXCEPT !.buffer = <<>>, !.next = 1]
  <2>1. sent \in LoggerRecord /\ sent.buffer = <<>>
    BY <1>1, EmptySeq DEF LoggerRecord
  <2>2. /\ WriteOut(text, Len(text)) /\ Become(l, Dispatching(sent))
        /\ torn' = torn
    BY <1>6 DEF Flushed
  <2> HIDE DEF sent
  <2>3. Writes(l, text, Len(text), <<>>)
    <3>1. Dispatching(sent).buffer = <<>>
      BY <2>1, EndKeepsBuffer
    <3> QED BY <2>2, <3>1, BecomesWritten
  <2>4. Len(text) \in 0 .. Len(text)
    BY <1>4
  <2>5. TextInv'
    BY <1>4, <1>5, <2>3, <2>4, WriteKeepsText
  <2>6. LossInv'
    BY <1>4, <2>2, <2>3, <2>4, WriteBounds
  <2> QED BY <2>5, <2>6
<1>7. CASE FlushFailed(l, with, text)
  <2>1. PICK n \in 0 .. Len(text) - 1 :
           /\ WriteOut(text, n)
           /\ Become(l, Raised([with EXCEPT
                           !.buffer = SubSeq(text, n + 1, Len(text))]))
    BY <1>7 DEF FlushFailed
  <2> DEFINE rest == SubSeq(text, n + 1, Len(text))
             left == [with EXCEPT !.buffer = rest]
  <2>2. n \in 0 .. Len(text) /\ torn' = torn + 1
    BY <1>4, <1>7 DEF FlushFailed
  <2>3. rest \in Seq(Piece)
    BY <1>4, <2>2, TornText
  <2>4. left \in LoggerRecord /\ left.buffer = rest
    BY <1>1, <2>3 DEF LoggerRecord
  <2>5. Become(l, Raised(left))
    BY <2>1
  <2> HIDE DEF left
  <2>6. Writes(l, text, n, rest)
    <3>1. WriteOut(text, n)
      BY <2>1
    <3>2. Raised(left).buffer = rest
      BY <2>4, EndKeepsBuffer
    <3> HIDE DEF rest
    <3> QED BY <2>5, <3>1, <3>2, BecomesWritten
  <2>7. TextInv'
    BY <1>4, <1>5, <2>2, <2>6, WriteKeepsText
  <2>8. LossInv'
    BY <1>4, <2>2, <2>6, WriteBounds
  <2> QED BY <2>7, <2>8
<1>8. CASE Become(l, Raised(with)) /\ UNCHANGED <<disk, torn>>
  <2>1. \A k \in Loggers : logger'[k].buffer = logger[k].buffer
    BY <1>1, <1>8, EndKeepsBuffer, BecomesOnly DEF old
  <2> QED BY <1>8, <2>1, TextStays, LossStays
<1>9. CASE Dies(text)
  BY <1>4, <1>5, <1>9, DiesReads
<1>10. \/ Flushed(l, with, text) \/ FlushFailed(l, with, text)
       \/ Become(l, Raised(with)) /\ UNCHANGED <<disk, torn>>
       \/ Dies(text)
  BY DEF Submit, text, old, with
<1> QED BY <1>6, <1>7, <1>8, <1>9, <1>10

LEMMA EventsRead ==
    ASSUME LogInv, TextInv, LossInv, NEW l \in Loggers,
           \/ \E t \in TriggersOf[l] :
                 Escalate(l, t) \/ HandleCap(l, t) \/ ModelFailure(l, t)
           \/ HandleFailure(l)
    PROVE  TextInv' /\ LossInv'
<1>1. PICK old \in LoggerRecord : old = logger[l]
  BY DEF LogInv, LogTypes
<1>2. /\ clock \in Nat /\ clock + 1 \in Nat /\ clock <= clock + 1
      /\ counted \subseteq {e \in Event : e.kind = "escalation"}
  BY DEF LogInv, LogTypes, TextInv
<1>3. ASSUME NEW e \in Event, e.at = clock + 1, e.by = l,
             NEW self \in LoggerRecord, self.buffer = old.buffer,
             Submit(l, e, self),
             counted' = IF e.kind = "escalation" THEN counted \cup {e} ELSE counted
      PROVE  TextInv' /\ LossInv'
  <2>1. clock' = clock + 1
    BY <1>3 DEF Submit
  <2>2. KnowsMore /\ (e.kind = "escalation" => e \in counted')
    BY <1>2, <1>3, <2>1 DEF KnowsMore
  <2> QED BY <1>1, <1>3, <2>2, SubmitReads
<1>4. ASSUME NEW kind \in Kinds, NEW t
      PROVE  /\ EventOf(l, kind, t).at = clock + 1
             /\ EventOf(l, kind, t).by = l /\ EventOf(l, kind, t).kind = kind
  BY DEF EventOf
<1>5. {"escalation", "capped", "failopen"} \subseteq Kinds
      /\ "capped" # "escalation" /\ "failopen" # "escalation"
  BY DEF Kinds
<1>6. ASSUME NEW t \in TriggersOf[l],
             Escalate(l, t) \/ HandleCap(l, t) \/ ModelFailure(l, t)
      PROVE  TextInv' /\ LossInv'
  <2>1. t \in Triggers /\ MoreEvents /\ old.left > 0
    BY <1>1, <1>6 DEF Triggers, Escalate, HandleCap, ModelFailure, MayLog
  <2>2. \A kind \in Kinds : EventOf(l, kind, t) \in Event
    BY <2>1, EventType
  <2>3. old.left - 1 \in Nat /\ old.escalations + 1 \in Nat
    BY <2>1 DEF LoggerRecord
  <2> DEFINE self == [old EXCEPT !.left = @ - 1]
             more == [old EXCEPT !.left = @ - 1, !.escalations = @ + 1]
  <2>4. /\ self \in LoggerRecord /\ self.buffer = old.buffer
        /\ more \in LoggerRecord /\ more.buffer = old.buffer
    BY <2>3 DEF LoggerRecord
  <2>5. \/ /\ Submit(l, EventOf(l, "escalation", t), more)
           /\ counted' = counted \cup {EventOf(l, "escalation", t)}
        \/ Submit(l, EventOf(l, "capped", t), self) /\ counted' = counted
        \/ Submit(l, EventOf(l, "failopen", t), self) /\ counted' = counted
    BY <1>1, <1>6 DEF Escalate, HandleCap, ModelFailure
  <2> HIDE DEF self, more
  <2> QED BY <1>3, <1>4, <1>5, <2>2, <2>4, <2>5
<1>7. CASE HandleFailure(l)
  <2>1. old.event \in Event /\ MoreEvents
    BY <1>1, <1>7 DEF HandleFailure, LogInv, AtHand
  <2> DEFINE t == old.event.trigger
  <2>2. t \in Triggers
    BY <2>1 DEF Event
  <2>3. EventOf(l, "failopen", t) \in Event
    BY <1>5, <2>1, <2>2, EventType
  <2>4. Submit(l, EventOf(l, "failopen", t), old) /\ counted' = counted
    BY <1>1, <1>7 DEF HandleFailure
  <2> HIDE DEF t
  <2> QED BY <1>3, <1>4, <1>5, <2>3, <2>4
<1> QED BY <1>6, <1>7

\* The steps that write nothing.
LEMMA OthersRead ==
    ASSUME LogInv, TextInv, LossInv,
           UNCHANGED <<disk, clock, counted, torn>>,
           \A k \in Loggers : logger'[k].buffer = logger[k].buffer
    PROVE  TextInv' /\ LossInv'
<1>1. KnowsMore
  BY DEF LogInv, LogTypes, TextInv, KnowsMore
<1> QED BY <1>1, TextStays, LossStays

LEMMA DispatchReads ==
    ASSUME LogInv, TextInv, LossInv, NEW l \in Loggers,
           HookReturns(l) \/ HookRaises(l)
    PROVE  TextInv' /\ LossInv'
<1>1. PICK old \in LoggerRecord : old = logger[l]
  BY DEF LogInv, LogTypes
<1> DEFINE next == [old EXCEPT !.next = @ + 1]
<1>2. UNCHANGED <<disk, clock, counted, torn>>
  BY DEF HookReturns, HookRaises
<1>3. next \in LoggerRecord /\ next.buffer = old.buffer
  <2>1. old.next + 1 \in Nat
    BY DEF LoggerRecord
  <2>2. next = [old EXCEPT !.next = old.next + 1]
    OBVIOUS
  <2> HIDE DEF next
  <2> QED BY <2>1, <2>2 DEF LoggerRecord
<1>4. ASSUME NEW h \in Hooks
      PROVE  /\ [next EXCEPT !.hooks = Append(@, h)] \in LoggerRecord
             /\ [next EXCEPT !.hooks = Append(@, h)].buffer = old.buffer
  <2> HIDE DEF next
  <2>1. Append(next.hooks, h) \in Seq(Hooks)
    BY <1>3, AppendProperties DEF LoggerRecord
  <2> QED BY <1>3, <2>1 DEF LoggerRecord
<1>5. \/ Become(l, Dispatching(next))
      \/ \E h \in Hooks : Become(l, Dispatching([next EXCEPT !.hooks = Append(@, h)]))
      \/ Become(l, Raised(old))
  BY <1>1 DEF HookReturns, HookRaises
<1> HIDE DEF next
<1>6. \E self : Become(l, self) /\ self.buffer = old.buffer
  <2>1. CASE Become(l, Dispatching(next))
    BY <1>3, <2>1, EndKeepsBuffer
  <2>2. ASSUME NEW h \in Hooks,
               Become(l, Dispatching([next EXCEPT !.hooks = Append(@, h)]))
        PROVE  \E self : Become(l, self) /\ self.buffer = old.buffer
    <3> DEFINE more == [next EXCEPT !.hooks = Append(@, h)]
    <3>1. more \in LoggerRecord /\ more.buffer = old.buffer
      BY <1>4
    <3>2. Become(l, Dispatching(more))
      BY <2>2
    <3> HIDE DEF more
    <3> QED BY <3>1, <3>2, EndKeepsBuffer
  <2>3. CASE Become(l, Raised(old))
    BY <2>3, EndKeepsBuffer
  <2> QED BY <1>5, <2>1, <2>2, <2>3
<1>7. \A k \in Loggers : logger'[k].buffer = logger[k].buffer
  BY <1>1, <1>6, BufferKept
<1> QED BY <1>2, <1>7, OthersRead

\* A logger is closed: its text is written, in part or whole, and dropped.
LEMMA CloseReads ==
    ASSUME LogInv, TextInv, LossInv, NEW l \in Loggers, Close(l)
    PROVE  TextInv' /\ LossInv'
<1>1. PICK old \in LoggerRecord : old = logger[l]
  BY DEF LogInv, LogTypes
<1> DEFINE text == old.buffer
<1>2. text \in Seq(Piece) /\ Len(text) \in Nat
  BY LenProperties DEF LoggerRecord
<1>3. PICK n \in 0 .. Len(text) : WriteOut(text, n)
  BY <1>1, <1>2 DEF Close
<1>4. /\ Become(l, [old EXCEPT !.open = FALSE, !.buffer = <<>>])
      /\ UNCHANGED <<clock, counted, torn>>
  BY <1>1 DEF Close
<1>5. Writes(l, text, n, <<>>)
  <2> DEFINE self == [old EXCEPT !.open = FALSE, !.buffer = <<>>]
  <2>1. self.buffer = <<>>
    BY DEF LoggerRecord
  <2>2. Become(l, self)
    BY <1>4
  <2> HIDE DEF self
  <2> QED BY <1>3, <2>1, <2>2, BecomesWritten
<1>6. BufferSound(l) /\ text = logger[l].buffer
  BY <1>1 DEF TextInv
<1>7. KnowsMore
  BY <1>4 DEF LogInv, LogTypes, TextInv, KnowsMore
<1> HIDE DEF text
<1>8. /\ Whole(text) /\ Once(text) /\ EventsIn(text) \cap EventsIn(disk) = {}
      /\ \A e \in EventsIn(text) : e.by = l /\ Known(e)'
  BY <1>6, <1>7, KnownStays DEF BufferSound, EventsIn
<1>9. TextInv'
  BY <1>2, <1>5, <1>7, <1>8, WriteKeepsText
<1>10. LossInv'
  BY <1>2, <1>4, <1>5, <1>6, <1>8, WriteBounds
<1> QED BY <1>9, <1>10

LEMMA ReadStep ==
    ASSUME LogInv, TextInv, LossInv, [LogNext]_lvars
    PROVE  TextInv' /\ LossInv'
<1>1. CASE ClearTracker
  <2>1. \A l \in Loggers : logger'[l].buffer = logger[l].buffer
    BY <1>1 DEF ClearTracker, LogInv, LogTypes, LoggerRecord
  <2> QED BY <1>1, <2>1, OthersRead DEF ClearTracker
<1>2. CASE Crash
  <2>1. PICK l \in Loggers : Dies(logger[l].buffer)
    BY <1>2 DEF Crash
  <2> DEFINE text == logger[l].buffer
  <2>2. KnowsMore
    BY <1>2 DEF Crash, LogInv, LogTypes, TextInv, KnowsMore
  <2>3. text \in Seq(Piece) /\ BufferSound(l)
    BY DEF LogInv, LogTypes, LoggerRecord, TextInv
  <2>4. /\ Whole(text) /\ Once(text) /\ EventsIn(text) \cap EventsIn(disk) = {}
        /\ \A e \in EventsIn(text) : e.by = l /\ Known(e)'
    BY <2>2, <2>3, KnownStays DEF BufferSound, EventsIn
  <2> HIDE DEF text
  <2>5. Dies(text)
    BY <2>1 DEF text
  <2> QED BY <2>2, <2>3, <2>4, <2>5, DiesReads
<1>3. ASSUME NEW l \in Loggers,
             BeginCall(l) \/ \E h \in Hooks : RegisterHook(l, h)
      PROVE  TextInv' /\ LossInv'
  <2>1. PICK old \in LoggerRecord : old = logger[l]
    BY DEF LogInv, LogTypes
  <2>2. ASSUME Become(l, [old EXCEPT !.left = 2])
        PROVE  \A k \in Loggers : logger'[k].buffer = logger[k].buffer
    <3>1. [old EXCEPT !.left = 2].buffer = old.buffer
      BY DEF LoggerRecord
    <3> QED BY <2>1, <2>2, <3>1, BufferKept
  <2>3. ASSUME NEW h \in Hooks, Become(l, [old EXCEPT !.hooks = Append(@, h)])
        PROVE  \A k \in Loggers : logger'[k].buffer = logger[k].buffer
    <3>1. [old EXCEPT !.hooks = Append(@, h)].buffer = old.buffer
      BY DEF LoggerRecord
    <3> QED BY <2>1, <2>3, <3>1, BufferKept
  <2>4. \A k \in Loggers : logger'[k].buffer = logger[k].buffer
    BY <1>3, <2>1, <2>2, <2>3 DEF BeginCall, RegisterHook
  <2>5. UNCHANGED <<disk, clock, counted, torn>>
    BY <1>3 DEF BeginCall, RegisterHook
  <2> QED BY <2>4, <2>5, OthersRead
<1>4. CASE UNCHANGED lvars
  BY <1>4, OthersRead DEF lvars
<1> QED
  BY <1>1, <1>2, <1>3, <1>4, EventsRead, DispatchReads, CloseReads DEF LogNext

LEMMA ReadInitial == LogInit => TextInv /\ LossInv
<1> SUFFICES ASSUME LogInit PROVE TextInv /\ LossInv
  OBVIOUS
<1>1. disk = <<>> /\ \A l \in Loggers : logger[l].buffer = <<>>
  BY DEF LogInit, NewLogger
<1>2. TextInv
  BY <1>1, EmptyText DEF LogInit, TextInv, BufferSound
<1>3. LossInv
  <2>1. Len(disk) = 0
    BY <1>1
  <2>2. GluedIn(disk) = {} /\ CutIn(disk) = 0
    BY <1>1, <2>1 DEF GluedIn, CutIn
  <2>3. Waiting = {}
    BY <1>1 DEF Waiting
  <2> QED BY <2>2, <2>3, FS_EmptySet DEF LogInit, LossInv
<1> QED BY <1>2, <1>3

\* What the file and the buffers hold, for ever.
LEMMA TextsAreSound == LogSpec => [](TextInv /\ LossInv)
<1>1. LogInv /\ TextInv /\ LossInv /\ [LogNext]_lvars => (TextInv /\ LossInv)'
  BY ReadStep
<1> QED BY <1>1, ReadInitial, LogCorrect, PTL DEF LogSpec

-----------------------------------------------------------------------------
(***************************************************************************)
(* The lines of a text.                                                    *)
(***************************************************************************)
StartOf(text, end) == 1 + Max({0} \cup {i \in 1 .. end - 1 : text[i] = NewLine})

LEMMA StartIs ==
    ASSUME NEW text \in Seq(Piece), NEW end \in 1 .. Len(text) + 1
    PROVE  LET start == StartOf(text, end)
           IN  /\ start \in 1 .. end
               /\ start = 1 \/ text[start - 1] = NewLine
               /\ \A i \in start .. end - 1 : text[i] # NewLine
<1> DEFINE J == {i \in 1 .. end - 1 : text[i] = NewLine}
           I == {0} \cup J
<1>1. end \in Nat /\ end >= 1 /\ end - 1 \in Nat
  BY LenProperties
<1>2. Indices(I)
  <2>1. Indices(J)
    BY <1>1, SomeIndices
  <2>2. I = J \cup {0}
    OBVIOUS
  <2> HIDE DEF I, J
  <2>3. IsFiniteSet(I)
    BY <2>1, <2>2, FS_AddElement DEF Indices
  <2> QED BY <2>1, <2>2, <2>3 DEF Indices
<1>3. \E x \in I : \A y \in I : x >= y
  <2> HIDE DEF I
  <2>1. 0 \in I
    BY DEF I
  <2> QED BY <1>2, <2>1, GreatestIsThere
<1>4. Max(I) \in I /\ \A y \in I : Max(I) >= y
  <2> HIDE DEF I
  <2> QED BY <1>3 DEF Max
<1>5. PICK m \in Nat : m = Max(I)
  BY <1>2, <1>4 DEF Indices
<1>6. StartOf(text, end) = 1 + m
  BY <1>5 DEF StartOf
<1>7. m \in 0 .. end - 1 /\ (m = 0 \/ text[m] = NewLine)
  BY <1>1, <1>4, <1>5
<1>8. ASSUME NEW i \in m + 1 .. end - 1 PROVE text[i] # NewLine
  <2>1. i \in 1 .. end - 1 /\ ~ (m >= i)
    BY <1>1, <1>5
  <2> QED BY <1>4, <1>5, <2>1
<1>9. 1 + m \in 1 .. end /\ (1 + m) - 1 = m /\ 1 + m = m + 1
  BY <1>1, <1>7
<1> QED BY <1>6, <1>7, <1>8, <1>9

LEMMA LineIs ==
    ASSUME NEW text \in Seq(Piece), NEW end \in 1 .. Len(text) + 1
    PROVE  LET start == StartOf(text, end)
               line == LineBefore(text, end)
           IN  /\ Len(line) = end - start
               /\ \A j \in 1 .. end - start :
                     line[j] = text[start + j - 1] /\ line[j] \in Piece
<1>1. PICK start \in 1 .. end : start = StartOf(text, end)
  BY StartIs
<1>2. Len(text) \in Nat
  BY LenProperties
<1>3. PICK m \in Nat : m = end - 1
  BY <1>2
<1>4. LineBefore(text, end) = SubSeq(text, start, m)
  BY <1>1, <1>3 DEF LineBefore, StartOf
<1>5. \A i \in start .. m : text[i] \in Piece
  BY <1>2, <1>3, ElementOfSeq
<1>6. /\ SubSeq(text, start, m) \in Seq(Piece)
      /\ Len(SubSeq(text, start, m)) = IF start <= m THEN m - start + 1 ELSE 0
      /\ \A i \in 1 .. m - start + 1 : SubSeq(text, start, m)[i] = text[start + i - 1]
  BY <1>2, <1>5, SubSeqProperties
<1>7. /\ m - start + 1 = end - start
      /\ (IF start <= m THEN m - start + 1 ELSE 0) = end - start
  BY <1>2, <1>3
<1>8. \A j \in 1 .. end - start : start + j - 1 \in start .. m
  BY <1>2, <1>3
<1> QED BY <1>1, <1>4, <1>5, <1>6, <1>7, <1>8

\* A line that is read as an event is the text of one ...
LEMMA EventLine ==
    ASSUME NEW text \in Seq(Piece), NEW end \in 1 .. Len(text) + 1,
           IsJson(LineBefore(text, end))
    PROVE  LET e == LineBefore(text, end)[1][2]
           IN  /\ e \in Event /\ end - 2 \in 1 .. Len(text)
               /\ text[end - 2] = Head1(e)
<1>1. PICK start \in 1 .. end : start = StartOf(text, end)
  BY StartIs
<1>2. PICK line : line = LineBefore(text, end)
  OBVIOUS
<1>3. /\ Len(line) = end - start
      /\ \A j \in 1 .. end - start :
            line[j] = text[start + j - 1] /\ line[j] \in Piece
  BY <1>1, <1>2, LineIs
<1>4. Len(line) = 2 /\ line[1][1] = "head"
  BY <1>2 DEF IsJson
<1>5. /\ Len(text) \in Nat /\ end - start = 2
      /\ start + 1 - 1 = end - 2 /\ end - 2 \in 1 .. Len(text)
  <2>1. end - start = 2
    BY <1>3, <1>4
  <2>2. Len(text) \in Nat
    BY LenProperties
  <2> QED BY <2>1, <2>2
<1>6. line[1] = text[end - 2] /\ line[1] \in Piece
  BY <1>3, <1>5
<1>7. PICK e \in Event : line[1] = Head1(e)
  BY <1>4, <1>6, PiecesDiffer DEF Piece
<1>8. line[1][2] = e
  BY <1>7 DEF Head1
<1> QED BY <1>2, <1>5, <1>6, <1>7, <1>8

\* ... and that text is read as one where it starts a line.
LEMMA LineFound ==
    ASSUME NEW text \in Seq(Piece), NEW e \in Event,
           NEW i \in Nat, i > 0, i + 2 <= Len(text),
           text[i] = Head1(e), text[i + 1] = Tail2(e), text[i + 2] = NewLine,
           i = 1 \/ text[i - 1] = NewLine
    PROVE  /\ i + 2 \in 1 .. Len(text) + 1 /\ EndsLine(text, i + 2)
           /\ IsJson(LineBefore(text, i + 2))
           /\ LineBefore(text, i + 2)[1][2] = e
<1>1. Len(text) \in Nat
  BY LenProperties
<1>2. PICK end \in 1 .. Len(text) + 1 : end = i + 2
  BY <1>1
<1>3. PICK start \in 1 .. end :
         /\ start = StartOf(text, end)
         /\ start = 1 \/ text[start - 1] = NewLine
         /\ \A k \in start .. end - 1 : text[k] # NewLine
  BY StartIs
<1>4. start = i
  <2>1. ASSUME start < i PROVE FALSE
    <3>1. i # 1 /\ i - 1 \in start .. end - 1
      BY <1>1, <1>2, <2>1
    <3> QED BY <1>3, <3>1
  <2>2. ASSUME start = i + 1 PROVE FALSE
    <3>1. start - 1 = i /\ start # 1
      BY <2>2
    <3> QED BY <1>3, <3>1, PiecesDiffer
  <2>3. ASSUME start = i + 2 PROVE FALSE
    <3>1. start - 1 = i + 1 /\ start # 1
      BY <2>3
    <3> QED BY <1>3, <3>1, PiecesDiffer
  <2> QED BY <1>1, <1>2, <2>1, <2>2, <2>3
<1>5. /\ Len(LineBefore(text, end)) = end - start
      /\ \A j \in 1 .. end - start :
            LineBefore(text, end)[j] = text[start + j - 1]
  BY <1>3, LineIs
<1>6. /\ end - start = 2 /\ start + 1 - 1 = i /\ start + 2 - 1 = i + 1
      /\ 1 \in 1 .. 2 /\ 2 \in 1 .. 2
  BY <1>2, <1>4
<1>7. /\ Len(LineBefore(text, end)) = 2
      /\ LineBefore(text, end)[1] = Head1(e)
      /\ LineBefore(text, end)[2] = Tail2(e)
  BY <1>5, <1>6
<1>8. Head1(e)[1] = "head" /\ Head1(e)[2] = e
  BY DEF Head1
<1>9. IsJson(LineBefore(text, end)) /\ LineBefore(text, end)[1][2] = e
  BY <1>7, <1>8 DEF IsJson
<1>10. EndsLine(text, i + 2)
  BY DEF EndsLine
<1> QED BY <1>2, <1>9, <1>10

\* A file is read line by line: an event of it for each place of its start.
LEMMA LoadedIs ==
    ASSUME NEW text \in Seq(Piece)
    PROVE  LET loaded == LoadJsonl(text)
           IN  /\ loaded \in Seq(Event)
               /\ \E start \in [DOMAIN loaded -> 1 .. Len(text)] :
                     /\ \A i \in DOMAIN loaded : text[start[i]] = Head1(loaded[i])
                     /\ \A i, j \in DOMAIN loaded : start[i] = start[j] => i = j
               /\ \A end \in 1 .. Len(text) + 1 :
                     EndsLine(text, end) /\ IsJson(LineBefore(text, end))
                        => LineBefore(text, end)[1][2] \in Range(loaded)
<1> DEFINE all == 1 .. Len(text) + 1
           ends == {end \in all : EndsLine(text, end)}
           raw == [end \in all |-> LineBefore(text, end)]
           lines == SelectAt(raw, ends)
           good == {i \in DOMAIN lines : IsJson(lines[i])}
           loaded == LoadJsonl(text)
<1>1. Len(text) \in Nat /\ Len(text) + 1 \in Nat
  BY LenProperties
<1>2. Indices(ends)
  BY <1>1, SomeIndices
<1>3. lines = LinesOf(text)
  BY DEF LinesOf
<1> DEFINE c == Cardinality(ends)
<1>4. /\ DOMAIN lines = 1 .. c /\ c \in Nat
      /\ \A n \in 1 .. c : /\ Nth(ends, n) \in ends
                            /\ lines[n] = raw[Nth(ends, n)]
      /\ \A end \in ends : /\ Place(ends, end) \in 1 .. c
                            /\ lines[Place(ends, end)] = raw[end]
  <2> HIDE DEF ends, raw
  <2> QED BY <1>2, SelectionHolds
<1>5. \A n \in 1 .. c : lines[n] = LineBefore(text, Nth(ends, n))
  BY <1>4
<1>6. \A end \in ends : lines[Place(ends, end)] = LineBefore(text, end)
  BY <1>4
<1> HIDE DEF lines
<1>7. Indices(good) /\ good \subseteq 1 .. c
  BY <1>4, SomeIndices
<1> DEFINE d == Cardinality(good)
           some == SelectAt(lines, good)
<1>8. /\ d \in Nat
      /\ \A n \in 1 .. d : Nth(good, n) \in good /\ some[n] = lines[Nth(good, n)]
      /\ \A i \in good : Place(good, i) \in 1 .. d /\ some[Place(good, i)] = lines[i]
  <2> HIDE DEF good
  <2> QED BY <1>7, SelectionHolds
<1>9. loaded = [i \in 1 .. d |-> some[i][1][2]]
  BY <1>3 DEF LoadJsonl, EventsAt
<1> DEFINE at(i) == Nth(ends, Nth(good, i))
<1> HIDE DEF some, loaded, ends, d
<1>10. ASSUME NEW i \in 1 .. d
       PROVE  /\ at(i) \in all
              /\ loaded[i] = LineBefore(text, at(i))[1][2]
              /\ IsJson(LineBefore(text, at(i)))
  <2>1. Nth(good, i) \in 1 .. c /\ IsJson(lines[Nth(good, i)])
    BY <1>7, <1>8
  <2>2. lines[Nth(good, i)] = LineBefore(text, at(i)) /\ at(i) \in ends
    BY <1>4, <1>5, <2>1
  <2>3. at(i) \in all
    BY <2>2 DEF ends
  <2> QED BY <1>8, <1>9, <2>1, <2>2, <2>3
<1> HIDE DEF all
<1>11. \A i \in 1 .. d : /\ loaded[i] \in Event
                         /\ at(i) - 2 \in 1 .. Len(text)
                         /\ text[at(i) - 2] = Head1(loaded[i])
  BY <1>10, EventLine DEF all
<1>12. loaded \in Seq(Event) /\ DOMAIN loaded = 1 .. d
  <2>1. \A i \in 1 .. d : loaded[i] \in Event
    BY <1>11
  <2>2. loaded \in [1 .. d -> Event]
    BY <1>9, <2>1
  <2> QED BY <1>8, <2>2, SeqDef
<1>13. ASSUME NEW i \in 1 .. d, NEW j \in 1 .. d, at(i) - 2 = at(j) - 2
       PROVE  i = j
  <2>1. at(i) = at(j)
    BY <1>1, <1>10, <1>13 DEF all
  <2>2. Nth(good, i) \in 1 .. c /\ Nth(good, j) \in 1 .. c
    BY <1>7, <1>8
  <2>3. Nth(good, i) = Nth(good, j)
    BY <1>2, <2>1, <2>2, NthIsThere DEF c
  <2> HIDE DEF good
  <2> QED BY <1>7, <2>3, NthIsThere DEF d
<1>14. \E start \in [DOMAIN loaded -> 1 .. Len(text)] :
          /\ \A i \in DOMAIN loaded : text[start[i]] = Head1(loaded[i])
          /\ \A i, j \in DOMAIN loaded : start[i] = start[j] => i = j
  <2> DEFINE start == [i \in 1 .. d |-> at(i) - 2]
  <2> HIDE DEF at
  <2>1. start \in [1 .. d -> 1 .. Len(text)]
    BY <1>11
  <2>2. \A i \in 1 .. d : text[start[i]] = Head1(loaded[i])
    BY <1>11
  <2>3. \A i, j \in 1 .. d : start[i] = start[j] => i = j
    BY <1>13
  <2> HIDE DEF start
  <2> QED BY <1>12, <2>1, <2>2, <2>3
<1>15. ASSUME NEW end \in all, EndsLine(text, end), IsJson(LineBefore(text, end))
       PROVE  LineBefore(text, end)[1][2] \in Range(loaded)
  <2>1. end \in ends
    BY <1>15 DEF ends
  <2>2. Place(ends, end) \in good /\ lines[Place(ends, end)] = LineBefore(text, end)
    BY <1>4, <1>6, <1>15, <2>1
  <2>3. /\ Place(good, Place(ends, end)) \in 1 .. d
        /\ some[Place(good, Place(ends, end))] = LineBefore(text, end)
    BY <1>8, <2>2
  <2> QED BY <1>9, <1>12, <2>3 DEF Range
<1> QED BY <1>12, <1>14, <1>15 DEF loaded, all

-----------------------------------------------------------------------------
\* What the file holds of escalations: each of them once, and all counted.
LEMMA LogIs ==
    ASSUME LogInv, TextInv
    PROVE  LET all == EventLog(LoadJsonl(disk))
           IN  /\ all \in Seq(Event) /\ Range(all) \subseteq counted
               /\ \A m, n \in DOMAIN all : all[m] = all[n] => m = n
               /\ \A end \in 1 .. Len(disk) + 1 :
                     LET e == LineBefore(disk, end)[1][2]
                     IN  /\ EndsLine(disk, end) /\ IsJson(LineBefore(disk, end))
                         /\ e.kind = "escalation"
                         => e \in Range(all)
<1> DEFINE loaded == LoadJsonl(disk)
           I == {i \in DOMAIN loaded : IsEscalation(loaded[i])}
           all == SelectAt(loaded, I)
<1>1. disk \in Seq(Piece) /\ DOMAIN disk = 1 .. Len(disk)
  BY LenProperties DEF LogInv, LogTypes
<1>2. loaded \in Seq(Event)
  BY <1>1, LoadedIs
<1>3. PICK start \in [DOMAIN loaded -> 1 .. Len(disk)] :
         /\ \A i \in DOMAIN loaded : disk[start[i]] = Head1(loaded[i])
         /\ \A i, j \in DOMAIN loaded : start[i] = start[j] => i = j
  BY <1>1, LoadedIs
<1>4. \A end \in 1 .. Len(disk) + 1 :
         EndsLine(disk, end) /\ IsJson(LineBefore(disk, end))
            => LineBefore(disk, end)[1][2] \in Range(loaded)
  BY <1>1, LoadedIs
<1>5. all = EventLog(LoadJsonl(disk))
  BY DEF EventLog
<1> HIDE DEF loaded
<1>6. DOMAIN loaded = 1 .. Len(loaded) /\ Len(loaded) \in Nat
      /\ \A i \in DOMAIN loaded : loaded[i] \in Event
  BY <1>2, LenProperties, ElementOfSeq
<1>7. Indices(I) /\ I \subseteq DOMAIN loaded
  BY <1>6, SomeIndices
<1>8. \A i \in DOMAIN loaded : loaded[i] \in EventsIn(disk)
  BY <1>1, <1>3, <1>6 DEF EventsIn, Range
<1>9. \A i, j \in DOMAIN loaded : loaded[i] = loaded[j] => i = j
  BY <1>1, <1>3, <1>6 DEF TextInv, Once
<1>10. \A i \in I : loaded[i] \in counted /\ loaded[i] \in Event
  BY <1>6, <1>8 DEF TextInv, Known, IsEscalation
<1>11. Range(all) = {loaded[i] : i \in I} /\ all \in Seq(Event)
  <2> HIDE DEF I
  <2> QED BY <1>7, <1>10, SelectionIsSeq
<1>12. \A m, n \in DOMAIN all : all[m] = all[n] => m = n
  <2>1. \A i, j \in I : loaded[i] = loaded[j] => i = j
    BY <1>9
  <2> HIDE DEF I
  <2> QED BY <1>7, <2>1, SelectionKeepsDistinct
<1>13. ASSUME NEW end \in 1 .. Len(disk) + 1,
              EndsLine(disk, end), IsJson(LineBefore(disk, end)),
              LineBefore(disk, end)[1][2].kind = "escalation"
       PROVE  LineBefore(disk, end)[1][2] \in Range(all)
  <2>1. PICK i \in DOMAIN loaded : loaded[i] = LineBefore(disk, end)[1][2]
    BY <1>4, <1>13 DEF Range
  <2>2. i \in I
    BY <1>13, <2>1 DEF IsEscalation
  <2> QED BY <1>11, <2>1, <2>2
<1> HIDE DEF all
<1> QED BY <1>5, <1>10, <1>11, <1>12, <1>13

-----------------------------------------------------------------------------
(***************************************************************************)
(* Filters: of every set of events, part holds as many as events does of   *)
(* those of them that are in G.                                            *)
(***************************************************************************)
Filters(part, events, G) ==
    /\ part \in Seq(Event)
    /\ \A H \in SUBSET Event : CountIn(part, H) = CountIn(events, G \cap H)

LEMMA SelectFilters ==
    ASSUME NEW events \in Seq(Event), NEW G \in SUBSET Event
    PROVE  Filters(SelectAt(events, {i \in DOMAIN events : events[i] \in G}),
                   events, G)
<1> DEFINE I == {i \in DOMAIN events : events[i] \in G}
           part == SelectAt(events, I)
<1>1. DOMAIN events = 1 .. Len(events) /\ Len(events) \in Nat
  BY LenProperties
<1>2. Indices(I)
  BY <1>1, SomeIndices
<1>3. \A i \in I : events[i] \in Event
  OBVIOUS
<1>4. part \in Seq(Event)
  <2> HIDE DEF I
  <2> QED BY <1>2, <1>3, SelectionIsSeq
<1>5. ASSUME NEW H \in SUBSET Event
      PROVE  CountIn(part, H) = CountIn(events, G \cap H)
  <2>1. CountIn(part, H) = CountAt(events, I, H)
    <3> HIDE DEF I
    <3> QED BY <1>2, SelectionCounts
  <2>2. {i \in I : events[i] \in H} = {i \in DOMAIN events : events[i] \in G \cap H}
    OBVIOUS
  <2> QED BY <2>1, <2>2 DEF CountIn, CountAt
<1> QED BY <1>4, <1>5 DEF Filters

LEMMA FiltersCompose ==
    ASSUME NEW events, NEW part, NEW rest,
           NEW G \in SUBSET Event, NEW H \in SUBSET Event,
           Filters(part, events, G), Filters(rest, part, H)
    PROVE  Filters(rest, events, G \cap H)
<1> SUFFICES ASSUME NEW K \in SUBSET Event
             PROVE  CountIn(rest, K) = CountIn(events, (G \cap H) \cap K)
  BY DEF Filters
<1>1. H \cap K \in SUBSET Event /\ G \cap (H \cap K) = (G \cap H) \cap K
  OBVIOUS
<1> QED BY <1>1 DEF Filters

LEMMA FiltersNothing ==
    ASSUME NEW events \in Seq(Event), NEW G \in SUBSET Event, G = Event
    PROVE  Filters(events, events, G)
<1>1. \A H \in SUBSET Event : G \cap H = H
  OBVIOUS
<1> QED BY <1>1 DEF Filters

OfTrigger(t) == {e \in Event : t = None \/ e.trigger = t}
NotBefore(since) == {e \in Event : since = None \/ e.at >= since}
OfModel(p) == {e \in Event : p = None \/ ModelOf[e.by] \in Patterns[p]}

LEMMA TheFilters ==
    ASSUME NEW events \in Seq(Event), NEW x
    PROVE  /\ Filters(FilterTrigger(events, x), events, OfTrigger(x))
           /\ Filters(FilterSince(events, x), events, NotBefore(x))
           /\ Filters(FilterModel(events, x), events, OfModel(x))
<1>1. \A i \in DOMAIN events : events[i] \in Event
  BY LenProperties, ElementOfSeq
<1>2. CASE x = None
  <2>1. OfTrigger(x) = Event /\ NotBefore(x) = Event /\ OfModel(x) = Event
    BY <1>2 DEF OfTrigger, NotBefore, OfModel
  <2>2. /\ FilterTrigger(events, x) = events /\ FilterSince(events, x) = events
        /\ FilterModel(events, x) = events
    BY <1>2 DEF FilterTrigger, FilterSince, FilterModel
  <2> QED BY <2>1, <2>2, FiltersNothing
<1>3. CASE x # None
  <2>1. /\ OfTrigger(x) \in SUBSET Event /\ NotBefore(x) \in SUBSET Event
        /\ OfModel(x) \in SUBSET Event
    BY DEF OfTrigger, NotBefore, OfModel
  <2>2. FilterTrigger(events, x)
           = SelectAt(events, {i \in DOMAIN events : events[i] \in OfTrigger(x)})
    <3>1. {i \in DOMAIN events : events[i].trigger = x}
             = {i \in DOMAIN events : events[i] \in OfTrigger(x)}
      BY <1>1, <1>3 DEF OfTrigger
    <3> QED BY <1>3, <3>1 DEF FilterTrigger
  <2>3. FilterSince(events, x)
           = SelectAt(events, {i \in DOMAIN events : events[i] \in NotBefore(x)})
    <3>1. {i \in DOMAIN events : events[i].at >= x}
             = {i \in DOMAIN events : events[i] \in NotBefore(x)}
      BY <1>1, <1>3 DEF NotBefore
    <3> QED BY <1>3, <3>1 DEF FilterSince
  <2>4. FilterModel(events, x)
           = SelectAt(events, {i \in DOMAIN events : events[i] \in OfModel(x)})
    <3>1. {i \in DOMAIN events : ModelOf[events[i].by] \in Patterns[x]}
             = {i \in DOMAIN events : events[i] \in OfModel(x)}
      BY <1>1, <1>3 DEF OfModel
    <3> QED BY <1>3, <3>1 DEF FilterModel
  <2> QED BY <2>1, <2>2, <2>3, <2>4, SelectFilters
<1> QED BY <1>2, <1>3

LEMMA AnalyzeFilters ==
    ASSUME NEW events \in Seq(Event), NEW t, NEW since, NEW p
    PROVE  Filters(Analyze(events, t, since, p), events,
                   OfTrigger(t) \cap (NotBefore(since) \cap OfModel(p)))
<1> DEFINE a == FilterTrigger(events, t)
           b == FilterSince(a, since)
           c == FilterModel(b, p)
<1>1. /\ OfTrigger(t) \in SUBSET Event /\ NotBefore(since) \in SUBSET Event
      /\ OfModel(p) \in SUBSET Event
      /\ OfTrigger(t) \cap NotBefore(since) \in SUBSET Event
  BY DEF OfTrigger, NotBefore, OfModel
<1>2. Filters(a, events, OfTrigger(t)) /\ a \in Seq(Event)
  BY TheFilters DEF Filters
<1> HIDE DEF a
<1>3. Filters(b, a, NotBefore(since)) /\ b \in Seq(Event)
  BY <1>2, TheFilters DEF Filters
<1> HIDE DEF b
<1>4. Filters(c, b, OfModel(p))
  BY <1>3, TheFilters
<1>5. c = Analyze(events, t, since, p)
  BY DEF Analyze, a, b
<1> HIDE DEF c
<1>6. Filters(b, events, OfTrigger(t) \cap NotBefore(since))
  BY <1>1, <1>2, <1>3, FiltersCompose
<1>7. Filters(c, events, (OfTrigger(t) \cap NotBefore(since)) \cap OfModel(p))
  BY <1>1, <1>4, <1>6, FiltersCompose
<1>8. (OfTrigger(t) \cap NotBefore(since)) \cap OfModel(p)
         = OfTrigger(t) \cap (NotBefore(since) \cap OfModel(p))
  OBVIOUS
<1> QED BY <1>5, <1>7, <1>8

\* A breakdown says of a trigger what a report on that trigger holds.
LEMMA BreakdownAgrees ==
    ASSUME NEW all \in Seq(Event), NEW since, NEW p,
           NEW t \in DOMAIN TriggerBreakdown(Analyze(all, None, since, p))
    PROVE  TriggerBreakdown(Analyze(all, None, since, p))[t]
              = Len(Analyze(all, t, since, p))
<1> DEFINE part == Analyze(all, None, since, p)
           own == Analyze(all, t, since, p)
           G == NotBefore(since) \cap OfModel(p)
<1>1. /\ G \in SUBSET Event /\ OfTrigger(t) \in SUBSET Event
      /\ OfTrigger(None) = Event
  BY DEF NotBefore, OfModel, OfTrigger
<1>2. /\ Filters(part, all, OfTrigger(None) \cap G)
      /\ Filters(own, all, OfTrigger(t) \cap G)
  BY AnalyzeFilters
<1>3. /\ part \in Seq(Event) /\ own \in Seq(Event)
      /\ DOMAIN own = 1 .. Len(own) /\ Len(own) \in Nat
  BY <1>2, LenProperties DEF Filters
<1>4. /\ \A i \in DOMAIN part : part[i] \in Event
      /\ \A i \in DOMAIN own : own[i] \in Event
  BY <1>3, LenProperties, ElementOfSeq
<1> HIDE DEF part, own, G
<1>5. /\ t \in {part[i].trigger : i \in DOMAIN part}
      /\ TriggerBreakdown(part)[t]
            = Cardinality({i \in DOMAIN part : part[i].trigger = t})
  BY DEF TriggerBreakdown, part
<1>6. t # None
  <2>1. PICK i \in DOMAIN part : t = part[i].trigger
    BY <1>5
  <2>2. t \in Triggers
    BY <1>4, <2>1 DEF Event
  <2> QED BY <2>2, LogAssumption DEF Triggers
<1>7. TriggerBreakdown(part)[t] = CountIn(part, OfTrigger(t))
  <2>1. {i \in DOMAIN part : part[i].trigger = t}
           = {i \in DOMAIN part : part[i] \in OfTrigger(t)}
    BY <1>4, <1>6 DEF OfTrigger
  <2> QED BY <1>5, <2>1 DEF CountIn
<1>8. Len(own) = CountIn(own, Event)
  <2>1. {i \in DOMAIN own : own[i] \in Event} = 1 .. Len(own)
    BY <1>3, <1>4
  <2>2. Cardinality(1 .. Len(own)) = Len(own)
    <3>1. /\ 1 \in Int /\ Len(own) \in Int /\ Len(own) - 1 + 1 = Len(own)
          /\ 1 > Len(own) => Len(own) = 0
      BY <1>3
    <3> QED BY <3>1, FS_Interval
  <2> QED BY <2>1, <2>2 DEF CountIn
<1>9. (OfTrigger(None) \cap G) \cap OfTrigger(t) = (OfTrigger(t) \cap G) \cap Event
  BY <1>1
<1>10. Event \in SUBSET Event
  OBVIOUS
<1>11. CountIn(part, OfTrigger(t)) = CountIn(own, Event)
  BY <1>1, <1>2, <1>9, <1>10 DEF Filters
<1> QED BY <1>7, <1>8, <1>11 DEF part, own

(***************************************************************************)
(* analyze reports counted escalations, each once, and its breakdown adds  *)
(* up, whichever flushes failed and wherever a crash came in between.      *)
(***************************************************************************)
THEOREM ReportsAreSound == LogSpec => []AnalyzeIsSound
<1>1. LogInv /\ TextInv => AnalyzeIsSound
  <2> SUFFICES ASSUME LogInv, TextInv PROVE AnalyzeIsSound
    OBVIOUS
  <2> DEFINE all == EventLog(LoadJsonl(disk))
  <2>1. /\ all \in Seq(Event) /\ Range(all) \subseteq counted
        /\ \A m, n \in DOMAIN all : all[m] = all[n] => m = n
    BY LogIs
  <2> HIDE DEF all
  <2>2. IsInjective(all)
    BY <2>1 DEF IsInjective
  <2>3. \A since \in {all[i].at : i \in DOMAIN all}, p \in DOMAIN Patterns :
           LET part == Analyze(all, None, since, p)
           IN  \A t \in DOMAIN TriggerBreakdown(part) :
                  TriggerBreakdown(part)[t] = Len(Analyze(all, t, since, p))
    BY <2>1, BreakdownAgrees
  <2> QED BY <2>1, <2>2, <2>3 DEF AnalyzeIsSound, all
<1> QED BY <1>1, LogCorrect, TextsAreSound, PTL

-----------------------------------------------------------------------------
\* An escalation that analyze misses although it was written is glued.
LEMMA MissedAreGlued ==
    ASSUME LogInv, TextInv, NEW e \in Missed
    PROVE  /\ e \in Event
           /\ \E i \in DOMAIN disk :
                 /\ WrittenAt(e, i) /\ i > 1 /\ disk[i - 1] # NewLine
                 /\ disk[i] = Head1(e) /\ i \in GluedIn(disk)
<1>1. disk \in Seq(Piece) /\ Len(disk) \in Nat /\ DOMAIN disk = 1 .. Len(disk)
  BY LenProperties DEF LogInv, LogTypes
<1>2. e \in Event /\ e.kind = "escalation" /\ e \notin Range(EventLog(LoadJsonl(disk)))
  BY DEF Missed, TextInv
<1>3. PICK i \in 1 .. Len(disk) : WrittenAt(e, i)
  BY <1>1 DEF Missed
<1>4. /\ i \in Nat /\ i > 0 /\ i + 2 <= Len(disk)
      /\ disk[i] = Head1(e) /\ disk[i + 1] = Tail2(e) /\ disk[i + 2] = NewLine
  <2>1. i + 2 <= Len(disk) /\ SubSeq(disk, i, i + 2) = Line(e)
    BY <1>3 DEF WrittenAt
  <2>2. PICK j \in Nat : j = i + 2
    OBVIOUS
  <2>3. \A k \in i .. j : disk[k] \in Piece
    BY <1>1, <2>1, <2>2, ElementOfSeq
  <2>4. \A k \in 1 .. j - i + 1 : SubSeq(disk, i, j)[k] = disk[i + k - 1]
    BY <2>3, SubSeqProperties
  <2>5. /\ j - i + 1 = 3 /\ 1 \in 1 .. 3 /\ 2 \in 1 .. 3 /\ 3 \in 1 .. 3
        /\ i + 1 - 1 = i /\ i + 2 - 1 = i + 1 /\ i + 3 - 1 = i + 2
    BY <2>2
  <2>6. /\ disk[i] = Line(e)[1] /\ disk[i + 1] = Line(e)[2]
        /\ disk[i + 2] = Line(e)[3]
    BY <2>1, <2>2, <2>4, <2>5
  <2> QED BY <1>2, <2>1, <2>6, LineText
<1>5. ~ (i = 1 \/ disk[i - 1] = NewLine)
  <2> SUFFICES ASSUME i = 1 \/ disk[i - 1] = NewLine PROVE FALSE
    OBVIOUS
  <2>1. /\ i + 2 \in 1 .. Len(disk) + 1 /\ EndsLine(disk, i + 2)
        /\ IsJson(LineBefore(disk, i + 2))
        /\ LineBefore(disk, i + 2)[1][2] = e
    BY <1>1, <1>2, <1>4, LineFound
  <2> QED BY <1>2, <2>1, LogIs
<1>6. i > 1 /\ i \in 2 .. Len(disk)
  BY <1>1, <1>5
<1>7. i \in GluedIn(disk)
  BY <1>2, <1>4, <1>5, <1>6 DEF GluedIn, IsStart
<1> QED BY <1>1, <1>2, <1>3, <1>4, <1>5, <1>6, <1>7

(***************************************************************************)
(* Of the escalations whose own flush succeeded analyze misses at most two *)
(* for each failed flush or crash, and each of them is glued to a piece.   *)
(***************************************************************************)
THEOREM FewAreLost == LogSpec => []LossIsBounded
<1>1. LogInv /\ TextInv /\ LossInv => LossIsBounded
  <2> SUFFICES ASSUME LogInv, TextInv, LossInv PROVE LossIsBounded
    OBVIOUS
  <2>1. \A e \in Missed :
           \E i \in DOMAIN disk : WrittenAt(e, i) /\ i > 1 /\ disk[i - 1] # NewLine
    BY MissedAreGlued
  <2> DEFINE at == [e \in Missed |->
                      CHOOSE i \in GluedIn(disk) : disk[i] = Head1(e)]
  <2>2. \A e \in Missed : at[e] \in GluedIn(disk) /\ disk[at[e]] = Head1(e)
    <3> SUFFICES ASSUME NEW e \in Missed
                 PROVE  at[e] \in GluedIn(disk) /\ disk[at[e]] = Head1(e)
      OBVIOUS
    <3>1. \E i \in GluedIn(disk) : disk[i] = Head1(e)
      BY MissedAreGlued
    <3> QED BY <3>1
  <2>3. at \in [Missed -> GluedIn(disk)]
    BY <2>2
  <2> HIDE DEF at
  <2>4. at \in Injection(Missed, GluedIn(disk))
    BY <2>2, <2>3, PiecesDiffer DEF Injection, IsInjective
  <2>5. IsFiniteSet(GluedIn(disk)) /\ CutIn(disk) \in 0 .. 1
    BY GluedType DEF LogInv, LogTypes
  <2>6. /\ IsFiniteSet(Missed)
        /\ Cardinality(Missed) <= Cardinality(GluedIn(disk))
    BY <2>4, <2>5, FS_Injection
  <2>7. IsFiniteSet(Waiting)
    <3>1. Waiting \in SUBSET Loggers
      BY DEF Waiting
    <3> QED BY <3>1, FS_Subset, LogAssumption
  <2>8. /\ Cardinality(Missed) \in Nat /\ Cardinality(GluedIn(disk)) \in Nat
        /\ Cardinality(Waiting) \in Nat
    BY <2>5, <2>6, <2>7, FS_CardinalityType
  <2>9. Cardinality(Missed) <= 2 * torn
    BY <2>5, <2>6, <2>8 DEF LossInv
  <2> QED BY <2>1, <2>9 DEF LossIsBounded
<1> QED BY <1>1, LogCorrect, TextsAreSound, PTL

=============================================================================
