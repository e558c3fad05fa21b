-------------------------------- MODULE Log --------------------------------
(***************************************************************************)
(* The application's log (src/src/core/log.rs): a bounded history in       *)
(* memory, one file per day on the disk, of which the newest are kept, and *)
(* listeners.  tail reads the files backwards, block by block, newest      *)
(* first, until it has the lines it was asked for.                         *)
(*                                                                         *)
(* A line is a number and its bytes are that number once or twice and a    *)
(* line feed, 0.  Nobody in the application calls configure: the logger    *)
(* saves to disk whatever the settings say; the tests do.                  *)
(***************************************************************************)
EXTENDS Integers, FiniteSets, Sequences, SequencesExt, Ranks

CONSTANTS
    Days,           \* the days of a life, numbered
    NoDay,
    HistoryLines,   \* lines kept in memory (500 in the application)
    Retentions,     \* numbers of daily files to keep
    BlockSize,      \* bytes of one backward read (8 KiB)
    MaxLines,
    MaxListeners,
    MaxLogTroubles

ASSUME LogAssumption ==
    /\ Days \subseteq Nat /\ Days # {} /\ NoDay \notin Days
    /\ Retentions \subseteq Nat \ {0} /\ {HistoryLines, BlockSize} \subseteq Nat \ {0}
    /\ {MaxLines, MaxListeners, MaxLogTroubles} \subseteq Nat

VARIABLES
    log,        \* the buffer: options, history, active date, the open stream
    daily,      \* the files there are, by day
    today,
    listeners,  \* what each listener that is subscribed has heard
    written,    \* history: lines appended, by day, and those before the last close
    troubled    \* spent: failing opens and writes, closes, settings, clocks set back

logVars == <<log, daily, today, listeners, written, troubled>>

-----------------------------------------------------------------------------
Bytes(line) == IF line % 2 = 0 THEN <<line, line, 0>> ELSE <<line, 0>>
Feed == 0

\* The lines of a text; what follows the last line feed is one if it is there.
LinesOf(bytes) ==
    LET feeds == {i \in DOMAIN bytes : bytes[i] = Feed}
        ends == Rising(feeds \cup (IF bytes = <<>> \/ Last(bytes) = Feed THEN {}
                                   ELSE {Len(bytes) + 1}))
    IN  [k \in DOMAIN ends |->
            SubSeq(bytes, IF k = 1 THEN 1 ELSE ends[k - 1] + 1, ends[k] - 1)]

LastOf(s, n) == SubSeq(s, IF Len(s) > n THEN Len(s) - n + 1 ELSE 1, Len(s))

Nothing == [day |-> NoDay, unlinked |-> FALSE, pending |-> <<>>]

LogInit ==
    /\ log \in [save : {TRUE}, retention : Retentions, history : {<<>>}, active : {NoDay},
                stream : {Nothing}]
    /\ daily = [d \in {} |-> <<>>]
    /\ today = CHOOSE d \in Days : \A e \in Days : d <= e
    /\ listeners = <<>>
    /\ written = [count |-> 0, since |-> 0, on |-> [d \in Days |-> <<>>]]
    /\ troubled = 0

Trouble == troubled < MaxLogTroubles /\ troubled' = troubled + 1
NoTrouble == UNCHANGED troubled

-----------------------------------------------------------------------------
(* append.                                                                 *)

\* Mutant: the oldest line goes only when there is one too many.
OneTooMany(history) == Len(history) > HistoryLines

\* The history is full: its oldest line goes before the new one comes.
Full(history) == Len(history) = HistoryLines

HistoryWith(line) ==
    Append(IF Full(log.history) THEN Tail(log.history) ELSE log.history, line)

\* Where the bytes of a stream go that is flushed or dropped; those of a file
\* that was removed meanwhile go nowhere.
Flushed(files, stream) ==
    IF stream.day = NoDay \/ stream.unlinked \/ stream.day \notin DOMAIN files THEN files
    ELSE [files EXCEPT ![stream.day] = @ \o stream.pending]

\* The stream that writes the line.  A new one is opened if there is none or
\* the day is another one, and then the files beyond the retention go, by their
\* names, be it the one just opened.
Kept(files, n) == {d \in DOMAIN files : Cardinality({e \in DOMAIN files : e > d}) < n}

NeedsOpen == log.stream.day = NoDay \/ log.active # today

Opened ==
    LET before == Flushed(daily, log.stream)
        there == [d \in DOMAIN before \cup {today} |-> IF d \in DOMAIN before THEN before[d] ELSE <<>>]
        kept == Kept(there, log.retention)
    IN  [files |-> [d \in kept |-> there[d]],
         stream |-> [day |-> today, unlinked |-> today \notin kept, pending |-> <<>>]]

Ready == IF NeedsOpen THEN Opened ELSE [files |-> daily, stream |-> log.stream]

\* The line goes through the buffer to the file.
Write(line) ==
    LET ready == Ready
        stream == [ready.stream EXCEPT !.pending = @ \o Bytes(line)]
    IN  \/ /\ daily' = Flushed(ready.files, stream)
           /\ log' = [log EXCEPT !.history = HistoryWith(line), !.active = today,
                                 !.stream = [stream EXCEPT !.pending = <<>>]]
           /\ NoTrouble
        \* what was not written stays in the buffer, for the next line
        \/ /\ daily' = ready.files
           /\ log' = [log EXCEPT !.history = HistoryWith(line), !.active = today, !.stream = stream]
           /\ Trouble

\* The directory cannot be made: the old stream stays.  The file cannot be
\* opened: there is none until the next line.
OpenFails(line) ==
    /\ NeedsOpen /\ Trouble
    /\ \/ /\ log' = [log EXCEPT !.history = HistoryWith(line)] /\ UNCHANGED daily
       \/ /\ log' = [log EXCEPT !.history = HistoryWith(line), !.active = today, !.stream = Nothing]
          /\ daily' = Flushed(daily, log.stream)

AppendLine ==
    LET line == written.count + 1
    IN  /\ written.count < MaxLines
        /\ \/ log.save /\ (Write(line) \/ OpenFails(line))
           \/ /\ ~log.save
              /\ log' = [log EXCEPT !.history = HistoryWith(line)]
              /\ UNCHANGED daily /\ NoTrouble
        /\ listeners' = [i \in DOMAIN listeners |->
               IF listeners[i].on THEN [listeners[i] EXCEPT !.heard = Append(@, line)]
                                  ELSE listeners[i]]
        /\ written' = [written EXCEPT !.count = line, !.on[today] = Append(@, line)]
        /\ UNCHANGED today

-----------------------------------------------------------------------------
(* recent_lines and tail.                                                  *)

RecentLines(limit) == LastOf(log.history, limit)

\* tail_path: blocks from the end until there are more line feeds than lines.
BlocksFrom(bytes, position) == SubSeq(bytes, position + 1, Len(bytes))
Feeds(bytes) == Cardinality({i \in DOMAIN bytes : bytes[i] = Feed})
TailPath(bytes, lines) ==
    LET starts == {p \in 0..Len(bytes) :
                      p = 0 \/ \E n \in 0..Len(bytes) : p = Len(bytes) - n * BlockSize}
        enough == {p \in starts : p = 0 \/ Feeds(BlocksFrom(bytes, p)) > lines}
        from == CHOOSE p \in enough : \A q \in enough : q <= p
    IN  IF lines = 0 THEN <<>> ELSE LastOf(LinesOf(BlocksFrom(bytes, from)), lines)

\* From the newest of some files back to the oldest one, until there are enough.
ReadBack(files, limit) ==
    LET days == Falling(DOMAIN files)
        read[k \in 0..Len(days)] ==
            IF k = 0 THEN <<>>
            ELSE TailPath(files[days[k]], limit - Len(read[k - 1])) \o read[k - 1]
    IN  read[Len(days)]

Since(d) == [e \in {x \in DOMAIN daily : x > d} |-> daily[e]]

\* The directory may not be there or not be listed, and a file may not be read:
\* one that is come to, because the newer ones had too few lines, sends tail back
\* to the history.
LogTail(limit, listed, unreadable) ==
    LET fails == \E d \in unreadable : Len(ReadBack(Since(d), limit)) < limit
    IN  IF ~log.save \/ ~listed \/ fails THEN RecentLines(limit) ELSE ReadBack(daily, limit)

-----------------------------------------------------------------------------
(* The rest.                                                               *)

Configure ==
    \E save \in BOOLEAN, retention \in Retentions :
        /\ save # log.save \/ retention # log.retention
        /\ Trouble
        /\ IF log.save /\ ~save
           THEN /\ daily' = Flushed(daily, log.stream)
                /\ log' = [log EXCEPT !.save = save, !.retention = retention,
                                      !.active = NoDay, !.stream = Nothing]
           ELSE /\ UNCHANGED daily
                /\ log' = [log EXCEPT !.save = save, !.retention = retention]
        /\ UNCHANGED <<today, listeners, written>>

\* The clock of the computer goes on, or is set back.
DayChanges ==
    \E d \in Days \ {today} :
        /\ today' = d
        /\ IF d > today THEN NoTrouble ELSE Trouble
        /\ UNCHANGED <<log, daily, listeners, written>>

Subscribe ==
    /\ Len(listeners) < MaxListeners
    /\ listeners' = Append(listeners, [on |-> TRUE, heard |-> <<>>, since |-> written.count])
    /\ UNCHANGED <<log, daily, today, written, troubled>>
Unsubscribe ==
    \E i \in DOMAIN listeners :
        /\ listeners[i].on /\ listeners' = [listeners EXCEPT ![i].on = FALSE]
        /\ UNCHANGED <<log, daily, today, written, troubled>>

CloseLog ==
    /\ log' = [log EXCEPT !.history = <<>>, !.active = NoDay, !.stream = Nothing]
    /\ daily' = Flushed(daily, log.stream)
    /\ listeners' = [i \in DOMAIN listeners |-> [listeners[i] EXCEPT !.on = FALSE]]
    /\ written' = [written EXCEPT !.since = written.count]
    /\ Trouble /\ UNCHANGED today

LogNext ==
    AppendLine \/ Configure \/ DayChanges \/ Subscribe \/ Unsubscribe \/ CloseLog

LogSpec == LogInit /\ [][LogNext]_logVars

-----------------------------------------------------------------------------
Counted(from, to) == [i \in 1..(to - from) |-> from + i]

\* The lines of files, oldest day first.
LinesIn(files) ==
    LET days == Rising(DOMAIN files)
    IN  FlattenSeq([i \in DOMAIN days |-> LinesOf(files[days[i]])])

\* The last lines reach back into the file of the day.
Needed(d, limit) == Len(LinesIn(Since(d))) < limit

Logged == {d \in Days : written.on[d] # <<>>}

\* What the log shows is the end of what was written to it: the history the
\* last lines in their order, the tail exactly the last lines in the files,
\* however their bytes fall into blocks and days, or else those in memory, but
\* only when a file that holds some of them cannot be read, and no listener misses
\* a line.  While nothing went wrong the files are those of the newest days and
\* hold every line of them.
LogIsTrue ==
    /\ log.history = LastOf(Counted(written.since, written.count), HistoryLines)
    /\ log.save =>
           \A limit \in 0..MaxLines, listed \in BOOLEAN, unreadable \in SUBSET DOMAIN daily :
               LogTail(limit, listed, unreadable) =
                   IF listed /\ \A d \in unreadable : ~Needed(d, limit)
                   THEN LastOf(LinesIn(daily), limit) ELSE RecentLines(limit)
    /\ \A i \in DOMAIN listeners :
           listeners[i].on => listeners[i].heard = Counted(listeners[i].since, written.count)
    /\ troubled = 0 =>
           /\ DOMAIN daily = {d \in Logged : Cardinality({e \in Logged : e > d}) < log.retention}
           /\ \A d \in DOMAIN daily : daily[d] = FlattenSeq([i \in DOMAIN written.on[d] |->
                                                              Bytes(written.on[d][i])])
=============================================================================
