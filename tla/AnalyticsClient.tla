--------------------------- MODULE AnalyticsClient ---------------------------
(***************************************************************************)
(* The analytics writer of the AI SRE (ai-sre/analytics/): lifecycle hooks *)
(* of the agents and Slack handlers (tracker.py, slack_feedback.py) that   *)
(* write rows through a client (client.py) with one buffer per ClickHouse  *)
(* table.  A table is flushed by the call that fills its buffer, by a      *)
(* background task every few seconds and by stop().                        *)
(*                                                                         *)
(* Everything runs in one event loop, so a step lasts from one await to    *)
(* the next.  The client's lock is held across a wait only during an       *)
(* insert, which runs in a thread: the lock is free when nobody inserts.   *)
(*                                                                         *)
(* The loggers are those of the standard library.  A log call with keyword *)
(* arguments raises TypeError when its level is enabled.                   *)
(***************************************************************************)
EXTENDS Integers, Sequences, FiniteSets

CONSTANTS
    ToolCalls,      \* calls of on_tool_call, all for one invocation
    Completions,    \* calls of on_agent_complete for it, with a finding
    Feedbacks,      \* reactions that count, and clicks on "Mark Resolved"
    FalsePositives, \* clicks on "False Positive"
    BatchSize,      \* _BATCH_SIZE
    Levels,         \* log levels the process may be configured with
    Faults          \* what may go wrong; see FaultKinds

FaultKinds == {
    "connect",  \* ClickHouse cannot be reached at start
    "insert",   \* an insert raises, and was not applied
    "reply",    \* an insert is applied, but its reply is lost and it raises
    "metadata", \* the message of a reaction cannot be read or has no finding
    "stop"}     \* the process shuts down

ASSUME AnalyticsAssumption ==
    /\ BatchSize \in Nat \ {0}
    /\ Levels \subseteq {"DEBUG", "INFO", "WARNING"}
    /\ Faults \subseteq FaultKinds

Calls == ToolCalls \cup Completions \cup Feedbacks \cup FalsePositives

\* The order in which _flush_all visits the buffers.
Tables == <<"agent_usage", "findings", "feedback", "tool_calls">>
TableNames == {Tables[i] : i \in DOMAIN Tables}

\* A row is told by its table, the call that wrote it and, as a false positive
\* writes two rows of feedback, its number among them.
Row(table, call, nth) == [table |-> table, call |-> call, nth |-> nth]

Rows == {Row("tool_calls", c, 1) : c \in ToolCalls}
        \cup {Row("findings", c, 1) : c \in Completions}
        \cup {Row("agent_usage", c, 1) : c \in Completions}
        \cup {Row("feedback", c, 1) : c \in Feedbacks}
        \cup {Row("feedback", c, n) : c \in FalsePositives, n \in {1, 2}}

Sweepers == {"flusher", "stop"}

\* A call is of one kind, and is none of the client's own tasks.
ASSUME CallsAssumption ==
    /\ ToolCalls \cap Completions = {}
    /\ Feedbacks \cap FalsePositives = {}
    /\ (ToolCalls \cup Completions) \cap (Feedbacks \cup FalsePositives) = {}
    /\ Calls \cap Sweepers = {}

VARIABLES
    level,    \* the enabled log level
    client,   \* "new", "started", "failed" (start raised), "stopping", "stopped"
    ch,       \* the connection exists
    flusher,  \* the background task: "none", "asleep", "sweeping", "dead"
    sweep,    \* the table each run of _flush_all is at
    buffers,  \* rows waiting, by table
    batch,    \* rows each task is inserting
    orphans,  \* inserts whose task was cancelled while a thread ran them
    stored,   \* rows in ClickHouse, by table
    todo,     \* rows a call has still to write
    phase,    \* "idle", "running", "returned" or "raised", by call
    active,   \* the invocation is in _active
    written,  \* history: rows in the order they were buffered, by table
    mishap    \* history: an insert failed or was cancelled

clientVars == <<level, client, ch, flusher>>
callVars == <<todo, phase, active>>
vars == <<clientVars, sweep, buffers, batch, orphans, stored, callVars,
          written, mishap>>

LogRaises(at) ==
    CASE at = "DEBUG" -> level = "DEBUG"
      [] at = "INFO"  -> level \in {"DEBUG", "INFO"}
      [] at = "ERROR" -> TRUE

\* Variant of LockFree for a client without a lock.
LockFreeAlways == TRUE

LockFree == \A w \in Calls \cup Sweepers : batch[w] = <<>>

-----------------------------------------------------------------------------
(* start() and the hooks *)

\* start: a log call between the connection and the task can raise.
Start ==
    /\ client = "new"
    /\ \/ /\ "connect" \in Faults
          /\ client' = "failed"
          /\ UNCHANGED <<ch, flusher>>
       \/ /\ ch' = TRUE
          /\ IF LogRaises("INFO")
             THEN client' = "failed" /\ UNCHANGED flusher
             ELSE client' = "started" /\ flusher' = "asleep"
    /\ UNCHANGED <<level, sweep, buffers, batch, orphans, stored, callVars,
                   written, mishap>>

\* The call c has rows to write, or returns at once.
Begin(c, rows, raises) ==
    /\ phase[c] = "idle"
    /\ client # "new"
    /\ todo' = [todo EXCEPT ![c] = rows]
    /\ phase' = [phase EXCEPT ![c] = IF rows # <<>> THEN "running"
                                     ELSE IF raises THEN "raised" ELSE "returned"]
    /\ UNCHANGED <<clientVars, sweep, buffers, batch, orphans, stored, written,
                   mishap>>

\* on_agent_start does no I/O; its log call may raise after the assignment.
OnAgentStart ==
    /\ ~active
    /\ \A c \in Completions : phase[c] = "idle"
    /\ active' = TRUE
    /\ UNCHANGED <<clientVars, sweep, buffers, batch, orphans, stored, todo,
                   phase, written, mishap>>

\* A call for an invocation that is not active writes its row all the same.
OnToolCall(c) ==
    Begin(c, <<Row("tool_calls", c, 1)>>, FALSE) /\ UNCHANGED active

\* Variant of CompletionRows that writes the usage first.
CompletionRowsUsageFirst(c) ==
    <<Row("agent_usage", c, 1), Row("findings", c, 1)>>

\* The finding goes first, so that agent_usage can refer to it.
CompletionRows(c) == <<Row("findings", c, 1), Row("agent_usage", c, 1)>>

\* on_agent_complete drops the state of the invocation before it writes.
OnAgentComplete(c) ==
    Begin(c, CompletionRows(c), FALSE) /\ active' = FALSE

\* A reaction is looked up first, which can fail; a click carries the finding.
HandleFeedback(c) ==
    /\ \/ Begin(c, <<Row("feedback", c, 1)>>, FALSE)
       \/ "metadata" \in Faults /\ Begin(c, <<>>, LogRaises("DEBUG"))
    /\ UNCHANGED active

\* One click is reported twice: as a resolution and as feedback.
HandleFalsePositive(c) ==
    /\ Begin(c, <<Row("feedback", c, 1), Row("feedback", c, 2)>>, FALSE)
    /\ UNCHANGED active

-----------------------------------------------------------------------------
(* Buffering and flushing *)

\* Variant of Resume for a caller that goes on after an exception.
ResumeAnyway(c, rest, raised) ==
    /\ todo' = [todo EXCEPT ![c] = rest]
    /\ phase' = [phase EXCEPT ![c] = IF raised THEN "raised"
                                     ELSE IF rest # <<>> THEN "running"
                                     ELSE "returned"]
    /\ UNCHANGED active

\* What call c does after its write returned (raised = FALSE) or raised: all
\* but on_tool_call log with keyword arguments at their end.
Resume(c, rest, raised) ==
    LET left == IF raised THEN <<>> ELSE rest
        bad == raised \/ (c \notin ToolCalls /\ LogRaises("INFO"))
    IN /\ todo' = [todo EXCEPT ![c] = left]
       /\ phase' = [phase EXCEPT ![c] = IF left # <<>> THEN "running"
                                        ELSE IF bad THEN "raised" ELSE "returned"]
       /\ UNCHANGED active

\* Variant of IsFull that lets one row more into the buffer.
IsFullLate(rows) == Len(rows) > BatchSize

IsFull(rows) == Len(rows) >= BatchSize

\* _buffer: append under the lock, and flush a full buffer before releasing it.
Buffer(c) ==
    /\ phase[c] = "running" /\ batch[c] = <<>>
    /\ LockFree
    /\ LET r == Head(todo[c])
           rows == Append(buffers[r.table], r)
       IN /\ written' = [written EXCEPT ![r.table] = Append(@, r)]
          /\ IF IsFull(rows) /\ ch
             THEN /\ buffers' = [buffers EXCEPT ![r.table] = <<>>]
                  /\ batch' = [batch EXCEPT ![c] = rows]
                  /\ todo' = [todo EXCEPT ![c] = Tail(@)]
                  /\ UNCHANGED <<phase, active>>
             ELSE /\ buffers' = [buffers EXCEPT ![r.table] = rows]
                  /\ UNCHANGED batch
                  /\ Resume(c, Tail(todo[c]), FALSE)
    /\ UNCHANGED <<clientVars, sweep, orphans, stored, mishap>>

\* The end of an insert for the task that waits for it.
Wake(w, raised) ==
    CASE w \in Calls ->
           Resume(w, todo[w], raised) /\ UNCHANGED <<clientVars, sweep>>
      [] w = "flusher" ->
           /\ flusher' = IF raised THEN "dead" ELSE flusher
           /\ sweep' = [sweep EXCEPT ![w] = @ + 1]
           /\ UNCHANGED <<level, client, ch, callVars>>
      [] w = "stop" ->
           /\ client' = IF raised THEN "stopped" ELSE client
           /\ sweep' = [sweep EXCEPT ![w] = @ + 1]
           /\ UNCHANGED <<level, ch, flusher, callVars>>

Land(rows) == stored' = [stored EXCEPT ![rows[1].table] = @ \o rows]

\* The debug message after an insert is inside the try: when it raises, the
\* handler of a failed insert runs, and raises too.
InsertSucceeds(w) ==
    /\ batch[w] # <<>>
    /\ Land(batch[w])
    /\ batch' = [batch EXCEPT ![w] = <<>>]
    /\ Wake(w, LogRaises("DEBUG"))
    /\ UNCHANGED <<buffers, orphans, written, mishap>>

\* Variant of InsertFails that puts the rows back, as its comment says.
InsertFailsPutsBack(w) ==
    /\ batch[w] # <<>>
    /\ \/ "insert" \in Faults /\ UNCHANGED stored
       \/ "reply" \in Faults /\ Land(batch[w])
    /\ batch' = [batch EXCEPT ![w] = <<>>]
    /\ buffers' = [buffers EXCEPT ![batch[w][1].table] = batch[w] \o @]
    /\ Wake(w, FALSE)
    /\ mishap' = TRUE
    /\ UNCHANGED <<orphans, written>>

\* logger.exception raises before the rows are put back, and the TypeError
\* reaches whoever flushed.
InsertFails(w) ==
    /\ batch[w] # <<>>
    /\ \/ "insert" \in Faults /\ UNCHANGED stored
       \/ "reply" \in Faults /\ Land(batch[w])
    /\ batch' = [batch EXCEPT ![w] = <<>>]
    /\ Wake(w, LogRaises("ERROR"))
    /\ mishap' = TRUE
    /\ UNCHANGED <<buffers, orphans, written>>

\* The step of _flush_all at its table: skip it, or begin its insert.
SweepTable(w) ==
    /\ LockFree
    /\ sweep[w] <= Len(Tables)
    /\ LET t == Tables[sweep[w]]
       IN IF buffers[t] # <<>> /\ ch
          THEN /\ batch' = [batch EXCEPT ![w] = buffers[t]]
               /\ buffers' = [buffers EXCEPT ![t] = <<>>]
               /\ UNCHANGED sweep
          ELSE /\ sweep' = [sweep EXCEPT ![w] = @ + 1]
               /\ UNCHANGED <<batch, buffers>>
    /\ UNCHANGED <<clientVars, orphans, stored, callVars, written, mishap>>

FlusherSweeps == flusher = "sweeping" /\ SweepTable("flusher")

StopSweeps == client = "stopping" /\ SweepTable("stop")

\* _flush_loop: the interval is over.
FlusherWakes ==
    /\ flusher = "asleep"
    /\ flusher' = "sweeping"
    /\ sweep' = [sweep EXCEPT !["flusher"] = 1]
    /\ UNCHANGED <<level, client, ch, buffers, batch, orphans, stored, callVars,
                   written, mishap>>

\* Variant of FlusherRests that ends the task after one round.
FlusherRestsForGood ==
    /\ flusher = "sweeping" /\ sweep["flusher"] > Len(Tables)
    /\ flusher' = "none"
    /\ UNCHANGED <<level, client, ch, sweep, buffers, batch, orphans, stored,
                   callVars, written, mishap>>

FlusherRests ==
    /\ flusher = "sweeping" /\ sweep["flusher"] > Len(Tables)
    /\ flusher' = "asleep"
    /\ UNCHANGED <<level, client, ch, sweep, buffers, batch, orphans, stored,
                   callVars, written, mishap>>

\* stop: cancelling a task that inserts frees the lock while the thread runs
\* on.  The exception of a dead task comes out of the await, and nothing is
\* flushed.
Stop ==
    /\ "stop" \in Faults
    /\ client \in {"started", "failed"}
    /\ IF flusher = "dead"
       THEN client' = "stopped" /\ UNCHANGED flusher
       ELSE client' = "stopping" /\ flusher' = "none"
    /\ sweep' = [sweep EXCEPT !["stop"] = 1]
    /\ LET left == batch["flusher"]
       IN /\ orphans' = IF left = <<>> THEN orphans ELSE orphans \cup {left}
          /\ mishap' = (mishap \/ left # <<>>)
    /\ batch' = [batch EXCEPT !["flusher"] = <<>>]
    /\ UNCHANGED <<level, ch, buffers, stored, callVars, written>>

StopReturns ==
    /\ client = "stopping" /\ sweep["stop"] > Len(Tables)
    /\ client' = "stopped"
    /\ UNCHANGED <<level, ch, flusher, sweep, buffers, batch, orphans, stored,
                   callVars, written, mishap>>

\* The thread of a cancelled insert finishes, or had not begun.
OrphanEnds ==
    \E rows \in orphans :
        /\ orphans' = orphans \ {rows}
        /\ Land(rows) \/ UNCHANGED stored
        /\ UNCHANGED <<clientVars, sweep, buffers, batch, callVars, written,
                       mishap>>

Init ==
    /\ level \in Levels
    /\ client = "new"
    /\ ch = FALSE
    /\ flusher = "none"
    /\ sweep = [w \in Sweepers |-> 1]
    /\ buffers = [t \in TableNames |-> <<>>]
    /\ batch = [w \in Calls \cup Sweepers |-> <<>>]
    /\ orphans = {}
    /\ stored = [t \in TableNames |-> <<>>]
    /\ todo = [c \in Calls |-> <<>>]
    /\ phase = [c \in Calls |-> "idle"]
    /\ active = FALSE
    /\ written = [t \in TableNames |-> <<>>]
    /\ mishap = FALSE

Hook ==
    \/ OnAgentStart
    \/ \E c \in ToolCalls : OnToolCall(c)
    \/ \E c \in Completions : OnAgentComplete(c)
    \/ \E c \in Feedbacks : HandleFeedback(c)
    \/ \E c \in FalsePositives : HandleFalsePositive(c)

InsertEnds == \E w \in Calls \cup Sweepers : InsertSucceeds(w) \/ InsertFails(w)

Writing == \E c \in Calls : Buffer(c)

Flushing == FlusherWakes \/ FlusherSweeps \/ FlusherRests

Next ==
    \/ Start \/ Hook \/ Writing \/ Flushing \/ InsertEnds \/ OrphanEnds
    \/ Stop \/ StopSweeps \/ StopReturns

\* The event loop runs every ready task, the timer of the flush task fires,
\* and an insert ends (send_receive_timeout).
Fairness ==
    /\ WF_vars(Writing)
    /\ WF_vars(FlusherWakes)
    /\ SF_vars(FlusherSweeps)
    /\ WF_vars(FlusherRests)
    /\ WF_vars(InsertEnds)

Spec == Init /\ [][Next]_vars /\ Fairness

-----------------------------------------------------------------------------

SeqSet(s) == {s[i] : i \in DOMAIN s}

\* Every variable stays within its type, and a call runs exactly while it has
\* rows to write or waits for an insert: one that raised writes nothing more.
TypeOK ==
    /\ level \in Levels
    /\ client \in {"new", "started", "failed", "stopping", "stopped"}
    /\ ch \in BOOLEAN /\ active \in BOOLEAN /\ mishap \in BOOLEAN
    /\ flusher \in {"none", "asleep", "sweeping", "dead"}
    /\ sweep \in [Sweepers -> 1 .. Len(Tables) + 1]
    /\ \A t \in TableNames : SeqSet(buffers[t]) \cup SeqSet(stored[t]) \subseteq Rows
    /\ \A w \in Calls \cup Sweepers : SeqSet(batch[w]) \subseteq Rows
    /\ phase \in [Calls -> {"idle", "running", "returned", "raised"}]
    /\ \A c \in Calls :
          phase[c] = "running" <=> (todo[c] # <<>> \/ batch[c] # <<>>)

Copies(r) == Cardinality({i \in DOMAIN stored[r.table] : stored[r.table][i] = r})

InFlight(r) ==
    \/ r \in SeqSet(buffers[r.table])
    \/ \E w \in Calls \cup Sweepers : r \in SeqSet(batch[w])
    \/ \E rows \in orphans : r \in SeqSet(rows)

Fate(r) ==
    IF r \notin SeqSet(written[r.table]) THEN "unwritten"
    ELSE IF Copies(r) = 0
         THEN IF InFlight(r) THEN "waiting" ELSE "lost"
         ELSE IF Copies(r) = 1 /\ ~InFlight(r) THEN "stored" ELSE "twice"

Promise == INSTANCE AtMostOnceDelivery WITH fate <- [r \in Rows |-> Fate(r)]

\* Whatever fails, and wherever stop() cancels the flush task, a row is stored
\* at most once: an insert whose reply was lost is never repeated.
DeliversAtMostOnce == Promise!Spec

\* A table receives its rows in the order they were buffered, as long as stop()
\* has not cancelled an insert whose thread runs on beside the next one.
StoredInOrder ==
    \A t \in TableNames : ~mishap =>
        stored[t] = SubSeq(written[t], 1, Len(stored[t]))

\* While ClickHouse is connected no buffer holds a full batch, however many
\* calls write at once.
BufferBelowBatch == ch => \A t \in TableNames : Len(buffers[t]) < BatchSize

\* A usage row in ClickHouse refers to a finding that was written before it.
FindingBeforeUsage ==
    \A c \in Completions :
        Copies(Row("agent_usage", c, 1)) > 0 =>
            Row("findings", c, 1) \in SeqSet(written["findings"])

\* While nothing fails and the client is running, a buffered row reaches
\* ClickHouse (_FLUSH_INTERVAL: "flush every N seconds regardless of size").
RowsGetStored ==
    []<>(\/ \A r \in Rows : Fate(r) # "waiting"
         \/ mishap \/ client # "started" \/ flusher = "dead")

=============================================================================
