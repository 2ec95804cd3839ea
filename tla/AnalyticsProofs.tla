-------------------------- MODULE AnalyticsProofs --------------------------
(***************************************************************************)
(* What the analytics writer keeps, for any number of calls, every batch   *)
(* size, log level and fault.                                              *)
(*                                                                         *)
(* A row is in one place: a call has still to write it, it is buffered, in *)
(* an insert, in an insert whose task was cancelled, or stored.  The lock  *)
(* leaves at most one insert at a time, apart from cancelled ones, so that *)
(* what was written is what is stored, what is inserted and what is        *)
(* buffered, in this order, until an insert fails or is cancelled.         *)
(***************************************************************************)
EXTENDS AnalyticsClient, SequenceTheorems, FiniteSetTheorems, TLAPS

Tasks == Calls \cup Sweepers

RowsOf(t) == {r \in Rows : r.table = t}

\* A batch holds rows of one table.
Batches == UNION {Seq(RowsOf(t)) : t \in TableNames}

\* No row occurs twice in s.
Distinct(s) == \A i, j \in DOMAIN s : s[i] = s[j] => i = j

ProcessTyped ==
    /\ level \in Levels
    /\ client \in {"new", "started", "failed", "stopping", "stopped"}
    /\ ch \in BOOLEAN /\ active \in BOOLEAN /\ mishap \in BOOLEAN
    /\ flusher \in {"none", "asleep", "sweeping", "dead"}
    /\ sweep \in [Sweepers -> 1 .. Len(Tables) + 1]
    /\ phase \in [Calls -> {"idle", "running", "returned", "raised"}]

RowsTyped ==
    /\ buffers \in [TableNames -> Seq(Rows)]
    /\ stored \in [TableNames -> Seq(Rows)]
    /\ written \in [TableNames -> Seq(Rows)]
    /\ batch \in [Tasks -> Batches]
    /\ orphans \subseteq Batches \ {<<>>}
    /\ todo \in [Calls -> Seq(Rows)]
    /\ \A t \in TableNames : /\ buffers[t] \in Seq(RowsOf(t))
                             /\ stored[t] \in Seq(RowsOf(t))
                             /\ written[t] \in Seq(RowsOf(t))

\* Who is at work: nobody before start, a call exactly while it has rows to
\* write or to insert, a sweep up to the last table, and one insert at a time.
Order ==
    /\ client = "new" => /\ ~ch
                         /\ \A c \in Calls : phase[c] = "idle"
                         /\ \A t \in TableNames : buffers[t] = <<>>
    /\ \A c \in Calls : phase[c] = "running" <=> (todo[c] # <<>> \/ batch[c] # <<>>)
    /\ \A w \in Sweepers : batch[w] # <<>> => sweep[w] <= Len(Tables)
    /\ \A v, w \in Tasks : batch[v] # <<>> /\ batch[w] # <<>> => v = w

WriterInv == ProcessTyped /\ RowsTyped /\ Order

-----------------------------------------------------------------------------
(* Sequences of rows *)

LEMMA SeqSetFacts ==
    ASSUME NEW S, NEW s \in Seq(S)
    PROVE  /\ SeqSet(s) \subseteq S
           /\ s # <<>> => s[1] \in SeqSet(s)
           /\ \A e \in S : SeqSet(Append(s, e)) = SeqSet(s) \cup {e}
           /\ \A u \in Seq(S) : SeqSet(s \o u) = SeqSet(s) \cup SeqSet(u)
           /\ s # <<>> => SeqSet(s) = {Head(s)} \cup SeqSet(Tail(s))
<1>1. SeqSet(s) \subseteq S
  BY DEF SeqSet
<1>2. s # <<>> => s[1] \in SeqSet(s)
  BY EmptySeq DEF SeqSet
<1>3. ASSUME NEW e \in S
      PROVE  SeqSet(Append(s, e)) = SeqSet(s) \cup {e}
  <2> DEFINE a == Append(s, e)
  <2>1. /\ DOMAIN a = 1 .. Len(s) + 1 /\ DOMAIN s = 1 .. Len(s) /\ Len(s) \in Nat
        /\ a[Len(s) + 1] = e /\ \A i \in 1 .. Len(s) : a[i] = s[i]
    BY AppendProperties, LenProperties
  <2> HIDE DEF a
  <2>2. \A i \in DOMAIN a : a[i] \in SeqSet(s) \cup {e}
    BY <2>1 DEF SeqSet
  <2>3. \A i \in DOMAIN s : s[i] = a[i] /\ i \in DOMAIN a
    BY <2>1
  <2>4. e \in {a[j] : j \in DOMAIN a}
    BY <2>1
  <2> QED
    BY <2>2, <2>3, <2>4 DEF SeqSet, a
<1>4. ASSUME NEW u \in Seq(S)
      PROVE  SeqSet(s \o u) = SeqSet(s) \cup SeqSet(u)
  <2> DEFINE a == s \o u
  <2>1. /\ DOMAIN a = 1 .. Len(s) + Len(u) /\ DOMAIN s = 1 .. Len(s)
        /\ DOMAIN u = 1 .. Len(u) /\ Len(s) \in Nat /\ Len(u) \in Nat
        /\ \A i \in 1 .. Len(s) + Len(u) :
              a[i] = IF i <= Len(s) THEN s[i] ELSE u[i - Len(s)]
    BY ConcatProperties, LenProperties
  <2> HIDE DEF a
  <2>2. \A i \in DOMAIN a : a[i] \in SeqSet(s) \cup SeqSet(u)
    BY <2>1 DEF SeqSet
  <2>3. \A i \in DOMAIN s : s[i] = a[i] /\ i \in DOMAIN a
    BY <2>1
  <2>4. \A i \in DOMAIN u : u[i] = a[i + Len(s)] /\ i + Len(s) \in DOMAIN a
    BY <2>1
  <2>5. SeqSet(s) \subseteq SeqSet(a)
    BY <2>3 DEF SeqSet
  <2>6. SeqSet(u) \subseteq SeqSet(a)
    BY <2>4 DEF SeqSet
  <2>7. SeqSet(a) \subseteq SeqSet(s) \cup SeqSet(u)
    <3>1. \A x \in SeqSet(a) : \E i \in DOMAIN a : x = a[i]
      BY DEF SeqSet
    <3> QED
      BY <2>2, <3>1
  <2> QED
    BY <2>5, <2>6, <2>7 DEF a
<1>5. ASSUME s # <<>>
      PROVE  SeqSet(s) = {Head(s)} \cup SeqSet(Tail(s))
  <2> DEFINE a == Tail(s)
  <2>1. /\ DOMAIN a = 1 .. Len(s) - 1 /\ DOMAIN s = 1 .. Len(s)
        /\ Len(s) \in Nat \ {0} /\ Head(s) = s[1]
        /\ \A i \in 1 .. Len(s) - 1 : a[i] = s[i + 1]
    BY <1>5, HeadTailProperties, LenProperties, EmptySeq
  <2> HIDE DEF a
  <2>2. \A i \in DOMAIN s : s[i] \in {Head(s)} \cup {a[j] : j \in DOMAIN a}
    <3> SUFFICES ASSUME NEW i \in DOMAIN s
                 PROVE  s[i] \in {Head(s)} \cup {a[j] : j \in DOMAIN a}
      OBVIOUS
    <3>1. i = 1 \/ (i - 1 \in DOMAIN a /\ a[i - 1] = s[i])
      BY <2>1
    <3> QED
      BY <2>1, <3>1
  <2>3. \A i \in DOMAIN a : a[i] \in {s[j] : j \in DOMAIN s}
    BY <2>1
  <2>4. Head(s) \in {s[j] : j \in DOMAIN s}
    BY <2>1
  <2> QED
    BY <2>2, <2>3, <2>4 DEF SeqSet, a
<1> QED
  BY <1>1, <1>2, <1>3, <1>4, <1>5

LEMMA EmptyFacts == SeqSet(<<>>) = {} /\ Distinct(<<>>)
BY DEF SeqSet, Distinct

LEMMA DistinctFacts ==
    ASSUME NEW S, NEW s \in Seq(S), Distinct(s)
    PROVE  /\ \A e \in S \ SeqSet(s) : Distinct(Append(s, e))
           /\ \A u \in Seq(S) : Distinct(u) /\ SeqSet(s) \cap SeqSet(u) = {}
                                  => Distinct(s \o u)
           /\ s # <<>> => Distinct(Tail(s)) /\ Head(s) \notin SeqSet(Tail(s))
<1>1. ASSUME NEW e \in S \ SeqSet(s)
      PROVE  Distinct(Append(s, e))
  <2> DEFINE a == Append(s, e)
  <2>1. /\ DOMAIN a = 1 .. Len(s) + 1 /\ DOMAIN s = 1 .. Len(s) /\ Len(s) \in Nat
        /\ a[Len(s) + 1] = e /\ \A i \in 1 .. Len(s) : a[i] = s[i]
    BY AppendProperties, LenProperties
  <2>2. \A i \in 1 .. Len(s) : s[i] # e
    BY <2>1 DEF SeqSet
  <2> HIDE DEF a
  <2>3. Distinct(a)
    BY <2>1, <2>2 DEF Distinct
  <2> QED
    BY <2>3 DEF a
<1>2. ASSUME NEW u \in Seq(S), Distinct(u), SeqSet(s) \cap SeqSet(u) = {}
      PROVE  Distinct(s \o u)
  <2> DEFINE a == s \o u
  <2>1. /\ DOMAIN a = 1 .. Len(s) + Len(u) /\ DOMAIN s = 1 .. Len(s)
        /\ DOMAIN u = 1 .. Len(u) /\ Len(s) \in Nat /\ Len(u) \in Nat
        /\ \A i \in 1 .. Len(s) + Len(u) :
              a[i] = IF i <= Len(s) THEN s[i] ELSE u[i - Len(s)]
    BY ConcatProperties, LenProperties
  <2>2. \A i \in DOMAIN s, j \in DOMAIN u : s[i] # u[j]
    BY <1>2 DEF SeqSet
  <2> HIDE DEF a
  <2>3. ASSUME NEW i \in DOMAIN a, NEW j \in DOMAIN a, a[i] = a[j]
        PROVE  i = j
    <3>1. CASE i <= Len(s) /\ j <= Len(s)
      BY <2>1, <2>3, <3>1 DEF Distinct
    <3>2. CASE i > Len(s) /\ j > Len(s)
      <4>1. i - Len(s) \in DOMAIN u /\ j - Len(s) \in DOMAIN u
        BY <2>1, <3>2
      <4>2. u[i - Len(s)] = u[j - Len(s)]
        BY <2>1, <2>3, <3>2
      <4>3. i - Len(s) = j - Len(s)
        BY <1>2, <4>1, <4>2 DEF Distinct
      <4> QED
        BY <2>1, <4>3
    <3>3. CASE i <= Len(s) /\ j > Len(s)
      BY <2>1, <2>2, <2>3, <3>3
    <3>4. CASE i > Len(s) /\ j <= Len(s)
      BY <2>1, <2>2, <2>3, <3>4
    <3> QED
      BY <2>1, <3>1, <3>2, <3>3, <3>4
  <2> QED
    BY <2>3 DEF a, Distinct
<1>3. ASSUME s # <<>>
      PROVE  Distinct(Tail(s)) /\ Head(s) \notin SeqSet(Tail(s))
  <2> DEFINE a == Tail(s)
  <2>1. /\ DOMAIN a = 1 .. Len(s) - 1 /\ DOMAIN s = 1 .. Len(s)
        /\ Len(s) \in Nat \ {0} /\ Head(s) = s[1]
        /\ \A i \in 1 .. Len(s) - 1 : a[i] = s[i + 1]
    BY <1>3, HeadTailProperties, LenProperties, EmptySeq
  <2> HIDE DEF a
  <2>2. \A i \in DOMAIN a : i + 1 \in DOMAIN s /\ 1 \in DOMAIN s /\ a[i] # s[1]
    BY <2>1 DEF Distinct
  <2>3. Head(s) \notin SeqSet(a)
    BY <2>1, <2>2 DEF SeqSet
  <2>4. ASSUME NEW i \in DOMAIN a, NEW j \in DOMAIN a, a[i] = a[j]
        PROVE  i = j
    <3>1. i + 1 = j + 1
      BY <2>1, <2>2, <2>4 DEF Distinct
    <3> QED
      BY <2>1, <3>1
  <2> QED
    BY <2>3, <2>4 DEF a, Distinct
<1> QED
  BY <1>1, <1>2, <1>3

\* A row is a row of its table; a batch that is not empty is one of a table.
LEMMA TableFacts ==
    /\ \A t : RowsOf(t) \subseteq Rows
    /\ \A r \in Rows : r.table \in TableNames /\ r \in RowsOf(r.table)
    /\ \A b \in Batches : /\ b \in Seq(Rows)
                          /\ b # <<>> => /\ b[1].table \in TableNames
                                         /\ b \in Seq(RowsOf(b[1].table))
    /\ \A t \in TableNames : Seq(RowsOf(t)) \subseteq Batches
    /\ <<>> \in Batches
    /\ Len(Tables) = 4
<1>1. TableNames = {"agent_usage", "findings", "feedback", "tool_calls"} /\ Len(Tables) = 4
  BY DEF TableNames, Tables
<1>2. \A r \in Rows : r.table \in TableNames
  BY <1>1 DEF Rows, Row
<1>3. \A t : RowsOf(t) \subseteq Rows
  BY DEF RowsOf
<1>4. ASSUME NEW b \in Batches
      PROVE  /\ b \in Seq(Rows)
             /\ b # <<>> => /\ b[1].table \in TableNames
                            /\ b \in Seq(RowsOf(b[1].table))
  <2>1. PICK t \in TableNames : b \in Seq(RowsOf(t))
    BY DEF Batches
  <2>2. b \in Seq(Rows)
    BY <1>3, <2>1, SeqMonotonic
  <2>3. b # <<>> => b[1] \in RowsOf(t)
    BY <2>1, EmptySeq
  <2> QED
    BY <2>1, <2>2, <2>3 DEF RowsOf
<1>5. <<>> \in Batches
  BY <1>1, EmptySeq DEF Batches
<1> QED
  BY <1>1, <1>2, <1>3, <1>4, <1>5 DEF Batches, RowsOf

-----------------------------------------------------------------------------
(* Types and order *)

\* What begins a call or ends its wait leaves the other calls alone.
Others(c) == \A d \in Calls \ {c} : todo'[d] = todo[d] /\ phase'[d] = phase[d]

LEMMA ResumeStep ==
    ASSUME WriterInv, NEW c \in Calls, NEW rest \in Seq(Rows), NEW raised,
           Resume(c, rest, raised)
    PROVE  /\ todo' \in [Calls -> Seq(Rows)]
           /\ phase' \in [Calls -> {"idle", "running", "returned", "raised"}]
           /\ active' = active /\ Others(c)
           /\ todo'[c] \in {<<>>, rest}
           /\ phase'[c] # "idle"
           /\ phase'[c] = "running" <=> todo'[c] # <<>>
<1> DEFINE left == IF raised THEN <<>> ELSE rest
           end == IF left # <<>> THEN "running"
                  ELSE IF raised \/ (c \notin ToolCalls /\ LogRaises("INFO"))
                       THEN "raised" ELSE "returned"
<1>1. /\ todo' = [todo EXCEPT ![c] = left]
      /\ phase' = [phase EXCEPT ![c] = end]
      /\ active' = active
  BY DEF Resume
<1>2. left \in {<<>>, rest} /\ left \in Seq(Rows)
  BY EmptySeq
<1>3. /\ end \in {"running", "returned", "raised"}
      /\ end = "running" <=> left # <<>>
  OBVIOUS
<1> HIDE DEF left, end
<1> QED
  BY <1>1, <1>2, <1>3 DEF WriterInv, ProcessTyped, RowsTyped, Others

LEMMA BeginStep ==
    ASSUME WriterInv, NEW c \in Calls, NEW rows \in Seq(Rows), NEW raises,
           Begin(c, rows, raises), active' \in BOOLEAN
    PROVE  WriterInv'
<1> DEFINE end == IF rows # <<>> THEN "running"
                  ELSE IF raises THEN "raised" ELSE "returned"
<1>1. /\ todo' = [todo EXCEPT ![c] = rows]
      /\ phase' = [phase EXCEPT ![c] = end]
      /\ phase[c] = "idle" /\ client # "new"
  BY DEF Begin
<1>2. /\ end \in {"running", "returned", "raised"}
      /\ end = "running" <=> rows # <<>>
  OBVIOUS
<1> HIDE DEF end
<1>3. UNCHANGED <<clientVars, sweep, buffers, batch, orphans, stored, written, mishap>>
  BY DEF Begin
<1>4. batch[c] = <<>>
  BY <1>1 DEF WriterInv, Order
<1>5. ProcessTyped' /\ RowsTyped'
  BY <1>1, <1>2, <1>3 DEF WriterInv, ProcessTyped, RowsTyped, clientVars
<1>6. Order'
  BY <1>1, <1>2, <1>3, <1>4 DEF WriterInv, Order, clientVars, ProcessTyped, RowsTyped
<1> QED
  BY <1>5, <1>6 DEF WriterInv

\* The rows that the hooks write.
LEMMA HookRows ==
    /\ \A c \in ToolCalls : <<Row("tool_calls", c, 1)>> \in Seq(Rows)
    /\ \A c \in Completions : CompletionRows(c) \in Seq(Rows)
    /\ \A c \in Feedbacks : <<Row("feedback", c, 1)>> \in Seq(Rows)
    /\ \A c \in FalsePositives :
          <<Row("feedback", c, 1), Row("feedback", c, 2)>> \in Seq(Rows)
    /\ <<>> \in Seq(Rows)
BY DEF Rows, CompletionRows

LEMMA HookStep ==
    ASSUME WriterInv, Hook
    PROVE  WriterInv'
<1>1. CASE OnAgentStart
  <2>1. /\ active' \in BOOLEAN
        /\ UNCHANGED <<clientVars, sweep, buffers, batch, orphans, stored, todo,
                       phase, written, mishap>>
    BY <1>1 DEF OnAgentStart
  <2> QED
    BY <2>1 DEF WriterInv, ProcessTyped, RowsTyped, Order, clientVars
<1>2. active \in BOOLEAN /\ FALSE \in BOOLEAN
  BY DEF WriterInv, ProcessTyped
<1>3. ASSUME NEW c \in ToolCalls, OnToolCall(c) PROVE WriterInv'
  BY <1>2, <1>3, BeginStep, HookRows DEF OnToolCall, Calls
<1>4. ASSUME NEW c \in Completions, OnAgentComplete(c) PROVE WriterInv'
  BY <1>2, <1>4, BeginStep, HookRows DEF OnAgentComplete, Calls
<1>5. ASSUME NEW c \in Feedbacks, HandleFeedback(c) PROVE WriterInv'
  <2>1. c \in Calls /\ active' \in BOOLEAN
    BY <1>2, <1>5 DEF HandleFeedback, Calls
  <2>2. CASE Begin(c, <<Row("feedback", c, 1)>>, FALSE)
    BY <2>1, <2>2, BeginStep, HookRows
  <2>3. CASE Begin(c, <<>>, LogRaises("DEBUG"))
    BY <2>1, <2>3, BeginStep, HookRows
  <2> QED
    BY <1>5, <2>2, <2>3 DEF HandleFeedback
<1>6. ASSUME NEW c \in FalsePositives, HandleFalsePositive(c) PROVE WriterInv'
  BY <1>2, <1>6, BeginStep, HookRows DEF HandleFalsePositive, Calls
<1> QED
  BY <1>1, <1>3, <1>4, <1>5, <1>6 DEF Hook

LEMMA BufferStep ==
    ASSUME WriterInv, NEW c \in Calls, Buffer(c)
    PROVE  WriterInv'
<1> DEFINE r == Head(todo[c])
           t == r.table
           rows == Append(buffers[t], r)
<1>1. /\ phase[c] = "running" /\ batch[c] = <<>> /\ LockFree
      /\ written' = [written EXCEPT ![t] = Append(@, r)]
      /\ UNCHANGED <<clientVars, sweep, orphans, stored, mishap>>
  BY DEF Buffer
<1>2. \/ /\ buffers' = [buffers EXCEPT ![t] = <<>>]
         /\ batch' = [batch EXCEPT ![c] = rows]
         /\ todo' = [todo EXCEPT ![c] = Tail(@)]
         /\ UNCHANGED <<phase, active>>
      \/ /\ buffers' = [buffers EXCEPT ![t] = rows]
         /\ UNCHANGED batch
         /\ Resume(c, Tail(todo[c]), FALSE)
  BY DEF Buffer
<1>3. todo[c] # <<>> /\ todo[c] \in Seq(Rows)
  BY <1>1 DEF WriterInv, Order, RowsTyped
<1>4. r \in Rows /\ Tail(todo[c]) \in Seq(Rows)
  BY <1>3, HeadTailProperties
<1>5. t \in TableNames /\ r \in RowsOf(t)
  BY <1>4, TableFacts
<1> HIDE DEF r, t
<1>6. /\ rows \in Seq(RowsOf(t)) /\ rows # <<>>
      /\ Append(written[t], r) \in Seq(RowsOf(t))
  <2>1. buffers[t] \in Seq(RowsOf(t)) /\ written[t] \in Seq(RowsOf(t))
    BY <1>5 DEF WriterInv, RowsTyped
  <2> QED
    BY <1>5, <2>1, AppendProperties
<1>7. /\ rows \in Seq(Rows) /\ Append(written[t], r) \in Seq(Rows)
      /\ rows \in Batches /\ <<>> \in Seq(Rows) /\ <<>> \in Seq(RowsOf(t))
  BY <1>5, <1>6, TableFacts, SeqMonotonic, EmptySeq
<1>8. client # "new"
  BY <1>1 DEF WriterInv, Order
<1>9. c \in Tasks /\ \A w \in Tasks : batch[w] = <<>>
  BY <1>1 DEF LockFree, Tasks
<1> HIDE DEF rows
<1>10. CASE /\ buffers' = [buffers EXCEPT ![t] = <<>>]
            /\ batch' = [batch EXCEPT ![c] = rows]
            /\ todo' = [todo EXCEPT ![c] = Tail(@)]
            /\ UNCHANGED <<phase, active>>
  <2>1. ProcessTyped'
    BY <1>1, <1>10 DEF WriterInv, ProcessTyped, clientVars
  <2>2. RowsTyped'
    BY <1>1, <1>4, <1>5, <1>6, <1>7, <1>9, <1>10 DEF WriterInv, RowsTyped, clientVars
  <2>3. \A w \in Tasks : batch'[w] # <<>> <=> w = c
    BY <1>6, <1>9, <1>10 DEF WriterInv, RowsTyped
  <2>4. \A d \in Calls : phase'[d] = "running" <=> (todo'[d] # <<>> \/ batch'[d] # <<>>)
    BY <1>1, <1>10, <2>3 DEF WriterInv, RowsTyped, Order, Tasks
  <2>5. c \notin Sweepers
    BY CallsAssumption
  <2> QED
    BY <1>1, <1>8, <2>1, <2>2, <2>3, <2>4, <2>5 DEF WriterInv, Order, clientVars, Tasks
<1>11. CASE /\ buffers' = [buffers EXCEPT ![t] = rows]
            /\ UNCHANGED batch
            /\ Resume(c, Tail(todo[c]), FALSE)
  <2>1. /\ todo' \in [Calls -> Seq(Rows)]
        /\ phase' \in [Calls -> {"idle", "running", "returned", "raised"}]
        /\ active' = active /\ Others(c)
        /\ phase'[c] = "running" <=> todo'[c] # <<>>
    BY <1>4, <1>11, ResumeStep
  <2>2. ProcessTyped'
    BY <1>1, <2>1 DEF WriterInv, ProcessTyped, clientVars
  <2>3. RowsTyped'
    BY <1>1, <1>5, <1>6, <1>7, <1>11, <2>1 DEF WriterInv, RowsTyped
  <2>4. \A d \in Calls : phase'[d] = "running" <=> (todo'[d] # <<>> \/ batch'[d] # <<>>)
    BY <1>1, <1>11, <2>1 DEF WriterInv, Order, Others
  <2> QED
    BY <1>1, <1>8, <1>11, <2>2, <2>3, <2>4 DEF WriterInv, Order, clientVars
<1> QED
  BY <1>2, <1>10, <1>11

LEMMA SweepStep ==
    ASSUME WriterInv, NEW w \in Sweepers, SweepTable(w)
    PROVE  WriterInv'
<1> DEFINE t == Tables[sweep[w]]
<1>1. /\ LockFree /\ sweep[w] <= Len(Tables)
      /\ UNCHANGED <<clientVars, orphans, stored, callVars, written, mishap>>
  BY DEF SweepTable
<1>2. \/ /\ buffers[t] # <<>> /\ ch
         /\ batch' = [batch EXCEPT ![w] = buffers[t]]
         /\ buffers' = [buffers EXCEPT ![t] = <<>>]
         /\ UNCHANGED sweep
      \/ /\ sweep' = [sweep EXCEPT ![w] = @ + 1]
         /\ UNCHANGED <<batch, buffers>>
  BY DEF SweepTable
<1>3. sweep[w] \in 1 .. 4 /\ w \in Tasks
  BY <1>1, TableFacts DEF WriterInv, ProcessTyped, Tasks
<1>4. t \in TableNames
  BY <1>3, TableFacts DEF TableNames, Tables
<1>5. buffers[t] \in Batches /\ <<>> \in Seq(Rows) /\ <<>> \in Seq(RowsOf(t))
  BY <1>4, TableFacts, EmptySeq DEF WriterInv, RowsTyped
<1>6. \A v \in Tasks : batch[v] = <<>>
  BY <1>1 DEF LockFree, Tasks
<1> HIDE DEF t
<1>7. CASE /\ buffers[t] # <<>> /\ ch
           /\ batch' = [batch EXCEPT ![w] = buffers[t]]
           /\ buffers' = [buffers EXCEPT ![t] = <<>>]
           /\ UNCHANGED sweep
  <2>1. ProcessTyped'
    BY <1>1, <1>7 DEF WriterInv, ProcessTyped, clientVars, callVars
  <2>2. RowsTyped'
    BY <1>1, <1>3, <1>4, <1>5, <1>7 DEF WriterInv, RowsTyped, callVars
  <2>3. \A v \in Tasks : batch'[v] # <<>> <=> v = w
    BY <1>3, <1>6, <1>7 DEF WriterInv, RowsTyped
  <2>4. w \notin Calls
    BY CallsAssumption
  <2>5. client # "new"
    BY <1>7 DEF WriterInv, Order
  <2>6. \A d \in Calls : phase'[d] = "running" <=> (todo'[d] # <<>> \/ batch'[d] # <<>>)
    BY <1>1, <1>6, <2>3, <2>4 DEF WriterInv, Order, Tasks, callVars
  <2> QED
    BY <1>1, <1>7, <2>1, <2>2, <2>3, <2>5, <2>6
    DEF WriterInv, Order, clientVars, Tasks
<1>8. CASE /\ sweep' = [sweep EXCEPT ![w] = @ + 1]
           /\ UNCHANGED <<batch, buffers>>
  <2>1. sweep[w] + 1 \in 1 .. Len(Tables) + 1
    BY <1>3, TableFacts
  <2>2. ProcessTyped'
    BY <1>1, <1>8, <2>1 DEF WriterInv, ProcessTyped, clientVars, callVars
  <2>3. RowsTyped'
    BY <1>1, <1>8 DEF WriterInv, RowsTyped, callVars
  <2> QED
    BY <1>1, <1>6, <1>8, <2>2, <2>3 DEF WriterInv, Order, clientVars, callVars, Tasks
<1> QED
  BY <1>2, <1>7, <1>8

\* The end of an insert.
LEMMA WakeStep ==
    ASSUME WriterInv, NEW w \in Tasks, NEW raised, batch[w] # <<>>,
           Wake(w, raised), batch' = [batch EXCEPT ![w] = <<>>],
           stored' = stored \/ Land(batch[w]),
           UNCHANGED <<buffers, orphans, written>>, mishap' \in BOOLEAN
    PROVE  WriterInv'
<1> DEFINE t == batch[w][1].table
<1>1. batch[w] \in Batches
  BY DEF WriterInv, RowsTyped
<1>2. t \in TableNames /\ batch[w] \in Seq(RowsOf(t)) /\ batch[w] \in Seq(Rows)
  BY SMTT(30), <1>1, TableFacts
<1>3. stored' = stored \/ stored' = [stored EXCEPT ![t] = @ \o batch[w]]
  BY DEF Land
<1> HIDE DEF t
<1>4. /\ stored' \in [TableNames -> Seq(Rows)]
      /\ \A u \in TableNames : stored'[u] \in Seq(RowsOf(u))
  <2>1. stored[t] \o batch[w] \in Seq(Rows) /\ stored[t] \o batch[w] \in Seq(RowsOf(t))
    BY <1>2, ConcatProperties DEF WriterInv, RowsTyped
  <2> QED
    BY <1>2, <1>3, <2>1 DEF WriterInv, RowsTyped
<1>5. batch' \in [Tasks -> Batches] /\ \A v \in Tasks : batch'[v] = <<>>
  BY TableFacts DEF WriterInv, RowsTyped, Order
<1>7. CASE w \in Calls
  <2>1. w \notin Sweepers /\ phase[w] = "running"
    BY <1>7, CallsAssumption DEF WriterInv, Order
  <2>2. Resume(w, todo[w], raised) /\ UNCHANGED <<clientVars, sweep>>
    BY <1>7, <2>1 DEF Wake, Sweepers
  <2>3. todo[w] \in Seq(Rows)
    BY <1>7 DEF WriterInv, RowsTyped
  <2>4. /\ todo' \in [Calls -> Seq(Rows)]
        /\ phase' \in [Calls -> {"idle", "running", "returned", "raised"}]
        /\ active' = active /\ Others(w)
        /\ phase'[w] = "running" <=> todo'[w] # <<>>
    BY <1>7, <2>2, <2>3, ResumeStep
  <2>5. \A d \in Calls : phase'[d] = "running" <=> (todo'[d] # <<>> \/ batch'[d] # <<>>)
    BY <1>5, <2>4 DEF WriterInv, Order, Others, Tasks, RowsTyped
  <2>6. client # "new"
    BY <1>7, <2>1 DEF WriterInv, Order
  <2> QED
    BY <1>4, <1>5, <2>2, <2>4, <2>5, <2>6
    DEF WriterInv, ProcessTyped, RowsTyped, Order, clientVars, Tasks
<1>8. CASE w \in Sweepers
  <2>1. w \notin Calls
    BY <1>8, CallsAssumption
  <2>2. /\ sweep' = [sweep EXCEPT ![w] = @ + 1]
        /\ flusher' \in {flusher, "dead"} /\ client' \in {client, "stopped"}
        /\ client' = client \/ client' # "new"
        /\ UNCHANGED <<level, ch, callVars>>
    BY <1>8, <2>1 DEF Wake, Sweepers
  <2>3. sweep[w] <= Len(Tables) /\ sweep[w] \in 1 .. 5 /\ Len(Tables) = 4
    BY <1>8, TableFacts DEF WriterInv, Order, ProcessTyped
  <2>4. sweep[w] + 1 \in 1 .. Len(Tables) + 1
    BY <2>3
  <2>5. ProcessTyped'
    BY <2>2, <2>4 DEF WriterInv, ProcessTyped, callVars
  <2>6. \A d \in Calls : batch'[d] = batch[d]
    BY <2>1 DEF WriterInv, RowsTyped, Tasks
  <2> QED
    BY <1>4, <1>5, <2>2, <2>5, <2>6 DEF WriterInv, RowsTyped, Order, callVars, Tasks
<1> QED
  BY <1>7, <1>8 DEF Tasks

LEMMA StopStep ==
    ASSUME WriterInv, Stop
    PROVE  WriterInv'
<1>1. /\ client' \in {"stopped", "stopping"} /\ flusher' \in {flusher, "none"}
      /\ sweep' = [sweep EXCEPT !["stop"] = 1]
      /\ batch' = [batch EXCEPT !["flusher"] = <<>>]
      /\ UNCHANGED <<level, ch, buffers, stored, callVars, written>>
  BY DEF Stop
<1>2. /\ orphans' = IF batch["flusher"] = <<>> THEN orphans
                    ELSE orphans \cup {batch["flusher"]}
      /\ mishap' \in BOOLEAN
  BY DEF Stop
<1>3. "flusher" \in Tasks /\ "flusher" \notin Calls /\ "flusher" \in Sweepers
  BY CallsAssumption DEF Tasks, Sweepers
<1>a. 1 \in 1 .. Len(Tables) + 1
  BY TableFacts
<1>4. ProcessTyped'
  BY <1>1, <1>2, <1>a DEF WriterInv, ProcessTyped, callVars
<1>5. RowsTyped'
  BY <1>1, <1>2, <1>3, TableFacts DEF WriterInv, RowsTyped, callVars
<1>6. \A w \in Tasks : batch'[w] # <<>> => batch[w] # <<>>
  BY <1>1 DEF WriterInv, RowsTyped
<1>7. \A c \in Calls : batch'[c] = batch[c]
  BY <1>1, <1>3 DEF WriterInv, RowsTyped, Tasks
<1>8. \A w \in Sweepers : sweep'[w] \in {sweep[w], 1} /\ w \in Tasks
  BY <1>1 DEF WriterInv, ProcessTyped, Tasks
<1>9. 1 <= Len(Tables)
  BY TableFacts
<1> QED
  BY <1>1, <1>4, <1>5, <1>6, <1>7, <1>8, <1>9 DEF WriterInv, Order, callVars

LEMMA WriterStep ==
    ASSUME WriterInv, [Next]_vars
    PROVE  WriterInv'
<1>1. CASE Start
  <2>1. /\ client' \in {"failed", "started"} /\ flusher' \in {flusher, "asleep"}
        /\ ch' \in {ch, TRUE}
        /\ UNCHANGED <<level, sweep, buffers, batch, orphans, stored, callVars,
                       written, mishap>>
    BY <1>1 DEF Start
  <2> QED
    BY <2>1 DEF WriterInv, ProcessTyped, RowsTyped, Order, callVars
<1>2. CASE FlusherWakes
  <2>1. /\ flusher' = "sweeping" /\ sweep' = [sweep EXCEPT !["flusher"] = 1]
        /\ UNCHANGED <<level, client, ch, buffers, batch, orphans, stored, callVars,
                       written, mishap>>
    BY <1>2 DEF FlusherWakes
  <2>2. 1 <= Len(Tables) /\ 1 \in 1 .. Len(Tables) + 1
    BY TableFacts
  <2>3. \A w \in Sweepers : sweep'[w] \in {sweep[w], 1}
    BY <2>1 DEF WriterInv, ProcessTyped
  <2> QED
    BY <2>1, <2>2, <2>3 DEF WriterInv, ProcessTyped, RowsTyped, Order, callVars
<1>3. CASE FlusherRests \/ StopReturns \/ UNCHANGED vars
  <2>1. /\ client' \in {client, "stopped"} /\ flusher' \in {flusher, "asleep"}
        /\ client' = "new" => client = "new"
        /\ UNCHANGED <<level, ch, sweep, buffers, batch, orphans, stored,
                       callVars, written, mishap>>
    BY <1>3 DEF FlusherRests, StopReturns, vars, clientVars
  <2> QED
    BY <2>1 DEF WriterInv, ProcessTyped, RowsTyped, Order, callVars
<1>4. CASE FlusherSweeps \/ StopSweeps
  BY <1>4, SweepStep DEF FlusherSweeps, StopSweeps, Sweepers
<1>5. CASE InsertEnds
  <2>1. PICK w \in Tasks : InsertSucceeds(w) \/ InsertFails(w)
    BY <1>5 DEF InsertEnds, Tasks
  <2>2. CASE InsertSucceeds(w)
    BY <2>2, WakeStep DEF InsertSucceeds, WriterInv, ProcessTyped
  <2>3. CASE InsertFails(w)
    BY <2>3, WakeStep DEF InsertFails
  <2> QED
    BY <2>1, <2>2, <2>3
<1>6. CASE OrphanEnds
  <2>1. PICK b \in orphans :
          /\ orphans' = orphans \ {b}
          /\ Land(b) \/ UNCHANGED stored
          /\ UNCHANGED <<clientVars, sweep, buffers, batch, callVars, written, mishap>>
    BY <1>6 DEF OrphanEnds
  <2> DEFINE t == b[1].table
  <2>2. b \in Batches \ {<<>>}
    BY DEF WriterInv, RowsTyped
  <2>3. t \in TableNames /\ b \in Seq(RowsOf(t)) /\ b \in Seq(Rows)
    BY <2>2, TableFacts
  <2>4. stored' = stored \/ stored' = [stored EXCEPT ![t] = @ \o b]
    BY <2>1 DEF Land
  <2> HIDE DEF t
  <2>5. stored[t] \o b \in Seq(Rows) /\ stored[t] \o b \in Seq(RowsOf(t))
    BY <2>3, ConcatProperties DEF WriterInv, RowsTyped
  <2>6. RowsTyped'
    BY <2>1, <2>3, <2>4, <2>5 DEF WriterInv, RowsTyped, callVars
  <2> QED
    BY <2>1, <2>6 DEF WriterInv, ProcessTyped, Order, callVars, clientVars
<1> QED
  BY <1>1, <1>2, <1>3, <1>4, <1>5, <1>6, HookStep, BufferStep, StopStep
  DEF Next, Writing, Flushing

LEMMA WriterInit == Init => WriterInv
<1> SUFFICES ASSUME Init PROVE WriterInv
  OBVIOUS
<1>1. <<>> \in Seq(Rows) /\ \A t : <<>> \in Seq(RowsOf(t))
  BY EmptySeq
<1>2. ProcessTyped
  <2>1. 1 \in 1 .. Len(Tables) + 1
    BY TableFacts
  <2> QED
    BY <2>1 DEF Init, ProcessTyped
<1>3. RowsTyped
  BY <1>1, TableFacts DEF Init, RowsTyped, Tasks
<1>4. Order
  BY DEF Init, Order, Tasks
<1> QED
  BY <1>2, <1>3, <1>4 DEF WriterInv

\* Types, and calls that run exactly while they have work, for any number of
\* calls and every fault.
THEOREM TypeCorrect == Spec => []TypeOK
<1>1. WriterInv => TypeOK
  <2> SUFFICES ASSUME WriterInv PROVE TypeOK
    OBVIOUS
  <2>1. \A t \in TableNames : SeqSet(buffers[t]) \cup SeqSet(stored[t]) \subseteq Rows
    BY SeqSetFacts DEF WriterInv, RowsTyped
  <2>2. \A w \in Tasks : SeqSet(batch[w]) \subseteq Rows
    BY SeqSetFacts, TableFacts DEF WriterInv, RowsTyped
  <2> QED
    BY <2>1, <2>2 DEF WriterInv, ProcessTyped, Order, TypeOK, Tasks
<1> QED
  BY <1>1, WriterInit, WriterStep, PTL DEF Spec

-----------------------------------------------------------------------------
(* The moves of the rows: every step is one of these. *)

\* The rows that call c sets out to write.
Script(c, rows) ==
    \/ c \in ToolCalls /\ rows = <<Row("tool_calls", c, 1)>>
    \/ c \in Completions /\ rows = CompletionRows(c)
    \/ c \in Feedbacks /\ rows \in {<<Row("feedback", c, 1)>>, <<>>}
    \/ c \in FalsePositives
       /\ rows = <<Row("feedback", c, 1), Row("feedback", c, 2)>>

\* A call goes on, gives up, or begins while no row moves.
Rests ==
    /\ UNCHANGED <<buffers, batch, orphans, stored, written, mishap>>
    /\ \A c \in Calls :
          \/ todo'[c] = todo[c] /\ phase'[c] = phase[c]
          \/ phase[c] = "idle" /\ phase'[c] # "idle" /\ Script(c, todo'[c])

CallsGoOn ==
    \A c \in Calls : /\ todo'[c] \in {todo[c], <<>>}
                     /\ phase'[c] = "idle" => phase[c] = "idle"

Writes(c) ==
    LET r == Head(todo[c])
        rows == Append(buffers[r.table], r)
    IN /\ todo[c] # <<>> /\ phase[c] # "idle" /\ phase'[c] # "idle"
       /\ todo'[c] \in {Tail(todo[c]), <<>>}
       /\ Others(c)
       /\ \A w \in Tasks : batch[w] = <<>>
       /\ written' = [written EXCEPT ![r.table] = Append(@, r)]
       /\ \/ /\ buffers' = [buffers EXCEPT ![r.table] = <<>>]
             /\ batch' = [batch EXCEPT ![c] = rows]
          \/ /\ ch => Len(rows) < BatchSize
             /\ buffers' = [buffers EXCEPT ![r.table] = rows]
             /\ UNCHANGED batch
       /\ UNCHANGED <<orphans, stored, mishap>>

Takes(w, t) ==
    /\ \A v \in Tasks : batch[v] = <<>>
    /\ buffers[t] # <<>>
    /\ batch' = [batch EXCEPT ![w] = buffers[t]]
    /\ buffers' = [buffers EXCEPT ![t] = <<>>]
    /\ UNCHANGED <<orphans, stored, todo, phase, written, mishap>>

Ends(w) ==
    /\ batch[w] # <<>>
    /\ batch' = [batch EXCEPT ![w] = <<>>]
    /\ mishap => mishap'
    /\ Land(batch[w]) \/ (UNCHANGED stored /\ mishap')
    /\ CallsGoOn
    /\ UNCHANGED <<buffers, orphans, written>>

Cancels ==
    /\ \/ batch["flusher"] = <<>> /\ orphans' = orphans /\ mishap' = mishap
       \/ /\ batch["flusher"] # <<>> /\ mishap'
          /\ orphans' = orphans \cup {batch["flusher"]}
    /\ batch' = [batch EXCEPT !["flusher"] = <<>>]
    /\ UNCHANGED <<buffers, stored, todo, phase, written>>

Outlives(b) ==
    /\ orphans' = orphans \ {b}
    /\ Land(b) \/ UNCHANGED stored
    /\ UNCHANGED <<buffers, batch, todo, phase, written, mishap>>

LEMMA Beginning ==
    ASSUME WriterInv, NEW c \in Calls, NEW rows \in Seq(Rows), NEW raises,
           Begin(c, rows, raises), Script(c, rows)
    PROVE  Rests
<1> DEFINE end == IF rows # <<>> THEN "running"
                  ELSE IF raises THEN "raised" ELSE "returned"
<1>1. /\ todo' = [todo EXCEPT ![c] = rows]
      /\ phase' = [phase EXCEPT ![c] = end]
      /\ phase[c] = "idle" /\ end # "idle"
      /\ UNCHANGED <<buffers, batch, orphans, stored, written, mishap>>
  BY DEF Begin
<1> HIDE DEF end
<1> QED
  BY <1>1 DEF Rests, WriterInv, ProcessTyped, RowsTyped

LEMMA RowMoves ==
    ASSUME WriterInv, [Next]_vars
    PROVE  \/ Rests
           \/ \E c \in Calls : Writes(c)
           \/ \E w \in Tasks, t \in TableNames : Takes(w, t)
           \/ \E w \in Tasks : Ends(w)
           \/ Cancels
           \/ \E b \in orphans : Outlives(b)
<1>1. CASE Hook
  <2>1. CASE OnAgentStart
    BY <2>1 DEF OnAgentStart, Rests
  <2>2. ASSUME NEW c \in ToolCalls, OnToolCall(c) PROVE Rests
    BY <2>2, Beginning, HookRows DEF OnToolCall, Script, Calls
  <2>3. ASSUME NEW c \in Completions, OnAgentComplete(c) PROVE Rests
    BY <2>3, Beginning, HookRows DEF OnAgentComplete, Script, Calls
  <2>4. ASSUME NEW c \in Feedbacks, HandleFeedback(c) PROVE Rests
    <3>1. c \in Calls /\ Script(c, <<Row("feedback", c, 1)>>) /\ Script(c, <<>>)
      BY DEF Calls, Script
    <3>2. CASE Begin(c, <<Row("feedback", c, 1)>>, FALSE)
      BY <3>1, <3>2, Beginning, HookRows
    <3>3. CASE Begin(c, <<>>, LogRaises("DEBUG"))
      BY <3>1, <3>3, Beginning, HookRows
    <3> QED
      BY <2>4, <3>2, <3>3 DEF HandleFeedback
  <2>5. ASSUME NEW c \in FalsePositives, HandleFalsePositive(c) PROVE Rests
    BY <2>5, Beginning, HookRows DEF HandleFalsePositive, Script, Calls
  <2> QED
    BY <1>1, <2>1, <2>2, <2>3, <2>4, <2>5 DEF Hook
<1>2. CASE Start \/ FlusherWakes \/ FlusherRests \/ StopReturns \/ UNCHANGED vars
  BY <1>2 DEF Start, FlusherWakes, FlusherRests, StopReturns, vars, callVars, Rests
<1>3. ASSUME NEW c \in Calls, Buffer(c)
      PROVE  Writes(c)
  <2> DEFINE r == Head(todo[c])
             t == r.table
             rows == Append(buffers[t], r)
  <2>1. /\ phase[c] = "running" /\ batch[c] = <<>> /\ LockFree
        /\ written' = [written EXCEPT ![t] = Append(@, r)]
        /\ UNCHANGED <<orphans, stored, mishap>>
    BY <1>3 DEF Buffer
  <2>2. \/ /\ buffers' = [buffers EXCEPT ![t] = <<>>]
           /\ batch' = [batch EXCEPT ![c] = rows]
           /\ todo' = [todo EXCEPT ![c] = Tail(@)]
           /\ UNCHANGED <<phase, active>>
        \/ /\ ~(IsFull(rows) /\ ch)
           /\ buffers' = [buffers EXCEPT ![t] = rows]
           /\ UNCHANGED batch
           /\ Resume(c, Tail(todo[c]), FALSE)
    BY <1>3 DEF Buffer
  <2>3. todo[c] # <<>> /\ todo[c] \in Seq(Rows)
    BY <2>1 DEF WriterInv, Order, RowsTyped
  <2>4. r \in Rows /\ Tail(todo[c]) \in Seq(Rows)
    BY <2>3, HeadTailProperties
  <2> HIDE DEF r, t
  <2>5. t \in TableNames /\ r \in Rows /\ buffers[t] \in Seq(Rows)
    BY <2>4, TableFacts DEF WriterInv, RowsTyped, t
  <2>6. Len(rows) \in Nat
    BY <2>5, AppendProperties, LenProperties
  <2> HIDE DEF rows
  <2>7. ~(IsFull(rows) /\ ch) => (ch => Len(rows) < BatchSize)
    BY <2>6, AnalyticsAssumption DEF IsFull
  <2>8. \A w \in Tasks : batch[w] = <<>>
    BY <2>1 DEF LockFree, Tasks
  <2>9. CASE /\ buffers' = [buffers EXCEPT ![t] = <<>>]
             /\ batch' = [batch EXCEPT ![c] = rows]
             /\ todo' = [todo EXCEPT ![c] = Tail(@)]
             /\ UNCHANGED <<phase, active>>
    <3>1. todo'[c] = Tail(todo[c]) /\ Others(c)
      BY <2>9 DEF WriterInv, RowsTyped, Others
    <3> QED
      BY <2>1, <2>3, <2>8, <2>9, <3>1 DEF Writes, r, t, rows
  <2>10. CASE /\ ~(IsFull(rows) /\ ch)
              /\ buffers' = [buffers EXCEPT ![t] = rows]
              /\ UNCHANGED batch
              /\ Resume(c, Tail(todo[c]), FALSE)
    <3>1. todo'[c] \in {Tail(todo[c]), <<>>} /\ Others(c) /\ phase'[c] # "idle"
      BY <2>4, <2>10, ResumeStep
    <3> QED
      BY <2>1, <2>3, <2>7, <2>8, <2>10, <3>1 DEF Writes, r, t, rows
  <2> QED
    BY <2>2, <2>9, <2>10
<1>4. ASSUME NEW w \in Sweepers, SweepTable(w)
      PROVE  Rests \/ \E t \in TableNames : Takes(w, t)
  <2> DEFINE t == Tables[sweep[w]]
  <2>1. /\ LockFree /\ sweep[w] <= Len(Tables)
        /\ UNCHANGED <<orphans, stored, callVars, written, mishap>>
    BY <1>4 DEF SweepTable
  <2>2. \/ /\ buffers[t] # <<>>
           /\ batch' = [batch EXCEPT ![w] = buffers[t]]
           /\ buffers' = [buffers EXCEPT ![t] = <<>>]
        \/ UNCHANGED <<batch, buffers>>
    BY <1>4 DEF SweepTable
  <2>3. sweep[w] \in 1 .. 4
    BY <2>1, TableFacts DEF WriterInv, ProcessTyped
  <2>4. t \in TableNames
    BY <2>3, TableFacts DEF TableNames, Tables
  <2> HIDE DEF t
  <2>5. CASE UNCHANGED <<batch, buffers>>
    BY <2>1, <2>5 DEF Rests, callVars
  <2>6. CASE /\ buffers[t] # <<>>
             /\ batch' = [batch EXCEPT ![w] = buffers[t]]
             /\ buffers' = [buffers EXCEPT ![t] = <<>>]
    <3>1. Takes(w, t)
      BY <2>1, <2>6 DEF Takes, callVars, LockFree, Tasks
    <3> QED
      BY <2>4, <3>1
  <2> QED
    BY <2>2, <2>5, <2>6
<1>5. ASSUME NEW w \in Tasks, InsertSucceeds(w) \/ InsertFails(w)
      PROVE  Ends(w)
  <2>1. /\ batch[w] # <<>>
        /\ batch' = [batch EXCEPT ![w] = <<>>]
        /\ mishap => mishap'
        /\ Land(batch[w]) \/ (UNCHANGED stored /\ mishap')
        /\ UNCHANGED <<buffers, orphans, written>>
    BY <1>5 DEF InsertSucceeds, InsertFails
  <2>2. PICK raised : Wake(w, raised)
    BY <1>5 DEF InsertSucceeds, InsertFails
  <2>3. CallsGoOn
    <3>1. CASE w \in Calls
      <4>1. w \notin Sweepers /\ todo[w] \in Seq(Rows) /\ phase[w] = "running"
        BY <2>1, <3>1, CallsAssumption DEF WriterInv, RowsTyped, Order
      <4>2. Resume(w, todo[w], raised)
        BY <2>2, <3>1, <4>1 DEF Wake, Sweepers
      <4>3. todo'[w] \in {<<>>, todo[w]} /\ phase'[w] # "idle" /\ Others(w)
        BY <3>1, <4>1, <4>2, ResumeStep
      <4> QED
        BY <4>3 DEF CallsGoOn, Others
    <3>2. CASE w \in Sweepers
      <4>1. w \notin Calls
        BY <3>2, CallsAssumption
      <4>2. UNCHANGED callVars
        BY <2>2, <3>2, <4>1 DEF Wake, Sweepers
      <4> QED
        BY <4>2 DEF CallsGoOn, callVars
    <3> QED
      BY <3>1, <3>2 DEF Tasks
  <2> QED
    BY <2>1, <2>3 DEF Ends
<1>6. CASE Stop
  BY <1>6 DEF Stop, Cancels, callVars, WriterInv, ProcessTyped
<1>7. CASE OrphanEnds
  BY <1>7 DEF OrphanEnds, Outlives, callVars
<1> QED
  BY <1>1, <1>2, <1>3, <1>4, <1>5, <1>6, <1>7
  DEF Next, Writing, Flushing, FlusherSweeps, StopSweeps, InsertEnds, Tasks, Sweepers

-----------------------------------------------------------------------------
(* A buffer stays below a batch while the connection exists. *)

LEMMA BelowStep ==
    ASSUME WriterInv, BufferBelowBatch, [Next]_vars
    PROVE  BufferBelowBatch'
<1> SUFFICES ASSUME ch', NEW t \in TableNames
             PROVE  Len(buffers'[t]) < BatchSize
  BY DEF BufferBelowBatch
<1>1. Len(<<>>) < BatchSize
  BY AnalyticsAssumption
<1>2. CASE Start
  <2>1. client = "new" /\ buffers' = buffers
    BY <1>2 DEF Start
  <2> QED
    BY <1>1, <2>1 DEF WriterInv, Order
<1>3. CASE ~Start
  <2>1. ch' = ch
    <3>1. ASSUME NEW w \in Tasks, NEW raised, Wake(w, raised)
          PROVE  ch' = ch
      BY <3>1 DEF Wake, clientVars, Tasks, Sweepers
    <3>2. Hook => ch' = ch
      BY DEF Hook, OnAgentStart, OnToolCall, OnAgentComplete, HandleFeedback,
             HandleFalsePositive, Begin, clientVars
    <3>3. InsertEnds => ch' = ch
      BY <3>1 DEF InsertEnds, InsertSucceeds, InsertFails, Tasks
    <3> QED
      BY <1>3, <3>2, <3>3 DEF Next, Writing, Buffer, Flushing, FlusherWakes,
         FlusherSweeps, FlusherRests, OrphanEnds, Stop, StopSweeps, StopReturns,
         SweepTable, clientVars, vars
  <2>2. Len(buffers[t]) < BatchSize /\ buffers \in [TableNames -> Seq(Rows)]
    BY <2>1 DEF BufferBelowBatch, WriterInv, RowsTyped
  <2>3. CASE buffers' = buffers
    BY <2>2, <2>3
  <2>4. ASSUME NEW c \in Calls, Writes(c)
        PROVE  Len(buffers'[t]) < BatchSize
    BY <1>1, <2>1, <2>2, <2>4 DEF Writes
  <2>5. ASSUME NEW w \in Tasks, NEW u \in TableNames, Takes(w, u)
        PROVE  Len(buffers'[t]) < BatchSize
    BY <1>1, <2>2, <2>5 DEF Takes
  <2> QED
    BY SMTT(30), <2>3, <2>4, <2>5, RowMoves DEF Rests, Ends, Cancels, Outlives
<1> QED
  BY <1>2, <1>3

\* While ClickHouse is connected no buffer holds a full batch, for every batch
\* size and any number of calls.
THEOREM BuffersStayBelowBatch == Spec => []BufferBelowBatch
<1>1. Init => BufferBelowBatch
  BY DEF Init, BufferBelowBatch
<1> QED
  BY <1>1, BelowStep, WriterInit, WriterStep, PTL DEF Spec

-----------------------------------------------------------------------------
(* What was written is stored, in an insert, or buffered, in this order. *)

Chained(t) ==
    /\ (\A w \in Tasks : batch[w] # <<>> => batch[w][1].table # t)
          => written[t] = stored[t] \o buffers[t]
    /\ \A w \in Tasks : batch[w] # <<>> /\ batch[w][1].table = t
          => written[t] = stored[t] \o (batch[w] \o buffers[t])

OrderInv == ~mishap => orphans = {} /\ \A t \in TableNames : Chained(t)

\* Rows are appended at the end of what was written and of what is buffered.
LEMMA ChainWrites ==
    ASSUME WriterInv, NEW c \in Calls, Writes(c), NEW t \in TableNames, Chained(t)
    PROVE  Chained(t)'
<1> DEFINE r == Head(todo[c])
           u == r.table
           rows == Append(buffers[u], r)
<1>1. /\ todo[c] # <<>> /\ \A w \in Tasks : batch[w] = <<>>
      /\ written' = [written EXCEPT ![u] = Append(@, r)]
      /\ stored' = stored
  BY SMTT(30) DEF Writes
<1>2. \/ /\ buffers' = [buffers EXCEPT ![u] = <<>>]
         /\ batch' = [batch EXCEPT ![c] = rows]
      \/ /\ buffers' = [buffers EXCEPT ![u] = rows]
         /\ UNCHANGED batch
  BY DEF Writes
<1>3. r \in Rows /\ c \in Tasks
  BY <1>1, HeadTailProperties DEF WriterInv, RowsTyped, Tasks
<1> HIDE DEF r, u
<1>4. u \in TableNames /\ r \in RowsOf(u)
  BY <1>3, TableFacts DEF u
<1>5. /\ buffers[u] \in Seq(RowsOf(u)) /\ stored[u] \in Seq(RowsOf(u))
      /\ buffers[t] \in Seq(Rows) /\ stored[t] \in Seq(Rows)
  BY <1>4 DEF WriterInv, RowsTyped
<1>6. written[t] = stored[t] \o buffers[t]
  BY <1>1 DEF Chained
<1>7. rows \in Seq(RowsOf(u)) /\ rows # <<>> /\ rows = buffers[u] \o <<r>>
  BY <1>4, <1>5, AppendProperties, AppendIsConcat
<1> HIDE DEF rows
<1>8. ASSUME t = u PROVE Append(written[u], r) = stored[u] \o rows
  <2>1. written[u] \in Seq(RowsOf(u)) /\ <<r>> \in Seq(RowsOf(u))
    BY <1>4 DEF WriterInv, RowsTyped
  <2>2. Append(written[u], r) = (stored[u] \o buffers[u]) \o <<r>>
    BY <1>4, <1>6, <1>8, <2>1, AppendIsConcat
  <2>3. (stored[u] \o buffers[u]) \o <<r>> = stored[u] \o (buffers[u] \o <<r>>)
    <3>1. PICK x \in Seq(RowsOf(u)) : x = stored[u]
      BY <1>5
    <3>2. PICK y \in Seq(RowsOf(u)) : y = buffers[u]
      BY <1>5
    <3>3. PICK z \in Seq(RowsOf(u)) : z = <<r>>
      BY <2>1
    <3>4. (x \o y) \o z = x \o (y \o z)
      BY ConcatAssociative
    <3> QED
      BY <3>1, <3>2, <3>3, <3>4
  <2> QED
    BY <1>7, <2>2, <2>3
<1>9. CASE /\ buffers' = [buffers EXCEPT ![u] = <<>>]
           /\ batch' = [batch EXCEPT ![c] = rows]
  <2>1. \A w \in Tasks : batch'[w] # <<>> <=> w = c
    BY <1>1, <1>3, <1>7, <1>9 DEF WriterInv, RowsTyped
  <2>2. batch'[c] = rows /\ rows[1].table = u
    <3>1. rows[1] \in RowsOf(u)
      BY <1>7, EmptySeq
    <3> QED
      BY <1>3, <1>9, <3>1 DEF WriterInv, RowsTyped, RowsOf
  <2>3. CASE t = u
    <3>1. buffers'[t] = <<>> /\ written'[t] = Append(written[u], r)
      BY <1>1, <1>4, <1>9, <2>3 DEF WriterInv, RowsTyped
    <3>2. rows \o <<>> = rows
      BY <1>7, ConcatEmptySeq
    <3>3. written'[t] = stored'[t] \o (rows \o buffers'[t])
      BY <1>1, <1>8, <2>3, <3>1, <3>2
    <3> QED
      BY <1>3, <2>1, <2>2, <2>3, <3>3 DEF Chained
  <2>4. CASE t # u
    <3>1. buffers'[t] = buffers[t] /\ written'[t] = written[t]
      BY <1>1, <1>9, <2>4 DEF WriterInv, RowsTyped
    <3> QED
      BY <1>1, <1>6, <2>1, <2>2, <2>4, <3>1 DEF Chained
  <2> QED
    BY <2>3, <2>4
<1>10. CASE buffers' = [buffers EXCEPT ![u] = rows] /\ UNCHANGED batch
  <2>1. written'[t] = stored'[t] \o buffers'[t]
    <3>1. CASE t = u
      BY <1>1, <1>8, <1>10, <3>1 DEF WriterInv, RowsTyped
    <3>2. CASE t # u
      BY <1>1, <1>6, <1>10, <3>2 DEF WriterInv, RowsTyped
    <3> QED
      BY <3>1, <3>2
  <2> QED
    BY <1>1, <1>10, <2>1 DEF Chained
<1> QED
  BY <1>2, <1>9, <1>10

LEMMA ChainTakes ==
    ASSUME WriterInv, NEW w \in Tasks, NEW u \in TableNames, Takes(w, u),
           NEW t \in TableNames, Chained(t)
    PROVE  Chained(t)'
<1>1. /\ \A v \in Tasks : batch[v] = <<>>
      /\ buffers[u] # <<>>
      /\ batch' = [batch EXCEPT ![w] = buffers[u]]
      /\ buffers' = [buffers EXCEPT ![u] = <<>>]
      /\ stored' = stored /\ written' = written
  BY DEF Takes
<1>2. written[t] = stored[t] \o buffers[t]
  BY <1>1 DEF Chained
<1>3. buffers[u] \in Seq(RowsOf(u)) /\ buffers[u] \in Seq(Rows)
  BY DEF WriterInv, RowsTyped
<1>4. buffers[u][1].table = u
  <2>1. buffers[u][1] \in RowsOf(u)
    BY <1>1, <1>3, EmptySeq
  <2> QED
    BY <2>1 DEF RowsOf
<1>5. /\ \A v \in Tasks : batch'[v] # <<>> <=> v = w
      /\ batch'[w] = buffers[u]
  BY <1>1 DEF WriterInv, RowsTyped
<1>6. CASE t = u
  <2>1. buffers'[t] = <<>>
    BY <1>1, <1>6 DEF WriterInv, RowsTyped
  <2>2. buffers[u] \o <<>> = buffers[u]
    BY <1>3, ConcatEmptySeq
  <2> QED
    BY <1>1, <1>2, <1>4, <1>5, <1>6, <2>1, <2>2 DEF Chained
<1>7. CASE t # u
  <2>1. buffers'[t] = buffers[t]
    BY <1>1, <1>7 DEF WriterInv, RowsTyped
  <2> QED
    BY <1>1, <1>2, <1>4, <1>5, <1>7, <2>1 DEF Chained
<1> QED
  BY <1>6, <1>7

LEMMA ChainLands ==
    ASSUME WriterInv, NEW w \in Tasks, Ends(w), Land(batch[w]),
           NEW t \in TableNames, Chained(t)
    PROVE  Chained(t)'
<1> DEFINE u == batch[w][1].table
<1>1. /\ batch[w] # <<>>
      /\ batch' = [batch EXCEPT ![w] = <<>>]
      /\ stored' = [stored EXCEPT ![u] = @ \o batch[w]]
      /\ buffers' = buffers /\ written' = written
  BY DEF Ends, Land
<1>2. u \in TableNames /\ batch[w] \in Seq(Rows)
  BY <1>1, TableFacts DEF WriterInv, RowsTyped
<1>3. \A v \in Tasks : /\ batch'[v] = <<>>
                       /\ batch[v] # <<>> => v = w
  BY <1>1 DEF WriterInv, RowsTyped, Order
<1>4. buffers[t] \in Seq(Rows) /\ stored[t] \in Seq(Rows)
  BY DEF WriterInv, RowsTyped
<1>5. CASE t = u
  <2>1. written[t] = stored[t] \o (batch[w] \o buffers[t])
    BY <1>1, <1>5 DEF Chained
  <2>2. stored'[t] = stored[t] \o batch[w]
    BY <1>1, <1>2, <1>5 DEF WriterInv, RowsTyped
  <2>3. (stored[t] \o batch[w]) \o buffers[t] = stored[t] \o (batch[w] \o buffers[t])
    <3>1. PICK x \in Seq(Rows) : x = stored[t]
      BY <1>4
    <3>2. PICK y \in Seq(Rows) : y = batch[w]
      BY <1>2
    <3>3. PICK z \in Seq(Rows) : z = buffers[t]
      BY <1>4
    <3>4. (x \o y) \o z = x \o (y \o z)
      BY SMTT(30), ConcatAssociative
    <3> QED
      BY <3>1, <3>2, <3>3, <3>4
  <2>4. written'[t] = stored'[t] \o buffers'[t]
    BY <1>1, <2>1, <2>2, <2>3
  <2> QED
    BY <1>3, <2>4 DEF Chained
<1>6. CASE t # u
  <2>1. written[t] = stored[t] \o buffers[t]
    BY <1>3, <1>6 DEF Chained
  <2>2. stored'[t] = stored[t]
    BY <1>1, <1>6 DEF WriterInv, RowsTyped
  <2> QED
    BY <1>1, <1>3, <2>1, <2>2 DEF Chained
<1> QED
  BY <1>5, <1>6

LEMMA OrderStep ==
    ASSUME WriterInv, OrderInv, [Next]_vars
    PROVE  OrderInv'
<1> SUFFICES ASSUME ~mishap'
             PROVE  orphans' = {} /\ \A t \in TableNames : Chained(t)'
  BY DEF OrderInv
<1>1. CASE Rests \/ Cancels
  <2>1. /\ mishap' = mishap /\ orphans' = orphans /\ UNCHANGED <<buffers, stored, written>>
        /\ batch' = batch
    BY <1>1 DEF Rests, Cancels, WriterInv, RowsTyped
  <2> QED
    BY <2>1 DEF OrderInv, Chained
<1>2. ASSUME NEW c \in Calls, Writes(c)
      PROVE  orphans' = {} /\ \A t \in TableNames : Chained(t)'
  <2>1. ~mishap /\ orphans' = orphans
    BY <1>2 DEF Writes
  <2> QED
    BY <1>2, <2>1, ChainWrites DEF OrderInv
<1>3. ASSUME NEW w \in Tasks, NEW u \in TableNames, Takes(w, u)
      PROVE  orphans' = {} /\ \A t \in TableNames : Chained(t)'
  <2>1. ~mishap /\ orphans' = orphans
    BY <1>3 DEF Takes
  <2> QED
    BY <1>3, <2>1, ChainTakes DEF OrderInv
<1>4. ASSUME NEW w \in Tasks, Ends(w)
      PROVE  orphans' = {} /\ \A t \in TableNames : Chained(t)'
  <2>1. ~mishap /\ orphans' = orphans /\ Land(batch[w])
    BY <1>4 DEF Ends, WriterInv, ProcessTyped
  <2> QED
    BY <1>4, <2>1, ChainLands DEF OrderInv
<1>5. ASSUME NEW b \in orphans, Outlives(b)
      PROVE  FALSE
  BY <1>5 DEF Outlives, OrderInv
<1> QED
  BY <1>1, <1>2, <1>3, <1>4, <1>5, RowMoves

\* A table receives its rows in the order they were written, until an insert
\* fails or is cancelled, for any number of calls and every batch size.
THEOREM RowsStoredInOrder == Spec => []StoredInOrder
<1>1. Init => OrderInv
  <2> SUFFICES ASSUME Init
               PROVE  orphans = {} /\ \A t \in TableNames : Chained(t)
    BY DEF OrderInv
  <2>1. <<>> \o <<>> = <<>>
    BY EmptySeq, ConcatEmptySeq
  <2>2. /\ \A t \in TableNames :
              written[t] = <<>> /\ stored[t] = <<>> /\ buffers[t] = <<>>
        /\ \A w \in Tasks : batch[w] = <<>>
    BY DEF Init, Tasks
  <2> QED
    BY <2>1, <2>2 DEF Init, Chained
<1>2. WriterInv /\ OrderInv => StoredInOrder
  <2> SUFFICES ASSUME WriterInv, OrderInv, ~mishap, NEW t \in TableNames
               PROVE  stored[t] = SubSeq(written[t], 1, Len(stored[t]))
    BY DEF StoredInOrder
  <2>1. stored[t] \in Seq(Rows) /\ buffers[t] \in Seq(Rows)
        /\ \A w \in Tasks : batch[w] \in Seq(Rows)
    BY TableFacts DEF WriterInv, RowsTyped
  <2>2. PICK rest \in Seq(Rows) : written[t] = stored[t] \o rest
    <3>1. CASE \E w \in Tasks : batch[w] # <<>> /\ batch[w][1].table = t
      BY ZenonT(40), <2>1, <3>1, ConcatProperties DEF OrderInv, Chained
    <3>2. CASE \A w \in Tasks : batch[w] # <<>> => batch[w][1].table # t
      BY <2>1, <3>2 DEF OrderInv, Chained
    <3> QED
      BY <3>1, <3>2
  <2>3. CASE stored[t] = <<>>
    <3>1. SubSeq(written[t], 1, 0) = <<>>
      BY SubSeqEmpty
    <3> QED
      BY <2>3, <3>1
  <2>4. CASE stored[t] # <<>>
    <3>1. Len(stored[t]) \in Nat \ {0}
      BY <2>1, <2>4, EmptySeq
    <3>2. SubSeq(stored[t] \o rest, 1, Len(stored[t]))
             = SubSeq(stored[t], 1, Len(stored[t]))
      BY <2>1, <2>2, <3>1, SubSeqOfConcat1
    <3> QED
      BY <2>1, <2>2, <3>2, SubSeqFull
  <2> QED
    BY <2>3, <2>4
<1> QED
  BY <1>1, <1>2, OrderStep, WriterInit, WriterStep, PTL DEF Spec

-----------------------------------------------------------------------------
(* Each row is written once, and is in one place at most from then on. *)

Written(r) == r \in SeqSet(written[r.table])

\* What a call has still to write is its own, and new.
Unwritten ==
    \A c \in Calls :
        /\ Distinct(todo[c])
        /\ \A r \in SeqSet(todo[c]) : r.call = c /\ ~Written(r)
        /\ phase[c] = "idle" => \A r \in Rows : r.call = c => ~Written(r)

Tracked ==
    /\ \A t \in TableNames :
          SeqSet(buffers[t]) \cup SeqSet(stored[t]) \subseteq SeqSet(written[t])
    /\ \A w \in Tasks : \A r \in SeqSet(batch[w]) : Written(r)
    /\ \A b \in orphans : \A r \in SeqSet(b) : Written(r)

\* A sequence of rows shares none with the buffers and what is stored.
Apart(b) ==
    /\ Distinct(b)
    /\ \A t \in TableNames : /\ SeqSet(b) \cap SeqSet(buffers[t]) = {}
                             /\ SeqSet(b) \cap SeqSet(stored[t]) = {}

Once ==
    /\ \A t \in TableNames :
          /\ Distinct(buffers[t]) /\ Distinct(stored[t])
          /\ SeqSet(buffers[t]) \cap SeqSet(stored[t]) = {}
    /\ \A w \in Tasks : Apart(batch[w])
    /\ \A b \in orphans : Apart(b)
    /\ \A w \in Tasks, b \in orphans : SeqSet(batch[w]) \cap SeqSet(b) = {}
    /\ \A a, b \in orphans : a # b => SeqSet(a) \cap SeqSet(b) = {}

PlacesInv == Unwritten /\ Tracked /\ Once

LEMMA ScriptFacts ==
    ASSUME NEW c \in Calls, NEW rows, Script(c, rows)
    PROVE  Distinct(rows) /\ \A r \in SeqSet(rows) : r \in Rows /\ r.call = c
<1>1. ASSUME NEW r \in Rows, r.call = c
      PROVE  Distinct(<<r>>) /\ \A q \in SeqSet(<<r>>) : q \in Rows /\ q.call = c
  BY <1>1 DEF Distinct, SeqSet
<1>2. ASSUME NEW r \in Rows, r.call = c, NEW q \in Rows, q.call = c, r # q
      PROVE  /\ Distinct(<<r, q>>)
             /\ \A x \in SeqSet(<<r, q>>) : x \in Rows /\ x.call = c
  BY <1>2 DEF Distinct, SeqSet
<1>3. CASE c \in ToolCalls
  <2>1. rows = <<Row("tool_calls", c, 1)>>
    BY <1>3, CallsAssumption DEF Script
  <2>2. Row("tool_calls", c, 1) \in Rows /\ Row("tool_calls", c, 1).call = c
    BY <1>3 DEF Rows, Row
  <2> QED
    BY <1>1, <2>1, <2>2
<1>4. CASE c \in Completions
  <2>1. rows = CompletionRows(c)
    BY <1>4, CallsAssumption DEF Script
  <2>2. /\ Row("findings", c, 1) \in Rows /\ Row("findings", c, 1).call = c
        /\ Row("agent_usage", c, 1) \in Rows /\ Row("agent_usage", c, 1).call = c
        /\ Row("findings", c, 1) # Row("agent_usage", c, 1)
    BY <1>4 DEF Rows, Row
  <2> QED
    BY <1>2, <2>1, <2>2 DEF CompletionRows
<1>5. CASE c \in Feedbacks
  <2>1. rows \in {<<Row("feedback", c, 1)>>, <<>>}
    BY <1>5, CallsAssumption DEF Script
  <2>2. Row("feedback", c, 1) \in Rows /\ Row("feedback", c, 1).call = c
    BY <1>5 DEF Rows, Row
  <2>3. Distinct(<<>>) /\ SeqSet(<<>>) = {}
    BY EmptyFacts
  <2> QED
    BY <1>1, <2>1, <2>2, <2>3
<1>6. CASE c \in FalsePositives
  <2>1. rows = <<Row("feedback", c, 1), Row("feedback", c, 2)>>
    BY <1>6, CallsAssumption DEF Script
  <2>2. /\ Row("feedback", c, 1) \in Rows /\ Row("feedback", c, 1).call = c
        /\ Row("feedback", c, 2) \in Rows /\ Row("feedback", c, 2).call = c
        /\ Row("feedback", c, 1) # Row("feedback", c, 2)
    BY <1>6 DEF Rows, Row
  <2> QED
    BY <1>2, <2>1, <2>2
<1> QED
  BY <1>3, <1>4, <1>5, <1>6 DEF Calls

\* What a write of row r of table u by call c does, place by place.
Moved(c, r, u) ==
    /\ u = r.table /\ r = Head(todo[c]) /\ r.call = c /\ ~Written(r)
    /\ \A t \in TableNames : SeqSet(written'[t]) =
          IF t = u THEN SeqSet(written[t]) \cup {r} ELSE SeqSet(written[t])
    /\ \A w \in Tasks : batch[w] = <<>>
    /\ \A t \in TableNames : t # u => buffers'[t] = buffers[t]
    /\ \A w \in Tasks : w # c => batch'[w] = <<>>
    /\ \/ /\ buffers'[u] = <<>> /\ Distinct(batch'[c])
          /\ SeqSet(batch'[c]) = SeqSet(buffers[u]) \cup {r}
       \/ /\ batch'[c] = <<>> /\ Distinct(buffers'[u])
          /\ SeqSet(buffers'[u]) = SeqSet(buffers[u]) \cup {r}
    /\ stored' = stored /\ orphans' = orphans

LEMMA WriteMoves ==
    ASSUME WriterInv, PlacesInv, NEW c \in Calls, Writes(c)
    PROVE  \E r \in Rows, u \in TableNames : Moved(c, r, u)
<1> DEFINE r == Head(todo[c])
           u == r.table
           rows == Append(buffers[u], r)
<1>1. /\ todo[c] # <<>> /\ \A w \in Tasks : batch[w] = <<>>
      /\ written' = [written EXCEPT ![u] = Append(@, r)]
      /\ stored' = stored /\ orphans' = orphans
  BY SMTT(30) DEF Writes
<1>2. \/ /\ buffers' = [buffers EXCEPT ![u] = <<>>]
         /\ batch' = [batch EXCEPT ![c] = rows]
      \/ /\ buffers' = [buffers EXCEPT ![u] = rows]
         /\ UNCHANGED batch
  BY DEF Writes
<1>3. todo[c] \in Seq(Rows) /\ c \in Tasks
  BY DEF WriterInv, RowsTyped, Tasks
<1>4. r \in Rows /\ r \in SeqSet(todo[c])
  <2>1. SeqSet(todo[c]) = {Head(todo[c])} \cup SeqSet(Tail(todo[c]))
    BY <1>1, <1>3, SeqSetFacts
  <2> QED
    BY <1>1, <1>3, <2>1, HeadTailProperties
<1>5. r.call = c /\ ~Written(r)
  BY <1>4 DEF PlacesInv, Unwritten
<1> HIDE DEF r, u
<1>6. u \in TableNames /\ u = r.table
  BY <1>4, TableFacts DEF u
<1>7. buffers[u] \in Seq(Rows) /\ \A t \in TableNames : written[t] \in Seq(Rows)
  BY <1>6 DEF WriterInv, RowsTyped
<1>8. \A t \in TableNames : SeqSet(written'[t]) =
         IF t = u THEN SeqSet(written[t]) \cup {r} ELSE SeqSet(written[t])
  <2>1. SeqSet(Append(written[u], r)) = SeqSet(written[u]) \cup {r}
    BY <1>4, <1>6, <1>7, SeqSetFacts
  <2> QED
    BY <1>1, <1>6, <2>1 DEF WriterInv, RowsTyped
<1>9. r \notin SeqSet(buffers[u])
  BY <1>5, <1>6 DEF Written, PlacesInv, Tracked
<1>10. SeqSet(rows) = SeqSet(buffers[u]) \cup {r} /\ Distinct(rows)
  <2>1. Distinct(buffers[u])
    BY <1>6 DEF PlacesInv, Once
  <2> QED
    BY <1>4, <1>7, <1>9, <2>1, SeqSetFacts, DistinctFacts
<1> HIDE DEF rows
<1>11. /\ \A t \in TableNames : t # u => buffers'[t] = buffers[t]
       /\ \A w \in Tasks : w # c => batch'[w] = <<>>
       /\ \/ buffers'[u] = <<>> /\ batch'[c] = rows
          \/ batch'[c] = <<>> /\ buffers'[u] = rows
  BY <1>1, <1>2, <1>3, <1>6 DEF WriterInv, RowsTyped
<1>12. /\ \A t \in TableNames : t # u => buffers'[t] = buffers[t]
       /\ \A w \in Tasks : w # c => batch'[w] = <<>>
       /\ \/ /\ buffers'[u] = <<>> /\ Distinct(batch'[c])
             /\ SeqSet(batch'[c]) = SeqSet(buffers[u]) \cup {r}
          \/ /\ batch'[c] = <<>> /\ Distinct(buffers'[u])
             /\ SeqSet(buffers'[u]) = SeqSet(buffers[u]) \cup {r}
  BY <1>10, <1>11
<1>13. r = Head(todo[c])
  BY DEF r
<1> QED
  BY <1>1, <1>4, <1>5, <1>6, <1>8, <1>12, <1>13 DEF Moved

\* What an insert adds to what is stored.
LEMMA LandMoves ==
    ASSUME WriterInv, PlacesInv, NEW b \in Batches, b # <<>>, Apart(b), Land(b)
    PROVE  \E u \in TableNames :
             /\ \A r \in SeqSet(b) : r \in Rows /\ r.table = u
             /\ \A t \in TableNames :
                   /\ Distinct(stored'[t])
                   /\ SeqSet(stored'[t]) = IF t = u THEN SeqSet(stored[t]) \cup SeqSet(b)
                                           ELSE SeqSet(stored[t])
<1> DEFINE u == b[1].table
<1>1. stored' = [stored EXCEPT ![u] = @ \o b]
  BY DEF Land
<1>2. u \in TableNames /\ b \in Seq(RowsOf(u)) /\ b \in Seq(Rows)
  BY TableFacts
<1> HIDE DEF u
<1>3. \A r \in SeqSet(b) : r \in Rows /\ r.table = u
  BY <1>2, SeqSetFacts DEF RowsOf
<1>4. stored[u] \in Seq(Rows) /\ Distinct(stored[u])
  BY <1>2 DEF WriterInv, RowsTyped, PlacesInv, Once
<1>5. Distinct(b) /\ SeqSet(stored[u]) \cap SeqSet(b) = {}
  BY <1>2 DEF Apart
<1>6. /\ Distinct(stored[u] \o b)
      /\ SeqSet(stored[u] \o b) = SeqSet(stored[u]) \cup SeqSet(b)
  BY <1>2, <1>4, <1>5, SeqSetFacts, DistinctFacts
<1>7. \A t \in TableNames : stored'[t] = IF t = u THEN stored[u] \o b ELSE stored[t]
  BY <1>1, <1>2 DEF WriterInv, RowsTyped
<1>8. \A t \in TableNames : Distinct(stored[t])
  BY DEF PlacesInv, Once
<1> QED
  BY <1>2, <1>3, <1>6, <1>7, <1>8

LEMMA UnwrittenStep ==
    ASSUME WriterInv, PlacesInv, [Next]_vars
    PROVE  Unwritten'
<1>1. CASE written' = written /\ CallsGoOn
  <2>1. \A r : Written(r)' <=> Written(r)
    BY <1>1 DEF Written
  <2> QED
    BY <1>1, <2>1, EmptyFacts DEF CallsGoOn, PlacesInv, Unwritten
<1>2. CASE Rests
  <2>1. \A r : Written(r)' <=> Written(r)
    BY <1>2 DEF Rests, Written
  <2> SUFFICES ASSUME NEW c \in Calls
               PROVE  /\ Distinct(todo[c])'
                      /\ \A r \in SeqSet(todo'[c]) : r.call = c /\ ~Written(r)'
                      /\ phase'[c] = "idle" =>
                            \A r \in Rows : r.call = c => ~Written(r)'
    BY DEF Unwritten
  <2>2. CASE todo'[c] = todo[c] /\ phase'[c] = phase[c]
    BY <2>1, <2>2 DEF PlacesInv, Unwritten
  <2>3. CASE phase[c] = "idle" /\ phase'[c] # "idle" /\ Script(c, todo'[c])
    BY <2>1, <2>3, ScriptFacts DEF PlacesInv, Unwritten
  <2> QED
    BY <1>2, <2>2, <2>3 DEF Rests
<1>3. ASSUME NEW c \in Calls, Writes(c)
      PROVE  Unwritten'
  <2>a. PICK r \in Rows, u \in TableNames : Moved(c, r, u)
    BY <1>3, WriteMoves
  <2>1. /\ u = r.table /\ r = Head(todo[c]) /\ r.call = c
        /\ \A t \in TableNames : SeqSet(written'[t]) =
              IF t = u THEN SeqSet(written[t]) \cup {r} ELSE SeqSet(written[t])
    BY <2>a DEF Moved
  <2>2. \A q \in Rows : Written(q)' => Written(q) \/ q = r
    BY <2>1, TableFacts DEF Written
  <2>3. /\ todo[c] # <<>> /\ phase'[c] # "idle" /\ Others(c)
        /\ todo'[c] \in {Tail(todo[c]), <<>>}
    BY <1>3 DEF Writes
  <2>4. \A d \in Calls : todo[d] \in Seq(Rows) /\ SeqSet(todo[d]) \subseteq Rows
    BY SeqSetFacts DEF WriterInv, RowsTyped
  <2> SUFFICES ASSUME NEW d \in Calls
               PROVE  /\ Distinct(todo[d])'
                      /\ \A q \in SeqSet(todo'[d]) : q.call = d /\ ~Written(q)'
                      /\ phase'[d] = "idle" =>
                            \A q \in Rows : q.call = d => ~Written(q)'
    BY DEF Unwritten
  <2>5. CASE d = c
    <3>1. /\ SeqSet(todo[c]) = {r} \cup SeqSet(Tail(todo[c]))
          /\ Distinct(Tail(todo[c])) /\ r \notin SeqSet(Tail(todo[c]))
      BY <2>1, <2>3, <2>4, SeqSetFacts, DistinctFacts DEF PlacesInv, Unwritten
    <3>2. \A q \in SeqSet(Tail(todo[c])) : q.call = c /\ ~Written(q)'
      BY <2>2, <2>4, <3>1 DEF PlacesInv, Unwritten
    <3> QED
      BY <2>3, <2>5, <3>1, <3>2, EmptyFacts
  <2>6. CASE d # c
    <3>1. todo'[d] = todo[d] /\ phase'[d] = phase[d]
      BY <2>3, <2>6 DEF Others
    <3>2. \A q \in Rows : q.call = d /\ ~Written(q) => ~Written(q)'
      BY <2>1, <2>2, <2>6
    <3> QED
      BY <2>4, <3>1, <3>2 DEF PlacesInv, Unwritten
  <2> QED
    BY <2>5, <2>6
<1> QED
  BY <1>1, <1>2, <1>3, RowMoves DEF Takes, Ends, Cancels, Outlives, CallsGoOn

LEMMA TrackedOnceWrites ==
    ASSUME WriterInv, PlacesInv, NEW c \in Calls, Writes(c)
    PROVE  Tracked' /\ Once'
<1>a. PICK r \in Rows, u \in TableNames : Moved(c, r, u)
  BY WriteMoves
<1>1. /\ u = r.table /\ r = Head(todo[c]) /\ r.call = c /\ ~Written(r)
      /\ \A t \in TableNames : SeqSet(written'[t]) =
            IF t = u THEN SeqSet(written[t]) \cup {r} ELSE SeqSet(written[t])
      /\ \A w \in Tasks : batch[w] = <<>>
      /\ \A t \in TableNames : t # u => buffers'[t] = buffers[t]
      /\ \A w \in Tasks : w # c => batch'[w] = <<>>
      /\ \/ /\ buffers'[u] = <<>> /\ Distinct(batch'[c])
            /\ SeqSet(batch'[c]) = SeqSet(buffers[u]) \cup {r}
         \/ /\ batch'[c] = <<>> /\ Distinct(buffers'[u])
            /\ SeqSet(buffers'[u]) = SeqSet(buffers[u]) \cup {r}
      /\ stored' = stored /\ orphans' = orphans
  BY <1>a DEF Moved
<1>2. \A t \in TableNames : /\ SeqSet(buffers[t]) \subseteq RowsOf(t)
                            /\ SeqSet(stored[t]) \subseteq RowsOf(t)
  BY SeqSetFacts DEF WriterInv, RowsTyped
<1>3. \A t \in TableNames : \A q \in RowsOf(t) : q \in Rows /\ q.table = t
  BY DEF RowsOf
<1>4. ASSUME NEW b \in orphans
      PROVE  /\ \A q \in SeqSet(b) : q \in Rows /\ Written(q)
             /\ Apart(b)
  <2>1. b \in Seq(Rows)
    BY TableFacts DEF WriterInv, RowsTyped
  <2> QED
    BY <2>1, SeqSetFacts DEF PlacesInv, Tracked, Once
<1>5. r \in RowsOf(u) /\ r \notin SeqSet(stored[u]) /\ r \notin SeqSet(buffers[u])
  BY <1>1, TableFacts DEF PlacesInv, Tracked, Written
<1>6. ASSUME NEW q \in Rows
      PROVE  Written(q)' <=> Written(q) \/ q = r
  <2>1. q.table \in TableNames
    BY TableFacts
  <2>2. SeqSet(written'[q.table]) =
          IF q.table = u THEN SeqSet(written[q.table]) \cup {r}
          ELSE SeqSet(written[q.table])
    BY <1>1, <2>1
  <2> QED
    BY <1>1, <2>2 DEF Written
<1>7. Tracked'
  <2>1. \A t \in TableNames :
          SeqSet(buffers'[t]) \cup SeqSet(stored'[t]) \subseteq SeqSet(written'[t])
    <3> SUFFICES ASSUME NEW t \in TableNames
                 PROVE  SeqSet(buffers'[t]) \cup SeqSet(stored'[t]) \subseteq SeqSet(written'[t])
      OBVIOUS
    <3>1. SeqSet(buffers[t]) \cup SeqSet(stored[t]) \subseteq SeqSet(written[t])
      BY DEF PlacesInv, Tracked
    <3>2. SeqSet(buffers'[t]) \subseteq
             IF t = u THEN SeqSet(buffers[t]) \cup {r} ELSE SeqSet(buffers[t])
      BY <1>1, EmptyFacts
    <3>3. stored'[t] = stored[t]
      BY <1>1
    <3>4. SeqSet(written'[t]) =
             IF t = u THEN SeqSet(written[t]) \cup {r} ELSE SeqSet(written[t])
      BY <1>1
    <3> QED
      BY <3>1, <3>2, <3>3, <3>4
  <2>2. \A q \in SeqSet(buffers[u]) \cup {r} : Written(q)'
    BY <1>1, <1>2, <1>3, <1>5, <1>6 DEF PlacesInv, Tracked, Written
  <2>3. \A w \in Tasks : \A q \in SeqSet(batch'[w]) : Written(q)'
    BY <1>1, <2>2, EmptyFacts
  <2>4. \A b \in orphans' : \A q \in SeqSet(b) : Written(q)'
    BY <1>1, <1>4, <1>6
  <2> QED
    BY <2>1, <2>3, <2>4 DEF Tracked
<1>8. \A b \in orphans : r \notin SeqSet(b)
  BY <1>1, <1>4
<1>9. Once'
  <2> DEFINE B == SeqSet(buffers[u]) \cup {r}
  <2>1. /\ \A t \in TableNames : SeqSet(buffers'[t]) \subseteq
              IF t = u THEN B ELSE SeqSet(buffers[t])
        /\ \A t \in TableNames : Distinct(buffers'[t])
    BY <1>1, EmptyFacts DEF PlacesInv, Once
  <2>2. /\ \A t \in TableNames : B \cap SeqSet(stored[t]) = {}
        /\ \A t \in TableNames \ {u} : B \cap SeqSet(buffers[t]) = {}
        /\ \A b \in orphans : B \cap SeqSet(b) = {}
    <3>1. B \subseteq RowsOf(u)
      BY <1>2, <1>5
    <3>2. \A t \in TableNames \ {u} : RowsOf(u) \cap RowsOf(t) = {}
      BY DEF RowsOf
    <3>3. B \cap SeqSet(stored[u]) = {}
      BY <1>5 DEF PlacesInv, Once
    <3>4. \A t \in TableNames \ {u} :
             B \cap SeqSet(stored[t]) = {} /\ B \cap SeqSet(buffers[t]) = {}
      <4> HIDE DEF B
      <4> QED
        BY <1>2, <3>1, <3>2
    <3>5. \A b \in orphans : B \cap SeqSet(b) = {}
      BY <1>4, <1>8 DEF Apart
    <3> QED
      BY <3>3, <3>4, <3>5
  <2> HIDE DEF B
  <2>3. \A t \in TableNames : /\ Distinct(buffers'[t]) /\ Distinct(stored'[t])
                              /\ SeqSet(buffers'[t]) \cap SeqSet(stored'[t]) = {}
    BY <1>1, <2>1, <2>2 DEF PlacesInv, Once
  <2>4. \A b \in orphans' : Apart(b)'
    BY <1>1, <1>4, <2>1, <2>2 DEF Apart
  <2>5. Apart(batch[c])'
    <3>1. CASE batch'[c] = <<>>
      BY <3>1, EmptyFacts DEF Apart
    <3>2. CASE /\ buffers'[u] = <<>> /\ Distinct(batch'[c])
               /\ SeqSet(batch'[c]) = B
      BY <1>1, <2>2, <3>2, EmptyFacts DEF Apart
    <3> QED
      BY <1>1, <3>1, <3>2 DEF B
  <2>6. \A w \in Tasks : Apart(batch[w])'
    <3>1. ASSUME NEW w \in Tasks, w # c PROVE Apart(batch[w])'
      BY <1>1, <3>1, EmptyFacts DEF Apart
    <3> QED
      BY <2>5, <3>1
  <2>7. \A w \in Tasks, b \in orphans' : SeqSet(batch'[w]) \cap SeqSet(b) = {}
    <3>1. SeqSet(batch'[c]) \subseteq B
      BY <1>1, EmptyFacts DEF B
    <3> QED
      BY <1>1, <2>2, <3>1, EmptyFacts
  <2> QED
    BY <1>1, <2>3, <2>4, <2>6, <2>7 DEF PlacesInv, Once
<1> QED
  BY <1>7, <1>9

LEMMA TrackedOnceTakes ==
    ASSUME WriterInv, PlacesInv, NEW w \in Tasks, NEW u \in TableNames, Takes(w, u)
    PROVE  Tracked' /\ Once'
<1>1. /\ \A v \in Tasks : batch'[v] = IF v = w THEN buffers[u] ELSE <<>>
      /\ \A t \in TableNames : buffers'[t] = IF t = u THEN <<>> ELSE buffers[t]
      /\ stored' = stored /\ orphans' = orphans /\ written' = written
  BY DEF Takes, WriterInv, RowsTyped
<1>2. /\ \A t \in TableNames : SeqSet(buffers[t]) \subseteq RowsOf(t)
      /\ \A t \in TableNames : SeqSet(stored[t]) \subseteq RowsOf(t)
      /\ \A t \in TableNames : \A r \in RowsOf(t) : r.table = t
  BY SeqSetFacts DEF WriterInv, RowsTyped, RowsOf
<1>3. \A r \in SeqSet(buffers[u]) : Written(r)
  BY <1>2 DEF PlacesInv, Tracked, Written
<1>4. \A r : Written(r)' <=> Written(r)
  BY <1>1 DEF Written
<1>5. Tracked'
  BY <1>1, <1>3, <1>4, EmptyFacts DEF PlacesInv, Tracked
<1>6. Distinct(buffers[u])
  BY DEF PlacesInv, Once
<1>7. \A t \in TableNames : /\ SeqSet(buffers[u]) \cap SeqSet(buffers'[t]) = {}
                            /\ SeqSet(buffers[u]) \cap SeqSet(stored[t]) = {}
  <2> SUFFICES ASSUME NEW t \in TableNames
               PROVE  /\ SeqSet(buffers[u]) \cap SeqSet(buffers'[t]) = {}
                      /\ SeqSet(buffers[u]) \cap SeqSet(stored[t]) = {}
    OBVIOUS
  <2>1. CASE t = u
    BY <1>1, <2>1, EmptyFacts DEF PlacesInv, Once
  <2>2. CASE t # u
    <3>1. RowsOf(u) \cap RowsOf(t) = {}
      BY <2>2 DEF RowsOf
    <3> QED
      BY <1>1, <1>2, <2>2, <3>1
  <2> QED
    BY <2>1, <2>2
<1>8. \A v \in Tasks : Apart(batch[v])'
  BY <1>1, <1>6, <1>7, EmptyFacts DEF Apart
<1>9. \A b \in orphans' : Apart(b)'
  BY <1>1, EmptyFacts DEF PlacesInv, Once, Apart
<1>10. \A v \in Tasks, b \in orphans' : SeqSet(batch'[v]) \cap SeqSet(b) = {}
  <2>1. \A b \in orphans : SeqSet(buffers[u]) \cap SeqSet(b) = {}
    BY DEF PlacesInv, Once, Apart
  <2> QED
    BY <1>1, <2>1, EmptyFacts
<1>11. \A t \in TableNames : /\ Distinct(buffers'[t]) /\ Distinct(stored'[t])
                             /\ SeqSet(buffers'[t]) \cap SeqSet(stored'[t]) = {}
  BY <1>1, EmptyFacts DEF PlacesInv, Once
<1> QED
  BY <1>1, <1>5, <1>8, <1>9, <1>10, <1>11 DEF PlacesInv, Once

\* The rows b leave the places b was in, and may be stored.
LEMMA TrackedOnceSettles ==
    ASSUME WriterInv, PlacesInv, NEW b \in Batches, b # <<>>, Apart(b),
           Land(b) \/ UNCHANGED stored,
           \A r \in SeqSet(b) : Written(r),
           UNCHANGED <<buffers, written>>,
           \A v \in Tasks : batch'[v] \in {batch[v], <<>>},
           \A v \in Tasks : SeqSet(batch'[v]) \cap SeqSet(b) = {},
           orphans' \subseteq orphans,
           \A a \in orphans' : SeqSet(a) \cap SeqSet(b) = {}
    PROVE  Tracked' /\ Once'
<1>1. \A t \in TableNames : /\ Distinct(stored'[t])
                            /\ SeqSet(stored'[t]) \subseteq SeqSet(stored[t]) \cup
                                  {r \in SeqSet(b) : r.table = t}
  <2>1. CASE UNCHANGED stored
    BY <2>1 DEF PlacesInv, Once
  <2>2. CASE Land(b)
    <3>1. PICK u \in TableNames :
             /\ \A r \in SeqSet(b) : r \in Rows /\ r.table = u
             /\ \A t \in TableNames :
                   /\ Distinct(stored'[t])
                   /\ SeqSet(stored'[t]) = IF t = u THEN SeqSet(stored[t]) \cup SeqSet(b)
                                           ELSE SeqSet(stored[t])
      BY <2>2, LandMoves
    <3> QED
      BY <3>1
  <2> QED
    BY <2>1, <2>2
<1>2. \A r : Written(r)' <=> Written(r)
  BY DEF Written
<1>3. Tracked'
  <2>1. \A t \in TableNames : SeqSet(stored'[t]) \subseteq SeqSet(written[t])
    BY <1>1 DEF PlacesInv, Tracked, Written
  <2> QED
    BY <1>2, <2>1, EmptyFacts DEF PlacesInv, Tracked
<1>4. ASSUME NEW a, Apart(a), SeqSet(a) \cap SeqSet(b) = {}
      PROVE  Apart(a)'
  BY <1>1, <1>4 DEF Apart
<1>5. \A v \in Tasks : Apart(batch[v])'
  <2>1. Apart(<<>>)
    BY EmptyFacts DEF Apart
  <2>2. ASSUME NEW v \in Tasks PROVE Apart(batch[v])'
    <3>1. Apart(batch'[v])
      BY <2>1 DEF PlacesInv, Once
    <3>2. SeqSet(batch'[v]) \cap SeqSet(b) = {}
      OBVIOUS
    <3> QED
      BY <1>1, <3>1, <3>2 DEF Apart
  <2> QED
    BY <2>2
<1>6. \A a \in orphans' : Apart(a)'
  BY <1>4 DEF PlacesInv, Once
<1>7. \A t \in TableNames : /\ Distinct(buffers'[t]) /\ Distinct(stored'[t])
                            /\ SeqSet(buffers'[t]) \cap SeqSet(stored'[t]) = {}
  BY <1>1 DEF PlacesInv, Once, Apart
<1>8. \A v \in Tasks, a \in orphans' : SeqSet(batch'[v]) \cap SeqSet(a) = {}
  BY EmptyFacts DEF PlacesInv, Once
<1> QED
  BY <1>3, <1>5, <1>6, <1>7, <1>8 DEF PlacesInv, Once

\* What the end of an insert, and of a cancelled one, does place by place.
LEMMA EndMoves ==
    ASSUME WriterInv, PlacesInv, NEW w \in Tasks, Ends(w)
    PROVE  /\ batch[w] \in Batches /\ batch[w] # <<>> /\ Apart(batch[w])
           /\ \A r \in SeqSet(batch[w]) : Written(r)
           /\ \A v \in Tasks : batch'[v] = <<>> /\ (v # w => batch[v] = <<>>)
           /\ \A a \in orphans : SeqSet(a) \cap SeqSet(batch[w]) = {}
BY DEF Ends, WriterInv, RowsTyped, Order, PlacesInv, Tracked, Once

LEMMA OutliveMoves ==
    ASSUME WriterInv, PlacesInv, NEW b \in orphans
    PROVE  /\ b \in Batches /\ b # <<>> /\ Apart(b)
           /\ \A r \in SeqSet(b) : Written(r)
           /\ \A v \in Tasks : SeqSet(batch[v]) \cap SeqSet(b) = {}
           /\ \A a \in orphans \ {b} : SeqSet(a) \cap SeqSet(b) = {}
BY DEF WriterInv, RowsTyped, PlacesInv, Tracked, Once

LEMMA PlacesStep ==
    ASSUME WriterInv, PlacesInv, [Next]_vars
    PROVE  PlacesInv'
<1>1. Unwritten'
  BY UnwrittenStep
<1>2. CASE Rests
  <2>1. UNCHANGED <<buffers, batch, orphans, stored, written>>
    BY <1>2 DEF Rests
  <2> QED
    BY <1>1, <2>1 DEF PlacesInv, Tracked, Written, Once, Apart
<1>3. ASSUME NEW w \in Tasks, Ends(w)
      PROVE  Tracked' /\ Once'
  <2>1. /\ Land(batch[w]) \/ UNCHANGED stored
        /\ UNCHANGED <<buffers, orphans, written>>
    BY <1>3 DEF Ends
  <2> QED
    BY <1>3, <2>1, EndMoves, EmptyFacts, TrackedOnceSettles
<1>4. ASSUME NEW b \in orphans, Outlives(b)
      PROVE  Tracked' /\ Once'
  <2>1. /\ Land(b) \/ UNCHANGED stored
        /\ orphans' = orphans \ {b}
        /\ UNCHANGED <<buffers, batch, written>>
    BY <1>4 DEF Outlives
  <2> QED
    BY <2>1, OutliveMoves, TrackedOnceSettles
<1>5. CASE Cancels
  <2> DEFINE b == batch["flusher"]
  <2>1. /\ orphans' \subseteq orphans \cup {b}
        /\ b = <<>> => orphans' = orphans
        /\ \A w \in Tasks : batch'[w] = IF w = "flusher" THEN <<>> ELSE batch[w]
        /\ UNCHANGED <<buffers, stored, written>>
    BY <1>5 DEF Cancels, WriterInv, RowsTyped
  <2>2. "flusher" \in Tasks
    BY DEF Tasks, Sweepers
  <2>3. \A w \in Tasks \ {"flusher"} : b # <<>> => batch[w] = <<>>
    BY <2>2 DEF WriterInv, Order
  <2>4. \A r : Written(r)' <=> Written(r)
    BY <2>1 DEF Written
  <2>5. /\ Apart(b) /\ \A r \in SeqSet(b) : Written(r)
        /\ \A a \in orphans : SeqSet(b) \cap SeqSet(a) = {}
    BY <2>2 DEF PlacesInv, Tracked, Once
  <2> HIDE DEF b
  <2>6. Tracked'
    BY <2>1, <2>4, <2>5, EmptyFacts DEF PlacesInv, Tracked
  <2>7. \A a : Apart(a)' <=> Apart(a)
    BY <2>1 DEF Apart
  <2>8. /\ \A w \in Tasks : Apart(batch'[w])
        /\ \A a \in orphans' : Apart(a)
    BY <2>1, <2>5, EmptyFacts DEF PlacesInv, Once, Apart
  <2>9. \A w \in Tasks : Apart(batch[w])'
    BY <2>1, <2>8 DEF Apart
  <2>10. \A w \in Tasks, a \in orphans' : SeqSet(batch'[w]) \cap SeqSet(a) = {}
    BY <2>1, <2>3, EmptyFacts DEF PlacesInv, Once
  <2>11. \A a, q \in orphans' : a # q => SeqSet(a) \cap SeqSet(q) = {}
    BY <2>1, <2>5 DEF PlacesInv, Once
  <2>12. Once'
    BY <2>1, <2>7, <2>8, <2>9, <2>10, <2>11 DEF PlacesInv, Once
  <2> QED
    BY <1>1, <2>6, <2>12 DEF PlacesInv
<1> QED
  BY <1>1, <1>2, <1>3, <1>4, <1>5, RowMoves, TrackedOnceWrites, TrackedOnceTakes
  DEF PlacesInv

LEMMA PlacesInit == Init => PlacesInv
BY EmptyFacts DEF Init, PlacesInv, Unwritten, Tracked, Once, Apart, Written, Tasks,
                  Rows, Row, TableNames, Tables

-----------------------------------------------------------------------------
(* The writer implements AtMostOnceDelivery. *)

Stored(r) == r \in SeqSet(stored[r.table])

fates == [r \in Rows |-> Fate(r)]

\* With every row in one place, its fate is a matter of three sets.
FateFacts ==
    \A r \in Rows :
        /\ Fate(r) = IF ~Written(r) THEN "unwritten"
                     ELSE IF Stored(r) THEN "stored"
                     ELSE IF InFlight(r) THEN "waiting" ELSE "lost"
        /\ InFlight(r) => Written(r) /\ ~Stored(r)
        /\ Stored(r) => Written(r)

LEMMA FateIs == WriterInv /\ PlacesInv => FateFacts
<1> SUFFICES ASSUME WriterInv, PlacesInv, NEW r \in Rows
             PROVE  /\ Fate(r) = IF ~Written(r) THEN "unwritten"
                                 ELSE IF Stored(r) THEN "stored"
                                 ELSE IF InFlight(r) THEN "waiting" ELSE "lost"
                    /\ InFlight(r) => Written(r) /\ ~Stored(r)
                    /\ Stored(r) => Written(r)
  BY DEF FateFacts
<1> DEFINE t == r.table
           at == {i \in DOMAIN stored[t] : stored[t][i] = r}
<1>1. t \in TableNames
  BY TableFacts
<1>2. InFlight(r) => Written(r) /\ ~Stored(r)
  BY <1>1 DEF InFlight, Stored, Written, PlacesInv, Tracked, Once, Apart, Tasks
<1>3. Stored(r) => Written(r)
  BY <1>1 DEF Stored, Written, PlacesInv, Tracked
<1>4. ~Stored(r) => Copies(r) = 0
  <2>1. ~Stored(r) => at = {}
    BY DEF Stored, SeqSet
  <2> QED
    BY <2>1, FS_EmptySet DEF Copies
<1>5. Stored(r) => Copies(r) = 1
  <2> SUFFICES ASSUME Stored(r) PROVE Copies(r) = 1
    OBVIOUS
  <2>1. PICK i \in DOMAIN stored[t] : stored[t][i] = r
    BY DEF Stored, SeqSet
  <2>2. \A j \in DOMAIN stored[t] : stored[t][j] = r => j = i
    BY <1>1, <2>1 DEF PlacesInv, Once, Distinct
  <2>3. at = {i}
    BY <2>1, <2>2
  <2> QED
    BY <2>3, FS_Singleton DEF Copies
<1> QED
  BY <1>2, <1>3, <1>4, <1>5 DEF Fate, Written

LEMMA NextFateIs == WriterInv' /\ PlacesInv' => FateFacts'
BY FateIs, PTL

\* A row is written.
LEMMA FateWrites ==
    ASSUME WriterInv, PlacesInv, FateFacts, FateFacts', NEW c \in Calls, Writes(c)
    PROVE  \E r \in Rows : fates[r] = "unwritten"
                           /\ fates' = [fates EXCEPT ![r] = "waiting"]
<1>a. PICK r \in Rows, u \in TableNames : Moved(c, r, u)
  BY WriteMoves
<1>1. /\ u = r.table /\ r = Head(todo[c]) /\ r.call = c /\ ~Written(r)
      /\ \A t \in TableNames : SeqSet(written'[t]) =
            IF t = u THEN SeqSet(written[t]) \cup {r} ELSE SeqSet(written[t])
      /\ \A w \in Tasks : batch[w] = <<>>
      /\ \A t \in TableNames : t # u => buffers'[t] = buffers[t]
      /\ \A w \in Tasks : w # c => batch'[w] = <<>>
      /\ \/ /\ buffers'[u] = <<>> /\ Distinct(batch'[c])
            /\ SeqSet(batch'[c]) = SeqSet(buffers[u]) \cup {r}
         \/ /\ batch'[c] = <<>> /\ Distinct(buffers'[u])
            /\ SeqSet(buffers'[u]) = SeqSet(buffers[u]) \cup {r}
      /\ stored' = stored /\ orphans' = orphans
  BY <1>a DEF Moved
<1>2. \A q \in Rows : q.table \in TableNames
  BY TableFacts
<1>3. SeqSet(buffers[u]) \subseteq RowsOf(u)
  BY SeqSetFacts DEF WriterInv, RowsTyped
<1>4. ASSUME NEW q \in Rows
      PROVE  /\ Written(q)' <=> Written(q) \/ q = r
             /\ Stored(q)' <=> Stored(q)
             /\ InFlight(q)' <=> InFlight(q) \/ q = r
  <2>1. Written(q)' <=> Written(q) \/ q = r
    <3>1. SeqSet(written'[q.table]) =
            IF q.table = u THEN SeqSet(written[q.table]) \cup {r}
            ELSE SeqSet(written[q.table])
      BY <1>1, <1>2
    <3> QED
      BY <1>1, <3>1 DEF Written
  <2>2. Stored(q)' <=> Stored(q)
    BY <1>1 DEF Stored
  <2>3. /\ (q \in SeqSet(buffers'[q.table]) \/ q \in SeqSet(batch'[c]))
             <=> q \in SeqSet(buffers[q.table]) \cup {r}
        /\ \A w \in Tasks : w # c => SeqSet(batch'[w]) = {}
        /\ \A w \in Tasks : SeqSet(batch[w]) = {}
    <3>1. CASE q.table = u
      BY <1>1, <3>1, EmptyFacts
    <3>2. CASE q.table # u
      <4>1. q \notin SeqSet(buffers[u]) /\ q # r
        BY <1>1, <1>3, <3>2 DEF RowsOf
      <4>2. q \notin SeqSet(batch'[c])
        BY <1>1, <4>1, EmptyFacts
      <4> QED
        BY <1>1, <1>2, <3>2, <4>1, <4>2, EmptyFacts
    <3> QED
      BY <3>1, <3>2
  <2>4. c \in Tasks
    BY DEF Tasks
  <2>5. InFlight(q)' <=> InFlight(q) \/ q = r
    BY <1>1, <2>3, <2>4 DEF InFlight, Tasks
  <2> QED
    BY <2>1, <2>2, <2>5
<1>5. ~Written(r) /\ ~Stored(r) /\ ~InFlight(r)
  BY <1>1 DEF FateFacts
<1>6. Fate(r) = "unwritten" /\ Fate(r)' = "waiting"
  BY <1>4, <1>5 DEF FateFacts
<1>7. ASSUME NEW q \in Rows, q # r
      PROVE  Fate(q)' = Fate(q)
  BY <1>4, <1>7 DEF FateFacts
<1> QED
  BY <1>6, <1>7 DEF fates

\* A batch is stored, or lost.
LEMMA FateSettles ==
    ASSUME WriterInv, PlacesInv, FateFacts, FateFacts',
           NEW b \in Batches, b # <<>>, Apart(b),
           Land(b) \/ UNCHANGED stored, UNCHANGED written,
           \A q \in Rows : InFlight(q)' <=> InFlight(q) /\ q \notin SeqSet(b),
           \A q \in SeqSet(b) : InFlight(q)
    PROVE  \E end \in {"stored", "lost"} :
             /\ SeqSet(b) \subseteq Rows
             /\ \A r \in SeqSet(b) : fates[r] = "waiting"
             /\ fates' = [r \in Rows |-> IF r \in SeqSet(b) THEN end ELSE fates[r]]
<1>1. SeqSet(b) \subseteq Rows
  BY SeqSetFacts, TableFacts
<1>2. \A r \in SeqSet(b) : Fate(r) = "waiting"
  BY <1>1 DEF FateFacts
<1>3. \A r \in Rows : Written(r)' <=> Written(r)
  BY DEF Written
<1>4. CASE UNCHANGED stored
  <2>1. \A r \in Rows : Stored(r)' <=> Stored(r)
    BY <1>4 DEF Stored
  <2>2. \A r \in Rows : Fate(r)' = IF r \in SeqSet(b) THEN "lost" ELSE Fate(r)
    BY <1>3, <2>1 DEF FateFacts
  <2> QED
    BY <1>1, <1>2, <2>2 DEF fates
<1>5. CASE Land(b)
  <2>1. PICK u \in TableNames :
             /\ \A r \in SeqSet(b) : r \in Rows /\ r.table = u
             /\ \A t \in TableNames :
                   /\ Distinct(stored'[t])
                   /\ SeqSet(stored'[t]) = IF t = u THEN SeqSet(stored[t]) \cup SeqSet(b)
                                           ELSE SeqSet(stored[t])
    BY <1>5, LandMoves
  <2>2. ASSUME NEW r \in Rows
        PROVE  Stored(r)' <=> Stored(r) \/ r \in SeqSet(b)
    <3>1. r.table \in TableNames
      BY TableFacts
    <3>2. SeqSet(stored'[r.table]) =
            IF r.table = u THEN SeqSet(stored[r.table]) \cup SeqSet(b)
            ELSE SeqSet(stored[r.table])
      BY <2>1, <3>1
    <3> QED
      BY <2>1, <3>2 DEF Stored
  <2>3. \A r \in Rows : Fate(r)' = IF r \in SeqSet(b) THEN "stored" ELSE Fate(r)
    BY <1>3, <2>2 DEF FateFacts
  <2> QED
    BY <1>1, <1>2, <2>3 DEF fates
<1> QED
  BY <1>4, <1>5

\* Every step writes a row, settles a batch, or leaves all fates alone.
LEMMA FateStep ==
    ASSUME WriterInv, PlacesInv, [Next]_vars
    PROVE  [Promise!Next]_fates
<1>1. FateFacts /\ FateFacts'
  BY FateIs, NextFateIs, WriterStep, PlacesStep
<1>2. ASSUME NEW b \in Batches,
             \E end \in {"stored", "lost"} :
               /\ SeqSet(b) \subseteq Rows
               /\ \A r \in SeqSet(b) : fates[r] = "waiting"
               /\ fates' = [r \in Rows |-> IF r \in SeqSet(b) THEN end ELSE fates[r]]
      PROVE  Promise!Next
  BY <1>2 DEF Promise!Next, Promise!Settle, fates
<1>3. ASSUME \A r \in Rows : (Written(r)' <=> Written(r)) /\ (Stored(r)' <=> Stored(r))
                             /\ (InFlight(r)' <=> InFlight(r))
      PROVE  fates' = fates
  BY <1>1, <1>3 DEF FateFacts, fates
<1>4. CASE Rests
  <2>1. UNCHANGED <<buffers, batch, orphans, stored, written>>
    BY <1>4 DEF Rests
  <2> QED
    BY <1>3, <2>1 DEF Written, Stored, InFlight
<1>5. ASSUME NEW c \in Calls, Writes(c)
      PROVE  Promise!Next
  BY <1>1, <1>5, FateWrites DEF Promise!Next, Promise!Write, fates
<1>6. ASSUME NEW w \in Tasks, NEW u \in TableNames, Takes(w, u)
      PROVE  fates' = fates
  <2>1. /\ \A v \in Tasks : batch'[v] = IF v = w THEN buffers[u] ELSE <<>>
        /\ \A v \in Tasks : batch[v] = <<>>
        /\ \A t \in TableNames : buffers'[t] = IF t = u THEN <<>> ELSE buffers[t]
        /\ stored' = stored /\ orphans' = orphans /\ written' = written
    BY <1>6 DEF Takes, WriterInv, RowsTyped
  <2>2. \A r \in SeqSet(buffers[u]) : r.table = u
    <3>1. buffers[u] \in Seq(RowsOf(u))
      BY DEF WriterInv, RowsTyped
    <3>2. SeqSet(buffers[u]) \subseteq RowsOf(u)
      BY <3>1, SeqSetFacts
    <3> QED
      BY <3>2 DEF RowsOf
  <2>3. ASSUME NEW r \in Rows
        PROVE  InFlight(r)' <=> InFlight(r)
    <3>1. r.table \in TableNames
      BY TableFacts
    <3>2. (r \in SeqSet(buffers'[r.table]) \/ \E v \in Tasks : r \in SeqSet(batch'[v]))
             <=> r \in SeqSet(buffers[r.table])
      BY <2>1, <2>2, <3>1, EmptyFacts
    <3>3. \A v \in Tasks : r \notin SeqSet(batch[v])
      BY <2>1, EmptyFacts
    <3> QED
      BY <2>1, <3>2, <3>3 DEF InFlight, Tasks
  <2> QED
    BY <1>3, <2>1, <2>3 DEF Written, Stored
<1>7. ASSUME NEW w \in Tasks, Ends(w)
      PROVE  Promise!Next
  <2> DEFINE b == batch[w]
  <2>1. /\ Land(b) \/ UNCHANGED stored
        /\ UNCHANGED <<buffers, orphans, written>>
    BY <1>7 DEF Ends
  <2>2. /\ b \in Batches /\ b # <<>> /\ Apart(b)
        /\ \A v \in Tasks : batch'[v] = <<>> /\ (v # w => batch[v] = <<>>)
        /\ \A a \in orphans : SeqSet(a) \cap SeqSet(b) = {}
    BY <1>7, EndMoves
  <2>3. \A q \in SeqSet(b) : InFlight(q)
    BY DEF InFlight, Tasks
  <2>4. ASSUME NEW q \in Rows
        PROVE  InFlight(q)' <=> InFlight(q) /\ q \notin SeqSet(b)
    <3>1. \A v \in Tasks : q \notin SeqSet(batch'[v])
      BY <2>2, EmptyFacts
    <3>2. q \in SeqSet(b) => q \notin SeqSet(buffers[q.table])
      BY <2>2, TableFacts DEF Apart
    <3>3. \A v \in Tasks : q \in SeqSet(batch[v]) => q \in SeqSet(b)
      BY <2>2, EmptyFacts
    <3> QED
      BY <2>1, <2>2, <3>1, <3>2, <3>3 DEF InFlight, Tasks
  <2> HIDE DEF b
  <2> QED
    BY <1>1, <1>2, <2>1, <2>2, <2>3, <2>4, FateSettles
<1>8. ASSUME NEW b \in orphans, Outlives(b)
      PROVE  Promise!Next
  <2>1. /\ Land(b) \/ UNCHANGED stored
        /\ orphans' = orphans \ {b}
        /\ UNCHANGED <<buffers, batch, written>>
    BY <1>8 DEF Outlives
  <2>2. /\ b \in Batches /\ b # <<>> /\ Apart(b)
        /\ \A v \in Tasks : SeqSet(batch[v]) \cap SeqSet(b) = {}
        /\ \A a \in orphans \ {b} : SeqSet(a) \cap SeqSet(b) = {}
    BY OutliveMoves
  <2>3. \A q \in SeqSet(b) : InFlight(q)
    BY DEF InFlight
  <2>4. ASSUME NEW q \in Rows
        PROVE  InFlight(q)' <=> InFlight(q) /\ q \notin SeqSet(b)
    <3>1. q \in SeqSet(b) => q \notin SeqSet(buffers[q.table])
      BY <2>2, TableFacts DEF Apart
    <3>2. (\E a \in orphans' : q \in SeqSet(a))
             <=> (\E a \in orphans : q \in SeqSet(a)) /\ q \notin SeqSet(b)
      BY <2>1, <2>2
    <3> QED
      BY <2>1, <2>2, <3>1, <3>2 DEF InFlight, Tasks
  <2> QED
    BY <1>1, <1>2, <2>1, <2>2, <2>3, <2>4, FateSettles
<1>9. CASE Cancels
  <2>1. /\ orphans' = IF batch["flusher"] = <<>> THEN orphans
                      ELSE orphans \cup {batch["flusher"]}
        /\ \A w \in Tasks : batch'[w] = IF w = "flusher" THEN <<>> ELSE batch[w]
        /\ UNCHANGED <<buffers, stored, written>>
    BY <1>9 DEF Cancels, WriterInv, RowsTyped
  <2>2. "flusher" \in Tasks
    BY DEF Tasks, Sweepers
  <2>3. ASSUME NEW r \in Rows
        PROVE  InFlight(r)' <=> InFlight(r)
    <3>1. ((\E w \in Tasks : r \in SeqSet(batch'[w])) \/ \E a \in orphans' : r \in SeqSet(a))
          <=> ((\E w \in Tasks : r \in SeqSet(batch[w])) \/ \E a \in orphans : r \in SeqSet(a))
      <4>1. CASE r \in SeqSet(batch["flusher"])
        BY <2>1, <2>2, <4>1, EmptyFacts
      <4>2. CASE r \notin SeqSet(batch["flusher"])
        BY <2>1, <2>2, <4>2, EmptyFacts
      <4> QED
        BY <4>1, <4>2
    <3> QED
      BY <2>1, <3>1 DEF InFlight, Tasks
  <2> QED
    BY <1>3, <2>1, <2>3 DEF Written, Stored
<1> QED
  BY <1>4, <1>5, <1>6, <1>7, <1>8, <1>9, RowMoves

\* A row is stored at most once and never lost and found again, for any number
\* of calls, every batch size and every fault.
THEOREM StoredAtMostOnce == Spec => DeliversAtMostOnce
<1>1. Init => Promise!Init
  <2> SUFFICES ASSUME Init, NEW r \in Rows
               PROVE  Fate(r) = "unwritten"
    BY DEF Promise!Init
  <2>1. r \notin SeqSet(written[r.table])
    BY TableFacts, EmptyFacts DEF Init
  <2> QED
    BY <2>1 DEF Fate
<1>2. WriterInv /\ PlacesInv /\ [Next]_vars => [Promise!Next]_fates
  BY FateStep
<1> QED
  BY <1>1, <1>2, WriterInit, WriterStep, PlacesInit, PlacesStep, PTL
  DEF Spec, DeliversAtMostOnce, Promise!Spec, fates

-----------------------------------------------------------------------------
(* A usage row comes after its finding. *)

Finding(c) == Row("findings", c, 1)
Usage(c) == Row("agent_usage", c, 1)

\* A completion that still has, or has had, the usage to write wrote the finding.
FindsInv ==
    \A c \in Completions :
        /\ todo[c] \in {<<>>, <<Finding(c), Usage(c)>>, <<Usage(c)>>}
        /\ todo[c] = <<Usage(c)>> \/ Written(Usage(c)) => Written(Finding(c))

LEMMA CompletionFacts ==
    ASSUME NEW c \in Completions
    PROVE  /\ c \in Calls
           /\ Finding(c) \in Rows /\ Usage(c) \in Rows /\ Finding(c) # Usage(c)
           /\ Finding(c).table = "findings" /\ Usage(c).table = "agent_usage"
           /\ Finding(c).call = c /\ Usage(c).call = c
           /\ Head(<<Finding(c), Usage(c)>>) = Finding(c)
           /\ Tail(<<Finding(c), Usage(c)>>) = <<Usage(c)>>
           /\ Head(<<Usage(c)>>) = Usage(c) /\ Tail(<<Usage(c)>>) = <<>>
           /\ <<Finding(c), Usage(c)>> # <<Usage(c)>> /\ <<>> # <<Usage(c)>>
<1>1. /\ c \in Calls
      /\ Finding(c) \in Rows /\ Usage(c) \in Rows /\ Finding(c) # Usage(c)
      /\ Finding(c).table = "findings" /\ Usage(c).table = "agent_usage"
      /\ Finding(c).call = c /\ Usage(c).call = c
  BY DEF Calls, Rows, Row, Finding, Usage
<1> HIDE DEF Finding, Usage
<1> QED
  BY <1>1

\* A write adds its row to what was written, and removes none.
LEMMA FindsWrite ==
    ASSUME WriterInv, PlacesInv, FindsInv, NEW d \in Calls, Writes(d)
    PROVE  FindsInv'
<1>a. PICK r \in Rows, u \in TableNames : Moved(d, r, u)
  BY WriteMoves
<1>1. /\ u = r.table /\ r = Head(todo[d]) /\ r.call = d
      /\ \A t \in TableNames : SeqSet(written'[t]) =
            IF t = u THEN SeqSet(written[t]) \cup {r} ELSE SeqSet(written[t])
  BY <1>a DEF Moved
<1>2. \A q \in Rows : Written(q)' <=> Written(q) \/ q = r
  BY <1>1, TableFacts DEF Written
<1>3. todo[d] # <<>> /\ todo'[d] \in {Tail(todo[d]), <<>>} /\ Others(d)
  BY DEF Writes
<1> SUFFICES ASSUME NEW c \in Completions
             PROVE  /\ todo'[c] \in {<<>>, <<Finding(c), Usage(c)>>, <<Usage(c)>>}
                    /\ todo'[c] = <<Usage(c)>> \/ Written(Usage(c))'
                          => Written(Finding(c))'
  BY DEF FindsInv, Finding, Usage
<1>4. /\ Finding(c) \in Rows /\ Usage(c) \in Rows /\ c \in Calls
      /\ Usage(c).call = c
  BY CompletionFacts
<1>5. CASE c # d
  <2>1. todo'[c] = todo[c] /\ Usage(c) # r
    BY <1>1, <1>3, <1>4, <1>5 DEF Others
  <2> QED
    BY <1>2, <1>4, <2>1 DEF FindsInv
<1>6. CASE c = d /\ todo[c] = <<Finding(c), Usage(c)>>
  <2>1. r = Finding(c) /\ todo'[c] \in {<<>>, <<Usage(c)>>}
    BY <1>1, <1>3, <1>6, CompletionFacts
  <2> QED
    BY <1>2, <1>4, <2>1
<1>7. CASE c = d /\ todo[c] = <<Usage(c)>>
  <2>1. todo'[c] = <<>> /\ Written(Finding(c))
    BY <1>3, <1>7, CompletionFacts DEF FindsInv
  <2> QED
    BY <1>2, <1>4, <2>1
<1> QED
  BY <1>3, <1>5, <1>6, <1>7 DEF FindsInv

LEMMA FindsStep ==
    ASSUME WriterInv, PlacesInv, FindsInv, [Next]_vars
    PROVE  FindsInv'
<1>1. ASSUME written' = written,
             \A c \in Completions : todo'[c] \in {todo[c], <<>>, CompletionRows(c)}
      PROVE  FindsInv'
  <2>1. \A q : Written(q)' <=> Written(q)
    BY <1>1 DEF Written
  <2> SUFFICES ASSUME NEW c \in Completions
               PROVE  /\ todo'[c] \in {<<>>, <<Finding(c), Usage(c)>>, <<Usage(c)>>}
                      /\ todo'[c] = <<Usage(c)>> \/ Written(Usage(c))'
                            => Written(Finding(c))'
    BY DEF FindsInv, Finding, Usage
  <2>2. CompletionRows(c) = <<Finding(c), Usage(c)>>
    BY DEF CompletionRows, Finding, Usage
  <2>3. todo'[c] \in {todo[c], <<>>, <<Finding(c), Usage(c)>>}
    BY <1>1, <2>2
  <2> QED
    BY <2>1, <2>3, CompletionFacts DEF FindsInv
<1>2. CASE Rests
  <2>1. \A c \in Completions : c \in Calls
    BY DEF Calls
  <2>2. \A c \in Completions : \A rows : Script(c, rows) => rows = CompletionRows(c)
    BY CallsAssumption DEF Script
  <2> QED
    BY <1>1, <1>2, <2>1, <2>2 DEF Rests
<1>3. CASE UNCHANGED written /\ CallsGoOn
  BY <1>1, <1>3 DEF CallsGoOn, Calls
<1>4. CASE UNCHANGED <<written, todo>>
  BY <1>1, <1>4
<1> QED
  BY <1>2, <1>3, <1>4, RowMoves, FindsWrite DEF Takes, Ends, Cancels, Outlives

\* Every usage row in ClickHouse has its finding written before it, for any
\* number of completions of the invocation.
THEOREM FindingsComeFirst == Spec => []FindingBeforeUsage
<1>1. Init => FindsInv
  <2> SUFFICES ASSUME Init, NEW c \in Completions
               PROVE  todo[c] = <<>> /\ ~Written(Usage(c))
    BY CompletionFacts DEF FindsInv
  <2>1. todo[c] = <<>>
    BY CompletionFacts DEF Init
  <2>2. ~Written(Usage(c))
    BY TableFacts, CompletionFacts, EmptyFacts DEF Init, Written
  <2> QED
    BY <2>1, <2>2
<1>2. WriterInv /\ PlacesInv /\ FindsInv => FindingBeforeUsage
  <2> SUFFICES ASSUME WriterInv, PlacesInv, FindsInv, NEW c \in Completions,
                      Copies(Usage(c)) > 0
               PROVE  Written(Finding(c))
    BY CompletionFacts DEF FindingBeforeUsage, Finding, Usage, Written
  <2> DEFINE at == {i \in DOMAIN stored["agent_usage"] :
                        stored["agent_usage"][i] = Usage(c)}
  <2>1. Copies(Usage(c)) = Cardinality(at)
    BY CompletionFacts DEF Copies
  <2>2. at # {}
    BY <2>1, FS_EmptySet
  <2>3. Usage(c) \in SeqSet(stored["agent_usage"])
    BY <2>2 DEF SeqSet
  <2>4. Written(Usage(c))
    <3>1. "agent_usage" \in TableNames /\ Usage(c).table = "agent_usage"
      BY CompletionFacts, TableFacts
    <3> QED
      BY <2>3, <3>1 DEF PlacesInv, Tracked, Written
  <2> QED
    BY <2>4 DEF FindsInv
<1> QED
  BY <1>1, <1>2, WriterInit, WriterStep, PlacesInit, PlacesStep, FindsStep, PTL DEF Spec

=============================================================================
