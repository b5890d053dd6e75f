------------------------------- MODULE Watcher --------------------------------
(***************************************************************************)
(* The Windows event-log watcher of the agent (agent/internal/watch): it   *)
(* polls the OpenSSH channel, remembers the newest record it has read and  *)
(* reports every accepted login to the backend in notify mode, one after   *)
(* the other, with an audit line each.  "watch --once" reports the logins  *)
(* of the last five minutes and exits.  sshd writes the log meanwhile.     *)
(***************************************************************************)
EXTENDS Integers, Sequences, FiniteSets, FiniteSetsExt

CONSTANTS
  Daemons,        \* processes that run "watch"
  Onces,          \* processes that run "watch --once"
  MaxLog          \* bound: records in the event log

ASSUME WatcherAssumption == MaxLog \in Nat /\ Daemons \cap Onces = {}

VARIABLES
  log,            \* the channel: what each record, by id, is about
  pc,
  last, primed,   \* WevtutilSource
  raw,            \* record ids the query returned
  batch,          \* events RunOnce still has to report
  trail,          \* record ids reported in this run, in order
  start,          \* history: records in the log when the process started
  blind           \* history: its first query failed

watchVars == <<log, pc, last, primed, raw, batch, trail, start, blind>>

-----------------------------------------------------------------------------
Processes == Daemons \cup Onces
Kinds == {"accepted", "other"}
Ids == 1 .. Len(log)

Goto(w, point) == pc' = [pc EXCEPT ![w] = point]

\* sshd writes an event ID 4 record.
Write(kind) ==
  /\ Len(log) < MaxLog
  /\ log' = Append(log, kind)
  /\ UNCHANGED <<pc, last, primed, raw, batch, trail, start, blind>>

\* runWatch with a readable configuration
Launch(w) ==
  /\ pc[w] = "off"
  /\ Goto(w, "poll")
  /\ last' = [last EXCEPT ![w] = 0]
  /\ primed' = [primed EXCEPT ![w] = FALSE]
  /\ raw' = [raw EXCEPT ![w] = {}]
  /\ batch' = [batch EXCEPT ![w] = <<>>]
  /\ trail' = [trail EXCEPT ![w] = <<>>]
  /\ start' = [start EXCEPT ![w] = Len(log)]
  /\ blind' = [blind EXCEPT ![w] = FALSE]
  /\ UNCHANGED log

-----------------------------------------------------------------------------
(* Next: query, then advance *)

NewRecordsInclusive(w) == {i \in Ids : i >= last[w]}
\* EventRecordID > last
NewRecords(w) == {i \in Ids : i > last[w]}

\* The first query: the newest record, or those of the lookback window, which
\* is some suffix of the log.
FirstQuery(w) ==
  IF w \in Onces THEN {{i \in Ids : i > n} : n \in 0 .. Len(log)}
  ELSE {{i \in Ids : i = Len(log)}}

Query(w) ==
  /\ pc[w] = "poll"
  /\ \E found \in IF primed[w] THEN {NewRecords(w)} ELSE FirstQuery(w) :
       raw' = [raw EXCEPT ![w] = found]
  /\ Goto(w, IF primed[w] \/ w \in Onces THEN "read" ELSE "prime")
  /\ primed' = [primed EXCEPT ![w] = TRUE]
  /\ UNCHANGED <<log, last, batch, trail, start, blind>>

\* wevtutil fails or its output does not parse: Run prints it and polls again,
\* --once exits.  The source counts as primed all the same.
QueryFails(w) ==
  /\ pc[w] = "poll"
  /\ blind' = [blind EXCEPT ![w] = @ \/ ~ primed[w]]
  /\ primed' = [primed EXCEPT ![w] = TRUE]
  /\ Goto(w, IF w \in Onces THEN "off" ELSE "poll")
  /\ UNCHANGED <<log, last, raw, batch, trail, start>>

AdvanceToNewest(w) == Len(log)
\* The largest id of what was read; the log may have grown since.
Advance(w) == Max(raw[w] \cup {last[w]})

\* The accepted logins of what was read, in the order of the log
ToEvents(w) ==
  LET logins == {i \in raw[w] : log[i] = "accepted"} IN
  CHOOSE events \in [1 .. Cardinality(logins) -> logins] :
    \A i, j \in 1 .. Cardinality(logins) : i < j => events[i] < events[j]

Read(w) ==
  /\ pc[w] \in {"prime", "read"}
  /\ last' = [last EXCEPT ![w] = Advance(w)]
  /\ batch' = [batch EXCEPT ![w] = IF pc[w] = "prime" THEN <<>> ELSE ToEvents(w)]
  /\ raw' = [raw EXCEPT ![w] = {}]
  /\ Goto(w, "report")
  /\ UNCHANGED <<log, primed, trail, start, blind>>

-----------------------------------------------------------------------------
(* RunOnce and Run *)

\* report: whatever the backend answers, or does not, there is one audit line and
\* the next event is taken.
Report(w) ==
  /\ pc[w] = "report"
  /\ batch[w] # <<>>
  /\ trail' = [trail EXCEPT ![w] = Append(@, Head(batch[w]))]
  /\ batch' = [batch EXCEPT ![w] = Tail(@)]
  /\ UNCHANGED <<log, pc, last, primed, raw, start, blind>>

EndBatch(w) ==
  /\ pc[w] = "report"
  /\ batch[w] = <<>>
  /\ Goto(w, IF w \in Onces THEN "off" ELSE "poll")
  /\ UNCHANGED <<log, last, primed, raw, batch, trail, start, blind>>

\* Interrupted or killed; the rest of a batch is lost with the process.
Stop(w) ==
  /\ pc[w] # "off"
  /\ Goto(w, "off")
  /\ UNCHANGED <<log, last, primed, raw, batch, trail, start, blind>>

-----------------------------------------------------------------------------
WatchInit ==
  /\ log \in UNION {[1 .. n -> Kinds] : n \in 0 .. MaxLog}
  /\ pc = [w \in Processes |-> "off"]
  /\ last = [w \in Processes |-> 0]
  /\ primed = [w \in Processes |-> FALSE]
  /\ raw = [w \in Processes |-> {}]
  /\ batch = [w \in Processes |-> <<>>]
  /\ trail = [w \in Processes |-> <<>>]
  /\ start = [w \in Processes |-> 0]
  /\ blind = [w \in Processes |-> FALSE]

WatchNext ==
  \/ \E kind \in Kinds : Write(kind)
  \/ \E w \in Processes :
       \/ Launch(w) \/ Query(w) \/ QueryFails(w) \/ Read(w)
       \/ Report(w) \/ EndBatch(w) \/ Stop(w)

WatchSpec == WatchInit /\ [][WatchNext]_watchVars

\* The process runs, and wevtutil does not fail for ever.
WatchFairSpec ==
  /\ WatchSpec
  /\ \A w \in Processes :
       /\ WF_watchVars(Query(w))
       /\ WF_watchVars(Read(w))
       /\ WF_watchVars(Report(w) \/ EndBatch(w))

-----------------------------------------------------------------------------
(* Properties *)

\* What a run of the watcher reports is a part of the log, in its order and
\* without repetition or gap, across failed queries and records that arrive
\* while a batch is under way: accepted logins only, none from before the
\* watcher started unless its first query failed, and every one from its first
\* to the newest record it has read is reported or in the batch, unless the
\* process stopped (source_windows.go Next, watch.go RunOnce).
TrailFollowsLog ==
  \A w \in Processes : \A i \in 1 .. Len(trail[w]) :
    /\ \A j \in 1 .. i - 1 : trail[w][j] < trail[w][i]
    /\ log[trail[w][i]] = "accepted"
    /\ (w \in Daemons /\ trail[w][i] <= start[w]) => blind[w]
    /\ pc[w] # "off" => \A n \in trail[w][i] .. last[w] :
         log[n] = "accepted" =>
           \E j \in 1 .. Len(trail[w] \o batch[w]) : (trail[w] \o batch[w])[j] = n

\* Every accepted login that a running watcher has not read yet is reported,
\* unless the watcher is stopped: no failed query and no record that arrives
\* between a query and the advance of the record id loses one (watch.go Run).
LoginReported ==
  \A w \in Daemons : \A i \in 1 .. MaxLog :
    (/\ i \in Ids /\ log[i] = "accepted" /\ i > last[w]
     /\ primed[w] /\ pc[w] \in {"poll", "read", "report"})
      ~> (pc[w] = "off" \/ \E j \in 1 .. Len(trail[w]) : trail[w][j] = i)

\* "The first poll only records the newest record id, so logins from before the
\* watcher started are not replayed" (watch/doc.go:9).
NothingReplayed ==
  \A w \in Daemons : \A i \in 1 .. Len(trail[w]) : trail[w][i] > start[w]
===============================================================================
