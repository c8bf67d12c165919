--------------------------- MODULE ToolCorrelation ---------------------------
(* The correlation buffers of the collector (otlp.py) and the tool calls      *)
(* they end in (recorder.py, database/sessions.py).                           *)
(*                                                                            *)
(* An agent reports a tool in pieces: a decision that names it, a result that *)
(* times it, and the usage of the request that asked for it. The collector    *)
(* keeps the pieces per prompt (Claude Code), conversation (Codex) or message *)
(* (OpenCode, Kilo) until they can be recorded. One process handles the       *)
(* records of a batch one after the other; a failure ends the batch.          *)
(* Records come in any order, late, and more than once: nothing ties the      *)
(* arrival of one to that of another, so a record may come whenever the       *)
(* bounds allow. The times decisions carry are moments, of which the flush of *)
(* a request covers those before some cut; the ten minutes after which a      *)
(* buffer is dropped are a choice. All records name one session.              *)
EXTENDS Buffers

CONSTANTS
  Prompts,        \* Claude Code prompt ids
  Conversations,  \* Codex conversation ids
  Messages,       \* OpenCode and Kilo message ids
  Tools,          \* tool use ids
  NoTool,         \* no row of tool_calls, a tool not yet decided
  MaxMoments,     \* the moments at which tools are decided, for model checking
  MaxRequests,    \* bound on the usage rows, for model checking
  MaxLengths      \* bound on the waiting prompt lengths, for model checking

Keys == Prompts \cup Conversations \cup Messages

\* Only the tools of a prompt are told apart by time.
Moments == 1 .. MaxMoments
MomentsOf(k) == {at \in Moments : k \in Prompts \/ at = 1}

\* Where and when a tool was decided, and a row of tool_calls.
Decisions == [key : Keys, at : Moments]
ToolCalls == [usage : 0 .. MaxRequests, timed : BOOLEAN]

ASSUME ToolAssumption ==
  /\ MaxMoments \in Nat /\ MaxRequests \in Nat /\ MaxLengths \in Nat
  /\ IsFiniteSet(Tools)
  /\ NoTool \notin Decisions \cup ToolCalls
  /\ Prompts \cap (Conversations \cup Messages) = {}

VARIABLES
  toolBuffer,     \* the three tool buffers: key -> entries
  lastUsage,      \* _claude_last_usage: number of the usage row, 0 without one
  codexState,     \* the conversations with an entry in codex_state
  promptLengths,  \* lengths waiting in PROMPT_LENGTH_TRACKER
  toolRows,       \* tool_calls
  toolCounter,    \* the calls counted in tool_calls_json of the session
  sessionKnown,   \* the session has a row
  usageRows,      \* number of usage rows recorded
  decided,        \* ghost: where and when a tool was decided
  uncounted,      \* ghost: rows whose counter a failure or a missing session left
  lostTools       \* ghost: tools evicted, or popped for a record that failed

toolVars == <<toolBuffer, lastUsage, codexState, promptLengths, toolRows,
              toolCounter, sessionKnown, usageRows, decided, uncounted, lostTools>>

Entry(tool, at) == [tool |-> tool, at |-> at, timed |-> FALSE]
Buffered(k) == {toolBuffer[k][i].tool : i \in DOMAIN toolBuffer[k]}

\* _buffer_tool_call merges on the id of the tool, _buffer_tool_duration completes an
\* entry, _pop_buffered_tool takes it out.
Merged(k, entry) ==
  IF entry.tool \in Buffered(k) THEN toolBuffer[k] ELSE Append(toolBuffer[k], entry)
Completed(k, t) ==
  [i \in DOMAIN toolBuffer[k] |->
     IF toolBuffer[k][i].tool = t THEN [toolBuffer[k][i] EXCEPT !.timed = TRUE]
                                  ELSE toolBuffer[k][i]]
Without(k, t) ==
  Kept(toolBuffer[k], {i \in DOMAIN toolBuffer[k] : toolBuffer[k][i].tool # t})

\* _flush_claude_tools: what was decided before the cut is recorded.
Flushed(k, cut) ==
  Kept(toolBuffer[k], {i \in DOMAIN toolBuffer[k] : toolBuffer[k][i].at < cut})
Remaining(k, cut) ==
  Kept(toolBuffer[k], {i \in DOMAIN toolBuffer[k] : toolBuffer[k][i].at >= cut})

ToolTypeOK ==
  /\ toolBuffer \in [Keys -> Seq([tool : Tools, at : Moments, timed : BOOLEAN])]
  /\ lastUsage \in [Prompts -> 0 .. MaxRequests]
  /\ codexState \subseteq Conversations
  /\ promptLengths \in [Keys -> 0 .. MaxLengths]
  /\ toolRows \in [Tools -> {NoTool} \cup ToolCalls]
  /\ toolCounter \in Nat /\ sessionKnown \in BOOLEAN
  /\ usageRows \in 0 .. MaxRequests
  /\ decided \in [Tools -> {NoTool} \cup Decisions]
  /\ uncounted \subseteq Tools /\ lostTools \subseteq Tools

ToolInit ==
  /\ toolBuffer = [k \in Keys |-> <<>>]
  /\ lastUsage = [k \in Prompts |-> 0]
  /\ codexState = {} /\ promptLengths = [k \in Keys |-> 0]
  /\ toolRows = [t \in Tools |-> NoTool]
  /\ toolCounter = 0 /\ sessionKnown = FALSE
  /\ usageRows = 0
  /\ decided = [t \in Tools |-> NoTool]
  /\ uncounted = {} /\ lostTools = {}

(* ---- tool_calls ----------------------------------------------------------- *)

New(tools) == {t \in tools : toolRows[t] = NoTool}
IsTimed(entries, t) == \E i \in DOMAIN entries : entries[i].tool = t /\ entries[i].timed

\* Mutant: a row that is there already is counted again.
RecordToolsAgain(entries, usage, done, half, known) ==
  /\ toolRows' = [t \in Tools |->
       IF t \in New(done \cup half)
         THEN [usage |-> usage, timed |-> IsTimed(entries, t)] ELSE toolRows[t]]
  /\ toolCounter' = toolCounter + (IF known THEN Cardinality(done) ELSE 0)
  /\ uncounted' = uncounted \cup New(half) \cup (IF known THEN {} ELSE New(done))

\* record_tool_call for each entry, all under one usage: whole for the tools in
\* done, and for the one in half only the insertion, after which the update of
\* the session failed. A row that is there already is left alone, uncounted.
RecordTools(entries, usage, done, half, known) ==
  /\ toolRows' = [t \in Tools |->
       IF t \in New(done \cup half)
         THEN [usage |-> usage, timed |-> IsTimed(entries, t)] ELSE toolRows[t]]
  /\ toolCounter' = toolCounter + (IF known THEN Cardinality(New(done)) ELSE 0)
  /\ uncounted' = uncounted \cup New(half) \cup (IF known THEN {} ELSE New(done))

\* The ways a loop of record_tool_call over entries may end: through, or broken
\* off at some entry, before or after its insertion.
Recordings(entries) ==
  LET tools(n) == {entries[i].tool : i \in 1 .. n}
  IN  {[done |-> tools(Len(entries)), half |-> {}]} \cup
      UNION {{[done |-> tools(n - 1), half |-> {}],
              [done |-> tools(n - 1), half |-> {entries[n].tool}]} :
                n \in 1 .. Len(entries)}

\* update_tool_call_duration
TimedRow(row) == [row EXCEPT !.timed = TRUE]

(* ---- records ---------------------------------------------------------------- *)

UserPrompt(k) ==
  /\ k \notin Messages /\ promptLengths[k] < MaxLengths
  /\ promptLengths' = [promptLengths EXCEPT ![k] = @ + 1]
  /\ UNCHANGED <<toolBuffer, lastUsage, codexState, toolRows, toolCounter,
                 sessionKnown, usageRows, decided, uncounted, lostTools>>

\* A tool decision, new or delivered again; it is merged on the tool's id.
ToolDecision(k, t, at) ==
  /\ decided[t] \in {NoTool, [key |-> k, at |-> at]}
  /\ decided' = [decided EXCEPT ![t] = [key |-> k, at |-> at]]
  /\ toolBuffer' = [toolBuffer EXCEPT ![k] = Merged(k, Entry(t, at))]
  /\ UNCHANGED <<lastUsage, codexState, promptLengths, toolRows, toolCounter,
                 sessionKnown, usageRows, uncounted, lostTools>>

\* Claude Code reports the result of a tool: the entry is popped and recorded under
\* the last usage of the prompt, if one has come yet.
ToolResult(k, t) ==
  /\ k \in Prompts /\ t \in Buffered(k)
  /\ toolBuffer' = [toolBuffer EXCEPT ![k] = Without(k, t)]
  /\ LET entry == [Entry(t, decided[t].at) EXCEPT !.timed = TRUE]
     IN  \E r \in Recordings(<<entry>>) :
           /\ RecordTools(<<entry>>, lastUsage[k], r.done, r.half, sessionKnown)
           /\ lostTools' = lostTools \cup ({t} \ (r.done \cup r.half))
  /\ UNCHANGED <<lastUsage, codexState, promptLengths, sessionKnown, usageRows, decided>>

\* Codex reports the time of a tool apart: in the buffer, else on its row.
ToolTime(k, t) ==
  /\ k \in Conversations /\ decided[t] # NoTool /\ decided[t].key = k
  /\ IF t \in Buffered(k)
       THEN /\ toolBuffer' = [toolBuffer EXCEPT ![k] = Completed(k, t)]
            /\ UNCHANGED toolRows
       ELSE /\ toolRows[t] # NoTool
            /\ toolRows' = [toolRows EXCEPT ![t] = TimedRow(@)]
            /\ UNCHANGED toolBuffer
  /\ UNCHANGED <<lastUsage, codexState, promptLengths, toolCounter, sessionKnown,
                 usageRows, decided, uncounted, lostTools>>

\* websocket_request, api_request and response.created of Codex only note times.
CodexEvent(k) ==
  /\ k \in Conversations
  /\ codexState' = codexState \cup {k}
  /\ UNCHANGED <<toolBuffer, lastUsage, promptLengths, toolRows, toolCounter,
                 sessionKnown, usageRows, decided, uncounted, lostTools>>

Consumed(k) ==
  promptLengths' = [promptLengths EXCEPT ![k] = IF @ > 0 THEN @ - 1 ELSE 0]

\* record_usage stored a row, or merged into one. The rollup to the session is swallowed
\* when it fails, so that a session without a row may stay without.
UsageStored(known) ==
  /\ usageRows < MaxRequests /\ usageRows' = usageRows + 1
  /\ known \in {sessionKnown, TRUE} /\ sessionKnown' = known

\* Mutant: the flush drops the entries it does not record.
ApiRequestDroppingRest(k, cut, known) ==
  /\ k \in Prompts /\ UsageStored(known)
  /\ \E r \in Recordings(Flushed(k, cut)) :
       /\ RecordTools(Flushed(k, cut), usageRows', r.done, r.half, known)
       /\ toolBuffer' = [toolBuffer EXCEPT ![k] = <<>>]
       /\ lastUsage' = [lastUsage EXCEPT ![k] = usageRows']
  /\ Consumed(k)
  /\ UNCHANGED <<codexState, decided, lostTools>>

\* A Claude Code request completed. Tools decided before it began will get no
\* result and are recorded under it. It began at its time less its latency, or two
\* seconds without one: the cut may fall before tools of earlier requests, between
\* those of its own, and, in a late record, before all there are.
ApiRequest(k, cut, known) ==
  /\ k \in Prompts /\ UsageStored(known)
  /\ LET flushed == Flushed(k, cut)
     IN  \E r \in Recordings(flushed) :
           /\ RecordTools(flushed, usageRows', r.done, r.half, known)
           /\ IF r.done = {flushed[i].tool : i \in DOMAIN flushed}
                THEN /\ toolBuffer' = [toolBuffer EXCEPT ![k] = Remaining(k, cut)]
                     /\ lastUsage' = [lastUsage EXCEPT ![k] = usageRows']
                ELSE UNCHANGED <<toolBuffer, lastUsage>>
  /\ Consumed(k)
  /\ UNCHANGED <<codexState, decided, lostTools>>

\* What the fields of a usage record take out of the buffers: of Claude Code
\* (_extract_claude_fields) a prompt length, of Codex (_extract_codex_fields) and of
\* OpenCode and Kilo (_extract_opencode_fields) the tools too.
ClaudeFields(k) == k \in Prompts /\ Consumed(k) /\ UNCHANGED <<toolBuffer, codexState>>
CodexFields(k) ==
  /\ k \in Conversations /\ Consumed(k)
  /\ toolBuffer' = [toolBuffer EXCEPT ![k] = <<>>]
  /\ codexState' = codexState \ {k}
OpenCodeFields(k) ==
  /\ k \in Messages
  /\ toolBuffer' = [toolBuffer EXCEPT ![k] = <<>>]
  /\ UNCHANGED <<codexState, promptLengths>>

\* A request completed and was stored; the tools it popped are recorded under it.
RecordPopped(k, known) ==
  /\ UsageStored(known)
  /\ \E r \in Recordings(toolBuffer[k]) :
       /\ RecordTools(toolBuffer[k], usageRows', r.done, r.half, known)
       /\ lostTools' = lostTools \cup (New(Buffered(k)) \ (r.done \cup r.half))
  /\ UNCHANGED <<lastUsage, decided>>

CodexCompleted(k, known) == CodexFields(k) /\ RecordPopped(k, known)
MessageCompleted(k, known) == OpenCodeFields(k) /\ RecordPopped(k, known)

\* record_usage stored nothing: what the usage record had popped is gone.
UsageNotRecorded(k) ==
  /\ ClaudeFields(k) \/ CodexFields(k) \/ OpenCodeFields(k)
  /\ lostTools' = IF k \in Prompts THEN lostTools ELSE lostTools \cup New(Buffered(k))
  /\ UNCHANGED <<lastUsage, toolRows, toolCounter, sessionKnown, usageRows, decided,
                 uncounted>>

\* receive_logs drops what was not touched for ten minutes.
EvictTools(k) ==
  /\ toolBuffer' = [toolBuffer EXCEPT ![k] = <<>>]
  /\ lostTools' = lostTools \cup New(Buffered(k))
  /\ UNCHANGED <<lastUsage, codexState, promptLengths, toolRows, toolCounter,
                 sessionKnown, usageRows, decided, uncounted>>

EvictUsage(k) ==
  /\ k \in Prompts
  /\ lastUsage' = [lastUsage EXCEPT ![k] = 0]
  /\ UNCHANGED <<toolBuffer, codexState, promptLengths, toolRows, toolCounter,
                 sessionKnown, usageRows, decided, uncounted, lostTools>>

EvictState(k) ==
  /\ codexState' = codexState \ {k}
  /\ promptLengths' = [promptLengths EXCEPT ![k] = 0]
  /\ UNCHANGED <<toolBuffer, lastUsage, toolRows, toolCounter, sessionKnown,
                 usageRows, decided, uncounted, lostTools>>

\* The process restarts and forgets its buffers.
CollectorRestart ==
  /\ toolBuffer' = [k \in Keys |-> <<>>]
  /\ lastUsage' = [k \in Prompts |-> 0]
  /\ codexState' = {} /\ promptLengths' = [k \in Keys |-> 0]
  /\ lostTools' = lostTools \cup New(UNION {Buffered(k) : k \in Keys})
  /\ UNCHANGED <<toolRows, toolCounter, sessionKnown, usageRows, decided, uncounted>>

ToolNext ==
  \E k \in Keys :
    \/ UserPrompt(k) \/ CodexEvent(k)
    \/ \E t \in Tools :
         \/ \E at \in MomentsOf(k) : ToolDecision(k, t, at)
         \/ ToolResult(k, t) \/ ToolTime(k, t)
    \/ \E known \in BOOLEAN :
         \/ \E cut \in 1 .. MaxMoments + 1 : ApiRequest(k, cut, known)
         \/ CodexCompleted(k, known) \/ MessageCompleted(k, known)
    \/ UsageNotRecorded(k)
    \/ EvictTools(k) \/ EvictUsage(k) \/ EvictState(k)
    \/ CollectorRestart

ToolSpec == ToolInit /\ [][ToolNext]_toolVars

(* ---- properties ----------------------------------------------------------------- *)

\* The session counts each recorded tool once however often its pieces are
\* delivered, and misses only rows whose update failed after their insertion or
\* that came before the session (record_tool_call, upsert_session_from_tool_call).
ToolCountsFollowRows ==
  toolCounter + Cardinality(uncounted) = Cardinality({t \in Tools : toolRows[t] # NoTool})

\* A tool whose decision arrived is buffered or recorded until it is evicted, or
\* popped for a record that failed: no other record makes it disappear.
NoToolForgotten ==
  \A t \in Tools : decided[t] # NoTool =>
    \/ toolRows[t] # NoTool
    \/ t \in Buffered(decided[t].key) \cup lostTools

===============================================================================
