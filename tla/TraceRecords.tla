---------------------------- MODULE TraceRecords ----------------------------
(***************************************************************************)
(* What is kept of a governed execution, and what is read of it: the       *)
(* output passes the response allowlist and two sanitizers                 *)
(* (kernel/secrets.py, kernel/tracing.py, kernel/executor.py), the trace   *)
(* is written to the trace directory while other runs write theirs, and    *)
(* `ccp trace list`, `get` and `explain` read that directory.              *)
(*                                                                         *)
(* A JSON payload is the set of its leaves: where a leaf is, a sequence of *)
(* keys, and its value.  Positions in arrays are keys that contain no      *)
(* sensitive part, and an empty object or array is a value.  Of the second *)
(* event only what depends on the adapter or the secret backend is kept.   *)
(***************************************************************************)
EXTENDS Naturals, FiniteSets, Sequences

CONSTANTS
    Runs,           \* governed executions; a run's number is also its trace id
    Keys,           \* keys of JSON objects
    PartsOf,        \* for each key the words that its lower-case form contains
    SafeKeys,       \* the keys that are secretRefs, secretRefNames, secretRefCount
    Values,
    SecretValues,   \* the values that match a pattern of a secret
    Redacted,       \* the value "[redacted]"
    Plans,          \* what the plan and the command line say of a run's trace
    Answers,        \* what adapters return
    Reasons,        \* what secret backends say when they fail
    Strays,         \* the names of files that no run of these wrote
    StrayRecords,   \* the trace records among what they may contain
    Nothing, Torn, Other, Unreadable,   \* what may stand for a trace record
    MaxTime, MaxEdits

\* kernel/secrets.py and kernel/tracing.py each have a list.
\* Mutant: the first one without sessions.
PartsWithoutSession ==
    {"token", "secret", "password", "passphrase", "cookie", "authorization", "api_key",
     "apikey", "access_key", "encryption_key", "private_key", "client_secret"}

SecretKeyParts ==
    {"token", "secret", "password", "passphrase", "cookie", "authorization", "api_key",
     "apikey", "access_key", "encryption_key", "session", "private_key", "client_secret"}

TraceKeyParts ==
    {"token", "secret", "password", "cookie", "authorization", "api_key", "apikey",
     "access_key", "session"}

Leaf == [path : Seq(Keys), value : Values]

Payload == SUBSET Leaf

EventTypes == {"started", "finished", "failed"}

Event == [type : EventTypes, payload : Payload]

Statuses == {"ok", "error"}

\* A record that has not been stored has storedAt 0.
Record == [id : Runs \cup Strays, status : Statuses, events : Seq(Event), storedAt : Nat]

\* The allowlist is the plan's or, if it has none, the adapter's; about is what the first
\* event says.
Plan == [allow : SUBSET Keys, sanitize : BOOLEAN, kept : BOOLEAN, about : Payload]

ASSUME TraceAssumption ==
    /\ Runs \subseteq Nat
    /\ Strays \subseteq Nat \ Runs
    /\ PartsOf \in [Keys -> SUBSET STRING]
    /\ SafeKeys \subseteq Keys
    /\ {"output", "reason"} \subseteq Keys
    /\ PartsOf["output"] = {}
    /\ SecretValues \subseteq Values
    /\ Redacted \in Values \ SecretValues
    /\ Plans \subseteq Plan
    /\ \A a \in Answers : a.status \in Statuses /\ a.result \in Payload
    /\ \A a \in Answers : \A leaf \in a.result : leaf.path # <<>>
    /\ Reasons \subseteq Values
    /\ StrayRecords \subseteq Record
    /\ \A record \in StrayRecords : record.id \in Strays
    /\ {Nothing, Torn, Other, Unreadable} \cap (Record \cup {0}) = {}
    /\ Cardinality({Nothing, Torn, Other, Unreadable}) = 4
    /\ MaxTime \in Nat \ {0}
    /\ MaxEdits \in Nat

-----------------------------------------------------------------------------
(* What is kept of an answer.                                              *)

\* is_sensitive_key and _looks_sensitive, for either list.
Sensitive(parts) == {key \in Keys \ SafeKeys : PartsOf[key] \cap parts # {}}

\* The i-th key of the path is the first that is sensitive.
FirstAt(path, keys, i) ==
    /\ i \in DOMAIN path
    /\ path[i] \in keys
    /\ \A j \in 1 .. i - 1 : path[j] \notin keys

\* Mutant: the keys of the outermost object only.
OutermostOnly(leaf, keys, values) ==
    {[leaf EXCEPT !.value = IF leaf.path[1] \in keys \/ leaf.value \in values
                            THEN Redacted ELSE leaf.value]}

\* What a leaf becomes: what stands under a sensitive key is replaced as a whole.
Shown(leaf, keys, values) ==
    IF \A i \in DOMAIN leaf.path : leaf.path[i] \notin keys
    THEN {[path |-> leaf.path, value |-> IF leaf.value \in values THEN Redacted ELSE leaf.value]}
    ELSE {[path |-> SubSeq(leaf.path, 1, i), value |-> Redacted] :
             i \in {j \in DOMAIN leaf.path : FirstAt(leaf.path, keys, j)}}

Sanitized(payload, keys, values) == UNION {Shown(leaf, keys, values) : leaf \in payload}

SanitizeSecret(payload) == Sanitized(payload, Sensitive(SecretKeyParts), SecretValues)

SanitizeTrace(payload) == Sanitized(payload, Sensitive(TraceKeyParts), {})

Allowlisted(payload, allow) ==
    IF allow = {} THEN payload ELSE {leaf \in payload : leaf.path[1] \in allow}

OutputOf(plan, result) ==
    LET output == SanitizeSecret(Allowlisted(result, plan.allow))
    IN  IF plan.sanitize THEN SanitizeTrace(output) ELSE output

\* A payload as the value of a key.
Under(key, payload) ==
    {[path |-> <<key>> \o leaf.path, value |-> leaf.value] : leaf \in payload}

\* TraceRecord.to_dict
ToDict(record) ==
    [record EXCEPT !.events =
        [i \in DOMAIN record.events |->
            [record.events[i] EXCEPT !.payload = SanitizeTrace(record.events[i].payload)]]]

-----------------------------------------------------------------------------
VARIABLES
    now,            \* the clock, in the seconds of storedAt
    edits,          \* how often somebody else has changed the directory
    files,          \* the trace directory
    pc,             \* where each run is
    work,           \* what each run holds: the output, the trace, whether to keep it
    reports,        \* what each run has printed
    listing,        \* the `ccp trace list` that is reading the directory
    answer          \* what the last `ccp trace` command has printed

runs   == <<pc, work, reports>>
reader == <<listing, answer>>
vars   == <<now, edits, files, runs, reader>>

Names == Runs \cup Strays

File == Record \cup {Nothing, Torn, Other, Unreadable}

Work == [output : Payload, trace : Record, kept : BOOLEAN]

Labels == {"ready", "answered", "stamped", "opened", "kept", "unprinted", "done", "crashed"}

\* Where the trace of a run, if it is to be kept, is complete.
Saved == {"kept", "unprinted", "done"}

NoListing == [on |-> FALSE, todo |-> {}, found |-> {}, owed |-> {}]

TypeOK ==
    /\ now \in 1 .. MaxTime
    /\ edits \in 0 .. MaxEdits
    /\ files \in [Names -> File]
    /\ \A r \in Runs : files[r] \in Record => files[r].id = r /\ files[r].storedAt \in 1 .. now
    /\ pc \in [Runs -> Labels]
    /\ work \in [Runs -> Work \cup {Nothing}]
    /\ reports \in [Runs -> [output : Payload, trace : Record] \cup {Nothing}]
    /\ listing \in [on : BOOLEAN, todo : SUBSET Names, found : SUBSET Record,
                    owed : SUBSET Runs]
    /\ answer.op \in {"none", "list", "get", "explain", "error", "raised"}

Init ==
    /\ now = 1
    /\ edits = 0
    /\ files = [n \in Names |-> Nothing]
    /\ pc = [r \in Runs |-> "ready"]
    /\ work = [r \in Runs |-> Nothing]
    /\ reports = [r \in Runs |-> Nothing]
    /\ listing = NoListing
    /\ answer = [op |-> "none"]

Goto(r, label) == pc' = [pc EXCEPT ![r] = label]

Tick ==
    /\ now < MaxTime
    /\ now' = now + 1
    /\ UNCHANGED <<edits, files, runs, reader>>

-----------------------------------------------------------------------------
(* A run, once its plan is made.                                           *)

\* The trace of a run: that it started, and how it ended.
TraceOf(r, status, plan, last, payload) ==
    [id |-> r, status |-> status, storedAt |-> 0,
     events |-> <<[type |-> "started", payload |-> plan.about],
                  [type |-> last, payload |-> payload]>>]

\* The adapter returns.
Finish(r) ==
    /\ pc[r] = "ready"
    /\ \E plan \in Plans, a \in Answers :
         LET output == OutputOf(plan, a.result)
         IN  work' = [work EXCEPT ![r] =
                        [output |-> output, kept |-> plan.kept,
                         trace  |-> TraceOf(r, a.status, plan, "finished",
                                            Under("output", output))]]
    /\ Goto(r, "answered")
    /\ UNCHANGED <<now, edits, files, reports, reader>>

\* The secrets cannot be resolved.
Fail(r) ==
    /\ pc[r] = "ready"
    /\ \E plan \in Plans, reason \in Reasons :
         work' = [work EXCEPT ![r] =
                    [output |-> {}, kept |-> plan.kept,
                     trace  |-> TraceOf(r, "error", plan, "failed",
                                        {[path |-> <<"reason">>, value |-> reason]})]]
    /\ Goto(r, "answered")
    /\ UNCHANGED <<now, edits, files, reports, reader>>

\* The result goes out with the trace that was made, not with the one that was stored.
Report(r) ==
    /\ reports' = [reports EXCEPT ![r] =
                     [output |-> work[r].output, trace |-> ToDict([work[r].trace
                                                             EXCEPT !.storedAt = 0])]]
    /\ Goto(r, "done")

ReportUnkept(r) ==
    /\ pc[r] = "answered"
    /\ ~work[r].kept
    /\ Report(r)
    /\ UNCHANGED <<now, edits, files, work, reader>>

\* Mutant: the file is written from the record that was passed in.
StampNothing(r) == work' = work

StampRecord(r) == work' = [work EXCEPT ![r].trace.storedAt = now]

\* save_trace_record builds the record to store,
Stamp(r) ==
    /\ pc[r] = "answered"
    /\ work[r].kept
    /\ StampRecord(r)
    /\ Goto(r, "stamped")
    /\ UNCHANGED <<now, edits, files, reports, reader>>

\* opens the file, which empties it,
Open(r) ==
    /\ pc[r] = "stamped"
    /\ files' = [files EXCEPT ![r] = Torn]
    /\ Goto(r, "opened")
    /\ UNCHANGED <<now, edits, work, reports, reader>>

\* and fills it.
Write(r) ==
    /\ pc[r] = "opened"
    /\ files' = [files EXCEPT ![r] = ToDict(work[r].trace)]
    /\ Goto(r, "kept")
    /\ UNCHANGED <<now, edits, work, reports, reader>>

ReportStored(r) ==
    /\ pc[r] = "kept"
    /\ Report(r)
    /\ UNCHANGED <<now, edits, files, work, reader>>

\* The process is killed, or the file system refuses and nothing catches it.
Stop(r) ==
    /\ \/ pc[r] \in {"ready", "answered", "stamped", "opened"} /\ Goto(r, "crashed")
       \/ pc[r] = "kept" /\ Goto(r, "unprinted")
    /\ UNCHANGED <<now, edits, files, work, reports, reader>>

-----------------------------------------------------------------------------
(* The directory is anybody's.                                             *)

PutStray(n) ==
    /\ edits < MaxEdits
    /\ edits' = edits + 1
    /\ \E content \in {record \in StrayRecords : record.id = n} \cup {Torn, Other, Unreadable} :
         files' = [files EXCEPT ![n] = content]
    /\ UNCHANGED <<now, runs, reader>>

Remove(n) ==
    /\ edits < MaxEdits
    /\ files[n] # Nothing
    /\ n \in Runs => pc[n] # "opened"
    /\ edits' = edits + 1
    /\ files' = [files EXCEPT ![n] = Nothing]
    /\ listing' = [listing EXCEPT !.owed = @ \ {n}]
    /\ UNCHANGED <<now, runs, answer>>

-----------------------------------------------------------------------------
(* `ccp trace`.                                                            *)

\* load_trace_record_file: the record, or whether the failure is a TraceLoadError.
Loads(n)  == files[n] \in Record
Raises(n) == files[n] = Unreadable
Refuses(n) == files[n] \in {Nothing, Torn, Other}

RedactedCount(record) ==
    Cardinality({place \in UNION {{i} \X record.events[i].payload : i \in DOMAIN record.events} :
                    place[2].value = Redacted})

\* One file, as it is when it is read.
GetOrExplain(n) ==
    /\ ~listing.on
    /\ \/ Loads(n) /\ answer' = [op |-> "get", trace |-> ToDict(files[n])]
       \/ Loads(n) /\ answer' = [op |-> "explain", redacted |-> RedactedCount(files[n]),
                                 id |-> files[n].id,
                                 final |-> LET events == ToDict(files[n]).events
                                           IN  IF events = <<>> THEN Nothing
                                               ELSE events[Len(events)]]
       \/ Refuses(n) /\ answer' = [op |-> "error"]
       \/ Raises(n) /\ answer' = [op |-> "raised"]
    /\ UNCHANGED <<now, edits, files, runs, listing>>

StartList ==
    /\ ~listing.on
    /\ listing' = [on |-> TRUE, todo |-> {n \in Names : files[n] # Nothing}, found |-> {},
                   owed |-> {r \in Runs : Loads(r)}]
    /\ answer' = [op |-> "none"]
    /\ UNCHANGED <<now, edits, files, runs>>

IsNext(n) == n \in listing.todo /\ \A m \in listing.todo : n <= m

\* Mutant: the first file that is no trace record ends the list.
EndAtRefused(n) ==
    /\ Loads(n) \/ Refuses(n)
    /\ listing' = IF Loads(n)
                  THEN [listing EXCEPT !.todo = @ \ {n}, !.found = @ \cup {files[n]}]
                  ELSE [listing EXCEPT !.todo = {}]

LoadOrSkip(n) ==
    /\ Loads(n) \/ Refuses(n)
    /\ listing' = [listing EXCEPT !.todo = @ \ {n},
                                  !.found = IF Loads(n) THEN @ \cup {files[n]} ELSE @]

ReadNext(n) ==
    /\ listing.on
    /\ IsNext(n)
    /\ LoadOrSkip(n)
    /\ UNCHANGED <<now, edits, files, runs, answer>>

\* Only a TraceLoadError is caught.
ReadRaises(n) ==
    /\ listing.on
    /\ IsNext(n)
    /\ Raises(n)
    /\ listing' = NoListing
    /\ answer' = [op |-> "raised"]
    /\ UNCHANGED <<now, edits, files, runs>>

Newer(a, b) == a.storedAt > b.storedAt \/ (a.storedAt = b.storedAt /\ a.id > b.id)

NewestFirst(records) ==
    CHOOSE s \in [1 .. Cardinality(records) -> records] :
        \A i, j \in DOMAIN s : i < j => Newer(s[i], s[j])

\* summarize_trace_record
Summary(record) ==
    [id |-> record.id, status |-> record.status, storedAt |-> record.storedAt,
     types |-> [i \in DOMAIN record.events |-> record.events[i].type]]

EndList ==
    /\ listing.on
    /\ listing.todo = {}
    /\ LET sorted == NewestFirst(listing.found)
       IN  answer' = [op |-> "list", owed |-> listing.owed,
                      traces |-> [i \in DOMAIN sorted |-> Summary(sorted[i])]]
    /\ listing' = NoListing
    /\ UNCHANGED <<now, edits, files, runs>>

-----------------------------------------------------------------------------
Run(r) == Finish(r) \/ Fail(r) \/ ReportUnkept(r) \/ Stamp(r) \/ Open(r)
          \/ Write(r) \/ ReportStored(r)

Trace(n) == GetOrExplain(n) \/ ReadNext(n) \/ ReadRaises(n)

Next ==
    \/ Tick
    \/ \E r \in Runs : Run(r) \/ Stop(r)
    \/ \E n \in Strays : PutStray(n)
    \/ \E n \in Names : Remove(n) \/ Trace(n)
    \/ StartList
    \/ EndList

Spec == Init /\ [][Next]_vars

-----------------------------------------------------------------------------
(* Properties.                                                             *)

Clean(payload, keys, values) ==
    \A leaf \in payload :
        /\ \A i \in DOMAIN leaf.path :
             leaf.path[i] \in keys => i = Len(leaf.path) /\ leaf.value = Redacted
        /\ leaf.value \notin values

CleanEvent(event) ==
    /\ Clean(event.payload, Sensitive(TraceKeyParts), {})
    /\ event.type = "finished" =>
         Clean(event.payload, Sensitive(SecretKeyParts), SecretValues)

CleanRecord(record) == \A i \in DOMAIN record.events : CleanEvent(record.events[i])

\* README.md: traces are records "with sanitized output".  However an adapter nests its
\* answer, whatever the allowlist lets through and whether or not the plan asks for
\* sanitizing, what a run prints and what it stores of the output holds nothing under a
\* key that either list calls sensitive and no value that looks like a secret; the rest
\* of an event holds nothing under a key that the trace list calls sensitive.  `trace
\* get` shows not even a stray record's values under such a key.
NothingSecretIsKept ==
    /\ \A r \in Runs : files[r] \in Record => CleanRecord(files[r])
    /\ \A r \in Runs : reports[r] # Nothing =>
         /\ Clean(reports[r].output, Sensitive(SecretKeyParts), SecretValues)
         /\ CleanRecord(reports[r].trace)
    /\ answer.op = "get" =>
         \A i \in DOMAIN answer.trace.events :
            Clean(answer.trace.events[i].payload, Sensitive(TraceKeyParts), {})

\* Redaction is decided once: the trace that a run has printed, the one in its file and the
\* one that `trace get` shows differ in the time of storing only, although the events are
\* sanitized again for each, and its finished event holds the output the run prints.
WhatIsReturnedIsKept ==
    /\ \A r \in Runs : reports[r] # Nothing =>
         /\ \A i \in DOMAIN reports[r].trace.events :
              reports[r].trace.events[i].type = "finished" =>
                reports[r].trace.events[i].payload = Under("output", reports[r].output)
         /\ files[r] \in Record => [files[r] EXCEPT !.storedAt = 0] = reports[r].trace
    /\ answer.op = "get" /\ answer.trace.id \in Runs /\ reports[answer.trace.id] # Nothing =>
         [answer.trace EXCEPT !.storedAt = 0] = reports[answer.trace.id].trace

\* A list that ends has every trace that was complete when it began and has not been
\* removed, however many files beside it are torn, stray or being written; it has none
\* of a run that has not finished saving; the newest comes first, and none comes twice.
ListMissesNothing ==
    answer.op = "list" =>
        /\ \A r \in answer.owed : \E i \in DOMAIN answer.traces : answer.traces[i].id = r
        /\ \A i \in DOMAIN answer.traces :
             answer.traces[i].id \in Runs => pc[answer.traces[i].id] \in Saved
        /\ \A i, j \in DOMAIN answer.traces :
             i < j => Newer(answer.traces[i], answer.traces[j])
=============================================================================
