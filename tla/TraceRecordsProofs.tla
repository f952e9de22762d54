------------------------- MODULE TraceRecordsProofs -------------------------
(***************************************************************************)
(* For every payload, both lists of keys, any number of runs and stray     *)
(* files: what is kept is sanitized, and sanitizing it again for another   *)
(* copy changes nothing.                                                   *)
(***************************************************************************)
EXTENDS TraceRecords, SequenceTheorems, FiniteSetTheorems, TLAPS

-----------------------------------------------------------------------------
(* The sanitizers.                                                         *)

\* The beginning of a path is a path.
LEMMA Beginning ==
    ASSUME NEW path \in Seq(Keys), NEW i \in DOMAIN path
    PROVE  /\ SubSeq(path, 1, i) \in Seq(Keys)
           /\ Len(SubSeq(path, 1, i)) = i
           /\ DOMAIN SubSeq(path, 1, i) = 1 .. i
           /\ \A j \in 1 .. i : SubSeq(path, 1, i)[j] = path[j]
<1>1. i \in 1 .. Len(path) /\ Len(path) \in Nat
  OBVIOUS
<1>2. \A j \in 1 .. i : path[j] \in Keys
  BY <1>1
<1>3. i \in Int /\ 1 \in Int
  BY <1>1
<1>4. /\ SubSeq(path, 1, i) \in Seq(Keys)
      /\ Len(SubSeq(path, 1, i)) = IF 1 <= i THEN i - 1 + 1 ELSE 0
      /\ \A j \in 1 .. i - 1 + 1 : SubSeq(path, 1, i)[j] = path[1 + j - 1]
  BY <1>2, <1>3, SubSeqProperties
<1>. QED  BY <1>1, <1>4

\* One sanitizing is clean.
LEMMA SanitizedIsClean ==
    ASSUME NEW payload \in Payload, NEW keys \in SUBSET Keys, NEW values \in SUBSET Values,
           Redacted \notin values
    PROVE  Clean(Sanitized(payload, keys, values), keys, values)
<1> SUFFICES ASSUME NEW leaf \in payload, NEW shown \in Shown(leaf, keys, values)
             PROVE  /\ \A i \in DOMAIN shown.path :
                         shown.path[i] \in keys => i = Len(shown.path) /\ shown.value = Redacted
                    /\ shown.value \notin values
  BY DEF Clean, Sanitized
<1>1. leaf.path \in Seq(Keys)
  BY DEF Payload, Leaf
<1>2. CASE \A i \in DOMAIN leaf.path : leaf.path[i] \notin keys
  <2>1. shown = [path |-> leaf.path, value |-> IF leaf.value \in values THEN Redacted ELSE leaf.value]
    BY <1>2 DEF Shown
  <2>. QED  BY <1>2, <2>1
<1>3. CASE ~ \A i \in DOMAIN leaf.path : leaf.path[i] \notin keys
  <2>1. PICK i \in DOMAIN leaf.path : /\ FirstAt(leaf.path, keys, i)
                                      /\ shown = [path |-> SubSeq(leaf.path, 1, i), value |-> Redacted]
    BY <1>3 DEF Shown
  <2>2. /\ Len(shown.path) = i
        /\ DOMAIN shown.path = 1 .. i
        /\ \A j \in 1 .. i : shown.path[j] = leaf.path[j]
    BY <1>1, <2>1, Beginning
  <2>3. \A j \in 1 .. i : leaf.path[j] \in keys => j = i
    BY <1>1, <2>1 DEF FirstAt
  <2>. QED  BY <2>1, <2>2, <2>3
<1>. QED  BY <1>2, <1>3

\* Sanitizing keeps a payload a payload.
LEMMA SanitizedIsPayload ==
    ASSUME NEW payload \in Payload, NEW keys \in SUBSET Keys, NEW values \in SUBSET Values,
           Redacted \in Values
    PROVE  Sanitized(payload, keys, values) \in Payload
<1> SUFFICES ASSUME NEW leaf \in payload, NEW shown \in Shown(leaf, keys, values)
             PROVE  shown \in Leaf
  BY DEF Sanitized, Payload
<1>1. leaf.path \in Seq(Keys) /\ leaf.value \in Values
  BY DEF Payload, Leaf
<1>2. CASE \A i \in DOMAIN leaf.path : leaf.path[i] \notin keys
  BY <1>1, <1>2 DEF Shown, Leaf
<1>3. CASE ~ \A i \in DOMAIN leaf.path : leaf.path[i] \notin keys
  <2>1. PICK i \in DOMAIN leaf.path : shown = [path |-> SubSeq(leaf.path, 1, i), value |-> Redacted]
    BY <1>3 DEF Shown
  <2>. QED  BY <1>1, <2>1, Beginning DEF Leaf
<1>. QED  BY <1>2, <1>3

\* What is clean is not changed by a sanitizer that looks at no more keys.
LEMMA CleanStays ==
    ASSUME NEW payload \in Payload, NEW keys \in SUBSET Keys, NEW values,
           NEW few \in SUBSET keys, Clean(payload, keys, values)
    PROVE  Sanitized(payload, few, {}) = payload
<1> SUFFICES ASSUME NEW leaf \in payload
             PROVE  Shown(leaf, few, {}) = {leaf}
  BY DEF Sanitized
<1>1. /\ leaf \in Leaf
      /\ leaf.path \in Seq(Keys)
      /\ leaf = [path |-> leaf.path, value |-> leaf.value]
  BY DEF Payload, Leaf
<1>2. \A i \in DOMAIN leaf.path : leaf.path[i] \in few => i = Len(leaf.path) /\ leaf.value = Redacted
  BY DEF Clean
<1>3. CASE \A i \in DOMAIN leaf.path : leaf.path[i] \notin few
  BY <1>1, <1>3 DEF Shown
<1>4. CASE ~ \A i \in DOMAIN leaf.path : leaf.path[i] \notin few
  <2>1. PICK i \in DOMAIN leaf.path : leaf.path[i] \in few
    BY <1>4
  <2>2. i = Len(leaf.path) /\ leaf.value = Redacted /\ i \in Nat /\ i > 0
    BY <1>1, <1>2, <2>1
  <2>3. {j \in DOMAIN leaf.path : FirstAt(leaf.path, few, j)} = {i}
    <3>1. FirstAt(leaf.path, few, i)
      BY <1>1, <1>2, <2>1, <2>2 DEF FirstAt
    <3>2. \A j \in DOMAIN leaf.path : FirstAt(leaf.path, few, j) => j = i
      BY <1>2, <2>2 DEF FirstAt
    <3>. QED  BY <3>1, <3>2
  <2>4. SubSeq(leaf.path, 1, i) = leaf.path
    BY <1>1, <2>2, SubSeqFull
  <2>. QED  BY <1>1, <1>4, <2>2, <2>3, <2>4 DEF Shown
<1>. QED  BY <1>3, <1>4

\* The list of the traces is part of the list of the secrets.
LEMMA TraceKeysAreSecretKeys ==
    /\ Sensitive(TraceKeyParts) \subseteq Sensitive(SecretKeyParts)
    /\ Sensitive(SecretKeyParts) \subseteq Keys
    /\ "output" \in Keys \ Sensitive(SecretKeyParts)
<1>1. TraceKeyParts \subseteq SecretKeyParts
  BY DEF TraceKeyParts, SecretKeyParts
<1>2. PartsOf["output"] \cap SecretKeyParts = {}
  BY TraceAssumption
<1>. QED  BY <1>1, <1>2, TraceAssumption DEF Sensitive

\* A payload stays clean when it becomes the output of an event.
LEMMA OutputOfCleanIsClean ==
    ASSUME NEW payload \in Payload, NEW keys \in SUBSET Keys, NEW values,
           Clean(payload, keys, values), "output" \in Keys \ keys
    PROVE  Under("output", payload) \in Payload /\ Clean(Under("output", payload), keys, values)
<1> SUFFICES ASSUME NEW leaf \in payload,
                    NEW path, path = <<"output">> \o leaf.path
             PROVE  /\ [path |-> path, value |-> leaf.value] \in Leaf
                    /\ \A i \in DOMAIN path :
                         path[i] \in keys => i = Len(path) /\ leaf.value = Redacted
                    /\ leaf.value \notin values
  BY DEF Clean, Under, Payload
<1>1. leaf.path \in Seq(Keys) /\ leaf.value \in Values
  BY DEF Payload, Leaf
<1>2. <<"output">> \in Seq(Keys) /\ Len(<<"output">>) = 1 /\ <<"output">>[1] = "output"
  OBVIOUS
<1>3. /\ path \in Seq(Keys)
      /\ Len(path) = 1 + Len(leaf.path)
      /\ \A i \in 1 .. 1 + Len(leaf.path) :
           path[i] = IF i <= 1 THEN <<"output">>[i] ELSE leaf.path[i - 1]
  BY <1>1, <1>2, ConcatProperties
<1>4. ASSUME NEW i \in DOMAIN path, path[i] \in keys
      PROVE  i = Len(path) /\ leaf.value = Redacted
  <2>1. i \in 1 .. Len(path) /\ Len(leaf.path) \in Nat
    BY <1>1, <1>3
  <2>2. i # 1
    BY <1>2, <1>3, <1>4, <2>1
  <2>3. i - 1 \in DOMAIN leaf.path /\ leaf.path[i - 1] \in keys
    BY <1>1, <1>3, <1>4, <2>1, <2>2
  <2>4. i - 1 = Len(leaf.path) /\ leaf.value = Redacted
    BY <2>3 DEF Clean
  <2>. QED  BY <1>3, <2>1, <2>4
<1>5. leaf.value \notin values
  BY DEF Clean
<1>. QED  BY <1>1, <1>3, <1>4, <1>5 DEF Leaf

\* Whatever the plan says, the output of a run is clean of what both lists name.
LEMMA OutputIsClean ==
    ASSUME NEW plan \in Plan, NEW result \in Payload
    PROVE  /\ OutputOf(plan, result) \in Payload
           /\ Clean(OutputOf(plan, result), Sensitive(SecretKeyParts), SecretValues)
<1> DEFINE allowed == Allowlisted(result, plan.allow)
           output == SanitizeSecret(allowed)
<1>1. allowed \in Payload
  BY DEF Allowlisted, Payload
<1>2. /\ output \in Payload
      /\ Clean(output, Sensitive(SecretKeyParts), SecretValues)
  BY <1>1, TraceKeysAreSecretKeys, TraceAssumption, SanitizedIsPayload, SanitizedIsClean
     DEF SanitizeSecret
<1>3. SanitizeTrace(output) = output
  BY <1>2, TraceKeysAreSecretKeys, CleanStays DEF SanitizeTrace
<1>. QED  BY <1>2, <1>3 DEF OutputOf

\* Sanitizing once more changes nothing: neither of a finished event nor of any copy.
THEOREM SanitizingOnceIsEnough ==
    /\ \A plan \in Plan, result \in Payload :
         SanitizeTrace(Under("output", OutputOf(plan, result)))
             = Under("output", OutputOf(plan, result))
    /\ \A payload \in Payload : SanitizeTrace(SanitizeTrace(payload)) = SanitizeTrace(payload)
<1>1. ASSUME NEW plan \in Plan, NEW result \in Payload
      PROVE  SanitizeTrace(Under("output", OutputOf(plan, result)))
                 = Under("output", OutputOf(plan, result))
  <2>1. /\ Under("output", OutputOf(plan, result)) \in Payload
        /\ Clean(Under("output", OutputOf(plan, result)), Sensitive(SecretKeyParts), SecretValues)
    BY OutputIsClean, OutputOfCleanIsClean, TraceKeysAreSecretKeys
  <2>. QED  BY <2>1, CleanStays, TraceKeysAreSecretKeys DEF SanitizeTrace
<1>2. ASSUME NEW payload \in Payload
      PROVE  SanitizeTrace(SanitizeTrace(payload)) = SanitizeTrace(payload)
  <2>1. /\ SanitizeTrace(payload) \in Payload
        /\ Clean(SanitizeTrace(payload), Sensitive(TraceKeyParts), {})
    BY TraceKeysAreSecretKeys, TraceAssumption, SanitizedIsPayload, SanitizedIsClean
       DEF SanitizeTrace
  <2>. QED  BY <2>1, CleanStays, TraceKeysAreSecretKeys DEF SanitizeTrace
<1>. QED  BY <1>1, <1>2

-----------------------------------------------------------------------------
(* The record of a trace.                                                  *)

\* What is read of a record as it is shown.
LEMMA DictParts ==
    ASSUME NEW record \in Record
    PROVE  /\ ToDict(record) \in Record
           /\ ToDict(record).id = record.id
           /\ ToDict(record).status = record.status
           /\ ToDict(record).storedAt = record.storedAt
           /\ DOMAIN ToDict(record).events = DOMAIN record.events
           /\ \A i \in DOMAIN record.events :
                /\ ToDict(record).events[i].type = record.events[i].type
                /\ ToDict(record).events[i].payload = SanitizeTrace(record.events[i].payload)
                /\ record.events[i].payload \in Payload
<1> DEFINE shown == [i \in DOMAIN record.events |->
                        [record.events[i] EXCEPT !.payload = SanitizeTrace(record.events[i].payload)]]
<1>1. record.events \in Seq(Event)
  BY DEF Record
<1>2. \A i \in DOMAIN record.events : record.events[i] \in Event
  BY <1>1
<1>3. \A i \in DOMAIN record.events : shown[i] \in Event
  <2> SUFFICES ASSUME NEW i \in DOMAIN record.events
               PROVE  shown[i] \in Event
    OBVIOUS
  <2>1. record.events[i].payload \in Payload
    BY <1>2 DEF Event
  <2>2. SanitizeTrace(record.events[i].payload) \in Payload
    BY <2>1, TraceKeysAreSecretKeys, TraceAssumption, SanitizedIsPayload DEF SanitizeTrace
  <2>. QED  BY <1>2, <2>2 DEF Event
<1>4. shown \in Seq(Event)
  <2>1. DOMAIN shown = 1 .. Len(record.events) /\ Len(record.events) \in Nat
    BY <1>1
  <2>2. shown \in [1 .. Len(record.events) -> Event]
    BY <1>3, <2>1
  <2>. HIDE DEF shown
  <2>. QED  BY <2>1, <2>2
<1>5. ToDict(record) = [record EXCEPT !.events = shown]
  BY DEF ToDict
<1>6. \A i \in DOMAIN record.events :
        /\ shown[i].type = record.events[i].type
        /\ shown[i].payload = SanitizeTrace(record.events[i].payload)
        /\ record.events[i].payload \in Payload
  BY <1>2 DEF Event
<1>7. DOMAIN shown = DOMAIN record.events
  OBVIOUS
<1>. HIDE DEF shown
<1>. QED  BY <1>4, <1>5, <1>6, <1>7 DEF Record

\* Two events, and two records, are equal if their parts are.
LEMMA SameRecord ==
    ASSUME NEW a \in Record, NEW b \in Record,
           a.id = b.id, a.status = b.status, a.storedAt = b.storedAt,
           DOMAIN a.events = DOMAIN b.events,
           \A i \in DOMAIN a.events : /\ a.events[i].type = b.events[i].type
                                      /\ a.events[i].payload = b.events[i].payload
    PROVE  a = b
<1>1. a.events \in Seq(Event) /\ b.events \in Seq(Event)
  BY DEF Record
<1>2. \A i \in DOMAIN a.events : a.events[i] = b.events[i]
  <2>1. \A e \in Event : e = [type |-> e.type, payload |-> e.payload]
    BY DEF Event
  <2>2. \A i \in DOMAIN a.events : a.events[i] \in Event /\ b.events[i] \in Event
    BY <1>1
  <2>. QED  BY <2>1, <2>2
<1>3. a.events = b.events
  BY <1>1, <1>2
<1>. QED  BY <1>3 DEF Record

\* A record that has been shown is shown as it is.
LEMMA DictOfDict ==
    ASSUME NEW record \in Record
    PROVE  ToDict(ToDict(record)) = ToDict(record)
<1> DEFINE once  == ToDict(record)
           twice == ToDict(once)
<1>1. once \in Record
  BY DictParts
<1>. HIDE DEF once
<1>2. /\ twice \in Record
      /\ twice.id = once.id /\ twice.status = once.status /\ twice.storedAt = once.storedAt
      /\ DOMAIN twice.events = DOMAIN once.events
      /\ \A i \in DOMAIN once.events :
           /\ twice.events[i].type = once.events[i].type
           /\ twice.events[i].payload = SanitizeTrace(once.events[i].payload)
  BY <1>1, DictParts
<1>3. \A i \in DOMAIN once.events :
        SanitizeTrace(once.events[i].payload) = once.events[i].payload
  BY DictParts, SanitizingOnceIsEnough DEF once
<1>. HIDE DEF twice
<1>4. twice = once
  BY <1>1, <1>2, <1>3, SameRecord
<1>. QED  BY <1>4 DEF once, twice

\* The time of storing and what is shown of the events do not depend on each other.
LEMMA DictOfStored ==
    ASSUME NEW record \in Record, NEW time \in Nat
    PROVE  /\ [record EXCEPT !.storedAt = time] \in Record
           /\ ToDict([record EXCEPT !.storedAt = time]) = [ToDict(record) EXCEPT !.storedAt = time]
  BY DEF ToDict, Record

\* What is kept of a record whose finished event holds a clean output.
LEMMA DictIsClean ==
    ASSUME NEW record \in Record, NEW output \in Payload,
           Clean(output, Sensitive(SecretKeyParts), SecretValues),
           \A i \in DOMAIN record.events :
              record.events[i].type = "finished" =>
                  record.events[i].payload = Under("output", output)
    PROVE  /\ CleanRecord(ToDict(record))
           /\ \A i \in DOMAIN ToDict(record).events :
                ToDict(record).events[i].type = "finished" =>
                    ToDict(record).events[i].payload = Under("output", output)
<1>1. /\ Under("output", output) \in Payload
      /\ Clean(Under("output", output), Sensitive(SecretKeyParts), SecretValues)
  BY OutputOfCleanIsClean, TraceKeysAreSecretKeys
<1>2. SanitizeTrace(Under("output", output)) = Under("output", output)
  BY <1>1, CleanStays, TraceKeysAreSecretKeys DEF SanitizeTrace
<1>3. \A payload \in Payload : Clean(SanitizeTrace(payload), Sensitive(TraceKeyParts), {})
  BY TraceKeysAreSecretKeys, TraceAssumption, SanitizedIsClean DEF SanitizeTrace
<1>. QED  BY <1>1, <1>2, <1>3, DictParts DEF CleanRecord, CleanEvent

-----------------------------------------------------------------------------
(* The invariant.                                                          *)

\* The finished event of a trace, if there is one, holds the output.
Tells(trace, output) ==
    \A i \in DOMAIN trace.events :
        trace.events[i].type = "finished" => trace.events[i].payload = Under("output", output)

\* What a run holds once it has an answer.
Made(r) ==
    /\ work[r] \in Work
    /\ Clean(work[r].output, Sensitive(SecretKeyParts), SecretValues)
    /\ work[r].trace.id = r
    /\ Tells(work[r].trace, work[r].output)

\* Where a run holds an answer.
Holding == {"answered", "stamped", "opened"} \cup Saved

USE DEF Labels, Saved, Holding

Unstored(record) == [record EXCEPT !.storedAt = 0]

\* A run prints what it holds, and nobody prints before the end.
Printed(r) ==
    /\ pc[r] = "done" =>
         reports[r] = [output |-> work[r].output, trace |-> ToDict(Unstored(work[r].trace))]
    /\ reports[r] # Nothing => pc[r] = "done"

\* A trace is read only from a run that has saved it.
Stored(r) == files[r] \in Record => pc[r] \in Saved /\ files[r] = ToDict(work[r].trace)

\* What `trace get` has shown does not change any more.
Answered ==
    answer.op = "get" =>
        /\ answer.trace \in Record
        /\ answer.trace = ToDict(answer.trace)
        /\ answer.trace.id \in Runs =>
             /\ pc[answer.trace.id] \in Saved
             /\ Unstored(answer.trace) = ToDict(Unstored(work[answer.trace.id].trace))

Shapes ==
    /\ pc \in [Runs -> Labels]
    /\ work = [r \in Runs |-> work[r]]
    /\ reports = [r \in Runs |-> reports[r]]
    /\ files = [n \in Names |-> files[n]]
    /\ now \in Nat

KeptInv ==
    /\ Shapes
    /\ \A r \in Runs : pc[r] \in Holding => Made(r)
    /\ \A r \in Runs : Printed(r)
    /\ \A r \in Runs : Stored(r)
    /\ \A n \in Strays : files[n] \in Record => files[n].id = n
    /\ Answered

\* What stands for a trace record is none.
LEMMA NoRecords ==
    /\ Nothing \notin Record
    /\ Torn \notin Record
    /\ Other \notin Record
    /\ Unreadable \notin Record
  BY TraceAssumption

LEMMA InitKept ==
    ASSUME Init
    PROVE  KeptInv
<1>1. Shapes /\ Answered
  BY DEF Init, Shapes, Answered, Names
<1>2. \A r \in Runs : pc[r] = "ready" /\ reports[r] = Nothing
  BY DEF Init
<1>3. \A n \in Names : files[n] = Nothing
  BY DEF Init
<1>. QED  BY <1>1, <1>2, <1>3, NoRecords DEF KeptInv, Printed, Stored, Names

LEMMA TraceOfTells ==
    ASSUME NEW r \in Runs, NEW status \in Statuses, NEW plan \in Plan,
           NEW last \in {"finished", "failed"}, NEW payload \in Payload, NEW output,
           last = "finished" => payload = Under("output", output)
    PROVE  /\ TraceOf(r, status, plan, last, payload) \in Record
           /\ TraceOf(r, status, plan, last, payload).id = r
           /\ Tells(TraceOf(r, status, plan, last, payload), output)
<1> DEFINE started == [type |-> "started", payload |-> plan.about]
           ended   == [type |-> last, payload |-> payload]
           events  == <<started, ended>>
<1>1. started \in Event /\ ended \in Event
  BY DEF Event, EventTypes, Plan
<1>2. events \in Seq(Event)
  BY <1>1
<1>3. DOMAIN events = {1, 2} /\ events[1] = started /\ events[2] = ended
  OBVIOUS
<1>4. \A i \in DOMAIN events :
        events[i].type = "finished" => events[i].payload = Under("output", output)
  BY <1>3
<1>. HIDE DEF events
<1>5. TraceOf(r, status, plan, last, payload)
        = [id |-> r, status |-> status, storedAt |-> 0, events |-> events]
  BY DEF TraceOf, events
<1>. QED  BY <1>2, <1>4, <1>5 DEF Record, Tells

\* A run gets an answer.
LEMMA AnswerKept ==
    ASSUME KeptInv, NEW r \in Runs, Finish(r) \/ Fail(r)
    PROVE  KeptInv'
<1>1. /\ pc[r] = "ready" /\ pc' = [pc EXCEPT ![r] = "answered"]
      /\ UNCHANGED <<now, files, reports, answer>>
      /\ work' = [work EXCEPT ![r] = work'[r]]
      /\ Shapes
  BY DEF Finish, Fail, Goto, KeptInv, Shapes, reader
<1>2. Made(r)'
  <2>1. CASE Finish(r)
    <3>1. PICK plan \in Plans, a \in Answers :
            work' = [work EXCEPT ![r] =
                       [output |-> OutputOf(plan, a.result), kept |-> plan.kept,
                        trace  |-> TraceOf(r, a.status, plan, "finished",
                                           Under("output", OutputOf(plan, a.result)))]]
      BY <2>1 DEF Finish
    <3>2. plan \in Plan /\ a.status \in Statuses /\ a.result \in Payload
      BY TraceAssumption
    <3> DEFINE output == OutputOf(plan, a.result)
               trace  == TraceOf(r, a.status, plan, "finished", Under("output", output))
    <3>3. output \in Payload /\ Clean(output, Sensitive(SecretKeyParts), SecretValues)
      BY <3>2, OutputIsClean
    <3>4. Under("output", output) \in Payload
      BY <3>3, OutputOfCleanIsClean, TraceKeysAreSecretKeys
    <3>. HIDE DEF output
    <3>5. trace \in Record /\ trace.id = r /\ Tells(trace, output)
      BY <3>2, <3>4, TraceOfTells
    <3>. HIDE DEF trace
    <3>6. work' = [work EXCEPT ![r] = [output |-> output, kept |-> plan.kept, trace |-> trace]]
      BY <3>1 DEF trace, output
    <3>7. work'[r] = [output |-> output, kept |-> plan.kept, trace |-> trace]
      BY <1>1, <3>6 DEF Shapes
    <3>8. work'[r] \in Work
      BY <3>2, <3>3, <3>5, <3>7 DEF Work, Plan
    <3>. QED  BY <3>3, <3>5, <3>7, <3>8 DEF Made
  <2>2. CASE Fail(r)
    <3> DEFINE said(reason) == {[path |-> <<"reason">>, value |-> reason]}
    <3>1. PICK plan \in Plans, reason \in Reasons :
            work' = [work EXCEPT ![r] =
                       [output |-> {}, kept |-> plan.kept,
                        trace  |-> TraceOf(r, "error", plan, "failed", said(reason))]]
      BY <2>2 DEF Fail
    <3>2. plan \in Plan /\ reason \in Values /\ "reason" \in Keys
      BY TraceAssumption
    <3>3. <<"reason">> \in Seq(Keys)
      BY <3>2
    <3>4. said(reason) \in Payload
      BY <3>2, <3>3 DEF Payload, Leaf
    <3> DEFINE trace == TraceOf(r, "error", plan, "failed", said(reason))
    <3>. HIDE DEF said
    <3>5. trace \in Record /\ trace.id = r /\ Tells(trace, {})
      BY <3>2, <3>4, TraceOfTells DEF Statuses
    <3>. HIDE DEF trace
    <3>6. work'[r] = [output |-> {}, kept |-> plan.kept, trace |-> trace]
      BY <1>1, <3>1 DEF Shapes, trace
    <3>7. {} \in Payload /\ Clean({}, Sensitive(SecretKeyParts), SecretValues)
      BY DEF Payload, Clean
    <3>8. work'[r] \in Work
      BY <3>2, <3>5, <3>6, <3>7 DEF Work, Plan
    <3>. QED  BY <3>5, <3>6, <3>7, <3>8 DEF Made
  <2>. QED  BY <2>1, <2>2 DEF KeptInv
<1>3. \A q \in Runs \ {r} : pc'[q] = pc[q] /\ work'[q] = work[q]
  BY <1>1 DEF Shapes
<1>4. pc'[r] = "answered"
  BY <1>1 DEF Shapes
<1>5. Shapes'
  BY <1>1 DEF Shapes
<1>6. ASSUME NEW q \in Runs
      PROVE  /\ pc'[q] \in Holding => Made(q)'
             /\ Printed(q)'
             /\ Stored(q)'
  BY <1>1, <1>2, <1>3, <1>4, ZenonT(60) DEF KeptInv, Made, Printed, Stored
<1>7. Answered'
  BY <1>1, <1>3 DEF KeptInv, Answered
<1>. QED  BY <1>1, <1>5, <1>6, <1>7 DEF KeptInv

\* A record is shown with the time at which it is stored, whenever that is.
LEMMA UnstoredShown ==
    ASSUME NEW record \in Record
    PROVE  Unstored(ToDict(record)) = ToDict(Unstored(record))
  BY DictOfStored DEF Unstored

\* A run prints its result.
LEMMA ReportKept ==
    ASSUME KeptInv, NEW r \in Runs, ReportUnkept(r) \/ ReportStored(r)
    PROVE  KeptInv'
<1>1. /\ pc[r] \in {"answered", "kept"}
      /\ pc' = [pc EXCEPT ![r] = "done"]
      /\ UNCHANGED <<now, work, answer>>
      /\ reports' = [reports EXCEPT ![r] =
                       [output |-> work[r].output, trace |-> ToDict(Unstored(work[r].trace))]]
      /\ files' = files
      /\ Shapes
  BY DEF ReportUnkept, ReportStored, Report, Goto, KeptInv, reader, Unstored
<1>2. /\ pc'[r] = "done"
      /\ reports'[r] = [output |-> work[r].output, trace |-> ToDict(Unstored(work[r].trace))]
  BY <1>1 DEF Shapes, Names
<1>3. \A q \in Runs \ {r} : pc'[q] = pc[q] /\ reports'[q] = reports[q]
  BY <1>1 DEF Shapes
<1>4. Shapes'
  BY <1>1 DEF Shapes
<1>5. Made(r) /\ Stored(r)
  BY <1>1 DEF KeptInv
<1>6. ASSUME NEW q \in Runs
      PROVE  /\ pc'[q] \in Holding => Made(q)'
             /\ Printed(q)'
             /\ Stored(q)'
  <2>1. CASE q = r
    BY <1>1, <1>2, <1>5, <2>1 DEF Made, Printed, Stored
  <2>2. CASE q # r
    BY <1>1, <1>3, <2>2 DEF KeptInv, Made, Printed, Stored
  <2>. QED  BY <2>1, <2>2
<1>7. Answered'
  BY <1>1, <1>2, <1>3 DEF KeptInv, Answered
<1>. QED  BY <1>1, <1>4, <1>6, <1>7 DEF KeptInv

\* A run fills its file.
LEMMA WriteKept ==
    ASSUME KeptInv, NEW r \in Runs, Write(r)
    PROVE  KeptInv'
<1>1. /\ pc[r] = "opened"
      /\ pc' = [pc EXCEPT ![r] = "kept"]
      /\ UNCHANGED <<now, work, reports, answer>>
      /\ files' = [files EXCEPT ![r] = ToDict(work[r].trace)]
      /\ Shapes
  BY DEF Write, Goto, KeptInv, reader
<1>2. /\ \A q \in Runs \ {r} : pc'[q] = pc[q] /\ files'[q] = files[q]
      /\ \A n \in Strays : files'[n] = files[n]
      /\ pc'[r] = "kept" /\ files'[r] = ToDict(work[r].trace)
  BY <1>1, TraceAssumption DEF Shapes, Names
<1>3. Shapes'
  BY <1>1 DEF Shapes
<1>4. Made(r) /\ reports[r] = Nothing
  BY <1>1 DEF KeptInv, Printed
<1>5. ASSUME NEW q \in Runs
      PROVE  /\ pc'[q] \in Holding => Made(q)'
             /\ Printed(q)'
             /\ Stored(q)'
  <2>1. CASE q = r
    BY <1>1, <1>2, <1>4, <2>1 DEF Made, Printed, Stored
  <2>2. CASE q # r
    BY <1>1, <1>2, <2>2 DEF KeptInv, Made, Printed, Stored
  <2>. QED  BY <2>1, <2>2
<1>6. Answered'
  BY <1>1, <1>2 DEF KeptInv, Answered
<1>. QED  BY <1>2, <1>3, <1>5, <1>6 DEF KeptInv

\* A run makes the record to store, opens the file or stops.
LEMMA SaveKept ==
    ASSUME KeptInv, NEW r \in Runs, Stamp(r) \/ Open(r) \/ Stop(r)
    PROVE  KeptInv'
<1>1. /\ pc[r] \in {"ready", "answered", "stamped", "opened", "kept"}
      /\ pc' = [pc EXCEPT ![r] = pc'[r]]
      /\ UNCHANGED <<now, reports, answer>>
      /\ Shapes
  BY DEF Stamp, Open, Stop, Goto, KeptInv, Shapes, reader
<1>2. /\ pc'[r] \in {"stamped", "opened", "unprinted", "crashed"}
      /\ pc[r] = "kept" <=> pc'[r] = "unprinted"
      /\ pc'[r] \in {"stamped", "opened"} => pc[r] \in {"answered", "stamped"}
  BY <1>1 DEF Stamp, Open, Stop, Goto, Shapes
<1>3. /\ work' = work \/ (pc[r] = "answered" /\ work' = [work EXCEPT ![r].trace.storedAt = now])
      /\ files' = files \/ (pc[r] = "stamped" /\ files' = [files EXCEPT ![r] = Torn])
  BY DEF Stamp, StampRecord, Open, Stop
<1>4. /\ \A q \in Runs \ {r} : pc'[q] = pc[q] /\ work'[q] = work[q] /\ files'[q] = files[q]
      /\ \A n \in Strays : files'[n] = files[n]
      /\ files'[r] = files[r] \/ (pc[r] = "stamped" /\ files'[r] = Torn)
  BY <1>1, <1>3, TraceAssumption DEF Shapes, Names
<1>5. Shapes'
  BY <1>1, <1>2, <1>3 DEF Shapes
<1>6. Made(r) => Made(r)'
  <2>1. CASE work' = work
    BY <2>1 DEF Made
  <2>2. CASE work' = [work EXCEPT ![r].trace.storedAt = now]
    <3> SUFFICES ASSUME Made(r)
                 PROVE  Made(r)'
      OBVIOUS
    <3>1. /\ work[r].trace \in Record
          /\ work'[r] = [work[r] EXCEPT !.trace = [work[r].trace EXCEPT !.storedAt = now]]
      BY <1>1, <2>2 DEF Shapes, Made, Work
    <3> DEFINE trace == [work[r].trace EXCEPT !.storedAt = now]
    <3>2. trace \in Record /\ trace.id = work[r].trace.id /\ trace.events = work[r].trace.events
      BY <1>1, <3>1 DEF Record, Shapes
    <3>. HIDE DEF trace
    <3>3. /\ work'[r] \in Work
          /\ work'[r].output = work[r].output
          /\ work'[r].trace = trace
      BY <3>1, <3>2 DEF Made, Work, trace
    <3>. QED  BY <3>2, <3>3 DEF Made, Tells
  <2>. QED  BY <1>3, <2>1, <2>2
<1>7. files'[r] \in Record => pc[r] = "kept" /\ files'[r] = files[r] /\ work' = work
  BY <1>1, <1>3, <1>4, NoRecords DEF KeptInv, Stored
<1>8. ASSUME NEW q \in Runs
      PROVE  /\ pc'[q] \in Holding => Made(q)'
             /\ Printed(q)'
             /\ Stored(q)'
  <2>1. CASE q = r
    BY <1>1, <1>2, <1>6, <1>7, <2>1 DEF KeptInv, Printed, Stored
  <2>2. CASE q # r
    BY <1>1, <1>4, <2>2 DEF KeptInv, Made, Printed, Stored
  <2>. QED  BY <2>1, <2>2
<1>9. Answered'
  <2>1. \A q \in Runs : pc[q] \in Saved => pc'[q] \in Saved /\ work'[q] = work[q]
    BY <1>1, <1>2, <1>3, <1>4
  <2>. QED  BY <1>1, <2>1 DEF KeptInv, Answered
<1>. QED  BY <1>4, <1>5, <1>8, <1>9 DEF KeptInv

\* Somebody changes the directory.
LEMMA DirectoryKept ==
    ASSUME KeptInv, NEW n \in Names, (n \in Strays /\ PutStray(n)) \/ Remove(n)
    PROVE  KeptInv'
<1>1. /\ UNCHANGED <<now, pc, work, reports, answer>>
      /\ files' = [files EXCEPT ![n] = files'[n]]
      /\ Shapes
  BY DEF PutStray, Remove, runs, reader, KeptInv, Shapes
<1>2. /\ \A m \in Names \ {n} : files'[m] = files[m]
      /\ n \in Runs => files'[n] \notin Record
      /\ files'[n] \in Record => files'[n].id = n
  <2>1. CASE Remove(n)
    BY <1>1, <2>1, NoRecords DEF Remove, Shapes
  <2>2. CASE n \in Strays /\ PutStray(n)
    <3>1. PICK content \in {record \in StrayRecords : record.id = n} \cup {Torn, Other, Unreadable} :
            files' = [files EXCEPT ![n] = content]
      BY <2>2 DEF PutStray
    <3>2. files'[n] = content
      BY <1>1, <3>1 DEF Shapes
    <3>. QED  BY <1>1, <2>2, <3>1, <3>2, NoRecords, TraceAssumption DEF Shapes
  <2>. QED  BY <2>1, <2>2
<1>3. Shapes'
  BY <1>1 DEF Shapes
<1>4. ASSUME NEW q \in Runs
      PROVE  /\ pc'[q] \in Holding => Made(q)'
             /\ Printed(q)'
             /\ Stored(q)'
  BY <1>1, <1>2 DEF KeptInv, Made, Printed, Stored, Names
<1>5. Answered'
  BY <1>1 DEF KeptInv, Answered
<1>. QED  BY <1>1, <1>2, <1>3, <1>4, <1>5 DEF KeptInv, Names

\* Somebody reads it.
LEMMA ReadKept ==
    ASSUME KeptInv, (\E n \in Names : Trace(n)) \/ StartList \/ EndList
    PROVE  KeptInv'
<1>1. UNCHANGED <<now, pc, work, reports, files>>
  BY DEF Trace, GetOrExplain, ReadNext, ReadRaises, StartList, EndList, runs
<1>2. CASE answer' = answer
  BY <1>1, <1>2 DEF KeptInv, Shapes, Made, Printed, Stored, Answered
<1>3. CASE answer'.op # "get"
  BY <1>1, <1>3 DEF KeptInv, Shapes, Made, Printed, Stored, Answered
<1>4. CASE \E n \in Names : files[n] \in Record /\ answer' = [op |-> "get", trace |-> ToDict(files[n])]
  <2>1. PICK n \in Names : files[n] \in Record /\ answer' = [op |-> "get", trace |-> ToDict(files[n])]
    BY <1>4
  <2>2. /\ ToDict(files[n]) \in Record
        /\ ToDict(files[n]).id = files[n].id
        /\ ToDict(ToDict(files[n])) = ToDict(files[n])
    BY <2>1, DictParts, DictOfDict
  <2>3. ASSUME files[n].id \in Runs
        PROVE  /\ pc[files[n].id] \in Saved
               /\ Unstored(ToDict(files[n])) = ToDict(Unstored(work[files[n].id].trace))
    <3>1. n \in Runs
      BY <2>1, <2>3, TraceAssumption DEF KeptInv, Names
    <3>2. pc[n] \in Saved /\ files[n] = ToDict(work[n].trace) /\ work[n].trace \in Record
          /\ work[n].trace.id = n
      BY <2>1, <3>1 DEF KeptInv, Stored, Made, Work
    <3>3. files[n].id = n
      BY <3>2, DictParts
    <3>4. ToDict(files[n]) = ToDict(work[n].trace)
      BY <3>2, DictOfDict
    <3>. QED  BY <3>2, <3>3, <3>4, UnstoredShown
  <2>4. Answered'
    BY <1>1, <2>1, <2>2, <2>3 DEF Answered
  <2>. QED  BY <1>1, <2>4 DEF KeptInv, Shapes, Made, Printed, Stored
<1>5. \/ answer' = answer
      \/ answer'.op # "get"
      \/ \E n \in Names : files[n] \in Record /\ answer' = [op |-> "get", trace |-> ToDict(files[n])]
  BY DEF Trace, GetOrExplain, ReadNext, ReadRaises, StartList, EndList, Loads
<1>. QED  BY <1>2, <1>3, <1>4, <1>5

LEMMA StepKept ==
    ASSUME KeptInv, [Next]_vars
    PROVE  KeptInv'
<1>1. CASE \E r \in Runs : Run(r) \/ Stop(r)
  BY <1>1, AnswerKept, ReportKept, WriteKept, SaveKept DEF Run
<1>2. CASE \/ \E n \in Strays : PutStray(n)
           \/ \E n \in Names : Remove(n)
  BY <1>2, DirectoryKept DEF Names
<1>3. CASE (\E n \in Names : Trace(n)) \/ StartList \/ EndList
  BY <1>3, ReadKept
<1>4. CASE Tick \/ UNCHANGED vars
  <2>1. UNCHANGED <<files, pc, work, reports, answer>> /\ now' \in Nat
    BY <1>4 DEF Tick, vars, runs, reader, KeptInv, Shapes
  <2>. QED  BY <2>1 DEF KeptInv, Shapes, Made, Printed, Stored, Answered
<1>. QED  BY <1>1, <1>2, <1>3, <1>4 DEF Next

LEMMA KeptAlways == Spec => []KeptInv
<1>1. Init => KeptInv
  BY InitKept
<1>2. KeptInv /\ [Next]_vars => KeptInv'
  BY StepKept
<1>. QED  BY <1>1, <1>2, PTL DEF Spec

-----------------------------------------------------------------------------
(* The theorems.                                                           *)

\* What a run that has ended has printed and stored, and what has been read of it.
LEMMA KeptMeans ==
    ASSUME KeptInv
    PROVE  NothingSecretIsKept /\ WhatIsReturnedIsKept
<1>1. ASSUME NEW r \in Runs, pc[r] \in Saved
      PROVE  /\ work[r].trace \in Record
             /\ CleanRecord(ToDict(work[r].trace))
             /\ ToDict(Unstored(work[r].trace)) = Unstored(ToDict(work[r].trace))
             /\ Tells(ToDict(work[r].trace), work[r].output)
             /\ Clean(work[r].output, Sensitive(SecretKeyParts), SecretValues)
  <2>1. Made(r)
    BY <1>1 DEF KeptInv
  <2>2. work[r].trace \in Record /\ work[r].output \in Payload
    BY <2>1 DEF Made, Work
  <2>. QED  BY <2>1, <2>2, DictIsClean, UnstoredShown DEF Made, Tells
<1>2. ASSUME NEW record \in Record
      PROVE  /\ Unstored(record).events = record.events
             /\ CleanRecord(record) => CleanRecord(Unstored(record))
             /\ \A output : Tells(record, output) => Tells(Unstored(record), output)
  <2>1. Unstored(record).events = record.events
    BY DEF Unstored, Record
  <2>. QED  BY <2>1 DEF CleanRecord, Tells
<1>3. ASSUME NEW r \in Runs, reports[r] # Nothing
      PROVE  /\ pc[r] = "done"
             /\ reports[r].output = work[r].output
             /\ reports[r].trace = Unstored(ToDict(work[r].trace))
             /\ CleanRecord(reports[r].trace)
             /\ Tells(reports[r].trace, reports[r].output)
             /\ Clean(reports[r].output, Sensitive(SecretKeyParts), SecretValues)
  <2>1. pc[r] = "done"
    BY <1>3 DEF KeptInv, Printed
  <2>2. reports[r] = [output |-> work[r].output, trace |-> ToDict(Unstored(work[r].trace))]
    BY <2>1 DEF KeptInv, Printed
  <2>3. ToDict(work[r].trace) \in Record
    BY <1>1, <2>1, DictParts
  <2>. QED  BY <1>1, <1>2, <2>1, <2>2, <2>3
<1>4. ASSUME NEW r \in Runs, files[r] \in Record
      PROVE  pc[r] \in Saved /\ files[r] = ToDict(work[r].trace) /\ CleanRecord(files[r])
  BY <1>1, <1>4 DEF KeptInv, Stored
<1>5. ASSUME answer.op = "get"
      PROVE  /\ \A i \in DOMAIN answer.trace.events :
                  Clean(answer.trace.events[i].payload, Sensitive(TraceKeyParts), {})
             /\ answer.trace.id \in Runs =>
                  /\ pc[answer.trace.id] \in Saved
                  /\ Unstored(answer.trace) = ToDict(Unstored(work[answer.trace.id].trace))
  <2>1. answer.trace \in Record /\ answer.trace = ToDict(answer.trace)
    BY <1>5 DEF KeptInv, Answered
  <2>2. \A payload \in Payload : Clean(SanitizeTrace(payload), Sensitive(TraceKeyParts), {})
    BY TraceKeysAreSecretKeys, TraceAssumption, SanitizedIsClean DEF SanitizeTrace
  <2>. QED  BY <1>5, <2>1, <2>2, DictParts DEF KeptInv, Answered
<1>6. NothingSecretIsKept
  BY <1>3, <1>4, <1>5 DEF NothingSecretIsKept
<1>7. WhatIsReturnedIsKept
  <2>1. ASSUME NEW r \in Runs, reports[r] # Nothing
        PROVE  reports[r].trace = ToDict(Unstored(work[r].trace))
    <3>1. reports[r] = [output |-> work[r].output, trace |-> ToDict(Unstored(work[r].trace))]
      BY <2>1 DEF KeptInv, Printed
    <3>. QED  BY <3>1
  <2>2. ASSUME NEW r \in Runs, reports[r] # Nothing, files[r] \in Record
        PROVE  Unstored(files[r]) = reports[r].trace
    BY <1>1, <1>4, <2>1, <2>2
  <2>. QED  BY <1>3, <1>5, <2>1, <2>2 DEF WhatIsReturnedIsKept, Unstored, Tells
<1>. QED  BY <1>6, <1>7

\* Whatever adapters answer and plans allow, no output that a run prints or stores holds
\* anything under a sensitive key, nor a value that looks like a secret.
THEOREM NothingSecretIsKeptAlways == Spec => []NothingSecretIsKept
<1>1. KeptInv => NothingSecretIsKept
  BY KeptMeans
<1>. QED  BY <1>1, KeptAlways, PTL

\* The printed, the stored and the read trace of a run are one trace.
THEOREM WhatIsReturnedIsKeptAlways == Spec => []WhatIsReturnedIsKept
<1>1. KeptInv => WhatIsReturnedIsKept
  BY KeptMeans
<1>. QED  BY <1>1, KeptAlways, PTL

-----------------------------------------------------------------------------
(* Types.                                                                  *)

TypeInv ==
    /\ TypeOK
    /\ KeptInv
    /\ \A r \in Runs : pc[r] \in {"stamped", "opened"} => work[r].trace.storedAt \in 1 .. now

LEMMA InitType ==
    ASSUME Init
    PROVE  TypeInv
<1>1. TypeOK
  BY NoRecords, TraceAssumption DEF Init, TypeOK, Names, File, NoListing
<1>. QED  BY <1>1, InitKept DEF TypeInv, Init

\* A run gets an answer, or makes the record to store.
LEMMA WorkTyped ==
    ASSUME TypeInv, KeptInv', NEW r \in Runs, Finish(r) \/ Fail(r) \/ Stamp(r)
    PROVE  TypeInv'
<1>1. /\ pc'[r] \in {"answered", "stamped"}
      /\ pc' = [pc EXCEPT ![r] = pc'[r]]
      /\ work' = [work EXCEPT ![r] = work'[r]]
      /\ UNCHANGED <<now, edits, files, reports, listing, answer>>
  BY DEF Finish, Fail, Stamp, StampRecord, Goto, TypeInv, TypeOK, reader
<1>2. work'[r] \in Work
  BY <1>1 DEF KeptInv, Made
<1>3. pc'[r] = "stamped" => work'[r].trace.storedAt \in 1 .. now
  <2> SUFFICES ASSUME Stamp(r)
               PROVE  work'[r].trace.storedAt \in 1 .. now
    BY <1>1 DEF Finish, Fail, Goto, TypeInv, TypeOK
  <2>1. work[r] \in Work
    BY DEF Stamp, TypeInv, KeptInv, Made
  <2>2. work'[r].trace.storedAt = now
    BY <2>1 DEF Stamp, StampRecord, TypeInv, TypeOK, Work, Record
  <2>. QED  BY <2>2 DEF TypeInv, TypeOK
<1>4. TypeOK'
  BY <1>1, <1>2 DEF TypeInv, TypeOK
<1>5. \A q \in Runs \ {r} : pc'[q] = pc[q] /\ work'[q] = work[q]
  BY <1>1 DEF TypeInv, TypeOK
<1>. QED  BY <1>1, <1>3, <1>4, <1>5 DEF TypeInv

\* A run writes: it opens the file or prints, or it stops.
LEMMA SaveTyped ==
    ASSUME TypeInv, KeptInv', NEW r \in Runs,
           Open(r) \/ ReportUnkept(r) \/ Write(r) \/ ReportStored(r) \/ Stop(r)
    PROVE  TypeInv'
<1>1. /\ pc'[r] \in {"opened", "kept", "unprinted", "done", "crashed"}
      /\ pc'[r] = "opened" => pc[r] = "stamped"
      /\ pc' = [pc EXCEPT ![r] = pc'[r]]
      /\ UNCHANGED <<now, edits, work, listing, answer>>
  BY DEF Open, ReportUnkept, Write, ReportStored, Stop, Report, Goto, TypeInv, TypeOK, reader
<1>2. reports' \in [Runs -> [output : Payload, trace : Record] \cup {Nothing}]
  <2>1. CASE reports' = reports
    BY <2>1 DEF TypeInv, TypeOK
  <2>2. CASE ReportUnkept(r) \/ ReportStored(r)
    <3>1. work[r] \in Work
      BY <2>2 DEF ReportUnkept, ReportStored, TypeInv, KeptInv, Made
    <3>2. work[r].output \in Payload /\ work[r].trace \in Record
      BY <3>1 DEF Work
    <3>3. ToDict(Unstored(work[r].trace)) \in Record
      BY <3>2, DictOfStored, DictParts DEF Unstored
    <3>4. reports' = [reports EXCEPT ![r] =
                        [output |-> work[r].output, trace |-> ToDict(Unstored(work[r].trace))]]
      BY <2>2 DEF ReportUnkept, ReportStored, Report, Unstored
    <3>. HIDE DEF Unstored
    <3>. QED  BY <3>2, <3>3, <3>4 DEF TypeInv, TypeOK
  <2>. QED  BY <2>1, <2>2 DEF Open, Write, Stop
<1>3. /\ files' \in [Names -> File]
      /\ \A q \in Runs : files'[q] \in Record => files'[q].id = q /\ files'[q].storedAt \in 1 .. now
  <2>1. CASE files' = files
    BY <2>1 DEF TypeInv, TypeOK
  <2>2. CASE Open(r)
    <3>1. files' = [files EXCEPT ![r] = Torn]
      BY <2>2 DEF Open
    <3>2. \A q \in Runs : files'[q] \in Record => files'[q] = files[q]
      BY <3>1, NoRecords DEF TypeInv, TypeOK, Names
    <3>. QED  BY <3>1, <3>2 DEF TypeInv, TypeOK, File
  <2>3. CASE Write(r)
    <3>1. /\ files' = [files EXCEPT ![r] = ToDict(work[r].trace)]
          /\ work[r] \in Work
          /\ work[r].trace.id = r
          /\ work[r].trace.storedAt \in 1 .. now
      BY <2>3 DEF Write, TypeInv, KeptInv, Made
    <3>2. work[r].trace \in Record
      BY <3>1 DEF Work
    <3>3. /\ ToDict(work[r].trace) \in Record
          /\ ToDict(work[r].trace).id = r
          /\ ToDict(work[r].trace).storedAt \in 1 .. now
      BY <3>1, <3>2, DictParts
    <3>. QED  BY <3>1, <3>3 DEF TypeInv, TypeOK, File, Names
  <2>4. files' = files \/ Open(r) \/ Write(r)
    BY DEF ReportUnkept, ReportStored, Stop
  <2>. QED  BY <2>1, <2>2, <2>3, <2>4
<1>4. TypeOK'
  <2>1. pc' \in [Runs -> Labels]
    BY <1>1 DEF TypeInv, TypeOK
  <2>2. /\ now' = now /\ edits' = edits /\ work' = work /\ listing' = listing /\ answer' = answer
        /\ TypeOK
    BY <1>1 DEF TypeInv
  <2>. QED  BY <1>2, <1>3, <2>1, <2>2 DEF TypeOK
<1>5. \A q \in Runs \ {r} : pc'[q] = pc[q]
  BY <1>1 DEF TypeInv, TypeOK
<1>. QED  BY <1>1, <1>4, <1>5 DEF TypeInv

\* Somebody else changes the directory, reads it, or waits.
LEMMA OthersTyped ==
    ASSUME TypeInv, KeptInv',
           \/ \E n \in Strays : PutStray(n)
           \/ \E n \in Names : Remove(n) \/ Trace(n)
           \/ StartList \/ EndList \/ Tick
    PROVE  TypeInv'
<1>1. CASE \E n \in Strays : PutStray(n)
  <2>1. PICK n \in Strays : PutStray(n)
    BY <1>1
  <2>2. PICK content \in StrayRecords \cup {Torn, Other, Unreadable} :
          files' = [files EXCEPT ![n] = content]
    BY <2>1 DEF PutStray
  <2>3. \A r \in Runs : files'[r] = files[r]
    BY <2>2, TraceAssumption DEF TypeInv, TypeOK, Names
  <2>4. files' \in [Names -> File]
    BY <2>2, TraceAssumption DEF TypeInv, TypeOK, File
  <2>5. UNCHANGED <<now, runs, reader>> /\ edits' \in 0 .. MaxEdits
    BY <2>1, TraceAssumption DEF PutStray, TypeInv, TypeOK
  <2>6. TypeOK'
    BY <2>3, <2>4, <2>5 DEF TypeInv, TypeOK, runs, reader
  <2>. QED  BY <2>5, <2>6 DEF TypeInv, runs
<1>2. CASE \E n \in Names : Remove(n)
  <2>1. PICK n \in Names : Remove(n)
    BY <1>2
  <2>2. files' = [files EXCEPT ![n] = Nothing] /\ UNCHANGED <<now, runs, answer>>
    BY <2>1 DEF Remove
  <2>3. \A r \in Runs : files'[r] \in Record => files'[r] = files[r]
    BY <2>2, NoRecords DEF TypeInv, TypeOK, Names
  <2>4. files' \in [Names -> File]
    BY <2>2 DEF TypeInv, TypeOK, File
  <2>5. edits' \in 0 .. MaxEdits /\ listing' = [listing EXCEPT !.owed = @ \ {n}]
    BY <2>1, TraceAssumption DEF Remove, TypeInv, TypeOK
  <2>6. listing' \in [on : BOOLEAN, todo : SUBSET Names, found : SUBSET Record, owed : SUBSET Runs]
    BY <2>5 DEF TypeInv, TypeOK
  <2>7. TypeOK'
    BY <2>2, <2>3, <2>4, <2>5, <2>6 DEF TypeInv, TypeOK, runs
  <2>. QED  BY <2>2, <2>7 DEF TypeInv, runs
<1>3. CASE (\E n \in Names : Trace(n)) \/ StartList \/ EndList
  <2>1. UNCHANGED <<now, edits, files, runs>>
    BY <1>3 DEF Trace, GetOrExplain, ReadNext, ReadRaises, StartList, EndList
  <2>2. answer'.op \in {"none", "list", "get", "explain", "error", "raised"}
    <3>1. CASE \E n \in Names : GetOrExplain(n)
      BY <3>1 DEF GetOrExplain
    <3>2. CASE StartList \/ EndList
      BY <3>2 DEF StartList, EndList
    <3>3. CASE \E n \in Names : ReadNext(n) \/ ReadRaises(n)
      BY <3>3 DEF ReadNext, ReadRaises, TypeInv, TypeOK
    <3>. QED  BY <1>3, <3>1, <3>2, <3>3 DEF Trace
  <2>3. listing' \in [on : BOOLEAN, todo : SUBSET Names, found : SUBSET Record, owed : SUBSET Runs]
    <3>1. CASE \E n \in Names : GetOrExplain(n)
      BY <3>1 DEF GetOrExplain, TypeInv, TypeOK
    <3>2. CASE StartList
      BY <3>2 DEF StartList
    <3>3. CASE \E n \in Names : ReadNext(n)
      <4>1. PICK n \in Names : ReadNext(n)
        BY <3>3
      <4>2. listing' = [listing EXCEPT !.todo = @ \ {n},
                                       !.found = IF Loads(n) THEN @ \cup {files[n]} ELSE @]
        BY <4>1 DEF ReadNext, LoadOrSkip
      <4>3. CASE Loads(n)
        <5>1. files[n] \in Record
          BY <4>3 DEF Loads
        <5>2. listing' = [listing EXCEPT !.todo = @ \ {n}, !.found = @ \cup {files[n]}]
          BY <4>2, <4>3
        <5>. QED  BY <5>1, <5>2 DEF TypeInv, TypeOK
      <4>4. CASE ~Loads(n)
        <5>1. listing' = [listing EXCEPT !.todo = @ \ {n}, !.found = @]
          BY <4>2, <4>4
        <5>. QED  BY <5>1 DEF TypeInv, TypeOK
      <4>. QED  BY <4>3, <4>4
    <3>4. CASE EndList \/ \E n \in Names : ReadRaises(n)
      <4>1. listing' = [on |-> FALSE, todo |-> {}, found |-> {}, owed |-> {}]
        BY <3>4 DEF EndList, ReadRaises, NoListing
      <4>. QED  BY <4>1
    <3>. QED  BY <1>3, <3>1, <3>2, <3>3, <3>4 DEF Trace
  <2>4. TypeOK'
    BY <2>1, <2>2, <2>3 DEF TypeInv, TypeOK, runs
  <2>. QED  BY <2>1, <2>4 DEF TypeInv, runs
<1>4. CASE Tick
  <2>1. UNCHANGED <<edits, files, runs, reader>> /\ now' = now + 1 /\ now' \in 1 .. MaxTime
    BY <1>4, TraceAssumption DEF Tick, TypeInv, TypeOK
  <2>2. 1 .. now \subseteq 1 .. now'
    BY <2>1, TraceAssumption DEF TypeInv, TypeOK
  <2>3. TypeOK'
    BY <2>1, <2>2 DEF TypeInv, TypeOK, runs, reader
  <2>. QED  BY <2>1, <2>2, <2>3 DEF TypeInv, runs
<1>. QED  BY <1>1, <1>2, <1>3, <1>4

LEMMA TypeAlways == Spec => []TypeInv
<1>1. Init => TypeInv
  BY InitType
<1>2. TypeInv /\ [Next]_vars => TypeInv'
  <2> SUFFICES ASSUME TypeInv, [Next]_vars
               PROVE  TypeInv'
    OBVIOUS
  <2>1. KeptInv'
    BY StepKept DEF TypeInv
  <2>2. CASE UNCHANGED vars
    BY <2>1, <2>2 DEF TypeInv, TypeOK, vars, runs, reader
  <2>3. CASE Next
    BY <2>1, <2>3, WorkTyped, SaveTyped, OthersTyped DEF Next, Run
  <2>. QED  BY <2>2, <2>3
<1>. QED  BY <1>1, <1>2, PTL DEF Spec

\* A trace file holds what save_trace_record can leave of it: nothing, a torn text, or the
\* record of its own run, stamped no later than now.
THEOREM TypeCorrect == Spec => []TypeOK
<1>1. TypeInv => TypeOK
  BY DEF TypeInv
<1>. QED  BY <1>1, TypeAlways, PTL

-----------------------------------------------------------------------------
(* The list of the traces.                                                 *)

\* A finite set that is strictly ordered can be listed in that order.
LEMMA OrderedListing ==
    ASSUME NEW S, IsFiniteSet(S), NEW R,
           \A x \in S : <<x, x>> \notin R,
           \A x, y \in S : x # y => <<x, y>> \in R \/ <<y, x>> \in R,
           \A x, y, z \in S : <<x, y>> \in R /\ <<y, z>> \in R => <<x, z>> \in R
    PROVE  \E f \in [1 .. Cardinality(S) -> S] :
              \A i, j \in 1 .. Cardinality(S) : i < j => <<f[i], f[j]>> \in R
<1> DEFINE N         == Cardinality(S)
           before(x) == {y \in S : <<y, x>> \in R}
           place     == [x \in S |-> Cardinality(before(x)) + 1]
           f         == [k \in 1 .. N |-> CHOOSE x \in S : place[x] = k]
<1>1. N \in Nat
  BY FS_CardinalityType
<1>2. ASSUME NEW x \in S
      PROVE  IsFiniteSet(before(x)) /\ Cardinality(before(x)) \in Nat
  <2>1. before(x) \in SUBSET S
    OBVIOUS
  <2> HIDE DEF before
  <2>2. IsFiniteSet(before(x))
    BY <2>1, FS_Subset
  <2> QED
    BY <2>2, FS_CardinalityType
<1>3. ASSUME NEW x \in S PROVE Cardinality(before(x)) < N
  <2>1. before(x) \in SUBSET S /\ x \notin before(x)
    OBVIOUS
  <2> HIDE DEF before
  <2>2. Cardinality(before(x)) <= N /\ (N = Cardinality(before(x)) => S = before(x))
    BY <2>1, FS_Subset
  <2> QED
    BY <1>1, <1>2, <2>1, <2>2
<1>4. ASSUME NEW x \in S, NEW y \in S, <<x, y>> \in R
      PROVE  Cardinality(before(x)) < Cardinality(before(y))
  <2>1. before(x) \in SUBSET before(y) /\ x \in before(y) /\ x \notin before(x)
    BY <1>4
  <2>2. IsFiniteSet(before(y))
    BY <1>2
  <2>3. Cardinality(before(x)) \in Nat /\ Cardinality(before(y)) \in Nat
    BY <1>2
  <2> HIDE DEF before
  <2>4. /\ Cardinality(before(x)) <= Cardinality(before(y))
        /\ Cardinality(before(y)) = Cardinality(before(x)) => before(y) = before(x)
    BY <2>1, <2>2, FS_Subset
  <2> QED
    BY <2>1, <2>3, <2>4
<1>5. place \in [S -> 1 .. N]
  <2>1. \A x \in S : Cardinality(before(x)) + 1 \in 1 .. N
    <3> HIDE DEF before, N
    <3> QED
      BY <1>1, <1>2, <1>3 DEF N
  <2> HIDE DEF before, N
  <2> QED
    BY <2>1
<1>6. \A x, y \in S : place[x] = place[y] => x = y
  <2> SUFFICES ASSUME NEW x \in S, NEW y \in S, place[x] = place[y], x # y PROVE FALSE
    OBVIOUS
  <2>1. Cardinality(before(x)) = Cardinality(before(y))
    <3>1. Cardinality(before(x)) + 1 = Cardinality(before(y)) + 1
      OBVIOUS
    <3>2. Cardinality(before(x)) \in Nat /\ Cardinality(before(y)) \in Nat
      BY <1>2
    <3> QED
      BY <3>1, <3>2
  <2>2. Cardinality(before(x)) < Cardinality(before(y)) \/ Cardinality(before(y)) < Cardinality(before(x))
    <3>1. <<x, y>> \in R \/ <<y, x>> \in R
      OBVIOUS
    <3> HIDE DEF before
    <3> QED
      BY <1>4, <3>1
  <2>3. Cardinality(before(x)) \in Nat /\ Cardinality(before(y)) \in Nat
    BY <1>2
  <2> QED
    BY <2>1, <2>2, <2>3
<1>7. \A k \in 1 .. N : \E x \in S : place[x] = k
  <2> HIDE DEF place
  <2>1. place \in Injection(S, 1 .. N)
    BY <1>5, <1>6 DEF Injection, IsInjective
  <2>2. IsFiniteSet(1 .. N) /\ Cardinality(1 .. N) = N
    BY <1>1, FS_Interval
  <2>3. place \in Surjection(S, 1 .. N)
    BY <2>1, <2>2, FS_Injection
  <2> QED
    BY <2>3 DEF Surjection
<1>8. \A k \in 1 .. N : f[k] \in S /\ place[f[k]] = k
  <2> HIDE DEF place
  <2> QED
    BY <1>7
<1>9. f \in [1 .. N -> S]
  <2> HIDE DEF place
  <2> QED
    BY <1>8
<1>10. ASSUME NEW i \in 1 .. N, NEW j \in 1 .. N, i < j PROVE <<f[i], f[j]>> \in R
  <2>1. f[i] \in S /\ f[j] \in S /\ place[f[i]] = i /\ place[f[j]] = j
    BY <1>8
  <2> DEFINE x == f[i]
             y == f[j]
  <2> HIDE DEF f
  <2>2. x # y
    BY <1>10, <2>1
  <2>3. ~(Cardinality(before(y)) < Cardinality(before(x)))
    <3>1. Cardinality(before(x)) + 1 = i /\ Cardinality(before(y)) + 1 = j
      BY <2>1
    <3>2. Cardinality(before(x)) \in Nat /\ Cardinality(before(y)) \in Nat
      BY <1>2, <2>1
    <3> HIDE DEF before, x, y
    <3> QED
      BY <1>10, <3>1, <3>2
  <2>4. <<y, x>> \notin R
    BY <1>4, <2>1, <2>3
  <2> QED
    BY <2>1, <2>2, <2>4
<1> QED
  BY <1>9, <1>10

\* Records of different files are in one order, and the list has all of them in it.
LEMMA NewestFirstLists ==
    ASSUME NEW records \in SUBSET Record, IsFiniteSet(records),
           \A a, b \in records : a.id = b.id => a = b
    PROVE  /\ Cardinality(records) \in Nat
           /\ NewestFirst(records) \in [1 .. Cardinality(records) -> records]
           /\ \A i, j \in 1 .. Cardinality(records) :
                 i < j => Newer(NewestFirst(records)[i], NewestFirst(records)[j])
           /\ \A a \in records : \E i \in 1 .. Cardinality(records) : NewestFirst(records)[i] = a
<1> DEFINE N     == Cardinality(records)
           R     == {e \in records \X records : Newer(e[1], e[2])}
           Is(s) == \A i, j \in DOMAIN s : i < j => Newer(s[i], s[j])
           list  == NewestFirst(records)
<1>1. N \in Nat
  BY FS_CardinalityType
<1>2. \A a \in records : a.id \in Nat /\ a.storedAt \in Nat
  BY TraceAssumption DEF Record
<1>3. \A a, b \in records : <<a, b>> \in R <=> Newer(a, b)
  OBVIOUS
<1>4. /\ \A a \in records : ~Newer(a, a)
      /\ \A a, b \in records : a # b => Newer(a, b) \/ Newer(b, a)
      /\ \A a, b, c \in records : Newer(a, b) /\ Newer(b, c) => Newer(a, c)
  BY <1>2 DEF Newer
<1> HIDE DEF R, N
<1>5. \E f \in [1 .. N -> records] : \A i, j \in 1 .. N : i < j => <<f[i], f[j]>> \in R
  BY <1>3, <1>4, OrderedListing DEF N
<1>6. \E f \in [1 .. N -> records] : Is(f)
  <2>1. PICK f \in [1 .. N -> records] : \A i, j \in 1 .. N : i < j => <<f[i], f[j]>> \in R
    BY <1>5
  <2>2. DOMAIN f = 1 .. N /\ \A i \in 1 .. N : f[i] \in records
    BY <2>1
  <2> QED
    BY <1>3, <2>1, <2>2
<1>7. list = CHOOSE s \in [1 .. N -> records] : Is(s)
  BY DEF NewestFirst, N
<1> HIDE DEF Is, list
<1>8. list \in [1 .. N -> records] /\ Is(list)
  BY <1>6, <1>7
<1>9. \A i, j \in 1 .. N : i < j => Newer(list[i], list[j])
  BY <1>8 DEF Is
<1>10. \A i, j \in 1 .. N : list[i] = list[j] => i = j
  <2> SUFFICES ASSUME NEW i \in 1 .. N, NEW j \in 1 .. N, list[i] = list[j], i < j
               PROVE  FALSE
    BY <1>1
  <2>1. Newer(list[i], list[j]) /\ list[i] \in records
    BY <1>8, <1>9
  <2> QED
    BY <1>4, <2>1
<1>11. list \in Injection(1 .. N, records)
  BY <1>8, <1>10 DEF Injection, IsInjective
<1>12. IsFiniteSet(1 .. N) /\ Cardinality(1 .. N) = Cardinality(records)
  BY <1>1, FS_Interval DEF N
<1>13. list \in Surjection(1 .. N, records)
  BY <1>11, <1>12, FS_Injection
<1>14. \A a \in records : \E i \in 1 .. N : list[i] = a
  BY <1>13 DEF Surjection
<1> QED
  BY <1>1, <1>8, <1>9, <1>14 DEF N, list

\* What a list that is going on has found is of different files that it will not read again,
\* of runs that have ended; and what it owes it has found, or has yet to read and can.
ListingInv ==
    /\ IsFiniteSet(listing.found)
    /\ \A a \in listing.found :
          /\ a.id \notin listing.todo
          /\ a.id \in Runs => pc[a.id] \in Saved
    /\ \A a, b \in listing.found : a.id = b.id => a = b
    /\ \A r \in listing.owed : \/ r \in listing.todo /\ files[r] \in Record
                               \/ \E a \in listing.found : a.id = r

ListInv == ListingInv /\ ListMissesNothing

HIDE DEF Saved

\* A step of a run does not take back that it has ended, nor its file.
LEMMA RunsGoOn ==
    ASSUME TypeInv, NEW r \in Runs, Run(r) \/ Stop(r)
    PROVE  /\ \A q \in Runs : pc[q] \in Saved => pc'[q] \in Saved
           /\ \A n \in Names : files[n] \in Record => files'[n] = files[n]
           /\ UNCHANGED reader
<1>1. /\ pc[r] \in Saved => pc'[r] \in Saved
      /\ pc' = [pc EXCEPT ![r] = pc'[r]]
      /\ files' = files \/ files' = [files EXCEPT ![r] = files'[r]]
      /\ pc \in [Runs -> Labels]
      /\ files \in [Names -> File]
      /\ UNCHANGED reader
  BY DEF Run, Stop, Finish, Fail, ReportUnkept, Stamp, Open, Write, ReportStored, Report, Goto,
         TypeInv, TypeOK, Saved
<1>2. files[r] \in Record => files' = files
  BY DEF Run, Stop, Finish, Fail, ReportUnkept, Stamp, Open, Write, ReportStored, TypeInv,
         KeptInv, Stored, Saved
<1> QED
  BY <1>1, <1>2

\* What has been found and listed stays so while runs go on.
LEMMA ListStays ==
    ASSUME ListInv, UNCHANGED reader,
           \A q \in Runs : pc[q] \in Saved => pc'[q] \in Saved,
           \A n \in Runs : n \in listing.owed /\ files[n] \in Record => files'[n] \in Record,
           listing.owed \subseteq Runs
    PROVE  ListInv'
<1>1. ListingInv'
  BY DEF ListInv, ListingInv, reader
<1>2. ListMissesNothing'
  BY DEF ListInv, ListMissesNothing, reader
<1> QED
  BY <1>1, <1>2 DEF ListInv

LEMMA ListDirectory ==
    ASSUME TypeInv, ListInv, NEW n \in Names, (n \in Strays /\ PutStray(n)) \/ Remove(n)
    PROVE  ListInv'
<1>1. listing.owed \subseteq Runs /\ files \in [Names -> File]
  BY DEF TypeInv, TypeOK
<1>2. CASE n \in Strays /\ PutStray(n)
  <2>1. UNCHANGED <<pc, reader>> /\ \A q \in Runs : files'[q] = files[q]
    BY <1>1, <1>2, TraceAssumption DEF PutStray, runs, Names
  <2> QED
    BY <1>1, <2>1, ListStays
<1>3. CASE Remove(n)
  <2>1. /\ UNCHANGED <<pc, answer>>
        /\ listing' = [listing EXCEPT !.owed = @ \ {n}]
        /\ \A q \in Names \ {n} : files'[q] = files[q]
    BY <1>1, <1>3 DEF Remove, runs
  <2>2. /\ listing'.todo = listing.todo /\ listing'.found = listing.found
        /\ listing'.owed = listing.owed \ {n}
    BY <2>1 DEF TypeInv, TypeOK
  <2>3. \A q \in listing'.owed : q \in listing.owed /\ q \in Names /\ files'[q] = files[q]
    BY <1>1, <2>1, <2>2 DEF Names
  <2>4. ListingInv'
    BY <2>1, <2>2, <2>3 DEF ListInv, ListingInv
  <2>5. ListMissesNothing'
    BY <2>1 DEF ListInv, ListMissesNothing
  <2> QED
    BY <2>4, <2>5 DEF ListInv
<1> QED
  BY <1>2, <1>3

LEMMA ListRead ==
    ASSUME TypeInv, ListInv, NEW n \in Names, Trace(n)
    PROVE  ListInv'
<1>1. UNCHANGED <<files, pc>>
  BY DEF Trace, GetOrExplain, ReadNext, ReadRaises, runs
<1>2. CASE GetOrExplain(n)
  <2>1. answer'.op # "list" /\ listing' = listing
    BY <1>2 DEF GetOrExplain
  <2> QED
    BY <1>1, <2>1 DEF ListInv, ListingInv, ListMissesNothing
<1>3. CASE ReadNext(n)
  <2>1. /\ n \in listing.todo
        /\ Loads(n) \/ Refuses(n)
        /\ listing' = [listing EXCEPT !.todo = @ \ {n},
                                      !.found = IF Loads(n) THEN @ \cup {files[n]} ELSE @]
        /\ answer' = answer
    BY <1>3 DEF ReadNext, LoadOrSkip, IsNext
  <2>2. /\ listing'.todo = listing.todo \ {n}
        /\ listing'.owed = listing.owed
        /\ listing'.found = IF files[n] \in Record THEN listing.found \cup {files[n]}
                            ELSE listing.found
    BY <2>1 DEF TypeInv, TypeOK, Loads
  <2>3. /\ files[n] \in Record => files[n].id = n
        /\ n \in Runs /\ files[n] \in Record => pc[n] \in Saved
    BY DEF TypeInv, TypeOK, KeptInv, Stored, Names
  <2>4. \A a \in listing.found : a.id # n
    BY <2>1 DEF ListInv, ListingInv
  <2>5. IsFiniteSet(listing'.found)
    BY <2>2, FS_AddElement DEF ListInv, ListingInv
  <2>6. \A a \in listing'.found : a.id \notin listing'.todo /\ (a.id \in Runs => pc'[a.id] \in Saved)
    BY <1>1, <2>2, <2>3 DEF ListInv, ListingInv
  <2>7. \A a, b \in listing'.found : a.id = b.id => a = b
    BY <2>2, <2>3, <2>4 DEF ListInv, ListingInv
  <2>8. \A r \in listing'.owed : \/ r \in listing'.todo /\ files'[r] \in Record
                                 \/ \E a \in listing'.found : a.id = r
    BY <1>1, <2>2, <2>3 DEF ListInv, ListingInv
  <2>9. ListMissesNothing'
    BY <1>1, <2>1 DEF ListInv, ListMissesNothing
  <2> QED
    BY <2>5, <2>6, <2>7, <2>8, <2>9 DEF ListInv, ListingInv
<1>4. CASE ReadRaises(n)
  <2>1. listing' = NoListing /\ answer'.op = "raised"
    BY <1>4 DEF ReadRaises
  <2> QED
    BY <2>1, FS_EmptySet DEF ListInv, ListingInv, ListMissesNothing, NoListing
<1> QED
  BY <1>2, <1>3, <1>4 DEF Trace

LEMMA ListBegun ==
    ASSUME TypeInv, ListInv, StartList
    PROVE  ListInv'
<1>1. /\ UNCHANGED <<files, pc>>
      /\ listing'.todo = {n \in Names : files[n] # Nothing}
      /\ listing'.found = {}
      /\ listing'.owed = {r \in Runs : files[r] \in Record}
      /\ answer'.op = "none"
  BY DEF StartList, Loads, runs
<1>2. \A r \in listing'.owed : r \in listing'.todo /\ files'[r] \in Record
  BY <1>1, NoRecords DEF Names
<1> QED
  BY <1>1, <1>2, FS_EmptySet DEF ListInv, ListingInv, ListMissesNothing

LEMMA ListEnded ==
    ASSUME TypeInv, ListInv, EndList
    PROVE  ListInv'
<1> DEFINE N      == Cardinality(listing.found)
           sorted == NewestFirst(listing.found)
           traces == [i \in DOMAIN sorted |-> Summary(sorted[i])]
<1>1. /\ listing.todo = {}
      /\ answer' = [op |-> "list", owed |-> listing.owed, traces |-> traces]
      /\ listing' = NoListing
      /\ UNCHANGED pc
  BY DEF EndList, runs
<1>2. /\ sorted \in [1 .. N -> listing.found]
      /\ \A i, j \in 1 .. N : i < j => Newer(sorted[i], sorted[j])
      /\ \A a \in listing.found : \E i \in 1 .. N : sorted[i] = a
  BY NewestFirstLists DEF TypeInv, TypeOK, ListInv, ListingInv
<1> HIDE DEF N, sorted
<1>3. /\ DOMAIN traces = 1 .. N
      /\ \A i \in 1 .. N : /\ sorted[i] \in listing.found
                            /\ traces[i].id = sorted[i].id
                            /\ traces[i].storedAt = sorted[i].storedAt
  BY <1>2 DEF Summary
<1> HIDE DEF traces
<1>4. \A r \in listing.owed : \E i \in DOMAIN traces : traces[i].id = r
  BY <1>1, <1>2, <1>3 DEF ListInv, ListingInv
<1>5. \A i \in DOMAIN traces : traces[i].id \in Runs => pc[traces[i].id] \in Saved
  BY <1>3 DEF ListInv, ListingInv
<1>6. \A i, j \in DOMAIN traces : i < j => Newer(traces[i], traces[j])
  BY <1>2, <1>3 DEF Newer
<1>7. ListMissesNothing'
  BY <1>1, <1>4, <1>5, <1>6 DEF ListMissesNothing
<1>8. ListingInv'
  BY <1>1, FS_EmptySet DEF ListingInv, NoListing
<1> QED
  BY <1>7, <1>8 DEF ListInv

LEMMA ListStep == TypeInv /\ ListInv /\ [Next]_vars => ListInv'
<1> SUFFICES ASSUME TypeInv, ListInv, [Next]_vars
             PROVE  ListInv'
  OBVIOUS
<1>1. listing.owed \subseteq Runs
  BY DEF TypeInv, TypeOK
<1>2. CASE \E r \in Runs : Run(r) \/ Stop(r)
  <2>1. /\ \A q \in Runs : pc[q] \in Saved => pc'[q] \in Saved
        /\ \A n \in Names : files[n] \in Record => files'[n] = files[n]
        /\ UNCHANGED reader
    BY <1>2, RunsGoOn
  <2> QED
    BY <1>1, <2>1, ListStays DEF Names
<1>3. CASE \/ \E n \in Strays : PutStray(n)
           \/ \E n \in Names : Remove(n)
  BY <1>3, ListDirectory DEF Names
<1>4. CASE (\E n \in Names : Trace(n)) \/ StartList \/ EndList
  BY <1>4, ListRead, ListBegun, ListEnded
<1>5. CASE Tick \/ UNCHANGED vars
  <2>1. UNCHANGED <<files, pc, reader>>
    BY <1>5 DEF Tick, vars, runs
  <2> QED
    BY <1>1, <2>1, ListStays
<1> QED
  BY <1>2, <1>3, <1>4, <1>5 DEF Next

\* A list that ends has every trace that was complete when it began and has not been
\* removed, none of a run that has not ended, the newest first and none twice.
THEOREM ListMissesNothingEver == Spec => []ListMissesNothing
<1>1. Init => ListInv
  BY FS_EmptySet DEF Init, ListInv, ListingInv, ListMissesNothing, NoListing
<1>2. ListInv => ListMissesNothing
  BY DEF ListInv
<1>. QED  BY <1>1, <1>2, ListStep, TypeAlways, PTL DEF Spec

=============================================================================
