-------------------------- MODULE SecretFileProofs --------------------------
(***************************************************************************)
(* For every number of calls, secrets and passphrases: the file is always  *)
(* whole, it changes only into what one call makes of a file that it could *)
(* decrypt, and a call that no other call overlaps is atomic.              *)
(*                                                                         *)
(* None of the three is inductive.  IInv adds where the payload of a call  *)
(* comes from at every point of its code, and what a call that runs alone  *)
(* knows about the file.                                                   *)
(***************************************************************************)
EXTENDS SecretFile, TLAPS

Writing == {"create", "fill", "replace"}
Changed == {"unlink", "chmod"} \cup Writing

\* What a call holds is what it makes of the file that it loaded.
LoadedFrom(c) ==
    /\ pc[c] \in {"apply"} \cup Changed => (met[c] # Absent => met[c].key = key[c])
    /\ pc[c] = "apply" => payload[c] = Content(met[c])
    /\ pc[c] \in Changed =>
          /\ asked[c].do # "inspect"
          /\ payload[c] = Applied(asked[c], Content(met[c]))
    /\ pc[c] = "unlink" => payload[c] = Nothing
    /\ pc[c] \in Writing => payload[c] # Nothing
    /\ pc[c] = "replace" => temp[c] = [key |-> key[c], secrets |-> payload[c]]

\* A call reports only when it ends.
Silent(c) == pc[c] \notin Final => outcome[c] = "none"

\* As long as no other call overlaps it, a call finds the file as it left it.
Undisturbed(c) ==
    (alone[c] /\ pc[c] \in Busy) =>
        /\ \A d \in Calls \ {c} : pc[d] \notin Busy
        /\ pc[c] # "chmod" => Content(file) = before[c]
        /\ pc[c] \in {"apply"} \cup Changed => Content(met[c]) = before[c]
        /\ pc[c] = "chmod" =>
              /\ file # Absent
              /\ Content(file) = Applied(asked[c], before[c])

IInv ==
    /\ TypeOK
    /\ \A c \in Calls : LoadedFrom(c)
    /\ \A c \in Calls : Silent(c)
    /\ \A c \in Calls : Undisturbed(c)

-----------------------------------------------------------------------------
\* What load and the commands compute on entries are entries: the dictionary
\* operations of adapters/secret_backends.py.
LEMMA EntriesClosed ==
    /\ Nothing \in Entries
    /\ \A f \in Encrypted \cup {Absent} : Content(f) \in Entries
    /\ \A r \in Request, e \in Entries : Applied(r, e) \in Entries
<1>1. Nothing \in Entries
  BY DEF Nothing, Entries
<1>2. ASSUME NEW f \in Encrypted \cup {Absent}
      PROVE  Content(f) \in Entries
  BY <1>1 DEF Content, Encrypted
<1>3. ASSUME NEW r \in Request, NEW e \in Entries
      PROVE  Applied(r, e) \in Entries
  <2>1. CASE r.do = "set"
    BY <2>1 DEF Applied, Request, Entries
  <2>2. CASE r.do = "delete"
    BY <2>2 DEF Applied, Request, Entries
  <2>3. CASE r.do = "inspect"
    BY <2>3 DEF Applied, Request
  <2>4. QED
    BY <2>1, <2>2, <2>3 DEF Request
<1>4. QED
  BY <1>1, <1>2, <1>3

\* An inspect changes no entry.
LEMMA InspectKeeps ==
    ASSUME NEW r \in Request, NEW e \in Entries, r.do = "inspect"
    PROVE  Applied(r, e) = e
  BY DEF Applied, Request

\* No call is under way initially (the arguments of the calls are arbitrary).
LEMMA InitInv == Init => IInv
<1>. SUFFICES ASSUME Init PROVE IInv
  OBVIOUS
<1>. USE DEF Init, InitFiles
<1>1. TypeOK
  BY EntriesClosed DEF TypeOK
<1>2. QED
  BY <1>1 DEF IInv, LoadedFrom, Silent, Undisturbed, Busy, Final, Changed, Writing

\* Every step of a call keeps the types, and the file whole: Replace moves only what
\* FillTemp has written, and only for a payload that is not empty.
LEMMA TypeStep ==
    ASSUME IInv, NEW c \in Calls, Begin(c) \/ Step(c) \/ Crash(c)
    PROVE  TypeOK'
<1>. USE DEF IInv, TypeOK, Busy, Final
<1>1. CASE Begin(c)
  BY <1>1, EntriesClosed DEF Begin, Goto, inputs
<1>2. CASE FindFile(c)
  BY <1>2, EntriesClosed DEF FindFile, Goto, inputs, history
<1>3. CASE Decrypt(c)
  <2>1. file \in Encrypted /\ file.secrets \in Entries
    BY <1>3 DEF Decrypt, Encrypted
  <2>2. QED
    BY <1>3, <2>1 DEF Decrypt, Goto, inputs, history
<1>4. CASE Inspect(c)
  BY <1>4 DEF Inspect, Report, Goto, inputs, history
<1>5. CASE Change(c)
  BY <1>5, EntriesClosed DEF Change, Goto, inputs, history
<1>6. CASE UnlinkFile(c)
  BY <1>6 DEF UnlinkFile, Report, Goto, inputs, history
<1>7. CASE CreateTemp(c)
  BY <1>7 DEF CreateTemp, Goto, inputs, history
<1>8. CASE FillTemp(c)
  <2>1. [key |-> key[c], secrets |-> payload[c]] \in Encrypted
    BY DEF Encrypted
  <2>2. QED
    BY <1>8, <2>1 DEF FillTemp, Goto, inputs, history
<1>9. CASE Replace(c)
  <2>1. /\ temp[c] = [key |-> key[c], secrets |-> payload[c]]
        /\ payload[c] # Nothing
    BY <1>9 DEF Replace, LoadedFrom, Writing
  <2>2. temp[c] \in Encrypted /\ temp[c].secrets # Nothing
    BY <2>1 DEF Encrypted
  <2>3. QED
    BY <1>9, <2>2 DEF Replace, Goto, inputs, history
<1>10. CASE ChmodFile(c)
  BY <1>10 DEF ChmodFile, Report, Goto, inputs, history
<1>11. CASE Fails(c)
  BY <1>11 DEF Fails, Report, Goto, inputs, history
<1>12. CASE Crash(c)
  BY <1>12 DEF Crash, Goto, inputs, history
<1>13. QED
  BY <1>1, <1>2, <1>3, <1>4, <1>5, <1>6, <1>7, <1>8, <1>9, <1>10, <1>11, <1>12 DEF Step

\* Every step keeps the origin of the payload of every call.
LEMMA LoadedStep ==
    ASSUME IInv, NEW c \in Calls, Begin(c) \/ Step(c) \/ Crash(c)
    PROVE  \A d \in Calls : LoadedFrom(d)'
<1>. SUFFICES ASSUME NEW d \in Calls PROVE LoadedFrom(d)'
  OBVIOUS
<1>. USE DEF IInv, TypeOK, LoadedFrom, Changed, Writing, Busy, Final
<1>1. CASE Begin(c)
  BY <1>1 DEF Begin, Goto, inputs
<1>2. CASE FindFile(c)
  <2>1. CASE d = c /\ file = Absent
    BY <1>2, <2>1 DEF FindFile, Goto, inputs, history, Content
  <2>2. CASE d = c /\ file # Absent
    BY <1>2, <2>2 DEF FindFile, Goto, inputs, history
  <2>3. CASE d # c
    BY <1>2, <2>3 DEF FindFile, Goto, inputs, history
  <2>4. QED
    BY <2>1, <2>2, <2>3
<1>3. CASE Decrypt(c)
  <2>1. Content(file) = file.secrets
    BY <1>3 DEF Decrypt, Content
  <2>2. CASE d = c
    BY <1>3, <2>1, <2>2 DEF Decrypt, Goto, inputs, history
  <2>3. CASE d # c
    BY <1>3, <2>3 DEF Decrypt, Goto, inputs, history
  <2>4. QED
    BY <2>2, <2>3
<1>4. CASE Inspect(c)
  BY <1>4 DEF Inspect, Report, Goto, inputs, history
<1>5. CASE Change(c)
  BY <1>5 DEF Change, Goto, inputs, history
<1>6. CASE UnlinkFile(c)
  BY <1>6 DEF UnlinkFile, Report, Goto, inputs, history
<1>7. CASE CreateTemp(c)
  BY <1>7 DEF CreateTemp, Goto, inputs, history
<1>8. CASE FillTemp(c)
  BY <1>8 DEF FillTemp, Goto, inputs, history
<1>9. CASE Replace(c)
  BY <1>9 DEF Replace, Goto, inputs, history
<1>10. CASE ChmodFile(c)
  BY <1>10 DEF ChmodFile, Report, Goto, inputs, history
<1>11. CASE Fails(c)
  BY <1>11 DEF Fails, Report, Goto, inputs, history
<1>12. CASE Crash(c)
  BY <1>12 DEF Crash, Goto, inputs, history
<1>13. QED
  BY <1>1, <1>2, <1>3, <1>4, <1>5, <1>6, <1>7, <1>8, <1>9, <1>10, <1>11, <1>12 DEF Step

\* Every step keeps the report of a call for its end.
LEMMA SilentStep ==
    ASSUME IInv, NEW c \in Calls, Begin(c) \/ Step(c) \/ Crash(c)
    PROVE  \A d \in Calls : Silent(d)'
<1>. SUFFICES ASSUME NEW d \in Calls PROVE Silent(d)'
  OBVIOUS
<1>. USE DEF IInv, TypeOK, Silent, Busy, Final
<1>1. CASE Begin(c)
  BY <1>1 DEF Begin, Goto, inputs
<1>2. CASE FindFile(c)
  BY <1>2 DEF FindFile, Goto, inputs, history
<1>3. CASE Decrypt(c)
  BY <1>3 DEF Decrypt, Goto, inputs, history
<1>4. CASE Inspect(c)
  BY <1>4 DEF Inspect, Report, Goto, inputs, history
<1>5. CASE Change(c)
  BY <1>5 DEF Change, Goto, inputs, history
<1>6. CASE UnlinkFile(c)
  BY <1>6 DEF UnlinkFile, Report, Goto, inputs, history
<1>7. CASE CreateTemp(c)
  BY <1>7 DEF CreateTemp, Goto, inputs, history
<1>8. CASE FillTemp(c)
  BY <1>8 DEF FillTemp, Goto, inputs, history
<1>9. CASE Replace(c)
  BY <1>9 DEF Replace, Goto, inputs, history
<1>10. CASE ChmodFile(c)
  BY <1>10 DEF ChmodFile, Report, Goto, inputs, history
<1>11. CASE Fails(c)
  BY <1>11 DEF Fails, Report, Goto, inputs, history
<1>12. CASE Crash(c)
  BY <1>12 DEF Crash, Goto, inputs, history
<1>13. QED
  BY <1>1, <1>2, <1>3, <1>4, <1>5, <1>6, <1>7, <1>8, <1>9, <1>10, <1>11, <1>12 DEF Step

\* Every step keeps what a call that runs alone knows: another call that begins ends
\* its being alone, and only a call that is under way changes the file.
LEMMA UndisturbedStep ==
    ASSUME IInv, NEW c \in Calls, Begin(c) \/ Step(c) \/ Crash(c)
    PROVE  \A d \in Calls : Undisturbed(d)'
<1>. SUFFICES ASSUME NEW d \in Calls PROVE Undisturbed(d)'
  OBVIOUS
<1>. USE DEF IInv, TypeOK, LoadedFrom, Undisturbed, Changed, Writing, Busy, Final
<1>1. CASE Begin(c)
  BY <1>1 DEF Begin, Goto, inputs
<1>2. CASE FindFile(c)
  BY <1>2 DEF FindFile, Goto, inputs, history
<1>3. CASE Decrypt(c)
  BY <1>3 DEF Decrypt, Goto, inputs, history
<1>4. CASE Inspect(c)
  BY <1>4 DEF Inspect, Report, Goto, inputs, history
<1>5. CASE Change(c)
  BY <1>5 DEF Change, Goto, inputs, history
<1>6. CASE UnlinkFile(c)
  BY <1>6 DEF UnlinkFile, Report, Goto, inputs, history
<1>7. CASE CreateTemp(c)
  BY <1>7 DEF CreateTemp, Goto, inputs, history
<1>8. CASE FillTemp(c)
  BY <1>8 DEF FillTemp, Goto, inputs, history
<1>9. CASE Replace(c)
  <2>1. file' # Absent /\ Content(file') = payload[c]
    BY <1>9, FileAssumption DEF Replace, Content, Encrypted
  <2>2. CASE d = c
    BY <1>9, <2>1, <2>2 DEF Replace, Goto, inputs, history
  <2>3. CASE d # c
    BY <1>9, <2>3 DEF Replace, Goto, inputs, history
  <2>4. QED
    BY <2>2, <2>3
<1>10. CASE ChmodFile(c)
  BY <1>10 DEF ChmodFile, Report, Goto, inputs, history
<1>11. CASE Fails(c)
  BY <1>11 DEF Fails, Report, Goto, inputs, history
<1>12. CASE Crash(c)
  BY <1>12 DEF Crash, Goto, inputs, history
<1>13. QED
  BY <1>1, <1>2, <1>3, <1>4, <1>5, <1>6, <1>7, <1>8, <1>9, <1>10, <1>11, <1>12 DEF Step

-----------------------------------------------------------------------------
\* A step of the specification keeps the whole invariant.
LEMMA StepInv == IInv /\ [Next]_vars => IInv'
<1>1. ASSUME IInv, UNCHANGED vars
      PROVE  IInv'
  BY <1>1 DEF vars, IInv, TypeOK, LoadedFrom, Silent, Undisturbed
<1>2. ASSUME IInv, NEW c \in Calls, Begin(c) \/ Step(c) \/ Crash(c)
      PROVE  IInv'
  BY <1>2, TypeStep, LoadedStep, SilentStep, UndisturbedStep DEF IInv
<1>3. QED
  BY <1>1, <1>2 DEF Next

LEMMA Invariance == Spec => []IInv
  BY InitInv, StepInv, PTL DEF Spec

\* Whatever calls do, the file at storagePath is absent, or whole, under one
\* passphrase and with an entry (_write_encrypted_file_payload).
THEOREM TypeCorrect == Spec => []TypeOK
<1>1. IInv => TypeOK
  BY DEF IInv
<1>2. QED
  BY <1>1, Invariance, PTL

-----------------------------------------------------------------------------
\* Only the unlink and the replace of a call change the file.
LEMMA StepKeepsFile ==
    ASSUME NEW c \in Calls, Begin(c) \/ Step(c) \/ Crash(c),
           ~UnlinkFile(c), ~Replace(c)
    PROVE  file' = file
  BY DEF Begin, Step, Crash, FindFile, Decrypt, Inspect, Change, CreateTemp, FillTemp,
         ChmodFile, Fails

\* A step that changes the file changes it as ChangedFromWhatWasRead says.
LEMMA ChangingStep ==
    ASSUME IInv, Next, file' # file
    PROVE  \E c \in Calls :
              /\ pc[c] \in {"unlink", "replace"}
              /\ pc'[c] # pc[c]
              /\ met[c] # Absent => met[c].key = key[c]
              /\ Content(file') = Applied(asked[c], Content(met[c]))
              /\ file' # Absent => file'.key = key[c]
<1>1. PICK c \in Calls : Begin(c) \/ Step(c) \/ Crash(c)
  BY DEF Next
<1>2. LoadedFrom(c) /\ pc \in [Calls -> {"idle"} \cup Busy \cup Final]
  BY DEF IInv, TypeOK
<1>3. CASE UnlinkFile(c)
  <2>1. Content(file') = Nothing
    BY <1>3 DEF UnlinkFile, Content
  <2>2. QED
    BY <1>2, <1>3, <2>1 DEF UnlinkFile, Report, Goto, LoadedFrom, Changed
<1>4. CASE Replace(c)
  <2>1. file' = [key |-> key[c], secrets |-> payload[c]]
    BY <1>2, <1>4 DEF Replace, LoadedFrom
  <2>2. file' # Absent /\ Content(file') = payload[c] /\ file'.key = key[c]
    BY <2>1, FileAssumption DEF Content, Encrypted, IInv, TypeOK
  <2>3. QED
    BY <1>2, <1>4, <2>2 DEF Replace, Goto, LoadedFrom, Changed, Writing
<1>5. QED
  BY <1>1, <1>3, <1>4, StepKeepsFile

\* The code reads with the passphrase before it writes with it: what no passphrase
\* of the call decrypts it leaves alone (_load_encrypted_file_payload).
THEOREM OnlyWhatWasReadChanges == Spec => ChangedFromWhatWasRead
<1>1. IInv /\ [Next]_vars =>
        [file' # file =>
           \E c \in Calls :
              /\ pc[c] \in {"unlink", "replace"}
              /\ pc'[c] # pc[c]
              /\ met[c] # Absent => met[c].key = key[c]
              /\ Content(file') = Applied(asked[c], Content(met[c]))
              /\ file' # Absent => file'.key = key[c]]_vars
  BY ChangingStep
<1>2. QED
  BY <1>1, Invariance, PTL DEF Spec, ChangedFromWhatWasRead

-----------------------------------------------------------------------------
\* What AtomicAlone says of one call at one step.
EndsWhole(c) ==
    LET effect == Applied(asked[c], before[c])
    IN  CASE outcome'[c] = "ok"    ->
               /\ Content(file') = effect
               /\ asked[c].do = "inspect" => before[c][asked[c].name] # NoValue
          [] outcome'[c] = "error" -> Content(file') = before[c]
          [] outcome'[c] = "none"  -> Content(file') \in {before[c], effect}

\* Only its own steps end a call.
LEMMA EndsByItself ==
    ASSUME IInv, NEW c \in Calls, Next, Ends(c)
    PROVE  Inspect(c) \/ UnlinkFile(c) \/ ChmodFile(c) \/ Fails(c) \/ Crash(c)
<1>1. PICK d \in Calls : Begin(d) \/ Step(d) \/ Crash(d)
  BY DEF Next
<1>. USE DEF IInv, TypeOK, Ends, Busy, Final
<1>2. d = c
  BY <1>1 DEF Begin, Step, Crash, FindFile, Decrypt, Inspect, Change, UnlinkFile,
              CreateTemp, FillTemp, Replace, ChmodFile, Fails, Report, Goto
<1>3. QED
  BY <1>1, <1>2 DEF Begin, Step, FindFile, Decrypt, Change, CreateTemp, FillTemp,
                    Replace, Goto

\* A call that ends alone ends as AtomicAlone says: what it loaded is what the
\* file held when it began, and nobody else has written since.
LEMMA AloneEndsWhole ==
    ASSUME IInv, NEW c \in Calls, Next, Ends(c), alone[c]
    PROVE  EndsWhole(c)
<1>. DEFINE effect == Applied(asked[c], before[c])
<1>1. /\ LoadedFrom(c) /\ Undisturbed(c) /\ Silent(c)
      /\ pc[c] \in Busy /\ pc[c] \notin Final
      /\ asked[c] \in Request /\ before[c] \in Entries
      /\ outcome \in [Calls -> {"none", "ok", "error"}]
  BY DEF IInv, TypeOK, Ends, Busy, Final
<1>2. CASE Inspect(c)
  <2>1. Content(file') = before[c] /\ payload[c] = before[c]
    BY <1>1, <1>2 DEF Inspect, Undisturbed, LoadedFrom, Content
  <2>2. effect = before[c]
    BY <1>1, <1>2, InspectKeeps DEF Inspect
  <2>3. \/ outcome'[c] = "ok" /\ before[c][asked[c].name] # NoValue
        \/ outcome'[c] = "error"
    BY <1>1, <1>2, <2>1 DEF Inspect, Report
  <2>4. QED
    BY <2>1, <2>2, <2>3 DEF EndsWhole
<1>3. CASE UnlinkFile(c)
  <2>1. Content(file') = Nothing
    BY <1>3 DEF UnlinkFile, Content
  <2>2. effect = Nothing /\ asked[c].do # "inspect"
    BY <1>1, <1>3 DEF UnlinkFile, LoadedFrom, Undisturbed, Changed
  <2>3. outcome'[c] = "ok"
    BY <1>1, <1>3 DEF UnlinkFile, Report
  <2>4. QED
    BY <2>1, <2>2, <2>3 DEF EndsWhole
<1>4. CASE ChmodFile(c)
  <2>1. outcome'[c] = "ok" /\ Content(file') = effect
    BY <1>1, <1>4 DEF ChmodFile, Report, Undisturbed, Content
  <2>2. asked[c].do # "inspect"
    BY <1>1, <1>4 DEF ChmodFile, LoadedFrom, Changed
  <2>3. QED
    BY <2>1, <2>2 DEF EndsWhole
<1>5. CASE Fails(c)
  <2>1. Content(file') = before[c]
    BY <1>1, <1>5 DEF Fails, Undisturbed, Content
  <2>2. outcome'[c] = "error"
    BY <1>1, <1>5 DEF Fails, Report
  <2>3. QED
    BY <2>1, <2>2 DEF EndsWhole
<1>6. CASE Crash(c)
  <2>1. Content(file') \in {before[c], effect}
    BY <1>1, <1>6 DEF Crash, Undisturbed, Content
  <2>2. outcome'[c] = "none"
    BY <1>1, <1>6 DEF Crash, Silent
  <2>3. QED
    BY <2>1, <2>2 DEF EndsWhole
<1>7. QED
  BY <1>2, <1>3, <1>4, <1>5, <1>6, EndsByItself

\* A set, delete or inspect that no other call overlaps takes effect or not, and
\* says which, however it ends (store_secret_value, delete_secret_value).
THEOREM CallsAreAtomicAlone == Spec => AtomicAlone
<1>1. ASSUME IInv, [Next]_vars
      PROVE  [\A c \in Calls : (Ends(c) /\ alone[c]) => EndsWhole(c)]_vars
  <2>1. CASE UNCHANGED vars
    BY <2>1
  <2>2. CASE Next
    BY <1>1, <2>2, AloneEndsWhole
  <2>3. QED
    BY <1>1, <2>1, <2>2
<1>2. (Spec => []IInv) => (Spec => AtomicAlone)
  BY <1>1, PTL DEF Spec, AtomicAlone, EndsWhole
<1>3. QED
  BY <1>2, Invariance

=============================================================================
