----------------------------- MODULE SecretFile -----------------------------
(***************************************************************************)
(* The encrypted-file secret backend (adapters/secret_backends.py), as the *)
(* secret commands of the CLI and exec run use it: every call is a process *)
(* that reads the whole file, changes one entry and replaces the file.     *)
(* Nothing locks, so calls interleave at every file operation.             *)
(*                                                                         *)
(* An encrypted file is the pair of its passphrase and its entries: under  *)
(* any other passphrase it does not decrypt to a JSON object.              *)
(***************************************************************************)
CONSTANTS
    Calls,          \* invocations of `ccp secret set`, `delete` and `inspect`
    Secrets,        \* secret names
    Values,
    NoValue,        \* a name the file does not hold
    Keys,           \* passphrases (with the cipher of the profile)
    Absent,         \* no such file
    Partial         \* a file that is being written

Entries == [Secrets -> Values \cup {NoValue}]

Encrypted == [key : Keys, secrets : Entries]

Request == [do : {"set", "delete", "inspect"}, name : Secrets, value : Values]

ASSUME FileAssumption ==
    /\ NoValue \notin Values
    /\ Absent \notin Encrypted
    /\ Partial \notin Encrypted \cup {Absent}

VARIABLES
    file,           \* the file at storagePath
    temp,           \* each call's temporary file beside it
    pc,             \* where each call is
    asked,          \* each call's request
    key,            \* the passphrase in each call's environment
    payload,        \* the entries each call holds in memory
    outcome,        \* what each call has reported
    met,            \* history: the file each call has loaded
    before,         \* history: the entries of the file when each call began
    alone           \* history: no other call was under way since the call began

vars == <<file, temp, pc, asked, key, payload, outcome, met, before, alone>>

Nothing == [s \in Secrets |-> NoValue]

Content(f) == IF f = Absent THEN Nothing ELSE f.secrets

\* secrets[name] = value, secrets.pop(name, None).
Applied(request, entries) ==
    CASE request.do = "set"     -> [entries EXCEPT ![request.name] = request.value]
      [] request.do = "delete"  -> [entries EXCEPT ![request.name] = NoValue]
      [] request.do = "inspect" -> entries

Busy  == {"open", "decrypt", "apply", "unlink", "create", "fill", "replace", "chmod"}
Final == {"done", "crashed"}

\* The file and the non-empty payload of a call are always whole.
TypeOK ==
    /\ file \in Encrypted \cup {Absent}
    /\ file # Absent => file.secrets # Nothing
    /\ temp \in [Calls -> Encrypted \cup {Absent, Partial}]
    /\ pc \in [Calls -> {"idle"} \cup Busy \cup Final]
    /\ asked \in [Calls -> Request]
    /\ key \in [Calls -> Keys]
    /\ payload \in [Calls -> Entries]
    /\ outcome \in [Calls -> {"none", "ok", "error"}]
    /\ met \in [Calls -> Encrypted \cup {Absent}]
    /\ before \in [Calls -> Entries]
    /\ alone \in [Calls -> BOOLEAN]

InitFiles ==
    /\ file = Absent
    /\ temp = [c \in Calls |-> Absent]
    /\ pc = [c \in Calls |-> "idle"]
    /\ payload = [c \in Calls |-> Nothing]
    /\ outcome = [c \in Calls |-> "none"]
    /\ met = [c \in Calls |-> Absent]
    /\ before = [c \in Calls |-> Nothing]
    /\ alone = [c \in Calls |-> FALSE]

Init ==
    /\ InitFiles
    /\ asked \in [Calls -> Request]
    /\ key \in [Calls -> Keys]

-----------------------------------------------------------------------------
Goto(c, label) == pc' = [pc EXCEPT ![c] = label]

Report(c, status) ==
    /\ outcome' = [outcome EXCEPT ![c] = status]
    /\ Goto(c, "done")

inputs  == <<asked, key>>
history == <<before, alone>>

Begin(c) ==
    /\ pc[c] = "idle"
    /\ before' = [before EXCEPT ![c] = Content(file)]
    /\ alone' = [d \in Calls |-> IF d = c THEN \A e \in Calls : pc[e] \notin Busy
                                 ELSE alone[d] /\ pc[d] \notin Busy]
    /\ Goto(c, "open")
    /\ UNCHANGED <<file, temp, inputs, payload, outcome, met>>

\* path.exists(), then path.read_bytes().
FindFile(c) ==
    /\ pc[c] = "open"
    /\ \/ /\ file = Absent
          /\ met' = [met EXCEPT ![c] = Absent]
          /\ payload' = [payload EXCEPT ![c] = Nothing]
          /\ Goto(c, "apply")
       \/ /\ file # Absent
          /\ Goto(c, "decrypt")
          /\ UNCHANGED <<met, payload>>
    /\ UNCHANGED <<file, temp, inputs, outcome, history>>

\* Mutant: what does not decrypt is taken for an empty store.
DecryptLeniently(c) ==
    /\ pc[c] = "decrypt"
    /\ file # Absent
    /\ met' = [met EXCEPT ![c] = file]
    /\ payload' = [payload EXCEPT ![c] = IF file.key = key[c] THEN file.secrets ELSE Nothing]
    /\ Goto(c, "apply")
    /\ UNCHANGED <<file, temp, inputs, outcome, history>>

Decrypt(c) ==
    /\ pc[c] = "decrypt"
    /\ file # Absent
    /\ file.key = key[c]
    /\ met' = [met EXCEPT ![c] = file]
    /\ payload' = [payload EXCEPT ![c] = file.secrets]
    /\ Goto(c, "apply")
    /\ UNCHANGED <<file, temp, inputs, outcome, history>>

Inspect(c) ==
    /\ pc[c] = "apply"
    /\ asked[c].do = "inspect"
    /\ Report(c, IF payload[c][asked[c].name] # NoValue THEN "ok" ELSE "error")
    /\ UNCHANGED <<file, temp, inputs, payload, met, history>>

\* An empty payload removes the file instead of writing it.
Change(c) ==
    /\ pc[c] = "apply"
    /\ asked[c].do # "inspect"
    /\ payload' = [payload EXCEPT ![c] = Applied(asked[c], @)]
    /\ Goto(c, IF payload'[c] = Nothing THEN "unlink" ELSE "create")
    /\ UNCHANGED <<file, temp, inputs, outcome, met, history>>

\* Mutant: an empty payload is not written, and the file stays.
KeepFile(c) ==
    /\ pc[c] = "unlink"
    /\ Report(c, "ok")
    /\ UNCHANGED <<file, temp, inputs, payload, met, history>>

UnlinkFile(c) ==
    /\ pc[c] = "unlink"
    /\ file' = Absent
    /\ Report(c, "ok")
    /\ UNCHANGED <<temp, inputs, payload, met, history>>

CreateTemp(c) ==
    /\ pc[c] = "create"
    /\ temp' = [temp EXCEPT ![c] = Partial]
    /\ Goto(c, "fill")
    /\ UNCHANGED <<file, inputs, payload, outcome, met, history>>

\* Mutant: the temporary file is moved before it is flushed.
FillLater(c) ==
    /\ pc[c] = "fill"
    /\ Goto(c, "replace")
    /\ UNCHANGED <<file, temp, inputs, payload, outcome, met, history>>

FillTemp(c) ==
    /\ pc[c] = "fill"
    /\ temp' = [temp EXCEPT ![c] = [key |-> key[c], secrets |-> payload[c]]]
    /\ Goto(c, "replace")
    /\ UNCHANGED <<file, inputs, payload, outcome, met, history>>

Replace(c) ==
    /\ pc[c] = "replace"
    /\ file' = temp[c]
    /\ temp' = [temp EXCEPT ![c] = Absent]
    /\ Goto(c, "chmod")
    /\ UNCHANGED <<inputs, payload, outcome, met, history>>

\* os.chmod(path) after the move: another call may have unlinked the file.
ChmodFile(c) ==
    /\ pc[c] = "chmod"
    /\ Report(c, IF file = Absent THEN "error" ELSE "ok")
    /\ UNCHANGED <<file, temp, inputs, payload, met, history>>

\* openssl or the passphrase is missing, the file is gone or does not decrypt, or
\* an unlink or a write fails.  A temporary file stays behind.
Fails(c) ==
    /\ pc[c] \in {"open", "decrypt", "unlink", "create", "fill", "replace"}
    /\ Report(c, "error")
    /\ UNCHANGED <<file, temp, inputs, payload, met, history>>

Crash(c) ==
    /\ pc[c] \in Busy
    /\ Goto(c, "crashed")
    /\ UNCHANGED <<file, temp, inputs, payload, outcome, met, history>>

Step(c) ==
    \/ FindFile(c)
    \/ Decrypt(c)
    \/ Inspect(c)
    \/ Change(c)
    \/ UnlinkFile(c)
    \/ CreateTemp(c)
    \/ FillTemp(c)
    \/ Replace(c)
    \/ ChmodFile(c)
    \/ Fails(c)

Next == \E c \in Calls : Begin(c) \/ Step(c) \/ Crash(c)

Spec == Init /\ [][Next]_vars

-----------------------------------------------------------------------------
(* Properties.                                                             *)

\* Whatever calls interleave, fail or are killed, the file changes only into what
\* one call makes of a file that it could decrypt (or of none), under that call's
\* passphrase: a call with the wrong passphrase destroys nothing that it has met.
ChangedFromWhatWasRead ==
    [][file' # file =>
         \E c \in Calls :
            /\ pc[c] \in {"unlink", "replace"}
            /\ pc'[c] # pc[c]
            /\ met[c] # Absent => met[c].key = key[c]
            /\ Content(file') = Applied(asked[c], Content(met[c]))
            /\ file' # Absent => file'.key = key[c]]_vars

\* A call that no other call overlaps is atomic: an OK means that it has taken
\* effect (and, of inspect, that the secret is there), an error that the file holds
\* what it held before, and a kill one of the two.
Ends(c) == pc[c] \in Busy /\ pc'[c] \in Final

AtomicAlone ==
    [][\A c \in Calls : (Ends(c) /\ alone[c]) =>
         LET effect == Applied(asked[c], before[c])
         IN  CASE outcome'[c] = "ok"    ->
                    /\ Content(file') = effect
                    /\ asked[c].do = "inspect" => before[c][asked[c].name] # NoValue
               [] outcome'[c] = "error" -> Content(file') = before[c]
               [] outcome'[c] = "none"  -> Content(file') \in {before[c], effect}]_vars

\* adapters/secret_backends.py:291 answers a set with "secret value stored in
\* encrypted local file backend".  Here: when all calls are over, the file holds
\* every secret whose set was answered OK and that no other call asked to set.
\* Two overlapping sets of different secrets, with one passphrase, violate it.  (A run
\* with a delete or an inspect among its calls is not judged.)
SetsAreKept ==
    (\A c \in Calls : pc[c] \in Final /\ asked[c].do = "set") =>
        \A c \in Calls :
            (/\ outcome[c] = "ok"
             /\ \A d \in Calls \ {c} : asked[d].name # asked[c].name)
            => Content(file)[asked[c].name] = asked[c].value

=============================================================================
