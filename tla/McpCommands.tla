---------------------------- MODULE McpCommands -----------------------------
(***************************************************************************)
(* The MCP commands of the CLI over one resource directory: `mcp add`       *)
(* writes a server and a policy file, `mcp disable` rewrites the file that  *)
(* decides, `mcp list` and `mcp test` load the directory file by file and   *)
(* report (kernel/mcp.py, kernel/loaders.py, surfaces/cli_dispatch.py).     *)
(* Calls are processes without a lock among them; one may be killed, or    *)
(* end in an OSError, between any two file operations.                     *)
(***************************************************************************)
EXTENDS McpRegistry

CONSTANTS
    Calls,
    Requests,       \* what a call may be asked to do
    ServerPath,     \* <name>.server.json
    PolicyPath,     \* <name>.policy.json
    Directories     \* what the directory may hold at first, written by hand

ASSUME CommandsAssumption ==
    /\ Requests \subseteq Request
    /\ ServerPath \in [Names -> Paths]
    /\ PolicyPath \in [Names -> Paths]
    /\ \A m, n \in Names : ServerPath[m] # PolicyPath[n]
    /\ \A n \in Names : PolicyPath[n] <= ServerPath[n]
    /\ \A m, n \in Names : m # n =>
           ServerPath[m] # ServerPath[n] /\ PolicyPath[m] # PolicyPath[n]
    /\ Directories \subseteq [Paths -> Document \cup {Absent}]

VARIABLES
    files,          \* the directory
    request,        \* of each call
    pc,
    toRead,         \* the files a call has listed and not read yet
    view,           \* what it has read
    answer,         \* its status and its reports
    calm,           \* history: no add has run since the call began
    writers,        \* history: the other calls that have written since then
    truths          \* history: the right reports since then

call    == <<pc, toRead, view, answer>>
history == <<calm, writers, truths>>
vars    == <<files, request, call, history>>

Labels == {"idle", "checkServer", "checkPolicy", "openServer", "writeServer",
           "openPolicy", "writePolicy", "list", "read", "openSource",
           "writeSource", "done"}

Whole(dir) == \A p \in Paths : dir[p] \notin Damaged

Unread == [p \in Paths |-> Absent]

\* What add and disable leave behind is of the kind and the name of its path.
TypeOK ==
    /\ files \in Directory
    /\ \E dir \in Directories : \A p \in Paths : files[p] # dir[p] =>
           \/ files[p] \in Damaged
           \/ dir[p] # Absent /\ files[p] = [dir[p] EXCEPT !.spec.enabled = FALSE]
           \/ /\ dir[p] = Absent
              /\ \E n \in Names :
                     \/ p = ServerPath[n] /\ p \in Variants(files, "McpServer", n)
                     \/ p = PolicyPath[n] /\ p \in Variants(files, "McpPolicy", n)
    /\ request \in [Calls -> Requests]
    /\ pc \in [Calls -> Labels]
    /\ toRead \in [Calls -> SUBSET Paths]
    /\ view \in [Calls -> Directory]
    /\ \A c \in Calls :
           /\ Whole(view[c])
           /\ answer[c].status \in {"none", "OK", "ERROR", "killed"}
           /\ answer[c].reports # {} => answer[c].reports = Reports(view[c], request[c])
    /\ calm \in [Calls -> BOOLEAN]
    /\ writers \in [Calls -> SUBSET Calls]

Init ==
    /\ files \in Directories
    /\ request \in [Calls -> Requests]
    /\ pc = [c \in Calls |-> "idle"]
    /\ toRead = [c \in Calls |-> {}]
    /\ view = [c \in Calls |-> Unread]
    /\ answer = [c \in Calls |-> [status |-> "none", reports |-> {}]]
    /\ calm = [c \in Calls |-> FALSE]
    /\ writers = [c \in Calls |-> {}]
    /\ truths = [c \in Calls |-> {}]

-----------------------------------------------------------------------------
(* Steps of a call.                                                        *)

Running(c) == pc[c] \notin {"idle", "done"}

Adding(c) == Running(c) /\ request[c].op = "add"

Reading(c) == Running(c) /\ request[c].op \in {"list", "test"}

Goto(c, label) ==
    /\ pc' = [pc EXCEPT ![c] = label]
    /\ UNCHANGED answer

Answer(c, status, reports) ==
    /\ pc' = [pc EXCEPT ![c] = "done"]
    /\ answer' = [answer EXCEPT ![c] = [status |-> status, reports |-> reports]]

Truth(dir, c) == IF Whole(dir) THEN {Reports(dir, request[c])} ELSE {}

\* A file is written, which the other calls may come to see.
Put(c, p, content) ==
    /\ files' = [files EXCEPT ![p] = content]
    /\ writers' = [d \in Calls |-> IF Reading(d) /\ d # c THEN writers[d] \cup {c} ELSE writers[d]]
    /\ truths' = [d \in Calls |-> IF Reading(d) THEN truths[d] \cup Truth(files', d) ELSE truths[d]]
    /\ UNCHANGED <<request, toRead, view, calm>>

\* write_text opens the file, which cuts it off,
Open(c, p) == Put(c, p, Empty)

\* and then writes from its start; where another call has written meanwhile, a longer
\* text keeps its end.
Write(c, p, document) ==
    \/ Put(c, p, document)
    \/ files[p] \notin {Empty, document} /\ Put(c, p, Garbled)

-----------------------------------------------------------------------------
Begin(c) ==
    /\ pc[c] = "idle"
    /\ IF request[c].op # "add" THEN Goto(c, "list")
       ELSE IF request[c].tier = BadTier THEN Answer(c, "ERROR", {})
       ELSE Goto(c, "checkServer")
    /\ calm' = [d \in Calls |-> IF d = c THEN \A e \in Calls \ {c} : ~Adding(e)
                                ELSE calm[d] /\ request[c].op # "add"]
    /\ truths' = [truths EXCEPT ![c] =
                      IF request[c].op \in {"list", "test"} THEN Truth(files, c) ELSE {}]
    /\ UNCHANGED <<files, request, toRead, view, writers>>

\* add_mcp_resources: there must be neither file.
Check(c, label, p, next) ==
    /\ pc[c] = label
    /\ IF files[p] # Absent THEN Answer(c, "ERROR", {}) ELSE Goto(c, next)
    /\ UNCHANGED <<files, request, toRead, view, history>>

CheckServer(c) == Check(c, "checkServer", ServerPath[request[c].name], "checkPolicy")

\* Mutant: only the server's file is looked for.
CheckNothing(c) ==
    /\ pc[c] = "checkPolicy"
    /\ Goto(c, "openServer")
    /\ UNCHANGED <<files, request, toRead, view, history>>

CheckPolicy(c) == Check(c, "checkPolicy", PolicyPath[request[c].name], "openServer")

NewServer(r) ==
    [kind |-> "McpServer", name |-> r.name,
     spec |-> [command |-> r.command, enabled |-> r.enabled, targets |-> Unset,
               tier |-> Unset, strict |-> Unset]]

NewPolicy(r) ==
    [kind |-> "McpPolicy", name |-> r.name,
     spec |-> [command |-> Unset, enabled |-> Unset, targets |-> {r.name},
               tier |-> r.tier, strict |-> TRUE]]

OpenServer(c) ==
    /\ pc[c] = "openServer"
    /\ Open(c, ServerPath[request[c].name])
    /\ Goto(c, "writeServer")

WriteServer(c) ==
    /\ pc[c] = "writeServer"
    /\ Write(c, ServerPath[request[c].name], NewServer(request[c]))
    /\ Goto(c, "openPolicy")

OpenPolicy(c) ==
    /\ pc[c] = "openPolicy"
    /\ Open(c, PolicyPath[request[c].name])
    /\ Goto(c, "writePolicy")

\* Mutant: the server's document goes into both files.
WriteServerTwice(c) ==
    /\ pc[c] = "writePolicy"
    /\ Write(c, PolicyPath[request[c].name], NewServer(request[c]))
    /\ Answer(c, "OK", {})

WritePolicy(c) ==
    /\ pc[c] = "writePolicy"
    /\ Write(c, PolicyPath[request[c].name], NewPolicy(request[c]))
    /\ Answer(c, "OK", {})

-----------------------------------------------------------------------------
(* load_mcp_registry.                                                      *)

List(c) ==
    /\ pc[c] = "list"
    /\ toRead' = [toRead EXCEPT ![c] = {p \in Paths : files[p] # Absent}]
    /\ Goto(c, "read")
    /\ UNCHANGED <<files, request, view, history>>

NextPath(c) == CHOOSE p \in toRead[c] : \A q \in toRead[c] : p <= q

\* Mutant: a file that is no JSON is passed over.
ReadLeniently(c) ==
    /\ pc[c] = "read"
    /\ toRead[c] # {}
    /\ toRead' = [toRead EXCEPT ![c] = @ \ {NextPath(c)}]
    /\ view' = IF files[NextPath(c)] \in Damaged THEN view
               ELSE [view EXCEPT ![c][NextPath(c)] = files[NextPath(c)]]
    /\ Goto(c, "read")
    /\ UNCHANGED <<files, request, history>>

Read(c) ==
    /\ pc[c] = "read"
    /\ toRead[c] # {}
    /\ toRead' = [toRead EXCEPT ![c] = @ \ {NextPath(c)}]
    /\ IF files[NextPath(c)] \in Damaged
       THEN Answer(c, "ERROR", {}) /\ UNCHANGED view
       ELSE /\ view' = [view EXCEPT ![c][NextPath(c)] = files[NextPath(c)]]
            /\ Goto(c, "read")
    /\ UNCHANGED <<files, request, history>>

Loaded(c) == pc[c] = "read" /\ toRead[c] = {}

\* mcp test answers OK only for a server that is safe.
Tell(c) ==
    /\ Loaded(c)
    /\ request[c].op \in {"list", "test"}
    /\ LET reports == Reports(view[c], request[c])
           fine    == /\ reports # {}
                      /\ request[c].op = "test" => \A r \in reports : r.health = "safe"
       IN  Answer(c, IF fine THEN "OK" ELSE "ERROR", reports)
    /\ UNCHANGED <<files, request, toRead, view, history>>

Source(c) == Winner(view[c], request[c].name)

\* disable_mcp_server loads the file that decides once more.
Reload(c) ==
    /\ Loaded(c)
    /\ request[c].op = "disable"
    /\ IF \/ request[c].name \notin Servers(view[c])
          \/ ServerMalformed(view[c], request[c].name)
          \/ files[Source(c)] \in Damaged
       THEN Answer(c, "ERROR", {}) /\ UNCHANGED view
       ELSE /\ view' = [view EXCEPT ![c][Source(c)] = files[Source(c)]]
            /\ Goto(c, "openSource")
    /\ UNCHANGED <<files, request, toRead, history>>

OpenSource(c) ==
    /\ pc[c] = "openSource"
    /\ Open(c, Source(c))
    /\ Goto(c, "writeSource")

WriteSource(c) ==
    /\ pc[c] = "writeSource"
    /\ Write(c, Source(c), [view[c][Source(c)] EXCEPT !.spec.enabled = FALSE])
    /\ Answer(c, "OK", {})

\* The process is killed, or an OSError comes out of it.
Stop(c) ==
    /\ Running(c)
    /\ Answer(c, "killed", {})
    /\ UNCHANGED <<files, request, toRead, view, history>>

-----------------------------------------------------------------------------
Add(c) ==
    \/ CheckServer(c)
    \/ CheckPolicy(c)
    \/ OpenServer(c)
    \/ WriteServer(c)
    \/ OpenPolicy(c)
    \/ WritePolicy(c)

Load(c) == List(c) \/ Read(c) \/ Tell(c)

Disable(c) == Reload(c) \/ OpenSource(c) \/ WriteSource(c)

Next == \E c \in Calls : Begin(c) \/ Add(c) \/ Load(c) \/ Disable(c) \/ Stop(c)

Spec == Init /\ [][Next]_vars

-----------------------------------------------------------------------------
(* Properties.                                                             *)

Ok(c, op) == request[c].op = op /\ answer[c].status = "OK"

\* A server that mcp disable has answered OK for stays disabled, whatever other calls
\* have overlapped and however its resource is spread over files, unless an add has
\* run since (disable_mcp_server writes the file that decides in the merge).
DisabledStays ==
    \A c \in Calls :
        (Ok(c, "disable") /\ calm[c] /\ Whole(files)) => ~Enabled(files, request[c].name)

\* After an OK mcp add that no other add has overlapped, its policy is the one that
\* governs the server, though other policies target it (resolve_mcp_policy), unless
\* another file has a policy of the same name.
AddedPolicyGoverns ==
    \A c \in Calls :
        LET n == request[c].name
        IN  (/\ Ok(c, "add")
             /\ calm[c]
             /\ Whole(files)
             /\ Variants(files, "McpPolicy", n) = {PolicyPath[n]})
            => Attached(files, n) = n /\ Tier(files, n) = request[c].tier

\* mcp list and mcp test read file by file.  With one other call writing meanwhile,
\* what they report was right at some moment since they began.
ReportWasTrue ==
    \A c \in Calls :
        (answer[c].reports # {} /\ Cardinality(writers[c]) <= 1) =>
            answer[c].reports \in truths[c]

\* A document on file is only ever changed by disable in the file that decides; mcp
\* add refuses the files that are there, as long as no other add overlaps it.
ExistingFilesKept ==
    [][\A p \in Paths :
          (files[p] \in Document /\ files'[p] # files[p]) =>
              \E c \in Calls :
                  \/ request[c].op = "disable" /\ pc[c] \in {"openSource", "writeSource"} /\ p = Source(c)
                  \/ Adding(c) /\ ~calm[c]]_vars

=============================================================================
