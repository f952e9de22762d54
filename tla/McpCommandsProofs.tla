-------------------------- MODULE McpCommandsProofs --------------------------
(***************************************************************************)
(* For any number of calls, names and files: what the MCP commands do to a *)
(* directory of resources.                                                 *)
(*                                                                         *)
(* The invariant says of every file what it may have become of the file    *)
(* that was there at first, and that what a call has read is one of those: *)
(* a path keeps the kind and the name of its document.  What an add has    *)
(* found missing stays missing until it writes, unless another add runs,   *)
(* and what a disable has read is all there is.  The last part adds what a *)
(* call will have read, against which the reports are judged.              *)
(***************************************************************************)
EXTENDS McpCommands, FiniteSetTheorems, WellFoundedInduction, TLAPS

AddLabels == {"checkServer", "checkPolicy", "openServer", "writeServer", "openPolicy", "writePolicy"}

ServerOf(c) == ServerPath[request[c].name]

PolicyOf(c) == PolicyPath[request[c].name]

Off(document) == [document EXCEPT !.spec.enabled = FALSE]

\* A document that an add of the name n may put at the path p.
Fits(document, p, n) ==
    \/ p = ServerPath[n] /\ document.kind = "McpServer" /\ document.name = n
    \/ p = PolicyPath[n] /\ document.kind = "McpPolicy" /\ document.name = n

\* What may stand at a path at which dir had a document, and where it had none.
Allowed(dir, p) ==
    IF dir[p] # Absent THEN {dir[p], Off(dir[p])}
    ELSE {document \in Document : \E n \in Names : Fits(document, p, n)}

\* The directory has come from dir, and so has what the calls have read of it.
From(dir) ==
    /\ \A p \in Paths : files[p] \in Allowed(dir, p) \cup Damaged \cup ({Absent} \cap {dir[p]})
    /\ \A c \in Calls : \A p \in Paths :
         /\ view[c][p] \in Allowed(dir, p) \cup {Absent}
         /\ view[c][p] # Absent => files[p] # Absent
    /\ \A c \in Calls :
         /\ pc[c] \in {"checkPolicy", "openServer", "writeServer"} => dir[ServerOf(c)] = Absent
         /\ pc[c] \in {"openServer", "writeServer", "openPolicy", "writePolicy"} =>
              dir[PolicyOf(c)] = Absent

Typed ==
    /\ files \in Directory
    /\ request \in [Calls -> Requests]
    /\ pc \in [Calls -> Labels]
    /\ toRead \in [Calls -> SUBSET Paths]
    /\ view \in [Calls -> Directory]
    /\ answer = [c \in Calls |-> answer[c]]
    /\ calm \in [Calls -> BOOLEAN]
    /\ writers \in [Calls -> SUBSET Calls]

\* Where a call is fits what it was asked to do, and it answers when it ends.
Asks(c) ==
    /\ pc[c] \in AddLabels => request[c].op = "add"
    /\ pc[c] \in {"list", "read"} => request[c].op \in {"list", "test", "disable"}
    /\ pc[c] \in {"openSource", "writeSource"} => request[c].op = "disable"
    /\ pc[c] # "done" => answer[c] = [status |-> "none", reports |-> {}]
    /\ answer[c].status \in {"none", "OK", "ERROR", "killed"}
    /\ answer[c].reports # {} => answer[c].reports = Reports(view[c], request[c])

\* No add has run beside a calm call.
Calm(c) == calm[c] => \A d \in Calls \ {c} : ~Adding(d)

\* A disable writes to the last of the files that it has read of the server.
Decides(c) ==
    pc[c] \in {"openSource", "writeSource"} \/ Ok(c, "disable") =>
        /\ Variants(view[c], "McpServer", request[c].name) # {}
        /\ toRead[c] = {}

\* It has read every file, as long as no add has run.
HasRead(c) ==
    /\ request[c].op = "disable" /\ calm[c]
    /\ pc[c] \in {"read", "openSource", "writeSource"} \/ Ok(c, "disable")
    => \A p \in Paths : files[p] # Absent => p \in toRead[c] \/ view[c][p] # Absent

HasDisabled(c) ==
    Ok(c, "disable") /\ calm[c] =>
        files[Source(c)] \in Damaged \/ files[Source(c)].spec.enabled = FALSE

\* A calm add is the first to write its files.
IsFirst(c) ==
    calm[c] =>
        /\ pc[c] \in {"checkPolicy", "openServer"} => files[ServerOf(c)] = Absent
        /\ pc[c] \in {"openServer", "writeServer", "openPolicy"} => files[PolicyOf(c)] = Absent
        /\ pc[c] = "writeServer" =>
             files[ServerOf(c)] = Empty /\ \A d \in Calls : view[d][ServerOf(c)] = Absent
        /\ pc[c] = "writePolicy" =>
             files[PolicyOf(c)] = Empty /\ \A d \in Calls : view[d][PolicyOf(c)] = Absent
        /\ Ok(c, "add") => files[PolicyOf(c)] = NewPolicy(request[c])

Inv(dir) ==
    /\ Typed
    /\ From(dir)
    /\ \A c \in Calls : Asks(c) /\ Calm(c) /\ Decides(c) /\ HasRead(c) /\ HasDisabled(c) /\ IsFirst(c)

IInv == \E dir \in Directories : Inv(dir)

-----------------------------------------------------------------------------
(* Documents.                                                              *)

\* What the constants are.
LEMMA Constants ==
    /\ Absent \notin Document /\ Empty \notin Document /\ Garbled \notin Document
    /\ Absent # Empty /\ Absent # Garbled
    /\ \A dir \in Directories, p \in Paths : dir[p] \in Document \cup {Absent}
  BY RegistryAssumption, CommandsAssumption DEF Damaged

LEMMA OffIsDocument ==
    ASSUME NEW document \in Document
    PROVE  /\ Off(document) \in Document
           /\ Off(document).kind = document.kind
           /\ Off(document).name = document.name
           /\ Off(document).spec.enabled = FALSE
           /\ Off(Off(document)) = Off(document)
<1>1. document.spec \in ResourceSpec
  BY DEF Document
<1>2. [document.spec EXCEPT !.enabled = FALSE] \in ResourceSpec
  BY <1>1 DEF ResourceSpec
<1>. QED  BY <1>1, <1>2 DEF Off, Document, ResourceSpec

\* A path keeps the kind and the name of its document.
LEMMA Alike ==
    ASSUME NEW dir \in Directories, NEW p \in Paths,
           NEW d \in Allowed(dir, p), NEW e \in Allowed(dir, p)
    PROVE  /\ d \in Document
           /\ d.kind = e.kind
           /\ d.name = e.name
           /\ Off(d) \in Allowed(dir, p)
<1>1. CASE dir[p] # Absent
  BY <1>1, Constants, OffIsDocument DEF Allowed
<1>2. CASE dir[p] = Absent
  <2>1. d \in Document /\ e \in Document
    BY <1>2 DEF Allowed
  <2>2. PICK m \in Names : Fits(d, p, m)
    BY <1>2 DEF Allowed
  <2>3. PICK n \in Names : Fits(e, p, n)
    BY <1>2 DEF Allowed
  <2>4. d.kind = e.kind /\ d.name = e.name
    BY <2>2, <2>3, CommandsAssumption DEF Fits
  <2>5. Fits(Off(d), p, m)
    BY <2>1, <2>2, OffIsDocument DEF Fits
  <2>6. Off(d) \in Allowed(dir, p)
    BY <1>2, <2>1, <2>5, OffIsDocument DEF Allowed
  <2>. QED  BY <2>1, <2>4, <2>6
<1>. QED  BY <1>1, <1>2

\* The last of some paths is one of them.
LEMMA LastIsLast ==
    ASSUME NEW paths \in SUBSET Paths, paths # {}
    PROVE  LastOf(paths) \in paths /\ \A q \in paths : q <= LastOf(paths)
  BY RegistryAssumption DEF LastOf

\* What add and disable are asked names a server.
LEMMA NameIsAsked ==
    ASSUME Typed, NEW c \in Calls, request[c].op \in {"add", "disable"}
    PROVE  /\ request[c] \in Request
           /\ request[c].name \in Names
           /\ ServerOf(c) \in Paths /\ PolicyOf(c) \in Paths /\ ServerOf(c) # PolicyOf(c)
<1>1. request[c] \in Request
  BY CommandsAssumption DEF Typed
<1>2. request[c].name \in Names
  BY <1>1 DEF Request
<1>. QED  BY <1>1, <1>2, CommandsAssumption DEF ServerOf, PolicyOf

\* What an add writes.
LEMMA Written ==
    ASSUME Typed, NEW c \in Calls, request[c].op = "add"
    PROVE  /\ NewServer(request[c]) \in Document
           /\ NewServer(request[c]).kind = "McpServer"
           /\ NewServer(request[c]).name = request[c].name
           /\ NewPolicy(request[c]) \in Document
           /\ NewPolicy(request[c]).kind = "McpPolicy"
           /\ NewPolicy(request[c]).name = request[c].name
<1>1. request[c] \in Request /\ request[c].name \in Names
  BY NameIsAsked
<1>2. /\ request[c].command \in Commands
      /\ request[c].enabled \in BOOLEAN
      /\ request[c].tier \in Tiers \cup {BadTier}
  BY <1>1 DEF Request
<1>3. NewServer(request[c]).spec \in ResourceSpec
  <2>1. NewServer(request[c]).spec = [command |-> request[c].command, enabled |-> request[c].enabled,
                                      targets |-> Unset, tier |-> Unset, strict |-> Unset]
    BY DEF NewServer
  <2>. QED  BY <1>2, <2>1 DEF ResourceSpec
<1>4. NewPolicy(request[c]).spec \in ResourceSpec
  <2>1. NewPolicy(request[c]).spec = [command |-> Unset, enabled |-> Unset, targets |-> {request[c].name},
                                      tier |-> request[c].tier, strict |-> TRUE]
    BY DEF NewPolicy
  <2>. QED  BY <1>1, <1>2, <2>1 DEF ResourceSpec
<1>. QED  BY <1>1, <1>3, <1>4 DEF NewServer, NewPolicy, Document

\* What a path that is missing, and one that holds a document, say.
LEMMA FileFacts ==
    ASSUME NEW dir \in Directories, From(dir), NEW p \in Paths
    PROVE  /\ files[p] = Absent => dir[p] = Absent /\ \A c \in Calls : view[c][p] = Absent
           /\ files[p] \notin Damaged \cup {Absent} => files[p] \in Allowed(dir, p)
           /\ files[p] \in Document => files[p] \in Allowed(dir, p)
           /\ \A c \in Calls : view[c][p] # Absent => view[c][p] \in Allowed(dir, p)
<1>1. \A d \in Allowed(dir, p) : d \in Document
  BY Alike
<1>2. files[p] \in Allowed(dir, p) \cup Damaged \cup ({Absent} \cap {dir[p]})
  BY DEF From
<1>. QED  BY <1>1, <1>2, Constants DEF From, Damaged

-----------------------------------------------------------------------------
LEMMA InitInv ==
    ASSUME Init
    PROVE  files \in Directories /\ Inv(files)
<1> SUFFICES Inv(files)
  BY DEF Init
<1>1. \A p \in Paths : files[p] \in Document \cup {Absent}
  BY Constants DEF Init
<1>2. Typed
  <2>1. files \in Directory
    BY CommandsAssumption DEF Init, Directory, Content
  <2>2. view \in [Calls -> Directory]
    BY DEF Init, Unread, Directory, Content
  <2>. QED  BY <2>1, <2>2 DEF Init, Typed, Labels
<1>3. From(files)
  <2>1. \A p \in Paths : files[p] \in Allowed(files, p) \cup Damaged \cup ({Absent} \cap {files[p]})
    BY DEF Allowed
  <2>2. \A c \in Calls : pc[c] = "idle" /\ \A p \in Paths : view[c][p] = Absent
    BY DEF Init, Unread
  <2>. QED  BY <2>1, <2>2 DEF From
<1>4. ASSUME NEW c \in Calls
      PROVE  Asks(c) /\ Calm(c) /\ Decides(c) /\ HasRead(c) /\ HasDisabled(c) /\ IsFirst(c)
  <2>1. pc[c] = "idle" /\ answer[c] = [status |-> "none", reports |-> {}] /\ calm[c] = FALSE
    BY DEF Init
  <2>. QED  BY <2>1 DEF Asks, AddLabels, Calm, Decides, HasRead, HasDisabled, IsFirst, Ok
<1>. QED  BY <1>2, <1>3, <1>4 DEF Inv

-----------------------------------------------------------------------------
(* The steps.                                                              *)

\* A call that goes on, or ends, does so alone.
LEMMA GotoOrAnswer ==
    ASSUME Typed, NEW c \in Calls
    PROVE  /\ \A label \in Labels : Goto(c, label) =>
                /\ pc' = [pc EXCEPT ![c] = label] /\ pc'[c] = label /\ answer' = answer
           /\ \A status, reports : Answer(c, status, reports) =>
                /\ pc' = [pc EXCEPT ![c] = "done"] /\ pc'[c] = "done"
                /\ answer' = [answer EXCEPT ![c] = answer'[c]]
                /\ answer'[c] = [status |-> status, reports |-> reports]
  BY DEF Typed, Goto, Answer

\* A call begins.
LEMMA BeginKept ==
    ASSUME NEW dir \in Directories, Inv(dir), NEW c \in Calls, Begin(c)
    PROVE  Inv(dir)'
<1>1. /\ Typed /\ pc[c] = "idle"
      /\ UNCHANGED <<files, request, toRead, view, writers>>
      /\ calm' = [d \in Calls |-> IF d = c THEN \A e \in Calls \ {c} : ~Adding(e)
                                  ELSE calm[d] /\ request[c].op # "add"]
  BY DEF Inv, Begin
<1>2. /\ pc' = [pc EXCEPT ![c] = pc'[c]] /\ pc'[c] \in {"list", "checkServer", "done"}
      /\ pc'[c] = "list" => request[c].op # "add"
      /\ pc'[c] = "checkServer" => request[c].op = "add"
      /\ answer' = [answer EXCEPT ![c] = answer'[c]]
      /\ pc'[c] # "done" => answer'[c] = answer[c]
      /\ answer'[c] = answer[c] \/ answer'[c] = [status |-> "ERROR", reports |-> {}]
  <2>1. answer = [answer EXCEPT ![c] = answer[c]]
    BY <1>1 DEF Typed
  <2>2. CASE request[c].op # "add"
    BY <1>1, <2>1, <2>2, GotoOrAnswer DEF Begin, Labels
  <2>3. CASE request[c].op = "add" /\ request[c].tier = BadTier
    BY <1>1, <2>3, GotoOrAnswer, SMTT(30) DEF Begin, Labels
  <2>4. CASE request[c].op = "add" /\ request[c].tier # BadTier
    BY <1>1, <2>1, <2>4, GotoOrAnswer DEF Begin, Labels
  <2>. QED  BY <2>2, <2>3, <2>4
<1>3. Typed'
  <2>1. calm' \in [Calls -> BOOLEAN]
    BY <1>1 DEF Typed
  <2>. QED  BY <1>1, <1>2, <2>1, ZenonT(60) DEF Typed, Labels
<1>4. \A d \in Calls \ {c} : pc'[d] = pc[d] /\ answer'[d] = answer[d] /\ (calm'[d] => calm[d] /\ request[c].op # "add")
  BY <1>1, <1>2 DEF Typed
<1>5. From(dir)'
  <2>1. pc'[c] \notin {"checkPolicy", "openServer", "writeServer", "openPolicy", "writePolicy"}
    BY <1>2
  <2>. QED  BY <1>1, <1>4, <2>1 DEF Inv, From, ServerOf, PolicyOf
<1>6. ASSUME NEW d \in Calls
      PROVE  (Asks(d) /\ Calm(d) /\ Decides(d) /\ HasRead(d) /\ HasDisabled(d) /\ IsFirst(d))'
  <2>1. CASE d = c
    <3>1. request[c].op \in {"list", "test", "disable", "add"}
      BY <1>1, CommandsAssumption DEF Typed, Request
    <3>2. answer[c] = [status |-> "none", reports |-> {}]
      BY <1>1 DEF Inv, Asks
    <3>3. Asks(c)'
      BY <1>1, <1>2, <3>1, <3>2 DEF Asks, AddLabels
    <3>4. Calm(c)'
      BY <1>1, <1>4 DEF Calm, Adding, Running
    <3>5. (Decides(c) /\ HasRead(c) /\ HasDisabled(c) /\ IsFirst(c))'
      BY <1>1, <1>2, <3>2 DEF Decides, HasRead, HasDisabled, IsFirst, Ok
    <3>. QED  BY <2>1, <3>3, <3>4, <3>5
  <2>2. CASE d # c
    <3>1. /\ pc'[d] = pc[d] /\ answer'[d] = answer[d]
          /\ calm'[d] => calm[d] /\ request[c].op # "add"
          /\ Asks(d) /\ Calm(d) /\ Decides(d) /\ HasRead(d) /\ HasDisabled(d) /\ IsFirst(d)
      BY <1>4, <2>2 DEF Inv
    <3>2. Calm(d)'
      BY <1>1, <1>4, <3>1 DEF Calm, Adding, Running
    <3>3. Asks(d)' /\ Decides(d)'
      BY <1>1, <3>1 DEF Asks, Decides, Ok
    <3>4. HasRead(d)' /\ HasDisabled(d)'
      BY <1>1, <3>1 DEF HasRead, HasDisabled, Ok, Source
    <3>5. IsFirst(d)'
      BY <1>1, <3>1 DEF IsFirst, Ok, ServerOf, PolicyOf
    <3>. QED  BY <3>2, <3>3, <3>4, <3>5
  <2>. QED  BY <2>1, <2>2
<1>. QED  BY <1>3, <1>5, <1>6 DEF Inv

\* A call that is not c is not touched by what c does to itself.
LEMMA OthersKept ==
    ASSUME NEW dir \in Directories, Inv(dir), NEW c \in Calls, NEW d \in Calls \ {c},
           UNCHANGED <<files, request, calm>>,
           pc' = [pc EXCEPT ![c] = pc'[c]], answer' = [answer EXCEPT ![c] = answer'[c]],
           toRead'[d] = toRead[d], view'[d] = view[d],
           Adding(c)' => Adding(c),
           \A e \in Calls : \A p \in Paths : view[e][p] = Absent /\ files[p] \in {Absent, Empty} => view'[e][p] = Absent
    PROVE  (Asks(d) /\ Calm(d) /\ Decides(d) /\ HasRead(d) /\ HasDisabled(d) /\ IsFirst(d))'
<1>1. /\ Typed
      /\ Asks(d) /\ Calm(d) /\ Decides(d) /\ HasRead(d) /\ HasDisabled(d) /\ IsFirst(d)
  BY DEF Inv
<1>2. pc'[d] = pc[d] /\ answer'[d] = answer[d]
  BY <1>1 DEF Typed
<1>3. Calm(d)'
  <2>1. \A e \in Calls \ {c} : Adding(e)' => Adding(e)
    BY <1>1 DEF Typed, Adding, Running
  <2>. QED  BY <1>1, <2>1 DEF Calm
<1>4. Asks(d)' /\ Decides(d)' /\ HasRead(d)' /\ HasDisabled(d)'
  BY <1>1, <1>2 DEF Asks, Decides, HasRead, HasDisabled, Ok, Source
<1>5. IsFirst(d)'
  <2>1. pc[d] \in AddLabels => ServerOf(d) \in Paths /\ PolicyOf(d) \in Paths
    BY <1>1, NameIsAsked DEF Asks
  <2>. QED  BY <1>1, <1>2, <2>1 DEF IsFirst, Ok, ServerOf, PolicyOf, AddLabels
<1>. QED  BY <1>3, <1>4, <1>5

\* An add looks for a file.
LEMMA CheckKept ==
    ASSUME NEW dir \in Directories, Inv(dir), NEW c \in Calls, CheckServer(c) \/ CheckPolicy(c)
    PROVE  Inv(dir)'
<1>1. /\ Typed /\ From(dir) /\ request[c].op = "add"
      /\ UNCHANGED <<files, request, toRead, view, calm, writers>>
  BY DEF Inv, CheckServer, CheckPolicy, Check, history, Asks, AddLabels
<1>2. /\ pc' = [pc EXCEPT ![c] = pc'[c]]
      /\ answer' = [answer EXCEPT ![c] = answer'[c]]
      /\ \/ pc'[c] = "done" /\ answer'[c] = [status |-> "ERROR", reports |-> {}]
         \/ /\ answer'[c] = answer[c]
            /\ \/ pc[c] = "checkServer" /\ pc'[c] = "checkPolicy" /\ files[ServerOf(c)] = Absent
               \/ pc[c] = "checkPolicy" /\ pc'[c] = "openServer" /\ files[PolicyOf(c)] = Absent
  <2>1. answer = [answer EXCEPT ![c] = answer[c]]
    BY <1>1 DEF Typed
  <2>2. CASE CheckServer(c)
    <3>1. /\ pc[c] = "checkServer"
          /\ IF files[ServerOf(c)] # Absent THEN Answer(c, "ERROR", {}) ELSE Goto(c, "checkPolicy")
      BY <2>2 DEF CheckServer, Check, ServerOf
    <3>. QED  BY <1>1, <2>1, <3>1, GotoOrAnswer DEF Labels
  <2>3. CASE CheckPolicy(c)
    <3>1. /\ pc[c] = "checkPolicy"
          /\ IF files[PolicyOf(c)] # Absent THEN Answer(c, "ERROR", {}) ELSE Goto(c, "openServer")
      BY <2>3 DEF CheckPolicy, Check, PolicyOf
    <3>. QED  BY <1>1, <2>1, <3>1, GotoOrAnswer DEF Labels
  <2>. QED  BY <2>2, <2>3
<1>3. Typed'
  BY <1>1, <1>2, ZenonT(60) DEF Typed, Labels
<1>4. ServerOf(c) \in Paths /\ PolicyOf(c) \in Paths
  BY <1>1, NameIsAsked
<1>5. From(dir)'
  <2>1. \A d \in Calls \ {c} : pc'[d] = pc[d]
    BY <1>1, <1>2 DEF Typed
  <2>2. /\ pc'[c] \in {"checkPolicy", "openServer", "writeServer"} => dir[ServerOf(c)] = Absent
        /\ pc'[c] \in {"openServer", "writeServer", "openPolicy", "writePolicy"} =>
             dir[PolicyOf(c)] = Absent
    BY <1>1, <1>2, <1>4, FileFacts DEF From
  <2>. QED  BY <1>1, <2>1, <2>2 DEF From, ServerOf, PolicyOf
<1>6. (Asks(c) /\ Calm(c) /\ Decides(c) /\ HasRead(c) /\ HasDisabled(c) /\ IsFirst(c))'
  <2>1. Asks(c) /\ Calm(c) /\ IsFirst(c) /\ pc[c] \in {"checkServer", "checkPolicy"}
    BY DEF Inv, CheckServer, CheckPolicy, Check
  <2>2. answer[c] = [status |-> "none", reports |-> {}]
    BY <2>1 DEF Asks
  <2>3. Asks(c)'
    BY <1>1, <1>2, <2>2 DEF Asks, AddLabels
  <2>4. Calm(c)'
    BY <1>1, <1>2, <2>1 DEF Calm, Typed, Adding, Running
  <2>5. (Decides(c) /\ HasRead(c) /\ HasDisabled(c))'
    BY <1>1, <1>2 DEF Decides, HasRead, HasDisabled, Ok
  <2>6. IsFirst(c)'
    BY <1>1, <1>2, <2>1, <2>2 DEF IsFirst, Ok, ServerOf, PolicyOf
  <2>. QED  BY <2>3, <2>4, <2>5, <2>6
<1>7. ASSUME NEW d \in Calls \ {c}
      PROVE  (Asks(d) /\ Calm(d) /\ Decides(d) /\ HasRead(d) /\ HasDisabled(d) /\ IsFirst(d))'
  <2>1. Adding(c)
    BY <1>1 DEF Adding, Running, CheckServer, CheckPolicy, Check
  <2>. QED  BY <1>1, <1>2, <2>1, OthersKept
<1>. QED  BY <1>3, <1>5, <1>6, <1>7 DEF Inv

\* A call is killed.
LEMMA StopKept ==
    ASSUME NEW dir \in Directories, Inv(dir), NEW c \in Calls, Stop(c)
    PROVE  Inv(dir)'
<1>1. /\ Typed /\ From(dir)
      /\ UNCHANGED <<files, request, toRead, view, calm, writers>>
      /\ pc' = [pc EXCEPT ![c] = pc'[c]] /\ pc'[c] = "done"
      /\ answer' = [answer EXCEPT ![c] = answer'[c]]
      /\ answer'[c] = [status |-> "killed", reports |-> {}]
  BY GotoOrAnswer DEF Inv, Stop, history
<1>2. Typed'
  BY <1>1 DEF Typed, Labels
<1>3. From(dir)'
  <2>1. \A d \in Calls \ {c} : pc'[d] = pc[d]
    BY <1>1 DEF Typed
  <2>. QED  BY <1>1, <2>1 DEF From, ServerOf, PolicyOf
<1>4. (Asks(c) /\ Calm(c) /\ Decides(c) /\ HasRead(c) /\ HasDisabled(c) /\ IsFirst(c))'
  <2>1. Calm(c)'
    BY <1>1 DEF Inv, Calm, Typed, Adding, Running
  <2>. QED  BY <1>1, <2>1 DEF Asks, AddLabels, Decides, HasRead, HasDisabled, IsFirst, Ok
<1>5. ASSUME NEW d \in Calls \ {c}
      PROVE  (Asks(d) /\ Calm(d) /\ Decides(d) /\ HasRead(d) /\ HasDisabled(d) /\ IsFirst(d))'
  <2>1. ~Adding(c)'
    BY <1>1 DEF Adding, Running
  <2>. QED  BY <1>1, <2>1, OthersKept
<1>. QED  BY <1>2, <1>3, <1>4, <1>5 DEF Inv

\* A call reads one more file that is whole, or none.
LEMMA ViewKept ==
    ASSUME NEW dir \in Directories, Inv(dir), NEW c \in Calls, NEW q,
           \/ view' = view
           \/ view' = [view EXCEPT ![c][q] = files[q]] /\ files[q] \notin Damaged
    PROVE  /\ view' \in [Calls -> Directory]
           /\ \A d \in Calls \ {c} : view'[d] = view[d]
           /\ \A p \in Paths : view'[c][p] = view[c][p] \/ (p = q /\ view'[c][p] = files[p] /\ files[p] \notin Damaged)
           /\ \A p \in Paths : view[c][p] # Absent => view'[c][p] # Absent
           /\ \A d \in Calls : \A p \in Paths :
                /\ view'[d][p] \in Allowed(dir, p) \cup {Absent}
                /\ view'[d][p] # Absent => files[p] # Absent
                /\ view[d][p] = Absent /\ files[p] \in {Absent, Empty} => view'[d][p] = Absent
<1>1. Typed /\ From(dir)
  BY DEF Inv
<1>2. CASE view' = view
  BY <1>1, <1>2 DEF Typed, From
<1>3. CASE view' = [view EXCEPT ![c][q] = files[q]] /\ files[q] \notin Damaged
  <2>1. \A d \in Calls \ {c} : view'[d] = view[d]
    BY <1>1, <1>3 DEF Typed
  <2>2. view'[c] = [view[c] EXCEPT ![q] = files[q]]
    BY <1>1, <1>3 DEF Typed
  <2>3. view[c] \in [Paths -> Content] /\ files \in [Paths -> Content]
    BY <1>1 DEF Typed, Directory
  <2>4. view'[c] \in [Paths -> Content]
    BY <2>2, <2>3
  <2>5. \A p \in Paths : view'[c][p] = view[c][p] \/ (p = q /\ view'[c][p] = files[p] /\ files[p] \notin Damaged)
    BY <1>3, <2>2, <2>3
  <2>6. view' \in [Calls -> Directory]
    BY <1>1, <1>3, <2>2, <2>4 DEF Typed, Directory
  <2>7. \A p \in Paths : view[c][p] # Absent => view'[c][p] # Absent
    BY <1>1, <2>5 DEF From
  <2>8. ASSUME NEW d \in Calls, NEW p \in Paths
        PROVE  /\ view'[d][p] \in Allowed(dir, p) \cup {Absent}
               /\ view'[d][p] # Absent => files[p] # Absent
               /\ view[d][p] = Absent /\ files[p] \in {Absent, Empty} => view'[d][p] = Absent
    BY <1>1, <2>1, <2>5, FileFacts DEF From, Damaged
  <2>. QED  BY <2>1, <2>5, <2>6, <2>7, <2>8
<1>. QED  BY <1>2, <1>3

\* A call lists the directory, reads a file of it, reports on what it has read, or reads
\* the file that decides once more.
LEMMA LoadKept ==
    ASSUME NEW dir \in Directories, Inv(dir), NEW c \in Calls, Load(c) \/ Reload(c)
    PROVE  Inv(dir)'
<1>1. /\ Typed /\ From(dir) /\ Asks(c) /\ Calm(c) /\ HasRead(c)
      /\ UNCHANGED <<files, request, calm, writers>>
      /\ pc[c] \in {"list", "read"}
      /\ answer[c] = [status |-> "none", reports |-> {}]
  BY DEF Inv, Load, List, Read, Tell, Loaded, Reload, history, Asks
<1>2. answer = [answer EXCEPT ![c] = answer[c]]
  BY <1>1 DEF Typed
<1> DEFINE Looks(q) ==
             \/ view' = view
             \/ view' = [view EXCEPT ![c][q] = files[q]] /\ files[q] \notin Damaged
           Moves ==
             /\ pc' = [pc EXCEPT ![c] = pc'[c]] /\ pc'[c] \in {"read", "openSource", "done"}
             /\ toRead' = [toRead EXCEPT ![c] = toRead'[c]] /\ toRead'[c] \subseteq Paths
             /\ answer' = [answer EXCEPT ![c] = answer'[c]]
             /\ pc'[c] # "done" => answer'[c] = answer[c]
           Tells ==
             \/ answer'[c] = answer[c]
             \/ answer'[c] = [status |-> "ERROR", reports |-> {}]
             \/ /\ answer'[c].status \in {"OK", "ERROR"}
                /\ answer'[c].reports = Reports(view[c], request[c])
                /\ view' = view /\ request[c].op # "disable"
           Covers ==
             pc'[c] \in {"read", "openSource"} =>
               \A p \in Paths : (files[p] # Absent /\ (pc[c] = "list" \/ p \in toRead[c]))
                                  => p \in toRead'[c] \/ view'[c][p] # Absent
           Finds(q) ==
             pc'[c] = "openSource" =>
               /\ request[c].op = "disable"
               /\ q = Source(c) /\ q \in Variants(view[c], "McpServer", request[c].name)
               /\ toRead'[c] = {}
<1>3. \E q : Looks(q) /\ Moves /\ Tells /\ Covers /\ Finds(q)
  <2>1. CASE List(c)
    <3>1. /\ pc[c] = "list" /\ pc' = [pc EXCEPT ![c] = "read"] /\ pc'[c] = "read"
          /\ toRead' = [toRead EXCEPT ![c] = {p \in Paths : files[p] # Absent}]
          /\ view' = view /\ answer' = answer
      BY <1>1, <2>1, GotoOrAnswer DEF List, Labels
    <3>2. toRead'[c] = {p \in Paths : files[p] # Absent}
      BY <1>1, <3>1 DEF Typed
    <3>. QED  BY <1>2, <3>1, <3>2
  <2>2. CASE Read(c)
    <3> DEFINE q == NextPath(c)
    <3>1. /\ pc[c] = "read"
          /\ toRead' = [toRead EXCEPT ![c] = @ \ {q}]
          /\ \/ files[q] \in Damaged /\ Answer(c, "ERROR", {}) /\ view' = view
             \/ /\ files[q] \notin Damaged /\ view' = [view EXCEPT ![c][q] = files[q]]
                /\ Goto(c, "read")
      BY <2>2 DEF Read
    <3>. HIDE DEF q
    <3>2. toRead'[c] = toRead[c] \ {q} /\ toRead'[c] \subseteq Paths
      BY <1>1, <3>1 DEF Typed
    <3>3. CASE files[q] \in Damaged /\ Answer(c, "ERROR", {}) /\ view' = view
      <4>1. /\ pc' = [pc EXCEPT ![c] = "done"] /\ pc'[c] = "done"
            /\ answer' = [answer EXCEPT ![c] = answer'[c]]
            /\ answer'[c] = [status |-> "ERROR", reports |-> {}]
        BY <1>1, <3>3, GotoOrAnswer
      <4>. QED  BY <3>1, <3>2, <3>3, <4>1
    <3>4. CASE /\ files[q] \notin Damaged /\ view' = [view EXCEPT ![c][q] = files[q]]
               /\ Goto(c, "read")
      <4>1. pc' = [pc EXCEPT ![c] = "read"] /\ pc'[c] = "read" /\ answer' = answer
        BY <1>1, <3>4, GotoOrAnswer DEF Labels
      <4>2. \A p \in Paths : p = q => view'[c][p] = files[p]
        BY <1>1, <3>4 DEF Typed, Directory
      <4>. QED  BY <1>2, <3>1, <3>2, <3>4, <4>1, <4>2
    <3>. QED  BY <3>1, <3>3, <3>4
  <2>3. CASE Tell(c)
    <3>1. PICK status \in {"OK", "ERROR"} : Answer(c, status, Reports(view[c], request[c]))
      BY <2>3 DEF Tell
    <3>2. toRead' = toRead /\ view' = view /\ request[c].op # "disable"
      BY <2>3 DEF Tell
    <3>3. /\ pc' = [pc EXCEPT ![c] = "done"] /\ pc'[c] = "done"
          /\ answer' = [answer EXCEPT ![c] = answer'[c]]
          /\ answer'[c] = [status |-> status, reports |-> Reports(view[c], request[c])]
      BY <1>1, <3>1, GotoOrAnswer
    <3>4. toRead' = [toRead EXCEPT ![c] = toRead'[c]] /\ toRead'[c] \subseteq Paths
      BY <1>1, <3>2 DEF Typed
    <3>5. Tells
      BY <3>2, <3>3
    <3>. QED  BY <3>2, <3>3, <3>4, <3>5
  <2>4. CASE Reload(c)
    <3> DEFINE q == Source(c)
    <3>1. /\ pc[c] = "read" /\ toRead[c] = {} /\ request[c].op = "disable" /\ toRead' = toRead
          /\ \/ Answer(c, "ERROR", {}) /\ view' = view
             \/ /\ request[c].name \in Servers(view[c]) /\ files[q] \notin Damaged
                /\ view' = [view EXCEPT ![c][q] = files[q]]
                /\ Goto(c, "openSource")
      BY <2>4 DEF Reload, Loaded
    <3>2. CASE Answer(c, "ERROR", {}) /\ view' = view
      <4>1. /\ pc' = [pc EXCEPT ![c] = "done"] /\ pc'[c] = "done"
            /\ answer' = [answer EXCEPT ![c] = answer'[c]]
            /\ answer'[c] = [status |-> "ERROR", reports |-> {}]
        BY <1>1, <3>2, GotoOrAnswer
      <4>2. toRead' = [toRead EXCEPT ![c] = toRead'[c]] /\ toRead'[c] \subseteq Paths
        BY <1>1, <3>1 DEF Typed
      <4>. QED  BY <3>2, <4>1, <4>2
    <3>3. CASE /\ request[c].name \in Servers(view[c]) /\ files[q] \notin Damaged
               /\ view' = [view EXCEPT ![c][q] = files[q]]
               /\ Goto(c, "openSource")
      <4>1. pc' = [pc EXCEPT ![c] = "openSource"] /\ pc'[c] = "openSource" /\ answer' = answer
        BY <1>1, <3>3, GotoOrAnswer DEF Labels
      <4>2. q \in Variants(view[c], "McpServer", request[c].name)
        <5>1. Variants(view[c], "McpServer", request[c].name) # {}
          BY <3>3 DEF Servers
        <5>2. Variants(view[c], "McpServer", request[c].name) \subseteq Paths
          BY DEF Variants, Documents
        <5>. QED  BY <5>1, <5>2, LastIsLast DEF Source, Winner
      <4>. HIDE DEF q
      <4>3. q = Source(c)
        BY DEF q
      <4>. QED  BY <1>1, <1>2, <3>1, <3>3, <4>1, <4>2, <4>3 DEF Typed
    <3>. QED  BY <3>1, <3>2, <3>3
  <2>. QED  BY <2>1, <2>2, <2>3, <2>4 DEF Load
<1>4. PICK q : Looks(q) /\ Moves /\ Tells /\ Covers /\ Finds(q)
  BY <1>3
<1>5. /\ view' \in [Calls -> Directory]
      /\ \A d \in Calls \ {c} : view'[d] = view[d] /\ pc'[d] = pc[d] /\ toRead'[d] = toRead[d]
      /\ \A p \in Paths : view'[c][p] = view[c][p] \/ (p = q /\ view'[c][p] = files[p] /\ files[p] \notin Damaged)
      /\ \A p \in Paths : view[c][p] # Absent => view'[c][p] # Absent
      /\ \A d \in Calls : \A p \in Paths :
           /\ view'[d][p] \in Allowed(dir, p) \cup {Absent}
           /\ view'[d][p] # Absent => files[p] # Absent
           /\ view[d][p] = Absent /\ files[p] \in {Absent, Empty} => view'[d][p] = Absent
  <2>1. \A d \in Calls \ {c} : pc'[d] = pc[d] /\ toRead'[d] = toRead[d]
    BY <1>1, <1>4 DEF Typed
  <2>2. Looks(q)
    BY <1>4
  <2>3. /\ view' \in [Calls -> Directory]
        /\ \A d \in Calls \ {c} : view'[d] = view[d]
        /\ \A p \in Paths : view'[c][p] = view[c][p] \/ (p = q /\ view'[c][p] = files[p] /\ files[p] \notin Damaged)
        /\ \A p \in Paths : view[c][p] # Absent => view'[c][p] # Absent
        /\ \A d \in Calls : \A p \in Paths :
             /\ view'[d][p] \in Allowed(dir, p) \cup {Absent}
             /\ view'[d][p] # Absent => files[p] # Absent
             /\ view[d][p] = Absent /\ files[p] \in {Absent, Empty} => view'[d][p] = Absent
    BY <2>2, ViewKept
  <2>. QED  BY <2>1, <2>3
<1>6. Typed'
  <2>1. toRead' \in [Calls -> SUBSET Paths]
    BY <1>1, <1>4 DEF Typed
  <2>2. pc' \in [Calls -> Labels]
    BY <1>1, <1>4 DEF Typed, Labels
  <2>3. answer' = [d \in Calls |-> answer'[d]]
    BY <1>1, <1>4 DEF Typed
  <2>. QED  BY <1>1, <1>5, <2>1, <2>2, <2>3 DEF Typed
<1>7. From(dir)'
  BY <1>1, <1>4, <1>5 DEF From, ServerOf, PolicyOf
<1>8. Asks(c)' /\ Calm(c)' /\ IsFirst(c)' /\ HasDisabled(c)'
  <2>1. Asks(c)'
    BY <1>1, <1>4 DEF Asks, AddLabels
  <2>2. Calm(c)'
    BY <1>1, <1>4, <1>5 DEF Calm, Adding, Running
  <2>3. answer'[c].status = "OK" => request[c].op \notin {"disable", "add"}
    BY <1>1, <1>4 DEF Asks
  <2>. QED  BY <1>1, <1>4, <2>1, <2>2, <2>3 DEF IsFirst, HasDisabled, Ok
<1>9. HasRead(c)'
  <2>1. ~(Ok(c, "disable"))'
    BY <1>1, <1>4 DEF Ok
  <2>. QED  BY <1>1, <1>4, <1>5, <2>1 DEF HasRead
<1>10. Decides(c)'
  <2> SUFFICES ASSUME pc'[c] = "openSource"
               PROVE  q \in Variants(view'[c], "McpServer", request[c].name)
    BY <1>1, <1>4 DEF Decides, Ok
  <2>1. /\ q \in Paths /\ view[c][q] \notin Damaged \cup {Absent}
        /\ view[c][q].kind = "McpServer" /\ view[c][q].name = request[c].name
    BY <1>4 DEF Variants, Documents
  <2>2. view'[c][q] # Absent /\ view'[c][q] \in Allowed(dir, q) /\ view[c][q] \in Allowed(dir, q)
    BY <1>1, <1>5, <2>1, FileFacts
  <2>3. view'[c][q] \in Document /\ view'[c][q].kind = "McpServer" /\ view'[c][q].name = request[c].name
    BY <2>1, <2>2, Alike
  <2>. QED  BY <2>1, <2>3, Constants DEF Variants, Documents, Damaged
<1>11. ASSUME NEW d \in Calls \ {c}
       PROVE  (Asks(d) /\ Calm(d) /\ Decides(d) /\ HasRead(d) /\ HasDisabled(d) /\ IsFirst(d))'
  <2>1. ~Adding(c)'
    BY <1>1 DEF Asks, Adding
  <2>2. \A e \in Calls : \A p \in Paths : view[e][p] = Absent /\ files[p] \in {Absent, Empty} => view'[e][p] = Absent
    BY <1>5
  <2>. QED  BY <1>1, <1>4, <1>5, <2>1, <2>2, OthersKept
<1>. QED  BY <1>6, <1>7, <1>8, <1>9, <1>10, <1>11 DEF Inv

\* What a write leaves alone, and what it puts where.
LEMMA PutFacts ==
    ASSUME Typed, NEW c \in Calls, NEW p \in Paths, NEW content \in Content, Put(c, p, content)
    PROVE  /\ UNCHANGED <<request, toRead, view, calm>>
           /\ writers' \in [Calls -> SUBSET Calls]
           /\ files' \in Directory
           /\ files'[p] = content
           /\ \A q \in Paths \ {p} : files'[q] = files[q]
  BY DEF Typed, Put, Directory

\* An add writes.
LEMMA AddKept ==
    ASSUME NEW dir \in Directories, Inv(dir), NEW c \in Calls,
           OpenServer(c) \/ WriteServer(c) \/ OpenPolicy(c) \/ WritePolicy(c)
    PROVE  Inv(dir)'
<1>1. /\ Typed /\ From(dir) /\ Asks(c) /\ Calm(c) /\ IsFirst(c)
      /\ pc[c] \in {"openServer", "writeServer", "openPolicy", "writePolicy"}
      /\ request[c].op = "add"
      /\ answer[c] = [status |-> "none", reports |-> {}]
  BY DEF Inv, OpenServer, WriteServer, OpenPolicy, WritePolicy, Asks, AddLabels
<1>2. ServerOf(c) \in Paths /\ PolicyOf(c) \in Paths /\ ServerOf(c) # PolicyOf(c) /\ request[c].name \in Names
  BY <1>1, NameIsAsked
<1>3. answer = [answer EXCEPT ![c] = answer[c]]
  BY <1>1 DEF Typed
<1> DEFINE Steps(p, content) ==
             /\ Put(c, p, content)
             /\ pc' = [pc EXCEPT ![c] = pc'[c]]
             /\ answer' = [answer EXCEPT ![c] = answer'[c]]
             /\ \/ /\ pc[c] = "openServer" /\ pc'[c] = "writeServer"
                   /\ p = ServerOf(c) /\ content = Empty /\ answer'[c] = answer[c]
                \/ /\ pc[c] = "writeServer" /\ pc'[c] = "openPolicy"
                   /\ p = ServerOf(c) /\ content \in {NewServer(request[c]), Garbled}
                   /\ answer'[c] = answer[c]
                \/ /\ pc[c] = "openPolicy" /\ pc'[c] = "writePolicy"
                   /\ p = PolicyOf(c) /\ content = Empty /\ answer'[c] = answer[c]
                \/ /\ pc[c] = "writePolicy" /\ pc'[c] = "done"
                   /\ p = PolicyOf(c) /\ content \in {NewPolicy(request[c]), Garbled}
                   /\ files[p] = Empty => content = NewPolicy(request[c])
                   /\ answer'[c] = [status |-> "OK", reports |-> {}]
<1>4. \E p \in Paths, content \in Content : Steps(p, content)
  <2>1. {Empty, Garbled, NewServer(request[c]), NewPolicy(request[c])} \subseteq Content
    BY <1>1, Written DEF Content, Damaged
  <2>2. CASE OpenServer(c)
    <3>1. pc[c] = "openServer" /\ Put(c, ServerOf(c), Empty) /\ Goto(c, "writeServer")
      BY <2>2 DEF OpenServer, Open, ServerOf
    <3>2. pc' = [pc EXCEPT ![c] = "writeServer"] /\ pc'[c] = "writeServer" /\ answer' = answer
      BY <1>1, <3>1, GotoOrAnswer DEF Labels
    <3>. QED  BY <1>2, <1>3, <2>1, <3>1, <3>2
  <2>3. CASE WriteServer(c)
    <3>1. /\ pc[c] = "writeServer" /\ Goto(c, "openPolicy")
          /\ Put(c, ServerOf(c), NewServer(request[c])) \/ Put(c, ServerOf(c), Garbled)
      BY <2>3 DEF WriteServer, Write, ServerOf
    <3>2. pc' = [pc EXCEPT ![c] = "openPolicy"] /\ pc'[c] = "openPolicy" /\ answer' = answer
      BY <1>1, <3>1, GotoOrAnswer DEF Labels
    <3>. QED  BY <1>2, <1>3, <2>1, <3>1, <3>2
  <2>4. CASE OpenPolicy(c)
    <3>1. pc[c] = "openPolicy" /\ Put(c, PolicyOf(c), Empty) /\ Goto(c, "writePolicy")
      BY <2>4 DEF OpenPolicy, Open, PolicyOf
    <3>2. pc' = [pc EXCEPT ![c] = "writePolicy"] /\ pc'[c] = "writePolicy" /\ answer' = answer
      BY <1>1, <3>1, GotoOrAnswer DEF Labels
    <3>. QED  BY <1>2, <1>3, <2>1, <3>1, <3>2
  <2>5. CASE WritePolicy(c)
    <3>1. /\ pc[c] = "writePolicy" /\ Answer(c, "OK", {})
          /\ \/ Put(c, PolicyOf(c), NewPolicy(request[c]))
             \/ files[PolicyOf(c)] # Empty /\ Put(c, PolicyOf(c), Garbled)
      BY <2>5 DEF WritePolicy, Write, PolicyOf
    <3>2. /\ pc' = [pc EXCEPT ![c] = "done"] /\ pc'[c] = "done"
          /\ answer' = [answer EXCEPT ![c] = answer'[c]]
          /\ answer'[c] = [status |-> "OK", reports |-> {}]
      BY <1>1, <3>1, GotoOrAnswer
    <3>. QED  BY <1>2, <2>1, <3>1, <3>2
  <2>. QED  BY <2>2, <2>3, <2>4, <2>5
<1>5. PICK p \in Paths, content \in Content : Steps(p, content)
  BY <1>4
<1>6. /\ UNCHANGED <<request, toRead, view, calm>>
      /\ writers' \in [Calls -> SUBSET Calls]
      /\ files' \in Directory /\ files'[p] = content
      /\ \A q \in Paths \ {p} : files'[q] = files[q]
  BY <1>1, <1>5, PutFacts
<1>7. \A d \in Calls \ {c} : pc'[d] = pc[d] /\ answer'[d] = answer[d]
  BY <1>1, <1>5 DEF Typed
<1>8. Typed'
  <2>1. pc' \in [Calls -> Labels] /\ answer' = [d \in Calls |-> answer'[d]]
    BY <1>1, <1>5, ZenonT(60) DEF Typed, Labels
  <2>. QED  BY <1>1, <1>6, <2>1 DEF Typed
<1>9. From(dir)'
  <2>1. dir[p] = Absent
    BY <1>1, <1>5 DEF From
  <2>2. content \in Damaged \cup Allowed(dir, p)
    <3>1. CASE content \in {Empty, Garbled}
      BY <3>1 DEF Damaged
    <3>2. CASE p = ServerOf(c) /\ content = NewServer(request[c])
      BY <1>1, <1>2, <2>1, <3>2, Written DEF Allowed, Fits, ServerOf
    <3>3. CASE p = PolicyOf(c) /\ content = NewPolicy(request[c])
      BY <1>1, <1>2, <2>1, <3>3, Written DEF Allowed, Fits, PolicyOf
    <3>. QED  BY <1>5, <3>1, <3>2, <3>3
  <2>3. content # Absent
    BY <2>2, Alike, Constants DEF Damaged
  <2>4. \A q \in Paths : files'[q] \in Allowed(dir, q) \cup Damaged \cup ({Absent} \cap {dir[q]})
    BY <1>1, <1>6, <2>2 DEF From
  <2>5. \A d \in Calls : \A q \in Paths :
          /\ view'[d][q] \in Allowed(dir, q) \cup {Absent}
          /\ view'[d][q] # Absent => files'[q] # Absent
    BY <1>1, <1>6, <2>3 DEF From
  <2>6. \A d \in Calls :
          /\ pc'[d] \in {"checkPolicy", "openServer", "writeServer"} => dir[ServerOf(d)] = Absent
          /\ pc'[d] \in {"openServer", "writeServer", "openPolicy", "writePolicy"} =>
               dir[PolicyOf(d)] = Absent
    BY <1>1, <1>5, <1>7 DEF From
  <2>. QED  BY <1>6, <2>4, <2>5, <2>6 DEF From, ServerOf, PolicyOf
<1>10. ASSUME NEW d \in Calls \ {c}
       PROVE  (Asks(d) /\ Calm(d) /\ Decides(d) /\ HasRead(d) /\ HasDisabled(d) /\ IsFirst(d))'
  <2>1. ~calm[d]
    BY <1>1 DEF Inv, Calm, Adding, Running
  <2>2. Asks(d) /\ Decides(d)
    BY DEF Inv
  <2>. QED  BY <1>6, <1>7, <2>1, <2>2 DEF Asks, Calm, Decides, HasRead, HasDisabled, IsFirst, Ok
<1>11. (Asks(c) /\ Calm(c) /\ Decides(c) /\ HasRead(c) /\ HasDisabled(c))'
  <2>1. Asks(c)'
    BY <1>1, <1>5, <1>6 DEF Asks, AddLabels
  <2>2. Calm(c)'
    BY <1>1, <1>6, <1>7 DEF Calm, Adding, Running
  <2>. QED  BY <1>1, <1>5, <1>6, <2>1, <2>2 DEF Decides, HasRead, HasDisabled, Ok
<1>12. IsFirst(c)'
  <2> SUFFICES ASSUME calm[c]
               PROVE  /\ pc'[c] = "writeServer" =>
                           /\ files'[ServerOf(c)] = Empty
                           /\ files'[PolicyOf(c)] = Absent
                           /\ \A d \in Calls : view[d][ServerOf(c)] = Absent
                      /\ pc'[c] = "openPolicy" => files'[PolicyOf(c)] = Absent
                      /\ pc'[c] = "writePolicy" =>
                           /\ files'[PolicyOf(c)] = Empty
                           /\ \A d \in Calls : view[d][PolicyOf(c)] = Absent
                      /\ answer'[c].status = "OK" => files'[PolicyOf(c)] = NewPolicy(request[c])
    BY <1>5, <1>6 DEF IsFirst, Ok, ServerOf, PolicyOf
  <2>1. /\ pc[c] = "openServer" => files[ServerOf(c)] = Absent
        /\ pc[c] \in {"openServer", "writeServer", "openPolicy"} => files[PolicyOf(c)] = Absent
        /\ pc[c] = "writePolicy" => files[PolicyOf(c)] = Empty
    BY <1>1 DEF IsFirst
  <2>2. \A q \in Paths : files[q] = Absent => \A d \in Calls : view[d][q] = Absent
    BY <1>1, FileFacts
  <2>. QED  BY <1>1, <1>2, <1>5, <1>6, <2>1, <2>2
<1>. QED  BY <1>8, <1>9, <1>10, <1>11, <1>12 DEF Inv

\* The last file of a server that a call has read is one with a document of it.
LEMMA SourceFacts ==
    ASSUME Typed, NEW c \in Calls, request[c].op = "disable",
           Variants(view[c], "McpServer", request[c].name) # {}
    PROVE  /\ Source(c) \in Variants(view[c], "McpServer", request[c].name)
           /\ Source(c) \in Paths
           /\ view[c][Source(c)] \notin Damaged \cup {Absent}
           /\ view[c][Source(c)].kind = "McpServer"
           /\ view[c][Source(c)].name = request[c].name
<1>1. Variants(view[c], "McpServer", request[c].name) \subseteq Paths
  BY DEF Variants, Documents
<1>2. Source(c) \in Variants(view[c], "McpServer", request[c].name)
  BY <1>1, LastIsLast DEF Source, Winner
<1>. QED  BY <1>2 DEF Variants, Documents

\* A disable writes.
LEMMA DisableKept ==
    ASSUME NEW dir \in Directories, Inv(dir), NEW c \in Calls, OpenSource(c) \/ WriteSource(c)
    PROVE  Inv(dir)'
<1> DEFINE p == Source(c)
<1>1. /\ Typed /\ From(dir) /\ Asks(c) /\ Calm(c) /\ Decides(c) /\ HasRead(c)
      /\ pc[c] \in {"openSource", "writeSource"}
      /\ request[c].op = "disable"
      /\ answer[c] = [status |-> "none", reports |-> {}]
  BY DEF Inv, OpenSource, WriteSource, Asks
<1>2. /\ p \in Paths
      /\ view[c][p] \notin Damaged \cup {Absent}
      /\ view[c][p].kind = "McpServer"
  BY <1>1, SourceFacts DEF Decides
<1>3. /\ view[c][p] \in Allowed(dir, p) /\ view[c][p] \in Document
      /\ files[p] # Absent
  <2>1. view[c][p] \in Allowed(dir, p)
    BY <1>1, <1>2, FileFacts
  <2>2. view[c][p] \in Document
    BY <1>2, <2>1, Alike
  <2>. QED  BY <1>1, <1>2, <2>1, <2>2 DEF From
<1>4. /\ Off(view[c][p]) \in Allowed(dir, p)
      /\ Off(view[c][p]) \in Document
      /\ Off(view[c][p]).spec.enabled = FALSE
  BY <1>2, <1>3, Alike, OffIsDocument
<1>5. PICK content \in {Empty, Garbled, Off(view[c][p])} :
        /\ Put(c, p, content)
        /\ pc' = [pc EXCEPT ![c] = pc'[c]]
        /\ answer' = [answer EXCEPT ![c] = answer'[c]]
        /\ \/ pc'[c] = "writeSource" /\ answer'[c] = answer[c]
           \/ pc'[c] = "done" /\ answer'[c] = [status |-> "OK", reports |-> {}]
  <2>1. CASE OpenSource(c)
    <3>1. Put(c, p, Empty) /\ Goto(c, "writeSource")
      BY <2>1 DEF OpenSource, Open
    <3>2. pc' = [pc EXCEPT ![c] = "writeSource"] /\ pc'[c] = "writeSource" /\ answer' = answer
      BY <1>1, <3>1, GotoOrAnswer DEF Labels
    <3>3. answer = [answer EXCEPT ![c] = answer[c]]
      BY <1>1 DEF Typed
    <3>. QED  BY <3>1, <3>2, <3>3
  <2>2. CASE WriteSource(c)
    <3>1. /\ Answer(c, "OK", {})
          /\ Put(c, p, Off(view[c][p])) \/ Put(c, p, Garbled)
      BY <2>2 DEF WriteSource, Write, Off
    <3>2. /\ pc' = [pc EXCEPT ![c] = "done"] /\ pc'[c] = "done"
          /\ answer' = [answer EXCEPT ![c] = answer'[c]]
          /\ answer'[c] = [status |-> "OK", reports |-> {}]
      BY <1>1, <3>1, GotoOrAnswer
    <3>. QED  BY <3>1, <3>2
  <2>. QED  BY <2>1, <2>2
<1>6. /\ content \in Content
      /\ content \in Damaged \cup Allowed(dir, p)
      /\ content \in Damaged \/ content.spec.enabled = FALSE
      /\ content # Absent
  BY <1>4, Constants DEF Content, Damaged
<1>7. /\ UNCHANGED <<request, toRead, view, calm>>
      /\ writers' \in [Calls -> SUBSET Calls]
      /\ files' \in Directory /\ files'[p] = content
      /\ \A q \in Paths \ {p} : files'[q] = files[q]
  BY <1>1, <1>2, <1>5, <1>6, PutFacts
<1>8. \A d \in Calls \ {c} : pc'[d] = pc[d] /\ answer'[d] = answer[d]
  BY <1>1, <1>5 DEF Typed
<1>9. \A d \in Calls : Source(d)' = Source(d)
  BY <1>7 DEF Source
<1> HIDE DEF p
<1>10. Typed'
  <2>1. pc' \in [Calls -> Labels] /\ answer' = [d \in Calls |-> answer'[d]]
    BY <1>1, <1>5, ZenonT(60) DEF Typed, Labels
  <2>. QED  BY <1>1, <1>7, <2>1 DEF Typed
<1>11. From(dir)'
  <2>1. \A q \in Paths : files'[q] \in Allowed(dir, q) \cup Damaged \cup ({Absent} \cap {dir[q]})
    BY <1>1, <1>6, <1>7 DEF From
  <2>2. \A d \in Calls : \A q \in Paths :
          /\ view'[d][q] \in Allowed(dir, q) \cup {Absent}
          /\ view'[d][q] # Absent => files'[q] # Absent
    BY <1>1, <1>6, <1>7 DEF From
  <2>3. \A d \in Calls :
          /\ pc'[d] \in {"checkPolicy", "openServer", "writeServer"} => dir[ServerOf(d)] = Absent
          /\ pc'[d] \in {"openServer", "writeServer", "openPolicy", "writePolicy"} =>
               dir[PolicyOf(d)] = Absent
    BY <1>1, <1>5, <1>8 DEF From
  <2>. QED  BY <1>7, <2>1, <2>2, <2>3 DEF From, ServerOf, PolicyOf
<1>12. \A q \in Paths : files'[q] # Absent => files[q] # Absent
  BY <1>3, <1>7
<1>13. \A d \in Calls : Decides(d) /\ Ok(d, "disable") => Source(d) \in Paths
  BY <1>1, SourceFacts DEF Decides, Ok
<1>14. p = Source(c)
  BY DEF p
<1>15. (Asks(c) /\ Calm(c) /\ Decides(c) /\ HasRead(c) /\ HasDisabled(c) /\ IsFirst(c))'
  <2>1. Asks(c)'
    BY <1>1, <1>5, <1>7 DEF Asks, AddLabels
  <2>2. Calm(c)'
    BY <1>1, <1>7, <1>8 DEF Calm, Adding, Running
  <2>3. Decides(c)'
    BY <1>1, <1>5, <1>7 DEF Decides, Ok
  <2>4. HasRead(c)'
    BY <1>1, <1>5, <1>7, <1>12 DEF HasRead, Ok
  <2>5. HasDisabled(c)'
    BY <1>6, <1>7, <1>9, <1>14 DEF HasDisabled
  <2>6. IsFirst(c)'
    BY <1>1, <1>5, <1>7 DEF IsFirst, Ok
  <2>. QED  BY <2>1, <2>2, <2>3, <2>4, <2>5, <2>6
<1>16. ASSUME NEW d \in Calls \ {c}
       PROVE  (Asks(d) /\ Calm(d) /\ Decides(d) /\ HasRead(d) /\ HasDisabled(d) /\ IsFirst(d))'
  <2>1. Asks(d) /\ Calm(d) /\ Decides(d) /\ HasRead(d) /\ HasDisabled(d) /\ IsFirst(d)
    BY DEF Inv
  <2>2. (Asks(d) /\ Decides(d))'
    BY <1>7, <1>8, <2>1 DEF Asks, Decides, Ok
  <2>3. Calm(d)'
    <3>1. ~Adding(c)'
      BY <1>1, <1>7 DEF Adding
    <3>. QED  BY <1>7, <1>8, <2>1, <3>1 DEF Calm, Adding, Running
  <2>4. HasRead(d)'
    BY <1>7, <1>8, <1>12, <2>1 DEF HasRead, Ok
  <2>5. HasDisabled(d)'
    BY <1>6, <1>7, <1>8, <1>9, <1>13, <2>1 DEF HasDisabled, Ok
  <2>6. IsFirst(d)'
    <3>1. pc[d] \in AddLabels \/ Ok(d, "add") =>
            request[d].op = "add" /\ ServerOf(d) \in Paths /\ PolicyOf(d) \in Paths
      BY <1>1, <2>1, NameIsAsked DEF Asks, Ok
    <3>2. ASSUME calm[d], Ok(d, "add")
          PROVE  p # PolicyOf(d)
      <4>1. /\ files[PolicyOf(d)] = NewPolicy(request[d])
            /\ NewPolicy(request[d]) \in Document /\ NewPolicy(request[d]).kind = "McpPolicy"
        BY <1>1, <2>1, <3>1, <3>2, Written DEF IsFirst
      <4>2. SUFFICES ASSUME p = PolicyOf(d) PROVE FALSE
        OBVIOUS
      <4>3. NewPolicy(request[d]) \in Allowed(dir, p)
        BY <1>1, <1>2, <4>1, <4>2, FileFacts
      <4>4. NewPolicy(request[d]).kind = view[c][p].kind
        BY <1>2, <1>3, <4>3, Alike
      <4>. QED  BY <1>2, <4>1, <4>4
    <3>3. \A q \in Paths : (files[q] = Absent \/ view[c][q] = Absent) => q # p
      BY <1>2, <1>3
    <3>. QED  BY <1>7, <1>8, <2>1, <3>1, <3>2, <3>3 DEF IsFirst, Ok, ServerOf, PolicyOf, AddLabels
  <2>. QED  BY <2>2, <2>3, <2>4, <2>5, <2>6
<1>. QED  BY <1>10, <1>11, <1>15, <1>16 DEF Inv

\* Every step.
LEMMA StepKept ==
    ASSUME NEW dir \in Directories, Inv(dir), [Next]_vars
    PROVE  Inv(dir)'
<1>1. CASE UNCHANGED vars
  <2>1. /\ UNCHANGED <<files, request, pc, toRead, view, answer, calm, writers>>
    BY <1>1 DEF vars, call, history
  <2>2. Typed' /\ From(dir)'
    BY <2>1 DEF Inv, Typed, From, ServerOf, PolicyOf
  <2>3. ASSUME NEW c \in Calls
        PROVE  (Asks(c) /\ Calm(c) /\ Decides(c) /\ HasRead(c) /\ HasDisabled(c) /\ IsFirst(c))'
    BY <2>1 DEF Inv, Asks, Calm, Decides, HasRead, HasDisabled, IsFirst, Ok, Adding, Running,
                Source, ServerOf, PolicyOf
  <2>. QED  BY <2>2, <2>3 DEF Inv
<1>2. CASE Next
  <2>1. PICK c \in Calls : Begin(c) \/ Add(c) \/ Load(c) \/ Disable(c) \/ Stop(c)
    BY <1>2 DEF Next
  <2>. QED  BY <2>1, BeginKept, CheckKept, AddKept, LoadKept, DisableKept, StopKept DEF Add, Disable
<1>. QED  BY <1>1, <1>2

\* The invariant holds in every behaviour.
LEMMA InvariantHolds == Spec => []IInv
<1>1. Init => IInv
  BY InitInv DEF IInv
<1>2. IInv /\ [Next]_vars => IInv'
  BY StepKept DEF IInv
<1>. QED  BY <1>1, <1>2, PTL DEF Spec

-----------------------------------------------------------------------------
(* What follows.                                                           *)

\* Every file is what the directory held there at first, that document switched off, a
\* file cut off or mixed up, or what an add of the path's name puts there; and what has
\* been reported is what the files read come to (kernel/mcp.py, kernel/loaders.py).
THEOREM TypeCorrect == Spec => []TypeOK
<1>1. ASSUME IInv PROVE TypeOK
  <2>1. PICK dir \in Directories : Inv(dir)
    BY <1>1 DEF IInv
  <2>2. Typed /\ From(dir) /\ \A c \in Calls : Asks(c)
    BY <2>1 DEF Inv
  <2>3. ASSUME NEW p \in Paths, files[p] # dir[p]
        PROVE  \/ files[p] \in Damaged
               \/ dir[p] # Absent /\ files[p] = [dir[p] EXCEPT !.spec.enabled = FALSE]
               \/ /\ dir[p] = Absent
                  /\ \E n \in Names :
                         \/ p = ServerPath[n] /\ p \in Variants(files, "McpServer", n)
                         \/ p = PolicyPath[n] /\ p \in Variants(files, "McpPolicy", n)
    <3>1. files[p] \in Allowed(dir, p) \cup Damaged \cup ({Absent} \cap {dir[p]})
      BY <2>2 DEF From
    <3>2. CASE dir[p] # Absent
      BY <2>3, <3>1, <3>2 DEF Allowed, Off
    <3>3. CASE dir[p] = Absent /\ files[p] \notin Damaged
      <4>1. files[p] \in Document /\ \E n \in Names : Fits(files[p], p, n)
        BY <2>3, <3>1, <3>3 DEF Allowed
      <4>2. p \in Documents(files)
        BY <4>1, <3>3, Constants DEF Documents
      <4>. QED  BY <3>3, <4>1, <4>2 DEF Fits, Variants
    <3>. QED  BY <3>2, <3>3
  <2>4. ASSUME NEW c \in Calls
        PROVE  Whole(view[c])
    <3>1. \A p \in Paths : view[c][p] = Absent \/ view[c][p] \in Document
      BY <2>2, FileFacts, Alike
    <3>. QED  BY <3>1, Constants DEF Whole, Damaged
  <2>. QED  BY <2>2, <2>3, <2>4 DEF TypeOK, Typed, Asks
<1>. QED  BY <1>1, InvariantHolds, PTL

\* A server that `mcp disable` has answered OK for stays disabled unless an add has run
\* since: what disable has read is all there is, a path keeps its kind and name, and so
\* the file that it has written has the last word (disable_mcp_server).
THEOREM DisabledServersStay == Spec => []DisabledStays
<1>1. ASSUME IInv, NEW c \in Calls, Ok(c, "disable"), calm[c], Whole(files)
      PROVE  ~Enabled(files, request[c].name)
  <2> DEFINE n == request[c].name
             s == Source(c)
             there == Variants(files, "McpServer", n)
             setters == {p \in there : files[p].spec.enabled # Unset}
  <2>1. PICK dir \in Directories : Inv(dir)
    BY <1>1 DEF IInv
  <2>2. Typed /\ From(dir) /\ Decides(c) /\ HasRead(c) /\ HasDisabled(c) /\ request[c].op = "disable"
    BY <1>1, <2>1 DEF Inv, Ok
  <2>3. /\ s \in Variants(view[c], "McpServer", n)
        /\ \A q \in Variants(view[c], "McpServer", n) : q <= s
        /\ s \in Paths /\ view[c][s] # Absent
        /\ view[c][s].kind = "McpServer" /\ view[c][s].name = n
    <3>1. Variants(view[c], "McpServer", n) # {} /\ Variants(view[c], "McpServer", n) \subseteq Paths
      BY <1>1, <2>2 DEF Decides, Variants, Documents
    <3>. QED  BY <2>2, <3>1, SourceFacts, LastIsLast DEF Source, Winner
  <2>4. \A p \in Paths : files[p] # Absent =>
          /\ view[c][p] # Absent
          /\ files[p].kind = view[c][p].kind /\ files[p].name = view[c][p].name
    <3> SUFFICES ASSUME NEW p \in Paths, files[p] # Absent
                 PROVE  /\ view[c][p] # Absent
                        /\ files[p].kind = view[c][p].kind /\ files[p].name = view[c][p].name
      OBVIOUS
    <3>1. view[c][p] # Absent
      BY <1>1, <2>2 DEF HasRead, Decides
    <3>2. files[p] \in Allowed(dir, p) /\ view[c][p] \in Allowed(dir, p)
      BY <1>1, <2>2, <3>1, FileFacts DEF Whole
    <3>. QED  BY <3>1, <3>2, Alike
  <2>5. there \subseteq Variants(view[c], "McpServer", n)
    <3>1. ASSUME NEW p \in there
          PROVE  p \in Variants(view[c], "McpServer", n)
      <4>1. p \in Paths /\ files[p] # Absent /\ files[p].kind = "McpServer" /\ files[p].name = n
        BY DEF Variants, Documents
      <4>2. view[c][p] # Absent /\ view[c][p].kind = "McpServer" /\ view[c][p].name = n
        BY <2>4, <4>1
      <4>3. view[c][p] \in Document
        BY <2>2, <4>1, <4>2, FileFacts, Alike
      <4>. QED  BY <4>1, <4>2, <4>3, Constants DEF Variants, Documents, Damaged
    <3>. QED  BY <3>1
  <2>6. files[s] # Absent /\ files[s].spec.enabled = FALSE
    BY <1>1, <2>2, <2>3 DEF From, HasDisabled, Whole
  <2>7. s \in there
    BY <1>1, <2>3, <2>4, <2>6 DEF Variants, Documents, Whole
  <2>8. s \in setters /\ \A q \in setters : q <= s
    BY <2>3, <2>5, <2>6, <2>7, RegistryAssumption
  <2>9. LastOf(setters) = s
    <3>1. setters \subseteq Paths /\ Paths \subseteq Nat
      BY RegistryAssumption DEF Variants, Documents
    <3>2. LastOf(setters) \in setters /\ \A q \in setters : q <= LastOf(setters)
      BY <2>8, <3>1, LastIsLast
    <3> DEFINE l == LastOf(setters)
    <3>3. s \in Nat /\ l \in Nat /\ s <= l /\ l <= s
      BY <2>8, <3>1, <3>2
    <3> HIDE DEF s, l
    <3>4. l = s
      BY <3>3
    <3>. QED  BY <3>4 DEF l
  <2>10. Field(files, "McpServer", n, "enabled") = FALSE
    BY <2>6, <2>8, <2>9 DEF Field
  <2>. QED  BY <2>10 DEF Enabled
<1>2. IInv => DisabledStays
  BY <1>1 DEF DisabledStays
<1>. QED  BY <1>2, InvariantHolds, PTL

\* The policy that an OK `mcp add` has written alone governs its server, whatever other
\* policies target it (add_mcp_resources, resolve_mcp_policy).
THEOREM AddedPoliciesGovern == Spec => []AddedPolicyGoverns
<1>1. ASSUME IInv, NEW c \in Calls, Ok(c, "add"), calm[c],
             Variants(files, "McpPolicy", request[c].name) = {PolicyPath[request[c].name]}
      PROVE  /\ Attached(files, request[c].name) = request[c].name
             /\ Tier(files, request[c].name) = request[c].tier
  <2> DEFINE n == request[c].name
             q == PolicyPath[n]
  <2>1. PICK dir \in Directories : Inv(dir)
    BY <1>1 DEF IInv
  <2>2. Typed /\ IsFirst(c) /\ request[c].op = "add"
    BY <1>1, <2>1 DEF Inv, Ok
  <2>3. files[q] = NewPolicy(request[c])
    BY <1>1, <2>2 DEF IsFirst, PolicyOf
  <2>4. files[q].spec.tier = request[c].tier
    BY <2>3 DEF NewPolicy
  <2>5. n \in Names /\ request[c] \in Request
    BY <2>2, NameIsAsked
  <2>6. request[c].tier # Unset
    BY <2>2, <2>5, RegistryAssumption DEF Request
  <2>7. n \in Targeting(files, n)
    BY <1>1, <2>5 DEF Targeting, Policies
  <2>8. Attached(files, n) = n
    BY <2>7 DEF Attached
  <2>9. Field(files, "McpPolicy", n, "tier") = request[c].tier
    <3>1. {p \in Variants(files, "McpPolicy", n) : files[p].spec.tier # Unset} = {q}
      BY <1>1, <2>4, <2>6
    <3>2. LastOf({q}) = q
      <4>1. {q} \in SUBSET Paths
        BY <2>5, CommandsAssumption
      <4>. QED  BY <4>1, LastIsLast
    <3>. QED  BY <2>4, <3>1, <3>2 DEF Field
  <2>10. n # None
    BY <2>5, RegistryAssumption
  <2>. QED  BY <2>6, <2>8, <2>9, <2>10 DEF Tier
<1>2. IInv => AddedPolicyGoverns
  BY <1>1 DEF AddedPolicyGoverns
<1>. QED  BY <1>2, InvariantHolds, PTL

\* A document on file is changed by a disable in the file that decides, or by an add
\* that another add has overlapped, and by nothing else (add_mcp_resources refuses the
\* files that are there).
THEOREM ExistingDocumentsKept == Spec => ExistingFilesKept
<1> DEFINE Kept ==
      \A p \in Paths :
          (files[p] \in Document /\ files'[p] # files[p]) =>
              \E c \in Calls :
                  \/ request[c].op = "disable" /\ pc[c] \in {"openSource", "writeSource"} /\ p = Source(c)
                  \/ Adding(c) /\ ~calm[c]
<1>1. ASSUME IInv, [Next]_vars
      PROVE  [Kept]_vars
  <2>1. PICK dir \in Directories : Inv(dir)
    BY <1>1 DEF IInv
  <2> SUFFICES ASSUME NEW p \in Paths, files[p] \in Document, files'[p] # files[p]
               PROVE  \E c \in Calls :
                        \/ request[c].op = "disable" /\ pc[c] \in {"openSource", "writeSource"} /\ p = Source(c)
                        \/ Adding(c) /\ ~calm[c]
    OBVIOUS
  <2>2. PICK c \in Calls : Begin(c) \/ Add(c) \/ Load(c) \/ Disable(c) \/ Stop(c)
    BY <1>1 DEF Next, vars
  <2>3. Asks(c) /\ IsFirst(c) /\ files[p] # Absent /\ files[p] # Empty
    BY <2>1, Constants DEF Inv
  <2>4. \A q, content : Put(c, q, content) => p = q
    BY DEF Put
  <2>5. CASE OpenServer(c) \/ WriteServer(c) \/ OpenPolicy(c) \/ WritePolicy(c)
    <3>1. \/ pc[c] \in {"openServer", "writeServer"} /\ p = ServerOf(c)
          \/ pc[c] \in {"openPolicy", "writePolicy"} /\ p = PolicyOf(c)
      BY <2>4, <2>5 DEF OpenServer, WriteServer, OpenPolicy, WritePolicy, Open, Write, ServerOf, PolicyOf
    <3>2. ~calm[c]
      BY <2>3, <3>1 DEF IsFirst
    <3>. QED  BY <2>3, <3>1, <3>2 DEF Adding, Running, Asks, AddLabels
  <2>6. CASE OpenSource(c) \/ WriteSource(c)
    <3>1. pc[c] \in {"openSource", "writeSource"} /\ p = Source(c)
      BY <2>4, <2>6 DEF OpenSource, WriteSource, Open, Write
    <3>. QED  BY <2>3, <3>1 DEF Asks
  <2>7. files' # files
    OBVIOUS
  <2>. QED  BY <2>2, <2>5, <2>6, <2>7
            DEF Begin, Add, CheckServer, CheckPolicy, Check, Load, List, Read, Tell, Disable, Reload, Stop
<1>. QED  BY <1>1, InvariantHolds, PTL DEF Spec, ExistingFilesKept

-----------------------------------------------------------------------------

-----------------------------------------------------------------------------
(* Reports.  A call that reads while one other writes will have read, if   *)
(* nothing more happens, what it has read and the rest as it stands now.   *)

Expected(c) == [p \in Paths |-> IF p \in toRead[c] THEN files[p] ELSE view[c][p]]

Inquires(c) == request[c].op \in {"list", "test"}

AddWrites == {"openServer", "writeServer", "openPolicy", "writePolicy"}

Writes == AddWrites \cup {"openSource", "writeSource"}

\* The file that a call writes next.
Target(d) ==
    IF pc[d] \in {"openServer", "writeServer"} THEN ServerOf(d)
    ELSE IF pc[d] \in {"openPolicy", "writePolicy"} THEN PolicyOf(d)
    ELSE Source(d)

AtMostOne(S) == \A d, e \in S : d = e

\* An add makes its server's file before its policy's.
ServerFirst(dir) ==
    /\ \A n \in Names : dir[PolicyPath[n]] = Absent /\ files[PolicyPath[n]] # Absent =>
           files[ServerPath[n]] # Absent
    /\ \A d \in Calls : pc[d] \in {"writeServer", "openPolicy", "writePolicy"} =>
           files[ServerOf(d)] # Absent

\* A call reads what there is, a policy's file before the server's of that name.
Reads(c) ==
    /\ pc[c] \in {"idle", "list"} => view[c] = Unread
    /\ \A p \in toRead[c] : files[p] # Absent
    /\ \A d \in Calls : pc[d] \in AddWrites /\ PolicyOf(d) \in toRead[c] => ServerOf(d) \in toRead[c]

\* Who has written while the call was reading, and what was right then.
Knows(c) ==
    /\ IsFiniteSet(writers[c])
    /\ \A d \in writers[c] : pc[d] \in (Writes \ {"openServer", "openSource"}) \cup {"done"}
    /\ Reading(c) => Truth(files, c) \subseteq truths[c]

\* With one other call writing, what will be read is there now, or was there and
\* the writer has nothing more to write to what is still to be read.
Consistent(c) ==
    pc[c] = "read" /\ Inquires(c) /\ AtMostOne(writers[c]) =>
        \/ Expected(c) = files
        \/ /\ \E d \in writers[c] : pc[d] \in Writes => Target(d) \notin toRead[c]
           /\ Whole(Expected(c)) => Reports(Expected(c), request[c]) \in truths[c]

Right(c) ==
    answer[c].reports # {} /\ AtMostOne(writers[c]) => answer[c].reports \in truths[c]

TInv(dir) ==
    /\ Inv(dir)
    /\ truths = [c \in Calls |-> truths[c]]
    /\ ServerFirst(dir)
    /\ \A c \in Calls : Reads(c) /\ Knows(c) /\ Consistent(c) /\ Right(c)

\* A step that leaves the directory alone, from where a call has not written, or to its end.
LEMMA QuietKept ==
    ASSUME NEW dir \in Directories, TInv(dir), Inv(dir)', NEW e \in Calls,
           UNCHANGED <<files, request, writers>>,
           truths' = [c \in Calls |-> truths'[c]],
           \A c \in Calls \ {e} :
               /\ pc'[c] = pc[c] /\ answer'[c] = answer[c] /\ toRead'[c] = toRead[c]
               /\ view'[c] = view[c] /\ truths'[c] = truths[c],
           pc'[e] = "done" \/ pc[e] \notin Writes \cup {"done"},
           pc'[e] \notin {"writeServer", "openPolicy", "writePolicy"},
           pc'[e] \in AddWrites => files[PolicyOf(e)] = Absent,
           (Reads(e) /\ Consistent(e) /\ Right(e))',
           (Reading(e) => Truth(files, e) \subseteq truths[e])'
    PROVE  TInv(dir)'
<1>1. ServerFirst(dir)'
  BY DEF TInv, ServerFirst, ServerOf
<1>2. \A c \in Calls : Reads(c) /\ Knows(c) /\ Consistent(c) /\ Right(c)
  BY DEF TInv
<1>3. ASSUME NEW c \in Calls
      PROVE  Knows(c)'
  <2>1. ASSUME NEW d \in writers[c]
        PROVE  pc'[d] \in (Writes \ {"openServer", "openSource"}) \cup {"done"}
    <3>1. d \in Calls /\ pc[d] \in (Writes \ {"openServer", "openSource"}) \cup {"done"}
      BY <1>2 DEF Knows, TInv, Inv, Typed
    <3>. QED  BY <3>1
  <2>2. CASE c = e
    BY <1>2, <2>1, <2>2 DEF Knows
  <2>3. CASE c # e
    BY <1>2, <2>1, <2>3 DEF Knows, Reading, Running, Truth
  <2>. QED  BY <2>2, <2>3
<1>4. ASSUME NEW c \in Calls \ {e}
      PROVE  (Reads(c) /\ Consistent(c) /\ Right(c))'
  <2>1. Reads(c)'
    <3>1. ASSUME NEW d \in Calls, pc'[d] \in AddWrites, PolicyOf(d) \in toRead[c]
          PROVE  ServerOf(d) \in toRead[c]
      BY <1>2, <3>1 DEF Reads
    <3>. QED  BY <1>2, <3>1 DEF Reads, PolicyOf, ServerOf
  <2>2. Consistent(c)'
    <3>1. Expected(c)' = Expected(c)
      BY DEF Expected
    <3>2. ASSUME NEW d \in writers[c], pc[d] \in Writes => Target(d) \notin toRead[c]
          PROVE  pc'[d] \in Writes => Target(d)' \notin toRead[c]
      <4>1. d \in Calls /\ pc[d] \in Writes \cup {"done"}
        BY <1>2 DEF Knows, TInv, Inv, Typed
      <4>2. CASE d = e
        BY <4>1, <4>2 DEF Writes, AddWrites
      <4>3. CASE d # e
        BY <3>2, <4>1, <4>3 DEF Target, Source, ServerOf, PolicyOf
      <4>. QED  BY <4>2, <4>3
    <3>. QED  BY <1>2, <3>1, <3>2 DEF Consistent, Inquires
  <2>3. Right(c)'
    BY <1>2 DEF Right
  <2>. QED  BY <2>1, <2>2, <2>3
<1>. QED  BY <1>1, <1>3, <1>4 DEF TInv

\* A write, of which the calls that read meanwhile come to know.
LEMMA PutKept ==
    ASSUME NEW dir \in Directories, TInv(dir), Inv(dir)', NEW e \in Calls, NEW content \in Content,
           Target(e) \in Paths, content # Absent, Put(e, Target(e), content),
           \A c \in Calls \ {e} : pc'[c] = pc[c] /\ answer'[c] = answer[c],
           answer'[e].reports = {},
           request[e].op \in {"add", "disable"},
           \/ pc[e] = "openServer" /\ pc'[e] = "writeServer"
           \/ pc[e] = "writeServer" /\ pc'[e] = "openPolicy"
           \/ pc[e] = "openPolicy" /\ pc'[e] = "writePolicy"
           \/ pc[e] = "openSource" /\ pc'[e] = "writeSource"
           \/ pc[e] \in {"writePolicy", "writeSource"} /\ pc'[e] = "done"
    PROVE  TInv(dir)'
<1> DEFINE p == Target(e)
<1>1. Typed /\ From(dir) /\ ServerFirst(dir) /\ Asks(e) /\ Decides(e)
  BY DEF TInv, Inv
<1>2. \A c \in Calls : Reads(c) /\ Knows(c) /\ Consistent(c) /\ Right(c)
  BY DEF TInv
<1>3. /\ UNCHANGED <<request, toRead, view, calm>>
      /\ files' \in Directory
      /\ files'[p] = content
      /\ \A q \in Paths \ {p} : files'[q] = files[q]
  BY <1>1, PutFacts
<1>4. \A q \in Paths : files[q] # Absent => files'[q] # Absent
  BY <1>3
<1>5. \A c \in Calls :
        /\ writers'[c] = IF Reading(c) /\ c # e THEN writers[c] \cup {e} ELSE writers[c]
        /\ truths'[c] = IF Reading(c) THEN truths[c] \cup Truth(files', c) ELSE truths[c]
  BY DEF Put
<1>6. /\ request[e].name \in Names
      /\ ServerOf(e) \in Paths /\ PolicyOf(e) \in Paths /\ ServerOf(e) # PolicyOf(e)
      /\ pc[e] \in AddWrites => request[e].op = "add"
  BY <1>1, NameIsAsked DEF Asks, AddWrites, AddLabels
<1>7. pc'[e] \in Writes => Target(e)' = IF pc[e] = "writeServer" THEN PolicyOf(e) ELSE p
  BY <1>3 DEF Target, Writes, AddWrites, Source, ServerOf, PolicyOf
<1> HIDE DEF p
<1>8. ServerFirst(dir)'
  <2>1. ASSUME NEW n \in Names, dir[PolicyPath[n]] = Absent, files'[PolicyPath[n]] # Absent
        PROVE  files'[ServerPath[n]] # Absent
    <3>1. PolicyPath[n] \in Paths /\ ServerPath[n] \in Paths
      BY CommandsAssumption
    <3>2. CASE files[PolicyPath[n]] # Absent
      BY <1>1, <1>4, <2>1, <3>1, <3>2 DEF ServerFirst
    <3>3. CASE files[PolicyPath[n]] = Absent
      <4>1. p = PolicyPath[n]
        BY <1>3, <2>1, <3>1, <3>3
      <4>2. pc[e] \notin {"openServer", "writeServer"}
        BY <4>1, <1>6, CommandsAssumption DEF p, Target, ServerOf
      <4>3. pc[e] \notin {"openSource", "writeSource"}
        <5>1. SUFFICES ASSUME pc[e] \in {"openSource", "writeSource"} PROVE FALSE
          OBVIOUS
        <5>2. p = Source(e) /\ request[e].op = "disable"
          BY <1>1, <5>1 DEF p, Target, Asks
        <5>3. p \in Paths /\ view[e][p] # Absent
          BY <1>1, <5>1, <5>2, SourceFacts DEF Decides
        <5>. QED  BY <1>1, <3>3, <4>1, <5>3 DEF From
      <4>4. pc[e] \in {"openPolicy", "writePolicy"} /\ PolicyPath[n] = PolicyPath[request[e].name]
        BY <4>1, <4>2, <4>3 DEF p, Target, PolicyOf
      <4>5. n = request[e].name
        BY <1>6, <4>4, CommandsAssumption
      <4>6. files[ServerOf(e)] # Absent
        BY <1>1, <4>4 DEF ServerFirst
      <4>. QED  BY <1>4, <3>1, <4>5, <4>6 DEF ServerOf
    <3>. QED  BY <3>2, <3>3
  <2>2. ASSUME NEW d \in Calls, pc'[d] \in {"writeServer", "openPolicy", "writePolicy"}
        PROVE  files'[ServerOf(d)] # Absent
    <3>1. CASE d = e
      <4>1. CASE pc[e] = "openServer"
        BY <1>3, <3>1, <4>1 DEF p, Target
      <4>2. CASE pc[e] # "openServer"
        <5>1. pc[e] \in {"writeServer", "openPolicy"}
          BY <2>2, <3>1, <4>2
        <5>. QED  BY <1>1, <1>4, <1>6, <3>1, <5>1 DEF ServerFirst
      <4>. QED  BY <4>1, <4>2
    <3>2. CASE d # e
      <4>1. pc[d] \in {"writeServer", "openPolicy", "writePolicy"}
        BY <2>2, <3>2
      <4>2. Asks(d)
        BY DEF TInv, Inv
      <4>3. ServerOf(d) \in Paths
        BY <1>1, <4>1, <4>2, NameIsAsked DEF Asks, AddLabels
      <4>. QED  BY <1>1, <1>4, <4>1, <4>3 DEF ServerFirst
    <3>. QED  BY <3>1, <3>2
  <2>. QED  BY <1>3, <2>1, <2>2 DEF ServerFirst, ServerOf
<1>9. ASSUME NEW c \in Calls
      PROVE  Reads(c)'
  <2>1. toRead[c] \subseteq Paths
    BY <1>1 DEF Typed
  <2>2. \A q \in toRead[c] : files'[q] # Absent
    BY <1>2, <1>4, <2>1 DEF Reads
  <2>3. pc'[c] \in {"idle", "list"} => view[c] = Unread
    BY <1>2 DEF Reads
  <2>4. \A d \in Calls : pc'[d] \in AddWrites => pc[d] \in AddWrites
    BY DEF AddWrites
  <2>5. \A d \in Calls : pc[d] \in AddWrites /\ PolicyOf(d) \in toRead[c] => ServerOf(d) \in toRead[c]
    BY <1>2 DEF Reads
  <2>. QED  BY <1>3, <2>2, <2>3, <2>4, <2>5 DEF Reads, ServerOf, PolicyOf
<1>10. ASSUME NEW c \in Calls
       PROVE  Knows(c)'
  <2>1. IsFiniteSet(writers'[c])
    <3>1. IsFiniteSet(writers[c])
      BY <1>2 DEF Knows
    <3>2. IsFiniteSet(writers[c] \cup {e})
      BY <3>1, FS_AddElement
    <3>. QED  BY <1>5, <3>1, <3>2, Zenon
  <2>2. ASSUME NEW d \in writers'[c]
        PROVE  pc'[d] \in (Writes \ {"openServer", "openSource"}) \cup {"done"}
    <3>1. CASE d = e
      BY <3>1 DEF Writes, AddWrites
    <3>2. CASE d # e
      <4>1. d \in writers[c] /\ d \in Calls
        <5>1. writers'[c] \subseteq writers[c] \cup {e}
          BY <1>5
        <5>2. d \in writers[c]
          BY <2>2, <3>2, <5>1
        <5>3. writers[c] \subseteq Calls
          BY <1>1 DEF Typed
        <5>. QED  BY <5>2, <5>3
      <4>2. pc[d] \in (Writes \ {"openServer", "openSource"}) \cup {"done"}
        BY <1>2, <4>1 DEF Knows
      <4>3. pc'[d] = pc[d]
        BY <3>2, <4>1
      <4>. QED  BY <4>2, <4>3
    <3>. QED  BY <3>1, <3>2
  <2>3. Reading(c)' => Truth(files, c)' \subseteq truths'[c]
    <3>1. Reading(c)' => Reading(c)
      BY <1>3 DEF Reading, Running
    <3>2. Truth(files, c)' = Truth(files', c)
      BY <1>3 DEF Truth
    <3>. QED  BY <1>5, <3>1, <3>2
  <2>. QED  BY <2>1, <2>2, <2>3 DEF Knows
<1>11. \A c \in Calls : writers[c] \subseteq writers'[c] /\ truths[c] \subseteq truths'[c]
  BY <1>5
<1>12. \A c \in Calls : AtMostOne(writers'[c]) => AtMostOne(writers[c])
  BY <1>11 DEF AtMostOne
<1>13. ASSUME NEW c \in Calls, pc'[c] = "read", Inquires(c)', AtMostOne(writers'[c])
       PROVE  \/ Expected(c)' = files'
              \/ /\ \E d \in writers'[c] : pc'[d] \in Writes => Target(d)' \notin toRead[c]
                 /\ Whole(Expected(c)') => Reports(Expected(c)', request[c]) \in truths'[c]
  <2>1. c # e /\ pc[c] = "read" /\ Inquires(c)
    BY <1>3, <1>13 DEF Inquires
  <2>2. Reading(c)
    BY <2>1 DEF Reading, Running, Inquires
  <2>3. e \in writers'[c] /\ AtMostOne(writers[c]) /\ \A d \in writers[c] : d = e
    BY <1>5, <1>12, <1>13, <2>1, <2>2 DEF AtMostOne
  <2>4. CASE p \in toRead[c] /\ Expected(c) = files
    <3>1. \A q \in Paths : q \notin toRead[c] => view[c][q] = files[q] /\ q # p
      BY <2>4 DEF Expected
    <3>2. Expected(c)' = [q \in Paths |-> IF q \in toRead[c] THEN files'[q] ELSE view[c][q]]
      BY <1>3 DEF Expected
    <3>3. files' = [q \in Paths |-> files'[q]]
      BY <1>3 DEF Directory
    <3>4. \A q \in Paths : (IF q \in toRead[c] THEN files'[q] ELSE view[c][q]) = files'[q]
      BY <1>3, <3>1
    <3>. QED  BY <3>2, <3>3, <3>4, Zenon
  <2>5. CASE p \notin toRead[c]
    <3>1. Expected(c)' = Expected(c)
      BY <1>1, <1>3, <2>5 DEF Expected, Typed
    <3>2. pc'[e] \in Writes => Target(e)' \notin toRead[c]
      <4>1. pc[e] = "writeServer" => PolicyOf(e) \notin toRead[c]
        BY <1>2, <2>5 DEF Reads, p, Target, AddWrites
      <4>. QED  BY <1>7, <2>5, <4>1
    <3>3. Whole(Expected(c)) => Reports(Expected(c), request[c]) \in truths[c]
      <4>1. CASE Expected(c) = files
        BY <1>2, <2>2, <4>1 DEF Knows, Truth
      <4>2. CASE Expected(c) # files
        BY <1>2, <2>1, <2>3, <4>2 DEF Consistent
      <4>. QED  BY <4>1, <4>2
    <3>. QED  BY <1>11, <2>3, <3>1, <3>2, <3>3
  <2>6. CASE p \in toRead[c] /\ Expected(c) # files
    <3>1. PICK d \in writers[c] : pc[d] \in Writes => Target(d) \notin toRead[c]
      BY <1>2, <2>1, <2>3, <2>6 DEF Consistent
    <3>2. d = e
      BY <2>3
    <3>3. pc[e] \in Writes
      BY DEF Writes, AddWrites
    <3>. QED  BY <2>6, <3>1, <3>2, <3>3 DEF p
  <2>. QED  BY <2>4, <2>5, <2>6
<1>14. \A c \in Calls : Consistent(c)'
  BY <1>3, <1>13 DEF Consistent
<1>15. ASSUME NEW c \in Calls
       PROVE  Right(c)'
  BY <1>2, <1>11, <1>12 DEF Right
<1>16. truths' = [c \in Calls |-> truths'[c]]
  BY DEF Put
<1>. QED  BY <1>8, <1>9, <1>10, <1>14, <1>15, <1>16 DEF TInv

\* Some paths have a first one.
LEMMA FirstIsFirst ==
    ASSUME NEW c \in Calls, toRead[c] \subseteq Paths, toRead[c] # {}
    PROVE  NextPath(c) \in toRead[c] /\ \A q \in toRead[c] : NextPath(c) <= q
<1> DEFINE less == OpToRel(<, Nat)
<1>1. IsWellFoundedOn(less, Nat)
  BY NatLessThanWellFounded, Zenon
<1>2. \A x, y \in Nat : y < x => <<y, x>> \in less
  BY DEF OpToRel
<1>3. toRead[c] \subseteq Nat
  BY RegistryAssumption
<1> HIDE DEF less
<1>4. PICK p \in toRead[c] : \A q \in toRead[c] : ~ (<<q, p>> \in less)
  BY <1>1, <1>3, WFMin, Zenon
<1>5. ASSUME NEW q \in toRead[c]
      PROVE  p <= q
  <2>1. p \in Nat /\ q \in Nat
    BY <1>3
  <2>2. ~(q < p)
    BY <1>2, <1>4, <2>1, Zenon
  <2>. QED  BY <2>1, <2>2
<1>. QED  BY <1>5 DEF NextPath

\* At first nobody has written or read.
LEMMA InitTrue ==
    ASSUME Init
    PROVE  files \in Directories /\ TInv(files)
<1>1. files \in Directories /\ Inv(files)
  BY InitInv
<1>2. \A c \in Calls :
        /\ pc[c] = "idle" /\ toRead[c] = {} /\ view[c] = Unread /\ writers[c] = {}
        /\ answer[c].reports = {}
  BY DEF Init
<1>3. ServerFirst(files)
  BY <1>2 DEF ServerFirst
<1>4. ASSUME NEW c \in Calls
      PROVE  Reads(c) /\ Knows(c) /\ Consistent(c) /\ Right(c)
  <2>1. IsFiniteSet(writers[c])
    BY <1>2, FS_EmptySet
  <2>. QED  BY <1>2, <2>1 DEF Reads, Knows, Consistent, Right, Reading, Running
<1>5. truths = [c \in Calls |-> truths[c]]
  BY DEF Init
<1>. QED  BY <1>1, <1>3, <1>4, <1>5 DEF TInv

\* What a call leaves alone that goes on without writing.
LEMMA QuietFacts ==
    ASSUME Typed, truths = [c \in Calls |-> truths[c]], NEW e \in Calls,
           Begin(e) \/ CheckServer(e) \/ CheckPolicy(e) \/ Load(e) \/ Reload(e) \/ Stop(e)
    PROVE  /\ UNCHANGED <<files, request, writers>>
           /\ truths' = [c \in Calls |-> truths'[c]]
           /\ Begin(e) \/ UNCHANGED truths
           /\ \A c \in Calls \ {e} :
                /\ pc'[c] = pc[c] /\ answer'[c] = answer[c] /\ toRead'[c] = toRead[c]
                /\ view'[c] = view[c] /\ truths'[c] = truths[c]
           /\ pc'[e] = "done" \/ pc[e] \in {"idle", "checkServer", "checkPolicy", "list", "read"}
           /\ pc'[e] \in {"list", "read", "checkServer", "checkPolicy", "openServer", "openSource", "done"}
           /\ pc'[e] = "openServer" => files[PolicyOf(e)] = Absent
           /\ pc'[e] = "list" => Begin(e)
           /\ pc'[e] = "read" => List(e) \/ Read(e)
           /\ Tell(e) \/ answer'[e] = answer[e] \/ answer'[e].reports = {}
<1> DEFINE Moves(labels) ==
             /\ pc' = [pc EXCEPT ![e] = pc'[e]] /\ pc'[e] \in labels
             /\ answer' = [answer EXCEPT ![e] = answer'[e]]
<1>1. answer = [answer EXCEPT ![e] = answer[e]]
  BY DEF Typed
<1>2. \A label \in Labels : Goto(e, label) => Moves({label}) /\ answer'[e] = answer[e]
  BY <1>1, GotoOrAnswer
<1>3. \A status, reports : Answer(e, status, reports) => Moves({"done"}) /\ answer'[e].reports = reports
  <2>1. ASSUME NEW status, NEW reports, Answer(e, status, reports)
        PROVE  /\ pc' = [pc EXCEPT ![e] = "done"] /\ pc'[e] = "done"
               /\ answer' = [answer EXCEPT ![e] = answer'[e]]
               /\ answer'[e].reports = reports
    <3>1. answer'[e] = [status |-> status, reports |-> reports]
      BY <2>1, GotoOrAnswer
    <3>. QED  BY <2>1, <3>1, GotoOrAnswer
  <2>. QED  BY <2>1
<1>4. \A labels : Moves(labels) => \A c \in Calls \ {e} : pc'[c] = pc[c] /\ answer'[c] = answer[c]
  BY DEF Typed
<1> HIDE DEF Moves
<1>5. CASE Begin(e)
  <2>1. /\ UNCHANGED <<files, request, toRead, view, writers>>
        /\ pc[e] = "idle"
        /\ \E value : truths' = [truths EXCEPT ![e] = value]
    BY <1>5 DEF Begin
  <2>2. truths' = [c \in Calls |-> truths'[c]] /\ \A c \in Calls \ {e} : truths'[c] = truths[c]
    BY <2>1
  <2>3. \/ Goto(e, "list") \/ Goto(e, "checkServer") \/ Answer(e, "ERROR", {})
    BY <1>5 DEF Begin
  <2>4. /\ Moves({"list"}) \/ Moves({"checkServer"}) \/ Moves({"done"})
        /\ answer'[e] = answer[e] \/ answer'[e].reports = {}
    BY <2>3, <1>2, <1>3 DEF Labels
  <2>5. pc'[e] \in {"list", "checkServer", "done"}
    BY <2>4 DEF Moves
  <2>. QED  BY <1>4, <1>5, <2>1, <2>2, <2>4, <2>5
<1>6. CASE CheckServer(e) \/ CheckPolicy(e)
  <2>1. /\ UNCHANGED <<files, request, toRead, view, writers, truths>>
        /\ pc[e] \in {"checkServer", "checkPolicy"}
        /\ \/ Goto(e, "checkPolicy")
           \/ Goto(e, "openServer") /\ files[PolicyOf(e)] = Absent
           \/ Answer(e, "ERROR", {})
    BY <1>6 DEF CheckServer, CheckPolicy, Check, history, PolicyOf
  <2>2. /\ \/ Moves({"checkPolicy"})
           \/ Moves({"openServer"}) /\ files[PolicyOf(e)] = Absent
           \/ Moves({"done"})
        /\ answer'[e] = answer[e] \/ answer'[e].reports = {}
    BY <2>1, <1>2, <1>3 DEF Labels
  <2>3. /\ pc'[e] \in {"checkPolicy", "openServer", "done"}
        /\ pc'[e] = "openServer" => files[PolicyOf(e)] = Absent
    BY <2>2 DEF Moves
  <2>. QED  BY <1>4, <2>1, <2>2, <2>3
<1>7. CASE List(e)
  <2>1. /\ UNCHANGED <<files, request, view, writers, truths>>
        /\ pc[e] = "list" /\ Goto(e, "read")
        /\ \E value : toRead' = [toRead EXCEPT ![e] = value]
    BY <1>7 DEF List, history
  <2>2. Moves({"read"}) /\ answer'[e] = answer[e]
    BY <2>1, <1>2 DEF Labels
  <2>3. pc'[e] = "read"
    BY <2>2 DEF Moves
  <2>4. \A c \in Calls \ {e} : toRead'[c] = toRead[c]
    BY <2>1 DEF Typed
  <2>. QED  BY <1>4, <1>7, <2>1, <2>2, <2>3, <2>4
<1>8. CASE Read(e)
  <2>1. /\ UNCHANGED <<files, request, writers, truths>>
        /\ pc[e] = "read"
        /\ Goto(e, "read") \/ Answer(e, "ERROR", {})
        /\ \E value : toRead' = [toRead EXCEPT ![e] = value]
        /\ view' = view \/ \E p, value : view' = [view EXCEPT ![e][p] = value]
    BY <1>8 DEF Read, history
  <2>2. /\ Moves({"read"}) \/ Moves({"done"})
        /\ answer'[e] = answer[e] \/ answer'[e].reports = {}
    BY <2>1, <1>2, <1>3 DEF Labels
  <2>3. pc'[e] \in {"read", "done"}
    BY <2>2 DEF Moves
  <2>4. \A c \in Calls \ {e} : toRead'[c] = toRead[c] /\ view'[c] = view[c]
    BY <2>1 DEF Typed
  <2>. QED  BY <1>4, <1>8, <2>1, <2>2, <2>3, <2>4
<1>9. CASE Tell(e)
  <2>1. /\ UNCHANGED <<files, request, toRead, view, writers, truths>>
        /\ pc[e] = "read"
        /\ \E status, reports : Answer(e, status, reports)
    BY <1>9 DEF Tell, Loaded, history
  <2>2. Moves({"done"})
    BY <2>1, <1>3
  <2>3. pc'[e] = "done"
    BY <2>2 DEF Moves
  <2>. QED  BY <1>4, <1>9, <2>1, <2>2, <2>3
<1>10. CASE Reload(e)
  <2>1. /\ UNCHANGED <<files, request, toRead, writers, truths>>
        /\ pc[e] = "read"
        /\ Goto(e, "openSource") \/ Answer(e, "ERROR", {})
        /\ view' = view \/ \E p, value : view' = [view EXCEPT ![e][p] = value]
    BY <1>10 DEF Reload, Loaded, history
  <2>2. /\ Moves({"openSource"}) \/ Moves({"done"})
        /\ answer'[e] = answer[e] \/ answer'[e].reports = {}
    BY <2>1, <1>2, <1>3 DEF Labels
  <2>3. pc'[e] \in {"openSource", "done"}
    BY <2>2 DEF Moves
  <2>4. \A c \in Calls \ {e} : view'[c] = view[c]
    BY <2>1 DEF Typed
  <2>. QED  BY <1>4, <2>1, <2>2, <2>3, <2>4
<1>11. CASE Stop(e)
  <2>1. UNCHANGED <<files, request, toRead, view, writers, truths>> /\ Answer(e, "killed", {})
    BY <1>11 DEF Stop, history
  <2>2. Moves({"done"}) /\ answer'[e].reports = {}
    BY <2>1, <1>3
  <2>3. pc'[e] = "done"
    BY <2>2 DEF Moves
  <2>. QED  BY <1>4, <2>1, <2>2, <2>3
<1>. QED  BY <1>5, <1>6, <1>7, <1>8, <1>9, <1>10, <1>11 DEF Load

\* The steps that write nothing.
LEMMA QuietTrue ==
    ASSUME NEW dir \in Directories, TInv(dir), Inv(dir)', NEW e \in Calls,
           Begin(e) \/ CheckServer(e) \/ CheckPolicy(e) \/ Load(e) \/ Reload(e) \/ Stop(e)
    PROVE  TInv(dir)'
<1>1. /\ Typed /\ From(dir) /\ ServerFirst(dir) /\ Asks(e) /\ Asks(e)'
      /\ truths = [c \in Calls |-> truths[c]]
      /\ Reads(e) /\ Knows(e) /\ Consistent(e) /\ Right(e)
  BY DEF TInv, Inv
<1>2. /\ UNCHANGED <<files, request, writers>>
      /\ truths' = [c \in Calls |-> truths'[c]]
      /\ Begin(e) \/ UNCHANGED truths
      /\ \A c \in Calls \ {e} :
           /\ pc'[c] = pc[c] /\ answer'[c] = answer[c] /\ toRead'[c] = toRead[c]
           /\ view'[c] = view[c] /\ truths'[c] = truths[c]
      /\ pc'[e] = "done" \/ pc[e] \in {"idle", "checkServer", "checkPolicy", "list", "read"}
      /\ pc'[e] \in {"list", "read", "checkServer", "checkPolicy", "openServer", "openSource", "done"}
      /\ pc'[e] = "openServer" => files[PolicyOf(e)] = Absent
      /\ pc'[e] = "list" => Begin(e)
      /\ pc'[e] = "read" => List(e) \/ Read(e)
      /\ Tell(e) \/ answer'[e] = answer[e] \/ answer'[e].reports = {}
  BY <1>1, QuietFacts
<1>3. /\ pc'[e] = "done" \/ pc[e] \notin Writes \cup {"done"}
      /\ pc'[e] \notin {"writeServer", "openPolicy", "writePolicy"}
      /\ pc'[e] \in AddWrites => files[PolicyOf(e)] = Absent
  BY <1>2 DEF Writes, AddWrites
<1>4. toRead[e] \subseteq Paths /\ view[e] \in [Paths -> Content] /\ files \in [Paths -> Content]
  BY <1>1 DEF Typed, Directory
<1>5. CASE List(e)
  <2>1. /\ pc[e] = "list" /\ view' = view
        /\ toRead' = [toRead EXCEPT ![e] = {p \in Paths : files[p] # Absent}]
    BY <1>5 DEF List
  <2>2. toRead'[e] = {p \in Paths : files[p] # Absent}
    BY <1>1, <2>1 DEF Typed
  <2>3. view[e] = Unread
    BY <1>1, <2>1 DEF Reads
  <2>4. Reads(e)'
    <3>1. ASSUME NEW d \in Calls, pc'[d] \in AddWrites, PolicyOf(d) \in toRead'[e]
          PROVE  ServerOf(d) \in toRead'[e]
      <4>1. pc[d] \in AddWrites
        BY <1>2, <1>3, <2>2, <3>1
      <4>2. Asks(d)
        BY DEF TInv, Inv
      <4>3. request[d].op = "add" /\ request[d].name \in Names /\ ServerOf(d) \in Paths /\ PolicyOf(d) \in Paths
        BY <1>1, <4>1, <4>2, NameIsAsked DEF Asks, AddLabels, AddWrites
      <4>4. dir[PolicyOf(d)] = Absent
        BY <1>1, <4>1 DEF From, AddWrites
      <4>5. files[ServerOf(d)] # Absent
        BY <1>1, <2>2, <3>1, <4>3, <4>4 DEF ServerFirst, ServerOf, PolicyOf
      <4>. QED  BY <2>2, <4>3, <4>5
    <3>2. pc'[e] \notin {"idle", "list"}
      BY <1>2, <2>1 DEF Begin
    <3>. QED  BY <1>2, <2>2, <3>1, <3>2 DEF Reads, ServerOf, PolicyOf
  <2>5. Consistent(e)'
    <3>1. \A p \in Paths : (IF p \in toRead'[e] THEN files[p] ELSE view[e][p]) = files[p]
      BY <2>2, <2>3 DEF Unread
    <3>2. Expected(e)' = [p \in Paths |-> IF p \in toRead'[e] THEN files[p] ELSE view[e][p]]
      BY <1>2, <2>1 DEF Expected
    <3>3. files = [p \in Paths |-> files[p]]
      BY <1>4
    <3>4. Expected(e)' = files'
      BY <1>2, <3>1, <3>2, <3>3, Zenon
    <3>. QED  BY <3>4 DEF Consistent
  <2>6. Right(e)'
    BY <1>1, <1>2, <2>1 DEF Right, Asks, Tell, Loaded
  <2>7. (Reading(e) => Truth(files, e) \subseteq truths[e])'
    <3>1. Reading(e)' => Reading(e)
      BY <1>2, <2>1 DEF Reading, Running
    <3>. QED  BY <1>1, <1>2, <2>1, <3>1 DEF Knows, Truth, Begin
  <2>. QED  BY <1>2, <1>3, <2>4, <2>5, <2>6, <2>7, QuietKept
<1>6. CASE Read(e)
  <2> DEFINE q == NextPath(e)
  <2>1. /\ pc[e] = "read" /\ toRead[e] # {}
        /\ toRead' = [toRead EXCEPT ![e] = @ \ {q}]
        /\ \/ files[q] \in Damaged /\ view' = view /\ Answer(e, "ERROR", {})
           \/ view' = [view EXCEPT ![e][q] = files[q]] /\ Goto(e, "read")
    BY <1>6 DEF Read
  <2>2. q \in toRead[e] /\ \A p \in toRead[e] : q <= p
    BY <1>4, <2>1, FirstIsFirst
  <2> HIDE DEF q
  <2>3. toRead'[e] = toRead[e] \ {q}
    BY <1>1, <2>1 DEF Typed
  <2>4. pc'[e] \in {"read", "done"}
    BY <1>1, <2>1, GotoOrAnswer DEF Labels
  <2>5. Reads(e)'
    <3>1. ASSUME NEW d \in Calls, pc'[d] \in AddWrites, PolicyOf(d) \in toRead'[e]
          PROVE  ServerOf(d) \in toRead'[e]
      <4>1. d # e /\ pc[d] \in AddWrites
        BY <1>2, <2>4, <3>1 DEF AddWrites
      <4>2. Asks(d)
        BY DEF TInv, Inv
      <4>3. request[d].op = "add"
        BY <4>1, <4>2 DEF Asks, AddLabels, AddWrites
      <4>4. /\ ServerOf(d) \in Paths /\ PolicyOf(d) \in Paths
            /\ ServerOf(d) # PolicyOf(d) /\ PolicyOf(d) <= ServerOf(d)
        BY <1>1, <4>3, NameIsAsked, CommandsAssumption DEF ServerOf, PolicyOf
      <4>5. ServerOf(d) \in toRead[e]
        BY <1>1, <2>3, <3>1, <4>1 DEF Reads
      <4>6. q <= PolicyOf(d)
        BY <2>2, <2>3, <3>1
      <4>7. ServerOf(d) # q
        <5> DEFINE s == ServerOf(d)
                   r == PolicyOf(d)
        <5>1. s \in Nat /\ r \in Nat /\ s # r /\ r <= s /\ q <= r
          BY <4>4, <4>6, RegistryAssumption
        <5> HIDE DEF s, r
        <5>2. s # q
          BY <5>1
        <5>. QED  BY <5>2 DEF s
      <4>. QED  BY <2>3, <4>5, <4>7
    <3>2. \A p \in toRead'[e] : files[p] # Absent
      BY <1>1, <2>3 DEF Reads
    <3>. QED  BY <1>2, <2>4, <3>1, <3>2 DEF Reads, ServerOf, PolicyOf
  <2>6. Consistent(e)'
    <3>1. SUFFICES ASSUME pc'[e] = "read", Inquires(e)', AtMostOne(writers'[e])
                   PROVE  \/ Expected(e)' = files'
                          \/ /\ \E d \in writers'[e] : pc'[d] \in Writes => Target(d)' \notin toRead'[e]
                             /\ Whole(Expected(e)') => Reports(Expected(e)', request'[e]) \in truths'[e]
      BY DEF Consistent
    <3>2. view' = [view EXCEPT ![e][q] = files[q]]
      BY <1>1, <2>1, <3>1, GotoOrAnswer
    <3>3. view'[e] = [view[e] EXCEPT ![q] = files[q]]
      BY <1>1, <3>2 DEF Typed
    <3>4. \A p \in Paths : (IF p \in toRead'[e] THEN files[p] ELSE view'[e][p])
                             = (IF p \in toRead[e] THEN files[p] ELSE view[e][p])
      BY <1>4, <2>2, <2>3, <3>3
    <3>5. Expected(e)' = [p \in Paths |-> IF p \in toRead'[e] THEN files[p] ELSE view'[e][p]]
      BY <1>2 DEF Expected
    <3>6. Expected(e)' = Expected(e)
      BY <3>4, <3>5, Zenon DEF Expected
    <3>7. Inquires(e) /\ AtMostOne(writers[e])
      BY <1>2, <3>1 DEF Inquires
    <3>8. CASE Expected(e) = files
      BY <1>2, <3>6, <3>8
    <3>9. CASE /\ \E d \in writers[e] : pc[d] \in Writes => Target(d) \notin toRead[e]
               /\ Whole(Expected(e)) => Reports(Expected(e), request[e]) \in truths[e]
      <4>1. PICK d \in writers[e] : pc[d] \in Writes => Target(d) \notin toRead[e]
        BY <3>9
      <4>2. d \in Calls /\ pc[d] \in Writes \cup {"done"}
        BY <1>1 DEF Knows, Typed
      <4>3. d # e
        BY <2>1, <4>2 DEF Writes, AddWrites
      <4>4. pc'[d] = pc[d] /\ Target(d)' = Target(d)
        BY <1>2, <4>2, <4>3 DEF Target, Source, ServerOf, PolicyOf
      <4>5. truths' = truths
        BY <1>2, <2>1 DEF Begin
      <4>. QED  BY <1>2, <2>3, <3>6, <3>9, <4>1, <4>4, <4>5
    <3>. QED  BY <1>1, <2>1, <3>7, <3>8, <3>9 DEF Consistent
  <2>7. answer'[e].reports = {}
    <3>1. ~Tell(e)
      BY <2>1 DEF Tell, Loaded
    <3>2. answer[e].reports = {}
      BY <1>1, <2>1 DEF Asks
    <3>. QED  BY <1>2, <3>1, <3>2
  <2>8. (Reading(e) => Truth(files, e) \subseteq truths[e])'
    <3>1. Reading(e)' => Reading(e)
      BY <1>2, <2>1 DEF Reading, Running
    <3>. QED  BY <1>1, <1>2, <2>1, <3>1 DEF Knows, Truth, Begin
  <2>. QED  BY <1>2, <1>3, <2>5, <2>6, <2>7, <2>8, QuietKept DEF Right
<1>7. CASE Tell(e)
  <2>1. /\ pc[e] = "read" /\ toRead[e] = {} /\ Inquires(e)
        /\ UNCHANGED <<toRead, view, truths>>
        /\ \E status : Answer(e, status, Reports(view[e], request[e]))
    BY <1>7 DEF Tell, Loaded, Inquires, history
  <2>2. pc'[e] = "done" /\ answer'[e].reports = Reports(view[e], request[e])
    <3>1. PICK status : Answer(e, status, Reports(view[e], request[e]))
      BY <2>1
    <3>2. answer'[e] = [status |-> status, reports |-> Reports(view[e], request[e])]
      BY <1>1, <3>1, GotoOrAnswer
    <3>. QED  BY <1>1, <3>1, <3>2, GotoOrAnswer
  <2>3. Expected(e) = view[e]
    <3>1. \A p \in Paths : (IF p \in toRead[e] THEN files[p] ELSE view[e][p]) = view[e][p]
      BY <2>1
    <3>2. view[e] = [p \in Paths |-> view[e][p]]
      BY <1>4
    <3>. QED  BY <3>1, <3>2, Zenon DEF Expected
  <2>4. Whole(view[e])
    <3>1. \A p \in Paths : view[e][p] = Absent \/ view[e][p] \in Document
      BY <1>1, FileFacts, Alike
    <3>. QED  BY <3>1, Constants DEF Whole, Damaged
  <2>5. AtMostOne(writers[e]) => Reports(view[e], request[e]) \in truths[e]
    <3>1. Reading(e)
      BY <2>1 DEF Reading, Running, Inquires
    <3>2. CASE Expected(e) = files
      BY <1>1, <2>3, <2>4, <3>1, <3>2 DEF Knows, Truth
    <3>3. CASE Expected(e) # files
      BY <1>1, <2>1, <2>3, <2>4, <3>3 DEF Consistent
    <3>. QED  BY <3>2, <3>3
  <2>6. Right(e)'
    BY <1>2, <2>1, <2>2, <2>5 DEF Right
  <2>7. Reads(e)'
    BY <1>1, <1>2, <2>1, <2>2 DEF Reads, ServerOf, PolicyOf, AddWrites
  <2>8. Consistent(e)' /\ ~Reading(e)'
    BY <2>2 DEF Consistent, Reading, Running
  <2>. QED  BY <1>2, <1>3, <2>6, <2>7, <2>8, QuietKept
<1>8. CASE Begin(e) \/ CheckServer(e) \/ CheckPolicy(e) \/ Reload(e) \/ Stop(e)
  <2>1. /\ toRead' = toRead
        /\ pc'[e] \in {"idle", "list"} => view'[e] = view[e] /\ pc[e] = "idle"
    BY <1>2, <1>8 DEF Begin, CheckServer, CheckPolicy, Check, Reload, Stop
  <2>2. Reads(e)'
    <3>1. ASSUME NEW d \in Calls, pc'[d] \in AddWrites, PolicyOf(d) \in toRead[e]
          PROVE  ServerOf(d) \in toRead[e]
      <4>1. pc[d] \in AddWrites
        BY <1>1, <1>2, <1>3, <3>1 DEF Reads
      <4>. QED  BY <1>1, <3>1, <4>1 DEF Reads
    <3>. QED  BY <1>1, <1>2, <2>1, <3>1 DEF Reads, ServerOf, PolicyOf
  <2>3. pc'[e] # "read" /\ (answer'[e] = answer[e] \/ answer'[e].reports = {})
    <3>1. CASE Stop(e)
      <4>1. Answer(e, "killed", {})
        BY <3>1 DEF Stop
      <4>2. pc'[e] = "done" /\ answer'[e] = [status |-> "killed", reports |-> {}]
        BY <1>1, <4>1, GotoOrAnswer
      <4>. QED  BY <4>2
    <3>2. CASE Begin(e) \/ CheckServer(e) \/ CheckPolicy(e)
      <4>1. pc[e] \in {"idle", "checkServer", "checkPolicy"}
        BY <3>2 DEF Begin, CheckServer, CheckPolicy, Check
      <4>. QED  BY <1>2, <4>1 DEF List, Read, Tell, Loaded
    <3>3. CASE Reload(e)
      <4>1. Answer(e, "ERROR", {}) \/ Goto(e, "openSource")
        BY <3>3 DEF Reload
      <4>2. pc'[e] \in {"done", "openSource"}
        BY <1>1, <4>1, GotoOrAnswer DEF Labels
      <4>3. ~Tell(e)
        BY <1>1, <3>3 DEF Reload, Tell
      <4>. QED  BY <1>2, <4>2, <4>3
    <3>. QED  BY <1>8, <3>1, <3>2, <3>3
  <2>4. Right(e)'
    <3>1. answer'[e].reports # {} => pc[e] = "done"
      BY <1>1, <2>3 DEF Asks
    <3>2. truths' = truths \/ pc[e] # "done"
      BY <1>2 DEF Begin
    <3>. QED  BY <1>1, <1>2, <2>3, <3>1, <3>2 DEF Right
  <2>5. Consistent(e)'
    BY <2>3 DEF Consistent
  <2>6. (Reading(e) => Truth(files, e) \subseteq truths[e])'
    <3>1. CASE Begin(e)
      <4>1. truths' = [truths EXCEPT ![e] =
                          IF request[e].op \in {"list", "test"} THEN Truth(files, e) ELSE {}]
        BY <3>1 DEF Begin
      <4>2. request[e].op \in {"list", "test"} => truths'[e] = Truth(files, e)
        BY <1>1, <4>1
      <4>. QED  BY <1>2, <4>2 DEF Reading, Truth
    <3>2. CASE ~Begin(e)
      <4>1. truths' = truths /\ pc[e] \notin {"idle", "done"}
        BY <1>2, <1>8, <3>2 DEF CheckServer, CheckPolicy, Check, Reload, Loaded, Stop, Running
      <4>2. Reading(e)' => Reading(e)
        BY <1>2, <4>1 DEF Reading, Running
      <4>. QED  BY <1>1, <1>2, <4>1, <4>2 DEF Knows, Truth
    <3>. QED  BY <3>1, <3>2
  <2>. QED  BY <1>2, <1>3, <2>2, <2>4, <2>5, <2>6, QuietKept
<1>. QED  BY <1>5, <1>6, <1>7, <1>8 DEF Load

\* The steps that write.
LEMMA WriteTrue ==
    ASSUME NEW dir \in Directories, TInv(dir), Inv(dir)', NEW e \in Calls,
           \/ OpenServer(e) \/ WriteServer(e) \/ OpenPolicy(e) \/ WritePolicy(e)
           \/ OpenSource(e) \/ WriteSource(e)
    PROVE  TInv(dir)'
<1>1. /\ Typed /\ From(dir) /\ Asks(e) /\ Decides(e)
      /\ pc[e] \in Writes
      /\ pc[e] \in AddWrites => request[e].op = "add"
      /\ pc[e] \notin AddWrites => request[e].op = "disable" /\ Variants(view[e], "McpServer", request[e].name) # {}
      /\ answer[e].reports = {}
  BY DEF TInv, Inv, Asks, Decides, AddLabels, Writes, AddWrites, OpenServer, WriteServer, OpenPolicy,
         WritePolicy, OpenSource, WriteSource
<1>2. Target(e) \in Paths
  BY <1>1, NameIsAsked, SourceFacts DEF Target, AddWrites
<1>3. Empty \in Content /\ Garbled \in Content /\ Absent \notin Document \cup {Empty, Garbled}
  BY Constants DEF Content, Damaged
<1>4. PICK content \in Document \cup {Empty, Garbled} : Put(e, Target(e), content)
  <2>1. CASE OpenServer(e) \/ OpenPolicy(e) \/ OpenSource(e)
    BY <2>1 DEF OpenServer, OpenPolicy, OpenSource, Open, Target, ServerOf, PolicyOf
  <2>2. CASE WriteServer(e)
    <3>1. pc[e] = "writeServer" /\ \E content \in {NewServer(request[e]), Garbled} : Put(e, Target(e), content)
      BY <2>2 DEF WriteServer, Write, Target, ServerOf
    <3>2. NewServer(request[e]) \in Document
      BY <1>1, <3>1, Written DEF AddWrites
    <3>. QED  BY <3>1, <3>2
  <2>3. CASE WritePolicy(e)
    <3>1. pc[e] = "writePolicy" /\ \E content \in {NewPolicy(request[e]), Garbled} : Put(e, Target(e), content)
      BY <2>3 DEF WritePolicy, Write, Target, PolicyOf
    <3>2. NewPolicy(request[e]) \in Document
      BY <1>1, <3>1, Written DEF AddWrites
    <3>. QED  BY <3>1, <3>2
  <2>4. CASE WriteSource(e)
    <3>1. pc[e] = "writeSource" /\ \E content \in {Off(view[e][Source(e)]), Garbled} : Put(e, Target(e), content)
      BY <2>4 DEF WriteSource, Write, Target, Off
    <3>2. Source(e) \in Paths /\ view[e][Source(e)] \notin Damaged \cup {Absent}
      BY <1>1, <3>1, SourceFacts DEF AddWrites
    <3>3. view[e][Source(e)] \in Document
      BY <1>1, <3>2, FileFacts, Alike
    <3>. QED  BY <3>1, <3>3, OffIsDocument
  <2>. QED  BY <2>1, <2>2, <2>3, <2>4
<1>5. \/ pc[e] = "openServer" /\ Goto(e, "writeServer")
      \/ pc[e] = "writeServer" /\ Goto(e, "openPolicy")
      \/ pc[e] = "openPolicy" /\ Goto(e, "writePolicy")
      \/ pc[e] = "openSource" /\ Goto(e, "writeSource")
      \/ pc[e] \in {"writePolicy", "writeSource"} /\ Answer(e, "OK", {})
  BY DEF OpenServer, WriteServer, OpenPolicy, WritePolicy, OpenSource, WriteSource
<1>6. /\ \A c \in Calls \ {e} : pc'[c] = pc[c] /\ answer'[c] = answer[c]
      /\ answer'[e].reports = {}
      /\ \/ pc[e] = "openServer" /\ pc'[e] = "writeServer"
         \/ pc[e] = "writeServer" /\ pc'[e] = "openPolicy"
         \/ pc[e] = "openPolicy" /\ pc'[e] = "writePolicy"
         \/ pc[e] = "openSource" /\ pc'[e] = "writeSource"
         \/ pc[e] \in {"writePolicy", "writeSource"} /\ pc'[e] = "done"
  <2>1. ASSUME NEW label, Goto(e, label)
        PROVE  /\ \A c \in Calls \ {e} : pc'[c] = pc[c] /\ answer'[c] = answer[c]
               /\ answer'[e].reports = {} /\ pc'[e] = label
    BY <1>1, <2>1 DEF Goto, Typed
  <2>2. ASSUME Answer(e, "OK", {})
        PROVE  /\ \A c \in Calls \ {e} : pc'[c] = pc[c] /\ answer'[c] = answer[c]
               /\ answer'[e].reports = {} /\ pc'[e] = "done"
    <3>1. /\ pc' = [pc EXCEPT ![e] = "done"] /\ pc'[e] = "done"
          /\ answer' = [answer EXCEPT ![e] = answer'[e]]
          /\ answer'[e] = [status |-> "OK", reports |-> {}]
      BY <1>1, <2>2, GotoOrAnswer
    <3>2. answer'[e].reports = {}
      BY <3>1
    <3>3. \A c \in Calls \ {e} : pc'[c] = pc[c] /\ answer'[c] = answer[c]
      BY <1>1, <3>1 DEF Typed
    <3>. QED  BY <3>1, <3>2, <3>3
  <2>. QED  BY <1>5, <2>1, <2>2
<1>7. content \in Content /\ content # Absent /\ request[e].op \in {"add", "disable"}
  BY <1>1, <1>3, <1>4 DEF Content
<1>. QED  BY <1>2, <1>4, <1>6, <1>7, PutKept

\* With one other call writing meanwhile, what `mcp list` or `mcp test` reports was right
\* at some moment since it began, though it reads file by file: what it will have read
\* is the directory as it is, or as it was before a writer that has nothing more to
\* write to a file still to be read; an add makes the server's file, which is read later
\* than the policy's, before the policy's (load_mcp_registry, add_mcp_resources).
THEOREM ReportsWereTrue == Spec => []ReportWasTrue
<1> DEFINE True == \E dir \in Directories : TInv(dir)
<1>1. Init => True
  BY InitTrue
<1>2. True /\ [Next]_vars => True'
  <2> SUFFICES ASSUME NEW dir \in Directories, TInv(dir), [Next]_vars
               PROVE  TInv(dir)'
    OBVIOUS
  <2>1. Inv(dir)'
    BY StepKept DEF TInv
  <2>2. CASE UNCHANGED vars
    <3>1. UNCHANGED <<files, request, pc, toRead, view, answer, calm, writers, truths>>
      BY <2>2 DEF vars, call, history
    <3>2. ServerFirst(dir)'
      BY <3>1 DEF TInv, ServerFirst, ServerOf
    <3>3. ASSUME NEW c \in Calls
          PROVE  (Reads(c) /\ Knows(c) /\ Consistent(c) /\ Right(c))'
      BY <3>1 DEF TInv, Reads, Knows, Consistent, Right, Reading, Running, Truth, Expected, Inquires,
                  Target, Source, ServerOf, PolicyOf
    <3>. QED  BY <2>1, <3>1, <3>2, <3>3 DEF TInv
  <2>3. CASE Next
    <3>1. PICK c \in Calls : Begin(c) \/ Add(c) \/ Load(c) \/ Disable(c) \/ Stop(c)
      BY <2>3 DEF Next
    <3>. QED  BY <2>1, <3>1, QuietTrue, WriteTrue DEF Add, Disable
  <2>. QED  BY <2>2, <2>3
<1>3. True => ReportWasTrue
  <2> SUFFICES ASSUME NEW dir \in Directories, TInv(dir), NEW c \in Calls,
                      answer[c].reports # {}, Cardinality(writers[c]) <= 1
               PROVE  answer[c].reports \in truths[c]
    BY DEF ReportWasTrue
  <2>1. IsFiniteSet(writers[c]) /\ Right(c)
    BY DEF TInv, Knows
  <2>2. Cardinality(writers[c]) \in Nat
    BY <2>1, FS_CardinalityType
  <2>3. CASE Cardinality(writers[c]) = 0
    BY <2>1, <2>3, FS_EmptySet DEF AtMostOne, Right
  <2>4. CASE Cardinality(writers[c]) = 1
    BY <2>1, <2>4, FS_Singleton DEF AtMostOne, Right
  <2>. QED  BY <2>2, <2>3, <2>4
<1>. QED  BY <1>1, <1>2, <1>3, PTL DEF Spec

=============================================================================
