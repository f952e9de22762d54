--------------------------- MODULE MCTraceRecords ---------------------------
(* Two runs and one stray file.  The answers nest a key that both lists    *)
(* call sensitive, one that only the first does, a safe key and a value    *)
(* that looks like a secret, in objects and in an array.                   *)
EXTENDS TraceRecords

MCKeys == {"output", "reason", "rows", "0", "sessionId", "passphrase", "secretRefs",
           "secretBackend"}

MCPartsOf == [key \in MCKeys |->
    CASE key = "sessionId"  -> {"session"}
      [] key = "passphrase" -> {"passphrase"}
      [] key \in {"secretRefs", "secretBackend"} -> {"secret"}
      [] OTHER -> {}]

MCSafeKeys == {"secretRefs"}

MCValues == {"plain", "ghp_0123456789", "[redacted]"}

MCSecretValues == {"ghp_0123456789"}

At(path, value) == [path |-> path, value |-> value]

MCAnswers ==
    {[status |-> "ok",
      result |-> {At(<<"rows", "0", "sessionId">>, "plain"),
                  At(<<"rows", "0", "secretRefs">>, "ghp_0123456789"),
                  At(<<"secretRefs", "passphrase", "0">>, "plain"),
                  At(<<"secretRefs", "passphrase", "rows">>, "plain"),
                  At(<<"reason">>, "[redacted]")}],
     [status |-> "error", result |-> {At(<<"reason">>, "ghp_0123456789")}]}

MCAbout == {At(<<"secretBackend">>, "plain"), At(<<"secretRefs", "0">>, "plain")}

MCPlans ==
    {[allow |-> {"rows", "secretRefs"}, sanitize |-> FALSE, kept |-> TRUE, about |-> MCAbout],
     [allow |-> {}, sanitize |-> TRUE, kept |-> FALSE, about |-> {}]}

MCReasons == {"ghp_0123456789"}

MCStrayRecords ==
    {[id |-> 0, status |-> "ok", storedAt |-> 2,
      events |-> <<[type |-> "finished",
                    payload |-> {At(<<"rows", "sessionId">>, "plain")}]>>],
     [id |-> 0, status |-> "error", storedAt |-> 0, events |-> <<>>]}
=============================================================================
