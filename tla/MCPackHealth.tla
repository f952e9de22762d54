---------------------------- MODULE MCPackHealth ----------------------------
(* The packs alpha and beta, activations in two layers and two namespaces, *)
(* a core of version 0.9 or 0.10.                                          *)
EXTENDS PackHealth

CONSTANTS V1

MCSpecPaths == {<<"pack">>, <<"state">>, <<"reason">>, <<"reason", "by">>, <<"reason", "at">>}

MCValues == {"alpha", "beta", "gamma", "enabled", "disabled", "maybe", "", " ", "why"}

Plain == [introduced |-> Unset, deprecated |-> Unset, replaced |-> Unset,
          stability |-> "experimental"]

Activation(name, namespace, layer, native, source, spec, compatibility) ==
    [name |-> name, namespace |-> namespace, spec |-> spec, compatibility |-> compatibility,
     provenance |-> [source |-> source, layer |-> layer, native |-> native]]

\* A common document with a mapping and a compatibility; one of the same layer that is
\* generated; local ones without a state, with a blank state, in another namespace,
\* for another pack, and for no pack.
MCActivations ==
    {Activation("alpha", "default", "common", TRUE, 1,
        (<<"state">> :> "enabled") @@ (<<"reason", "by">> :> "why"),
        [Plain EXCEPT !.stability = "stable"]),
     Activation("alpha", "default", "common", FALSE, 2,
        (<<"state">> :> "disabled") @@ (<<"reason">> :> "why"),
        [Plain EXCEPT !.stability = "beta"]),
     Activation("alpha", "default", "local", TRUE, 3,
        (<<"reason", "at">> :> "why"),
        [Plain EXCEPT !.introduced = V1]),
     Activation("alpha", "default", "local", TRUE, 4, (<<"state">> :> " "), Plain),
     Activation("alpha", "team", "local", TRUE, 5, (<<"state">> :> "disabled"), Plain),
     Activation("beta", "default", "local", TRUE, 6,
        (<<"pack">> :> "alpha") @@ (<<"state">> :> "maybe"), Plain),
     Activation("beta", "default", "local", TRUE, 7, (<<"pack">> :> " "), Plain)}

Range9 == <<[op |-> ">=", version |-> <<0, 9>>], [op |-> "<", version |-> <<1>>]>>

Range10 == <<[op |-> "==", version |-> <<0, 10, 0>>]>>

Pack(name, version, source, default, requires, range, migrations) ==
    [name |-> name, version |-> version, source |-> source, default |-> default,
     requires |-> requires, core |-> range, migrations |-> migrations]

MCManifests ==
    {Pack("alpha", 1, 1, "disabled", {"command-api"}, Range9, FALSE),
     Pack("alpha", 2, 2, "enabled", {}, Range10, TRUE),
     Pack("beta", 1, 3, "maybe", {"teleport"}, <<>>, FALSE),
     Pack("beta", 2, 4, "enabled", {},
          <<[op |-> ">", version |-> <<0, 9, 1>>], [op |-> "<", version |-> <<1, NotANumber>>]>>,
          FALSE)}

MCCoreVersions == {<<0, 9>>, <<0, 10>>}

MCRequests ==
    {[op |-> "status"], [op |-> "doctor"],
     [op |-> "plan", target |-> Unset], [op |-> "plan", target |-> <<0, 10>>],
     [op |-> "explain", name |-> "alpha", namespace |-> "default"]}
=============================================================================
