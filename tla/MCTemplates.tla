---------------------------- MODULE MCTemplates ----------------------------
(* Small instances of Templates.                                           *)
EXTENDS Templates, TLC

CONSTANTS hModel, hGeneric

Par(key, root, default, type) ==
    [key |-> key, root |-> root, default |-> default, type |-> type]

\* One renders always; one needs a customer for one of its two parameters.
MCContents == {{Par("wifi", "literal", FALSE, "string")},
               {Par("wifi", "literal", FALSE, "string"),
                Par("vlan", "customer", FALSE, "int")}}

Interchangeable == Permutations(Calls) \cup Permutations(Profiles)
=============================================================================
