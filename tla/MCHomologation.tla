--------------------------- MODULE MCHomologation ---------------------------
(* Small instances of Homologation: sessions on one lab device.            *)
EXTENDS Homologation, TLC

CONSTANTS s1, s2, m1, m2, lab, ssid

MCLabDevice == [s \in Sessions |-> lab]
MCSessionOf == [m \in Mappings |-> s1]
MCKeyOf     == [m \in Mappings |-> ssid]

Interchangeable == Permutations(Calls) \cup Permutations(Profiles)
=============================================================================
