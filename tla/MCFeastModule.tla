---------------------------- MODULE MCFeastModule ----------------------------
(* FeastModule on small instances.                                         *)
EXTENDS FeastModule

Enabled      == [fs |-> TRUE, dr |-> TRUE]
Removed      == [fs |-> FALSE, dr |-> FALSE]
FeaturesOnly == [fs |-> TRUE, dr |-> FALSE]

Asks(caps, oidc) == [caps |-> caps, oidc |-> oidc]

\* A CR that toggles the Data Registry; one that leaves it to the process
\* environment, and may have an issuer URL that is refused.
TwoSpecs   == {Asks(Enabled, TRUE), Asks(Removed, TRUE)}
EnvSpecs   == {Asks(Unset, TRUE), Asks(FeaturesOnly, TRUE), Asks(Unset, FALSE)}
EnvEnables == Enabled
=============================================================================
