---------------------------- MODULE MCModuleConfig ----------------------------
(* ModuleConfig with a capability flag and a free-form key.                *)
EXTENDS ModuleConfig

MCKeys     == {"data-registry-enabled", "platformVersion"}
MCBoolKeys == {"data-registry-enabled"}
MCDefault  == [k \in MCKeys |-> IF k \in MCBoolKeys THEN "true" ELSE "text"]

\* A plain file has the value of one key; the skipped kinds carry a value that
\* would show if it were used.
MCEntries ==
  {[kind |-> "structured", sets |-> s] : s \in [MCKeys -> {"false", "text", "unset"}]}
  \cup {[kind |-> "plain", sets |-> [j \in MCKeys |-> IF j = k THEN v ELSE "unset"]] :
          k \in MCKeys, v \in {"true", "text", ""}}
  \cup {[kind |-> n, sets |-> [j \in MCKeys |-> "text"]] :
          n \in {"hidden", "unreadable", "malformed"}}
=============================================================================
