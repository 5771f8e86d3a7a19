------------------------------ MODULE VerifyRbac ------------------------------
(***************************************************************************)
(* hack/verify-rbac: the build's check that the module operator's role     *)
(* covers the role it grants to the feast operator, and that the chart's   *)
(* copy has what the module operator's role has.  Its verdict is compared  *)
(* with what the API server makes of the same rules.                       *)
(***************************************************************************)
EXTENDS FiniteSets

CONSTANTS
  Resources,    \* API group and resource, among them "namespaces"
  Verbs,        \* among them "create" and "patch"
  Names,        \* names of objects
  ModuleRoles, OperandRoles, ChartRoles   \* the roles the tool is run on

Rules == [resources : SUBSET Resources, verbs : SUBSET Verbs, names : SUBSET Names]

ASSUME RbacAssumption ==
  /\ "namespaces" \in Resources /\ {"create", "patch"} \subseteq Verbs
  /\ ModuleRoles \subseteq SUBSET Rules
  /\ OperandRoles \subseteq SUBSET Rules
  /\ ChartRoles \subseteq SUBSET Rules

VARIABLES
  module, operand, chart,   \* the three roles
  hasChart,                 \* the tool was given the chart's role
  step                      \* the check that comes next, or the verdict

vars == <<module, operand, chart, hasChart, step>>

-----------------------------------------------------------------------------

\* extractPermissions: resource names are dropped.
extractPermissions(role) ==
  UNION {[resource : rule.resources, verb : rule.verbs] : rule \in role}

\* The permissions of need that have lacks.  (Swapped: the other way round.)
Swapped(need, have) == extractPermissions(have) \ extractPermissions(need)

Missing(need, have) == extractPermissions(need) \ extractPermissions(have)

\* What the tool exits with: fail as soon as a check finds something missing.
Check(from, missing, to) ==
  /\ step = from
  /\ step' = IF missing = {} THEN to ELSE "fail"
  /\ UNCHANGED <<module, operand, chart, hasChart>>

RequiredRule == [resources |-> {"namespaces"}, verbs |-> {"create", "patch"}, names |-> {}]

\* (NoRequired: a manifest refresh that drops the patched permissions passes.)
NoRequired == Check("namespaces", {}, "operand")

CheckNamespaces == Check("namespaces", Missing({RequiredRule}, operand), "operand")

CheckOperand ==
  Check("operand", Missing(operand, module), IF hasChart THEN "chart" ELSE "ok")

CheckChart == Check("chart", Missing(module, chart), "ok")

Done == step \in {"ok", "fail"} /\ UNCHANGED vars

Init ==
  /\ module \in ModuleRoles /\ operand \in OperandRoles /\ chart \in ChartRoles
  /\ hasChart \in BOOLEAN /\ step = "namespaces"

Next == CheckNamespaces \/ CheckOperand \/ CheckChart \/ Done

Spec == Init /\ [][Next]_vars

-----------------------------------------------------------------------------

\* What the API server allows: a rule without names allows every object.
Allows(role, r, v, n) ==
  \E rule \in role : r \in rule.resources /\ v \in rule.verbs /\ (rule.names = {} \/ n \in rule.names)

Covers(big, small) ==
  \A r \in Resources, v \in Verbs, n \in Names : Allows(small, r, v, n) => Allows(big, r, v, n)

\* A permission that role has for named objects only.
NamedOnly(role, r, v) ==
  LET rules == {rule \in role : r \in rule.resources /\ v \in rule.verbs} IN
    rules # {} /\ \A rule \in rules : rule.names # {}

\* big covers small, but for the permissions big has for named objects only.
CoversButNamed(big, small) ==
  \A r \in Resources, v \in Verbs, n \in Names :
    Allows(small, r, v, n) => Allows(big, r, v, n) \/ NamedOnly(big, r, v)

\* What an OK does mean, for any roles: the module operator may do whatever it
\* lets the operand do, and the operand may create and label the Data Registry
\* namespace, except where the role that should have a permission has it for named
\* objects only.  The tool does not compare names (main.go:81-96, 107-151).
OkCoversButNamed ==
  step = "ok" => /\ CoversButNamed(module, operand)
                 /\ CoversButNamed(operand, {RequiredRule})

\* A chart that passes lets its module operator grant the operand's role, with the
\* same exception: nothing is lost on the way from the operand's role over the
\* source role to the chart's (main.go:136-180).
ChartGrantsButNamed == step = "ok" /\ hasChart => CoversButNamed(chart, operand)

\* "OK: module operator RBAC covers all operand permissions" (main.go:151), with
\* the names.
OkMeansCovered ==
  step = "ok" => /\ Covers(module, operand)
                 /\ Covers(operand, {RequiredRule})
=============================================================================
