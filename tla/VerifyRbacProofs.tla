--------------------------- MODULE VerifyRbacProofs ---------------------------
(* What an OK of the tool means, for all roles: coverage up to the names of   *)
(* objects, and coverage where the names agree.                               *)
EXTENDS VerifyRbac, TLAPS

\* Where a role of Big has a permission for named objects only, no role of Small
\* has it for others.
NamesAgree(Big, Small) ==
  \A big \in Big, small \in Small : \A r \in Resources, v \in Verbs, n \in Names :
    NamedOnly(big, r, v) /\ Allows(small, r, v, n) => Allows(big, r, v, n)

\* No role has the required permissions for named namespaces only.
RequiredUnnamed(R) ==
  \A role \in R : \A v \in RequiredRule.verbs : ~NamedOnly(role, "namespaces", v)

\* The checks that have passed at each step of the tool.
RolesRead == module \in ModuleRoles /\ operand \in OperandRoles /\ chart \in ChartRoles

Passed ==
  /\ hasChart \in BOOLEAN
  /\ step \in {"operand", "chart", "ok"} => Missing({RequiredRule}, operand) = {}
  /\ step \in {"chart", "ok"} => Missing(operand, module) = {}
  /\ step = "ok" /\ hasChart = TRUE => Missing(module, chart) = {}

ChecksPassed == RolesRead /\ Passed

\* A permission is extracted from the rules that have its resource and verb.
LEMMA PermissionOf ==
  ASSUME NEW role, NEW r, NEW v
  PROVE  [resource |-> r, verb |-> v] \in extractPermissions(role)
           <=> \E rule \in role : r \in rule.resources /\ v \in rule.verbs
  BY DEF extractPermissions

\* Having every permission is covering, up to names.
LEMMA MissingCovers ==
  ASSUME NEW big, NEW small, Missing(small, big) = {}
  PROVE  CoversButNamed(big, small)
<1> SUFFICES ASSUME NEW r \in Resources, NEW v \in Verbs, NEW n \in Names, Allows(small, r, v, n),
                    ~NamedOnly(big, r, v)
             PROVE  Allows(big, r, v, n)
  BY DEF CoversButNamed
<1>1. [resource |-> r, verb |-> v] \in extractPermissions(small)
  BY PermissionOf DEF Allows
<1>2. [resource |-> r, verb |-> v] \in extractPermissions(big)
  BY <1>1 DEF Missing
<1>3. PICK rule \in big : r \in rule.resources /\ v \in rule.verbs
  BY <1>2, PermissionOf
<1>4. PICK free \in big : r \in free.resources /\ v \in free.verbs /\ free.names = {}
  BY <1>3 DEF NamedOnly
<1> QED BY <1>4 DEF Allows

\* No permission is lost along a chain of roles.
LEMMA MissingTransitive ==
  ASSUME NEW a, NEW b, NEW c, Missing(a, b) = {}, Missing(b, c) = {}
  PROVE  Missing(a, c) = {}
  BY DEF Missing

\* No check has been passed at first.
LEMMA InitPassed == Init => ChecksPassed
  BY DEF Init, ChecksPassed, RolesRead, Passed

\* Every step does its own check and keeps the earlier ones.
LEMMA NextPassed == ChecksPassed /\ [Next]_vars => ChecksPassed'
<1> SUFFICES ASSUME ChecksPassed, [Next]_vars PROVE ChecksPassed'
  OBVIOUS
<1> USE DEF ChecksPassed, RolesRead, Passed
<1>1. CASE CheckNamespaces
  BY <1>1 DEF CheckNamespaces, Check
<1>2. CASE CheckOperand
  BY <1>2 DEF CheckOperand, Check
<1>3. CASE CheckChart
  BY <1>3 DEF CheckChart, Check
<1>4. CASE Done \/ UNCHANGED vars
  BY <1>4 DEF Done, vars
<1> QED BY <1>1, <1>2, <1>3, <1>4 DEF Next

\* Each verdict of the tool rests on all the checks before it.
THEOREM VerdictsRest == Spec => []ChecksPassed
  BY InitPassed, NextPassed, PTL DEF Spec

\* An OK means that the module operator's role covers the operand's as the API
\* server decides it, for roles of any size, wherever its permission is not for
\* named objects only; and so for the permissions the operand must have.
THEOREM OkIsCovered == Spec => []OkCoversButNamed
<1>1. ChecksPassed => OkCoversButNamed
  BY MissingCovers DEF ChecksPassed, Passed, OkCoversButNamed
<1> QED BY <1>1, VerdictsRest, PTL

\* A chart that passes can grant what the operand's role has, with the same
\* exception: the two comparisons that lead from the one to the other compose.
THEOREM PassingChartGrants == Spec => []ChartGrantsButNamed
<1>1. ChecksPassed => ChartGrantsButNamed
  <2> SUFFICES ASSUME ChecksPassed, step = "ok", hasChart = TRUE PROVE CoversButNamed(chart, operand)
    BY DEF ChartGrantsButNamed, ChecksPassed, Passed
  <2>1. Missing(operand, module) = {} /\ Missing(module, chart) = {}
    BY DEF ChecksPassed, Passed
  <2> QED BY <2>1, MissingTransitive, MissingCovers
<1> QED BY <1>1, VerdictsRest, PTL

\* Coverage up to names is coverage when the names agree.
LEMMA NamedCovers ==
  ASSUME NEW Big, NEW Small, NEW big \in Big, NEW small \in Small, NamesAgree(Big, Small),
         CoversButNamed(big, small)
  PROVE  Covers(big, small)
  BY DEF NamesAgree, CoversButNamed, Covers

\* With the roles of the repository an OK means what it says: the one permission that
\* the module operator has for a named object alone, binding system:auth-delegator, is
\* one the operand's role.yaml does not have (a patch adds it, for the same object), and
\* the operand may write every namespace.
THEOREM OkIsCoverage ==
  ASSUME NamesAgree(ModuleRoles, OperandRoles), RequiredUnnamed(OperandRoles)
  PROVE  Spec => []OkMeansCovered
<1>1. ChecksPassed /\ OkCoversButNamed => OkMeansCovered
  <2> SUFFICES ASSUME ChecksPassed, OkCoversButNamed, step = "ok"
               PROVE  Covers(module, operand) /\ Covers(operand, {RequiredRule})
    BY DEF OkMeansCovered
  <2>1. module \in ModuleRoles /\ operand \in OperandRoles
    BY DEF ChecksPassed, RolesRead
  <2>2. Covers(module, operand)
    BY <2>1, NamedCovers DEF OkCoversButNamed
  <2>3. Covers(operand, {RequiredRule})
    <3> SUFFICES ASSUME NEW r \in Resources, NEW v \in Verbs, NEW n \in Names,
                        Allows({RequiredRule}, r, v, n)
                 PROVE  Allows(operand, r, v, n)
      BY DEF Covers
    <3>1. r = "namespaces" /\ v \in RequiredRule.verbs
      BY DEF Allows, RequiredRule
    <3>2. ~NamedOnly(operand, r, v)
      BY <2>1, <3>1 DEF RequiredUnnamed
    <3> QED BY <3>2 DEF OkCoversButNamed, CoversButNamed
  <2> QED BY <2>2, <2>3
<1> QED BY <1>1, VerdictsRest, OkIsCovered, PTL

===============================================================================
