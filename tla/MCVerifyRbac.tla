----------------------------- MODULE MCVerifyRbac -----------------------------
(* VerifyRbac on roles of two rules over two resources.                    *)
EXTENDS VerifyRbac

MCResources == {"namespaces", "clusterroles"}
MCVerbs     == {"create", "patch", "bind"}
MCNames     == {"system:auth-delegator", "other"}

Plain == [resources |-> {"namespaces"}, verbs |-> {"create", "patch"}, names |-> {}]

\* One more rule, without names or for one object; among the latter the rule of
\* config/rbac/role.yaml and of the chart made from it, binding of the cluster role
\* system:auth-delegator.
Free   == {[resources |-> r, verbs |-> v, names |-> {}] :
             r \in SUBSET MCResources, v \in SUBSET MCVerbs}
Scoped == {[f EXCEPT !.names = {"system:auth-delegator"}] : f \in Free}

With(R) == {{Plain, r} : r \in R}
FreeRoles   == With(Free) \cup {{r} : r \in Free}
ScopedRoles == FreeRoles \cup With(Scoped)
=============================================================================
