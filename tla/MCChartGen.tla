------------------------------ MODULE MCChartGen ------------------------------
(* Charts of this repository's kind, in small: the resources of              *)
(* config/default, with the images and quantities that need care.            *)
EXTENDS ChartGen, TLC

FirstLine(at, n, key, val) == [Line(at, n, key, val) EXCEPT !.first = TRUE]

ns   == <<"feast">>
mgr  == <<"manager">>
rbac == "rbac.authorization.k8s.io"

Meta(name, namespace) ==
  {Line("metadata", 0, "name", name),
   Line("labels", 0, "app.kubernetes.io/name", <<"feast-module-operator">>),
   Line("labels", 0, "app.kubernetes.io/managed-by", <<"kustomize">>)}
  \cup (IF namespace = <<>> THEN {} ELSE {Line("metadata", 0, "namespace", namespace)})

Res(gvk, lines) == [gvk |-> gvk, lines |-> lines]

Images ==
  {<<"quay.io", "/", "feast">>, <<"quay.io", "/", "feast", ":", "v1">>,
   <<"localhost", ":", "5000", "/", "feast">>,
   <<"localhost", ":", "5000", "/", "feast", ":", "v1">>,
   <<"quay.io", "/", "feast", "@sha256", ":", "f00d">>}

Quantities ==
  {[k \in ResourceKeys |-> <<"500m">>],
   [k \in ResourceKeys |-> IF k \in CpuKeys THEN <<"number", "1">> ELSE <<"128Mi">>]}

\* The first container has an environment, an image, a policy and resources; a
\* second one, or an init container, the same image and nothing else.
ManagerDeployment(image, q, second) ==
  Res(Deployment,
    Meta(mgr, ns) \cup
    {Line("spec", 0, "replicas", <<"number", "1">>),
     Line("pod", 0, "serviceAccountName", mgr),
     FirstLine("container", 1, "command", <<"/manager">>), Line("container", 1, "env", <<>>),
     Line("container", 1, "image", image), Line("container", 1, "imagePullPolicy", <<"IfNotPresent">>),
     Line("container", 1, "resources", <<>>)}
    \cup {Line("resources", 1, k, q[k]) : k \in ResourceKeys}
    \cup {FirstLine(at, 2, "command", <<"/other">>) : at \in second}
    \cup {Line(at, 2, "image", image) : at \in second})

Account == Res(ServiceAccount, Meta(mgr, ns))

Binding(kind, namespace) ==
  Res(GVK(rbac, "v1", kind),
    Meta(<<"binding">>, namespace) \cup
    {FirstLine("subjects", 1, "kind", <<"ServiceAccount">>), Line("subjects", 1, "name", mgr),
     Line("subjects", 1, "namespace", ns), Line("roleRef", 0, "name", <<"role">>)})

Hook(kind) ==
  Res(GVK("admissionregistration.k8s.io", "v1", kind),
    Meta(<<"hook">>, <<>>) \cup
    {Line("annotations", 0, "cert-manager.io/inject-ca-from", ns),
     Line("service", 1, "name", <<"webhook">>), Line("service", 1, "namespace", ns)})

Cert ==
  Res(Certificate,
    Meta(<<"serving">>, ns) \cup
    {Line("dnsNames", 1, "service", ns), Line("dnsNames", 2, "host", <<"example.com">>)})

\* The webhook's service in the conversion of a CRD is not templated.
Crd == Res(GVK("apiextensions.k8s.io", "v1", "CustomResourceDefinition"), Meta(<<"feastoperators">>, <<>>))

Plain(g, k, namespace) == Res(GVK(g, "v1", k), Meta(<<"plain">>, namespace))

Controller == Res(ConfigMap, Meta(<<"controller">>, ns))
NamespaceDoc == Res(Namespace, Meta(ns, <<>>))

\* The whole of config/default; the same with webhooks and certificates, in the
\* other order; and two kinds of one name in two groups.
Bundle(deployment) ==
  <<NamespaceDoc, Crd, Account, Plain(rbac, "Role", ns), Plain(rbac, "ClusterRole", <<>>),
    Binding("RoleBinding", ns), Binding("ClusterRoleBinding", <<>>), Controller, deployment>>

MCInputs ==
  {Bundle(ManagerDeployment(image, CHOOSE q \in Quantities : TRUE, {"container"})) : image \in Images}
  \cup {<<ManagerDeployment(image, q, second), Account, NamespaceDoc>> :
          image \in Images, q \in Quantities, second \in {{}, {"container"}, {"init"}}}
  \cup {<<Cert, Hook("ValidatingWebhookConfiguration"), Hook("MutatingWebhookConfiguration"),
          Binding("ClusterRoleBinding", <<>>), Plain("", "Service", ns), Crd, Account, Controller>>,
        <<Plain("", "Service", ns), Plain("serving.knative.dev", "Service", ns),
          Plain("networking.k8s.io", "NetworkPolicy", ns), Plain("", "Service", ns)>>,
        <<NamespaceDoc>>}

\* A Deployment that asks for three replicas.
Three ==
  LET d == ManagerDeployment(CHOOSE i \in Images : TRUE, CHOOSE q \in Quantities : TRUE, {}) IN
    Res(d.gvk, {[l EXCEPT !.val = IF l.key = "replicas" THEN <<"number", "3">> ELSE @] : l \in d.lines})

ThreeReplicas == {<<Three, Account>>} \cup MCInputs

MCLower ==
  [CustomResourceDefinition |-> "customresourcedefinition", Deployment |-> "deployment",
   ServiceAccount |-> "serviceaccount", ConfigMap |-> "configmap", Role |-> "role",
   ClusterRole |-> "clusterrole", RoleBinding |-> "rolebinding",
   ClusterRoleBinding |-> "clusterrolebinding", Certificate |-> "certificate",
   ValidatingWebhookConfiguration |-> "validatingwebhookconfiguration",
   MutatingWebhookConfiguration |-> "mutatingwebhookconfiguration",
   Service |-> "service", NetworkPolicy |-> "networkpolicy", Namespace |-> "namespace"]
  @@ [s \in {"", "v1", "apps", rbac, "admissionregistration.k8s.io", "cert-manager.io",
              "apiextensions.k8s.io", "networking.k8s.io", "serving.knative.dev"} |-> s]

\* Charts left behind: none, one with a hand-written template, one of a build
\* with another set of resources.
MCOldCharts ==
  LET gates == [dir |-> "templates", name |-> <<"upgrade-gates">>]
      old   == [dir |-> "templates", name |-> <<"batch", "v1", "job">>]
  IN {NoFiles, [f \in {gates} |-> EmptyMap], [f \in {gates, old, Helpers} |-> EmptyMap]}

MCVersions == {"0.1.0", "0.2.0"}

MCInstalls ==
  LET odh == [namespace |-> <<"opendatahub">>, fullRef |-> <<"registry", "/", "feast", ":", "v2">>,
              extraEnvs |-> [ODH_MODULE_OPERATOR_PLATFORM_TYPE |-> <<"OpenDataHub">>]]
      secret == [imagePullSecret |-> <<"pull">>, config |-> [k |-> <<"w">>],
                 accountName |-> <<"feast-sa">>, annotations |-> [a |-> <<"b">>]]
  IN {EmptyMap, odh, secret, [fullnameOverride |-> <<"other">>, tag |-> <<"v2">>], [namespace |-> ns]}

MCReleases ==
  {[name |-> mgr, namespace |-> ns], [name |-> <<"rel">>, namespace |-> <<"apps">>]}
===============================================================================
