--------------------------- MODULE ChartInstallProofs ---------------------------
(* What Helm installs of each line, and that it is what was asked for.       *)
EXTENDS ChartLinesProofs, SequenceTheorems, WellFoundedInduction

Shown(K, v, r) == UNION {Rendered(k, v, r) : k \in K}

NamespaceOf(v, r) == OrElse(v.namespace, r.namespace)

AccountOf(v, r) == OrElse(v.accountName, Fullname(v, r))

Secret(at, n, key, v) ==
  IF v.imagePullSecret = <<>> THEN {} ELSE {Line(at, n, key, v.imagePullSecret)}

\* What is installed of a line that kustomize printed, by kind.
PutNamespace(l, v, r) ==
  IF l.key = "namespace" /\ ~l.first THEN Valued(l, NamespaceOf(v, r)) ELSE {l}

PutDeployment(l, v, r) ==
  IF l.at = "resources" \/ (l.key = "imagePullPolicy" /\ ~l.first) THEN {}
  ELSE IF l.first THEN {l}
  ELSE IF l.key = "image"
    THEN Valued(l, imageRef(v)) \cup {Line(l.at, l.n, "imagePullPolicy", <<"Always">>)}
  ELSE IF l.key = "replicas" THEN Valued(l, v.replicas)
  ELSE IF l.key = "resources" /\ l.val = <<>>
    THEN Valued(l, <<>>) \cup Entries("resources", l.n, v.resources)
  ELSE IF l.key = "serviceAccountName"
    THEN Valued(l, AccountOf(v, r)) \cup Secret("pod", l.n, "imagePullSecrets", v)
  ELSE IF l.key = "env" /\ l.val = <<>> THEN {l} \cup Entries("env", l.n, v.extraEnvs)
  ELSE PutNamespace(l, v, r)

PutAccount(l, names, v, r) ==
  IF l.at \in {"metadata", "labels", "annotations"} /\ l.key = "name" /\ l.val \in names
    THEN Valued(l, AccountOf(v, r)) \cup Entries("annotations", 0, v.annotations)
  ELSE PutNamespace(l, v, r)

PutSubject(l, v, r) ==
  IF l.at = "subjects" /\ l.key = "name" /\ ~l.first THEN Valued(l, AccountOf(v, r))
  ELSE PutNamespace(l, v, r)

PutWebhook(l, v, r) ==
  IF l.key = "cert-manager.io/inject-ca-from" THEN Valued(l, v.namespace) ELSE PutNamespace(l, v, r)

PutCertificate(l, v, r) ==
  IF l.at = "dnsNames" /\ l.key = "service" THEN Valued(l, v.namespace) ELSE PutNamespace(l, v, r)

PutData(v) == Entries("data", 0, v.config) \cup Secret("data", 0, "imagePullSecret", v)

-----------------------------------------------------------------------------
(* Rendering, template by template.                                          *)

\* The templates are different texts, and none of them is a fixed text.
LEMMA TemplatesApart ==
  /\ tplReleaseNamespace \notin {tplValuesNamespace, tplServiceAccountName, tplImage, tplReplicas,
       tplResources, tplPullSecret, tplAnnotations, tplExtraEnvs, tplData}
  /\ tplValuesNamespace \notin {tplServiceAccountName, tplImage, tplReplicas,
       tplResources, tplPullSecret, tplAnnotations, tplExtraEnvs, tplData}
  /\ tplServiceAccountName \notin {tplImage, tplReplicas, tplResources, tplPullSecret, tplAnnotations,
       tplExtraEnvs, tplData}
  /\ tplImage \notin {tplReplicas, tplResources, tplPullSecret, tplAnnotations, tplExtraEnvs, tplData}
  /\ tplReplicas \notin {tplResources, tplPullSecret, tplAnnotations, tplExtraEnvs, tplData}
  /\ tplResources \notin {tplPullSecret, tplAnnotations, tplExtraEnvs, tplData}
  /\ tplPullSecret \notin {tplAnnotations, tplExtraEnvs, tplData}
  /\ tplAnnotations \notin {tplExtraEnvs, tplData}
  /\ tplExtraEnvs # tplData
  /\ <<"Always">> \notin Templates
  BY DEF Templates, tplReleaseNamespace, tplValuesNamespace, tplServiceAccountName, tplImage, tplReplicas,
         tplResources, tplPullSecret, tplAnnotations, tplExtraEnvs, tplData

\* Rendering of a line, by its value.
LEMMA RenderedIs ==
  ASSUME NEW l, NEW v, NEW r
  PROVE  /\ l.val \notin Templates => Rendered(l, v, r) = {l}
         /\ l.val = tplReleaseNamespace => Rendered(l, v, r) = Valued(l, NamespaceOf(v, r))
         /\ l.val = tplValuesNamespace => Rendered(l, v, r) = Valued(l, v.namespace)
         /\ l.val = tplServiceAccountName => Rendered(l, v, r) = Valued(l, AccountOf(v, r))
         /\ l.val = tplImage => Rendered(l, v, r) = Valued(l, imageRef(v))
         /\ l.val = tplReplicas => Rendered(l, v, r) = Valued(l, v.replicas)
         /\ l.val = tplResources =>
              Rendered(l, v, r) = Valued(l, <<>>) \cup Entries("resources", l.n, v.resources)
         /\ l.val = tplPullSecret =>
              Rendered(l, v, r) = IF v.imagePullSecret = <<>> THEN {} ELSE Valued(l, v.imagePullSecret)
         /\ l.val = tplAnnotations => Rendered(l, v, r) = Entries("annotations", 0, v.annotations)
         /\ l.val = tplExtraEnvs => Rendered(l, v, r) = Entries("env", l.n, v.extraEnvs)
         /\ l.val = tplData => Rendered(l, v, r) = PutData(v)
<1>1. ASSUME l.val \notin Templates PROVE Rendered(l, v, r) = {l}
  BY <1>1 DEF Rendered, Templates
<1>2. ASSUME l.val = tplReleaseNamespace PROVE Rendered(l, v, r) = Valued(l, NamespaceOf(v, r))
  BY <1>2, TemplatesApart DEF Rendered, NamespaceOf
<1>3. ASSUME l.val = tplValuesNamespace PROVE Rendered(l, v, r) = Valued(l, v.namespace)
  BY <1>3, TemplatesApart DEF Rendered
<1>4. ASSUME l.val = tplServiceAccountName PROVE Rendered(l, v, r) = Valued(l, AccountOf(v, r))
  BY <1>4, TemplatesApart DEF Rendered, AccountOf
<1>5. ASSUME l.val = tplImage PROVE Rendered(l, v, r) = Valued(l, imageRef(v))
  BY <1>5, TemplatesApart DEF Rendered
<1>6. ASSUME l.val = tplReplicas PROVE Rendered(l, v, r) = Valued(l, v.replicas)
  BY <1>6, TemplatesApart DEF Rendered
<1>7. ASSUME l.val = tplResources
      PROVE  Rendered(l, v, r) = Valued(l, <<>>) \cup Entries("resources", l.n, v.resources)
  BY <1>7, TemplatesApart DEF Rendered
<1>8. ASSUME l.val = tplPullSecret
      PROVE  Rendered(l, v, r) = IF v.imagePullSecret = <<>> THEN {} ELSE Valued(l, v.imagePullSecret)
  BY <1>8, TemplatesApart DEF Rendered
<1>9. ASSUME l.val = tplAnnotations PROVE Rendered(l, v, r) = Entries("annotations", 0, v.annotations)
  BY <1>9, TemplatesApart DEF Rendered
<1>10. ASSUME l.val = tplExtraEnvs PROVE Rendered(l, v, r) = Entries("env", l.n, v.extraEnvs)
  BY <1>10, TemplatesApart DEF Rendered
<1>11. ASSUME l.val = tplData PROVE Rendered(l, v, r) = PutData(v)
  BY <1>11, TemplatesApart DEF Rendered, PutData, Secret
<1> QED BY <1>1, <1>2, <1>3, <1>4, <1>5, <1>6, <1>7, <1>8, <1>9, <1>10, <1>11

\* Rendering goes line by line.  No line.
LEMMA ShownNone == ASSUME NEW v, NEW r PROVE Shown({}, v, r) = {}
  BY DEF Shown

\* One line.
LEMMA ShownOne == ASSUME NEW a, NEW v, NEW r PROVE Shown({a}, v, r) = Rendered(a, v, r)
  BY DEF Shown

\* Two sets of lines.
LEMMA ShownTwo ==
  ASSUME NEW A, NEW B, NEW v, NEW r
  PROVE  Shown(A \cup B, v, r) = Shown(A, v, r) \cup Shown(B, v, r)
  BY DEF Shown

\* Any number of sets.
LEMMA ShownParts ==
  ASSUME NEW S, NEW v, NEW r
  PROVE  Shown(UNION S, v, r) = UNION {Shown(s, v, r) : s \in S}
  BY DEF Shown

\* A value that is set replaces the template that was set before.
LEMMA ValuedTwice ==
  ASSUME NEW l \in Lines, NEW tpl
  PROVE  \E t : /\ Valued(l, tpl) = {t} /\ t.val = tpl /\ t.n = l.n
               /\ \A val : Valued(t, val) = Valued(l, val)
<1> DEFINE t == [l EXCEPT !.val = tpl]
<1>1. t.val = tpl /\ t.n = l.n
  BY DEF Lines
<1>2. \A val : [t EXCEPT !.val = val] = [l EXCEPT !.val = val]
  BY DEF Lines
<1>3. Valued(l, tpl) = {t} /\ \A val : Valued(t, val) = Valued(l, val)
  BY <1>2 DEF Valued
<1> HIDE DEF t
<1> QED BY <1>1, <1>3

\* What is installed of a line that was templated.
LEMMA ShownValued ==
  ASSUME NEW l \in Lines, NEW v, NEW r
  PROVE  /\ Shown(Valued(l, tplReleaseNamespace), v, r) = Valued(l, NamespaceOf(v, r))
         /\ Shown(Valued(l, tplValuesNamespace), v, r) = Valued(l, v.namespace)
         /\ Shown(Valued(l, tplServiceAccountName), v, r) = Valued(l, AccountOf(v, r))
         /\ Shown(Valued(l, tplImage), v, r) = Valued(l, imageRef(v))
         /\ Shown(Valued(l, tplReplicas), v, r) = Valued(l, v.replicas)
         /\ Shown(Valued(l, tplResources), v, r)
              = Valued(l, <<>>) \cup Entries("resources", l.n, v.resources)
<1>1. ASSUME NEW tpl
      PROVE  \E t : /\ Shown(Valued(l, tpl), v, r) = Rendered(t, v, r) /\ t.val = tpl /\ t.n = l.n
                    /\ \A val : Valued(t, val) = Valued(l, val)
  <2>1. PICK t : /\ Valued(l, tpl) = {t} /\ t.val = tpl /\ t.n = l.n
                 /\ \A val : Valued(t, val) = Valued(l, val)
    BY ValuedTwice
  <2>2. Shown(Valued(l, tpl), v, r) = Rendered(t, v, r)
    BY <2>1, ShownOne
  <2> QED BY <2>1, <2>2
<1>2. Shown(Valued(l, tplReleaseNamespace), v, r) = Valued(l, NamespaceOf(v, r))
  BY <1>1, RenderedIs
<1>3. Shown(Valued(l, tplValuesNamespace), v, r) = Valued(l, v.namespace)
  BY <1>1, RenderedIs
<1>4. Shown(Valued(l, tplServiceAccountName), v, r) = Valued(l, AccountOf(v, r))
  BY <1>1, RenderedIs
<1>5. Shown(Valued(l, tplImage), v, r) = Valued(l, imageRef(v))
  BY <1>1, RenderedIs
<1>6. Shown(Valued(l, tplReplicas), v, r) = Valued(l, v.replicas)
  BY <1>1, RenderedIs
<1>7. Shown(Valued(l, tplResources), v, r) = Valued(l, <<>>) \cup Entries("resources", l.n, v.resources)
  BY <1>1, RenderedIs
<1> QED BY <1>2, <1>3, <1>4, <1>5, <1>6, <1>7

\* A value of a line that was made is replaced like that of any other.
LEMMA ValuedLine ==
  ASSUME NEW at, NEW n, NEW key, NEW tpl, NEW val
  PROVE  Valued(Line(at, n, key, tpl), val) = {Line(at, n, key, val)}
<1>1. ASSUME NEW b
      PROVE  [[at |-> at, n |-> n, key |-> key, val |-> tpl, first |-> b] EXCEPT !.val = val]
               = [at |-> at, n |-> n, key |-> key, val |-> val, first |-> b]
  OBVIOUS
<1>2. [Line(at, n, key, tpl) EXCEPT !.val = val] = Line(at, n, key, val)
  BY <1>1 DEF Line
<1> QED BY <1>2 DEF Valued

\* What is installed of a line that the generator added.
LEMMA ShownAdded ==
  ASSUME NEW p, NEW v, NEW r
  PROVE  /\ p.val = <<"Always">> => Shown({p}, v, r) = {p}
         /\ p.val = tplPullSecret =>
              Shown({p}, v, r) = IF v.imagePullSecret = <<>> THEN {} ELSE Valued(p, v.imagePullSecret)
         /\ p.val = tplAnnotations => Shown({p}, v, r) = Entries("annotations", 0, v.annotations)
         /\ p.val = tplExtraEnvs => Shown({p}, v, r) = Entries("env", p.n, v.extraEnvs)
         /\ p.val = tplData => Shown({p}, v, r) = PutData(v)
<1>1. Shown({p}, v, r) = Rendered(p, v, r)
  BY ShownOne
<1> QED BY <1>1, RenderedIs, TemplatesApart

\* What is installed of each line that kustomize printed.
LEMMA ShownLines ==
  ASSUME NEW l \in Plain, NEW v, NEW r
  PROVE  /\ Shown({l}, v, r) = {l}
         /\ Shown(NamespaceLine(l), v, r) = PutNamespace(l, v, r)
         /\ Shown(DeploymentLine(l), v, r) = PutDeployment(l, v, r)
         /\ Shown(SubjectLine(l), v, r) = PutSubject(l, v, r)
         /\ Shown(WebhookLine(l), v, r) = PutWebhook(l, v, r)
         /\ Shown(CertificateLine(l), v, r) = PutCertificate(l, v, r)
<1>1. l \in Lines /\ l.val \notin Templates
  BY DEF Plain
<1>2. Shown({l}, v, r) = {l}
  <2>1. Rendered(l, v, r) = {l}
    BY <1>1, RenderedIs
  <2> QED BY <2>1, ShownOne
<1>3. Shown(NamespaceLine(l), v, r) = PutNamespace(l, v, r)
  BY <1>1, <1>2, ShownValued DEF NamespaceLine, PutNamespace
<1>4. Shown(DeploymentLine(l), v, r) = PutDeployment(l, v, r)
  <2>1. CASE l.at = "resources" \/ (l.key = "imagePullPolicy" /\ ~l.first)
    BY <2>1, ShownNone DEF DeploymentLine, PutDeployment
  <2>2. CASE l.at # "resources" /\ l.first
    BY <2>2, <1>2 DEF DeploymentLine, PutDeployment
  <2>3. CASE l.at # "resources" /\ ~l.first /\ l.key = "image"
    <3> DEFINE p == Line(l.at, l.n, "imagePullPolicy", <<"Always">>)
    <3>1. DeploymentLine(l) = Valued(l, tplImage) \cup {p}
      BY <2>3 DEF DeploymentLine
    <3>2. PutDeployment(l, v, r) = Valued(l, imageRef(v)) \cup {p}
      BY <2>3 DEF PutDeployment
    <3>3. p.val = <<"Always">>
      BY DEF Line
    <3> HIDE DEF p
    <3>4. Shown({p}, v, r) = {p}
      BY <3>3, ShownAdded
    <3>5. Shown(Valued(l, tplImage) \cup {p}, v, r) = Shown(Valued(l, tplImage), v, r) \cup Shown({p}, v, r)
      BY ShownTwo
    <3> QED BY <1>1, <3>1, <3>2, <3>5, <3>4, ShownValued
  <2>4. CASE l.at # "resources" /\ ~l.first /\ l.key = "replicas"
    BY <1>1, <2>4, ShownValued DEF DeploymentLine, PutDeployment
  <2>5. CASE l.at # "resources" /\ ~l.first /\ l.key = "resources" /\ l.val = <<>>
    BY <1>1, <2>5, ShownValued DEF DeploymentLine, PutDeployment
  <2>6. CASE l.at # "resources" /\ ~l.first /\ l.key = "serviceAccountName"
    <3> DEFINE p == Line("pod", l.n, "imagePullSecrets", tplPullSecret)
    <3>1. DeploymentLine(l) = Valued(l, tplServiceAccountName) \cup {p}
      BY <2>6 DEF DeploymentLine
    <3>2. PutDeployment(l, v, r) = Valued(l, AccountOf(v, r)) \cup Secret("pod", l.n, "imagePullSecrets", v)
      BY <2>6 DEF PutDeployment
    <3>3. p.val = tplPullSecret
      BY DEF Line
    <3>4. Valued(p, v.imagePullSecret) = {Line("pod", l.n, "imagePullSecrets", v.imagePullSecret)}
      BY ValuedLine
    <3> HIDE DEF p
    <3>5. Shown({p}, v, r) = Secret("pod", l.n, "imagePullSecrets", v)
      <4>1. Shown({p}, v, r) = IF v.imagePullSecret = <<>> THEN {} ELSE Valued(p, v.imagePullSecret)
        BY <3>3, ShownAdded
      <4> QED BY <3>4, <4>1 DEF Secret
    <3>6. Shown(Valued(l, tplServiceAccountName) \cup {p}, v, r)
            = Shown(Valued(l, tplServiceAccountName), v, r) \cup Shown({p}, v, r)
      BY ShownTwo
    <3> QED BY <1>1, <3>1, <3>2, <3>6, <3>5, ShownValued
  <2>7. CASE l.at # "resources" /\ ~l.first /\ l.key = "env" /\ l.val = <<>>
    <3> DEFINE p == Line("env", l.n, "", tplExtraEnvs)
    <3>1. DeploymentLine(l) = {l, p}
      BY <2>7 DEF DeploymentLine
    <3>2. PutDeployment(l, v, r) = {l} \cup Entries("env", l.n, v.extraEnvs)
      BY <2>7 DEF PutDeployment
    <3>3. p.val = tplExtraEnvs /\ p.n = l.n
      BY DEF Line
    <3> HIDE DEF p
    <3>4. Shown({p}, v, r) = Entries("env", l.n, v.extraEnvs)
      <4>1. Shown({p}, v, r) = Entries("env", p.n, v.extraEnvs)
        BY <3>3, ShownAdded
      <4> QED BY <3>3, <4>1
    <3>5. {l, p} = {l} \cup {p}
      OBVIOUS
    <3>6. Shown({l} \cup {p}, v, r) = Shown({l}, v, r) \cup Shown({p}, v, r)
      BY ShownTwo
    <3> QED BY <1>2, <3>1, <3>2, <3>5, <3>6, <3>4
  <2>8. CASE /\ l.at # "resources" /\ ~l.first
             /\ l.key \notin {"image", "imagePullPolicy", "replicas", "serviceAccountName"}
             /\ l.val = <<>> => l.key \notin {"resources", "env"}
    BY <1>3, <2>8 DEF DeploymentLine, PutDeployment
  <2> QED BY <2>1, <2>2, <2>3, <2>4, <2>5, <2>6, <2>7, <2>8
<1>5. Shown(SubjectLine(l), v, r) = PutSubject(l, v, r)
  BY <1>1, <1>3, ShownValued DEF SubjectLine, PutSubject
<1>6. Shown(WebhookLine(l), v, r) = PutWebhook(l, v, r)
  BY <1>1, <1>3, ShownValued DEF WebhookLine, PutWebhook
<1>7. Shown(CertificateLine(l), v, r) = PutCertificate(l, v, r)
  BY <1>1, <1>3, ShownValued DEF CertificateLine, PutCertificate
<1> QED BY <1>2, <1>3, <1>4, <1>5, <1>6, <1>7

\* The same of the lines of a ServiceAccount.
LEMMA ShownAccount ==
  ASSUME NEW l \in Plain, NEW names, NEW v, NEW r
  PROVE  Shown(AccountLine(l, names), v, r) = PutAccount(l, names, v, r)
<1>0. l \in Lines
  BY DEF Plain
<1>1. CASE l.at \in {"metadata", "labels", "annotations"} /\ l.key = "name" /\ l.val \in names
  <2> DEFINE p == Line(l.at, l.n, "annotations", tplAnnotations)
  <2>1. AccountLine(l, names) = Valued(l, tplServiceAccountName) \cup {p}
    BY <1>1 DEF AccountLine
  <2>2. PutAccount(l, names, v, r) = Valued(l, AccountOf(v, r)) \cup Entries("annotations", 0, v.annotations)
    BY <1>1 DEF PutAccount
  <2>3. p.val = tplAnnotations /\ p.n = l.n
    BY DEF Line
  <2> HIDE DEF p
  <2>4. Shown({p}, v, r) = Entries("annotations", 0, v.annotations)
    BY <2>3, ShownAdded
  <2>5. Shown(Valued(l, tplServiceAccountName) \cup {p}, v, r)
          = Shown(Valued(l, tplServiceAccountName), v, r) \cup Shown({p}, v, r)
    BY ShownTwo
  <2> QED BY <1>0, <2>1, <2>2, <2>5, <2>4, ShownValued
<1>2. CASE ~(l.at \in {"metadata", "labels", "annotations"} /\ l.key = "name" /\ l.val \in names)
  BY <1>2, ShownLines DEF AccountLine, PutAccount
<1> QED BY <1>1, <1>2

-----------------------------------------------------------------------------
(* What is installed of a resource.                                          *)

Treated == {Deployment, ServiceAccount, ConfigMap, Certificate} \cup RoleBindings \cup Webhooks

\* The kinds that the generator treats apart are different kinds, none of them
\* a CRD or a Namespace.
LEMMA KindsApart ==
  /\ Deployment \notin {ServiceAccount, ConfigMap, Certificate} \cup RoleBindings \cup Webhooks
  /\ ServiceAccount \notin {ConfigMap, Certificate} \cup RoleBindings \cup Webhooks
  /\ ConfigMap \notin {Certificate} \cup RoleBindings \cup Webhooks
  /\ Certificate \notin RoleBindings \cup Webhooks
  /\ \A g \in RoleBindings : g \notin Webhooks
  /\ \A g \in Treated : ~isCRD(g) /\ g.kind # "CustomResourceDefinition"
  /\ Namespace \notin Treated
<1>1. /\ Deployment.group = "apps" /\ Deployment.kind = "Deployment"
      /\ ServiceAccount.group = "" /\ ServiceAccount.kind = "ServiceAccount"
      /\ ConfigMap.group = "" /\ ConfigMap.kind = "ConfigMap"
      /\ Certificate.group = "cert-manager.io" /\ Certificate.kind = "Certificate"
      /\ Namespace.group = "" /\ Namespace.kind = "Namespace"
  BY DEF Deployment, ServiceAccount, ConfigMap, Certificate, Namespace, GVK
<1>2. \A g \in RoleBindings : g.group = "rbac.authorization.k8s.io" /\ g.kind # "CustomResourceDefinition"
  BY DEF RoleBindings, GVK
<1>3. \A g \in Webhooks : g.group = "admissionregistration.k8s.io" /\ g.kind # "CustomResourceDefinition"
  BY DEF Webhooks, GVK
<1>4. Deployment \notin {ServiceAccount, ConfigMap, Certificate} \cup RoleBindings \cup Webhooks
  BY <1>1, <1>2, <1>3
<1>5. ServiceAccount \notin {ConfigMap, Certificate} \cup RoleBindings \cup Webhooks
  BY <1>1, <1>2, <1>3
<1>6. ConfigMap \notin {Certificate} \cup RoleBindings \cup Webhooks
  BY <1>1, <1>2, <1>3
<1>7. Certificate \notin RoleBindings \cup Webhooks /\ \A g \in RoleBindings : g \notin Webhooks
  BY <1>1, <1>2, <1>3
<1>8. \A g \in Treated : ~isCRD(g) /\ g.kind # "CustomResourceDefinition"
  BY <1>1, <1>2, <1>3 DEF Treated, isCRD
<1>9. Namespace \notin Treated
  BY <1>1, <1>2, <1>3 DEF Treated
<1> QED BY <1>4, <1>5, <1>6, <1>7, <1>8, <1>9

\* What the generator has read.
LEMMA InputLines ==
  ASSUME ChartInvariant, pc = "done", NEW i \in DOMAIN docs
  PROVE  /\ docs \in Inputs
         /\ docs[i].lines \subseteq Plain /\ docs[i].lines \subseteq Lines
         /\ stripLabels(docs[i].lines) \subseteq docs[i].lines
         /\ \A l \in docs[i].lines : l.at # "labels" => l \in stripLabels(docs[i].lines)
<1>1. docs \in Inputs
  BY DEF ChartInvariant, InputRead, Decoded
<1>2. docs \in Seq([gvk : [group : STRING, version : STRING, kind : STRING], lines : SUBSET Lines])
  BY <1>1, LinesAssumption
<1>3. docs[i] \in [gvk : [group : STRING, version : STRING, kind : STRING], lines : SUBSET Lines]
  <2> DEFINE R == [gvk : [group : STRING, version : STRING, kind : STRING], lines : SUBSET Lines]
  <2>1. docs \in Seq(R)
    BY <1>2
  <2> HIDE DEF R
  <2>2. DOMAIN docs = 1..Len(docs)
    BY <2>1, LenProperties
  <2>3. docs[i] \in R
    BY <2>1, <2>2, ElementOfSeq
  <2> QED BY <2>3 DEF R
<1>4. docs[i].lines \subseteq Lines
  BY <1>3
<1>5. \A l \in docs[i].lines : l.val \notin Templates
  BY <1>1, InputsAssumption
<1>6. docs[i].lines \subseteq Plain
  BY <1>4, <1>5 DEF Plain
<1>7. /\ stripLabels(docs[i].lines) \subseteq docs[i].lines
      /\ \A l \in docs[i].lines : l.at # "labels" => l \in stripLabels(docs[i].lines)
  BY DEF stripLabels
<1> QED BY <1>1, <1>4, <1>6, <1>7

\* The file of a kind that is treated apart, and of any other.
LEMMA TransformedIs ==
  ASSUME NEW g, NEW L
  PROVE  LET K == stripLabels(L) IN
         /\ g = Deployment => transformResource(g, L) = transformDeployment(K)
         /\ g = ServiceAccount =>
              transformResource(g, L)
                = replaceServiceAccountMetadata(replaceNamespace(K), Lookup(K, "metadata", "name"))
         /\ g = ConfigMap => transformResource(g, L) = transformConfigMap(K)
         /\ g \in RoleBindings => transformResource(g, L) = transformRoleBinding(K)
         /\ g \in Webhooks => transformResource(g, L) = replaceWebhookNamespace(K)
         /\ g = Certificate => transformResource(g, L) = transformCertificate(K)
         /\ g \notin Treated => transformResource(g, L) = transformGeneric(K)
<1> DEFINE K == stripLabels(L)
<1>1. ASSUME g = Deployment PROVE transformResource(g, L) = transformDeployment(K)
  BY <1>1, KindsApart DEF transformResource
<1>2. ASSUME g = ServiceAccount
      PROVE  transformResource(g, L)
               = replaceServiceAccountMetadata(replaceNamespace(K), Lookup(K, "metadata", "name"))
  BY <1>2, KindsApart DEF transformResource, transformServiceAccount
<1>3. ASSUME g = ConfigMap PROVE transformResource(g, L) = transformConfigMap(K)
  BY <1>3, KindsApart DEF transformResource
<1>4. ASSUME g \in RoleBindings PROVE transformResource(g, L) = transformRoleBinding(K)
  BY <1>4, KindsApart DEF transformResource
<1>5. ASSUME g \in Webhooks PROVE transformResource(g, L) = replaceWebhookNamespace(K)
  BY <1>5, KindsApart DEF transformResource
<1>6. ASSUME g = Certificate PROVE transformResource(g, L) = transformCertificate(K)
  BY <1>6, KindsApart DEF transformResource
<1>7. ASSUME g \notin Treated PROVE transformResource(g, L) = transformGeneric(K)
  BY <1>7, KindsApart DEF transformResource, Treated
<1> QED BY <1>1, <1>2, <1>3, <1>4, <1>5, <1>6, <1>7

\* A namespace in a resource that is not treated apart: the metadata have one.
LEMMA GenericLines ==
  ASSUME ChartInvariant, pc = "done", NEW i \in DOMAIN docs, docs[i].gvk \notin Treated
  PROVE  LET L == stripLabels(docs[i].lines) IN
           transformGeneric(L) = UNION {NamespaceLine(l) : l \in L}
<1> DEFINE L == stripLabels(docs[i].lines)
<1>1. docs \in Inputs /\ L \subseteq Plain /\ L \subseteq docs[i].lines
  BY InputLines
<1>2. CASE Lookup(L, "metadata", "namespace") \notin {{}, {<<>>}}
  <2>1. transformGeneric(L) = replaceNamespace(L)
    BY <1>2 DEF transformGeneric
  <2> QED BY <1>1, <2>1, NamespaceLines
<1>3. CASE Lookup(L, "metadata", "namespace") \in {{}, {<<>>}}
  <2>1. transformGeneric(L) = L
    BY <1>3 DEF transformGeneric
  <2>2. \A l \in L : l.key # "namespace"
    <3> SUFFICES ASSUME NEW l \in L, l.key = "namespace" PROVE FALSE
      OBVIOUS
    <3>1. PICK m \in docs[i].lines : m.at = "metadata" /\ m.key = "namespace" /\ m.val # <<>>
      BY <1>1, NamespacesAssumption DEF Treated
    <3>2. m \in L
      BY <3>1, InputLines
    <3>3. m.val \in Lookup(L, "metadata", "namespace")
      BY <3>1, <3>2 DEF Lookup
    <3> QED BY <1>3, <3>1, <3>3
  <2>3. \A l \in L : NamespaceLine(l) = {l}
    BY <2>2 DEF NamespaceLine
  <2> HIDE DEF L
  <2>4. UNION {NamespaceLine(l) : l \in L} = L
    BY <2>3
  <2> QED BY <2>1, <2>4 DEF L
<1> QED BY <1>2, <1>3

\* What is installed of a CRD.
LEMMA CRDInstalled ==
  ASSUME ChartInvariant, pc = "done", NEW i \in Resources, isCRD(docs[i].gvk), NEW v, NEW r
  PROVE  Installed(i, v, r) = stripLabels(docs[i].lines)
<1>1. i \in DOMAIN docs
  BY DEF Resources
<1>2. Manifest(i) = transformGeneric(stripLabels(docs[i].lines))
  BY DoneIsComplete DEF ChartIsComplete
<1>3. docs \in Inputs /\ stripLabels(docs[i].lines) \subseteq docs[i].lines
  BY <1>1, InputLines
<1>4. Lookup(stripLabels(docs[i].lines), "metadata", "namespace") = {}
  BY <1>1, <1>3, InputsAssumption DEF Lookup, isCRD
<1>5. Manifest(i) = stripLabels(docs[i].lines)
  BY <1>2, <1>4 DEF transformGeneric
<1> QED BY <1>5 DEF Installed

\* What is installed of any other resource, line by line.
LEMMA ResourceInstalled ==
  ASSUME ChartInvariant, pc = "done", NEW i \in Resources, ~isCRD(docs[i].gvk), NEW v, NEW r
  PROVE  LET L == stripLabels(docs[i].lines)
             g == docs[i].gvk
         IN /\ g = Deployment => Installed(i, v, r) = UNION {PutDeployment(l, v, r) : l \in L}
            /\ g = ServiceAccount =>
                 Installed(i, v, r)
                   = UNION {PutAccount(l, Lookup(L, "metadata", "name"), v, r) : l \in L}
            /\ g = ConfigMap =>
                 Installed(i, v, r) = (UNION {PutNamespace(l, v, r) : l \in L}) \cup PutData(v)
            /\ g \in RoleBindings => Installed(i, v, r) = UNION {PutSubject(l, v, r) : l \in L}
            /\ g \in Webhooks => Installed(i, v, r) = UNION {PutWebhook(l, v, r) : l \in L}
            /\ g = Certificate => Installed(i, v, r) = UNION {PutCertificate(l, v, r) : l \in L}
            /\ g \notin Treated => Installed(i, v, r) = UNION {PutNamespace(l, v, r) : l \in L}
<1> DEFINE L == stripLabels(docs[i].lines)
           g == docs[i].gvk
           names == Lookup(L, "metadata", "name")
<1>1. i \in DOMAIN docs
  BY DEF Resources
<1>2. docs \in Inputs /\ L \subseteq Plain /\ L \subseteq docs[i].lines
  BY <1>1, InputLines
<1>3. Installed(i, v, r) = Shown(transformResource(g, docs[i].lines), v, r)
  BY DoneIsComplete DEF ChartIsComplete, Installed, Shown
<1>4. ASSUME NEW l \in L
       PROVE  /\ Shown(NamespaceLine(l), v, r) = PutNamespace(l, v, r)
              /\ Shown(DeploymentLine(l), v, r) = PutDeployment(l, v, r)
              /\ Shown(AccountLine(l, names), v, r) = PutAccount(l, names, v, r)
              /\ Shown(SubjectLine(l), v, r) = PutSubject(l, v, r)
              /\ Shown(WebhookLine(l), v, r) = PutWebhook(l, v, r)
              /\ Shown(CertificateLine(l), v, r) = PutCertificate(l, v, r)
  <2>1. l \in Plain
    BY <1>2
  <2>2. Shown(NamespaceLine(l), v, r) = PutNamespace(l, v, r)
    BY <2>1, ShownLines
  <2>3. Shown(DeploymentLine(l), v, r) = PutDeployment(l, v, r)
    BY <2>1, ShownLines
  <2>4. Shown(AccountLine(l, names), v, r) = PutAccount(l, names, v, r)
    BY <2>1, ShownAccount
  <2>5. Shown(SubjectLine(l), v, r) = PutSubject(l, v, r)
    BY <2>1, ShownLines
  <2>6. Shown(WebhookLine(l), v, r) = PutWebhook(l, v, r)
    BY <2>1, ShownLines
  <2>7. Shown(CertificateLine(l), v, r) = PutCertificate(l, v, r)
    BY <2>1, ShownLines
  <2> QED BY <2>2, <2>3, <2>4, <2>5, <2>6, <2>7
<1>5. ASSUME g = Deployment PROVE Installed(i, v, r) = UNION {PutDeployment(l, v, r) : l \in L}
  <2>1. transformResource(g, docs[i].lines) = UNION {DeploymentLine(l) : l \in L}
    BY <1>2, <1>5, TransformedIs, DeploymentLines
  <2> DEFINE S == {DeploymentLine(l) : l \in L}
  <2>2. {Shown(s, v, r) : s \in S} = {PutDeployment(l, v, r) : l \in L}
    BY <1>4
  <2> HIDE DEF S
  <2>3. Shown(UNION S, v, r) = UNION {Shown(s, v, r) : s \in S}
    BY ShownParts
  <2> QED BY <1>3, <2>1, <2>2, <2>3 DEF S
<1>6. ASSUME g = ServiceAccount
      PROVE  Installed(i, v, r) = UNION {PutAccount(l, names, v, r) : l \in L}
  <2>1. transformResource(g, docs[i].lines) = UNION {AccountLine(l, names) : l \in L}
    BY <1>2, <1>6, TransformedIs, AccountLines
  <2> DEFINE S == {AccountLine(l, names) : l \in L}
  <2>2. {Shown(s, v, r) : s \in S} = {PutAccount(l, names, v, r) : l \in L}
    BY <1>4
  <2> HIDE DEF S
  <2>3. Shown(UNION S, v, r) = UNION {Shown(s, v, r) : s \in S}
    BY ShownParts
  <2> QED BY <1>3, <2>1, <2>2, <2>3 DEF S
<1>7. {Shown(s, v, r) : s \in {NamespaceLine(l) : l \in L}} = {PutNamespace(l, v, r) : l \in L}
  BY <1>4
<1>8. Shown(UNION {NamespaceLine(l) : l \in L}, v, r) = UNION {PutNamespace(l, v, r) : l \in L}
  <2> DEFINE S == {NamespaceLine(l) : l \in L}
  <2>1. Shown(UNION S, v, r) = UNION {Shown(s, v, r) : s \in S}
    BY ShownParts
  <2> QED BY <1>7, <2>1
<1>9. ASSUME g = ConfigMap
      PROVE  Installed(i, v, r) = (UNION {PutNamespace(l, v, r) : l \in L}) \cup PutData(v)
  <2> DEFINE p == Line("data", 0, "", tplData)
  <2>1. \A l \in L : l.at # "data" /\ l.key # "data"
    BY <1>1, <1>2, <1>9, ConfigAssumption
  <2>2. transformResource(g, docs[i].lines) = (UNION {NamespaceLine(l) : l \in L}) \cup {p}
    BY <1>2, <1>9, <2>1, TransformedIs, ConfigMapLines
  <2>3. p.val = tplData
    BY DEF Line
  <2> HIDE DEF p
  <2>4. Shown({p}, v, r) = PutData(v)
    BY <2>3, ShownAdded
  <2> DEFINE A == UNION {NamespaceLine(l) : l \in L}
  <2>5. Shown(A \cup {p}, v, r) = Shown(A, v, r) \cup Shown({p}, v, r)
    BY ShownTwo
  <2> QED BY <1>3, <1>8, <2>2, <2>4, <2>5
<1>10. ASSUME g \in RoleBindings PROVE Installed(i, v, r) = UNION {PutSubject(l, v, r) : l \in L}
  <2>1. transformResource(g, docs[i].lines) = UNION {SubjectLine(l) : l \in L}
    BY <1>2, <1>10, TransformedIs, SubjectLines
  <2> DEFINE S == {SubjectLine(l) : l \in L}
  <2>2. {Shown(s, v, r) : s \in S} = {PutSubject(l, v, r) : l \in L}
    BY <1>4
  <2> HIDE DEF S
  <2>3. Shown(UNION S, v, r) = UNION {Shown(s, v, r) : s \in S}
    BY ShownParts
  <2> QED BY <1>3, <2>1, <2>2, <2>3 DEF S
<1>11. ASSUME g \in Webhooks PROVE Installed(i, v, r) = UNION {PutWebhook(l, v, r) : l \in L}
  <2>1. transformResource(g, docs[i].lines) = UNION {WebhookLine(l) : l \in L}
    BY <1>2, <1>11, TransformedIs, WebhookLines
  <2> DEFINE S == {WebhookLine(l) : l \in L}
  <2>2. {Shown(s, v, r) : s \in S} = {PutWebhook(l, v, r) : l \in L}
    BY <1>4
  <2> HIDE DEF S
  <2>3. Shown(UNION S, v, r) = UNION {Shown(s, v, r) : s \in S}
    BY ShownParts
  <2> QED BY <1>3, <2>1, <2>2, <2>3 DEF S
<1>12. ASSUME g = Certificate PROVE Installed(i, v, r) = UNION {PutCertificate(l, v, r) : l \in L}
  <2>1. transformResource(g, docs[i].lines) = UNION {CertificateLine(l) : l \in L}
    BY <1>2, <1>12, TransformedIs, CertificateLines
  <2> DEFINE S == {CertificateLine(l) : l \in L}
  <2>2. {Shown(s, v, r) : s \in S} = {PutCertificate(l, v, r) : l \in L}
    BY <1>4
  <2> HIDE DEF S
  <2>3. Shown(UNION S, v, r) = UNION {Shown(s, v, r) : s \in S}
    BY ShownParts
  <2> QED BY <1>3, <2>1, <2>2, <2>3 DEF S
<1>13. ASSUME g \notin Treated PROVE Installed(i, v, r) = UNION {PutNamespace(l, v, r) : l \in L}
  <2>1. transformResource(g, docs[i].lines) = UNION {NamespaceLine(l) : l \in L}
    BY <1>1, <1>13, TransformedIs, GenericLines
  <2> QED BY <1>3, <1>8, <2>1
<1> QED BY <1>5, <1>6, <1>9, <1>10, <1>11, <1>12, <1>13

-----------------------------------------------------------------------------
(* What an installed line says, by the line it came from.                    *)

Beside(x, l) == x.at = l.at /\ x.n = l.n /\ x.key = l.key /\ x.first = l.first

\* A line with a new value is where it was.
LEMMA InValued ==
  ASSUME NEW l \in Lines, NEW val, NEW x \in Valued(l, val)
  PROVE  Beside(x, l) /\ x.val = val
<1>1. PICK m : /\ Valued(l, val) = {m} /\ m.val = val
               /\ m.at = l.at /\ m.n = l.n /\ m.key = l.key /\ m.first = l.first
  BY ValuedIs
<1> QED BY <1>1 DEF Beside

\* A line of a map is one of its keys.
LEMMA InEntries ==
  ASSUME NEW at, NEW n, NEW map, NEW x \in Entries(at, n, map)
  PROVE  x.at = at /\ x.n = n /\ x.key \in DOMAIN map
<1>1. PICK k \in DOMAIN map : x = Line(at, n, k, map[k])
  BY DEF Entries
<1> QED BY <1>1 DEF Line

\* A line of a secret.
LEMMA InSecret ==
  ASSUME NEW at, NEW n, NEW key, NEW v, NEW x \in Secret(at, n, key, v)
  PROVE  x.at = at /\ x.key = key /\ x.val = v.imagePullSecret
<1>1. x = Line(at, n, key, v.imagePullSecret)
  BY DEF Secret
<1> QED BY <1>1 DEF Line

\* A line of a resource of any other kind.
LEMMA InNamespace ==
  ASSUME NEW l \in Lines, NEW v, NEW r, NEW x \in PutNamespace(l, v, r)
  PROVE  /\ Beside(x, l)
         /\ x.val = IF l.key = "namespace" /\ ~l.first THEN NamespaceOf(v, r) ELSE l.val
<1>1. CASE l.key = "namespace" /\ ~l.first
  BY <1>1, InValued DEF PutNamespace
<1>2. CASE ~(l.key = "namespace" /\ ~l.first)
  BY <1>2 DEF PutNamespace, Beside
<1> QED BY <1>1, <1>2

\* The value of a line of a Deployment when it is installed.
DeploymentValue(l, v, r) ==
  IF l.first THEN l.val
  ELSE IF l.key = "image" THEN imageRef(v)
  ELSE IF l.key = "replicas" THEN v.replicas
  ELSE IF l.key = "serviceAccountName" THEN AccountOf(v, r)
  ELSE IF l.key = "namespace" THEN NamespaceOf(v, r)
  ELSE l.val

\* A line of a Deployment is one that was printed or one that was added.
LEMMA InDeployment ==
  ASSUME NEW l \in Lines, NEW v, NEW r, NEW x \in PutDeployment(l, v, r)
  PROVE  \/ Beside(x, l) /\ l.at # "resources" /\ x.val = DeploymentValue(l, v, r)
         \/ x.at = l.at /\ x.key = "imagePullPolicy"
         \/ x.at = "resources" /\ x.key \in DOMAIN v.resources
         \/ x.at = "pod" /\ x.key = "imagePullSecrets" /\ x.val = v.imagePullSecret
         \/ x.at = "env" /\ x.key \in DOMAIN v.extraEnvs
<1>1. l.at # "resources" /\ ~(l.key = "imagePullPolicy" /\ ~l.first)
  BY DEF PutDeployment
<1>2. CASE l.first
  BY <1>1, <1>2 DEF PutDeployment, Beside, DeploymentValue
<1>3. CASE ~l.first /\ l.key = "image"
  <2> DEFINE p == Line(l.at, l.n, "imagePullPolicy", <<"Always">>)
  <2>1. x \in Valued(l, imageRef(v)) \/ x = p
    BY <1>1, <1>3 DEF PutDeployment
  <2>2. p.at = l.at /\ p.key = "imagePullPolicy"
    BY DEF Line
  <2>3. DeploymentValue(l, v, r) = imageRef(v)
    BY <1>3 DEF DeploymentValue
  <2> HIDE DEF p
  <2> QED BY <1>1, <2>1, <2>2, <2>3, InValued
<1>4. CASE ~l.first /\ l.key = "replicas"
  <2>1. x \in Valued(l, v.replicas) /\ DeploymentValue(l, v, r) = v.replicas
    BY <1>1, <1>4 DEF PutDeployment, DeploymentValue
  <2> QED BY <1>1, <2>1, InValued
<1>5. CASE ~l.first /\ l.key = "resources" /\ l.val = <<>>
  <2>1. x \in Valued(l, <<>>) \/ x \in Entries("resources", l.n, v.resources)
    BY <1>1, <1>5 DEF PutDeployment
  <2>2. DeploymentValue(l, v, r) = <<>>
    BY <1>5 DEF DeploymentValue
  <2> QED BY <1>1, <2>1, <2>2, InValued, InEntries
<1>6. CASE ~l.first /\ l.key = "serviceAccountName"
  <2>1. x \in Valued(l, AccountOf(v, r)) \/ x \in Secret("pod", l.n, "imagePullSecrets", v)
    BY <1>1, <1>6 DEF PutDeployment
  <2>2. DeploymentValue(l, v, r) = AccountOf(v, r)
    BY <1>6 DEF DeploymentValue
  <2> QED BY <1>1, <2>1, <2>2, InValued, InSecret
<1>7. CASE ~l.first /\ l.key = "env" /\ l.val = <<>>
  <2>1. x = l \/ x \in Entries("env", l.n, v.extraEnvs)
    BY <1>1, <1>7 DEF PutDeployment
  <2>2. DeploymentValue(l, v, r) = l.val
    BY <1>7 DEF DeploymentValue
  <2> QED BY <1>1, <2>1, <2>2, InEntries DEF Beside
<1>8. CASE /\ ~l.first /\ l.key \notin {"image", "replicas", "serviceAccountName"}
           /\ l.val = <<>> => l.key \notin {"resources", "env"}
  <2>1. x \in PutNamespace(l, v, r)
    BY <1>1, <1>8 DEF PutDeployment
  <2>2. DeploymentValue(l, v, r) = IF l.key = "namespace" THEN NamespaceOf(v, r) ELSE l.val
    BY <1>8 DEF DeploymentValue
  <2> QED BY <1>1, <1>8, <2>1, <2>2, InNamespace
<1> QED BY <1>2, <1>3, <1>4, <1>5, <1>6, <1>7, <1>8

\* A line of a ServiceAccount is one that was printed, or an annotation.
LEMMA InAccount ==
  ASSUME NEW l \in Lines, NEW names, NEW v, NEW r, NEW x \in PutAccount(l, names, v, r)
  PROVE  \/ /\ Beside(x, l)
            /\ x.val = IF l.at \in {"metadata", "labels", "annotations"} /\ l.key = "name" /\ l.val \in names
                         THEN AccountOf(v, r)
                       ELSE IF l.key = "namespace" /\ ~l.first THEN NamespaceOf(v, r)
                       ELSE l.val
         \/ x.at = "annotations" /\ x.key \in DOMAIN v.annotations
<1>1. CASE l.at \in {"metadata", "labels", "annotations"} /\ l.key = "name" /\ l.val \in names
  <2>1. x \in Valued(l, AccountOf(v, r)) \/ x \in Entries("annotations", 0, v.annotations)
    BY <1>1 DEF PutAccount
  <2>2. x \in Valued(l, AccountOf(v, r)) => Beside(x, l) /\ x.val = AccountOf(v, r)
    BY InValued
  <2>3. x \in Entries("annotations", 0, v.annotations) => x.at = "annotations" /\ x.key \in DOMAIN v.annotations
    BY InEntries
  <2> QED BY <1>1, <2>1, <2>2, <2>3
<1>2. CASE ~(l.at \in {"metadata", "labels", "annotations"} /\ l.key = "name" /\ l.val \in names)
  <2>1. x \in PutNamespace(l, v, r)
    BY <1>2 DEF PutAccount
  <2> QED BY <1>2, <2>1, InNamespace
<1> QED BY <1>1, <1>2

\* A line of a role binding.
LEMMA InSubject ==
  ASSUME NEW l \in Lines, NEW v, NEW r, NEW x \in PutSubject(l, v, r)
  PROVE  /\ Beside(x, l)
         /\ x.val = IF l.at = "subjects" /\ l.key = "name" /\ ~l.first THEN AccountOf(v, r)
                    ELSE IF l.key = "namespace" /\ ~l.first THEN NamespaceOf(v, r)
                    ELSE l.val
<1>1. CASE l.at = "subjects" /\ l.key = "name" /\ ~l.first
  BY <1>1, InValued DEF PutSubject
<1>2. CASE ~(l.at = "subjects" /\ l.key = "name" /\ ~l.first)
  BY <1>2, InNamespace DEF PutSubject
<1> QED BY <1>1, <1>2

\* A line of a webhook configuration.
LEMMA InWebhook ==
  ASSUME NEW l \in Lines, NEW v, NEW r, NEW x \in PutWebhook(l, v, r)
  PROVE  /\ Beside(x, l)
         /\ x.val = IF l.key = "cert-manager.io/inject-ca-from" THEN v.namespace
                    ELSE IF l.key = "namespace" /\ ~l.first THEN NamespaceOf(v, r)
                    ELSE l.val
<1>1. CASE l.key = "cert-manager.io/inject-ca-from"
  BY <1>1, InValued DEF PutWebhook
<1>2. CASE l.key # "cert-manager.io/inject-ca-from"
  BY <1>2, InNamespace DEF PutWebhook
<1> QED BY <1>1, <1>2

\* A line of a certificate.
LEMMA InCertificate ==
  ASSUME NEW l \in Lines, NEW v, NEW r, NEW x \in PutCertificate(l, v, r)
  PROVE  /\ Beside(x, l)
         /\ x.val = IF l.at = "dnsNames" /\ l.key = "service" THEN v.namespace
                    ELSE IF l.key = "namespace" /\ ~l.first THEN NamespaceOf(v, r)
                    ELSE l.val
<1>1. CASE l.at = "dnsNames" /\ l.key = "service"
  BY <1>1, InValued DEF PutCertificate
<1>2. CASE ~(l.at = "dnsNames" /\ l.key = "service")
  BY <1>2, InNamespace DEF PutCertificate
<1> QED BY <1>1, <1>2

\* A line of the ConfigMap's data.
LEMMA InData ==
  ASSUME NEW v, NEW x \in PutData(v)
  PROVE  x.at = "data" /\ (x.key \in DOMAIN v.config \/ x.key = "imagePullSecret")
<1>1. x \in Entries("data", 0, v.config) => x.at = "data" /\ x.key \in DOMAIN v.config
  BY InEntries
<1>2. x \in Secret("data", 0, "imagePullSecret", v) => x.at = "data" /\ x.key = "imagePullSecret"
  BY InSecret
<1> QED BY <1>1, <1>2 DEF PutData

-----------------------------------------------------------------------------
(* The values.                                                               *)

\* Extraction leaves everything but the image and the resources as it was.
LEMMA ExtractedAre ==
  ASSUME NEW in
  PROVE  LET e == ExtractDefaults(in) IN
         /\ DOMAIN e = DOMAIN DefaultValues
         /\ \A k \in DOMAIN DefaultValues \ {"repository", "tag", "resources"} : e[k] = DefaultValues[k]
         /\ DOMAIN e.resources = ResourceKeys
<1>1. DOMAIN ExtractDefaults(in) = DOMAIN DefaultValues
  BY ValuesPresent
<1>2. ASSUME NEW k \in DOMAIN DefaultValues \ {"repository", "tag", "resources"}
      PROVE  ExtractDefaults(in)[k] = DefaultValues[k]
  <2>1. CASE k = "replicas"
    <3>1. \A found : NestedInt64(found) = {}
      BY DEF NestedInt64, DecodedNumber
    <3> QED BY <2>1, <3>1 DEF ExtractDefaults, OneOf
  <2>2. CASE k # "replicas"
    BY <2>2 DEF ExtractDefaults
  <2> QED BY <2>1, <2>2
<1>3. DOMAIN ExtractDefaults(in).resources = ResourceKeys
  <2>1. DOMAIN DefaultValues.resources = ResourceKeys /\ "resources" \in DOMAIN DefaultValues
    BY DEF DefaultValues
  <2>2. \A L : DOMAIN extractResources(L) = ResourceKeys
    BY DEF extractResources
  <2> QED BY <2>1, <2>2 DEF ExtractDefaults
<1> QED BY <1>1, <1>2, <1>3

\* Keys that name a namespace, an account or a pull secret.
NamingKeys == {"namespace", "cert-manager.io/inject-ca-from", "serviceAccountName", "imagePullSecret"}

\* The values of an installation: what it sets, else what was extracted.
LEMMA MergedAre ==
  ASSUME ChartInvariant, pc = "done", NEW o
  PROVE  LET v == Merged(o) IN
         /\ valuesYaml = ExtractDefaults(docs)
         /\ \A k \in DOMAIN DefaultValues : v[k] = IF k \in DOMAIN o THEN o[k] ELSE valuesYaml[k]
         /\ \A k \in DOMAIN DefaultValues \ {"repository", "tag", "resources"} :
              k \notin DOMAIN o => v[k] = DefaultValues[k]
<1>1. valuesYaml = ExtractDefaults(docs)
  BY DoneIsComplete DEF ChartIsComplete
<1>2. DOMAIN valuesYaml = DOMAIN DefaultValues
  BY <1>1, ExtractedAre
<1>3. \A k \in DOMAIN DefaultValues : Merged(o)[k] = IF k \in DOMAIN o THEN o[k] ELSE valuesYaml[k]
  BY <1>2 DEF Merged
<1>4. \A k \in DOMAIN DefaultValues \ {"repository", "tag", "resources"} : valuesYaml[k] = DefaultValues[k]
  BY <1>1, ExtractedAre
<1> QED BY <1>1, <1>3, <1>4

\* No map of values, set or extracted, has a key that names one of them.
LEMMA MapsNameNothing ==
  ASSUME ChartInvariant, pc = "done", NEW o \in Installs
  PROVE  LET v == Merged(o) IN
         /\ DOMAIN v.config \cap NamingKeys = {}
         /\ DOMAIN v.extraEnvs \cap NamingKeys = {}
         /\ DOMAIN v.annotations \cap NamingKeys = {}
         /\ DOMAIN v.resources \cap NamingKeys = {}
<1> DEFINE v == Merged(o)
<1>1. \A k \in {"config", "extraEnvs", "annotations", "resources"} \cap DOMAIN o :
        DOMAIN o[k] \cap NamingKeys = {}
  BY InstallsAssumption DEF NamingKeys
<1>2. {"config", "extraEnvs", "annotations", "resources"} \subseteq DOMAIN DefaultValues
  BY DEF DefaultValues
<1>3. DefaultValues["config"] = <<>> /\ DefaultValues["extraEnvs"] = <<>> /\ DefaultValues["annotations"] = <<>>
  BY DEF DefaultValues, EmptyMap
<1>4. DOMAIN <<>> = {}
  OBVIOUS
<1>5. DOMAIN valuesYaml["resources"] \cap NamingKeys = {}
  <2>1. DOMAIN valuesYaml["resources"] = ResourceKeys
    BY MergedAre, ExtractedAre
  <2> QED BY <2>1 DEF ResourceKeys, NamingKeys
<1>6. \A k \in DOMAIN DefaultValues : v[k] = IF k \in DOMAIN o THEN o[k] ELSE valuesYaml[k]
  BY MergedAre
<1>7. \A k \in DOMAIN DefaultValues \ {"repository", "tag", "resources"} :
        k \notin DOMAIN o => v[k] = DefaultValues[k]
  BY MergedAre
<1> HIDE DEF v
<1>8. DOMAIN v["resources"] \cap NamingKeys = {}
  BY <1>1, <1>2, <1>5, <1>6
<1>9. /\ DOMAIN v["config"] \cap NamingKeys = {} /\ DOMAIN v["extraEnvs"] \cap NamingKeys = {}
      /\ DOMAIN v["annotations"] \cap NamingKeys = {}
  BY <1>1, <1>2, <1>3, <1>4, <1>6, <1>7
<1> QED BY <1>8, <1>9 DEF v

\* Every line installed of a namespace of the build is that of the release.
LEMMA NamespaceInstalled ==
  ASSUME ChartInvariant, pc = "done", NEW o \in Installs, NEW r, "namespace" \in DOMAIN o,
         NEW i \in Resources, NEW x \in Installed(i, Merged(o), r), NamesNamespace(x)
  PROVE  x.val = o.namespace
<1> DEFINE v == Merged(o)
           L == stripLabels(docs[i].lines)
           g == docs[i].gvk
<1>1. i \in DOMAIN docs /\ docs \in Inputs
  BY InputLines DEF Resources
<1>2. L \subseteq docs[i].lines /\ docs[i].lines \subseteq Lines
  BY <1>1, InputLines
<1>3. v.namespace = o.namespace /\ NamespaceOf(v, r) = o.namespace
  <2>1. "namespace" \in DOMAIN DefaultValues
    BY DEF DefaultValues
  <2>2. v["namespace"] = o["namespace"]
    BY <2>1, MergedAre
  <2>3. o["namespace"] # <<>>
    BY InstallsAssumption
  <2> QED BY <2>2, <2>3 DEF NamespaceOf, OrElse
<1>4. /\ DOMAIN v.config \cap NamingKeys = {} /\ DOMAIN v.extraEnvs \cap NamingKeys = {}
      /\ DOMAIN v.annotations \cap NamingKeys = {} /\ DOMAIN v.resources \cap NamingKeys = {}
  BY MapsNameNothing
<1> HIDE DEF v
<1>5. \A l \in L :
        /\ l.key = "namespace" => ~l.first /\ g.kind # "CustomResourceDefinition"
        /\ l.key = "cert-manager.io/inject-ca-from" => g \in Webhooks
        /\ l.at = "dnsNames" /\ l.key = "service" => g = Certificate
  BY <1>1, <1>2, NamespacesAssumption
<1>6. \/ x.key = "namespace" \/ x.key = "cert-manager.io/inject-ca-from"
      \/ x.at = "dnsNames" /\ x.key = "service"
  BY DEF NamesNamespace
<1>7. ASSUME NEW map, DOMAIN map \cap NamingKeys = {}, x.key \in DOMAIN map
      PROVE  x.at = "dnsNames"
  BY <1>6, <1>7 DEF NamingKeys
<1>8. CASE isCRD(g)
  <2>1. x \in L
    BY <1>8, CRDInstalled DEF v
  <2> QED BY <1>5, <1>6, <1>8, <2>1, KindsApart DEF isCRD, Treated
<1>9. CASE g = Deployment
  <2>1. PICK l \in L : x \in PutDeployment(l, v, r)
    BY <1>9, ResourceInstalled, KindsApart DEF v, Treated
  <2>2. g \notin Webhooks /\ g # Certificate
    BY <1>9, KindsApart
  <2>3. Beside(x, l) /\ x.val = DeploymentValue(l, v, r)
    BY <1>2, <1>4, <1>6, <1>7, <2>1, InDeployment
  <2> QED BY <1>3, <1>5, <1>6, <2>2, <2>3 DEF Beside, DeploymentValue
<1>10. CASE g = ServiceAccount
  <2>1. PICK l \in L : x \in PutAccount(l, Lookup(L, "metadata", "name"), v, r)
    BY <1>10, ResourceInstalled, KindsApart DEF v, Treated
  <2>2. g \notin Webhooks /\ g # Certificate
    BY <1>10, KindsApart
  <2> QED BY <1>2, <1>3, <1>4, <1>5, <1>6, <1>7, <2>1, <2>2, InAccount DEF Beside
<1>11. CASE g = ConfigMap
  <2>1. (\E l \in L : x \in PutNamespace(l, v, r)) \/ x \in PutData(v)
    BY <1>11, ResourceInstalled, KindsApart DEF v, Treated
  <2>2. x \notin PutData(v)
    BY <1>4, <1>6, <1>7, InData
  <2>3. PICK l \in L : x \in PutNamespace(l, v, r)
    BY <2>1, <2>2
  <2>4. g \notin Webhooks /\ g # Certificate
    BY <1>11, KindsApart
  <2> QED BY <1>2, <1>3, <1>5, <1>6, <2>3, <2>4, InNamespace DEF Beside
<1>12. CASE g \in RoleBindings
  <2>1. PICK l \in L : x \in PutSubject(l, v, r)
    BY <1>12, ResourceInstalled, KindsApart DEF v, Treated
  <2>2. g \notin Webhooks /\ g # Certificate
    BY <1>12, KindsApart
  <2> QED BY <1>2, <1>3, <1>5, <1>6, <2>1, <2>2, InSubject DEF Beside
<1>13. CASE g \in Webhooks
  <2>1. PICK l \in L : x \in PutWebhook(l, v, r)
    BY <1>13, ResourceInstalled, KindsApart DEF v, Treated
  <2>2. g # Certificate
    BY <1>13, KindsApart
  <2> QED BY <1>2, <1>3, <1>5, <1>6, <2>1, <2>2, InWebhook DEF Beside
<1>14. CASE g = Certificate
  <2>1. PICK l \in L : x \in PutCertificate(l, v, r)
    BY <1>14, ResourceInstalled, KindsApart DEF v, Treated
  <2>2. g \notin Webhooks
    BY <1>14, KindsApart
  <2> QED BY <1>2, <1>3, <1>5, <1>6, <2>1, <2>2, InCertificate DEF Beside
<1>15. CASE ~isCRD(g) /\ g \notin Treated
  <2>1. PICK l \in L : x \in PutNamespace(l, v, r)
    BY <1>15, ResourceInstalled DEF v
  <2> QED BY <1>2, <1>3, <1>5, <1>6, <1>15, <2>1, InNamespace DEF Beside, Treated
<1> QED BY <1>8, <1>9, <1>10, <1>11, <1>12, <1>13, <1>14, <1>15 DEF Treated

\* Nothing that is installed names the namespace of the build: whatever
\* resources there are, provided they name namespaces where resources do.
THEOREM InOneNamespace == Spec => []OneNamespace
<1>1. ChartInvariant => OneNamespace
  BY NamespaceInstalled DEF OneNamespace
<1> QED BY <1>1, ChartInvariance, PTL

\* A ServiceAccount, line by line.
LEMMA AccountPuts ==
  ASSUME ChartInvariant, pc = "done", NEW v, NEW r, NEW j \in Resources, docs[j].gvk = ServiceAccount
  PROVE  LET L == stripLabels(docs[j].lines) IN
           Installed(j, v, r) = UNION {PutAccount(l, Lookup(L, "metadata", "name"), v, r) : l \in L}
<1> DEFINE L == stripLabels(docs[j].lines)
           names == Lookup(L, "metadata", "name")
           I == Installed(j, v, r)
<1>1. ~isCRD(docs[j].gvk)
  BY KindsApart DEF Treated
<1>2. ASSUME NEW x PROVE x \in I <=> \E l \in L : x \in PutAccount(l, names, v, r)
  BY <1>1, ResourceInstalled
<1>3. I = UNION {PutAccount(l, names, v, r) : l \in L}
  <2> HIDE DEF I, L, names
  <2> QED BY <1>2
<1> QED BY <1>3

\* A ServiceAccount is installed under the account's name in the release's
\* namespace.
LEMMA AccountInstalled ==
  ASSUME ChartInvariant, pc = "done", NEW v, NEW r, NEW j \in Resources, docs[j].gvk = ServiceAccount
  PROVE  /\ Lookup(Installed(j, v, r), "metadata", "name") = {AccountOf(v, r)}
         /\ Lookup(Installed(j, v, r), "metadata", "namespace") = {NamespaceOf(v, r)}
<1> DEFINE L == stripLabels(docs[j].lines)
           names == Lookup(L, "metadata", "name")
           I == Installed(j, v, r)
<1>1. j \in DOMAIN docs /\ docs \in Inputs
  BY InputLines DEF Resources
<1>2. L \subseteq docs[j].lines /\ docs[j].lines \subseteq Lines
  BY <1>1, InputLines
<1>3. I = UNION {PutAccount(l, names, v, r) : l \in L}
  BY AccountPuts
<1>4. \A l \in L : l.key = "namespace" => ~l.first
  BY <1>1, <1>2, NamespacesAssumption
<1>5. ASSUME NEW key \in {"name", "namespace"}
      PROVE  \E l \in L : l.at = "metadata" /\ l.key = key
  <2>1. PICK l \in docs[j].lines : l.at = "metadata" /\ l.key = key
    BY <1>1, AccountsAssumption
  <2>2. l \in L
    BY <1>1, <2>1, InputLines
  <2> QED BY <2>1, <2>2
<1>6. \A l \in L : l.at = "metadata" /\ l.key = "name" => l.val \in names
  BY DEF Lookup
<1> HIDE DEF I, L, names
<1>7. ASSUME NEW x \in I, x.at = "metadata"
      PROVE  /\ x.key = "name" => x.val = AccountOf(v, r)
             /\ x.key = "namespace" => x.val = NamespaceOf(v, r)
  <2>1. PICK l \in L : x \in PutAccount(l, names, v, r)
    BY <1>3
  <2> QED BY <1>2, <1>4, <1>6, <1>7, <2>1, InAccount DEF Beside
<1>8. \E x \in I : x.at = "metadata" /\ x.key = "name"
  <2>1. PICK l \in L : l.at = "metadata" /\ l.key = "name"
    BY <1>5
  <2>2. PICK t : Valued(l, AccountOf(v, r)) = {t} /\ t.at = l.at /\ t.key = l.key
    BY <1>2, ValuedIs
  <2>3. t \in PutAccount(l, names, v, r)
    BY <1>6, <2>1, <2>2 DEF PutAccount
  <2> QED BY <1>3, <2>1, <2>2, <2>3
<1>9. \E x \in I : x.at = "metadata" /\ x.key = "namespace"
  <2>1. PICK l \in L : l.at = "metadata" /\ l.key = "namespace"
    BY <1>5
  <2>2. PICK t : Valued(l, NamespaceOf(v, r)) = {t} /\ t.at = l.at /\ t.key = l.key
    BY <1>2, ValuedIs
  <2>3. t \in PutAccount(l, names, v, r)
    BY <1>4, <2>1, <2>2 DEF PutAccount, PutNamespace
  <2> QED BY <1>3, <2>1, <2>2, <2>3
<1>10. Lookup(I, "metadata", "name") = {AccountOf(v, r)}
  BY <1>7, <1>8 DEF Lookup
<1>11. Lookup(I, "metadata", "namespace") = {NamespaceOf(v, r)}
  BY <1>7, <1>9 DEF Lookup
<1> QED BY <1>10, <1>11 DEF I

NamesAccount(x) == x.key = "serviceAccountName" \/ (x.at = "subjects" /\ x.key = "name")

\* Whatever is installed that names an account names that one.
LEMMA AccountNamed ==
  ASSUME ChartInvariant, pc = "done", NEW o \in Installs, NEW r,
         NEW i \in Resources, NEW x \in Installed(i, Merged(o), r), NamesAccount(x)
  PROVE  /\ x.val = AccountOf(Merged(o), r)
         /\ x.at = "subjects" => docs[i].gvk \in RoleBindings
         /\ \E j \in Resources : docs[j].gvk = ServiceAccount
<1> DEFINE v == Merged(o)
           L == stripLabels(docs[i].lines)
           g == docs[i].gvk
<1>1. i \in DOMAIN docs /\ docs \in Inputs
  BY InputLines DEF Resources
<1>2. L \subseteq docs[i].lines /\ docs[i].lines \subseteq Lines
  BY <1>1, InputLines
<1>3. /\ DOMAIN v.config \cap NamingKeys = {} /\ DOMAIN v.extraEnvs \cap NamingKeys = {}
      /\ DOMAIN v.annotations \cap NamingKeys = {} /\ DOMAIN v.resources \cap NamingKeys = {}
  BY MapsNameNothing
<1> HIDE DEF v
<1>4. \A l \in L :
        /\ l.key = "serviceAccountName" => g = Deployment /\ ~l.first /\ l.at = "pod"
        /\ l.at = "subjects" /\ l.key = "name" => g \in RoleBindings /\ ~l.first
        /\ NamesAccount(l) => \E j \in DOMAIN docs : docs[j].gvk = ServiceAccount
  BY <1>1, <1>2, AccountsAssumption DEF NamesAccount
<1>5. "serviceAccountName" \in NamingKeys
  BY DEF NamingKeys
<1>6. \A j \in DOMAIN docs : docs[j].gvk = ServiceAccount => j \in Resources
  BY KindsApart DEF Resources, Treated
<1>7. ASSUME NEW l \in L, Beside(x, l)
      PROVE  /\ NamesAccount(l)
             /\ x.at = "subjects" => g \in RoleBindings
             /\ \E j \in Resources : docs[j].gvk = ServiceAccount
             /\ g \in RoleBindings \cup {Deployment}
  BY <1>4, <1>6, <1>7 DEF NamesAccount, Beside
<1>8. ASSUME x.at \in {"annotations", "data"} PROVE x.key = "serviceAccountName"
  BY <1>8 DEF NamesAccount
<1>9. CASE isCRD(g)
  <2>1. x \in L
    BY <1>9, CRDInstalled DEF v
  <2> QED BY <1>7, <1>9, <2>1, KindsApart DEF Beside, Treated
<1>10. CASE g = Deployment
  <2>1. PICK l \in L : x \in PutDeployment(l, v, r)
    BY <1>10, ResourceInstalled, KindsApart DEF v, Treated
  <2>2. g \notin RoleBindings
    BY <1>10, KindsApart
  <2>3. l.at # "subjects" \/ l.key # "name"
    BY <1>4, <2>2
  <2>4. Beside(x, l) /\ x.val = DeploymentValue(l, v, r)
    BY <1>2, <1>3, <1>5, <2>1, InDeployment DEF NamesAccount
  <2>5. l.key = "serviceAccountName" /\ ~l.first
    BY <1>4, <2>3, <2>4 DEF NamesAccount, Beside
  <2>6. x.val = AccountOf(v, r)
    BY <2>4, <2>5 DEF DeploymentValue
  <2> QED BY <1>7, <2>4, <2>6 DEF v
<1>11. CASE g = ServiceAccount
  <2>1. PICK l \in L : x \in PutAccount(l, Lookup(L, "metadata", "name"), v, r)
    BY <1>11, ResourceInstalled, KindsApart DEF v, Treated
  <2>2. Beside(x, l)
    BY <1>2, <1>3, <1>5, <1>8, <2>1, InAccount
  <2> QED BY <1>7, <1>11, <2>2, KindsApart
<1>12. CASE g = ConfigMap
  <2>1. (\E l \in L : x \in PutNamespace(l, v, r)) \/ x \in PutData(v)
    BY <1>12, ResourceInstalled, KindsApart DEF v, Treated
  <2>2. x \notin PutData(v)
    BY <1>3, <1>5, <1>8, InData
  <2>3. PICK l \in L : x \in PutNamespace(l, v, r)
    BY <2>1, <2>2
  <2>4. Beside(x, l)
    BY <1>2, <2>3, InNamespace
  <2> QED BY <1>7, <1>12, <2>4, KindsApart
<1>13. CASE g \in RoleBindings
  <2>1. PICK l \in L : x \in PutSubject(l, v, r)
    BY <1>13, ResourceInstalled, KindsApart DEF v, Treated
  <2>2. /\ Beside(x, l)
        /\ l.at = "subjects" /\ l.key = "name" /\ ~l.first => x.val = AccountOf(v, r)
    BY <1>2, <2>1, InSubject
  <2>3. l.at = "subjects" /\ l.key = "name" /\ ~l.first
    BY <1>4, <1>7, <1>13, <2>2, KindsApart DEF NamesAccount
  <2> QED BY <1>7, <2>2, <2>3 DEF v
<1>14. CASE g \in Webhooks
  <2>1. PICK l \in L : x \in PutWebhook(l, v, r)
    BY <1>14, ResourceInstalled, KindsApart DEF v, Treated
  <2>2. Beside(x, l)
    BY <1>2, <2>1, InWebhook
  <2> QED BY <1>7, <1>14, <2>2, KindsApart
<1>15. CASE g = Certificate
  <2>1. PICK l \in L : x \in PutCertificate(l, v, r)
    BY <1>15, ResourceInstalled, KindsApart DEF v, Treated
  <2>2. Beside(x, l)
    BY <1>2, <2>1, InCertificate
  <2> QED BY <1>7, <1>15, <2>2, KindsApart
<1>16. CASE ~isCRD(g) /\ g \notin Treated
  <2>1. PICK l \in L : x \in PutNamespace(l, v, r)
    BY <1>16, ResourceInstalled DEF v
  <2>2. Beside(x, l)
    BY <1>2, <2>1, InNamespace
  <2> QED BY <1>7, <1>16, <2>2 DEF Treated
<1> QED BY <1>9, <1>10, <1>11, <1>12, <1>13, <1>14, <1>15, <1>16 DEF Treated

\* A subject's namespace is that of the release.
LEMMA SubjectsNamespace ==
  ASSUME ChartInvariant, pc = "done", NEW v, NEW r, NEW i \in Resources, docs[i].gvk \in RoleBindings,
         NEW x \in Installed(i, v, r), x.at = "subjects", x.key = "namespace"
  PROVE  x.val = NamespaceOf(v, r)
<1> DEFINE L == stripLabels(docs[i].lines)
<1>1. i \in DOMAIN docs /\ docs \in Inputs
  BY InputLines DEF Resources
<1>2. L \subseteq docs[i].lines /\ docs[i].lines \subseteq Lines
  BY <1>1, InputLines
<1>3. PICK l \in L : x \in PutSubject(l, v, r)
  BY ResourceInstalled, KindsApart DEF Treated
<1>4. \A m \in L : m.key = "namespace" => ~m.first
  BY <1>1, <1>2, NamespacesAssumption
<1> QED BY <1>2, <1>3, <1>4, InSubject DEF Beside

\* The account that is named is the one that is installed (AccountNamed,
\* AccountInstalled).
LEMMA DoneAccountsAgree == ChartInvariant => AccountsAgree
<1> SUFFICES ASSUME ChartInvariant, pc = "done", NEW o \in Installs, NEW r \in Releases,
                    NEW i \in Resources, NEW x \in Installed(i, Merged(o), r), NamesAccount(x)
             PROVE  \E j \in Resources :
                      /\ docs[j].gvk = ServiceAccount
                      /\ Lookup(Installed(j, Merged(o), r), "metadata", "name") = {x.val}
                      /\ x.at = "subjects" =>
                           \A m \in Installed(i, Merged(o), r) :
                             m.at = "subjects" /\ m.n = x.n /\ m.key = "namespace" =>
                               Lookup(Installed(j, Merged(o), r), "metadata", "namespace") = {m.val}
  BY DEF AccountsAgree, NamesAccount
<1> DEFINE v == Merged(o)
<1>1. PICK j \in Resources : docs[j].gvk = ServiceAccount
  BY AccountNamed
<1>2. x.val = AccountOf(v, r) /\ (x.at = "subjects" => docs[i].gvk \in RoleBindings)
  BY AccountNamed
<1>3. /\ Lookup(Installed(j, v, r), "metadata", "name") = {AccountOf(v, r)}
      /\ Lookup(Installed(j, v, r), "metadata", "namespace") = {NamespaceOf(v, r)}
  BY <1>1, AccountInstalled
<1> HIDE DEF v
<1>4. x.at = "subjects" =>
        \A m \in Installed(i, v, r) : m.at = "subjects" /\ m.key = "namespace" => m.val = NamespaceOf(v, r)
  BY <1>2, SubjectsNamespace
<1> QED BY <1>1, <1>2, <1>3, <1>4 DEF v

\* Pods and subjects name a ServiceAccount that is installed with them, whatever
\* the release and the account are called.
THEOREM AccountsInstalled == Spec => []AccountsAgree
  BY DoneAccountsAgree, ChartInvariance, PTL

-----------------------------------------------------------------------------
(* Image references.                                                         *)

Separates(img, k) == img[k] = ":" /\ \A q \in k..Len(img) : img[q] # "/"

\* Parts of references.  (No prover knows that a text is in STRING.)
Parts == STRING \cup {":", "latest"}

\* The last part but one is the only place where a reference may be cut.
Reference(img) ==
  /\ img \in Seq(STRING)
  /\ \A k \in 1..Len(img) : Separates(img, k) => k = Len(img) - 1

\* Short sequences.
LEMMA Short ==
  ASSUME NEW S, NEW a \in S, NEW b \in S
  PROVE  /\ <<a>> \in Seq(S) /\ Len(<<a>>) = 1 /\ <<a>>[1] = a
         /\ <<a, b>> \in Seq(S) /\ Len(<<a, b>>) = 2 /\ <<a, b>>[1] = a /\ <<a, b>>[2] = b
<1>1. <<a>> \in Seq(S) /\ <<a, b>> \in Seq(S)
  OBVIOUS
<1> QED BY <1>1

\* A sequence and one more element.
LEMMA OneMore ==
  ASSUME NEW S, NEW s \in Seq(S), NEW a \in S
  PROVE  /\ s \o <<a>> \in Seq(S) /\ Len(s \o <<a>>) = Len(s) + 1
         /\ \A i \in 1..Len(s) + 1 : (s \o <<a>>)[i] = IF i <= Len(s) THEN s[i] ELSE a
<1> DEFINE c == <<a>>
<1>1. c \in Seq(S) /\ Len(c) = 1 /\ c[1] = a
  BY Short
<1> HIDE DEF c
<1>2. /\ s \o c \in Seq(S) /\ Len(s \o c) = Len(s) + Len(c)
      /\ \A i \in 1..Len(s) + Len(c) : (s \o c)[i] = IF i <= Len(s) THEN s[i] ELSE c[i - Len(s)]
  BY <1>1, ConcatProperties
<1>3. Len(s) \in Nat
  BY LenProperties
<1>4. \A i \in 1..Len(s) + 1 : ~(i <= Len(s)) => i - Len(s) = 1
  BY <1>3
<1>5. \A i \in 1..Len(s) + 1 : (s \o c)[i] = IF i <= Len(s) THEN s[i] ELSE a
  BY <1>1, <1>2, <1>4
<1> QED BY <1>1, <1>2, <1>5 DEF c

\* A sequence over a set is one over a larger set.
LEMMA SeqWider ==
  ASSUME NEW S, NEW T, S \subseteq T, NEW s \in Seq(S)
  PROVE  s \in Seq(T)
<1>1. Len(s) \in Nat /\ \A i \in 1..Len(s) : s[i] \in T
  BY LenProperties, ElementOfSeq
<1>2. SubSeq(s, 1, Len(s)) \in Seq(T)
  BY <1>1, SubSeqProperties
<1> QED BY <1>2, SubSeqFull

\* A reference that is cut nowhere, with a tag.
LEMMA Untagged ==
  ASSUME NEW img, Reference(img), \A k \in 1..Len(img) : ~Separates(img, k)
  PROVE  /\ splitImageTag(img) = [repository |-> img, tag |-> <<"latest">>]
         /\ Tagged(img) = img \o <<":", "latest">>
         /\ SubSeq(Tagged(img), 1, Len(Tagged(img)) - 1) = img \o <<":">>
         /\ (img \o <<":">>) \o <<"latest">> = Tagged(img)
         /\ Tagged(Tagged(img)) = Tagged(img)
<1> DEFINE end == <<":", "latest">>
           T == img \o end
<1>1. img \in Seq(Parts) /\ end \in Seq(Parts) /\ Len(end) = 2 /\ Len(img) \in Nat
  <2>1. ":" \in Parts /\ "latest" \in Parts /\ STRING \subseteq Parts
    BY DEF Parts
  <2>2. end \in Seq(Parts) /\ Len(end) = 2
    BY <2>1, Short
  <2>3. img \in Seq(STRING)
    BY DEF Reference
  <2> QED BY <2>1, <2>2, <2>3, SeqWider, LenProperties
<1>2. splitImageTag(img) = [repository |-> img, tag |-> <<"latest">>]
  <2>1. {i \in 1..Len(img) : img[i] = ":" /\ \A j \in i..Len(img) : img[j] # "/"} = {}
    BY DEF Separates
  <2> QED BY <2>1 DEF splitImageTag
<1>3. Tagged(img) = T
  BY DEF Tagged, Separates
<1>4. /\ T \in Seq(Parts) /\ Len(T) = Len(img) + 2
      /\ \A i \in 1..Len(img) + 2 : T[i] = IF i <= Len(img) THEN img[i] ELSE end[i - Len(img)]
  BY <1>1, ConcatProperties
<1>5. T[Len(img) + 1] = ":" /\ T[Len(img) + 2] = "latest"
  <2>1. end[1] = ":" /\ end[2] = "latest"
    OBVIOUS
  <2> HIDE DEF end, T
  <2>2. Len(img) + 1 \in 1..Len(img) + 2 /\ Len(img) + 2 \in 1..Len(img) + 2
    BY <1>1
  <2>3. T[Len(img) + 1] = end[1] /\ T[Len(img) + 2] = end[2]
    BY <1>1, <1>4, <2>2
  <2> QED BY <2>1, <2>3
<1> HIDE DEF T, end
<1> DEFINE A == img \o <<":">>
<1>6. /\ A \in Seq(Parts) /\ Len(A) = Len(img) + 1
      /\ \A i \in 1..Len(img) + 1 : A[i] = IF i <= Len(img) THEN img[i] ELSE ":"
  <2>1. ":" \in Parts
    BY DEF Parts
  <2> QED BY <1>1, <2>1, OneMore
<1> HIDE DEF A
<1>7. SubSeq(T, 1, Len(T) - 1) = A
  <2> DEFINE U == SubSeq(T, 1, Len(T) - 1)
  <2>1. \A i \in 1..Len(T) - 1 : T[i] \in Parts
    BY <1>1, <1>4, ElementOfSeq
  <2>2. Len(T) - 1 = Len(img) + 1 /\ Len(T) - 1 \in Int
    BY <1>1, <1>4
  <2>3. /\ U \in Seq(Parts) /\ Len(U) = Len(img) + 1
        /\ \A i \in 1..Len(img) + 1 : U[i] = T[i]
    <3>1. /\ SubSeq(T, 1, Len(T) - 1) \in Seq(Parts)
          /\ Len(SubSeq(T, 1, Len(T) - 1)) = IF 1 <= Len(T) - 1 THEN (Len(T) - 1) - 1 + 1 ELSE 0
          /\ \A i \in 1..((Len(T) - 1) - 1 + 1) : SubSeq(T, 1, Len(T) - 1)[i] = T[1 + i - 1]
      BY <2>1, <2>2, SubSeqProperties
    <3> HIDE DEF U
    <3>2. /\ U \in Seq(Parts) /\ Len(U) = IF 1 <= Len(T) - 1 THEN (Len(T) - 1) - 1 + 1 ELSE 0
          /\ \A i \in 1..((Len(T) - 1) - 1 + 1) : U[i] = T[1 + i - 1]
      BY <3>1 DEF U
    <3>3. \A i \in 1..Len(img) + 1 : 1 + i - 1 = i
      BY <1>1
    <3> QED BY <1>1, <2>2, <3>2, <3>3
  <2> HIDE DEF U
  <2>4. \A i \in 1..Len(img) + 1 : U[i] = A[i]
    <3> SUFFICES ASSUME NEW i \in 1..Len(img) + 1 PROVE U[i] = A[i]
      OBVIOUS
    <3>1. U[i] = T[i]
      BY <2>3
    <3>2. CASE i <= Len(img)
      BY <1>1, <1>4, <1>6, <3>1, <3>2
    <3>3. CASE ~(i <= Len(img))
      <4>1. i = Len(img) + 1
        BY <1>1, <3>3
      <4> QED BY <1>5, <1>6, <3>1, <3>3, <4>1
    <3> QED BY <3>2, <3>3
  <2>5. U = A
    BY <1>6, <2>3, <2>4, SeqEqual
  <2> QED BY <2>5 DEF U
<1>8. A \o <<"latest">> = T
  <2> DEFINE U == A \o <<"latest">>
  <2>1. /\ U \in Seq(Parts) /\ Len(U) = Len(A) + 1
        /\ \A i \in 1..Len(A) + 1 : U[i] = IF i <= Len(A) THEN A[i] ELSE "latest"
    <3>1. "latest" \in Parts
      BY DEF Parts
    <3> QED BY <1>6, <3>1, OneMore
  <2> HIDE DEF U
  <2>2. Len(U) = Len(T)
    BY <1>1, <1>4, <1>6, <2>1
  <2>3. \A i \in 1..Len(U) : U[i] = T[i]
    <3> SUFFICES ASSUME NEW i \in 1..Len(img) + 2 PROVE U[i] = T[i]
      BY <1>1, <1>6, <2>1
    <3>1. CASE i <= Len(img)
      BY <1>1, <1>4, <1>6, <2>1, <3>1
    <3>2. CASE i = Len(img) + 1
      BY <1>1, <1>5, <1>6, <2>1, <3>2
    <3>3. CASE i = Len(img) + 2
      BY <1>1, <1>5, <1>6, <2>1, <3>3
    <3> QED BY <1>1, <3>1, <3>2, <3>3
  <2>4. U = T
    BY <1>4, <2>1, <2>2, <2>3, SeqEqual
  <2> QED BY <2>4 DEF U
<1>9. Tagged(T) = T
  <2>1. Len(img) + 1 \in 1..Len(T) /\ T[Len(img) + 1] = ":"
    BY <1>1, <1>4, <1>5
  <2>2. \A j \in (Len(img) + 1)..Len(T) : j = Len(img) + 1 \/ j = Len(img) + 2
    BY <1>1, <1>4
  <2>3. \A j \in (Len(img) + 1)..Len(T) : T[j] # "/"
    BY <1>5, <2>2
  <2> QED BY <2>1, <2>3 DEF Tagged
<1> QED BY <1>2, <1>3, <1>7, <1>8, <1>9 DEF A, end, T

\* A part of a sequence.
LEMMA PartOf ==
  ASSUME NEW S, NEW s \in Seq(S), NEW n \in Nat, n <= Len(s)
  PROVE  /\ SubSeq(s, 1, n) \in Seq(S) /\ Len(SubSeq(s, 1, n)) = n
         /\ \A i \in 1..n : SubSeq(s, 1, n)[i] = s[i]
<1> DEFINE u == SubSeq(s, 1, n)
<1>1. Len(s) \in Nat
  BY LenProperties
<1>2. \A i \in 1..n : s[i] \in S
  BY <1>1, ElementOfSeq
<1>3. /\ u \in Seq(S) /\ Len(u) = IF 1 <= n THEN n - 1 + 1 ELSE 0
      /\ \A i \in 1..n - 1 + 1 : u[i] = s[1 + i - 1]
  BY <1>2, SubSeqProperties
<1> HIDE DEF u
<1>4. n - 1 + 1 = n /\ \A i \in 1..n : 1 + i - 1 = i
  OBVIOUS
<1>5. Len(u) = n
  BY <1>3, <1>4
<1>6. \A i \in 1..n : u[i] = s[i]
  BY <1>3, <1>4
<1> QED BY <1>3, <1>5, <1>6 DEF u

\* A sequence, cut before its last element.
LEMMA LastOf ==
  ASSUME NEW S, NEW s \in Seq(S), NEW n \in Nat, Len(s) = n + 1
  PROVE  SubSeq(s, 1, n) \o <<s[n + 1]>> = s
<1> DEFINE u == SubSeq(s, 1, n)
           t == u \o <<s[n + 1]>>
<1>1. /\ u \in Seq(S) /\ Len(u) = n
      /\ \A i \in 1..n : u[i] = s[i]
  BY PartOf
<1>2. s[n + 1] \in S
  BY ElementOfSeq
<1> HIDE DEF u
<1>3. /\ t \in Seq(S) /\ Len(t) = n + 1
      /\ \A i \in 1..n + 1 : t[i] = IF i <= n THEN u[i] ELSE s[n + 1]
  BY <1>1, <1>2, OneMore
<1> HIDE DEF t
<1>4. \A i \in 1..n + 1 : t[i] = s[i]
  <2> SUFFICES ASSUME NEW i \in 1..n + 1 PROVE t[i] = s[i]
    OBVIOUS
  <2>1. CASE i <= n
    BY <1>1, <1>3, <2>1
  <2>2. CASE ~(i <= n)
    <3>1. i = n + 1
      BY <2>2
    <3> QED BY <1>3, <2>2, <3>1
  <2> QED BY <2>1, <2>2
<1>5. t = s
  BY <1>3, <1>4, SeqEqual
<1> QED BY <1>5 DEF t, u

\* A reference that is cut at its last part but one.
LEMMA CutAtTag ==
  ASSUME NEW img, Reference(img), NEW k \in 1..Len(img), Separates(img, k)
  PROVE  LET repository == splitImageTag(img).repository
             tag == splitImageTag(img).tag
         IN /\ Tagged(img) = img
            /\ repository \o <<":">> = SubSeq(img, 1, Len(img) - 1)
            /\ (repository \o <<":">>) \o tag = img
<1> DEFINE n == Len(img)
           repository == SubSeq(img, 1, n - 2)
           tag == SubSeq(img, n, n)
           half == SubSeq(img, 1, n - 1)
<1>1. img \in Seq(Parts) /\ n \in Nat
  <2>1. STRING \subseteq Parts /\ img \in Seq(STRING)
    BY DEF Parts, Reference
  <2> QED BY <2>1, SeqWider, LenProperties
<1>2. k = n - 1 /\ n >= 2 /\ n - 2 \in Nat /\ n - 1 \in Nat
  BY <1>1 DEF Reference
<1>3. splitImageTag(img) = [repository |-> repository, tag |-> tag]
  <2> DEFINE cuts == {i \in 1..Len(img) : img[i] = ":" /\ \A j \in i..Len(img) : img[j] # "/"}
  <2>1. k \in cuts /\ \A i \in cuts : i = k
    BY <1>2 DEF Reference, Separates
  <2>2. k <= k
    BY <1>1, <1>2
  <2>3. (CHOOSE i \in cuts : \A j \in cuts : j <= i) = k /\ cuts # {}
    BY <2>1, <2>2
  <2>4. splitImageTag(img) = Cut(img, k)
    BY <2>3 DEF splitImageTag
  <2>5. k - 1 = n - 2 /\ k + 1 = n
    BY <1>1, <1>2
  <2> QED BY <2>4, <2>5 DEF Cut
<1>4. Tagged(img) = img
  BY DEF Tagged, Separates
<1>5. img[n - 1] = ":"
  BY <1>2 DEF Separates
<1> HIDE DEF n
<1>6. /\ half \in Seq(Parts) /\ Len(half) = n - 1 /\ \A i \in 1..n - 1 : half[i] = img[i]
  <2>1. n - 1 <= Len(img)
    BY <1>1 DEF n
  <2> QED BY <1>1, <1>2, <2>1, PartOf
<1>7. repository \o <<":">> = half
  <2> HIDE DEF half
  <2> DEFINE m == n - 2
  <2>1. m \in Nat /\ m + 1 = n - 1
    BY <1>1, <1>2
  <2>2. half[m + 1] = ":"
    BY <1>2, <1>5, <1>6, <2>1
  <2>3. Len(half) = m + 1
    BY <1>6, <2>1
  <2>4. SubSeq(half, 1, m) = SubSeq(img, 1, m)
    <3> DEFINE a == SubSeq(half, 1, m)
               b == SubSeq(img, 1, m)
    <3>1. m <= Len(half) /\ m <= Len(img)
      BY <1>1, <2>1, <2>3 DEF n, m
    <3> HIDE DEF m
    <3>2. a \in Seq(Parts) /\ Len(a) = m /\ \A i \in 1..m : a[i] = half[i]
      BY <1>6, <2>1, <3>1, PartOf
    <3>3. b \in Seq(Parts) /\ Len(b) = m /\ \A i \in 1..m : b[i] = img[i]
      BY <1>1, <2>1, <3>1, PartOf
    <3>4. \A i \in 1..m : half[i] = img[i]
      BY <1>1, <1>6, <2>1
    <3> HIDE DEF a, b
    <3>5. a = b
      BY <3>2, <3>3, <3>4, SeqEqual
    <3> QED BY <3>5 DEF a, b
  <2>5. SubSeq(half, 1, m) \o <<half[m + 1]>> = half
    <3> HIDE DEF m
    <3> QED BY <1>6, <2>1, <2>3, LastOf
  <2> QED BY <2>2, <2>4, <2>5
<1>8. half \o tag = img
  <2> DEFINE m == n - 1
  <2>1. m \in Nat /\ m + 1 = n /\ Len(img) = m + 1
    BY <1>1, <1>2 DEF n
  <2>2. tag = <<img[n]>>
    <3>1. Len(<<img[n]>>) = 1 /\ <<img[n]>>[1] = img[n] /\ img[n] \in Parts /\ <<img[n]>> \in Seq(Parts)
      BY <1>1, <2>1, ElementOfSeq, Short
    <3>2. n \in Int /\ \A i \in n..n : img[i] \in Parts
      BY <1>1, <3>1
    <3>3. ASSUME NEW first \in Int, first = n
          PROVE  /\ SubSeq(img, first, n) \in Seq(Parts) /\ Len(SubSeq(img, first, n)) = 1
                 /\ SubSeq(img, first, n)[1] = img[n]
      <4> DEFINE u == SubSeq(img, first, n)
      <4>1. \A i \in first..n : img[i] \in Parts
        BY <3>2, <3>3
      <4>2. /\ u \in Seq(Parts) /\ Len(u) = IF first <= n THEN n - first + 1 ELSE 0
            /\ \A i \in 1..n - first + 1 : u[i] = img[first + i - 1]
        BY <3>2, <4>1, SubSeqProperties
      <4> HIDE DEF u
      <4>3. n - first + 1 = 1 /\ first <= n /\ first + 1 - 1 = n
        BY <3>2, <3>3
      <4>4. Len(u) = 1
        BY <4>2, <4>3
      <4>5. u[1] = img[first + 1 - 1]
        <5>1. 1 \in 1..n - first + 1
          BY <4>3
        <5> QED BY <4>2, <5>1
      <4> QED BY <4>2, <4>3, <4>4, <4>5 DEF u
    <3>4. tag \in Seq(Parts) /\ Len(tag) = 1 /\ tag[1] = img[n]
      BY <3>2, <3>3
    <3> HIDE DEF tag
    <3> DEFINE u == <<img[n]>>
    <3>5. Len(u) = 1 /\ u[1] = img[n] /\ u \in Seq(Parts)
      BY <3>1
    <3> HIDE DEF u
    <3>6. tag = u
      BY <3>4, <3>5, SeqEqual
    <3> QED BY <3>6 DEF u
  <2>3. SubSeq(img, 1, m) \o <<img[m + 1]>> = img
    <3> HIDE DEF m
    <3> QED BY <1>1, <2>1, LastOf
  <2> QED BY <2>1, <2>2, <2>3
<1> HIDE DEF repository, tag
<1>9. splitImageTag(img).repository = repository /\ splitImageTag(img).tag = tag
  BY <1>3
<1> QED BY <1>4, <1>7, <1>8, <1>9 DEF n

\* Whatever the reference: repository and tag make it up again, with a tag, and
\* the repository is all but the tag.
LEMMA ImageParts ==
  ASSUME NEW img, Reference(img)
  PROVE  LET repository == splitImageTag(img).repository
             tag == splitImageTag(img).tag
         IN /\ repository \o <<":">> = SubSeq(Tagged(img), 1, Len(Tagged(img)) - 1)
            /\ (repository \o <<":">>) \o tag = Tagged(img)
            /\ Tagged(Tagged(img)) = Tagged(img)
<1>1. CASE \A k \in 1..Len(img) : ~Separates(img, k)
  <2>1. /\ splitImageTag(img) = [repository |-> img, tag |-> <<"latest">>]
        /\ SubSeq(Tagged(img), 1, Len(Tagged(img)) - 1) = img \o <<":">>
        /\ (img \o <<":">>) \o <<"latest">> = Tagged(img)
        /\ Tagged(Tagged(img)) = Tagged(img)
    BY <1>1, Untagged
  <2>2. splitImageTag(img).repository = img /\ splitImageTag(img).tag = <<"latest">>
    BY <2>1
  <2> QED BY <2>1, <2>2
<1>2. CASE \E k \in 1..Len(img) : Separates(img, k)
  BY <1>2, CutAtTag
<1> QED BY <1>1, <1>2

-----------------------------------------------------------------------------
(* Extraction.                                                               *)

\* A set of indices that is not empty has a first one.
LEMMA FirstOf ==
  ASSUME NEW D, D \subseteq Nat, D # {}
  PROVE  (CHOOSE i \in D : \A j \in D : i <= j) \in D
<1>1. \E x \in D : \A y \in D : ~ (<<y, x>> \in OpToRel(<, Nat))
  BY NatLessThanWellFounded, WFMin
<1>2. PICK x \in D : \A y \in D : ~ (<<y, x>> \in OpToRel(<, Nat))
  BY <1>1
<1>3. \A y \in D : ~(y < x)
  BY <1>2 DEF OpToRel
<1>4. \A y \in D : x <= y
  BY <1>3
<1> QED BY <1>4

FirstDeployment == CHOOSE i \in Deployments(docs) : \A j \in Deployments(docs) : i <= j

FirstContainer == {l \in docs[FirstDeployment].lines : l.n = 1}

\* The values are extracted from the first container of the first Deployment.
LEMMA ExtractedFrom ==
  ASSUME ChartInvariant, pc = "done", Deployments(docs) # {}
  PROVE  /\ FirstDeployment \in Deployments(docs)
         /\ LET image == Lookup(FirstContainer, "container", "image") IN
              image # {} =>
                /\ ExtractDefaults(docs).repository =
                     CHOOSE v \in {splitImageTag(x).repository : x \in image} : TRUE
                /\ ExtractDefaults(docs).tag = CHOOSE v \in {splitImageTag(x).tag : x \in image} : TRUE
         /\ Lookup(FirstContainer, "container", "resources") # {} =>
              ExtractDefaults(docs).resources = extractResources(FirstContainer)
<1>1. Deployments(docs) \subseteq Nat
  <2> DEFINE R == [gvk : [group : STRING, version : STRING, kind : STRING], lines : SUBSET Lines]
  <2>1. docs \in Inputs
    BY DEF ChartInvariant, InputRead, Decoded
  <2>2. docs \in Seq(R)
    BY <2>1, LinesAssumption
  <2> HIDE DEF R
  <2>3. DOMAIN docs = 1..Len(docs) /\ Len(docs) \in Nat
    BY <2>2, LenProperties
  <2> QED BY <2>3 DEF Deployments
<1>2. FirstDeployment \in Deployments(docs)
  BY <1>1, FirstOf DEF FirstDeployment
<1>4. /\ "repository" \in DOMAIN DefaultValues /\ "tag" \in DOMAIN DefaultValues
      /\ "resources" \in DOMAIN DefaultValues
  BY DEF DefaultValues
<1> DEFINE image == Lookup(FirstContainer, "container", "image")
           e == ExtractDefaults(docs)
<1>5. e = [DefaultValues EXCEPT
             !.repository = OneOf({splitImageTag(v).repository : v \in image}, @),
             !.tag = OneOf({splitImageTag(v).tag : v \in image}, @),
             !.resources = IF Lookup(FirstContainer, "container", "resources") = {} THEN @
                           ELSE extractResources(FirstContainer),
             !.replicas = OneOf(NestedInt64(Lookup(docs[FirstDeployment].lines, "spec", "replicas")), @)]
  BY DEF ExtractDefaults, FirstContainer, FirstDeployment
<1> HIDE DEF e, image
<1>6. image # {} => e.repository = CHOOSE v \in {splitImageTag(x).repository : x \in image} : TRUE
  <2>1. e.repository = OneOf({splitImageTag(v).repository : v \in image}, DefaultValues.repository)
    BY <1>4, <1>5
  <2>2. image # {} => {splitImageTag(v).repository : v \in image} # {}
    OBVIOUS
  <2> QED BY <2>1, <2>2 DEF OneOf
<1>7. image # {} => e.tag = CHOOSE v \in {splitImageTag(x).tag : x \in image} : TRUE
  <2>1. e.tag = OneOf({splitImageTag(v).tag : v \in image}, DefaultValues.tag)
    BY <1>4, <1>5
  <2>2. image # {} => {splitImageTag(v).tag : v \in image} # {}
    OBVIOUS
  <2> QED BY <2>1, <2>2 DEF OneOf
<1>8. Lookup(FirstContainer, "container", "resources") # {} => e.resources = extractResources(FirstContainer)
  BY <1>4, <1>5
<1> QED BY <1>2, <1>6, <1>7, <1>8 DEF e, image

\* The image that is extracted is the one that every container has.
LEMMA ExtractedImage ==
  ASSUME ChartInvariant, pc = "done", NEW i \in DOMAIN docs, docs[i].gvk = Deployment,
         NEW l \in docs[i].lines, l.key = "image"
  PROVE  /\ Reference(l.val)
         /\ ExtractDefaults(docs).repository = splitImageTag(l.val).repository
         /\ ExtractDefaults(docs).tag = splitImageTag(l.val).tag
<1> DEFINE d == FirstDeployment
           image == Lookup(FirstContainer, "container", "image")
<1>1. docs \in Inputs /\ i \in Deployments(docs) /\ l \in Lines
  BY InputLines DEF Deployments
<1>2. d \in Deployments(docs)
  BY <1>1, ExtractedFrom
<1>3. Reference(l.val)
  <2>1. \A k \in 1..Len(l.val) :
          l.val[k] = ":" /\ (\A q \in k..Len(l.val) : l.val[q] # "/") => k = Len(l.val) - 1
    BY <1>1, ImagesAssumption
  <2>2. l.val \in Seq(STRING)
    BY <1>1 DEF Lines
  <2> QED BY <2>1, <2>2 DEF Reference, Separates
<1>4. image = {l.val}
  <2>1. PICK m \in docs[d].lines : m.at = "container" /\ m.n = 1 /\ m.key = "image"
    BY <1>1, <1>2, ImagesAssumption
  <2>2. \A x \in docs[d].lines : x.key = "image" => x.val = l.val
    BY <1>1, <1>2, ImagesAssumption
  <2> HIDE DEF d
  <2>3. m \in FirstContainer /\ FirstContainer \subseteq docs[d].lines
    BY <2>1 DEF FirstContainer, d
  <2> QED BY <2>1, <2>2, <2>3 DEF Lookup
<1> HIDE DEF image
<1>5. /\ {splitImageTag(x).repository : x \in image} = {splitImageTag(l.val).repository}
      /\ {splitImageTag(x).tag : x \in image} = {splitImageTag(l.val).tag}
  BY <1>4
<1>6. \A a : (CHOOSE v \in {a} : TRUE) = a
  OBVIOUS
<1>7. /\ ExtractDefaults(docs).repository = CHOOSE v \in {splitImageTag(x).repository : x \in image} : TRUE
      /\ ExtractDefaults(docs).tag = CHOOSE v \in {splitImageTag(x).tag : x \in image} : TRUE
  <2>1. Deployments(docs) # {} /\ image # {}
    BY <1>1, <1>4
  <2> QED BY <2>1, ExtractedFrom DEF image
<1> QED BY <1>3, <1>5, <1>6, <1>7

-----------------------------------------------------------------------------
(* What an installation sets.                                                *)

\* A Deployment, line by line.
LEMMA DeploymentInstalled ==
  ASSUME ChartInvariant, pc = "done", NEW i \in Resources, docs[i].gvk = Deployment, NEW v, NEW r
  PROVE  LET L == stripLabels(docs[i].lines) IN
         /\ i \in DOMAIN docs /\ i \in Deployments(docs) /\ docs \in Inputs
         /\ L \subseteq docs[i].lines /\ docs[i].lines \subseteq Lines
         /\ \A l \in docs[i].lines : l.at # "labels" => l \in L
         /\ Installed(i, v, r) = UNION {PutDeployment(l, v, r) : l \in L}
<1>1. i \in DOMAIN docs /\ i \in Deployments(docs)
  BY DEF Resources, Deployments
<1>2. ~isCRD(docs[i].gvk)
  BY KindsApart DEF Treated
<1> QED BY <1>1, <1>2, InputLines, ResourceInstalled

\* Every image of a Deployment is the one of the values.
LEMMA ImageInstalled ==
  ASSUME ChartInvariant, pc = "done", NEW i \in Resources, docs[i].gvk = Deployment, NEW v, NEW r,
         NEW l \in docs[i].lines, l.key = "image"
  PROVE  Lookup({m \in Installed(i, v, r) : m.n = l.n}, l.at, "image") = {imageRef(v)}
<1> DEFINE L == stripLabels(docs[i].lines)
           I == Installed(i, v, r)
           N == {m \in I : m.n = l.n}
<1>1. /\ i \in Deployments(docs) /\ docs \in Inputs
      /\ L \subseteq docs[i].lines /\ docs[i].lines \subseteq Lines
      /\ l.at # "labels" => l \in L
      /\ I = UNION {PutDeployment(k, v, r) : k \in L}
  BY DeploymentInstalled
<1>2. \A k \in docs[i].lines : k.key = "image" => ~k.first /\ k.at \in {"container", "init"}
  BY <1>1, ImagesAssumption
<1> HIDE DEF L, I
<1>3. ASSUME NEW x \in I, x.at = l.at, x.key = "image" PROVE x.val = imageRef(v)
  <2>1. PICK k \in L : x \in PutDeployment(k, v, r)
    BY <1>1
  <2>2. Beside(x, k) /\ x.val = DeploymentValue(k, v, r)
    BY <1>1, <1>2, <1>3, <2>1, InDeployment
  <2> QED BY <1>1, <1>2, <1>3, <2>2 DEF Beside, DeploymentValue
<1>4. \E x \in I : x.at = l.at /\ x.key = "image" /\ x.n = l.n
  <2>1. PICK t : Valued(l, imageRef(v)) = {t} /\ t.at = l.at /\ t.key = l.key /\ t.n = l.n
    BY <1>1, ValuedIs
  <2>2. l \in L /\ ~l.first /\ l.at # "resources"
    BY <1>1, <1>2
  <2>3. t \in PutDeployment(l, v, r)
    BY <2>1, <2>2 DEF PutDeployment
  <2> QED BY <1>1, <2>1, <2>2, <2>3
<1>5. /\ \A x \in N : x.at = l.at /\ x.key = "image" => x.val = imageRef(v)
      /\ \E x \in N : x.at = l.at /\ x.key = "image"
  BY <1>3, <1>4
<1> HIDE DEF N
<1>6. Lookup(N, l.at, "image") = {imageRef(v)}
  BY <1>5 DEF Lookup
<1> QED BY <1>6 DEF N, I

\* The full reference that is set, or the one that was built with and the tag
\* that is set.
LEMMA ImageSet ==
  ASSUME ChartInvariant, pc = "done", NEW o \in Installs,
         NEW i \in DOMAIN docs, docs[i].gvk = Deployment, NEW l \in docs[i].lines, l.key = "image"
  PROVE  /\ "fullRef" \in DOMAIN o => imageRef(Merged(o)) = o.fullRef
         /\ "tag" \in DOMAIN o =>
              imageRef(Merged(o)) = SubSeq(Tagged(l.val), 1, Len(Tagged(l.val)) - 1) \o o.tag
<1> DEFINE v == Merged(o)
           K == {"fullRef", "repository", "tag"}
<1>1. K \subseteq DOMAIN DefaultValues
  BY DEF DefaultValues
<1>2. /\ valuesYaml = ExtractDefaults(docs)
      /\ \A k \in DOMAIN DefaultValues : v[k] = IF k \in DOMAIN o THEN o[k] ELSE valuesYaml[k]
      /\ \A k \in DOMAIN DefaultValues \ {"repository", "tag", "resources"} :
           k \notin DOMAIN o => v[k] = DefaultValues[k]
  BY MergedAre
<1>3. /\ "fullRef" \in DOMAIN o => o["fullRef"] # <<>>
      /\ "tag" \in DOMAIN o => "repository" \notin DOMAIN o /\ "fullRef" \notin DOMAIN o
  BY InstallsAssumption
<1>4. DefaultValues["fullRef"] = <<>>
  BY DEF DefaultValues
<1> HIDE DEF v
<1>5. ASSUME "fullRef" \in DOMAIN o PROVE imageRef(v) = o.fullRef
  BY <1>1, <1>2, <1>3, <1>5 DEF imageRef, OrElse
<1>6. ASSUME "tag" \in DOMAIN o
      PROVE  imageRef(v) = SubSeq(Tagged(l.val), 1, Len(Tagged(l.val)) - 1) \o o.tag
  <2>1. v["fullRef"] = <<>> /\ v["tag"] = o["tag"] /\ v["repository"] = valuesYaml["repository"]
    BY <1>1, <1>2, <1>3, <1>4, <1>6
  <2>2. v.repository = splitImageTag(l.val).repository
    BY <1>2, <2>1, ExtractedImage
  <2>3. v.repository \o <<":">> = SubSeq(Tagged(l.val), 1, Len(Tagged(l.val)) - 1)
    BY <2>2, ExtractedImage, ImageParts
  <2>4. imageRef(v) = v.repository \o <<":">> \o o.tag
    BY <2>1 DEF imageRef, OrElse
  <2> QED BY <2>3, <2>4
<1> QED BY <1>5, <1>6 DEF v

\* The value of a key that is set and that the generator knows.
LEMMA SetIs ==
  ASSUME ChartInvariant, pc = "done", NEW o \in Installs, NEW k \in DOMAIN DefaultValues, k \in DOMAIN o
  PROVE  Merged(o)[k] = o[k]
  BY MergedAre

\* The pods have the pull secret and no other.
LEMMA PullSecretInstalled ==
  ASSUME ChartInvariant, pc = "done", NEW i \in Resources, docs[i].gvk = Deployment, NEW v, NEW r,
         v.imagePullSecret # <<>>
  PROVE  Lookup(Installed(i, v, r), "pod", "imagePullSecrets") = {v.imagePullSecret}
<1> DEFINE L == stripLabels(docs[i].lines)
           I == Installed(i, v, r)
<1>1. /\ i \in Deployments(docs) /\ i \in DOMAIN docs /\ docs \in Inputs
      /\ L \subseteq docs[i].lines /\ docs[i].lines \subseteq Lines
      /\ \A l \in docs[i].lines : l.at # "labels" => l \in L
      /\ I = UNION {PutDeployment(k, v, r) : k \in L}
  BY DeploymentInstalled
<1>2. \A k \in docs[i].lines : ~(k.at = "pod" /\ k.key = "imagePullSecrets")
  BY <1>1, PodsAssumption
<1>3. PICK l \in docs[i].lines : l.key = "serviceAccountName"
  BY <1>1, PodsAssumption
<1>4. ~l.first /\ l.at = "pod"
  BY <1>1, <1>3, AccountsAssumption
<1> HIDE DEF L, I
<1>5. ASSUME NEW x \in I, x.at = "pod", x.key = "imagePullSecrets" PROVE x.val = v.imagePullSecret
  <2>1. PICK k \in L : x \in PutDeployment(k, v, r)
    BY <1>1
  <2> QED BY <1>1, <1>2, <1>5, <2>1, InDeployment DEF Beside
<1>6. \E x \in I : x.at = "pod" /\ x.key = "imagePullSecrets"
  <2> DEFINE p == Line("pod", l.n, "imagePullSecrets", v.imagePullSecret)
  <2>1. p \in Secret("pod", l.n, "imagePullSecrets", v)
    BY DEF Secret
  <2>2. p.at = "pod" /\ p.key = "imagePullSecrets"
    BY DEF Line
  <2> HIDE DEF p
  <2>3. p \in PutDeployment(l, v, r)
    BY <1>3, <1>4, <2>1 DEF PutDeployment
  <2> QED BY <1>1, <1>4, <2>2, <2>3
<1>7. Lookup(I, "pod", "imagePullSecrets") = {v.imagePullSecret}
  BY <1>5, <1>6 DEF Lookup
<1> QED BY <1>7 DEF I

\* Every container with an environment has the variables.
LEMMA EnvsInstalled ==
  ASSUME ChartInvariant, pc = "done", NEW i \in Resources, docs[i].gvk = Deployment, NEW v, NEW r,
         NEW l \in docs[i].lines, l.key = "env"
  PROVE  Entries("env", l.n, v.extraEnvs) \subseteq Installed(i, v, r)
<1> DEFINE L == stripLabels(docs[i].lines)
           I == Installed(i, v, r)
<1>1. /\ i \in Deployments(docs) /\ docs \in Inputs
      /\ l.at # "labels" => l \in L
      /\ I = UNION {PutDeployment(k, v, r) : k \in L}
  BY DeploymentInstalled
<1>2. ~l.first /\ l.val = <<>> /\ l.at = "container"
  BY <1>1, PodsAssumption
<1> HIDE DEF L, I
<1>3. Entries("env", l.n, v.extraEnvs) \subseteq PutDeployment(l, v, r)
  BY <1>2 DEF PutDeployment
<1>4. l \in L
  BY <1>1, <1>2
<1> QED BY <1>1, <1>3, <1>4 DEF I

\* The ConfigMap has the configuration, and the pull secret and no other.
LEMMA DataInstalled ==
  ASSUME ChartInvariant, pc = "done", NEW i \in Resources, docs[i].gvk = ConfigMap, NEW v, NEW r
  PROVE  /\ Entries("data", 0, v.config) \subseteq Installed(i, v, r)
         /\ v.imagePullSecret # <<>> /\ "imagePullSecret" \notin DOMAIN v.config =>
              Lookup(Installed(i, v, r), "data", "imagePullSecret") = {v.imagePullSecret}
<1> DEFINE L == stripLabels(docs[i].lines)
           I == Installed(i, v, r)
<1>1. i \in DOMAIN docs /\ docs \in Inputs /\ L \subseteq docs[i].lines /\ docs[i].lines \subseteq Lines
  BY InputLines DEF Resources
<1>2. I = (UNION {PutNamespace(k, v, r) : k \in L}) \cup PutData(v)
  BY ResourceInstalled, KindsApart DEF Treated
<1>3. \A k \in docs[i].lines : k.at # "data"
  BY <1>1, ConfigAssumption
<1> HIDE DEF L, I
<1>4. Entries("data", 0, v.config) \subseteq I
  BY <1>2 DEF PutData
<1>5. ASSUME v.imagePullSecret # <<>>, "imagePullSecret" \notin DOMAIN v.config
      PROVE  Lookup(I, "data", "imagePullSecret") = {v.imagePullSecret}
  <2>1. ASSUME NEW x \in I, x.at = "data", x.key = "imagePullSecret" PROVE x.val = v.imagePullSecret
    <3>1. CASE \E k \in L : x \in PutNamespace(k, v, r)
      BY <1>1, <1>3, <2>1, <3>1, InNamespace DEF Beside
    <3>2. CASE x \in Entries("data", 0, v.config)
      BY <1>5, <2>1, <3>2, InEntries
    <3>3. CASE x \in Secret("data", 0, "imagePullSecret", v)
      BY <3>3, InSecret
    <3> QED BY <1>2, <3>1, <3>2, <3>3 DEF PutData
  <2>2. \E x \in I : x.at = "data" /\ x.key = "imagePullSecret"
    <3> DEFINE p == Line("data", 0, "imagePullSecret", v.imagePullSecret)
    <3>1. p \in Secret("data", 0, "imagePullSecret", v)
      BY <1>5 DEF Secret
    <3>2. p.at = "data" /\ p.key = "imagePullSecret"
      BY DEF Line
    <3> HIDE DEF p
    <3> QED BY <1>2, <3>1, <3>2 DEF PutData
  <2> QED BY <2>1, <2>2 DEF Lookup
<1> QED BY <1>4, <1>5 DEF I

\* A ServiceAccount has a name, and with it the annotations.
LEMMA AnnotationsInstalled ==
  ASSUME ChartInvariant, pc = "done", NEW i \in Resources, docs[i].gvk = ServiceAccount, NEW v, NEW r
  PROVE  Entries("annotations", 0, v.annotations) \subseteq Installed(i, v, r)
<1> DEFINE L == stripLabels(docs[i].lines)
           I == Installed(i, v, r)
           names == Lookup(L, "metadata", "name")
<1>1. /\ i \in DOMAIN docs /\ docs \in Inputs
      /\ \A l \in docs[i].lines : l.at # "labels" => l \in L
  BY InputLines DEF Resources
<1>2. I = UNION {PutAccount(l, names, v, r) : l \in L}
  BY AccountPuts
<1>3. \A key \in {"name", "namespace"} : \E l \in docs[i].lines : l.at = "metadata" /\ l.key = key
  BY <1>1, AccountsAssumption
<1>4. PICK l \in L : l.at = "metadata" /\ l.key = "name"
  BY <1>1, <1>3
<1>5. l.val \in names
  BY <1>4 DEF Lookup
<1> HIDE DEF L, I, names
<1>6. Entries("annotations", 0, v.annotations) \subseteq PutAccount(l, names, v, r)
  BY <1>4, <1>5 DEF PutAccount
<1> QED BY <1>2, <1>6 DEF I

\* What an installation sets reaches every object that uses it.
LEMMA DoneHonoured == ChartInvariant => InstallHonoured
<1> SUFFICES ASSUME ChartInvariant, pc = "done", NEW o \in Installs, NEW r \in Releases, NEW i \in Resources
             PROVE  LET g == docs[i].gvk
                        L == Installed(i, Merged(o), r)
                        Sets(k) == k \in DOMAIN o
                    IN /\ Sets("fullRef") /\ g = Deployment =>
                            \A l \in docs[i].lines : l.key = "image" =>
                              Lookup({m \in L : m.n = l.n}, l.at, "image") = {o.fullRef}
                       /\ Sets("tag") /\ g = Deployment =>
                            \A l \in docs[i].lines : l.key = "image" /\ ~Digested(l.val) =>
                              LET image == Tagged(l.val) IN
                                Lookup({m \in L : m.n = l.n}, l.at, "image")
                                  = {SubSeq(image, 1, Len(image) - 1) \o o.tag}
                       /\ Sets("imagePullSecret") /\ g = Deployment =>
                            Lookup(L, "pod", "imagePullSecrets") = {o.imagePullSecret}
                       /\ Sets("imagePullSecret") /\ g = ConfigMap =>
                            Lookup(L, "data", "imagePullSecret") = {o.imagePullSecret}
                       /\ Sets("extraEnvs") /\ g = Deployment =>
                            \A l \in docs[i].lines : l.key = "env" => Entries("env", l.n, o.extraEnvs) \subseteq L
                       /\ Sets("config") /\ g = ConfigMap => Entries("data", 0, o.config) \subseteq L
                       /\ Sets("annotations") /\ g = ServiceAccount =>
                            Entries("annotations", 0, o.annotations) \subseteq L
  BY DEF InstallHonoured
<1> DEFINE v == Merged(o)
           g == docs[i].gvk
           L == Installed(i, v, r)
<1>1. i \in DOMAIN docs
  BY DEF Resources
<1>2. {"imagePullSecret", "extraEnvs", "config", "annotations"} \subseteq DOMAIN DefaultValues
  BY DEF DefaultValues
<1>3. \A k \in {"imagePullSecret", "extraEnvs", "config", "annotations"} : k \in DOMAIN o => v[k] = o[k]
  BY <1>2, SetIs
<1>4. "imagePullSecret" \in DOMAIN o => o["imagePullSecret"] # <<>>
  BY InstallsAssumption
<1>5. "imagePullSecret" \notin DOMAIN v.config
  BY MapsNameNothing DEF NamingKeys
<1>6. ASSUME g = Deployment, NEW l \in docs[i].lines, l.key = "image"
      PROVE  /\ "fullRef" \in DOMAIN o => Lookup({m \in L : m.n = l.n}, l.at, "image") = {o.fullRef}
             /\ "tag" \in DOMAIN o =>
                  Lookup({m \in L : m.n = l.n}, l.at, "image")
                    = {SubSeq(Tagged(l.val), 1, Len(Tagged(l.val)) - 1) \o o.tag}
  <2>1. Lookup({m \in L : m.n = l.n}, l.at, "image") = {imageRef(v)}
    BY <1>6, ImageInstalled
  <2>2. /\ "fullRef" \in DOMAIN o => imageRef(v) = o.fullRef
        /\ "tag" \in DOMAIN o => imageRef(v) = SubSeq(Tagged(l.val), 1, Len(Tagged(l.val)) - 1) \o o.tag
    BY <1>1, <1>6, ImageSet
  <2> HIDE DEF v, L
  <2> QED BY <2>1, <2>2
<1>7. ASSUME g = Deployment, "imagePullSecret" \in DOMAIN o
      PROVE  Lookup(L, "pod", "imagePullSecrets") = {o.imagePullSecret}
  <2>1. v.imagePullSecret = o.imagePullSecret /\ v.imagePullSecret # <<>>
    BY <1>3, <1>4, <1>7
  <2>2. Lookup(L, "pod", "imagePullSecrets") = {v.imagePullSecret}
    BY <1>7, <2>1, PullSecretInstalled
  <2> QED BY <2>1, <2>2
<1>8. ASSUME g = ConfigMap, "imagePullSecret" \in DOMAIN o
      PROVE  Lookup(L, "data", "imagePullSecret") = {o.imagePullSecret}
  <2>1. v.imagePullSecret = o.imagePullSecret /\ v.imagePullSecret # <<>>
    BY <1>3, <1>4, <1>8
  <2>2. Lookup(L, "data", "imagePullSecret") = {v.imagePullSecret}
    BY <1>5, <1>8, <2>1, DataInstalled
  <2> QED BY <2>1, <2>2
<1>9. ASSUME g = Deployment, "extraEnvs" \in DOMAIN o, NEW l \in docs[i].lines, l.key = "env"
      PROVE  Entries("env", l.n, o.extraEnvs) \subseteq L
  <2>1. v.extraEnvs = o.extraEnvs
    BY <1>3, <1>9
  <2>2. Entries("env", l.n, v.extraEnvs) \subseteq L
    BY <1>9, EnvsInstalled
  <2> QED BY <2>1, <2>2
<1>10. ASSUME g = ConfigMap, "config" \in DOMAIN o PROVE Entries("data", 0, o.config) \subseteq L
  <2>1. v.config = o.config
    BY <1>3, <1>10
  <2>2. Entries("data", 0, v.config) \subseteq L
    BY <1>10, DataInstalled
  <2> QED BY <2>1, <2>2
<1>11. ASSUME g = ServiceAccount, "annotations" \in DOMAIN o
       PROVE  Entries("annotations", 0, o.annotations) \subseteq L
  <2>1. v.annotations = o.annotations
    BY <1>3, <1>11
  <2>2. Entries("annotations", 0, v.annotations) \subseteq L
    BY <1>11, AnnotationsInstalled
  <2> QED BY <2>1, <2>2
<1> HIDE DEF v, L
<1> QED BY <1>6, <1>7, <1>8, <1>9, <1>10, <1>11 DEF v, L

\* The images, tags, pull secrets, environments, configuration and annotations
\* that an installation sets are honoured, for any number of containers and
\* whatever the images were called.
THEOREM InstallsHonoured == Spec => []InstallHonoured
  BY DoneHonoured, ChartInvariance, PTL

-----------------------------------------------------------------------------
(* What is installed with the chart's own defaults.                          *)

Defaults(r) == Merged([namespace |-> r.namespace])

\* The values are those that were extracted, but for the namespace.
LEMMA DefaultsAre ==
  ASSUME ChartInvariant, pc = "done", NEW r
  PROVE  LET v == Defaults(r) IN
         /\ v.namespace = r.namespace /\ NamespaceOf(v, r) = r.namespace /\ AccountOf(v, r) = r.name
         /\ v.replicas = DefaultValues.replicas /\ v.imagePullSecret = <<>> /\ v.fullRef = <<>>
         /\ v.annotations = EmptyMap /\ v.config = EmptyMap /\ v.extraEnvs = EmptyMap
         /\ v.repository = ExtractDefaults(docs).repository /\ v.tag = ExtractDefaults(docs).tag
         /\ v.resources = ExtractDefaults(docs).resources
<1> DEFINE o == [namespace |-> r.namespace]
           v == Merged(o)
<1>1. DOMAIN o = {"namespace"} /\ o["namespace"] = r.namespace
  OBVIOUS
<1> HIDE DEF o
<1>2. /\ {"namespace", "replicas", "imagePullSecret", "fullRef", "accountName", "fullnameOverride",
          "annotations", "config", "extraEnvs", "repository", "tag", "resources"} \subseteq DOMAIN DefaultValues
      /\ DefaultValues.imagePullSecret = <<>> /\ DefaultValues.fullRef = <<>>
      /\ DefaultValues.accountName = <<>> /\ DefaultValues.fullnameOverride = <<>>
      /\ DefaultValues.annotations = EmptyMap /\ DefaultValues.config = EmptyMap
      /\ DefaultValues.extraEnvs = EmptyMap
  BY DEF DefaultValues
<1>3. /\ valuesYaml = ExtractDefaults(docs)
      /\ \A k \in DOMAIN DefaultValues : v[k] = IF k \in DOMAIN o THEN o[k] ELSE valuesYaml[k]
      /\ \A k \in DOMAIN DefaultValues \ {"repository", "tag", "resources"} :
           k \notin DOMAIN o => v[k] = DefaultValues[k]
  BY MergedAre
<1> HIDE DEF v
<1>4. v.namespace = r.namespace
  BY <1>1, <1>2, <1>3
<1>5. /\ v.replicas = DefaultValues.replicas /\ v.imagePullSecret = <<>> /\ v.fullRef = <<>>
      /\ v.accountName = <<>> /\ v.fullnameOverride = <<>>
      /\ v.annotations = EmptyMap /\ v.config = EmptyMap /\ v.extraEnvs = EmptyMap
  BY <1>1, <1>2, <1>3
<1>6. /\ v.repository = ExtractDefaults(docs).repository /\ v.tag = ExtractDefaults(docs).tag
      /\ v.resources = ExtractDefaults(docs).resources
  BY <1>1, <1>2, <1>3
<1>7. NamespaceOf(v, r) = r.namespace /\ AccountOf(v, r) = r.name
  BY <1>4, <1>5 DEF NamespaceOf, AccountOf, Fullname, OrElse
<1> QED BY <1>4, <1>5, <1>6, <1>7 DEF Defaults, v, o

\* A line that gets the value it has, and the lines of an empty map.
LEMMA ValuedSame ==
  /\ \A l \in Lines : Valued(l, l.val) = {l}
  /\ \A at, n : Entries(at, n, EmptyMap) = {}
<1>1. ASSUME NEW l \in Lines PROVE Valued(l, l.val) = {l}
  <2>1. [l EXCEPT !.val = l.val] = l
    BY DEF Lines
  <2> QED BY <2>1 DEF Valued
<1>2. \A at, n : Entries(at, n, EmptyMap) = {}
  <2>1. DOMAIN EmptyMap = {}
    BY DEF EmptyMap
  <2> QED BY <2>1 DEF Entries
<1> QED BY <1>1, <1>2

\* Whatever names the release's namespace or account is put back as it was.
LEMMA PutBack ==
  ASSUME ChartInvariant, pc = "done", NEW r, BuiltFor(r), NEW i \in Resources,
         NEW l \in stripLabels(docs[i].lines)
  PROVE  LET v == Defaults(r)
             names == Lookup(stripLabels(docs[i].lines), "metadata", "name")
         IN /\ l \in Lines
            /\ PutNamespace(l, v, r) = {l} /\ PutSubject(l, v, r) = {l}
            /\ PutWebhook(l, v, r) = {l} /\ PutCertificate(l, v, r) = {l}
            /\ docs[i].gvk = ServiceAccount => PutAccount(l, names, v, r) = {l}
<1> DEFINE v == Defaults(r)
           L == stripLabels(docs[i].lines)
           names == Lookup(L, "metadata", "name")
<1>1. L \subseteq docs[i].lines /\ l \in docs[i].lines /\ l \in Lines
  BY InputLines DEF Resources
<1>2. v.namespace = r.namespace /\ NamespaceOf(v, r) = r.namespace /\ AccountOf(v, r) = r.name
  BY DefaultsAre
<1>3. v.annotations = EmptyMap
  BY DefaultsAre
<1>4. \A k \in docs[i].lines :
        /\ NamesNamespace(k) => k.val = r.namespace
        /\ k.at = "subjects" /\ k.key = "name" => k.val = r.name
        /\ docs[i].gvk = ServiceAccount /\ k.at = "metadata" /\ k.key = "name" => k.val = r.name
  BY DEF BuiltFor
<1> HIDE DEF v, L
<1>5. Valued(l, l.val) = {l}
  BY <1>1, ValuedSame
<1>6. PutNamespace(l, v, r) = {l}
  BY <1>1, <1>2, <1>4, <1>5 DEF PutNamespace, NamesNamespace
<1>7. PutSubject(l, v, r) = {l}
  BY <1>1, <1>2, <1>4, <1>5, <1>6 DEF PutSubject
<1>8. PutWebhook(l, v, r) = {l}
  BY <1>1, <1>2, <1>4, <1>5, <1>6 DEF PutWebhook, NamesNamespace
<1>9. PutCertificate(l, v, r) = {l}
  BY <1>1, <1>2, <1>4, <1>5, <1>6 DEF PutCertificate, NamesNamespace
<1>10. ASSUME docs[i].gvk = ServiceAccount PROVE PutAccount(l, names, v, r) = {l}
  <2>1. \A x \in names : x = r.name
    BY <1>1, <1>4, <1>10 DEF Lookup
  <2>2. Entries("annotations", 0, v.annotations) = {}
    BY <1>3, ValuedSame
  <2> HIDE DEF names
  <2> QED BY <1>2, <1>5, <1>6, <2>1, <2>2 DEF PutAccount
<1> QED BY <1>1, <1>6, <1>7, <1>8, <1>9, <1>10 DEF v, L

\* Any resource but a Deployment is installed as kustomize printed it.
LEMMA OthersAsPrinted ==
  ASSUME ChartInvariant, pc = "done", NEW r, BuiltFor(r), NEW i \in Resources, docs[i].gvk # Deployment
  PROVE  Installed(i, Defaults(r), r) = stripLabels(docs[i].lines)
<1> DEFINE v == Defaults(r)
           L == stripLabels(docs[i].lines)
           g == docs[i].gvk
           I == Installed(i, v, r)
           names == Lookup(L, "metadata", "name")
<1>1. ASSUME NEW l \in L
      PROVE  /\ PutNamespace(l, v, r) = {l} /\ PutSubject(l, v, r) = {l}
             /\ PutWebhook(l, v, r) = {l} /\ PutCertificate(l, v, r) = {l}
             /\ g = ServiceAccount => PutAccount(l, names, v, r) = {l}
  BY PutBack
<1>2. PutData(v) = {}
  <2>1. v.config = EmptyMap /\ v.imagePullSecret = <<>>
    BY DefaultsAre
  <2>2. Entries("data", 0, v.config) = {}
    BY <2>1, ValuedSame
  <2> QED BY <2>1, <2>2 DEF PutData, Secret
<1>3. CASE isCRD(g)
  BY <1>3, CRDInstalled
<1>4. CASE ~isCRD(g)
  <2>1. /\ UNION {PutNamespace(l, v, r) : l \in L} = L
        /\ UNION {PutSubject(l, v, r) : l \in L} = L
        /\ UNION {PutWebhook(l, v, r) : l \in L} = L
        /\ UNION {PutCertificate(l, v, r) : l \in L} = L
        /\ g = ServiceAccount => UNION {PutAccount(l, names, v, r) : l \in L} = L
    <3> HIDE DEF v, L, g, names
    <3>1. UNION {PutNamespace(l, v, r) : l \in L} = L
      BY <1>1
    <3>2. UNION {PutSubject(l, v, r) : l \in L} = L
      BY <1>1
    <3>3. UNION {PutWebhook(l, v, r) : l \in L} = L
      BY <1>1
    <3>4. UNION {PutCertificate(l, v, r) : l \in L} = L
      BY <1>1
    <3>5. g = ServiceAccount => UNION {PutAccount(l, names, v, r) : l \in L} = L
      BY <1>1
    <3> QED BY <3>1, <3>2, <3>3, <3>4, <3>5
  <2>2. CASE g = ServiceAccount
    <3>1. I = UNION {PutAccount(l, names, v, r) : l \in L}
      BY <2>2, AccountPuts
    <3> QED BY <2>1, <2>2, <3>1
  <2>3. CASE g = ConfigMap
    <3>1. I = (UNION {PutNamespace(l, v, r) : l \in L}) \cup PutData(v)
      BY <1>4, <2>3, ResourceInstalled
    <3> QED BY <1>2, <2>1, <3>1
  <2>4. CASE g \in RoleBindings
    <3>1. I = UNION {PutSubject(l, v, r) : l \in L}
      BY <1>4, <2>4, ResourceInstalled
    <3> QED BY <2>1, <3>1
  <2>5. CASE g \in Webhooks
    <3>1. I = UNION {PutWebhook(l, v, r) : l \in L}
      BY <1>4, <2>5, ResourceInstalled
    <3> QED BY <2>1, <3>1
  <2>6. CASE g = Certificate
    <3>1. I = UNION {PutCertificate(l, v, r) : l \in L}
      BY <1>4, <2>6, ResourceInstalled
    <3> QED BY <2>1, <3>1
  <2>7. CASE g \notin Treated
    <3>1. I = UNION {PutNamespace(l, v, r) : l \in L}
      BY <1>4, <2>7, ResourceInstalled
    <3> QED BY <2>1, <3>1
  <2> QED BY <2>2, <2>3, <2>4, <2>5, <2>6, <2>7 DEF Treated
<1> QED BY <1>3, <1>4

\* What a line means, by its key.
LEMMA NormalIs ==
  /\ \A l \in Lines : /\ l.key = "image" => Normal(l) = [l EXCEPT !.val = Tagged(l.val)]
                      /\ l.key \notin {"image"} \cup CpuKeys => Normal(l) = l
  /\ \A n, key, val :
       /\ key \in ResourceKeys /\ ~(key \in CpuKeys /\ val # <<>> /\ Head(val) = "number") =>
            Normal(Line("resources", n, key, val)) = Line("resources", n, key, val)
       /\ key \in CpuKeys /\ val # <<>> /\ Head(val) = "number" =>
            Normal(Line("resources", n, key, val)) = Line("resources", n, key, Tail(val))
<1>1. ASSUME NEW l \in Lines, l.key = "image" PROVE Normal(l) = [l EXCEPT !.val = Tagged(l.val)]
  BY <1>1 DEF Normal, CpuKeys
<1>2. ASSUME NEW l \in Lines, l.key \notin {"image"} \cup CpuKeys PROVE Normal(l) = l
  <2>1. Normal(l) = [l EXCEPT !.val = l.val]
    BY <1>2 DEF Normal
  <2>2. [l EXCEPT !.val = l.val] = l
    BY DEF Lines
  <2> QED BY <2>1, <2>2
<1>3. CpuKeys \subseteq ResourceKeys /\ "image" \notin ResourceKeys
  BY DEF CpuKeys, ResourceKeys
<1>4. ASSUME NEW n, NEW key, NEW val, NEW new
      PROVE  [Line("resources", n, key, val) EXCEPT !.val = new] = Line("resources", n, key, new)
  <2> DEFINE t == Line("resources", n, key, val)
  <2>1. Valued(t, new) = {Line("resources", n, key, new)}
    BY ValuedLine
  <2>2. Valued(t, new) = {[t EXCEPT !.val = new]}
    BY DEF Valued
  <2> HIDE DEF t
  <2>3. [t EXCEPT !.val = new] = Line("resources", n, key, new)
    BY <2>1, <2>2
  <2> QED BY <2>3 DEF t
<1>5. ASSUME NEW n, NEW key \in ResourceKeys, NEW val
      PROVE  /\ ~(key \in CpuKeys /\ val # <<>> /\ Head(val) = "number") =>
                  Normal(Line("resources", n, key, val)) = Line("resources", n, key, val)
             /\ key \in CpuKeys /\ val # <<>> /\ Head(val) = "number" =>
                  Normal(Line("resources", n, key, val)) = Line("resources", n, key, Tail(val))
  <2> DEFINE t == Line("resources", n, key, val)
  <2>1. t.key = key /\ t.val = val
    BY DEF Line
  <2>2. \A new : [t EXCEPT !.val = new] = Line("resources", n, key, new)
    BY <1>4
  <2>3. [t EXCEPT !.val = val] = t
    BY <2>2
  <2> HIDE DEF t
  <2>4. ASSUME ~(key \in CpuKeys /\ val # <<>> /\ Head(val) = "number") PROVE Normal(t) = t
    BY <1>3, <2>1, <2>4, <2>3 DEF Normal
  <2>5. ASSUME key \in CpuKeys, val # <<>>, Head(val) = "number"
        PROVE  Normal(t) = [t EXCEPT !.val = Tail(val)]
    BY <1>3, <2>1, <2>5 DEF Normal
  <2> QED BY <2>2, <2>4, <2>5 DEF t
<1> QED BY <1>1, <1>2, <1>3, <1>5

\* A quantity of a container means what is extracted of it.
LEMMA QuantityExtracted ==
  ASSUME ChartInvariant, pc = "done", NEW i \in Deployments(docs), NEW m \in docs[i].lines, m.at = "resources"
  PROVE  /\ m.key \in ResourceKeys
         /\ Normal(Line("resources", m.n, m.key, ExtractDefaults(docs).resources[m.key])) = Normal(m)
         /\ m.val # <<>>
<1> DEFINE d == FirstDeployment
           key == m.key
           L == FirstContainer
           found == Lookup(L, "resources", key)
<1>1. docs \in Inputs /\ m \in Lines
  BY InputLines DEF Deployments
<1>2. d \in Deployments(docs)
  BY ExtractedFrom
<1>3. /\ key \in ResourceKeys /\ ~m.first /\ m.val # <<>>
      /\ Head(m.val) = "number" =>
           key \in CpuKeys /\ Tail(m.val) # <<>> /\ Head(Tail(m.val)) # "number"
  BY <1>1, ResourcesAssumption
<1>4. \A x \in docs[d].lines : x.at = "resources" /\ x.key = key => x.val = m.val
  BY <1>1, <1>2, ResourcesAssumption
<1>5. PICK b \in docs[d].lines : b.key = "resources" /\ b.val = <<>> /\ b.n = 1
  BY <1>1, <1>2, ResourcesAssumption
<1>6. b.at = "container" /\ \E x \in docs[d].lines : x.at = "resources" /\ x.n = 1 /\ x.key = key
  BY <1>1, <1>2, <1>3, <1>5, ResourcesAssumption
<1> HIDE DEF d
<1>7. L = {l \in docs[d].lines : l.n = 1}
  BY DEF FirstContainer, d
<1> HIDE DEF L
<1>8. found = {m.val}
  BY <1>4, <1>6, <1>7 DEF Lookup
<1>9. Lookup(L, "container", "resources") # {}
  BY <1>5, <1>6, <1>7 DEF Lookup
<1> HIDE DEF found
<1>10. ExtractDefaults(docs).resources = extractResources(L)
  BY <1>9, ExtractedFrom DEF L
<1>11. extractResources(L)[key] = IF Head(m.val) # "number" THEN m.val ELSE Tail(m.val)
  <2>1. (CHOOSE q \in found : TRUE) = m.val /\ found # {}
    BY <1>8
  <2>2. extractResources(L)[key] =
          LET q == CHOOSE q \in found : TRUE IN
            IF Head(q) # "number" THEN q ELSE IF key \in CpuKeys THEN Tail(q) ELSE <<>>
    BY <1>3, <2>1 DEF extractResources, found
  <2> QED BY <1>3, <2>1, <2>2
<1>12. m = Line("resources", m.n, key, m.val)
  BY <1>1, <1>3 DEF Lines, Line
<1>13. Normal(Line("resources", m.n, key, extractResources(L)[key])) = Normal(Line("resources", m.n, key, m.val))
  <2> HIDE DEF key
  <2>1. CASE Head(m.val) # "number"
    BY <1>11, <2>1
  <2>2. CASE Head(m.val) = "number"
    <3> DEFINE q == Tail(m.val)
    <3>1. key \in CpuKeys /\ m.val # <<>> /\ Head(q) # "number" /\ extractResources(L)[key] = q
      BY <1>3, <1>11, <2>2
    <3> HIDE DEF q
    <3>2. Normal(Line("resources", m.n, key, q)) = Line("resources", m.n, key, q)
      BY <1>3, <3>1, NormalIs
    <3>3. Normal(Line("resources", m.n, key, m.val)) = Line("resources", m.n, key, q)
      BY <2>2, <3>1, NormalIs DEF q
    <3> QED BY <3>1, <3>2, <3>3
  <2> QED BY <2>1, <2>2
<1> QED BY <1>3, <1>10, <1>12, <1>13

\* The image of the values is the one that was printed, with its tag.
LEMMA ImageBack ==
  ASSUME ChartInvariant, pc = "done", NEW r, NEW i \in DOMAIN docs, docs[i].gvk = Deployment,
         NEW l \in docs[i].lines, l.key = "image"
  PROVE  imageRef(Defaults(r)) = Tagged(l.val) /\ Tagged(Tagged(l.val)) = Tagged(l.val)
<1> DEFINE v == Defaults(r)
<1>1. /\ v.fullRef = <<>> /\ v.repository = ExtractDefaults(docs).repository
      /\ v.tag = ExtractDefaults(docs).tag
  BY DefaultsAre
<1> HIDE DEF v
<1>2. /\ Reference(l.val) /\ v.repository = splitImageTag(l.val).repository
      /\ v.tag = splitImageTag(l.val).tag
  BY <1>1, ExtractedImage
<1>3. imageRef(v) = (v.repository \o <<":">>) \o v.tag
  BY <1>1 DEF imageRef, OrElse
<1> QED BY <1>2, <1>3, ImageParts DEF v

PolicyLine(l) == Line(l.at, l.n, "imagePullPolicy", <<"Always">>)

\* What is installed of each line of a Deployment, with the chart's defaults.
LEMMA DeploymentBack ==
  ASSUME ChartInvariant, pc = "done", NEW r, BuiltFor(r), NEW i \in Resources, docs[i].gvk = Deployment,
         NEW l \in stripLabels(docs[i].lines)
  PROVE  LET v == Defaults(r)
             put == PutDeployment(l, v, r)
         IN /\ l.at = "resources" => put = {}
            /\ l.key = "imagePullPolicy" => put \subseteq {l}
            /\ l.key = "image" => put = Valued(l, Tagged(l.val)) \cup {PolicyLine(l)} /\ l.at # "resources"
            /\ l.key = "resources" /\ l.val = <<>> =>
                 put = {l} \cup Entries("resources", l.n, v.resources) /\ l.at # "resources"
            /\ /\ l.at # "resources" /\ l.key \notin {"image", "imagePullPolicy"}
               /\ ~(l.key = "resources" /\ l.val = <<>>)
               => put = {l}
<1> DEFINE v == Defaults(r)
           put == PutDeployment(l, v, r)
<1>1. l \in docs[i].lines /\ l \in Lines /\ i \in DOMAIN docs /\ i \in Deployments(docs) /\ docs \in Inputs
  BY InputLines DEF Resources, Deployments
<1>2. /\ AccountOf(v, r) = r.name /\ v.imagePullSecret = <<>> /\ v.replicas = DefaultValues.replicas
      /\ v.extraEnvs = EmptyMap
  BY DefaultsAre
<1>3. /\ l.key = "serviceAccountName" => l.val = r.name
      /\ l.key = "replicas" => l.val = DefaultValues.replicas
  BY <1>1 DEF BuiltFor
<1>4. PutNamespace(l, v, r) = {l}
  BY PutBack
<1>5. Valued(l, l.val) = {l} /\ Entries("env", l.n, v.extraEnvs) = {}
  BY <1>1, <1>2, ValuedSame
<1>6. ASSUME l.key = "image"
      PROVE  /\ put = Valued(l, Tagged(l.val)) \cup {PolicyLine(l)} /\ l.at # "resources"
             /\ imageRef(v) = Tagged(l.val)
  <2>1. ~l.first /\ l.at \in {"container", "init"}
    BY <1>1, <1>6, ImagesAssumption
  <2>2. imageRef(v) = Tagged(l.val)
    BY <1>1, <1>6, ImageBack
  <2> HIDE DEF v
  <2> QED BY <1>6, <2>1, <2>2 DEF PutDeployment, PolicyLine
<1>7. l.key = "resources" /\ l.val = <<>> => ~l.first /\ l.at = "container"
  BY <1>1, ResourcesAssumption
<1> HIDE DEF v
<1>8. ASSUME l.key = "resources", l.val = <<>>
      PROVE  put = {l} \cup Entries("resources", l.n, v.resources) /\ l.at # "resources"
  <2>1. Valued(l, <<>>) = {l}
    BY <1>5, <1>8
  <2> QED BY <1>7, <1>8, <2>1 DEF PutDeployment
<1>9. ASSUME l.at # "resources", l.key \notin {"image", "imagePullPolicy"}, ~(l.key = "resources" /\ l.val = <<>>)
      PROVE  put = {l}
  <2>1. Secret("pod", l.n, "imagePullSecrets", v) = {}
    BY <1>2 DEF Secret
  <2>2. CASE l.first
    BY <1>9, <2>2 DEF PutDeployment
  <2>3. CASE ~l.first /\ l.key = "replicas"
    BY <1>2, <1>3, <1>5, <1>9, <2>3 DEF PutDeployment
  <2>4. CASE ~l.first /\ l.key = "serviceAccountName"
    BY <1>2, <1>3, <1>5, <1>9, <2>1, <2>4 DEF PutDeployment
  <2>5. CASE ~l.first /\ l.key = "env" /\ l.val = <<>>
    BY <1>5, <1>9, <2>5 DEF PutDeployment
  <2>6. CASE ~l.first /\ l.key \notin {"replicas", "serviceAccountName"} /\ ~(l.key = "env" /\ l.val = <<>>)
    BY <1>4, <1>9, <2>6 DEF PutDeployment
  <2> QED BY <2>2, <2>3, <2>4, <2>5, <2>6
<1>10. l.at = "resources" => put = {}
  BY DEF PutDeployment
<1>11. l.key = "imagePullPolicy" => put \subseteq {l}
  BY DEF PutDeployment
<1> QED BY <1>6, <1>8, <1>9, <1>10, <1>11 DEF v

\* The quantities that are installed in a block are those that were printed.
LEMMA QuantitiesBack ==
  ASSUME ChartInvariant, pc = "done", NEW r, NEW i \in Deployments(docs),
         NEW b \in docs[i].lines, b.key = "resources", b.val = <<>>
  PROVE  LET E == Entries("resources", b.n, Defaults(r).resources)
             Q == {m \in docs[i].lines : m.at = "resources" /\ m.n = b.n}
         IN {Normal(e) : e \in E} = {Normal(m) : m \in Q}
<1> DEFINE res == Defaults(r).resources
           E == Entries("resources", b.n, res)
           Q == {m \in docs[i].lines : m.at = "resources" /\ m.n = b.n}
<1>1. res = ExtractDefaults(docs).resources
  BY DefaultsAre
<1>2. DOMAIN res = ResourceKeys
  BY <1>1, ExtractedAre
<1>3. \A key \in ResourceKeys : \E m \in Q : m.key = key
  <2>1. docs \in Inputs
    BY InputLines DEF Deployments
  <2> QED BY <2>1, ResourcesAssumption
<1>4. \A m \in Q : /\ m.key \in ResourceKeys
                   /\ Normal(Line("resources", b.n, m.key, res[m.key])) = Normal(m)
  BY <1>1, QuantityExtracted
<1> HIDE DEF res, Q
<1>5. E = {Line("resources", b.n, k, res[k]) : k \in ResourceKeys}
  BY <1>2 DEF Entries
<1> HIDE DEF E
<1>6. ASSUME NEW e \in E PROVE \E m \in Q : Normal(e) = Normal(m)
  BY <1>3, <1>4, <1>5
<1>7. ASSUME NEW m \in Q PROVE \E e \in E : Normal(e) = Normal(m)
  BY <1>4, <1>5
<1>8. {Normal(e) : e \in E} = {Normal(m) : m \in Q}
  BY <1>6, <1>7
<1> QED BY <1>8 DEF E, Q, res

\* A line with the tag of its image means what it meant.
LEMMA ImageMeans ==
  ASSUME NEW l \in Lines, l.key = "image", Tagged(Tagged(l.val)) = Tagged(l.val)
  PROVE  \E t : /\ Valued(l, Tagged(l.val)) = {t} /\ t.at = l.at /\ t.key = l.key
                /\ Normal(t) = Normal(l)
<1> DEFINE t == [l EXCEPT !.val = Tagged(l.val)]
<1>1. t.val = Tagged(l.val) /\ t.at = l.at /\ t.key = l.key
  BY DEF Lines
<1>2. \A val : [t EXCEPT !.val = val] = [l EXCEPT !.val = val]
  BY DEF Lines
<1>3. Valued(l, Tagged(l.val)) = {t}
  BY DEF Valued
<1>4. Normal(l) = [l EXCEPT !.val = Tagged(l.val)]
  BY NormalIs
<1> HIDE DEF t
<1>5. Normal(t) = [t EXCEPT !.val = Tagged(t.val)]
  BY <1>1 DEF Normal, CpuKeys
<1>6. Normal(t) = Normal(l)
  BY <1>1, <1>2, <1>4, <1>5
<1> QED BY <1>1, <1>3, <1>6

\* The lines that mean something.
Kept(m) == m.key # "imagePullPolicy" /\ (m.at = "labels" => m.key # "app.kubernetes.io/managed-by")

\* Each line that is installed means what a line that was printed means.
LEMMA DeploymentMeans ==
  ASSUME ChartInvariant, pc = "done", NEW r, BuiltFor(r), NEW i \in Resources, docs[i].gvk = Deployment,
         NEW x \in Installed(i, Defaults(r), r), Kept(x)
  PROVE  \E m \in docs[i].lines : Kept(m) /\ Normal(x) = Normal(m)
<1> DEFINE v == Defaults(r)
           L == stripLabels(docs[i].lines)
<1>1. PICK l \in L : x \in PutDeployment(l, v, r)
  BY DeploymentInstalled
<1>2. /\ i \in DOMAIN docs /\ i \in Deployments(docs) /\ l \in docs[i].lines /\ l \in Lines
  BY InputLines DEF Resources, Deployments
<1>3. l.at # "resources"
  BY <1>1, DeploymentBack
<1>4. CASE l.key = "image"
  <2>1. x \in Valued(l, Tagged(l.val)) \/ x = PolicyLine(l)
    BY <1>1, <1>4, DeploymentBack
  <2>2. PolicyLine(l).key = "imagePullPolicy"
    BY DEF PolicyLine, Line
  <2>3. x \in Valued(l, Tagged(l.val))
    BY <2>1, <2>2 DEF Kept
  <2>4. Tagged(Tagged(l.val)) = Tagged(l.val)
    BY <1>2, <1>4, ImageBack
  <2>5. x.at = l.at /\ x.key = l.key /\ Normal(x) = Normal(l)
    BY <1>2, <1>4, <2>3, <2>4, ImageMeans
  <2> QED BY <1>2, <2>5 DEF Kept
<1>5. CASE l.key = "imagePullPolicy"
  <2>1. x = l
    BY <1>1, <1>5, DeploymentBack
  <2> QED BY <1>2, <2>1
<1>6. CASE l.key = "resources" /\ l.val = <<>>
  <2> DEFINE E == Entries("resources", l.n, v.resources)
  <2>1. x = l \/ x \in E
    BY <1>1, <1>6, DeploymentBack
  <2>2. ASSUME x \in E PROVE \E m \in docs[i].lines : m.at = "resources" /\ Normal(x) = Normal(m)
    <3> DEFINE Q == {m \in docs[i].lines : m.at = "resources" /\ m.n = l.n}
    <3>1. {Normal(e) : e \in E} = {Normal(m) : m \in Q}
      BY <1>2, <1>6, QuantitiesBack
    <3> HIDE DEF E
    <3>2. \E m \in Q : Normal(x) = Normal(m)
      BY <2>2, <3>1
    <3> QED BY <3>2
  <2>3. \A m \in docs[i].lines : m.at = "resources" => m.key \in ResourceKeys
    BY <1>2, QuantityExtracted
  <2>4. "imagePullPolicy" \notin ResourceKeys
    BY DEF ResourceKeys
  <2> HIDE DEF E
  <2>5. ASSUME x \in E PROVE \E m \in docs[i].lines : Kept(m) /\ Normal(x) = Normal(m)
    BY <2>2, <2>3, <2>4, <2>5 DEF Kept
  <2> QED BY <1>2, <2>1, <2>5
<1>7. CASE l.key \notin {"image", "imagePullPolicy"} /\ ~(l.key = "resources" /\ l.val = <<>>)
  <2>1. x = l
    BY <1>1, <1>3, <1>7, DeploymentBack
  <2> QED BY <1>2, <2>1
<1> QED BY <1>4, <1>5, <1>6, <1>7

\* And each line that was printed means what a line that is installed means.
LEMMA DeploymentMeant ==
  ASSUME ChartInvariant, pc = "done", NEW r, BuiltFor(r), NEW i \in Resources, docs[i].gvk = Deployment,
         NEW l \in docs[i].lines, Kept(l)
  PROVE  \E x \in Installed(i, Defaults(r), r) : Kept(x) /\ Normal(x) = Normal(l)
<1> DEFINE v == Defaults(r)
           L == stripLabels(docs[i].lines)
           I == Installed(i, v, r)
<1>1. /\ i \in DOMAIN docs /\ i \in Deployments(docs) /\ docs \in Inputs /\ docs[i].lines \subseteq Lines
      /\ \A m \in docs[i].lines : m.at # "labels" => m \in L
      /\ \A m \in L : PutDeployment(m, v, r) \subseteq I
  BY DeploymentInstalled
<1>2. l \in L
  BY DEF Kept, stripLabels
<1>3. CASE l.at = "resources"
  <2>1. PICK b \in docs[i].lines : b.key = "resources" /\ b.val = <<>> /\ b.n = l.n
    BY <1>1, <1>3, ResourcesAssumption
  <2>2. b.at = "container"
    BY <1>1, <2>1, ResourcesAssumption
  <2>3. b \in L
    BY <1>1, <2>2
  <2> DEFINE E == Entries("resources", b.n, v.resources)
             Q == {m \in docs[i].lines : m.at = "resources" /\ m.n = b.n}
  <2>4. E \subseteq PutDeployment(b, v, r)
    BY <2>1, <2>3, DeploymentBack
  <2>5. {Normal(e) : e \in E} = {Normal(m) : m \in Q}
    BY <1>1, <2>1, QuantitiesBack
  <2>6. l \in Q
    BY <1>3, <2>1
  <2>7. DOMAIN v.resources = ResourceKeys
    BY DefaultsAre, ExtractedAre
  <2>8. \A e \in E : e.at = "resources" /\ e.key \in ResourceKeys
    BY <2>7, InEntries
  <2> HIDE DEF E, Q
  <2>9. PICK e \in E : Normal(e) = Normal(l)
    BY <2>5, <2>6
  <2>10. Kept(e)
    BY <2>8 DEF Kept, ResourceKeys
  <2> QED BY <1>1, <2>3, <2>4, <2>9, <2>10
<1>4. CASE l.key = "image"
  <2>1. Tagged(Tagged(l.val)) = Tagged(l.val)
    BY <1>1, <1>4, ImageBack
  <2>2. PICK t : /\ Valued(l, Tagged(l.val)) = {t} /\ t.at = l.at /\ t.key = l.key
                 /\ Normal(t) = Normal(l)
    BY <1>1, <1>4, <2>1, ImageMeans
  <2>3. Valued(l, Tagged(l.val)) \subseteq PutDeployment(l, v, r)
    BY <1>2, <1>4, DeploymentBack
  <2>4. t \in I
    BY <1>1, <1>2, <2>2, <2>3
  <2> QED BY <2>2, <2>4 DEF Kept
<1>5. CASE l.at # "resources" /\ l.key # "image"
  <2>1. l.key # "imagePullPolicy"
    BY DEF Kept
  <2>2. l \in PutDeployment(l, v, r)
    BY <1>2, <1>5, <2>1, DeploymentBack
  <2> QED BY <1>1, <1>2, <2>2
<1> QED BY <1>3, <1>4, <1>5

\* The chart installed with its own defaults is what kustomize prints.
LEMMA DoneReproduced == ChartInvariant => DefaultsReproduce
<1> SUFFICES ASSUME ChartInvariant, pc = "done", NEW r \in Releases, BuiltFor(r), NEW i \in Resources
             PROVE  Meaning(Installed(i, Defaults(r), r)) = Meaning(docs[i].lines)
  BY DEF DefaultsReproduce, Defaults
<1> DEFINE I == Installed(i, Defaults(r), r)
           P == docs[i].lines
<1>1. CASE docs[i].gvk # Deployment
  <2>1. I = stripLabels(P)
    BY <1>1, OthersAsPrinted
  <2>2. stripLabels(stripLabels(P)) = stripLabels(P)
    BY DEF stripLabels
  <2> QED BY <2>1, <2>2 DEF Meaning
<1>2. CASE docs[i].gvk = Deployment
  <2>1. \A x \in I : Kept(x) => \E m \in P : Kept(m) /\ Normal(x) = Normal(m)
    BY <1>2, DeploymentMeans
  <2>2. \A m \in P : Kept(m) => \E x \in I : Kept(x) /\ Normal(x) = Normal(m)
    BY <1>2, DeploymentMeant
  <2>3. ASSUME NEW K PROVE Meaning(K) = {Normal(m) : m \in {k \in K : Kept(k)}}
    <3>1. {m \in stripLabels(K) : m.key # "imagePullPolicy"} = {k \in K : Kept(k)}
      BY DEF stripLabels, Kept
    <3> QED BY <3>1 DEF Meaning
  <2> HIDE DEF I, P
  <2>4. {Normal(m) : m \in {k \in I : Kept(k)}} = {Normal(m) : m \in {k \in P : Kept(k)}}
    BY <2>1, <2>2
  <2>5. Meaning(I) = Meaning(P)
    BY <2>3, <2>4
  <2> QED BY <2>5 DEF I, P
<1> QED BY <1>1, <1>2

\* Installed for the release that kustomize was run for, the chart is what
\* kustomize printed: for images with a port, a tag or a digest, for quantities
\* that are text or numbers, for any number of containers and resources.
THEOREM DefaultsReproduced == Spec => []DefaultsReproduce
  BY DoneReproduced, ChartInvariance, PTL

===============================================================================
