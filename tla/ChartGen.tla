-------------------------------- MODULE ChartGen --------------------------------
(***************************************************************************)
(* cmd/chartgen: from the YAML documents of kustomize to a Helm chart, and *)
(* what Helm makes of the chart when it is installed.                      *)
(*                                                                         *)
(* The generator works on lines of marshalled YAML (keys sorted), so a     *)
(* manifest is a set of lines: where the line is (at, and n for the n-th   *)
(* element of a list), its key, its value as a sequence of tokens, and     *)
(* whether it is the first line of a list element ("- key: value"), which  *)
(* the generator's prefix tests do not match.                              *)
(***************************************************************************)
EXTENDS Naturals, Sequences

CONSTANTS
  Inputs,       \* what kustomize may print: sequences of resources
  OldCharts,    \* what the output directory may hold before
  Versions,     \* values of --version
  Lower,        \* strings.ToLower, on the names that occur
  Installs,     \* the values an installation sets
  Releases,     \* [name, namespace] of an installation
  MaxRuns       \* bound: generations

VARIABLES
  docs, version,          \* the input of this generation
  pc,                     \* what run does next
  groups, values, todo,   \* resources by GVK, values, GVKs still to write
  chartYaml, valuesYaml,  \* Chart.yaml (its version), values.yaml
  files,                  \* the other files of the chart
  runs

vars == <<docs, version, pc, groups, values, todo, chartYaml, valuesYaml, files, runs>>

ASSUME BoundAssumption == MaxRuns \in Nat

\* API groups, versions and kinds do not differ in case alone, and no group is
\* called core.
ASSUME NamesAssumption ==
  /\ \A in \in Inputs : \A i \in DOMAIN in :
       /\ in[i].gvk \in [group : STRING, version : STRING, kind : STRING]
       /\ {in[i].gvk.group, in[i].gvk.version, in[i].gvk.kind} \subseteq DOMAIN Lower
  /\ \A a, b \in DOMAIN Lower : Lower[a] = Lower[b] => a = b
  /\ \A a \in DOMAIN Lower : a # "" => Lower[a] # "core"

-----------------------------------------------------------------------------
(* Lines.  A resource is its GVK and its lines.                            *)

Line(at, n, key, val) == [at |-> at, n |-> n, key |-> key, val |-> val, first |-> FALSE]

GVK(g, v, k) == [group |-> g, version |-> v, kind |-> k]

Namespace   == GVK("", "v1", "Namespace")
Deployment  == GVK("apps", "v1", "Deployment")
ServiceAccount == GVK("", "v1", "ServiceAccount")
ConfigMap   == GVK("", "v1", "ConfigMap")
RoleBindings == {GVK("rbac.authorization.k8s.io", "v1", k) : k \in {"RoleBinding", "ClusterRoleBinding"}}
Webhooks ==
  {GVK("admissionregistration.k8s.io", "v1", k) :
     k \in {"MutatingWebhookConfiguration", "ValidatingWebhookConfiguration"}}
Certificate == GVK("cert-manager.io", "v1", "Certificate")

\* Templates, by what they stand for.
tplReleaseNamespace   == <<"{{ default .Release.Namespace .Values.namespace }}">>
tplValuesNamespace    == <<"{{ .Values.namespace }}">>
tplServiceAccountName == <<"{{ default chart.fullname .Values.serviceAccount.name }}">>
tplImage       == <<"{{ chart.imageRef }}">>
tplReplicas    == <<"{{ .Values.replicas }}">>
tplResources   == <<"{{ .Values.resources }}">>
tplPullSecret  == <<"{{ with .Values.imagePullSecret }}">>
tplAnnotations == <<"{{ with .Values.serviceAccount.annotations }}">>
tplExtraEnvs   == <<"{{ range .Values.extraEnvs }}">>
tplData        == <<"{{ .Values.imagePullSecret, range .Values.config }}">>

Templates ==
  {tplReleaseNamespace, tplValuesNamespace, tplServiceAccountName, tplImage, tplReplicas,
   tplResources, tplPullSecret, tplAnnotations, tplExtraEnvs, tplData}

\* kustomize prints no templates, and CRDs are cluster-scoped.
ASSUME InputsAssumption ==
  \A in \in Inputs : \A i \in DOMAIN in : \A l \in in[i].lines :
    /\ l.val \notin Templates
    /\ in[i].gvk.kind = "CustomResourceDefinition" => ~(l.at = "metadata" /\ l.key = "namespace")

\* A line "key: value" that is not templated yet.
Field(l, key) == l.key = key /\ ~l.first /\ l.val \notin Templates

\* Each line of L for which Hit holds becomes the lines New.
Rewrite(L, Hit(_), New(_)) == UNION {IF Hit(l) THEN New(l) ELSE {l} : l \in L}

Valued(l, val) == {[l EXCEPT !.val = val]}

Lookup(L, at, key) == {l.val : l \in {m \in L : m.at = at /\ m.key = key}}

NamesNamespace(l) ==
  \/ l.key \in {"namespace", "cert-manager.io/inject-ca-from"}
  \/ l.at = "dnsNames" /\ l.key = "service"

-----------------------------------------------------------------------------
(* What kustomize prints of resources such as those of config/default, and   *)
(* what an installation sets.                                                *)

Lines == [at : STRING, n : Nat, key : STRING, val : Seq(STRING), first : BOOLEAN]

ASSUME LinesAssumption ==
  \A in \in Inputs :
    in \in Seq([gvk : [group : STRING, version : STRING, kind : STRING], lines : SUBSET Lines])

\* A namespace is named by an object that has one or whose kind is treated
\* apart, and never first in an element of a list (keys are sorted); CA injection
\* is asked for webhooks, and certificates name services.
ASSUME NamespacesAssumption ==
  \A in \in Inputs : \A i \in DOMAIN in : \A l \in in[i].lines :
    /\ l.key = "namespace" =>
         /\ ~l.first /\ in[i].gvk.kind # "CustomResourceDefinition"
         /\ \/ in[i].gvk \in {Deployment, ServiceAccount, ConfigMap, Certificate} \cup RoleBindings \cup Webhooks
            \/ \E m \in in[i].lines : m.at = "metadata" /\ m.key = "namespace" /\ m.val # <<>>
    /\ l.key = "cert-manager.io/inject-ca-from" => in[i].gvk \in Webhooks
    /\ l.at = "dnsNames" /\ l.key = "service" => in[i].gvk = Certificate

\* Pods and role bindings name accounts; where they do, there is one, with a
\* name and a namespace.
ASSUME AccountsAssumption ==
  \A in \in Inputs : \A i \in DOMAIN in :
    /\ \A l \in in[i].lines :
         /\ l.key = "serviceAccountName" => in[i].gvk = Deployment /\ ~l.first /\ l.at = "pod"
         /\ l.at = "subjects" /\ l.key = "name" => in[i].gvk \in RoleBindings /\ ~l.first
         /\ l.key = "serviceAccountName" \/ (l.at = "subjects" /\ l.key = "name") =>
              \E j \in DOMAIN in : in[j].gvk = ServiceAccount
    /\ in[i].gvk = ServiceAccount =>
         \A key \in {"name", "namespace"} :
           \E l \in in[i].lines : l.at = "metadata" /\ l.key = key

Deployments(in) == {i \in DOMAIN in : in[i].gvk = Deployment}

\* A Deployment names its account, and no pull secret of its own; "env:" opens
\* a block.
ASSUME PodsAssumption ==
  \A in \in Inputs : \A i \in Deployments(in) :
    /\ \E l \in in[i].lines : l.key = "serviceAccountName"
    /\ \A l \in in[i].lines :
         /\ l.key = "env" => ~l.first /\ l.val = <<>> /\ l.at = "container"
         /\ ~(l.at = "pod" /\ l.key = "imagePullSecrets")

\* One image for every container; its tag or digest, if any, is what follows the
\* last colon.
ASSUME ImagesAssumption ==
  \A in \in Inputs : \A i, j \in Deployments(in) :
    /\ \E l \in in[i].lines : l.at = "container" /\ l.n = 1 /\ l.key = "image"
    /\ \A l \in in[i].lines : l.key = "image" =>
         /\ ~l.first /\ l.at \in {"container", "init"}
         /\ \A k \in 1..Len(l.val) :
              l.val[k] = ":" /\ (\A q \in k..Len(l.val) : l.val[q] # "/") => k = Len(l.val) - 1
         /\ \A m \in in[j].lines : m.key = "image" => m.val = l.val

-----------------------------------------------------------------------------
(* values.yaml.  Maps are functions; a missing text is the empty sequence. *)

ResourceKeys == {"limits.cpu", "limits.memory", "requests.cpu", "requests.memory"}
CpuKeys      == {"limits.cpu", "requests.cpu"}
EmptyMap     == <<>>

\* A block of resources has all four quantities (a number of memory is none),
\* the same in every container that has one, the first container among them.
ASSUME ResourcesAssumption ==
  \A in \in Inputs : \A i, j \in Deployments(in) : \A l \in in[i].lines :
    /\ l.key = "resources" /\ l.val = <<>> =>
         /\ ~l.first /\ l.at = "container"
         /\ \A key \in ResourceKeys :
              \E m \in in[i].lines : m.at = "resources" /\ m.n = l.n /\ m.key = key
    /\ l.at = "resources" =>
         /\ l.key \in ResourceKeys /\ ~l.first /\ l.val # <<>>
         /\ Head(l.val) = "number" =>
              l.key \in CpuKeys /\ Tail(l.val) # <<>> /\ Head(Tail(l.val)) # "number"
         /\ \E m \in in[i].lines : m.key = "resources" /\ m.val = <<>> /\ m.n = l.n
         /\ \E m \in in[j].lines : m.key = "resources" /\ m.val = <<>> /\ m.n = 1
         /\ \A m \in in[j].lines : m.at = "resources" /\ m.key = l.key => m.val = l.val

\* The controller's ConfigMap has no data of its own.
ASSUME ConfigAssumption ==
  \A in \in Inputs : \A i \in DOMAIN in : in[i].gvk = ConfigMap =>
    \A l \in in[i].lines : l.at # "data" /\ l.key # "data"

\* What is set is not empty; a tag is set alone; no environment variable,
\* annotation or key of the configuration is called like a field the generator
\* looks for.
ASSUME InstallsAssumption ==
  \A o \in Installs :
    /\ \A k \in {"namespace", "fullRef", "imagePullSecret"} \cap DOMAIN o : o[k] # <<>>
    /\ "tag" \in DOMAIN o => "repository" \notin DOMAIN o /\ "fullRef" \notin DOMAIN o
    /\ \A k \in {"config", "extraEnvs", "annotations", "resources"} \cap DOMAIN o :
         DOMAIN o[k] \cap {"namespace", "cert-manager.io/inject-ca-from", "serviceAccountName",
                           "imagePullSecret"} = {}

\* (OmitEmpty: empty fields are left out of values.yaml.)
OmitEmpty ==
  [repository |-> <<"controller">>, tag |-> <<"latest">>, replicas |-> <<"number", "1">>,
   resources |-> [k \in ResourceKeys |-> <<"default">>], leaderElect |-> <<"true">>]

DefaultValues ==
  [repository |-> <<"controller">>, tag |-> <<"latest">>, replicas |-> <<"number", "1">>,
   resources |-> [k \in ResourceKeys |-> <<"default">>], leaderElect |-> <<"true">>,
   namespace |-> <<>>, nameOverride |-> <<>>, fullnameOverride |-> <<>>,
   fullRef |-> <<>>, accountName |-> <<>>, annotations |-> EmptyMap,
   imagePullSecret |-> <<>>, config |-> EmptyMap, extraEnvs |-> EmptyMap,
   upgradeGates |-> EmptyMap]

\* An image reference is cut at its last colon, unless a slash follows (the
\* colon is a port then).  (FirstColon: at the first one.)
Cut(img, i) == [repository |-> SubSeq(img, 1, i - 1), tag |-> SubSeq(img, i + 1, Len(img))]

FirstColon(img) ==
  LET cuts == {i \in 1..Len(img) : img[i] = ":"} IN
    IF cuts = {} THEN [repository |-> img, tag |-> <<"latest">>]
    ELSE Cut(img, CHOOSE i \in cuts : \A j \in cuts : i <= j)

splitImageTag(img) ==
  LET cuts == {i \in 1..Len(img) : img[i] = ":" /\ \A j \in i..Len(img) : img[j] # "/"} IN
    IF cuts = {} THEN [repository |-> img, tag |-> <<"latest">>]
    ELSE Cut(img, CHOOSE i \in cuts : \A j \in cuts : j <= i)

\* A quantity that YAML reads as a number becomes text for cpu and is lost for
\* memory.  (TextOnly: it is lost for both.)
TextOnly(L) ==
  [k \in ResourceKeys |->
     LET found == {q \in Lookup(L, "resources", k) : Head(q) # "number"} IN
       IF found = {} THEN <<>> ELSE CHOOSE q \in found : TRUE]

extractResources(L) ==
  [k \in ResourceKeys |->
     LET found == Lookup(L, "resources", k) IN
       IF found = {} THEN <<>>
       ELSE LET q == CHOOSE q \in found : TRUE IN
              IF Head(q) # "number" THEN q ELSE IF k \in CpuKeys THEN Tail(q) ELSE <<>>]

\* yaml.Unmarshal into a map makes every number a float64.
DecodedNumber == "float64"

\* unstructured.NestedInt64: found, if the number is an int64.
NestedInt64(found) == IF DecodedNumber = "int64" THEN found ELSE {}

OneOf(found, default) == IF found = {} THEN default ELSE CHOOSE v \in found : TRUE

\* The first Deployment, its first container.
ExtractDefaults(in) ==
  IF Deployments(in) = {} THEN DefaultValues ELSE
  LET L == in[CHOOSE i \in Deployments(in) : \A j \in Deployments(in) : i <= j].lines
      C == {l \in L : l.n = 1}
      image == Lookup(C, "container", "image")
      replicas == NestedInt64(Lookup(L, "spec", "replicas"))
  IN [DefaultValues EXCEPT
        !.repository = OneOf({splitImageTag(v).repository : v \in image}, @),
        !.tag = OneOf({splitImageTag(v).tag : v \in image}, @),
        !.resources = IF Lookup(C, "container", "resources") = {} THEN @ ELSE extractResources(C),
        !.replicas = OneOf(replicas, @)]

-----------------------------------------------------------------------------
(* Templating, one operator per function of chart.go.                      *)

stripLabels(L) == {l \in L : l.at = "labels" => l.key # "app.kubernetes.io/managed-by"}

\* At any depth.
replaceNamespace(L) ==
  Rewrite(L, LAMBDA l : Field(l, "namespace"), LAMBDA l : Valued(l, tplReleaseNamespace))

\* Every container gets the one image of the values and is always pulled.
replaceImageField(L) ==
  Rewrite({l \in L : l.key = "imagePullPolicy" => l.first},
          LAMBDA l : Field(l, "image"),
          LAMBDA l : Valued(l, tplImage) \cup {Line(l.at, l.n, "imagePullPolicy", <<"Always">>)})

replaceReplicas(L) ==
  Rewrite(L, LAMBDA l : Field(l, "replicas"), LAMBDA l : Valued(l, tplReplicas))

\* A block, not "resources: {}".
replaceResources(L) ==
  Rewrite({l \in L : l.at # "resources"},
          LAMBDA l : Field(l, "resources") /\ l.val = <<>>, LAMBDA l : Valued(l, tplResources))

replaceServiceAccountName(L) ==
  Rewrite(L, LAMBDA l : Field(l, "serviceAccountName"), LAMBDA l : Valued(l, tplServiceAccountName))

\* After the account's name.
addImagePullSecrets(L) ==
  L \cup {Line("pod", l.n, "imagePullSecrets", tplPullSecret) :
            l \in {m \in L : m.key = "serviceAccountName" /\ ~m.first}}

\* Into every container that has an "env:" line.
injectExtraEnvs(L) ==
  L \cup {Line("env", l.n, "", tplExtraEnvs) :
            l \in {m \in L : m.key = "env" /\ ~m.first /\ m.val = <<>>}}

transformDeployment(L) ==
  injectExtraEnvs(addImagePullSecrets(replaceServiceAccountName(replaceResources(
    replaceReplicas(replaceImageField(replaceNamespace(L)))))))

\* Every "name:" line of the metadata that has the account's name in it.
replaceServiceAccountMetadata(L, name) ==
  Rewrite(L,
    LAMBDA l : l.at \in {"metadata", "labels", "annotations"} /\ l.key = "name" /\ l.val \in name,
    LAMBDA l : Valued(l, tplServiceAccountName) \cup {Line(l.at, l.n, "annotations", tplAnnotations)})

transformServiceAccount(L) ==
  replaceServiceAccountMetadata(replaceNamespace(L), Lookup(L, "metadata", "name"))

\* The data are dropped, for values to come at installation.
injectConfigMapValues(L) ==
  {l \in L : l.at # "data" /\ ~(l.key = "data" /\ l.val = <<>>)} \cup {Line("data", 0, "", tplData)}

transformConfigMap(L) == injectConfigMapValues(replaceNamespace(L))

replaceSubjectsNamespace(L) ==
  Rewrite(L, LAMBDA l : l.at = "subjects" /\ Field(l, "namespace"),
             LAMBDA l : Valued(l, tplReleaseNamespace))

\* Whatever kind the subject is of.  (KeepSubjects: left out.)
KeepSubjects(L) == L

replaceSubjectsServiceAccount(L) ==
  Rewrite(L, LAMBDA l : l.at = "subjects" /\ Field(l, "name"),
             LAMBDA l : Valued(l, tplServiceAccountName))

transformRoleBinding(L) ==
  replaceSubjectsServiceAccount(replaceSubjectsNamespace(replaceNamespace(L)))

\* Also the namespace of the certificate in cert-manager's annotation.
\* (ServiceOnly: not that one.)
ServiceOnly(L) == replaceNamespace(L)

replaceWebhookNamespace(L) ==
  Rewrite(replaceNamespace(L),
          LAMBDA l : l.key = "cert-manager.io/inject-ca-from",
          LAMBDA l : Valued(l, tplValuesNamespace))

\* The second segment of a name of a service; other names stay.
replaceCertificateDNSNames(L) ==
  Rewrite(L, LAMBDA l : l.at = "dnsNames" /\ l.key = "service",
             LAMBDA l : Valued(l, tplValuesNamespace))

transformCertificate(L) == replaceCertificateDNSNames(replaceNamespace(L))

transformGeneric(L) ==
  IF Lookup(L, "metadata", "namespace") \in {{}, {<<>>}} THEN L ELSE replaceNamespace(L)

transformResource(gvk, lines) ==
  LET L == stripLabels(lines) IN
    CASE gvk = Deployment       -> transformDeployment(L)
      [] gvk = ServiceAccount   -> transformServiceAccount(L)
      [] gvk = ConfigMap        -> transformConfigMap(L)
      [] gvk \in RoleBindings   -> transformRoleBinding(L)
      [] gvk \in Webhooks       -> replaceWebhookNamespace(L)
      [] gvk = Certificate      -> transformCertificate(L)
      [] OTHER                  -> transformGeneric(L)

-----------------------------------------------------------------------------
(* run.                                                                    *)

\* (KindOnly: named after the kind alone.)
KindOnly(gvk) == <<Lower[gvk.kind]>>

gvkToFilename(gvk) ==
  <<IF gvk.group = "" THEN "core" ELSE Lower[gvk.group], Lower[gvk.version], Lower[gvk.kind]>>

isCRD(gvk) ==
  gvk.group = "apiextensions.k8s.io" /\ gvk.kind = "CustomResourceDefinition"

FileOf(gvk) ==
  [dir |-> IF isCRD(gvk) THEN "crds" ELSE "templates", name |-> gvkToFilename(gvk)]

\* The resources of each GVK, in the order they came in.
groupByGVK(in) ==
  [g \in {in[i].gvk : i \in DOMAIN in} \ {Namespace} |-> {i \in DOMAIN in : in[i].gvk = g}]

renderGroup(gvk, members) == [i \in members |-> transformResource(gvk, docs[i].lines)]

\* crds/ is not templated by Helm.
renderPlainGroup(members) ==
  [i \in members |-> transformGeneric(stripLabels(docs[i].lines))]

Helpers == [dir |-> "templates", name |-> <<"_helpers.tpl">>]
Schema  == [dir |-> "", name |-> <<"values.schema.json">>]

NoFiles == [f \in {} |-> {}]

WriteFile(f, content) ==
  files' = [g \in DOMAIN files \cup {f} |-> IF g = f THEN content ELSE files[g]]

\* make helm: the chart's directory is removed, the generator starts.
MakeHelm ==
  /\ pc \in {"idle", "done", "failed"} /\ runs < MaxRuns
  /\ runs' = runs + 1
  /\ docs' \in Inputs /\ version' \in Versions
  /\ pc' = "decode"
  /\ chartYaml' = "" /\ valuesYaml' = EmptyMap /\ files' = NoFiles
  /\ UNCHANGED <<groups, values, todo>>

Decode ==
  /\ pc = "decode"
  /\ groups' = groupByGVK(docs) /\ todo' = DOMAIN groups'
  /\ values' = ExtractDefaults(docs)
  /\ pc' = "chart"
  /\ UNCHANGED <<docs, version, chartYaml, valuesYaml, files, runs>>

\* Chart.yaml is only written if missing.
WriteChartYAML ==
  /\ pc = "chart"
  /\ chartYaml' = IF chartYaml = "" THEN version ELSE chartYaml
  /\ pc' = "helpers"
  /\ UNCHANGED <<docs, version, groups, values, todo, valuesYaml, files, runs>>

WriteHelpersTpl ==
  /\ pc = "helpers"
  /\ WriteFile(Helpers, EmptyMap)
  /\ pc' = "values"
  /\ UNCHANGED <<docs, version, groups, values, todo, chartYaml, valuesYaml, runs>>

WriteValuesYAML ==
  /\ pc = "values"
  /\ valuesYaml' = values
  /\ pc' = "schema"
  /\ UNCHANGED <<docs, version, groups, values, todo, chartYaml, files, runs>>

WriteValuesSchema ==
  /\ pc = "schema"
  /\ WriteFile(Schema, EmptyMap)
  /\ pc' = "groups"
  /\ UNCHANGED <<docs, version, groups, values, todo, chartYaml, valuesYaml, runs>>

\* The groups are a Go map: any order.
WriteGroup ==
  /\ pc = "groups"
  /\ \E g \in todo :
       /\ todo' = todo \ {g}
       /\ WriteFile(FileOf(g), IF isCRD(g) THEN renderPlainGroup(groups[g])
                                           ELSE renderGroup(g, groups[g]))
  /\ UNCHANGED <<docs, version, pc, groups, values, chartYaml, valuesYaml, runs>>

Finish ==
  /\ pc = "groups" /\ todo = {}
  /\ pc' = "done"
  /\ UNCHANGED <<docs, version, groups, values, todo, chartYaml, valuesYaml, files, runs>>

\* A document that is no YAML, or a directory or file that cannot be written.
StepFails ==
  /\ pc \in {"decode", "chart", "helpers", "values", "schema", "groups"}
  /\ pc' = "failed"
  /\ UNCHANGED <<docs, version, groups, values, todo, chartYaml, valuesYaml, files, runs>>

Init ==
  /\ docs = <<>> /\ version = "" /\ pc = "idle"
  /\ groups = EmptyMap /\ values = EmptyMap /\ todo = {}
  /\ chartYaml \in {""} \cup Versions /\ valuesYaml = EmptyMap
  /\ files \in OldCharts
  /\ runs = 0

Next ==
  \/ MakeHelm \/ Decode
  \/ WriteChartYAML \/ WriteHelpersTpl \/ WriteValuesYAML \/ WriteValuesSchema
  \/ WriteGroup \/ Finish \/ StepFails

Spec == Init /\ [][Next]_vars

-----------------------------------------------------------------------------
(* Helm.                                                                   *)

\* The values an installation sets, over values.yaml.
Merged(o) == [k \in DOMAIN valuesYaml |-> IF k \in DOMAIN o THEN o[k] ELSE valuesYaml[k]]

OrElse(val, default) == IF val = <<>> THEN default ELSE val

imageRef(v) == OrElse(v.fullRef, v.repository \o <<":">> \o v.tag)

Fullname(v, r) == OrElse(v.fullnameOverride, r.name)

\* The lines of a map under "at".
Entries(at, n, map) == {Line(at, n, k, map[k]) : k \in DOMAIN map}

Rendered(l, v, r) ==
  CASE l.val = tplReleaseNamespace   -> Valued(l, OrElse(v.namespace, r.namespace))
    [] l.val = tplValuesNamespace    -> Valued(l, v.namespace)
    [] l.val = tplServiceAccountName -> Valued(l, OrElse(v.accountName, Fullname(v, r)))
    [] l.val = tplImage              -> Valued(l, imageRef(v))
    [] l.val = tplReplicas           -> Valued(l, v.replicas)
    [] l.val = tplResources          -> Valued(l, <<>>) \cup Entries("resources", l.n, v.resources)
    [] l.val = tplPullSecret         -> IF v.imagePullSecret = <<>> THEN {}
                                        ELSE Valued(l, v.imagePullSecret)
    [] l.val = tplAnnotations        -> Entries("annotations", 0, v.annotations)
    [] l.val = tplExtraEnvs          -> Entries("env", l.n, v.extraEnvs)
    [] l.val = tplData               -> Entries("data", 0, v.config) \cup
                                        (IF v.imagePullSecret = <<>> THEN {}
                                         ELSE {Line("data", 0, "imagePullSecret", v.imagePullSecret)})
    [] OTHER                         -> {l}

\* The values a template refers to: with missingkey=error they must exist.
Refs(tpl) ==
  CASE tpl = tplReleaseNamespace   -> {"namespace"}
    [] tpl = tplValuesNamespace    -> {"namespace"}
    [] tpl = tplServiceAccountName -> {"accountName", "fullnameOverride"}
    [] tpl = tplImage              -> {"fullRef", "repository", "tag"}
    [] tpl = tplReplicas           -> {"replicas"}
    [] tpl = tplResources          -> {"resources"}
    [] tpl = tplPullSecret         -> {"imagePullSecret"}
    [] tpl = tplAnnotations        -> {"annotations"}
    [] tpl = tplExtraEnvs          -> {"extraEnvs"}
    [] tpl = tplData               -> {"imagePullSecret", "config"}

\* The manifests of the chart, by the input they come from; and installed.
Resources == {i \in DOMAIN docs : docs[i].gvk # Namespace}

Manifest(i) == files[FileOf(docs[i].gvk)][i]

Installed(i, v, r) ==
  IF isCRD(docs[i].gvk) THEN Manifest(i) ELSE UNION {Rendered(l, v, r) : l \in Manifest(i)}

-----------------------------------------------------------------------------
(* Properties of a chart that has been generated.                          *)

\* The chart is that of this input and this version and of nothing else: every
\* document but the Namespaces is in the file of its GVK as it was rendered, no
\* file of an older chart or of a generation that failed is left, no group
\* overwrites another, in whatever order the groups are written (chartgen.go:124-148).
ChartIsComplete ==
  pc = "done" =>
    /\ chartYaml = version /\ valuesYaml = ExtractDefaults(docs)
    /\ DOMAIN files = {Helpers, Schema} \cup {FileOf(docs[i].gvk) : i \in Resources}
    /\ \A i \in Resources :
         LET g == docs[i].gvk IN
           /\ DOMAIN files[FileOf(g)] = {j \in Resources : docs[j].gvk = g}
           /\ Manifest(i) = IF isCRD(g) THEN transformGeneric(stripLabels(docs[i].lines))
                                        ELSE transformResource(g, docs[i].lines)

\* The ODH Operator renders with missingkey=error: every value that a template
\* refers to is in values.yaml, even when empty (values.go:46-49).  crds/, which
\* Helm does not render, holds no template.
Renderable ==
  pc = "done" =>
    \A i \in Resources : \A l \in Manifest(i) : l.val \in Templates =>
      ~isCRD(docs[i].gvk) /\ Refs(l.val) \subseteq DOMAIN valuesYaml

\* Everything is installed in the one namespace the ODH Operator injects: no
\* metadata, subject, webhook, CA injection or certificate still names the one
\* kustomize was run with (chart.go:296-310, 235-269, 523-549).
OneNamespace ==
  pc = "done" =>
    \A o \in Installs, r \in Releases : "namespace" \in DOMAIN o =>
      \A i \in Resources : \A l \in Installed(i, Merged(o), r) :
        NamesNamespace(l) => l.val = o.namespace

\* The account pods run as and the subjects of the role bindings are a
\* ServiceAccount of the release, in its namespace, whatever the release, the
\* account and the namespace are called (chart.go:386-400, 425-521).
AccountsAgree ==
  pc = "done" =>
    \A o \in Installs, r \in Releases : LET v == Merged(o) IN
      \A i \in Resources : \A l \in Installed(i, v, r) :
        l.key = "serviceAccountName" \/ (l.at = "subjects" /\ l.key = "name") =>
          \E j \in Resources :
            /\ docs[j].gvk = ServiceAccount
            /\ Lookup(Installed(j, v, r), "metadata", "name") = {l.val}
            /\ l.at = "subjects" =>
                 \A m \in Installed(i, v, r) : m.at = "subjects" /\ m.n = l.n /\ m.key = "namespace" =>
                   Lookup(Installed(j, v, r), "metadata", "namespace") = {m.val}

\* A reference without a tag or digest after its last path component means latest.
Tagged(img) ==
  IF \E i \in 1..Len(img) : img[i] = ":" /\ \A j \in i..Len(img) : img[j] # "/"
    THEN img ELSE img \o <<":", "latest">>

Digested(img) == \E i \in DOMAIN img : img[i] = "@sha256"

\* What a line says, whether it was generated or printed by kustomize.
Normal(l) ==
  [l EXCEPT !.val =
     CASE l.key = "image" -> Tagged(@)
       [] l.key \in CpuKeys /\ @ # <<>> /\ Head(@) = "number" -> Tail(@)
       [] OTHER -> @]

Meaning(L) ==
  {Normal(l) : l \in {m \in stripLabels(L) : m.key # "imagePullPolicy"}}

\* kustomize was run for this release: its namespace, its name for the account,
\* and as many replicas as values.yaml will say (see ReplicasExtracted).
BuiltFor(r) ==
  \A i \in Resources : \A l \in docs[i].lines :
    /\ NamesNamespace(l) => l.val = r.namespace
    /\ \/ l.key = "serviceAccountName"
       \/ l.at = "subjects" /\ l.key = "name"
       \/ docs[i].gvk = ServiceAccount /\ l.at = "metadata" /\ l.key = "name"
       => l.val = r.name
    /\ docs[i].gvk = Deployment /\ l.key = "replicas" => l.val = DefaultValues.replicas

\* Installed with its own defaults, into the namespace and under the name it was
\* built with, the chart is what kustomize prints: templating and the extraction
\* of defaults undo each other, for images with a port, a tag or a digest, for
\* quantities that are text or numbers (values.go:155-239, chart.go:312-384).
DefaultsReproduce ==
  pc = "done" =>
    \A r \in Releases : BuiltFor(r) =>
      \A i \in Resources :
        Meaning(Installed(i, Merged([namespace |-> r.namespace]), r)) = Meaning(docs[i].lines)

\* What an installation sets reaches every object that uses it: the image every
\* container; a tag alone that of the image that was built with (a registry port
\* is no tag, a digest cannot be replaced by one); the pull secret the pods and
\* the controller's ConfigMap; extraEnvs each container with an environment;
\* config the ConfigMap; annotations the ServiceAccount (chart.go:116-173,
\* 402-461, 551-633).
InstallHonoured ==
  pc = "done" =>
    \A o \in Installs, r \in Releases : \A i \in Resources :
      LET g == docs[i].gvk
          L == Installed(i, Merged(o), r)
          Sets(k) == k \in DOMAIN o
      IN /\ Sets("fullRef") /\ g = Deployment =>
              \A l \in docs[i].lines : l.key = "image" =>
                Lookup({m \in L : m.n = l.n}, l.at, "image") = {o.fullRef}
         /\ Sets("tag") /\ g = Deployment =>
              \A l \in docs[i].lines : l.key = "image" /\ ~Digested(l.val) =>
                LET image == Tagged(l.val) IN
                  Lookup({m \in L : m.n = l.n}, l.at, "image")
                    = {SubSeq(image, 1, Len(image) - 1) \o o.tag}
         /\ Sets("imagePullSecret") /\ g = Deployment =>
              Lookup(L, "pod", "imagePullSecrets") = {o.imagePullSecret}
         /\ Sets("imagePullSecret") /\ g = ConfigMap =>
              Lookup(L, "data", "imagePullSecret") = {o.imagePullSecret}
         /\ Sets("extraEnvs") /\ g = Deployment =>
              \A l \in docs[i].lines : l.key = "env" => Entries("env", l.n, o.extraEnvs) \subseteq L
         /\ Sets("config") /\ g = ConfigMap => Entries("data", 0, o.config) \subseteq L
         /\ Sets("annotations") /\ g = ServiceAccount =>
              Entries("annotations", 0, o.annotations) \subseteq L

\* "ExtractDefaults extracts default values from the kustomize resources,
\* primarily from the Deployment spec" (values.go:155-156): also its replicas.
ReplicasExtracted ==
  pc = "done" =>
    \A i \in Resources : docs[i].gvk = Deployment =>
      \A n \in Lookup(docs[i].lines, "spec", "replicas") : valuesYaml.replicas = n

=============================================================================
