--------------------------- MODULE ChartLinesProofs ---------------------------
(* The passes of the generator work line by line: what becomes of each line  *)
(* of a resource in the chart, and of each line of the chart when it is      *)
(* installed.                                                                *)
EXTENDS ChartGenProofs

\* Each pass over the lines of several parts is the pass over each part.
LEMMA PartByPart ==
  ASSUME NEW S
  PROVE  /\ replaceNamespace(UNION S) = UNION {replaceNamespace(s) : s \in S}
         /\ replaceImageField(UNION S) = UNION {replaceImageField(s) : s \in S}
         /\ replaceReplicas(UNION S) = UNION {replaceReplicas(s) : s \in S}
         /\ replaceResources(UNION S) = UNION {replaceResources(s) : s \in S}
         /\ replaceServiceAccountName(UNION S) = UNION {replaceServiceAccountName(s) : s \in S}
         /\ addImagePullSecrets(UNION S) = UNION {addImagePullSecrets(s) : s \in S}
         /\ injectExtraEnvs(UNION S) = UNION {injectExtraEnvs(s) : s \in S}
         /\ replaceSubjectsNamespace(UNION S) = UNION {replaceSubjectsNamespace(s) : s \in S}
         /\ replaceSubjectsServiceAccount(UNION S) = UNION {replaceSubjectsServiceAccount(s) : s \in S}
<1>1. replaceNamespace(UNION S) = UNION {replaceNamespace(s) : s \in S}
  BY DEF replaceNamespace, Rewrite
<1>2. replaceImageField(UNION S) = UNION {replaceImageField(s) : s \in S}
  BY DEF replaceImageField, Rewrite
<1>3. replaceReplicas(UNION S) = UNION {replaceReplicas(s) : s \in S}
  BY DEF replaceReplicas, Rewrite
<1>4. replaceResources(UNION S) = UNION {replaceResources(s) : s \in S}
  BY DEF replaceResources, Rewrite
<1>5. replaceServiceAccountName(UNION S) = UNION {replaceServiceAccountName(s) : s \in S}
  BY DEF replaceServiceAccountName, Rewrite
<1>6. addImagePullSecrets(UNION S) = UNION {addImagePullSecrets(s) : s \in S}
  BY DEF addImagePullSecrets
<1>7. injectExtraEnvs(UNION S) = UNION {injectExtraEnvs(s) : s \in S}
  <2> DEFINE EnvLine(l) == Line("env", l.n, "", tplExtraEnvs)
             OpensEnv(m) == m.key = "env" /\ ~m.first /\ m.val = <<>>
  <2>1. \A L : injectExtraEnvs(L) = L \cup {EnvLine(l) : l \in {m \in L : OpensEnv(m)}}
    BY DEF injectExtraEnvs
  <2> HIDE DEF EnvLine, OpensEnv
  <2> QED BY <2>1
<1>8. replaceSubjectsNamespace(UNION S) = UNION {replaceSubjectsNamespace(s) : s \in S}
  BY DEF replaceSubjectsNamespace, Rewrite
<1>9. replaceSubjectsServiceAccount(UNION S) = UNION {replaceSubjectsServiceAccount(s) : s \in S}
  BY DEF replaceSubjectsServiceAccount, Rewrite
<1> QED BY <1>1, <1>2, <1>3, <1>4, <1>5, <1>6, <1>7, <1>8, <1>9

\* What a pass makes of a single line.
LEMMA OnLine ==
  ASSUME NEW m
  PROVE  /\ replaceNamespace({m}) =
              IF Field(m, "namespace") THEN Valued(m, tplReleaseNamespace) ELSE {m}
         /\ replaceImageField({m}) =
              IF m.key = "imagePullPolicy" /\ ~m.first THEN {}
              ELSE IF Field(m, "image")
                THEN Valued(m, tplImage) \cup {Line(m.at, m.n, "imagePullPolicy", <<"Always">>)}
              ELSE {m}
         /\ replaceReplicas({m}) =
              IF Field(m, "replicas") THEN Valued(m, tplReplicas) ELSE {m}
         /\ replaceResources({m}) =
              IF m.at = "resources" THEN {}
              ELSE IF Field(m, "resources") /\ m.val = <<>> THEN Valued(m, tplResources)
              ELSE {m}
         /\ replaceServiceAccountName({m}) =
              IF Field(m, "serviceAccountName") THEN Valued(m, tplServiceAccountName) ELSE {m}
         /\ addImagePullSecrets({m}) =
              IF m.key = "serviceAccountName" /\ ~m.first
                THEN {m, Line("pod", m.n, "imagePullSecrets", tplPullSecret)} ELSE {m}
         /\ injectExtraEnvs({m}) =
              IF m.key = "env" /\ ~m.first /\ m.val = <<>>
                THEN {m, Line("env", m.n, "", tplExtraEnvs)} ELSE {m}
         /\ replaceSubjectsNamespace({m}) =
              IF m.at = "subjects" /\ Field(m, "namespace")
                THEN Valued(m, tplReleaseNamespace) ELSE {m}
         /\ replaceSubjectsServiceAccount({m}) =
              IF m.at = "subjects" /\ Field(m, "name")
                THEN Valued(m, tplServiceAccountName) ELSE {m}
<1>1. replaceNamespace({m}) =
        IF Field(m, "namespace") THEN Valued(m, tplReleaseNamespace) ELSE {m}
  BY DEF replaceNamespace, Rewrite
<1>2. replaceImageField({m}) =
        IF m.key = "imagePullPolicy" /\ ~m.first THEN {}
        ELSE IF Field(m, "image")
          THEN Valued(m, tplImage) \cup {Line(m.at, m.n, "imagePullPolicy", <<"Always">>)}
        ELSE {m}
  BY DEF replaceImageField, Rewrite
<1>3. replaceReplicas({m}) =
        IF Field(m, "replicas") THEN Valued(m, tplReplicas) ELSE {m}
  BY DEF replaceReplicas, Rewrite
<1>4. replaceResources({m}) =
        IF m.at = "resources" THEN {}
        ELSE IF Field(m, "resources") /\ m.val = <<>> THEN Valued(m, tplResources)
        ELSE {m}
  BY DEF replaceResources, Rewrite
<1>5. replaceServiceAccountName({m}) =
        IF Field(m, "serviceAccountName") THEN Valued(m, tplServiceAccountName) ELSE {m}
  BY DEF replaceServiceAccountName, Rewrite
<1>6. addImagePullSecrets({m}) =
        IF m.key = "serviceAccountName" /\ ~m.first
          THEN {m, Line("pod", m.n, "imagePullSecrets", tplPullSecret)} ELSE {m}
  BY DEF addImagePullSecrets
<1>7. injectExtraEnvs({m}) =
        IF m.key = "env" /\ ~m.first /\ m.val = <<>>
          THEN {m, Line("env", m.n, "", tplExtraEnvs)} ELSE {m}
  <2> DEFINE EnvLine(l) == Line("env", l.n, "", tplExtraEnvs)
  <2>1. injectExtraEnvs({m}) =
          {m} \cup {EnvLine(l) : l \in {k \in {m} : k.key = "env" /\ ~k.first /\ k.val = <<>>}}
    BY DEF injectExtraEnvs
  <2> HIDE DEF EnvLine
  <2>2. injectExtraEnvs({m}) =
          IF m.key = "env" /\ ~m.first /\ m.val = <<>> THEN {m, EnvLine(m)} ELSE {m}
    BY <2>1
  <2> QED BY <2>2 DEF EnvLine
<1>8. replaceSubjectsNamespace({m}) =
        IF m.at = "subjects" /\ Field(m, "namespace")
          THEN Valued(m, tplReleaseNamespace) ELSE {m}
  BY DEF replaceSubjectsNamespace, Rewrite
<1>9. replaceSubjectsServiceAccount({m}) =
        IF m.at = "subjects" /\ Field(m, "name")
          THEN Valued(m, tplServiceAccountName) ELSE {m}
  BY DEF replaceSubjectsServiceAccount, Rewrite
<1> QED BY <1>1, <1>2, <1>3, <1>4, <1>5, <1>6, <1>7, <1>8, <1>9

-----------------------------------------------------------------------------
(* What becomes of a line that kustomize printed, in the chart.              *)

Plain == {l \in Lines : l.val \notin Templates}

NamespaceLine(l) ==
  IF l.key = "namespace" /\ ~l.first THEN Valued(l, tplReleaseNamespace) ELSE {l}

DeploymentLine(l) ==
  IF l.at = "resources" \/ (l.key = "imagePullPolicy" /\ ~l.first) THEN {}
  ELSE IF l.first THEN {l}
  ELSE IF l.key = "image"
    THEN Valued(l, tplImage) \cup {Line(l.at, l.n, "imagePullPolicy", <<"Always">>)}
  ELSE IF l.key = "replicas" THEN Valued(l, tplReplicas)
  ELSE IF l.key = "resources" /\ l.val = <<>> THEN Valued(l, tplResources)
  ELSE IF l.key = "serviceAccountName"
    THEN Valued(l, tplServiceAccountName) \cup {Line("pod", l.n, "imagePullSecrets", tplPullSecret)}
  ELSE IF l.key = "env" /\ l.val = <<>>
    THEN {l, Line("env", l.n, "", tplExtraEnvs)}
  ELSE NamespaceLine(l)

\* A line is what it is made of.
LEMMA LineIs ==
  ASSUME NEW at, NEW n, NEW key, NEW val
  PROVE  /\ Line(at, n, key, val).at = at /\ Line(at, n, key, val).n = n
         /\ Line(at, n, key, val).key = key /\ Line(at, n, key, val).val = val
         /\ Line(at, n, key, val).first = FALSE
  BY DEF Line

\* A line with another value is the same line otherwise.
LEMMA ValuedIs ==
  ASSUME NEW l \in Lines, NEW val
  PROVE  \E m : /\ Valued(l, val) = {m} /\ m.val = val
               /\ m.at = l.at /\ m.n = l.n /\ m.key = l.key /\ m.first = l.first
<1> DEFINE t == [l EXCEPT !.val = val]
<1>1. t.val = val /\ t.at = l.at /\ t.n = l.n /\ t.key = l.key /\ t.first = l.first
  BY DEF Lines
<1>2. Valued(l, val) = {t}
  BY DEF Valued
<1> HIDE DEF t
<1> QED BY <1>1, <1>2

\* The passes over two lines.
LEMMA OnTwoLines ==
  ASSUME NEW a, NEW b
  PROVE  /\ replaceReplicas({a, b}) = replaceReplicas({a}) \cup replaceReplicas({b})
         /\ replaceResources({a, b}) = replaceResources({a}) \cup replaceResources({b})
         /\ replaceServiceAccountName({a, b}) =
              replaceServiceAccountName({a}) \cup replaceServiceAccountName({b})
         /\ addImagePullSecrets({a, b}) = addImagePullSecrets({a}) \cup addImagePullSecrets({b})
         /\ injectExtraEnvs({a, b}) = injectExtraEnvs({a}) \cup injectExtraEnvs({b})
<1> DEFINE S == {{a}, {b}}
<1>1. UNION S = {a, b}
  OBVIOUS
<1> HIDE DEF S
<1>2. /\ replaceReplicas({a, b}) = UNION {replaceReplicas(s) : s \in S}
      /\ replaceResources({a, b}) = UNION {replaceResources(s) : s \in S}
      /\ replaceServiceAccountName({a, b}) = UNION {replaceServiceAccountName(s) : s \in S}
      /\ addImagePullSecrets({a, b}) = UNION {addImagePullSecrets(s) : s \in S}
      /\ injectExtraEnvs({a, b}) = UNION {injectExtraEnvs(s) : s \in S}
  BY <1>1, PartByPart
<1> USE DEF S
<1>3. replaceReplicas({a, b}) = replaceReplicas({a}) \cup replaceReplicas({b})
  BY <1>2
<1>4. replaceResources({a, b}) = replaceResources({a}) \cup replaceResources({b})
  BY <1>2
<1>5. replaceServiceAccountName({a, b}) =
        replaceServiceAccountName({a}) \cup replaceServiceAccountName({b})
  BY <1>2
<1>6. addImagePullSecrets({a, b}) = addImagePullSecrets({a}) \cup addImagePullSecrets({b})
  BY <1>2
<1>7. injectExtraEnvs({a, b}) = injectExtraEnvs({a}) \cup injectExtraEnvs({b})
  BY <1>2
<1> QED BY <1>3, <1>4, <1>5, <1>6, <1>7

\* Nothing comes of nothing.
LEMMA OnNoLine ==
  /\ replaceReplicas({}) = {} /\ replaceResources({}) = {}
  /\ replaceServiceAccountName({}) = {} /\ addImagePullSecrets({}) = {}
  /\ injectExtraEnvs({}) = {}
<1>1. replaceReplicas({}) = {} /\ replaceResources({}) = {} /\ replaceServiceAccountName({}) = {}
  BY DEF replaceReplicas, replaceResources, replaceServiceAccountName, Rewrite
<1>2. addImagePullSecrets({}) = {}
  BY DEF addImagePullSecrets
<1>3. injectExtraEnvs({}) = {}
  <2>1. UNION {} = {} /\ UNION {injectExtraEnvs(s) : s \in {}} = {}
    OBVIOUS
  <2>2. injectExtraEnvs(UNION {}) = UNION {injectExtraEnvs(s) : s \in {}}
    BY PartByPart
  <2> QED BY <2>1, <2>2
<1> QED BY <1>1, <1>2, <1>3

\* The last four passes of a Deployment.
LastPasses(L) ==
  injectExtraEnvs(addImagePullSecrets(replaceServiceAccountName(replaceResources(L))))

\* They leave the lines that they do not look for.
LEMMA LastPassesIdle ==
  ASSUME NEW m, m.first \/ m.key \notin {"resources", "serviceAccountName", "env"}
  PROVE  LastPasses({m}) = IF m.at = "resources" THEN {} ELSE {m}
<1>1. CASE m.at = "resources"
  <2>1. replaceResources({m}) = {}
    BY <1>1, OnLine
  <2> QED BY <1>1, <2>1, OnNoLine DEF LastPasses
<1>2. CASE m.at # "resources"
  <2>1. replaceResources({m}) = {m}
    BY <1>2, OnLine DEF Field
  <2>2. replaceServiceAccountName({m}) = {m}
    BY OnLine DEF Field
  <2>3. addImagePullSecrets({m}) = {m}
    BY OnLine
  <2>4. injectExtraEnvs({m}) = {m}
    BY OnLine
  <2> QED BY <1>2, <2>1, <2>2, <2>3, <2>4 DEF LastPasses
<1> QED BY <1>1, <1>2

\* The last four passes over two lines, and over none.
LEMMA LastPassesOnTwo ==
  ASSUME NEW a, NEW b
  PROVE  /\ LastPasses({}) = {}
         /\ /\ a.first \/ a.key \notin {"resources", "serviceAccountName", "env"}
            /\ b.first \/ b.key \notin {"resources", "serviceAccountName", "env"}
            /\ b.at = a.at
            => LastPasses({a, b}) = IF a.at = "resources" THEN {} ELSE {a, b}
<1>1. LastPasses({}) = {}
  BY OnNoLine DEF LastPasses
<1>2. ASSUME a.first \/ a.key \notin {"resources", "serviceAccountName", "env"},
             b.first \/ b.key \notin {"resources", "serviceAccountName", "env"},
             b.at = a.at
      PROVE  LastPasses({a, b}) = IF a.at = "resources" THEN {} ELSE {a, b}
  <2>1. CASE a.at = "resources"
    <3>1. replaceResources({a}) = {} /\ replaceResources({b}) = {}
      BY <1>2, <2>1, OnLine
    <3>2. replaceResources({a, b}) = replaceResources({a}) \cup replaceResources({b})
      BY OnTwoLines
    <3>3. replaceResources({a, b}) = {}
      BY <3>1, <3>2
    <3> QED BY <2>1, <3>3, OnNoLine DEF LastPasses
  <2>2. CASE a.at # "resources"
    <3>1. /\ replaceResources({a}) = {a} /\ replaceResources({b}) = {b}
          /\ replaceServiceAccountName({a}) = {a} /\ replaceServiceAccountName({b}) = {b}
      BY <1>2, <2>2, OnLine DEF Field
    <3>2. addImagePullSecrets({a}) = {a} /\ addImagePullSecrets({b}) = {b}
      BY <1>2, OnLine
    <3>3. injectExtraEnvs({a}) = {a} /\ injectExtraEnvs({b}) = {b}
      BY <1>2, OnLine
    <3>4. {a, b} = {a} \cup {b}
      OBVIOUS
    <3>5. /\ replaceResources({a, b}) = {a, b} /\ replaceServiceAccountName({a, b}) = {a, b}
          /\ addImagePullSecrets({a, b}) = {a, b} /\ injectExtraEnvs({a, b}) = {a, b}
      BY <3>1, <3>2, <3>3, <3>4, OnTwoLines
    <3> QED BY <2>2, <3>5 DEF LastPasses
  <2> QED BY <2>1, <2>2
<1> QED BY <1>1, <1>2

\* The passes over a line of a Deployment, one after the other.
LEMMA DeploymentOnLine ==
  ASSUME NEW l \in Plain
  PROVE  transformDeployment({l}) = DeploymentLine(l)
<1> DEFINE F1 == replaceNamespace({l})
           F2 == replaceImageField(F1)
           F3 == replaceReplicas(F2)
<1>0. l \in Lines /\ l.val \notin Templates
  BY DEF Plain
<1>1. transformDeployment({l}) = LastPasses(F3)
  BY DEF transformDeployment, LastPasses
<1>2. CASE l.first \/ l.key \notin {"namespace", "image", "imagePullPolicy", "replicas"}
  <2>1. F1 = {l}
    BY <1>2, OnLine DEF Field
  <2>2. replaceImageField({l}) = {l}
    BY <1>2, OnLine DEF Field
  <2>3. replaceReplicas({l}) = {l}
    BY <1>2, OnLine DEF Field
  <2>4. transformDeployment({l}) = LastPasses({l})
    BY <1>1, <2>1, <2>2, <2>3
  <2> HIDE DEF F1, F2, F3
  <2>5. CASE l.first \/ l.at = "resources" \/ l.key \notin {"resources", "serviceAccountName", "env"}
    <3>1. LastPasses({l}) = IF l.at = "resources" THEN {} ELSE {l}
      <4>1. CASE l.at = "resources"
        BY <4>1, OnLine, OnNoLine DEF LastPasses
      <4>2. CASE l.at # "resources"
        BY <2>5, <4>2, LastPassesIdle
      <4> QED BY <4>1, <4>2
    <3> QED BY <1>2, <2>4, <2>5, <3>1 DEF DeploymentLine, NamespaceLine
  <2>6. CASE ~l.first /\ l.at # "resources" /\ l.key = "resources"
    <3>1. PICK t : /\ Valued(l, tplResources) = {t}
                   /\ t.at = l.at /\ t.key = l.key
      BY <1>0, ValuedIs
    <3>2. DeploymentLine(l) = IF l.val = <<>> THEN {t} ELSE {l}
      BY <2>6, <3>1 DEF DeploymentLine, NamespaceLine
    <3>3. replaceResources({l}) = IF l.val = <<>> THEN {t} ELSE {l}
      BY <1>0, <2>6, <3>1, OnLine DEF Field
    <3>4. ASSUME NEW m, m.key = "resources"
          PROVE  injectExtraEnvs(addImagePullSecrets(replaceServiceAccountName({m}))) = {m}
      <4>1. replaceServiceAccountName({m}) = {m}
        BY <3>4, OnLine DEF Field
      <4>2. addImagePullSecrets({m}) = {m}
        BY <3>4, OnLine
      <4>3. injectExtraEnvs({m}) = {m}
        BY <3>4, OnLine
      <4> QED BY <4>1, <4>2, <4>3
    <3>5. LastPasses({l}) = IF l.val = <<>> THEN {t} ELSE {l}
      BY <2>6, <3>1, <3>3, <3>4 DEF LastPasses
    <3> QED BY <2>4, <3>2, <3>5
  <2>7. CASE ~l.first /\ l.at # "resources" /\ l.key = "serviceAccountName"
    <3>1. PICK t : /\ Valued(l, tplServiceAccountName) = {t}
                   /\ t.at = l.at /\ t.n = l.n /\ t.key = l.key /\ t.first = l.first
      BY <1>0, ValuedIs
    <3> DEFINE p == Line("pod", l.n, "imagePullSecrets", tplPullSecret)
    <3>2. p.key = "imagePullSecrets"
      BY DEF Line
    <3>3. DeploymentLine(l) = {t, p}
      BY <2>7, <3>1 DEF DeploymentLine
    <3>4. replaceResources({l}) = {l}
      BY <2>7, OnLine DEF Field
    <3>5. replaceServiceAccountName({l}) = {t}
      BY <1>0, <2>7, <3>1, OnLine DEF Field
    <3>6. addImagePullSecrets({t}) = {t, p}
      BY <2>7, <3>1, OnLine
    <3> HIDE DEF p
    <3>7. injectExtraEnvs({t}) = {t}
      BY <2>7, <3>1, OnLine
    <3>8. injectExtraEnvs({p}) = {p}
      BY <3>2, OnLine
    <3>9. injectExtraEnvs({t, p}) = {t, p}
      <4>1. {t, p} = {t} \cup {p}
        OBVIOUS
      <4>2. injectExtraEnvs({t, p}) = injectExtraEnvs({t}) \cup injectExtraEnvs({p})
        BY OnTwoLines
      <4> QED BY <3>7, <3>8, <4>1, <4>2
    <3> QED BY <2>4, <3>3, <3>4, <3>5, <3>6, <3>9 DEF LastPasses
  <2>8. CASE ~l.first /\ l.at # "resources" /\ l.key = "env"
    <3> DEFINE e == Line("env", l.n, "", tplExtraEnvs)
    <3>1. replaceResources({l}) = {l}
      BY <2>8, OnLine DEF Field
    <3>2. replaceServiceAccountName({l}) = {l}
      BY <2>8, OnLine DEF Field
    <3>3. addImagePullSecrets({l}) = {l}
      BY <2>8, OnLine
    <3>4. injectExtraEnvs({l}) = IF l.val = <<>> THEN {l, e} ELSE {l}
      BY <2>8, OnLine
    <3>5. DeploymentLine(l) = IF l.val = <<>> THEN {l, e} ELSE {l}
      BY <2>8 DEF DeploymentLine, NamespaceLine
    <3> HIDE DEF e
    <3> QED BY <2>4, <3>1, <3>2, <3>3, <3>4, <3>5 DEF LastPasses
  <2> QED BY <2>5, <2>6, <2>7, <2>8
<1>3. CASE ~l.first /\ l.key = "namespace"
  <2>1. PICK t : /\ Valued(l, tplReleaseNamespace) = {t}
                 /\ t.at = l.at /\ t.key = l.key
    BY <1>0, ValuedIs
  <2>2. F1 = {t}
    BY <1>0, <1>3, <2>1, OnLine DEF Field
  <2>3. replaceImageField({t}) = {t}
    BY <1>3, <2>1, OnLine DEF Field
  <2>4. replaceReplicas({t}) = {t}
    BY <1>3, <2>1, OnLine DEF Field
  <2>5. LastPasses({t}) = IF l.at = "resources" THEN {} ELSE {t}
    BY <1>3, <2>1, LastPassesIdle
  <2>6. DeploymentLine(l) = IF l.at = "resources" THEN {} ELSE {t}
    BY <1>3, <2>1 DEF DeploymentLine, NamespaceLine
  <2>7. F3 = {t}
    BY <2>2, <2>3, <2>4
  <2> QED BY <1>1, <2>5, <2>6, <2>7
<1>4. CASE ~l.first /\ l.key = "image"
  <2>1. PICK t : /\ Valued(l, tplImage) = {t}
                 /\ t.at = l.at /\ t.key = l.key
    BY <1>0, ValuedIs
  <2> DEFINE p == Line(l.at, l.n, "imagePullPolicy", <<"Always">>)
  <2>2. p.key = "imagePullPolicy" /\ p.at = l.at
    BY DEF Line
  <2>3. F1 = {l}
    BY <1>4, OnLine DEF Field
  <2>4. replaceImageField({l}) = {t} \cup {p}
    BY <1>0, <1>4, <2>1, OnLine DEF Field
  <2>5. DeploymentLine(l) = IF l.at = "resources" THEN {} ELSE {t} \cup {p}
    BY <1>4, <2>1 DEF DeploymentLine
  <2> HIDE DEF p
  <2>6. {t} \cup {p} = {t, p}
    OBVIOUS
  <2>7. replaceReplicas({t}) = {t}
    BY <1>4, <2>1, OnLine DEF Field
  <2>8. replaceReplicas({p}) = {p}
    BY <2>2, OnLine DEF Field
  <2>9. replaceReplicas({t, p}) = {t, p}
    <3>1. replaceReplicas({t, p}) = replaceReplicas({t}) \cup replaceReplicas({p})
      BY OnTwoLines
    <3> QED BY <2>6, <2>7, <2>8, <3>1
  <2>10. LastPasses({t, p}) = IF l.at = "resources" THEN {} ELSE {t, p}
    BY <1>4, <2>1, <2>2, LastPassesOnTwo
  <2>11. F3 = {t, p}
    BY <2>3, <2>4, <2>6, <2>9
  <2> QED BY <1>1, <2>5, <2>6, <2>10, <2>11
<1>5. CASE ~l.first /\ l.key = "imagePullPolicy"
  <2>1. F1 = {l}
    BY <1>5, OnLine DEF Field
  <2>2. replaceImageField({l}) = {}
    BY <1>5, OnLine
  <2>3. F3 = {}
    BY <2>1, <2>2, OnNoLine
  <2>4. DeploymentLine(l) = {}
    BY <1>5 DEF DeploymentLine
  <2> QED BY <1>1, <2>3, <2>4, LastPassesOnTwo
<1>6. CASE ~l.first /\ l.key = "replicas"
  <2>1. PICK t : /\ Valued(l, tplReplicas) = {t}
                 /\ t.at = l.at /\ t.key = l.key
    BY <1>0, ValuedIs
  <2>2. F1 = {l}
    BY <1>6, OnLine DEF Field
  <2>3. replaceImageField({l}) = {l}
    BY <1>6, OnLine DEF Field
  <2>4. replaceReplicas({l}) = {t}
    BY <1>0, <1>6, <2>1, OnLine DEF Field
  <2>5. LastPasses({t}) = IF l.at = "resources" THEN {} ELSE {t}
    BY <1>6, <2>1, LastPassesIdle
  <2>6. DeploymentLine(l) = IF l.at = "resources" THEN {} ELSE {t}
    BY <1>6, <2>1 DEF DeploymentLine
  <2>7. F3 = {t}
    BY <2>2, <2>3, <2>4
  <2> QED BY <1>1, <2>5, <2>6, <2>7
<1> QED BY <1>2, <1>3, <1>4, <1>5, <1>6

\* The lines of a Deployment, one by one.
LEMMA DeploymentLines ==
  ASSUME NEW L, L \subseteq Plain
  PROVE  transformDeployment(L) = UNION {DeploymentLine(l) : l \in L}
<1> DEFINE S0 == {{l} : l \in L}
           S1 == {replaceNamespace(s) : s \in S0}
           S2 == {replaceImageField(s) : s \in S1}
           S3 == {replaceReplicas(s) : s \in S2}
           S4 == {replaceResources(s) : s \in S3}
           S5 == {replaceServiceAccountName(s) : s \in S4}
           S6 == {addImagePullSecrets(s) : s \in S5}
           S7 == {injectExtraEnvs(s) : s \in S6}
<1>1. UNION S0 = L
  OBVIOUS
<1>2. S7 = {transformDeployment({l}) : l \in L}
  <2>1. S1 = {replaceNamespace({l}) : l \in L}
    OBVIOUS
  <2>2. S2 = {replaceImageField(replaceNamespace({l})) : l \in L}
    BY <2>1
  <2>3. S3 = {replaceReplicas(replaceImageField(replaceNamespace({l}))) : l \in L}
    BY <2>2
  <2> DEFINE D3(l) == replaceReplicas(replaceImageField(replaceNamespace({l})))
             D4(l) == replaceResources(D3(l))
             D5(l) == replaceServiceAccountName(D4(l))
             D6(l) == addImagePullSecrets(D5(l))
  <2>4. S6 = {D6(l) : l \in L}
    <3> HIDE DEF S3, D3
    <3>1. S3 = {D3(l) : l \in L}
      BY <2>3 DEF D3
    <3>2. S4 = {D4(l) : l \in L}
      BY <3>1
    <3> HIDE DEF S4, D4
    <3>3. S5 = {D5(l) : l \in L}
      BY <3>2
    <3> HIDE DEF S5, D5
    <3> QED BY <3>3
  <2> QED BY <2>4 DEF transformDeployment
<1>3. {transformDeployment({l}) : l \in L} = {DeploymentLine(l) : l \in L}
  BY DeploymentOnLine
<1> HIDE DEF S0, S1, S2, S3, S4, S5, S6, S7
<1>4. replaceNamespace(L) = UNION S1
  BY <1>1, PartByPart DEF S1
<1>5. replaceImageField(UNION S1) = UNION S2
  BY PartByPart DEF S2
<1>6. replaceReplicas(UNION S2) = UNION S3
  BY PartByPart DEF S3
<1>7. replaceResources(UNION S3) = UNION S4
  BY PartByPart DEF S4
<1>8. replaceServiceAccountName(UNION S4) = UNION S5
  BY PartByPart DEF S5
<1>9. addImagePullSecrets(UNION S5) = UNION S6
  BY PartByPart DEF S6
<1>10. injectExtraEnvs(UNION S6) = UNION S7
  BY PartByPart DEF S7
<1>11. transformDeployment(L) = UNION S7
  BY <1>4, <1>5, <1>6, <1>7, <1>8, <1>9, <1>10 DEF transformDeployment
<1> QED BY <1>2, <1>3, <1>11

AccountLine(l, names) ==
  IF l.at \in {"metadata", "labels", "annotations"} /\ l.key = "name" /\ l.val \in names
    THEN Valued(l, tplServiceAccountName) \cup {Line(l.at, l.n, "annotations", tplAnnotations)}
  ELSE NamespaceLine(l)

SubjectLine(l) ==
  IF l.at = "subjects" /\ l.key = "name" /\ ~l.first THEN Valued(l, tplServiceAccountName)
  ELSE NamespaceLine(l)

WebhookLine(l) ==
  IF l.key = "cert-manager.io/inject-ca-from" THEN Valued(l, tplValuesNamespace)
  ELSE NamespaceLine(l)

CertificateLine(l) ==
  IF l.at = "dnsNames" /\ l.key = "service" THEN Valued(l, tplValuesNamespace)
  ELSE NamespaceLine(l)

\* What replaceNamespace does to the lines that kustomize printed.
LEMMA NamespaceLines ==
  ASSUME NEW L, L \subseteq Plain
  PROVE  replaceNamespace(L) = UNION {NamespaceLine(l) : l \in L}
<1>1. \A l \in L : NamespaceLine(l) = IF Field(l, "namespace") THEN Valued(l, tplReleaseNamespace) ELSE {l}
  BY DEF NamespaceLine, Field, Plain
<1> QED BY <1>1 DEF replaceNamespace, Rewrite

\* A line that was a namespace still has that key, the others are as they were.
LEMMA NamespaceLineIs ==
  ASSUME NEW l \in Lines
  PROVE  /\ l.key # "namespace" => NamespaceLine(l) = {l}
         /\ l.key = "namespace" =>
              \E t : /\ NamespaceLine(l) = {t}
                     /\ t.key = "namespace" /\ t.at = l.at /\ t.first = l.first
<1>1. PICK t : /\ Valued(l, tplReleaseNamespace) = {t}
               /\ t.at = l.at /\ t.key = l.key /\ t.first = l.first
  BY ValuedIs
<1> QED BY <1>1 DEF NamespaceLine

\* The lines of a ServiceAccount.
LEMMA AccountLines ==
  ASSUME NEW L, L \subseteq Plain, NEW names
  PROVE  replaceServiceAccountMetadata(replaceNamespace(L), names) = UNION {AccountLine(l, names) : l \in L}
<1> DEFINE S == {NamespaceLine(l) : l \in L}
<1>1. replaceNamespace(L) = UNION S
  BY NamespaceLines
<1>2. ASSUME NEW T
      PROVE  replaceServiceAccountMetadata(UNION T, names)
               = UNION {replaceServiceAccountMetadata(s, names) : s \in T}
  BY DEF replaceServiceAccountMetadata, Rewrite
<1>3. ASSUME NEW m
      PROVE  replaceServiceAccountMetadata({m}, names) =
               IF m.at \in {"metadata", "labels", "annotations"} /\ m.key = "name" /\ m.val \in names
                 THEN Valued(m, tplServiceAccountName) \cup {Line(m.at, m.n, "annotations", tplAnnotations)}
                 ELSE {m}
  BY DEF replaceServiceAccountMetadata, Rewrite
<1>4. ASSUME NEW l \in L
      PROVE  replaceServiceAccountMetadata(NamespaceLine(l), names) = AccountLine(l, names)
  <2>1. l \in Lines
    BY DEF Plain
  <2>2. CASE l.key = "namespace"
    <3>1. PICK t : NamespaceLine(l) = {t} /\ t.key = "namespace"
      BY <2>1, <2>2, NamespaceLineIs
    <3>2. replaceServiceAccountMetadata({t}, names) = {t}
      BY <1>3, <3>1
    <3>3. AccountLine(l, names) = NamespaceLine(l)
      BY <2>2 DEF AccountLine
    <3> QED BY <3>1, <3>2, <3>3
  <2>3. CASE l.key # "namespace"
    <3>1. NamespaceLine(l) = {l}
      BY <2>1, <2>3, NamespaceLineIs
    <3> QED BY <1>3, <3>1 DEF AccountLine
  <2> QED BY <2>2, <2>3
<1>5. {replaceServiceAccountMetadata(s, names) : s \in S} = {AccountLine(l, names) : l \in L}
  BY <1>4
<1> HIDE DEF S
<1> QED BY <1>1, <1>2, <1>5

\* The lines of a role binding.
LEMMA SubjectLines ==
  ASSUME NEW L, L \subseteq Plain
  PROVE  transformRoleBinding(L) = UNION {SubjectLine(l) : l \in L}
<1> DEFINE S == {NamespaceLine(l) : l \in L}
           S1 == {replaceSubjectsNamespace(s) : s \in S}
           S2 == {replaceSubjectsServiceAccount(s) : s \in S1}
<1>1. replaceNamespace(L) = UNION S
  BY NamespaceLines
<1>2. ASSUME NEW l \in L
      PROVE  replaceSubjectsServiceAccount(replaceSubjectsNamespace(NamespaceLine(l))) = SubjectLine(l)
  <2>1. l \in Lines /\ l.val \notin Templates
    BY DEF Plain
  <2>2. CASE l.key = "namespace"
    <3>1. CASE l.first
      <4>1. NamespaceLine(l) = {l}
        BY <3>1 DEF NamespaceLine
      <4>2. replaceSubjectsNamespace({l}) = {l} /\ replaceSubjectsServiceAccount({l}) = {l}
        BY <3>1, OnLine DEF Field
      <4> QED BY <2>2, <4>1, <4>2 DEF SubjectLine
    <3>2. CASE ~l.first
      <4>1. PICK t : /\ Valued(l, tplReleaseNamespace) = {t} /\ t.val = tplReleaseNamespace
                     /\ t.key = l.key
        BY <2>1, ValuedIs
      <4>2. NamespaceLine(l) = {t}
        BY <2>2, <3>2, <4>1 DEF NamespaceLine
      <4>3. replaceSubjectsNamespace({t}) = {t} /\ replaceSubjectsServiceAccount({t}) = {t}
        BY <2>2, <4>1, OnLine DEF Field, Templates
      <4> QED BY <2>2, <4>2, <4>3 DEF SubjectLine
    <3> QED BY <3>1, <3>2
  <2>3. CASE l.key # "namespace"
    <3>1. NamespaceLine(l) = {l}
      BY <2>1, <2>3, NamespaceLineIs
    <3>2. replaceSubjectsNamespace({l}) = {l}
      BY <2>3, OnLine DEF Field
    <3>3. replaceSubjectsServiceAccount({l}) =
            IF l.at = "subjects" /\ l.key = "name" /\ ~l.first THEN Valued(l, tplServiceAccountName) ELSE {l}
      BY <2>1, OnLine DEF Field
    <3> QED BY <3>1, <3>2, <3>3 DEF SubjectLine
  <2> QED BY <2>2, <2>3
<1>3. S2 = {SubjectLine(l) : l \in L}
  BY <1>2
<1> HIDE DEF S, S1, S2
<1>4. replaceSubjectsNamespace(UNION S) = UNION S1
  BY PartByPart DEF S1
<1>5. replaceSubjectsServiceAccount(UNION S1) = UNION S2
  BY PartByPart DEF S2
<1> QED BY <1>1, <1>3, <1>4, <1>5 DEF transformRoleBinding

\* The lines of a webhook configuration.
LEMMA WebhookLines ==
  ASSUME NEW L, L \subseteq Plain
  PROVE  replaceWebhookNamespace(L) = UNION {WebhookLine(l) : l \in L}
<1> DEFINE S == {NamespaceLine(l) : l \in L}
           Inject(m) == IF m.key = "cert-manager.io/inject-ca-from" THEN Valued(m, tplValuesNamespace) ELSE {m}
<1>1. replaceNamespace(L) = UNION S
  BY NamespaceLines
<1>2. replaceWebhookNamespace(L) = UNION {Inject(m) : m \in replaceNamespace(L)}
  BY DEF replaceWebhookNamespace, Rewrite
<1>3. ASSUME NEW l \in L PROVE UNION {Inject(m) : m \in NamespaceLine(l)} = WebhookLine(l)
  <2>1. l \in Lines
    BY DEF Plain
  <2>2. CASE l.key = "namespace"
    <3>1. PICK t : NamespaceLine(l) = {t} /\ t.key = "namespace"
      BY <2>1, <2>2, NamespaceLineIs
    <3> QED BY <2>2, <3>1 DEF WebhookLine
  <2>3. CASE l.key # "namespace"
    <3>1. NamespaceLine(l) = {l}
      BY <2>1, <2>3, NamespaceLineIs
    <3> QED BY <3>1 DEF WebhookLine
  <2> QED BY <2>2, <2>3
<1> HIDE DEF Inject
<1>4. UNION {Inject(m) : m \in UNION S} = UNION {UNION {Inject(m) : m \in s} : s \in S}
  OBVIOUS
<1>5. {UNION {Inject(m) : m \in s} : s \in S} = {WebhookLine(l) : l \in L}
  BY <1>3
<1> QED BY <1>1, <1>2, <1>4, <1>5

\* The lines of a certificate.
LEMMA CertificateLines ==
  ASSUME NEW L, L \subseteq Plain
  PROVE  transformCertificate(L) = UNION {CertificateLine(l) : l \in L}
<1> DEFINE S == {NamespaceLine(l) : l \in L}
           Name(m) == IF m.at = "dnsNames" /\ m.key = "service" THEN Valued(m, tplValuesNamespace) ELSE {m}
<1>1. replaceNamespace(L) = UNION S
  BY NamespaceLines
<1>2. transformCertificate(L) = UNION {Name(m) : m \in replaceNamespace(L)}
  BY DEF transformCertificate, replaceCertificateDNSNames, Rewrite
<1>3. ASSUME NEW l \in L PROVE UNION {Name(m) : m \in NamespaceLine(l)} = CertificateLine(l)
  <2>1. l \in Lines
    BY DEF Plain
  <2>2. CASE l.key = "namespace"
    <3>1. PICK t : NamespaceLine(l) = {t} /\ t.key = "namespace"
      BY <2>1, <2>2, NamespaceLineIs
    <3> QED BY <2>2, <3>1 DEF CertificateLine
  <2>3. CASE l.key # "namespace"
    <3>1. NamespaceLine(l) = {l}
      BY <2>1, <2>3, NamespaceLineIs
    <3> QED BY <3>1 DEF CertificateLine
  <2> QED BY <2>2, <2>3
<1> HIDE DEF Name
<1>4. UNION {Name(m) : m \in UNION S} = UNION {UNION {Name(m) : m \in s} : s \in S}
  OBVIOUS
<1>5. {UNION {Name(m) : m \in s} : s \in S} = {CertificateLine(l) : l \in L}
  BY <1>3
<1> QED BY <1>1, <1>2, <1>4, <1>5

\* The lines of a ConfigMap that has no data, and the data to come.
LEMMA ConfigMapLines ==
  ASSUME NEW L, L \subseteq Plain, \A l \in L : l.at # "data" /\ l.key # "data"
  PROVE  transformConfigMap(L) = (UNION {NamespaceLine(l) : l \in L}) \cup {Line("data", 0, "", tplData)}
<1> DEFINE K == replaceNamespace(L)
<1>1. K = UNION {NamespaceLine(l) : l \in L}
  BY NamespaceLines
<1>2. \A m \in K : m.at # "data" /\ m.key # "data"
  <2>1. \A l \in L : l \in Lines
    BY DEF Plain
  <2>2. \A l \in L : \A m \in NamespaceLine(l) : m.at = l.at /\ (m.key = l.key \/ m.key = "namespace")
    <3> SUFFICES ASSUME NEW l \in L, NEW m \in NamespaceLine(l)
                 PROVE  m.at = l.at /\ (m.key = l.key \/ m.key = "namespace")
      OBVIOUS
    <3>1. CASE l.key = "namespace"
      <4>1. PICK t : NamespaceLine(l) = {t} /\ t.key = "namespace" /\ t.at = l.at
        BY <2>1, <3>1, NamespaceLineIs
      <4> QED BY <4>1
    <3>2. CASE l.key # "namespace"
      <4>1. NamespaceLine(l) = {l}
        BY <2>1, <3>2, NamespaceLineIs
      <4> QED BY <4>1
    <3> QED BY <3>1, <3>2
  <2> HIDE DEF K
  <2>3. \A m \in K : \E l \in L : m \in NamespaceLine(l)
    BY <1>1
  <2> QED BY <2>2, <2>3
<1>3. transformConfigMap(L) =
        {l \in K : l.at # "data" /\ ~(l.key = "data" /\ l.val = <<>>)} \cup {Line("data", 0, "", tplData)}
  BY DEF transformConfigMap, injectConfigMapValues
<1>4. {l \in K : l.at # "data" /\ ~(l.key = "data" /\ l.val = <<>>)} = K
  BY <1>2
<1> DEFINE data == {Line("data", 0, "", tplData)}
<1>5. transformConfigMap(L) = {l \in K : l.at # "data" /\ ~(l.key = "data" /\ l.val = <<>>)} \cup data
  BY <1>3
<1> HIDE DEF K, data
<1>6. transformConfigMap(L) = (UNION {NamespaceLine(l) : l \in L}) \cup data
  BY <1>1, <1>4, <1>5
<1> QED BY <1>6 DEF data

===============================================================================
