---------------------------- MODULE ChartGenProofs ----------------------------
(* What make helm leaves, for every input, every chart that was there before *)
(* and every order in which the groups are written.                          *)
EXTENDS ChartGen, TLAPS

Decoded == {"chart", "helpers", "values", "schema", "groups", "done"}

Content(g) == IF isCRD(g) THEN renderPlainGroup(groups[g]) ELSE renderGroup(g, groups[g])

Written == DOMAIN groups \ todo

OwnFiles ==
  (IF pc \in {"values", "schema", "groups", "done"} THEN {Helpers} ELSE {})
  \cup (IF pc \in {"groups", "done"} THEN {Schema} ELSE {})

\* What run knows and has written when it is at pc.
InputRead ==
  /\ pc = "decode" => docs \in Inputs
  /\ pc \in Decoded =>
       /\ docs \in Inputs /\ groups = groupByGVK(docs) /\ values = ExtractDefaults(docs)

ChartWritten ==
  /\ pc \in {"decode", "chart"} => chartYaml = ""
  /\ pc \in {"helpers", "values", "schema", "groups", "done"} => chartYaml = version
  /\ pc \in {"schema", "groups", "done"} => valuesYaml = values

FilesWritten ==
  /\ pc = "decode" => files = NoFiles
  /\ pc \in {"chart", "helpers", "values", "schema"} => todo = DOMAIN groups
  /\ pc = "done" => todo = {}
  /\ pc \in Decoded =>
       /\ todo \subseteq DOMAIN groups
       /\ DOMAIN files = OwnFiles \cup {FileOf(g) : g \in Written}
       /\ \A g \in Written : files[FileOf(g)] = Content(g)

ChartInvariant == InputRead /\ ChartWritten /\ FilesWritten

\* Two GVKs of one input are never written to the same file, and none to a file
\* of the chart's own (gvkToFilename).
LEMMA FilesDistinct ==
  ASSUME NEW in \in Inputs, NEW i \in DOMAIN in, NEW j \in DOMAIN in
  PROVE  /\ FileOf(in[i].gvk) = FileOf(in[j].gvk) => in[i].gvk = in[j].gvk
         /\ FileOf(in[i].gvk) \notin {Helpers, Schema}
<1> DEFINE g == in[i].gvk
           h == in[j].gvk
<1>1. /\ g \in [group : STRING, version : STRING, kind : STRING]
      /\ h \in [group : STRING, version : STRING, kind : STRING]
      /\ {g.group, g.version, g.kind, h.group, h.version, h.kind} \subseteq DOMAIN Lower
  <2>1. \A k \in DOMAIN in :
          /\ in[k].gvk \in [group : STRING, version : STRING, kind : STRING]
          /\ {in[k].gvk.group, in[k].gvk.version, in[k].gvk.kind} \subseteq DOMAIN Lower
    BY NamesAssumption
  <2> QED BY <2>1
<1>2. ASSUME FileOf(g) = FileOf(h) PROVE g = h
  <2>1. gvkToFilename(g) = gvkToFilename(h)
    BY <1>2 DEF FileOf
  <2>2. /\ (IF g.group = "" THEN "core" ELSE Lower[g.group])
             = (IF h.group = "" THEN "core" ELSE Lower[h.group])
        /\ Lower[g.version] = Lower[h.version]
        /\ Lower[g.kind] = Lower[h.kind]
    BY <2>1 DEF gvkToFilename
  <2>3. g.version = h.version /\ g.kind = h.kind
    BY <1>1, <2>2, NamesAssumption
  <2>4. g.group = h.group
    BY <1>1, <2>2, NamesAssumption
  <2> QED BY <1>1, <2>3, <2>4
<1>3. FileOf(g) # Helpers /\ FileOf(g) # Schema
  <2>1. Len(gvkToFilename(g)) = 3
    BY DEF gvkToFilename
  <2>2. FileOf(g).name = gvkToFilename(g)
    BY DEF FileOf
  <2>3. Len(Helpers.name) = 1 /\ Len(Schema.name) = 1
    BY DEF Helpers, Schema
  <2> QED BY <2>1, <2>2, <2>3
<1> QED BY <1>2, <1>3

\* Nothing has been decoded at first.
LEMMA InitInvariant == Init => ChartInvariant
  BY DEF Init, ChartInvariant, InputRead, ChartWritten, FilesWritten, Decoded

\* A group that is written adds its own file and touches no other group's.
LEMMA GroupWritten ==
  ASSUME ChartInvariant, WriteGroup
  PROVE  FilesWritten'
<1> USE DEF Decoded
<1>1. /\ pc = "groups" /\ pc' = "groups"
      /\ docs' = docs /\ groups' = groups
      /\ docs \in Inputs /\ groups = groupByGVK(docs) /\ todo \subseteq DOMAIN groups
  BY DEF WriteGroup, ChartInvariant, InputRead, FilesWritten
<1>2. PICK g \in todo :
        /\ todo' = todo \ {g}
        /\ WriteFile(FileOf(g), IF isCRD(g) THEN renderPlainGroup(groups[g]) ELSE renderGroup(g, groups[g]))
  BY DEF WriteGroup
<1>3. WriteFile(FileOf(g), Content(g))
  BY <1>2 DEF Content
<1>4. DOMAIN files' = DOMAIN files \cup {FileOf(g)}
      /\ \A f \in DOMAIN files' : files'[f] = IF f = FileOf(g) THEN Content(g) ELSE files[f]
  BY <1>3 DEF WriteFile
<1>5. Written' = Written \cup {g}
  BY <1>1, <1>2 DEF Written
<1>6. DOMAIN files = OwnFiles \cup {FileOf(h) : h \in Written}
      /\ \A h \in Written : files[FileOf(h)] = Content(h)
  BY <1>1 DEF ChartInvariant, FilesWritten
<1>7. OwnFiles' = OwnFiles
  BY <1>1 DEF OwnFiles
<1>8. DOMAIN files' = OwnFiles' \cup {FileOf(h) : h \in Written'}
  BY <1>4, <1>5, <1>6, <1>7
<1>9. \A h : Content(h)' = Content(h)
  BY <1>1 DEF Content, renderGroup, renderPlainGroup
<1>10. \A h \in Written' : files'[FileOf(h)] = Content(h)
  <2> SUFFICES ASSUME NEW h \in Written' PROVE files'[FileOf(h)] = Content(h)
    OBVIOUS
  <2>1. FileOf(h) \in DOMAIN files'
    BY <1>8
  <2>2. CASE h = g
    BY <1>4, <2>1, <2>2
  <2>3. CASE h # g
    <3>1. h \in DOMAIN groups /\ h \in Written
      BY <1>5, <2>3 DEF Written
    <3>2. FileOf(h) # FileOf(g)
      <4>1. DOMAIN groups = {docs[k].gvk : k \in DOMAIN docs} \ {Namespace}
        BY <1>1 DEF groupByGVK
      <4>2. (\E i \in DOMAIN docs : h = docs[i].gvk) /\ (\E j \in DOMAIN docs : g = docs[j].gvk)
        BY <1>1, <3>1, <4>1
      <4> QED BY <1>1, <2>3, <4>2, FilesDistinct
    <3> QED BY <1>4, <1>6, <2>1, <3>1, <3>2
  <2> QED BY <2>2, <2>3
<1>11. todo' \subseteq DOMAIN groups'
  BY <1>1, <1>2
<1>12. \A h \in Written' : files'[FileOf(h)] = Content(h)'
  BY <1>9, <1>10
<1> QED BY <1>1, <1>8, <1>11, <1>12 DEF FilesWritten

\* The other steps, one by one.
LEMMA NextInvariant == ChartInvariant /\ [Next]_vars => ChartInvariant'
<1> SUFFICES ASSUME ChartInvariant, [Next]_vars PROVE ChartInvariant'
  OBVIOUS
<1> USE DEF Decoded
<1>1. CASE MakeHelm
  BY <1>1 DEF MakeHelm, ChartInvariant, InputRead, ChartWritten, FilesWritten
<1>2. CASE Decode
  <2>1. InputRead' /\ ChartWritten'
    BY <1>2 DEF Decode, ChartInvariant, InputRead, ChartWritten
  <2>2. /\ pc' = "chart" /\ files' = NoFiles
        /\ todo' = DOMAIN groups'
    BY <1>2 DEF Decode, ChartInvariant, FilesWritten
  <2>3. OwnFiles' = {} /\ Written' = {}
    BY <2>2 DEF OwnFiles, Written
  <2>4. DOMAIN files' = OwnFiles' \cup {FileOf(g) : g \in Written'}
    BY <2>2, <2>3 DEF NoFiles
  <2> QED BY <2>1, <2>2, <2>3, <2>4 DEF ChartInvariant, FilesWritten
<1>3. CASE WriteChartYAML
  <2>1. pc = "chart" /\ pc' = "helpers" /\ UNCHANGED <<docs, groups, values, todo, files>>
    BY <1>3 DEF WriteChartYAML
  <2>2. InputRead' /\ ChartWritten'
    BY <1>3, <2>1 DEF WriteChartYAML, ChartInvariant, InputRead, ChartWritten
  <2>3. OwnFiles' = OwnFiles /\ Written' = Written
    BY <2>1 DEF OwnFiles, Written
  <2>4. Written = {}
    BY <2>1 DEF ChartInvariant, FilesWritten, Written
  <2> QED BY <2>1, <2>2, <2>3, <2>4 DEF ChartInvariant, FilesWritten
<1>4. CASE WriteHelpersTpl
  <2>1. /\ pc = "helpers" /\ pc' = "values" /\ UNCHANGED <<docs, version, groups, values, todo, chartYaml>>
        /\ DOMAIN files' = DOMAIN files \cup {Helpers}
    BY <1>4 DEF WriteHelpersTpl, WriteFile
  <2>2. InputRead' /\ ChartWritten'
    BY <2>1 DEF ChartInvariant, InputRead, ChartWritten
  <2>3. OwnFiles = {} /\ OwnFiles' = {Helpers} /\ Written' = Written
    BY <2>1 DEF OwnFiles, Written
  <2>4. Written = {}
    BY <2>1 DEF ChartInvariant, FilesWritten, Written
  <2> QED BY <2>1, <2>2, <2>3, <2>4 DEF ChartInvariant, FilesWritten
<1>5. CASE WriteValuesYAML
  <2>1. pc = "values" /\ pc' = "schema" /\ UNCHANGED <<docs, version, groups, values, todo, chartYaml, files>>
    BY <1>5 DEF WriteValuesYAML
  <2>2. InputRead' /\ ChartWritten'
    BY <1>5, <2>1 DEF WriteValuesYAML, ChartInvariant, InputRead, ChartWritten
  <2>3. OwnFiles' = OwnFiles /\ Written' = Written
    BY <2>1 DEF OwnFiles, Written
  <2>4. Written = {}
    BY <2>1 DEF ChartInvariant, FilesWritten, Written
  <2> QED BY <2>1, <2>2, <2>3, <2>4 DEF ChartInvariant, FilesWritten
<1>6. CASE WriteValuesSchema
  <2>1. /\ pc = "schema" /\ pc' = "groups"
        /\ UNCHANGED <<docs, version, groups, values, todo, chartYaml, valuesYaml>>
        /\ DOMAIN files' = DOMAIN files \cup {Schema}
    BY <1>6 DEF WriteValuesSchema, WriteFile
  <2>2. InputRead' /\ ChartWritten'
    BY <2>1 DEF ChartInvariant, InputRead, ChartWritten
  <2>3. OwnFiles = {Helpers} /\ OwnFiles' = {Helpers, Schema} /\ Written' = Written
    BY <2>1 DEF OwnFiles, Written
  <2>4. Written = {}
    BY <2>1 DEF ChartInvariant, FilesWritten, Written
  <2> QED BY <2>1, <2>2, <2>3, <2>4 DEF ChartInvariant, FilesWritten
<1>7. CASE WriteGroup
  <2>1. InputRead' /\ ChartWritten'
    BY <1>7 DEF WriteGroup, ChartInvariant, InputRead, ChartWritten
  <2> QED BY <1>7, <2>1, GroupWritten DEF ChartInvariant
<1>8. CASE Finish
  <2>1. /\ pc = "groups" /\ pc' = "done" /\ todo = {}
        /\ UNCHANGED <<docs, version, groups, values, todo, chartYaml, valuesYaml, files>>
    BY <1>8 DEF Finish
  <2>2. InputRead' /\ ChartWritten'
    BY <2>1 DEF ChartInvariant, InputRead, ChartWritten
  <2>3. OwnFiles' = OwnFiles /\ Written' = Written /\ \A h : Content(h)' = Content(h)
    BY <2>1 DEF OwnFiles, Written, Content, renderGroup, renderPlainGroup
  <2> QED BY <2>1, <2>2, <2>3 DEF ChartInvariant, FilesWritten
<1>9. CASE StepFails
  BY <1>9 DEF StepFails, ChartInvariant, InputRead, ChartWritten, FilesWritten
<1>10. CASE UNCHANGED vars
  <2>1. OwnFiles' = OwnFiles /\ Written' = Written /\ \A h : Content(h)' = Content(h)
    BY <1>10 DEF vars, OwnFiles, Written, Content, renderGroup, renderPlainGroup
  <2> QED BY <1>10, <2>1 DEF vars, ChartInvariant, InputRead, ChartWritten, FilesWritten
<1> QED
  BY <1>1, <1>2, <1>3, <1>4, <1>5, <1>6, <1>7, <1>8, <1>9, <1>10 DEF Next

\* What has been read and written at each point of run, always.
THEOREM ChartInvariance == Spec => []ChartInvariant
  BY InitInvariant, NextInvariant, PTL DEF Spec

\* The invariant at the end of a generation is completeness.
LEMMA DoneIsComplete == ChartInvariant => ChartIsComplete
<1> SUFFICES ASSUME ChartInvariant, pc = "done" PROVE ChartIsComplete
  BY DEF ChartIsComplete
<1>1. /\ docs \in Inputs /\ groups = groupByGVK(docs) /\ values = ExtractDefaults(docs)
      /\ chartYaml = version /\ valuesYaml = values
  BY DEF ChartInvariant, InputRead, ChartWritten, Decoded
<1>2. /\ DOMAIN files = {Helpers, Schema} \cup {FileOf(g) : g \in DOMAIN groups}
      /\ \A g \in DOMAIN groups : files[FileOf(g)] = Content(g)
  <2>1. Written = DOMAIN groups /\ OwnFiles = {Helpers, Schema}
    BY DEF ChartInvariant, FilesWritten, Decoded, Written, OwnFiles
  <2> QED BY <2>1 DEF ChartInvariant, FilesWritten, Decoded
<1>3. /\ DOMAIN groups = {docs[i].gvk : i \in DOMAIN docs} \ {Namespace}
      /\ \A g \in DOMAIN groups : groups[g] = {i \in DOMAIN docs : docs[i].gvk = g}
  BY <1>1 DEF groupByGVK
<1>4. DOMAIN groups = {docs[i].gvk : i \in Resources}
  BY <1>3 DEF Resources
<1>5. DOMAIN files = {Helpers, Schema} \cup {FileOf(docs[i].gvk) : i \in Resources}
  BY <1>2, <1>4
<1>6. ASSUME NEW i \in Resources
      PROVE  /\ DOMAIN files[FileOf(docs[i].gvk)] = {j \in Resources : docs[j].gvk = docs[i].gvk}
             /\ Manifest(i) = IF isCRD(docs[i].gvk) THEN transformGeneric(stripLabels(docs[i].lines))
                               ELSE transformResource(docs[i].gvk, docs[i].lines)
  <2> DEFINE g == docs[i].gvk
  <2>1. g \in DOMAIN groups /\ i \in groups[g]
    BY <1>3, <1>4 DEF Resources
  <2>2. groups[g] = {j \in Resources : docs[j].gvk = g}
    BY <1>3, <2>1 DEF Resources
  <2>3. files[FileOf(g)] = Content(g)
    BY <1>2, <2>1
  <2>4. Content(g) = IF isCRD(g) THEN [j \in groups[g] |-> transformGeneric(stripLabels(docs[j].lines))]
                     ELSE [j \in groups[g] |-> transformResource(g, docs[j].lines)]
    BY DEF Content, renderGroup, renderPlainGroup
  <2>5. Manifest(i) = files[FileOf(g)][i]
    BY DEF Manifest
  <2> QED BY <2>1, <2>2, <2>3, <2>4, <2>5
<1> QED BY <1>1, <1>5, <1>6 DEF ChartIsComplete

\* A chart is complete, current and free of anything else, whatever was there
\* before, in whatever order the groups were written and wherever an earlier
\* generation failed: provided names do not differ in case alone.
THEOREM Complete == Spec => []ChartIsComplete
  BY ChartInvariance, DoneIsComplete, PTL

\* Extraction only ever replaces values, it leaves none out.
LEMMA ValuesPresent ==
  ASSUME NEW in
  PROVE  DOMAIN ExtractDefaults(in) = DOMAIN DefaultValues
  BY DEF ExtractDefaults

\* What a template refers to is a field of the defaults.
LEMMA RefsPresent ==
  ASSUME NEW tpl \in Templates
  PROVE  Refs(tpl) \subseteq DOMAIN DefaultValues
<1>1. Refs(tpl) \subseteq {"namespace", "accountName", "fullnameOverride", "fullRef", "repository", "tag",
                           "replicas", "resources", "imagePullSecret", "annotations", "extraEnvs", "config"}
  BY DEF Refs, Templates
<1> QED BY <1>1 DEF DefaultValues

\* Templates are made by the generator alone, of fields of the defaults.
LEMMA DoneIsRenderable == ChartInvariant /\ ChartIsComplete => Renderable
<1> SUFFICES ASSUME ChartInvariant, ChartIsComplete, pc = "done",
                    NEW i \in Resources, NEW l \in Manifest(i), l.val \in Templates
             PROVE  ~isCRD(docs[i].gvk) /\ Refs(l.val) \subseteq DOMAIN valuesYaml
  BY DEF Renderable
<1>1. docs \in Inputs /\ i \in DOMAIN docs
  BY DEF ChartInvariant, InputRead, Decoded, Resources
<1>2. ~isCRD(docs[i].gvk)
  <2> SUFFICES ASSUME isCRD(docs[i].gvk) PROVE FALSE
    OBVIOUS
  <2>1. Manifest(i) = transformGeneric(stripLabels(docs[i].lines))
    BY DEF ChartIsComplete
  <2>2. \A m \in docs[i].lines : m.val \notin Templates /\ ~(m.at = "metadata" /\ m.key = "namespace")
    BY <1>1, InputsAssumption DEF isCRD
  <2>3. stripLabels(docs[i].lines) \subseteq docs[i].lines
    BY DEF stripLabels
  <2>4. Lookup(stripLabels(docs[i].lines), "metadata", "namespace") = {}
    BY <2>2, <2>3 DEF Lookup
  <2>5. transformGeneric(stripLabels(docs[i].lines)) = stripLabels(docs[i].lines)
    BY <2>4 DEF transformGeneric
  <2> QED BY <2>1, <2>2, <2>3, <2>5
<1>3. DOMAIN valuesYaml = DOMAIN DefaultValues
  BY ValuesPresent DEF ChartIsComplete
<1> QED BY <1>2, <1>3, RefsPresent

\* No render of the chart stops at a missing value, and crds/ holds no template.
THEOREM AlwaysRenderable == Spec => []Renderable
<1>1. ChartInvariant => Renderable
  BY DoneIsComplete, DoneIsRenderable
<1> QED BY <1>1, ChartInvariance, PTL

===============================================================================
