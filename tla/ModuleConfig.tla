----------------------------- MODULE ModuleConfig -----------------------------
(***************************************************************************)
(* pkg/config: how the operator's configuration is put together from       *)
(* defaults, the files of the mounted ConfigMap and the environment.  The  *)
(* loader is modelled layer by layer, as viper keeps them; what it must    *)
(* come to is stated without layers, as a lookup of the strongest source.  *)
(***************************************************************************)
EXTENDS Sequences, Naturals

CONSTANTS
  Keys,        \* configuration keys
  BoolKeys,    \* those that are decoded into a bool
  Default,     \* setDefaults: Keys -> Values
  Entries,     \* what a directory entry can be
  MaxEntries   \* bound: the directory has at most MaxEntries entries

Unset  == "unset"
Values == {"true", "false", "text", ""}

\* A value for some of the keys.
Settings == [Keys -> Values \cup {Unset}]
Nothing  == [k \in Keys |-> Unset]

\* structured: a YAML or JSON file; plain: a file named after its key;
\* hidden: a directory or a dotfile; unreadable; malformed: unparsable YAML.
Kinds == {"structured", "plain", "hidden", "unreadable", "malformed"}

\* unset: no path is given; file: a single file; missing: nothing, or a
\* directory that may not be read.
Paths == {"unset", "directory", "file", "missing"}

ASSUME ConfigAssumption ==
  /\ BoolKeys \subseteq Keys
  /\ Default \in [Keys -> Values]
  /\ Entries \subseteq [kind : Kinds, sets : Settings]
  /\ MaxEntries \in Nat

VARIABLES
  path,        \* what the configuration path leads to
  dir, env,    \* the inputs: the directory in ReadDir order, the environment
  next,        \* the next entry to read
  files,       \* tmp's config layer: the structured files merged so far
  plain,       \* tmp's override layer: the plain files
  merged,      \* v's config layer
  stage,       \* listing, reading, binding, loaded, failed
  config       \* the resulting Config

vars == <<path, dir, env, next, files, plain, merged, stage, config>>

-----------------------------------------------------------------------------

\* Settings s on top of t.
Over(s, t) == [k \in Keys |-> IF s[k] # Unset THEN s[k] ELSE t[k]]

\* Without a path there is no file system to read; os.DirFS fails to list
\* anything but a directory.  (MissingIsEmpty: what is not there has no entries.)
MissingIsEmpty ==
  /\ stage = "listing"
  /\ \/ path = "unset" /\ stage' = "binding"
     \/ path \in {"directory", "missing"} /\ stage' = "reading"
     \/ path = "file" /\ stage' = "failed"
  /\ UNCHANGED <<path, dir, env, next, files, plain, merged, config>>

ReadDir ==
  /\ stage = "listing"
  /\ \/ path = "unset" /\ stage' = "binding"
     \/ path = "directory" /\ stage' = "reading"
     \/ path \in {"file", "missing"} /\ stage' = "failed"
  /\ UNCHANGED <<path, dir, env, next, files, plain, merged, config>>

\* loadFromFS, one entry.  Hidden and unreadable entries are skipped.
\* (EarlierWins: a structured file does not replace what is there.)
EarlierWins(s, t) == Over(t, s)

mergeStructuredFile(s, t) == Over(s, t)

ReadEntry ==
  /\ stage = "reading" /\ next <= Len(dir)
  /\ next' = next + 1
  /\ LET e == dir[next] IN
       /\ files' = IF e.kind = "structured" THEN mergeStructuredFile(e.sets, files) ELSE files
       /\ plain' = IF e.kind = "plain" THEN Over(e.sets, plain) ELSE plain
       /\ stage' = IF e.kind = "malformed" THEN "failed" ELSE stage
  /\ UNCHANGED <<path, dir, env, merged, config>>

\* tmp.AllSettings puts the override layer over the config layer, and one
\* merge writes the result under the environment.
MergeFiles ==
  /\ stage = "reading" /\ next > Len(dir)
  /\ merged' = Over(plain, files)
  /\ stage' = "binding"
  /\ UNCHANGED <<path, dir, env, next, files, plain, config>>

\* An empty environment variable counts as unset.  (EmptyCounts: it does not.)
EmptyCounts == env

BoundEnv == [k \in Keys |-> IF env[k] = "" THEN Unset ELSE env[k]]

Lookup == Over(BoundEnv, Over(merged, Default))

\* Unmarshal decodes weakly: the empty string is false, other text no bool.
Decode(k, v) == IF k \in BoolKeys /\ v = "" THEN "false" ELSE v
Undecodable(k, v) == k \in BoolKeys /\ v = "text"

Unmarshal ==
  /\ stage = "binding"
  /\ IF \E k \in Keys : Undecodable(k, Lookup[k])
       THEN stage' = "failed" /\ UNCHANGED config
       ELSE stage' = "loaded" /\ config' = [k \in Keys |-> Decode(k, Lookup[k])]
  /\ UNCHANGED <<path, dir, env, next, files, plain, merged>>

Init ==
  /\ path \in Paths
  /\ dir \in UNION {[1..n -> Entries] : n \in 0..MaxEntries}
  /\ path # "directory" => dir = <<>>
  /\ env \in Settings
  /\ next = 1 /\ files = Nothing /\ plain = Nothing /\ merged = Nothing
  /\ stage = "listing" /\ config = Nothing

Done == stage \in {"loaded", "failed"} /\ UNCHANGED vars

Next == ReadDir \/ ReadEntry \/ MergeFiles \/ Unmarshal \/ Done

Spec == Init /\ [][Next]_vars /\ WF_vars(Next)

-----------------------------------------------------------------------------

TypeOK ==
  /\ next \in 1..(MaxEntries + 1)
  /\ files \in Settings /\ plain \in Settings /\ merged \in Settings
  /\ stage \in {"listing", "reading", "binding", "loaded", "failed"}
  /\ config \in Settings

\* The value of key k, without layers: the environment; else the plain file
\* named k, wherever it sorts; else the last structured file that has k; else
\* the default.
Sets(kind, k) == {i \in 1..Len(dir) : dir[i].kind = kind /\ dir[i].sets[k] # Unset}
Latest(I) == CHOOSE i \in I : \A j \in I : j <= i

Strongest(k) ==
  IF env[k] \notin {Unset, ""} THEN env[k]
  ELSE IF Sets("plain", k) # {} THEN dir[Latest(Sets("plain", k))].sets[k]
  ELSE IF Sets("structured", k) # {} THEN dir[Latest(Sets("structured", k))].sets[k]
  ELSE Default[k]

\* Defaults, then ConfigMap files, then the environment (LoadFromFS), key by
\* key, whatever the order of the files.
LoadedIsStrongest ==
  stage = "loaded" => \A k \in Keys : config[k] = Decode(k, Strongest(k))

\* Loading fails exactly when the path that is given cannot be listed, a file is
\* malformed or a value that is used cannot be decoded: a bad value that a
\* stronger source covers is harmless, and so is an operator without a path.
FailsOnlyWhenBad ==
  stage \in {"loaded", "failed"} =>
    (stage = "failed" <=>
       \/ path \in {"file", "missing"}
       \/ \E i \in 1..Len(dir) : dir[i].kind = "malformed"
       \/ \E k \in Keys : Undecodable(k, Strongest(k)))
=============================================================================
