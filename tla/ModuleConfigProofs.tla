-------------------------- MODULE ModuleConfigProofs --------------------------
(* The layers of the loader come to the strongest source, for directories of *)
(* any size, in any order, and every environment; and what loading fails for. *)
EXTENDS ModuleConfig, SequenceTheorems, TLAPS

\* The entries of a kind that have been read and set k.
Before(kind, k) == {i \in 1..next-1 : dir[i].kind = kind /\ dir[i].sets[k] # Unset}

\* Layer L holds, key by key, what the last of them says.
Holds(L, kind) ==
  \A k \in Keys :
    /\ Before(kind, k) = {} => L[k] = Unset
    /\ Before(kind, k) # {} => /\ Latest(Before(kind, k)) \in Before(kind, k)
                               /\ L[k] = dir[Latest(Before(kind, k))].sets[k]

Inputs ==
  /\ path \in Paths /\ dir \in Seq(Entries) /\ env \in Settings
  /\ path # "directory" => dir = <<>>
  /\ next \in 1..Len(dir) + 1
  /\ files \in Settings /\ plain \in Settings /\ merged \in Settings
  /\ stage \in {"listing", "reading", "binding", "loaded", "failed"}

Layers == Holds(files, "structured") /\ Holds(plain, "plain")

SoFarGood == \A i \in 1..next-1 : dir[i].kind # "malformed"

AllRead ==
  /\ Layers /\ SoFarGood /\ next = Len(dir) + 1
  /\ merged = Over(plain, files)

Bad == \E k \in Keys : Undecodable(k, Lookup[k])

Unlisted == path \in {"file", "missing"}

LoaderInvariant ==
  /\ Inputs
  /\ stage \in {"listing", "reading"} => Layers /\ SoFarGood
  /\ stage = "listing" => next = 1 /\ files = Nothing /\ plain = Nothing /\ merged = Nothing
  /\ stage \in {"reading", "binding", "loaded"} => ~Unlisted
  /\ stage \in {"binding", "loaded"} => AllRead
  /\ stage = "loaded" => ~Bad /\ config = [k \in Keys |-> Decode(k, Lookup[k])]
  /\ stage = "failed" => \/ Unlisted
                         \/ \E i \in 1..Len(dir) : dir[i].kind = "malformed"
                         \/ AllRead /\ Bad

\* Settings over settings are settings.
LEMMA OverType ==
  ASSUME NEW s \in Settings, NEW t \in Settings
  PROVE  Over(s, t) \in Settings
  BY DEF Over, Settings

\* The last of a set of numbers and a larger one.
LEMMA LatestOfMore ==
  ASSUME NEW n \in Nat, NEW I \in SUBSET (1..n-1)
  PROVE  Latest(I \cup {n}) = n
<1>1. \A j \in I \cup {n} : j <= n
  OBVIOUS
<1>2. \A i \in I \cup {n} : (\A j \in I \cup {n} : j <= i) => i = n
  OBVIOUS
<1> QED BY <1>1, <1>2 DEF Latest

\* Reading an entry of the kind puts it on top; any other leaves the layer.
LEMMA EntryRead ==
  ASSUME LoaderInvariant, ReadEntry, NEW kind, NEW L, NEW M,
         Holds(L, kind),
         M = IF dir[next].kind = kind THEN Over(dir[next].sets, L) ELSE L
  PROVE  \A k \in Keys :
           /\ Before(kind, k)' = {} => M[k] = Unset
           /\ Before(kind, k)' # {} => /\ Latest(Before(kind, k)') \in Before(kind, k)'
                                       /\ M[k] = dir'[Latest(Before(kind, k)')].sets[k]
<1>1. /\ dir' = dir /\ next' = next + 1 /\ next \in 1..Len(dir) /\ next \in Nat
      /\ Len(dir) \in Nat
  BY DEF ReadEntry, LoaderInvariant, Inputs
<1> SUFFICES ASSUME NEW k \in Keys
    PROVE /\ Before(kind, k)' = {} => M[k] = Unset
          /\ Before(kind, k)' # {} => /\ Latest(Before(kind, k)') \in Before(kind, k)'
                                      /\ M[k] = dir[Latest(Before(kind, k)')].sets[k]
  BY <1>1
<1> DEFINE B == Before(kind, k)
<1>2. B \subseteq 1..next-1
  BY DEF Before
<1>3. CASE dir[next].kind = kind /\ dir[next].sets[k] # Unset
  <2>1. Before(kind, k)' = B \cup {next}
    BY <1>1, <1>3 DEF Before
  <2>2. Latest(B \cup {next}) = next
    BY <1>1, <1>2, LatestOfMore
  <2>3. M[k] = dir[next].sets[k]
    BY <1>3 DEF Over
  <2> QED BY <2>1, <2>2, <2>3
<1>4. CASE ~(dir[next].kind = kind /\ dir[next].sets[k] # Unset)
  <2>1. Before(kind, k)' = B
    BY <1>1, <1>4 DEF Before
  <2>2. M[k] = L[k]
    BY <1>4 DEF Over
  <2> QED BY <2>1, <2>2 DEF Holds
<1> QED BY <1>3, <1>4

\* The layers depend on what has been read alone.
LEMMA LayersKept ==
  ASSUME Layers, SoFarGood, UNCHANGED <<dir, next, files, plain>>
  PROVE  Layers' /\ SoFarGood'
<1>1. \A kind, k : Before(kind, k)' = Before(kind, k)
  BY DEF Before
<1>2. SoFarGood'
  BY DEF SoFarGood
<1>3. Holds(files, "structured")' /\ Holds(plain, "plain")'
  BY <1>1 DEF Layers, Holds
<1> QED BY <1>2, <1>3 DEF Layers

\* With all entries read, viper's lookup is the strongest source.
LEMMA LookupIsStrongest ==
  ASSUME Inputs, AllRead, NEW k \in Keys
  PROVE  Lookup[k] = Strongest(k)
<1>1. /\ Before("plain", k) = Sets("plain", k)
      /\ Before("structured", k) = Sets("structured", k)
  BY DEF Before, Sets, AllRead, Inputs
<1>2. /\ Sets("plain", k) = {} => plain[k] = Unset
      /\ Sets("plain", k) # {} => plain[k] # Unset /\ plain[k] = dir[Latest(Sets("plain", k))].sets[k]
  BY <1>1 DEF AllRead, Layers, Holds, Before
<1>3. /\ Sets("structured", k) = {} => files[k] = Unset
      /\ Sets("structured", k) # {} =>
           files[k] # Unset /\ files[k] = dir[Latest(Sets("structured", k))].sets[k]
  BY <1>1 DEF AllRead, Layers, Holds, Before
<1>4. merged[k] = IF plain[k] # Unset THEN plain[k] ELSE files[k]
  BY DEF AllRead, Over
<1>5. Lookup[k] = IF BoundEnv[k] # Unset THEN BoundEnv[k]
                  ELSE IF merged[k] # Unset THEN merged[k] ELSE Default[k]
  BY DEF Lookup, Over
<1>6. BoundEnv[k] = IF env[k] = "" THEN Unset ELSE env[k]
  BY DEF BoundEnv
<1> QED BY <1>2, <1>3, <1>4, <1>5, <1>6 DEF Strongest

\* Nothing is read at first.
LEMMA InitLoader == Init => LoaderInvariant
<1> SUFFICES ASSUME Init PROVE LoaderInvariant
  OBVIOUS
<1>1. PICK n \in 0..MaxEntries : dir \in [1..n -> Entries]
  BY DEF Init
<1>2. dir \in Seq(Entries)
  BY <1>1, SeqDef, ConfigAssumption
<1>3. Len(dir) \in Nat
  BY <1>2
<1>4. Nothing \in Settings
  BY DEF Nothing, Settings
<1>5. \A kind, k : Before(kind, k) = {}
  BY DEF Init, Before
<1>6. Layers /\ SoFarGood
  BY <1>5 DEF Init, Layers, Holds, SoFarGood, Nothing
<1> QED BY <1>1, <1>2, <1>3, <1>4, <1>6 DEF Init, LoaderInvariant, Inputs

\* Every step of loading reads on or decides by what was read.
LEMMA NextLoader == LoaderInvariant /\ [Next]_vars => LoaderInvariant'
<1> SUFFICES ASSUME LoaderInvariant, [Next]_vars PROVE LoaderInvariant'
  OBVIOUS
<1>0. Len(dir) \in Nat /\ next \in Nat
  BY DEF LoaderInvariant, Inputs
<1>1. CASE ReadEntry
  <2>1. /\ stage = "reading" /\ next \in 1..Len(dir) /\ next' = next + 1
        /\ UNCHANGED <<path, dir, env, merged, config>>
    BY <1>0, <1>1 DEF ReadEntry, LoaderInvariant, Inputs
  <2>2. dir[next] \in Entries /\ dir[next].sets \in Settings
    BY <2>1, ConfigAssumption DEF LoaderInvariant, Inputs
  <2>3. Inputs'
    <3>1. files' \in Settings /\ plain' \in Settings
      BY <1>1, <2>2, OverType DEF ReadEntry, LoaderInvariant, Inputs, mergeStructuredFile
    <3>2. stage' \in {"reading", "failed"}
      BY <1>1, <2>1 DEF ReadEntry
    <3> QED BY <1>0, <2>1, <3>1, <3>2 DEF LoaderInvariant, Inputs
  <2>4. Holds(files, "structured")'
    <3>1. files' = IF dir[next].kind = "structured" THEN Over(dir[next].sets, files) ELSE files
      BY <1>1 DEF ReadEntry, mergeStructuredFile
    <3>2. Holds(files, "structured")
      BY <2>1 DEF LoaderInvariant, Layers
    <3>3. \A k \in Keys :
            /\ Before("structured", k)' = {} => files'[k] = Unset
            /\ Before("structured", k)' # {} =>
                 /\ Latest(Before("structured", k)') \in Before("structured", k)'
                 /\ files'[k] = dir'[Latest(Before("structured", k)')].sets[k]
      BY <1>1, <3>1, <3>2, EntryRead
    <3> QED BY <3>3 DEF Holds
  <2>5. Holds(plain, "plain")'
    <3>1. plain' = IF dir[next].kind = "plain" THEN Over(dir[next].sets, plain) ELSE plain
      BY <1>1 DEF ReadEntry
    <3>2. Holds(plain, "plain")
      BY <2>1 DEF LoaderInvariant, Layers
    <3>3. \A k \in Keys :
            /\ Before("plain", k)' = {} => plain'[k] = Unset
            /\ Before("plain", k)' # {} =>
                 /\ Latest(Before("plain", k)') \in Before("plain", k)'
                 /\ plain'[k] = dir'[Latest(Before("plain", k)')].sets[k]
      BY <1>1, <3>1, <3>2, EntryRead
    <3> QED BY <3>3 DEF Holds
  <2>6. CASE dir[next].kind = "malformed"
    <3>1. stage' = "failed"
      BY <1>1, <2>6 DEF ReadEntry
    <3> QED BY <2>1, <2>3, <2>6, <3>1 DEF LoaderInvariant, Unlisted
  <2>7. CASE dir[next].kind # "malformed"
    <3>1. stage' = "reading"
      BY <1>1, <2>1, <2>7 DEF ReadEntry
    <3>2. SoFarGood'
      BY <1>0, <2>1, <2>7 DEF LoaderInvariant, SoFarGood
    <3>3. ~Unlisted'
      BY <2>1 DEF LoaderInvariant, Unlisted
    <3> QED BY <2>3, <2>4, <2>5, <3>1, <3>2, <3>3 DEF LoaderInvariant, Layers
  <2> QED BY <2>6, <2>7
<1>2. CASE MergeFiles
  <2>1. /\ stage = "reading" /\ stage' = "binding" /\ next = Len(dir) + 1
        /\ merged' = Over(plain, files) /\ UNCHANGED <<path, dir, env, next, files, plain, config>>
    BY <1>0, <1>2 DEF MergeFiles, LoaderInvariant, Inputs
  <2>2. merged' \in Settings
    BY <2>1, OverType DEF LoaderInvariant, Inputs
  <2>3. Layers' /\ SoFarGood'
    BY <2>1, LayersKept DEF LoaderInvariant
  <2> QED BY <2>1, <2>2, <2>3 DEF LoaderInvariant, Inputs, AllRead, Over, Unlisted
<1>3. CASE Unmarshal
  <2>1. /\ stage = "binding" /\ UNCHANGED <<path, dir, env, next, files, plain, merged>>
        /\ AllRead /\ Inputs
    BY <1>3 DEF Unmarshal, LoaderInvariant
  <2>2. AllRead' /\ Lookup' = Lookup
    BY <2>1, LayersKept DEF AllRead, Over, Lookup, BoundEnv
  <2>3. CASE Bad
    <3>1. stage' = "failed" /\ Bad'
      BY <1>3, <2>2, <2>3 DEF Unmarshal, Bad, Undecodable
    <3> QED BY <2>1, <2>2, <3>1 DEF LoaderInvariant, Inputs
  <2>4. CASE ~Bad
    <3>1. /\ stage' = "loaded" /\ ~Bad'
          /\ config' = [k \in Keys |-> Decode(k, Lookup[k])]
      BY <1>3, <2>2, <2>4 DEF Unmarshal, Bad, Undecodable
    <3>2. config' = [k \in Keys |-> Decode(k, Lookup'[k])]
      BY <2>2, <3>1
    <3> QED BY <2>1, <2>2, <3>1, <3>2 DEF LoaderInvariant, Inputs, Decode, Unlisted
  <2> QED BY <2>3, <2>4
<1>4. CASE Done \/ UNCHANGED vars
  <2>1. UNCHANGED vars
    BY <1>4 DEF Done
  <2>2. Layers /\ SoFarGood => Layers' /\ SoFarGood'
    BY <2>1, LayersKept DEF vars
  <2>3. AllRead => AllRead'
    BY <2>1, <2>2 DEF vars, AllRead, Over
  <2>4. Lookup' = Lookup /\ (Bad <=> Bad')
    BY <2>1 DEF vars, Lookup, Over, BoundEnv, Bad, Undecodable
  <2>5. [k \in Keys |-> Decode(k, Lookup[k])]' = [k \in Keys |-> Decode(k, Lookup[k])]
    BY <2>4 DEF Decode
  <2> QED BY <2>1, <2>2, <2>3, <2>4, <2>5 DEF vars, LoaderInvariant, Inputs, Unlisted
<1>5. CASE ReadDir
  <2>1. /\ stage = "listing" /\ stage' \in {"reading", "binding", "failed"}
        /\ UNCHANGED <<path, dir, env, next, files, plain, merged, config>>
        /\ stage' \in {"reading", "binding"} <=> ~Unlisted
        /\ stage' = "binding" => path = "unset"
    BY <1>5 DEF ReadDir, LoaderInvariant, Inputs, Unlisted, Paths
  <2>2. Inputs'
    BY <2>1 DEF LoaderInvariant, Inputs
  <2>3. Layers' /\ SoFarGood'
    BY <2>1, LayersKept DEF LoaderInvariant
  <2>4. stage' = "binding" => AllRead'
    <3> SUFFICES ASSUME stage' = "binding" PROVE AllRead'
      OBVIOUS
    <3>1. dir = <<>> /\ next = 1 /\ merged = Over(plain, files)
      BY <2>1 DEF LoaderInvariant, Inputs, Over, Nothing
    <3> QED BY <2>1, <2>3, <3>1 DEF AllRead, Over
  <2> QED BY <2>1, <2>2, <2>3, <2>4 DEF LoaderInvariant, Unlisted
<1> QED BY <1>1, <1>2, <1>3, <1>4, <1>5 DEF Next

\* What the layers hold after each entry.
THEOREM LoaderInvariance == Spec => []LoaderInvariant
  BY InitLoader, NextLoader, PTL DEF Spec

\* What is loaded is, key by key, what the strongest source says.
THEOREM StrongestLoaded == Spec => []LoadedIsStrongest
<1>1. LoaderInvariant => LoadedIsStrongest
  BY LookupIsStrongest DEF LoaderInvariant, LoadedIsStrongest
<1> QED BY <1>1, LoaderInvariance, PTL

\* Loading fails for a path that cannot be listed, a malformed file or a bad
\* value that is used, and for nothing else.
THEOREM FailureIsBad == Spec => []FailsOnlyWhenBad
<1>1. LoaderInvariant => FailsOnlyWhenBad
  <2> SUFFICES ASSUME LoaderInvariant
               PROVE  FailsOnlyWhenBad
    OBVIOUS
  <2>1. AllRead => (Bad <=> \E k \in Keys : Undecodable(k, Strongest(k)))
    BY LookupIsStrongest DEF LoaderInvariant, Bad
  <2>2. stage = "loaded" =>
          /\ ~Unlisted
          /\ ~\E i \in 1..Len(dir) : dir[i].kind = "malformed"
          /\ ~\E k \in Keys : Undecodable(k, Strongest(k))
    BY <2>1 DEF LoaderInvariant, AllRead, SoFarGood, Inputs
  <2>3. stage = "failed" =>
          \/ Unlisted
          \/ \E i \in 1..Len(dir) : dir[i].kind = "malformed"
          \/ \E k \in Keys : Undecodable(k, Strongest(k))
    BY <2>1 DEF LoaderInvariant
  <2> QED BY <2>2, <2>3 DEF FailsOnlyWhenBad, Unlisted
<1> QED BY <1>1, LoaderInvariance, PTL

===============================================================================
