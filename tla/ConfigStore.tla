---------------------------- MODULE ConfigStore ----------------------------
(***************************************************************************)
(* gas/config: the tree of values one Config holds (config.go), how maps   *)
(* are merged into it (internal/maputils), the providers that read the     *)
(* environment, a .env file, a JSON file and secrets, and the gasenv       *)
(* extension that resolves the environment around a Load. Binding a struct *)
(* to the tree is module ConfigBind.                                       *)
(*                                                                         *)
(* A tree maps the paths it holds to Branch, a nested map, or to a leaf.   *)
(* Keys are lower case here: two spellings of one key in one document are  *)
(* left out. A reader takes c.mu, so what it can see is the tree between   *)
(* two steps.                                                              *)
(***************************************************************************)
EXTENDS Integers, FiniteSets, SequencesExt

CONSTANTS
    Paths,         \* the paths keys and documents name
    EnvPath,       \* the path of the gasenv key
    AllowedEnvs, DefaultEnv, \* the extension's environments
    Files,         \* contents the JSON file may have: trees
    DotEnvs,       \* contents the .env file may have: sets of variables
    Environs,      \* process environments at the start: sets of variables
    Secrets,       \* what Secrets Manager may hold: sequences of secrets
    Order0,        \* the providers given to New, in order
    Added,         \* the provider given to LoadProvider
    AppendToOSEnv, \* WithDotEnvFileAppendToOSEnv
    MaxLoads, MaxSets

\* A variable is [path, val, unsafe]; a secret is [key, root, raw]: a tree
\* root, or, when raw is not NoRaw, a value that is no JSON object.
CONSTANT NoRaw

Branch == [map |-> TRUE]
NoTree == [p \in {} |-> Branch]
Leaves(t) == {p \in DOMAIN t : t[p] # Branch}

IsPath(path) == path # << >> /\ path \in Seq({path[i] : i \in DOMAIN path})
Parents(path) == {SubSeq(path, 1, n) : n \in 1..Len(path) - 1}
Under(q, p) == p \in Parents(q)

\* What lies in a map lies in maps all the way up.
IsTree(t) ==
    /\ t = [p \in DOMAIN t |-> t[p]]
    /\ \A p \in DOMAIN t : IsPath(p) /\ \A q \in Parents(p) : q \in DOMAIN t /\ t[q] = Branch

Providers == {"env", "dotenv", "json", "secrets"}

ASSUME ConfigAssumption ==
    /\ MaxLoads \in Nat /\ MaxSets \in Nat
    /\ DefaultEnv \in AllowedEnvs /\ "nil" \notin AllowedEnvs
    /\ Files # {} /\ DotEnvs # {} /\ Environs # {} /\ Secrets # {}
    /\ Order0 \in Seq(Providers) /\ Added \in Providers
    /\ \A path \in Paths \cup {EnvPath} : IsPath(path)
    /\ \A t \in Files : IsTree(t)
    /\ \A vars \in DotEnvs \cup Environs : IsFiniteSet(vars) /\ \A var \in vars : IsPath(var.path)
    /\ \A ss \in Secrets :
          /\ ss \in Seq({ss[i] : i \in DOMAIN ss})
          /\ \A i \in DOMAIN ss : /\ IsPath(ss[i].key) \/ ss[i].key = << >>
                                  /\ ss[i].raw = NoRaw => IsTree(ss[i].root)

VARIABLES
    values,     \* c.values
    registered, \* c.providers
    file, dotenv, environ, secrets, \* what the providers read
    currentEnv, \* the extension's currentEnv
    ats,        \* the goroutines: "boot" runs Load, "adder" LoadProvider
    left,       \* the providers a load has yet to read
    loaded,     \* the trees it has read
    resolved,   \* what PostLoad read at EnvPath
    loads,      \* loads begun: their number tags the leaves they merge
    history,    \* the trees each load has merged
    sets        \* calls of Set and SetDefault
storeVars == <<values, registered, file, dotenv, environ, secrets, currentEnv, ats,
               left, loaded, resolved, loads, history, sets>>
sourceVars == <<file, dotenv, environ, secrets>>

Loaders == {"boot", "adder"}

ConfigInit ==
    /\ values = NoTree
    /\ registered = Order0
    /\ file \in Files /\ dotenv \in DotEnvs /\ environ \in Environs /\ secrets \in Secrets
    /\ currentEnv = DefaultEnv
    /\ ats = [t \in Loaders |-> "idle"]
    /\ left = [t \in Loaders |-> << >>] /\ loaded = [t \in Loaders |-> << >>]
    /\ resolved = [env |-> DefaultEnv, set |-> FALSE]
    /\ loads = 0 /\ history = << >> /\ sets = 0

(***************************************************************************)
(* Maps                                                                    *)
(***************************************************************************)
\* A value of dst that src's at the same path does not merge into.
Clash(dst, src, p) == p \in DOMAIN dst /\ ~(dst[p] = Branch /\ src[p] = Branch)

\* Merge: src wins, and what it replaces goes with all that was under it.
Merge(dst, src) ==
    LET gone == {q \in DOMAIN dst : \E p \in DOMAIN src : Clash(dst, src, p) /\ Under(q, p)}
    IN [p \in (DOMAIN dst \ gone) \cup DOMAIN src |->
            IF p \in DOMAIN src THEN src[p] ELSE dst[p]]

\* MergeWithoutOverride: only what is missing, and only under maps.
MergeWithoutOverride(dst, src) ==
    LET missing == {p \in DOMAIN src \ DOMAIN dst :
                       \A q \in Parents(p) : q \in DOMAIN dst => dst[q] = Branch}
    IN [p \in DOMAIN dst \cup missing |-> IF p \in DOMAIN dst THEN dst[p] ELSE src[p]]

\* Merge of one document after another.
MergeInto(t, docs) ==
    LET upto[n \in 0..Len(docs)] == IF n = 0 THEN t ELSE Merge(upto[n - 1], docs[n])
    IN upto[Len(docs)]

\* FindNestedMap finds, or makes, the map path lies in.
Reaches(t, path) == \A q \in Parents(path) : q \in DOMAIN t => t[q] = Branch

\* finalMap[finalKey] = v, the maps on the way made.
Put(t, path, v) ==
    Merge([p \in DOMAIN t \ {path} |-> t[p]],
          [p \in Parents(path) \cup {path} |-> IF p = path THEN v ELSE Branch])

\* Set and SetDefault; a scalar on the way makes them do nothing. What lies
\* under a map that Set replaces goes with it.
Set(t, path, v) ==
    IF Reaches(t, path)
    THEN Put([p \in {q \in DOMAIN t : ~Under(q, path)} |-> t[p]], path, v) ELSE t
SetDefault(t, path, v) == IF Reaches(t, path) /\ path \notin DOMAIN t THEN Put(t, path, v) ELSE t

\* Get, read as a text: nil for a path that is not there, or has a map.
Get(t, path) == IF Reaches(t, path) /\ path \in Leaves(t) THEN t[path].val ELSE "nil"

(***************************************************************************)
(* Providers                                                               *)
(***************************************************************************)
\* BuildNestedMap: a scalar on the way is replaced by a map.
BuildNestedMap(t, var) ==
    LET above == {q \in Parents(var.path) : q \in DOMAIN t /\ t[q] # Branch}
    IN Set([p \in DOMAIN t \ above |-> t[p]], var.path, [val |-> var.val])

\* IsUnsafeVar.
Safe(vars) == {var \in vars : ~var.unsafe}

\* ParseVariables: a Go map has no order, so neither do the variables.
Nesting(s) ==
    LET upto[n \in 0..Len(s)] == IF n = 0 THEN NoTree ELSE BuildNestedMap(upto[n - 1], s[n])
    IN upto[Len(s)]
ParseVariables(vars) == {Nesting(s) : s \in SetToSeqs(Safe(vars))}

\* os.Setenv of each entry of the .env file.
Exported(vars) ==
    {var \in environ : \A new \in Safe(vars) : new.path # var.path} \cup Safe(vars)

\* decodeSecret and nestAtKey.
Nested(key, root) ==
    [p \in {SubSeq(key, 1, n) : n \in 1..Len(key)} \cup {key \o q : q \in DOMAIN root} |->
        IF Len(p) <= Len(key) THEN Branch ELSE root[SubSeq(p, Len(key) + 1, Len(p))]]
decodeSecret(s) ==
    IF s.raw = NoRaw THEN Nested(s.key, s.root) ELSE Put(NoTree, s.key, [val |-> s.raw])
Undecodable(s) == s.raw # NoRaw /\ s.key = << >>

\* load of the Secrets Manager provider.
Fetched(ss) == MergeInto(NoTree, [i \in DOMAIN ss |-> decodeSecret(ss[i])])

\* What a provider's Load may return, with the environment it leaves behind.
LoadEnv == ParseVariables(environ) \X {environ}
LoadDotEnv ==
    ParseVariables(dotenv) \X {IF AppendToOSEnv THEN Exported(dotenv) ELSE environ}
LoadJSON == {<<file, environ>>}
LoadSecrets ==
    IF \E i \in DOMAIN secrets : Undecodable(secrets[i]) THEN {}
    ELSE {<<Fetched(secrets), environ>>}
loadValues(p) ==
    CASE p = "env" -> LoadEnv [] p = "dotenv" -> LoadDotEnv
      [] p = "json" -> LoadJSON [] p = "secrets" -> LoadSecrets

\* The leaves of a provider's tree, tagged with the load and its place in it.
Tagged(t, n, i) == [p \in DOMAIN t |-> IF t[p] = Branch THEN Branch
                                       ELSE [val |-> t[p].val, load |-> n, place |-> i]]
Own(v) == [val |-> v, load |-> 0, place |-> 0]

(***************************************************************************)
(* LoadWithContext                                                         *)
(***************************************************************************)
AtC(t, label) == ats' = [ats EXCEPT ![t] = label]

\* The extension's PreLoad: GAS_ENV, if it is allowed, as a default.
PreLoad ==
    /\ ats["boot"] = "idle" /\ loads < MaxLoads
    /\ \E os \in AllowedEnvs :
          /\ currentEnv' = os
          /\ values' = SetDefault(values, EnvPath, Own(os))
    /\ loads' = loads + 1 /\ history' = Append(history, << >>)
    /\ AtC("boot", "snapshot")
    /\ UNCHANGED <<registered, sourceVars, left, loaded, resolved, sets>>

\* The copy of c.providers, under the read lock.
Snapshot ==
    /\ ats["boot"] = "snapshot"
    /\ left' = [left EXCEPT !["boot"] = registered]
    /\ loaded' = [loaded EXCEPT !["boot"] = << >>]
    /\ AtC("boot", "reading")
    /\ UNCHANGED <<values, registered, sourceVars, currentEnv, resolved, loads, history, sets>>

\* The tree a provider has just returned, in the tree readers see.
\* Fault: it is merged at once.
Shown_now(vs, t, n, i) == Merge(vs, Tagged(t, n, i))
Shown(vs, t, n, i) == vs

\* loadValues, outside the lock.
ReadOne ==
    /\ ats["boot"] = "reading" /\ left["boot"] # << >>
    /\ \E r \in loadValues(Head(left["boot"])) :
          /\ environ' = r[2]
          /\ loaded' = [loaded EXCEPT !["boot"] = Append(@, r[1])]
          /\ values' = Shown(values, r[1], loads, Len(loaded["boot"]) + 1)
    /\ left' = [left EXCEPT !["boot"] = Tail(@)]
    /\ UNCHANGED <<registered, file, dotenv, secrets, currentEnv, ats, resolved, loads,
                   history, sets>>

\* A provider fails: Load returns the error.
ReadFails ==
    /\ ats["boot"] = "reading" /\ left["boot"] # << >>
    /\ AtC("boot", "idle")
    /\ UNCHANGED <<values, registered, sourceVars, currentEnv, left, loaded, resolved,
                   loads, history, sets>>

\* The order a load's trees are merged in.
MergeOrder(ts) == ts

MergeAll ==
    /\ ats["boot"] = "reading" /\ left["boot"] = << >>
    /\ LET docs == loaded["boot"]
           tagged == [i \in DOMAIN docs |-> Tagged(docs[i], loads, i)]
       IN /\ values' = MergeInto(values, MergeOrder(tagged))
          /\ history' = [history EXCEPT ![loads] = docs]
    /\ AtC("boot", "post")
    /\ UNCHANGED <<registered, sourceVars, currentEnv, left, loaded, resolved, loads, sets>>

\* The extension's PostLoad: what a provider set wins if it is allowed.
EnvOf(v) == IF v \in AllowedEnvs THEN v ELSE DefaultEnv

PostLoadReads ==
    /\ ats["boot"] = "post"
    /\ LET v == Get(values, EnvPath)
       IN resolved' = [env |-> EnvOf(v), set |-> EnvOf(v) # v]
    /\ AtC("boot", "resolve")
    /\ UNCHANGED <<values, registered, sourceVars, currentEnv, left, loaded, loads, history,
                   sets>>

PostLoadSets ==
    /\ ats["boot"] = "resolve"
    /\ values' = IF resolved.set THEN Set(values, EnvPath, Own(resolved.env)) ELSE values
    /\ currentEnv' = resolved.env
    /\ AtC("boot", "idle")
    /\ UNCHANGED <<registered, sourceVars, left, loaded, resolved, loads, history, sets>>

(***************************************************************************)
(* LoadProvider, Set, and the world outside                                *)
(***************************************************************************)
AddRead ==
    /\ ats["adder"] = "idle" /\ Added \notin {registered[i] : i \in DOMAIN registered}
    /\ \E r \in loadValues(Added) :
          /\ environ' = r[2]
          /\ loaded' = [loaded EXCEPT !["adder"] = <<r[1]>>]
    /\ AtC("adder", "merge")
    /\ UNCHANGED <<values, registered, file, dotenv, secrets, currentEnv, left, resolved,
                   loads, history, sets>>

\* Registered and merged in one critical section.
AddMerge ==
    /\ ats["adder"] = "merge"
    /\ registered' = Append(registered, Added)
    /\ values' = Merge(values, Tagged(loaded["adder"][1], 0, 0))
    /\ AtC("adder", "done")
    /\ UNCHANGED <<sourceVars, currentEnv, left, loaded, resolved, loads, history, sets>>

SetCalled(path) ==
    /\ sets < MaxSets /\ path # EnvPath /\ ~Under(EnvPath, path)
    /\ values' \in {Set(values, path, Own("set")), SetDefault(values, path, Own("def"))}
    /\ sets' = sets + 1
    /\ UNCHANGED <<registered, sourceVars, currentEnv, ats, left, loaded, resolved, loads,
                   history>>

SetDefaults ==
    /\ sets < MaxSets
    /\ \E t \in Files : values' = MergeWithoutOverride(values, Tagged(t, 0, 0))
    /\ sets' = sets + 1
    /\ UNCHANGED <<registered, sourceVars, currentEnv, ats, left, loaded, resolved, loads,
                   history>>

\* The files are edited and the secrets rotated before the next Load.
Edited ==
    /\ ats["boot"] = "idle" /\ loads \in 1..MaxLoads - 1
    /\ file' \in Files /\ dotenv' \in DotEnvs /\ secrets' \in Secrets
    /\ UNCHANGED <<values, registered, environ, currentEnv, ats, left, loaded, resolved,
                   loads, history, sets>>

ConfigNext ==
    \/ PreLoad \/ Snapshot \/ ReadOne \/ ReadFails \/ MergeAll
    \/ PostLoadReads \/ PostLoadSets
    \/ AddRead \/ AddMerge \/ SetDefaults \/ Edited
    \/ \E path \in Paths : SetCalled(path)

ConfigSpec == ConfigInit /\ [][ConfigNext]_storeVars

\* What EnvIsResolved relies on: no document has a scalar above the path of
\* the environment, and the provider that LoadProvider adds, after which no
\* hook resolves it, has nothing there or under it.
Apart(path) == path # EnvPath /\ EnvPath \notin Parents(path)
Quiet(t) == EnvPath \notin DOMAIN t
Vars == UNION (DotEnvs \cup Environs)
EnvIsLeftAlone ==
    /\ \A var \in Vars : var.path \notin Parents(EnvPath)
    /\ \A t \in Files : Reaches(t, EnvPath)
    /\ \A ss \in Secrets : \A i \in DOMAIN ss :
          ~Undecodable(ss[i]) => Reaches(decodeSecret(ss[i]), EnvPath)
    /\ Added \in {"env", "dotenv"} => \A var \in Vars : Apart(var.path)
    /\ Added = "json" => \A t \in Files : Quiet(t)
    /\ Added = "secrets" => \A ss \in Secrets : \A i \in DOMAIN ss :
                               ~Undecodable(ss[i]) => Quiet(decodeSecret(ss[i]))

(***************************************************************************)
(* Properties                                                              *)
(***************************************************************************)
\* "Every provider is loaded before anything is merged, so a reader never
\* observes a config where an earlier provider has landed but a later one
\* that overrides it has not", and a load that fails merges nothing.
OneLoadLands ==
    \A p \in Leaves(values) : LET v == values[p] IN
        v.load > 0 =>
            /\ v.place \in DOMAIN history[v.load]
            /\ \A i \in DOMAIN history[v.load] : LET later == history[v.load][i] IN
                  i > v.place => /\ p \notin DOMAIN later
                                 /\ \A q \in Parents(p) : q \notin Leaves(later)

\* After a Load the config holds an environment that is allowed, and the
\* extension reports the same one: "a value set by a provider comes first,
\* then the GAS_ENV variable, then" the default. (A Load that fails leaves the
\* extension at GAS_ENV whatever the config holds.)
EnvIsResolved ==
    history # << >> /\ history[loads] # << >> /\ ats["boot"] = "idle" =>
        Get(values, EnvPath) = currentEnv /\ currentEnv \in AllowedEnvs

\* What a reader sees is of one load, and of an environment that is allowed.
ConfigHolds == OneLoadLands /\ EnvIsResolved
=============================================================================
