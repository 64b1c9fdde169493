----------------------------- MODULE MCRequests -----------------------------
(***************************************************************************)
(* The application side: what is registered and built, how the App serves, *)
(* what one request does, who it is let in as (credentials, API keys), the *)
(* example api-server's handlers, and where its configuration comes from   *)
(* and goes to. The modules share no state: each behaviour runs one of     *)
(* them, chosen at the start, and leaves the others as they were.          *)
(***************************************************************************)
EXTENDS Registration, AppServer, Requests, Credentials, ApiKeys, FileSharing,
        ConfigStore, ConfigBind, TLC

VARIABLE part  \* the component that runs
vars == <<regVars, appVars, requestVars, credVars, keyVars, shareVars, storeVars, bindVars, part>>

Parts == {"registration", "server", "requests", "credentials", "keys", "sharing", "config", "binding"}

(***************************************************************************)
(* Registration: structs a, b and w, the interfaces i and h                *)
(***************************************************************************)
Assignable == "a" :> {"i", "h"} @@ "b" :> {"i", "h"} @@ "i" :> {"h"} @@ "h" :> {} @@ "w" :> {}
Constructor(t, takes) ==
    [form |-> "func", outs |-> 1, lastIsError |-> FALSE, returns |-> t, takes |-> takes]
SomeConstructors ==
    {Constructor("a", << >>), Constructor("a", <<"i">>), Constructor("b", <<"a", "a">>),
     Constructor("b", <<"h", "a">>), Constructor("h", <<"a">>), Constructor("w", << >>),
     [Constructor("a", << >>) EXCEPT !.outs = 3]}

(***************************************************************************)
(* Requests: a handler takes repo, which takes conn                        *)
(***************************************************************************)
RepoTakesConn == "conn" :> << >> @@ "repo" :> <<"conn">> @@ "log" :> << >>
TakesRepo == <<"repo">>

\* ApiKeys: scopes that need trimming, and one with a comma inside.
SomeScopeLists == {<< >>, <<"">>, <<" read", "write">>, <<"read,write">>}

\* FileSharing: u1 owns every file.
OwnedByU1 == [f \in SharedFiles |-> "u1"]

(***************************************************************************)
(* Config: a JSON file, a .env file, the environment, Secrets Manager      *)
(***************************************************************************)
Db == <<"db">>
Host == <<"db", "host">>
Port == <<"db", "port">>
GasEnv == <<"gasenv">>
Zone == <<"gasenv", "zone">>
SomePaths == {Db, Host, Port, GasEnv, Zone}
LeafOf(v) == [val |-> v]
Variable(path, v) == [path |-> path, val |-> v, unsafe |-> FALSE]
Secret(key, root, raw) == [key |-> key, root |-> root, raw |-> raw]
SomeFiles ==
    {Db :> Branch @@ Host :> LeafOf("json"), Db :> LeafOf("json") @@ GasEnv :> LeafOf("bogus"),
     GasEnv :> Branch @@ Zone :> LeafOf("prod")}
SomeDotEnvs ==
    {{Variable(Host, "dot"), [path |-> <<"path">>, val |-> "dot", unsafe |-> TRUE]},
     {Variable(GasEnv, "prod")}}
SomeEnvirons == {{Variable(Db, "env"), Variable(Port, "env")}}
SomeSecrets == {<<Secret(Db, <<"host">> :> LeafOf("sec"), "none"), Secret(Port, NoTree, "sec")>>}
FileThenEnv == <<"json", "dotenv", "env">>

\* What EnvIsResolved relies on is so here.
ASSUME NothingAroundTheEnvironment == EnvIsLeftAlone

(***************************************************************************)
(* Bind: structs, and documents with a value of every kind somewhere       *)
(***************************************************************************)
Int2 == [kind |-> "int", bits |-> 2]
Float == [kind |-> "float"]
Bool == [kind |-> "bool"]
Pointer(T) == [kind |-> "ptr", elem |-> T]
Int4 == [kind |-> "int", bits |-> 4]
Uint2 == [kind |-> "uint", bits |-> 2]
String == [kind |-> "string"]
FieldOf(name, tag, T) == [name |-> name, tag |-> tag, embed |-> FALSE, exported |-> TRUE, type |-> T]
Structure(fields) == [kind |-> "struct", fields |-> fields]
SomeStructs ==
    {<<FieldOf("A", "none", Int2), FieldOf("B", "d", Uint2),
       FieldOf("C", "none", [kind |-> "slice", elem |-> Int2])>>,
     <<FieldOf("A", "none", Structure(<<FieldOf("B", "c", Int4), FieldOf("A", "none", String)>>)),
       FieldOf("B", "none", Pointer([kind |-> "array", len |-> 2, elem |-> Bool])),
       FieldOf("C", "d", [kind |-> "dur"])>>,
     <<[FieldOf("A", "none", Pointer(Structure(<<FieldOf("D", "none", [kind |-> "any"]),
                                                FieldOf("A", "none", Float)>>)))
            EXCEPT !.embed = TRUE],
       FieldOf("C", "none", [kind |-> "map", elem |-> Int4]), FieldOf("B", "B", Int4)>>}

Letters == <<"A", "B", "C", "D", "a", "b", "c", "d">>
LowerCase == [l \in SeqRange(Letters) |->
    CASE l = "A" -> "a" [] l = "B" -> "b" [] l = "C" -> "c" [] l = "D" -> "d" [] OTHER -> l]

IntOf(n) == [kind |-> "int", n |-> n]
UintOf(n) == [kind |-> "uint", n |-> n]
FloatOf(halves) == [kind |-> "float", halves |-> halves]
TextOf(parts) == [kind |-> "text", parts |-> parts]
ListOf(items) == [kind |-> "list", items |-> items]
MapOf(entries) == [kind |-> "map", at |-> entries]
BoolOf(b) == [kind |-> "bool", b |-> b]
Digits(halves) == Scalar("number", halves)
AWord(n) == Scalar("word", n)
SomeDocuments ==
    {"a" :> IntOf(1) @@ "b" :> UintOf(3) @@ "c" :> ListOf(<<IntOf(1), IntOf(7)>>)
         @@ "d" :> TextOf(<<Digits(2)>>),
     "a" :> TextOf(<<Digits(4)>>) @@ "c" :> TextOf(<<Digits(2), Digits(0), AWord(0)>>),
     "a" :> FloatOf(40) @@ "b" :> FloatOf(3),
     "a" :> MapOf("c" :> IntOf(5) @@ "a" :> TextOf(<<AWord(0)>>)) @@ "b" :> ListOf(<<BoolOf(TRUE)>>)
         @@ "c" :> MapOf("a" :> IntOf(3) @@ "b" :> IntOf(3)),
     "c" :> ListOf(<<IntOf(1), IntOf(0)>>) @@ "d" :> TextOf(<<Scalar("unit", 4)>>) @@ "b" :> Nil,
     "a" :> IntOf(9) @@ "c" :> MapOf("a" :> IntOf(3) @@ "b" :> TextOf(<<AWord(0)>>)),
     "a" :> IntOf(2) @@ "d" :> IntOf(3)}
SomeRawMaps ==
    {<<"A", MapOf("A" :> TextOf(<<AWord(1)>>) @@ "B" :> IntOf(6) @@ "b" :> IntOf(2))>>,
     <<"A", MapOf("C" :> IntOf(6) @@ "b" :> IntOf(2))>>}

(***************************************************************************)
(* The composition                                                         *)
(***************************************************************************)
Init ==
    /\ part \in Parts
    /\ RegInit /\ AppInit /\ RequestsInit /\ ShareInit
    /\ CredInit
    /\ part # "credentials" => kind = CHOOSE k \in Kinds : TRUE
    /\ KeyInit
    /\ part # "keys" => driver = "sqlite"
    /\ ConfigInit
    /\ part # "config" => file = (CHOOSE f \in Files : TRUE) /\ dotenv = (CHOOSE d \in DotEnvs : TRUE)
    /\ BindInit
    /\ part # "binding" => type = (CHOOSE s \in Structs : TRUE) /\ cast = 0

RegistrationRuns ==
    /\ part = "registration" /\ RegNext
    /\ UNCHANGED <<appVars, requestVars, credVars, keyVars, shareVars, storeVars, bindVars, part>>
ServerRuns ==
    /\ part = "server" /\ AppNext
    /\ UNCHANGED <<regVars, requestVars, credVars, keyVars, shareVars, storeVars, bindVars, part>>
RequestsRun ==
    /\ part = "requests" /\ RequestsNext
    /\ UNCHANGED <<regVars, appVars, credVars, keyVars, shareVars, storeVars, bindVars, part>>
CredentialsRun ==
    /\ part = "credentials" /\ CredNext
    /\ UNCHANGED <<regVars, appVars, requestVars, keyVars, shareVars, storeVars, bindVars, part>>
KeysRun ==
    /\ part = "keys" /\ KeyNext
    /\ UNCHANGED <<regVars, appVars, requestVars, credVars, shareVars, storeVars, bindVars, part>>
SharingRuns ==
    /\ part = "sharing" /\ ShareNext
    /\ UNCHANGED <<regVars, appVars, requestVars, credVars, keyVars, storeVars, bindVars, part>>
ConfigRuns ==
    /\ part = "config" /\ ConfigNext
    /\ UNCHANGED <<regVars, appVars, requestVars, credVars, keyVars, shareVars, bindVars, part>>
BindingRuns ==
    /\ part = "binding" /\ BindNext
    /\ UNCHANGED <<regVars, appVars, requestVars, credVars, keyVars, shareVars, storeVars, part>>

Next ==
    \/ RegistrationRuns \/ ServerRuns \/ RequestsRun \/ CredentialsRun
    \/ KeysRun \/ SharingRuns \/ ConfigRuns \/ BindingRuns

Spec == Init /\ [][Next]_vars
=============================================================================
