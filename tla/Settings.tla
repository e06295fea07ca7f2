------------------------------ MODULE Settings ------------------------------
(***************************************************************************)
(* How the commands get their settings, and what they build from them:     *)
(* cmd/root.go, cmd/readyz.go, the setup half of cmd/start.go, and the     *)
(* options and configs of internal/config, internal/client and consumer.   *)
(*                                                                         *)
(* There is one struct of options.  NewOptions fills it, Clowder writes    *)
(* into it, the flags of both commands point into it, and viper.Unmarshal  *)
(* writes into it what it finds for a key: the flag bound to the key if    *)
(* that very flag was given, the environment, the file, or else whatever   *)
(* the bound flag points at, which is the struct itself.                   *)
(*                                                                         *)
(* A layer is a function from the keys it names to their values.  One key  *)
(* stands for several where the code treats them alike: consumer.auth.sasl *)
(* for mechanism, user name and password.  A text option is empty or the   *)
(* name of the layer that gave it.                                         *)
(***************************************************************************)
EXTENDS FiniteSetsExt, Naturals

CONSTANT MaxChanges   \* bound: keys a file changes in or omits from BaseFile

ASSUME ChangesAssumption == MaxChanges \in Nat

Switches ==
    {"client.enabled", "client.insecure-client", "client.enable-oidc-auth",
     "consumer.enabled", "consumer.auth.enabled"}

Lists == {"consumer.bootstrap-servers", "consumer.topics"}

ClientKeys ==
    {"client.enabled", "client.url", "client.insecure-client",
     "client.ca-cert-file", "client.enable-oidc-auth"}

Keys ==
    ClientKeys \union Switches \union Lists \union
    {"consumer.commit-modulo", "consumer.auth.security-protocol",
     "consumer.auth.sasl"}

\* One layer over another.
Over(layer, below) ==
    [k \in DOMAIN layer \union DOMAIN below |->
        IF k \in DOMAIN layer THEN layer[k] ELSE below[k]]

\* AddFlags of the options each command has.
FlagsOf(c) == IF c = "start" THEN Keys ELSE ClientKeys

\* consumer.NewOptions, client.NewOptions, auth.NewOptions.
NewOptions ==
    [k \in Keys |->
        CASE k \in {"client.enabled", "consumer.enabled"}  -> "true"
          [] k \in Switches                                -> "false"
          [] k = "consumer.commit-modulo"                  -> "10"
          [] OTHER                                         -> ""]

\* The keys and values of .inventory-consumer.yaml.
BaseFile ==
    [k \in Switches \union Lists \union {"client.url"} |->
        CASE k \in {"client.enabled", "consumer.enabled",
                    "client.insecure-client"}              -> "true"
          [] k \in Switches                                -> "false"
          [] OTHER                                         -> "file"]

\* What a layer can say about a key.
Given(k, layer) ==
    IF k \in Switches THEN {"true", "false"}
    ELSE IF k = "consumer.commit-modulo" THEN {"0", "10"}
    ELSE IF k \in Lists \/ layer = "env" THEN {layer}
    ELSE {"", layer}

NoLayer == [k \in {} |-> ""]

Saying(layer, D) ==
    {f \in [D -> UNION {Given(k, layer) : k \in D}] :
        \A k \in D : f[k] \in Given(k, layer)}

\* The layers that differ from base in up to n keys of K.
LayersNear(base, layer, K, n) ==
    UNION {{Over(f, Restrict(base, DOMAIN base \ D)) :
               f \in UNION {Saying(layer, E) : E \in SUBSET D}} :
           D \in UNION {kSubset(i, K) : i \in 0 .. n}}

\* What Clowder says of Kafka: whether there are brokers, and whether the
\* first of them has a security protocol and SASL settings.
ClowdApps ==
    {a \in [brokers : BOOLEAN, protocol : BOOLEAN, sasl : BOOLEAN] :
        a.protocol \/ a.sasl => a.brokers}

VARIABLES
    phase,       \* of the process, by the action that is next
    command,     \* "start" or "readyz"
    bound,       \* viper's flag for each key: the command whose flag it is
    options,     \* the struct
    clowder, flags, env, file,   \* the layers, as far as they are read
    kafka,       \* what Complete puts into the Kafka settings
    connection   \* to Inventory

layerVars == <<clowder, flags, env, file>>
vars      == <<phase, command, bound, options, layerVars, kafka, connection>>

Nowhere == [mode |-> "none", url |-> ""]

Init ==
    /\ phase = "injecting"
    /\ command = "none"
    /\ bound = [k \in Keys |-> "none"]
    /\ options = NewOptions
    /\ clowder \in ClowdApps
    /\ flags = NoLayer
    /\ env = NoLayer
    /\ file = NoLayer
    /\ kafka = [protocol |-> "", sasl |-> ""]
    /\ connection = Nowhere

Fails ==
    /\ phase' = "failed"
    /\ UNCHANGED <<command, bound, options, layerVars, kafka, connection>>

-----------------------------------------------------------------------------
(***************************************************************************)
(* The layers: root.go and internal/config.                                *)
(***************************************************************************)
\* ConfigureConsumer: all brokers; protocol and SASL of the first, and SASL
\* only with a protocol.
Injected(o, app) ==
    [o EXCEPT !["consumer.bootstrap-servers"] = IF app.brokers THEN "clowder" ELSE "",
              !["consumer.auth.security-protocol"] =
                    IF app.protocol THEN "clowder" ELSE @,
              !["consumer.auth.sasl"] =
                    IF app.protocol /\ app.sasl THEN "clowder" ELSE @]

InjectClowdAppConfig ==
    /\ phase = "injecting"
    /\ options' = Injected(options, clowder)
    /\ phase' = "binding"
    /\ UNCHANGED <<command, bound, layerVars, kafka, connection>>

\* Mutant: readyz is set up before start.
LastBound_ReadyzFirst(k) == "start"

\* init binds the flags of start and then those of readyz, which take over
\* the keys both have.
LastBound(k) == IF k \in FlagsOf("readyz") THEN "readyz" ELSE "start"

BindPFlags ==
    /\ phase = "binding"
    /\ bound' = [k \in Keys |-> LastBound(k)]
    /\ phase' = "parsing"
    /\ UNCHANGED <<command, options, layerVars, kafka, connection>>

\* Execute: the flags of the command are written into the struct.
Execute ==
    /\ phase = "parsing"
    /\ command' \in {"start", "readyz"}
    /\ flags' \in LayersNear(NoLayer, "flag", FlagsOf(command'), 1)
    /\ options' = Over(flags', options)
    /\ phase' = "reading"
    /\ UNCHANGED <<bound, clowder, env, file, kafka, connection>>

\* viper.Unmarshal: what it finds for each key goes into the struct.
Unmarshal(o, e, f) ==
    LET changed == Restrict(flags, {k \in DOMAIN flags : bound[k] = command})
    IN  Over(changed, Over(e, Over(f, o)))

Initialize ==
    /\ phase = "reading"
    /\ env' \in LayersNear(NoLayer, "env", Keys, 1)
    /\ file' \in LayersNear(BaseFile, "file", Keys, MaxChanges)
    /\ options' = Unmarshal(options, env', file')
    /\ phase' = command
    /\ UNCHANGED <<command, bound, clowder, flags, kafka, connection>>

\* The file is missing or malformed.
NoConfigFile == phase = "reading" /\ Fails

-----------------------------------------------------------------------------
(***************************************************************************)
(* The start command, up to the start of the consumer.                     *)
(***************************************************************************)
On(key) == options[key] = "true"

Empty(key) == options[key] = ""

\* Validate of the consumer's options.  (Mutant: brokers are left to Clowder.)
ConsumerValid_NoBrokers ==
    /\ On("consumer.enabled") => ~Empty("consumer.topics")
    /\ options["consumer.commit-modulo"] # "0"

ConsumerValid ==
    /\ On("consumer.enabled") => /\ ~Empty("consumer.bootstrap-servers")
                                 /\ ~Empty("consumer.topics")
    /\ options["consumer.commit-modulo"] # "0"

\* Validate of the client's options.
ClientValid ==
    /\ On("client.enabled") => ~Empty("client.url")
    /\ ~(On("client.enable-oidc-auth") /\ On("client.insecure-client"))

Validate ==
    /\ phase = "start"
    /\ ConsumerValid
    /\ ClientValid
    /\ kafka' = IF On("consumer.auth.enabled")
                THEN [protocol |-> options["consumer.auth.security-protocol"],
                      sasl |-> options["consumer.auth.sasl"]]
                ELSE kafka
    /\ phase' = "connecting"
    /\ UNCHANGED <<command, bound, options, layerVars, connection>>

\* A CA file that is not named cannot be read; one that is may fail to be.
CertificateNamed == ~Empty("client.ca-cert-file")

Connection(mode) == [mode |-> mode, url |-> options["client.url"]]

\* The way client.New connects.
Mode ==
    IF ~On("client.enabled") THEN "none"
    ELSE IF On("client.enable-oidc-auth") THEN "oidc"
    ELSE IF On("client.insecure-client") THEN "insecure"
    ELSE "tls"

NewClient ==
    /\ phase = "connecting"
    /\ Mode \in {"oidc", "tls"} => CertificateNamed
    /\ connection' = IF Mode = "none" THEN Nowhere ELSE Connection(Mode)
    /\ phase' = IF On("consumer.enabled") THEN "consuming" ELSE "standby"
    /\ UNCHANGED <<command, bound, options, layerVars, kafka>>

\* The options are refused, or the client cannot be built.
StartFails ==
    /\ \/ phase = "start" /\ ~(ConsumerValid /\ ClientValid)
       \/ phase = "connecting" /\ Mode # "none"
    /\ Fails

-----------------------------------------------------------------------------
(***************************************************************************)
(* The readyz command.                                                     *)
(***************************************************************************)
\* A client that is disabled is ready.
NotEnabled ==
    /\ phase = "readyz"
    /\ ClientValid
    /\ ~On("client.enabled")
    /\ phase' = "ready"
    /\ UNCHANGED <<command, bound, options, layerVars, kafka, connection>>

\* TLS if there is a CA file, whatever the insecure flag says.  (Of the url
\* the probe keeps the host, and asks at the port of the health service.)
Probe ==
    /\ phase = "readyz"
    /\ ClientValid
    /\ On("client.enabled")
    /\ connection' = Connection(IF Empty("client.ca-cert-file") THEN "insecure" ELSE "tls")
    /\ phase' = "asking"
    /\ UNCHANGED <<command, bound, options, layerVars, kafka>>

\* GetLivez answers with a code of 2xx.
Livez ==
    /\ phase = "asking"
    /\ phase' = "ready"
    /\ UNCHANGED <<command, bound, options, layerVars, kafka, connection>>

\* The options are refused, the connection cannot be made, or the answer is
\* missing, late or another.
ReadyzFails ==
    /\ \/ phase = "readyz" /\ (~ClientValid \/ On("client.enabled"))
       \/ phase = "asking"
    /\ Fails

Next ==
    \/ InjectClowdAppConfig \/ BindPFlags \/ Execute \/ Initialize \/ NoConfigFile
    \/ Validate \/ NewClient \/ StartFails
    \/ NotEnabled \/ Probe \/ Livez \/ ReadyzFails

Spec == Init /\ [][Next]_vars

-----------------------------------------------------------------------------
(***************************************************************************)
(* Properties.                                                             *)
(***************************************************************************)
Configured == phase \notin {"injecting", "binding", "parsing", "reading"} /\ file # NoLayer

\* Whatever the order of binding and writing, an option has the value of the
\* first layer that names it: flags, environment, file, Clowder, defaults.
\* But viper knows the client flags of start by those of readyz, which were
\* not given: of them it sees only what they wrote into the struct, and they
\* come after the environment and the file.
Defaults == Injected(NewOptions, clowder)

FlagComesLast(k) == command = "start" /\ k \in ClientKeys

FirstLayerWins ==
    Configured =>
        \A k \in Keys :
            options[k] = IF FlagComesLast(k)
                         THEN Over(env, Over(file, Over(flags, Defaults)))[k]
                         ELSE Over(flags, Over(env, Over(file, Defaults)))[k]

\* Whatever the layers say together, the consumer is started only with
\* brokers and topics, with the positive commit modulo that InventoryConsumer
\* assumes, and with a client that is off, or has an address, or carries a
\* token over nothing but TLS; and Kafka credentials are used only when asked.
StartsSound ==
    phase \in {"consuming", "standby"} =>
        /\ options["consumer.commit-modulo"] # "0"
        /\ phase = "consuming" => ~Empty("consumer.bootstrap-servers")
                                  /\ ~Empty("consumer.topics")
        /\ connection.mode = "none" <=> ~On("client.enabled")
        /\ connection.mode # "none" => connection.url # ""
        /\ On("client.enabled") /\ On("client.enable-oidc-auth") =>
               connection.mode = "oidc" /\ CertificateNamed
        /\ kafka.sasl = "clowder" => On("consumer.auth.enabled") /\ clowder.protocol

=============================================================================
