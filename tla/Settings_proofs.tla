-------------------------- MODULE Settings_proofs --------------------------
(***************************************************************************)
(* What start builds is sound, whatever the layers say together.           *)
(*                                                                         *)
(* Nothing writes the options once a command runs, so what Validate has    *)
(* seen still holds when the client is made; and SASL settings of Clowder  *)
(* are in the options only if Clowder gave a protocol, too.                *)
(***************************************************************************)
EXTENDS Settings, TLAPS

Validated ==
    /\ ConsumerValid
    /\ ClientValid
    /\ kafka.sasl = "clowder" =>
           On("consumer.auth.enabled") /\ options["consumer.auth.sasl"] = "clowder"

Connected ==
    /\ Mode \in {"oidc", "tls"} => CertificateNamed
    /\ connection = IF Mode = "none" THEN Nowhere ELSE Connection(Mode)

SettingsInv ==
    /\ clowder \in ClowdApps
    /\ options = [k \in Keys |-> options[k]]
    /\ phase = "injecting" => options = NewOptions
    /\ options["consumer.auth.sasl"] = "clowder" => clowder.protocol
    /\ phase \in {"injecting", "binding", "parsing", "reading", "start"} =>
           kafka.sasl # "clowder"
    /\ DOMAIN flags \subseteq Keys
    /\ "consumer.auth.sasl" \in DOMAIN flags => flags["consumer.auth.sasl"] # "clowder"
    /\ phase = "reading" => command \in {"start", "readyz"}
    /\ phase \in {"connecting", "consuming", "standby"} => Validated
    /\ phase \in {"consuming", "standby"} => Connected
    /\ phase = "consuming" => On("consumer.enabled")

\* A layer names keys, and its SASL settings are its own.
LEMMA LayerGives ==
    ASSUME NEW base, NEW layer, NEW K \in SUBSET Keys, NEW n,
           DOMAIN base \subseteq Keys,
           "consumer.auth.sasl" \notin DOMAIN base,
           NEW f \in LayersNear(base, layer, K, n)
    PROVE  /\ DOMAIN f \subseteq Keys
           /\ "consumer.auth.sasl" \in DOMAIN f =>
                  f["consumer.auth.sasl"] \in {"", layer}
<1>1. PICK D \in UNION {kSubset(i, K) : i \in 0 .. n} :
         f \in {Over(g, Restrict(base, DOMAIN base \ D)) :
                   g \in UNION {Saying(layer, E) : E \in SUBSET D}}
  BY DEF LayersNear
<1>2. D \subseteq Keys
  BY <1>1 DEF kSubset
<1>3. PICK g \in UNION {Saying(layer, E) : E \in SUBSET D} :
         f = Over(g, Restrict(base, DOMAIN base \ D))
  BY <1>1
<1>4. PICK E \in SUBSET D : g \in Saying(layer, E)
  BY <1>3
<1>5. DOMAIN g = E /\ \A k \in E : g[k] \in Given(k, layer)
  BY <1>4 DEF Saying
<1>6. Given("consumer.auth.sasl", layer) \subseteq {"", layer}
  BY DEF Given, Switches, Lists
<1>7. DOMAIN Restrict(base, DOMAIN base \ D) = DOMAIN base \ D
  BY DEF Restrict
<1>8. /\ DOMAIN f = E \union (DOMAIN base \ D)
      /\ \A k \in E : f[k] = g[k]
  BY <1>3, <1>5, <1>7 DEF Over
<1>9. QED
  BY <1>2, <1>5, <1>6, <1>8

Sasl == "consumer.auth.sasl"

\* Options over options are options, and what a layer does not name is left.
LEMMA OverGives ==
    ASSUME NEW f, NEW o, DOMAIN f \subseteq Keys, o = [k \in Keys |-> o[k]]
    PROVE  /\ Over(f, o) = [k \in Keys |-> Over(f, o)[k]]
           /\ Over(f, o)[Sasl] = IF Sasl \in DOMAIN f THEN f[Sasl] ELSE o[Sasl]
<1>1. DOMAIN o = Keys /\ Sasl \in Keys
  BY DEF Sasl, Keys
<1>2. QED
  BY <1>1 DEF Over

\* No layer but Clowder's gives Clowder's SASL settings.
LEMMA LayersAreNotClowder ==
    ASSUME NEW o, o = [k \in Keys |-> o[k]],
           NEW base \in {NoLayer, BaseFile},
           NEW layer \in {"flag", "env", "file"}, NEW K \in SUBSET Keys, NEW n,
           NEW f \in LayersNear(base, layer, K, n)
    PROVE  /\ Over(f, o) = [k \in Keys |-> Over(f, o)[k]]
           /\ Over(f, o)[Sasl] = "clowder" => o[Sasl] = "clowder"
           /\ DOMAIN f \subseteq Keys
           /\ Sasl \in DOMAIN f => f[Sasl] # "clowder"
<1>1. DOMAIN base \subseteq Keys /\ Sasl \notin DOMAIN base
  BY DEF BaseFile, NoLayer, Keys, Sasl, Switches, Lists, ClientKeys
<1>2. /\ DOMAIN f \subseteq Keys
      /\ Sasl \in DOMAIN f => f[Sasl] \in {"", layer}
  BY <1>1, LayerGives DEF Sasl
<1>3. QED
  BY <1>2, OverGives

\* The first state.
LEMMA SettingsInit == Init => SettingsInv
<1>1. "consumer.auth.sasl" \in Keys
  BY DEF Keys
<1>2. ~ "consumer.auth.sasl" \in Switches
  BY DEF Switches
<1>3. NewOptions["consumer.auth.sasl"] = ""
  BY <1>1, <1>2 DEF NewOptions
<1>4. NewOptions = [k \in Keys |-> NewOptions[k]]
  BY DEF NewOptions
<1>5. ASSUME Init PROVE SettingsInv
  <2>1. options = [k \in Keys |-> options[k]] /\ options["consumer.auth.sasl"] = ""
    BY <1>3, <1>4, <1>5 DEF Init
  <2>2. DOMAIN flags = {}
    BY <1>5 DEF Init, NoLayer
  <2>3. /\ phase = "injecting" /\ options = NewOptions /\ kafka.sasl = ""
        /\ clowder \in ClowdApps
    BY <1>5 DEF Init
  <2>4. QED
    BY <2>1, <2>2, <2>3 DEF SettingsInv
<1>6. QED
  BY <1>5

\* Steps of root.go.
LEMMA LayerStep ==
    ASSUME SettingsInv,
           InjectClowdAppConfig \/ BindPFlags \/ Execute \/ Initialize
    PROVE  SettingsInv'
<1>1. CASE InjectClowdAppConfig
  <2>1. options' = Injected(options, clowder)
    BY <1>1 DEF InjectClowdAppConfig
  <2>2. options' = [k \in Keys |-> options'[k]]
    BY <2>1 DEF Injected, SettingsInv
  <2>5. /\ options'[Sasl] = IF clowder.protocol /\ clowder.sasl THEN "clowder"
                                                               ELSE options[Sasl]
    <3>1. Sasl \in Keys /\ DOMAIN options = Keys
      BY DEF Sasl, Keys, SettingsInv
    <3>2. QED
      BY <2>1, <3>1 DEF Injected, Sasl
  <2>3. options'[Sasl] = "clowder" => clowder.protocol
    BY <2>5 DEF SettingsInv, Sasl
  <2>4. QED
    BY <1>1, <2>2, <2>3 DEF InjectClowdAppConfig, SettingsInv, Sasl, layerVars
<1>2. CASE BindPFlags
  BY <1>2 DEF BindPFlags, SettingsInv, layerVars
<1>3. CASE Execute
  <2>1. FlagsOf(command') \in SUBSET Keys
    BY DEF FlagsOf, Keys
  <2>2. /\ options' = [k \in Keys |-> options'[k]]
        /\ options'[Sasl] = "clowder" => options[Sasl] = "clowder"
        /\ DOMAIN flags' \subseteq Keys
        /\ Sasl \in DOMAIN flags' => flags'[Sasl] # "clowder"
    <3>1. options = [k \in Keys |-> options[k]]
      BY DEF SettingsInv
    <3>2. /\ flags' \in LayersNear(NoLayer, "flag", FlagsOf(command'), 1)
          /\ options' = Over(flags', options)
      BY <1>3 DEF Execute
    <3>3. QED
      BY <2>1, <3>1, <3>2, LayersAreNotClowder
  <2>3. /\ phase = "parsing" /\ phase' = "reading" /\ kafka' = kafka /\ clowder' = clowder
        /\ command' \in {"start", "readyz"}
    BY <1>3 DEF Execute
  <2>4. QED
    BY <2>2, <2>3 DEF SettingsInv, Sasl
<1>4. CASE Initialize
  <2> DEFINE changed == Restrict(flags, {k \in DOMAIN flags : bound[k] = command})
             o1 == Over(file', options)
             o2 == Over(env', o1)
  <2>1. Keys \in SUBSET Keys
    OBVIOUS
  <2>2. o1 = [k \in Keys |-> o1[k]] /\ (o1[Sasl] = "clowder" => options[Sasl] = "clowder")
    BY <1>4, <2>1, LayersAreNotClowder DEF Initialize, SettingsInv
  <2> HIDE DEF o1
  <2>3. o2 = [k \in Keys |-> o2[k]] /\ (o2[Sasl] = "clowder" => options[Sasl] = "clowder")
    <3>1. env' \in LayersNear(NoLayer, "env", Keys, 1)
      BY <1>4 DEF Initialize
    <3>2. QED
      BY <2>1, <2>2, <3>1, LayersAreNotClowder
  <2>4. options' = Over(changed, o2)
    BY <1>4 DEF Initialize, Unmarshal, o1
  <2> HIDE DEF o2
  <2>5. /\ DOMAIN changed \subseteq DOMAIN flags
        /\ Sasl \in DOMAIN changed => changed[Sasl] = flags[Sasl]
    BY DEF Restrict
  <2> HIDE DEF changed
  <2>6. /\ DOMAIN flags \subseteq Keys
        /\ Sasl \in DOMAIN flags => flags[Sasl] # "clowder"
    BY <1>4 DEF Initialize, SettingsInv, Sasl
  <2>7. /\ options' = [k \in Keys |-> options'[k]]
        /\ options'[Sasl] = "clowder" => options[Sasl] = "clowder"
    BY <2>3, <2>4, <2>5, <2>6, OverGives
  <2>8. QED
    BY <1>4, <2>7 DEF Initialize, SettingsInv, Sasl
<1>5. QED
  BY <1>1, <1>2, <1>3, <1>4

\* Steps of the commands, which leave the options as they are.
LEMMA CommandStep ==
    ASSUME SettingsInv,
           \/ Fails \/ Validate \/ NewClient
           \/ NotEnabled \/ Probe \/ Livez \/ UNCHANGED vars
    PROVE  SettingsInv'
<1>1. CASE Fails
  BY <1>1 DEF Fails, SettingsInv, layerVars
<1>2. CASE Validate
  <2>1. ConsumerValid /\ ClientValid /\ phase = "start" /\ kafka.sasl # "clowder"
    BY <1>2 DEF Validate, SettingsInv
  <2>2. /\ UNCHANGED <<options, clowder, flags, command>>
        /\ phase' = "connecting"
    BY <1>2 DEF Validate, layerVars
  <2>3. ConsumerValid' /\ ClientValid'
    BY <2>1, <2>2 DEF ConsumerValid, ClientValid, On, Empty
  <2>4. ASSUME kafka'.sasl = "clowder"
        PROVE  (On("consumer.auth.enabled") /\ options["consumer.auth.sasl"] = "clowder")'
    <3>1. On("consumer.auth.enabled") /\ options["consumer.auth.sasl"] = "clowder"
      BY <1>2, <2>1, <2>4 DEF Validate
    <3>2. QED
      BY <2>2, <3>1 DEF On
  <2>5. Validated'
    BY <2>3, <2>4 DEF Validated
  <2>6. QED
    BY <2>2, <2>5 DEF SettingsInv
<1>3. CASE NewClient
  <2>1. /\ UNCHANGED <<options, clowder, flags, command, kafka>>
        /\ phase' = IF On("consumer.enabled") THEN "consuming" ELSE "standby"
        /\ phase = "connecting"
    BY <1>3 DEF NewClient, layerVars
  <2>2. Validated'
    BY <2>1 DEF SettingsInv, Validated, ConsumerValid, ClientValid, On, Empty
  <2>3. Connected'
    <3>1. Mode' = Mode
      BY <2>1 DEF Mode, On
    <3>2. /\ CertificateNamed' = CertificateNamed
          /\ Connection(Mode)' = Connection(Mode)
      BY <2>1, <3>1 DEF CertificateNamed, Empty, Connection
    <3>3. /\ Mode \in {"oidc", "tls"} => CertificateNamed
          /\ connection' = IF Mode = "none" THEN Nowhere ELSE Connection(Mode)
      BY <1>3 DEF NewClient
    <3>4. QED
      BY <3>1, <3>2, <3>3 DEF Connected, Nowhere
  <2>4. phase' = "consuming" => On("consumer.enabled")'
    BY <2>1 DEF On
  <2>5. QED
    BY <2>1, <2>2, <2>3, <2>4 DEF SettingsInv
<1>4. CASE NotEnabled \/ Probe \/ Livez
  BY <1>4 DEF NotEnabled, Probe, Livez, SettingsInv, layerVars
<1>5. CASE UNCHANGED vars
  BY <1>5 DEF vars, layerVars, SettingsInv, Validated, Connected, ConsumerValid,
              ClientValid, On, Empty, Mode, CertificateNamed, Connection
<1>6. QED
  BY <1>1, <1>2, <1>3, <1>4, <1>5

\* What the invariant says of the ends of start.
LEMMA InvStartsSound == SettingsInv => StartsSound
<1> SUFFICES ASSUME SettingsInv, phase \in {"consuming", "standby"}
             PROVE  StartsSound
  BY DEF StartsSound
<1>1. Validated /\ Connected
  BY DEF SettingsInv
<1>2. connection.mode = Mode /\ (Mode # "none" => connection.url = options["client.url"])
  BY <1>1 DEF Connected, Connection, Nowhere
<1>3. /\ Mode = "none" <=> ~On("client.enabled")
      /\ On("client.enabled") /\ On("client.enable-oidc-auth") => Mode = "oidc"
  BY DEF Mode
<1>4. phase = "consuming" => ~Empty("consumer.bootstrap-servers")
                             /\ ~Empty("consumer.topics")
  BY <1>1 DEF SettingsInv, Validated, ConsumerValid
<1>5. options["consumer.commit-modulo"] # "0"
  BY <1>1 DEF Validated, ConsumerValid
<1>6. connection.mode # "none" => connection.url # ""
  BY <1>1, <1>2, <1>3 DEF Validated, ClientValid, Empty
<1>7. kafka.sasl = "clowder" => On("consumer.auth.enabled") /\ clowder.protocol
  BY <1>1 DEF SettingsInv, Validated
<1>8. On("client.enabled") /\ On("client.enable-oidc-auth") =>
          connection.mode = "oidc" /\ CertificateNamed
  BY <1>1, <1>2, <1>3 DEF Connected
<1>9. connection.mode = "none" <=> ~On("client.enabled")
  BY <1>2, <1>3
<1>10. QED
  BY <1>4, <1>5, <1>6, <1>7, <1>8, <1>9 DEF StartsSound

\* Whatever file, environment, flags and Clowder say together, however many
\* keys they name: what start builds is sound.
THEOREM StartBuildsSoundly == Spec => []StartsSound
<1>1. SettingsInv /\ [Next]_vars => SettingsInv'
  BY LayerStep, CommandStep
     DEF Next, NoConfigFile, StartFails, ReadyzFails
<1>2. QED
  BY <1>1, SettingsInit, InvStartsSound, PTL DEF Spec

-----------------------------------------------------------------------------
(***************************************************************************)
(* Which layer an option is from.                                          *)
(***************************************************************************)
\* Three layers over what names the key.
LEMMA OverThrice ==
    ASSUME NEW e, NEW f, NEW g, NEW d, NEW k \in DOMAIN d
    PROVE  Over(e, Over(f, Over(g, d)))[k]
               = IF k \in DOMAIN e THEN e[k]
                 ELSE IF k \in DOMAIN f THEN f[k]
                 ELSE IF k \in DOMAIN g THEN g[k] ELSE d[k]
<1> DEFINE h == Over(g, d)
           i == Over(f, h)
<1>1. k \in DOMAIN h /\ h[k] = IF k \in DOMAIN g THEN g[k] ELSE d[k]
  BY DEF Over
<1> HIDE DEF h
<1>2. k \in DOMAIN i /\ i[k] = IF k \in DOMAIN f THEN f[k] ELSE h[k]
  BY <1>1 DEF Over
<1> HIDE DEF i
<1>3. Over(e, i)[k] = IF k \in DOMAIN e THEN e[k] ELSE i[k]
  BY <1>2 DEF Over
<1>4. QED
  BY <1>1, <1>2, <1>3 DEF i, h

Setup == {"injecting", "binding", "parsing", "reading"}

\* What the struct holds when an option is as FirstLayerWins says.
Layered ==
    \A k \in Keys :
        options[k] = IF FlagComesLast(k)
                     THEN Over(env, Over(file, Over(flags, Defaults)))[k]
                     ELSE Over(flags, Over(env, Over(file, Defaults)))[k]

\* What the struct holds in each phase, and which flags viper knows: those of
\* the command that ran, of the keys it has.
LayersInv ==
    /\ phase \in Setup => file = NoLayer
    /\ phase = "injecting" => options = NewOptions
    /\ phase \in {"binding", "parsing"} => options = Defaults
    /\ phase \in {"parsing", "reading"} => bound = [k \in Keys |-> LastBound(k)]
    /\ phase = "reading" => /\ command \in {"start", "readyz"}
                            /\ DOMAIN flags \subseteq FlagsOf(command)
                            /\ options = Over(flags, Defaults)
    /\ file # NoLayer => phase \notin Setup /\ Layered

\* The defaults name every key.
LEMMA DefaultsNameKeys == DOMAIN NewOptions = Keys /\ DOMAIN Defaults = Keys
  BY DEF Defaults, Injected, NewOptions

LEMMA LayersInit == Init => LayersInv
  BY DEF Init, LayersInv, Setup

\* A layer of flags names only flags the command has.
LEMMA FlagsGiven ==
    ASSUME NEW K \in SUBSET Keys, NEW f \in LayersNear(NoLayer, "flag", K, 1)
    PROVE  DOMAIN f \subseteq K
<1>1. PICK D \in UNION {kSubset(i, K) : i \in 0 .. 1} :
         f \in {Over(g, Restrict(NoLayer, DOMAIN NoLayer \ D)) :
                   g \in UNION {Saying("flag", E) : E \in SUBSET D}}
  BY DEF LayersNear
<1>2. D \subseteq K
  BY <1>1 DEF kSubset
<1>3. PICK g \in UNION {Saying("flag", E) : E \in SUBSET D} :
         f = Over(g, Restrict(NoLayer, DOMAIN NoLayer \ D))
  BY <1>1
<1>4. DOMAIN g \subseteq D
  BY <1>3 DEF Saying
<1>5. DOMAIN Restrict(NoLayer, DOMAIN NoLayer \ D) = {}
  BY DEF Restrict, NoLayer
<1>6. QED
  BY <1>2, <1>3, <1>4, <1>5 DEF Over

\* What Unmarshal makes of the layers: the flags it takes for given are, of
\* start, those readyz has not got, and of readyz, all of them.
LEMMA UnmarshalLayers ==
    ASSUME command \in {"start", "readyz"}, DOMAIN flags \subseteq FlagsOf(command),
           bound = [k \in Keys |-> LastBound(k)],
           NEW e, NEW f, NEW k \in Keys
    PROVE  Unmarshal(Over(flags, Defaults), e, f)[k]
               = IF FlagComesLast(k)
                 THEN Over(e, Over(f, Over(flags, Defaults)))[k]
                 ELSE Over(flags, Over(e, Over(f, Defaults)))[k]
<1> DEFINE changed == Restrict(flags, {j \in DOMAIN flags : bound[j] = command})
           value   == IF k \in DOMAIN e THEN e[k]
                      ELSE IF k \in DOMAIN f THEN f[k] ELSE Defaults[k]
<1>1. k \in DOMAIN Defaults
  BY DefaultsNameKeys
<1>2. /\ DOMAIN changed = {j \in DOMAIN flags : bound[j] = command}
      /\ k \in DOMAIN changed => changed[k] = flags[k]
  BY DEF Restrict
<1>3. k \in DOMAIN changed <=> k \in DOMAIN flags /\ ~FlagComesLast(k)
  BY <1>2 DEF LastBound, FlagsOf, FlagComesLast
<1> HIDE DEF changed
<1>4. /\ Over(e, Over(f, Over(flags, Defaults)))[k]
             = IF k \in DOMAIN e THEN e[k] ELSE IF k \in DOMAIN f THEN f[k]
               ELSE IF k \in DOMAIN flags THEN flags[k] ELSE Defaults[k]
      /\ Over(flags, Over(e, Over(f, Defaults)))[k]
             = IF k \in DOMAIN flags THEN flags[k] ELSE value
  BY <1>1, OverThrice
<1> DEFINE below == Over(e, Over(f, Over(flags, Defaults)))
<1>5. k \in DOMAIN below
  BY <1>1 DEF Over
<1>6. Unmarshal(Over(flags, Defaults), e, f)[k]
          = IF k \in DOMAIN changed THEN changed[k] ELSE below[k]
  <2>1. Unmarshal(Over(flags, Defaults), e, f) = Over(changed, below)
    BY DEF Unmarshal, changed
  <2> HIDE DEF below
  <2>2. QED
    BY <1>5, <2>1 DEF Over
<1>7. CASE FlagComesLast(k)
  BY <1>3, <1>6, <1>7
<1>8. CASE ~FlagComesLast(k)
  BY <1>2, <1>3, <1>4, <1>6, <1>8
<1>9. QED
  BY <1>7, <1>8

\* Every step keeps to the layers.
LEMMA LayersNext == LayersInv /\ [Next]_vars => LayersInv'
<1> SUFFICES ASSUME LayersInv, [Next]_vars PROVE LayersInv'
  OBVIOUS
<1>1. CASE InjectClowdAppConfig
  BY <1>1 DEF InjectClowdAppConfig, LayersInv, Setup, Defaults, layerVars
<1>2. CASE BindPFlags
  BY <1>2 DEF BindPFlags, LayersInv, Setup, Defaults, layerVars
<1>3. CASE Execute
  <2>1. FlagsOf(command') \in SUBSET Keys
    BY DEF FlagsOf, Keys
  <2>2. DOMAIN flags' \subseteq FlagsOf(command')
    BY <1>3, <2>1, FlagsGiven DEF Execute
  <2>3. QED
    BY <1>3, <2>2 DEF Execute, LayersInv, Setup, Defaults
<1>4. CASE Initialize
  <2>1. /\ command \in {"start", "readyz"} /\ DOMAIN flags \subseteq FlagsOf(command)
        /\ bound = [k \in Keys |-> LastBound(k)]
        /\ options' = Unmarshal(Over(flags, Defaults), env', file')
        /\ phase' = command
    BY <1>4 DEF Initialize, LayersInv
  <2>2. UNCHANGED <<command, flags, clowder, bound>>
    BY <1>4 DEF Initialize
  <2>3. Defaults' = Defaults /\ \A k : FlagComesLast(k)' = FlagComesLast(k)
    BY <2>2 DEF Defaults, FlagComesLast
  <2>4. Layered'
    BY <2>1, <2>2, <2>3, UnmarshalLayers DEF Layered
  <2>5. QED
    BY <2>1, <2>4 DEF LayersInv, Setup
<1>5. ASSUME UNCHANGED <<command, options, layerVars>>,
             \/ phase' \notin Setup
             \/ UNCHANGED <<phase, bound>>
      PROVE  LayersInv'
  BY <1>5 DEF LayersInv, Layered, Setup, Defaults, FlagComesLast, layerVars
<1>6. CASE Fails
  BY <1>5, <1>6 DEF Fails, Setup
<1>7. CASE Validate \/ NewClient \/ NotEnabled \/ Probe \/ Livez
  BY <1>5, <1>7 DEF Validate, NewClient, NotEnabled, Probe, Livez, Setup
<1>8. CASE UNCHANGED vars
  BY <1>5, <1>8 DEF vars
<1>9. QED
  BY <1>1, <1>2, <1>3, <1>4, <1>6, <1>7, <1>8
  DEF Next, NoConfigFile, StartFails, ReadyzFails

\* However many keys the layers name: an option has the value of the first
\* layer that names it, but for the client flags of start, which come last.
THEOREM FirstLayerDecides == Spec => []FirstLayerWins
<1>1. LayersInv => FirstLayerWins
  BY DEF LayersInv, FirstLayerWins, Configured, Layered
<1>2. QED
  BY <1>1, LayersInit, LayersNext, PTL DEF Spec
=============================================================================
