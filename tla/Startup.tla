-------------------------------- MODULE Startup --------------------------------
(***************************************************************************)
(* How a process becomes a node (src/main.rs, src/config, src/auth and the *)
(* configuration part of src/broker/core.rs): the command line, the file   *)
(* and the environment, their merge with the defaults, the validation, and *)
(* what is then parsed and computed from the settings: addresses, the      *)
(* validator of API keys and the two timeouts.                             *)
(*                                                                         *)
(* Module NodeProcess goes on from there; its LoadConfig and StartBroker   *)
(* are this module with everything but success and failure left out.       *)
(*                                                                         *)
(* An optional value is a set of at most one element.  A source, such as   *)
(* the file, maps every setting to an optional value; a section is a       *)
(* setting too, present or not.  An address is "good" or does not parse.   *)
(* The environment is a source for each prefix that a variable's name may  *)
(* have before SECTION__KEY; which of them counts is the crate's rule.     *)
(***************************************************************************)
EXTENDS Integers, Sequences, SequencesExt

CONSTANTS
  Token,         \* the words of a command line
  MaxArgs,       \* bound: the length of a command line
  Key,           \* API keys
  Hash,          \* SHA-256 of each key
  Files,         \* what a configuration file may give
  Environments,  \* what the environment may give, under each prefix
  Builds         \* whether the build checks arithmetic for overflow

Section == {"node", "mqtt", "auth", "cluster"}
Required == {"node", "mqtt", "auth"}

\* The settings that decide how the start goes on.
Address == {"listen_addr", "public_addr", "bind_addr"}
Limit == {"max_connections", "router_buffer_size"}
Switch == {"require_auth", "enabled"}
Setting == Section \cup Address \cup Limit \cup Switch
             \cup {"keepalive_secs", "max_qos", "api_keys", "bridge"}

Word == 65536
MaxU16 == Word - 1

\* A number of seconds as a u64: two 16-bit words and whatever is above them.
Seconds == [above: Nat, high: 0..MaxU16, low: 0..MaxU16]

IsOption(o, S) == \A v \in o : v \in S /\ o = {v}
The(o) == CHOOSE v \in o : TRUE

IsSource(src) ==
  /\ DOMAIN src = Setting
  /\ \A s \in Section : IsOption(src[s], {TRUE})
  /\ \A s \in Address : IsOption(src[s], {"good", "bad"})
  /\ \A s \in Limit : IsOption(src[s], Nat)
  /\ \A s \in Switch : IsOption(src[s], BOOLEAN)
  /\ IsOption(src["keepalive_secs"], 0..MaxU16)
  /\ IsOption(src["max_qos"], 0..255)
  /\ IsOption(src["api_keys"], SUBSET Key)
  /\ IsOption(src["bridge"], Seq(Seconds))

\* The prefix that --help, the comment in load_config and the documents name,
\* and the one with the separator "__" behind the name of the program.
Documented == "OTTERWATCH_MQTT_"
Separated == "OTTERWATCH_MQTT__"

IsEnvironment(e) == \A prefix \in {Documented, Separated} : IsSource(e[prefix])

ASSUME StartupAssumption ==
  /\ MaxArgs \in Nat
  /\ \A src \in Files : IsSource(src)
  /\ \A e \in Environments : IsEnvironment(e)
  /\ \A k, l \in Key : Hash[k] = Hash[l] => k = l
  /\ Builds \subseteq BOOLEAN

VARIABLES
  stage,      \* where main is: a part of the start, "ready" or "ended"
  exit,       \* how an ended process ended
  argv,       \* the command line
  i,          \* the word that Args::parse looks at
  path,       \* config_path, optional
  file,       \* the source that was read as the file, optional
  env,        \* the environment that was read, optional
  config,     \* the configuration
  validator,  \* the validator of API keys
  timeouts    \* of clients and of the bridge, in ms, optional

inputs == <<argv, i, path>>
sources == <<file, env, config>>
products == <<validator, timeouts>>
vars == <<stage, exit, inputs, sources, products>>

Nothing == [s \in Setting |-> {}]

Init ==
  /\ stage = "args" /\ exit = "none"
  /\ argv \in BoundedSeq(Token, MaxArgs) /\ i = 1
  /\ path = {} /\ file = {} /\ env = {}
  /\ config = Nothing
  /\ validator = [hashes |-> {}, required |-> TRUE]
  /\ timeouts = [client |-> {}, bridge |-> {}]

End(how) == stage' = "ended" /\ exit' = how
Go(next) == stage' = next /\ UNCHANGED exit

-----------------------------------------------------------------------------
(* The command line.                                                       *)

\* Mutant: a second file is ignored.
TakeFile_FirstCounts ==
  /\ stage = "args" /\ i <= Len(argv) /\ argv[i] = "-c"
  /\ path' = IF i < Len(argv) /\ path = {} THEN {argv[i + 1]} ELSE path
  /\ i' = i + 2
  /\ Go("args")
  /\ UNCHANGED <<argv, sources, products>>

\* -c takes the next word, whatever it is; without one it says nothing.
TakeFile ==
  /\ stage = "args" /\ i <= Len(argv) /\ argv[i] = "-c"
  /\ path' = IF i < Len(argv) THEN {argv[i + 1]} ELSE path
  /\ i' = i + 2
  /\ Go("args")
  /\ UNCHANGED <<argv, sources, products>>

\* -h and -v print and end; so does any other word, as an error.
TakeOther ==
  /\ stage = "args" /\ i <= Len(argv) /\ argv[i] # "-c"
  /\ End(IF argv[i] \in {"-h", "-v"} THEN "success" ELSE "error")
  /\ UNCHANGED <<inputs, sources, products>>

\* The vector of words is local to the parser.
EndParse ==
  /\ stage = "args" /\ i > Len(argv)
  /\ Go("load")
  /\ argv' = <<>> /\ i' = 1
  /\ UNCHANGED <<path, sources, products>>

-----------------------------------------------------------------------------
(* The configuration.                                                      *)

\* A source over another one.
Layer(lower, upper) == [s \in Setting |-> IF upper[s] = {} THEN lower[s] ELSE upper[s]]

\* The defaults of the schema.  bind_addr has two: of a [cluster] section that
\* leaves it out, and of an absent section, which is the derived Default with
\* an empty address.
Default(given) ==
  [s \in Setting |->
     CASE s \in Section \cup {"public_addr"} -> {}
       [] s = "listen_addr" -> {"good"}
       [] s = "max_connections" -> {10000}
       [] s = "router_buffer_size" -> {50000}
       [] s = "keepalive_secs" -> {30}
       [] s = "max_qos" -> {1}
       [] s = "api_keys" -> {{}}
       [] s = "require_auth" -> {TRUE}
       [] s = "enabled" -> {FALSE}
       [] s = "bind_addr" -> IF given["cluster"] = {} THEN {"bad"} ELSE {"good"}
       [] s = "bridge" -> {<<>>}]

\* try_deserialize: [node], [mqtt] and [auth] have no default as a section.
Deserializes(given) == \A s \in Required : given[s] # {}

\* Mutant: a required key that nobody has passes.
Validates_NoKeys(c) ==
  /\ c["max_connections"] # {0}
  /\ c["router_buffer_size"] # {0}
  /\ The(c["max_qos"]) <= 2

\* validate_config
Validates(c) ==
  /\ c["max_connections"] # {0}
  /\ c["router_buffer_size"] # {0}
  /\ The(c["max_qos"]) <= 2
  /\ ~ (c["require_auth"] = {TRUE} /\ c["api_keys"] = {{}})

\* config::Environment with a prefix, a separator and no prefix_separator: the
\* separator stands behind the prefix too, and every other name is ignored.
FromEnvironment(e) == e[Separated]

\* Mutant: the file over the environment.
ReadSources_FileWins ==
  /\ stage = "load"
  /\ \E f \in {{}} \cup {{src} : src \in Files}, e \in Environments :
       /\ file' = f /\ env' = {e}
       /\ config' = Layer(FromEnvironment(e), IF f = {} THEN Nothing ELSE The(f))
       /\ (Go("settle") /\ (f = {} => path = {})) \/ End("error")
  /\ UNCHANGED <<inputs, products>>

\* load_config up to build.  A file named on the command line must be there, the
\* default one need not.  What is there, or in the environment, may not parse.
ReadSources ==
  /\ stage = "load"
  /\ \E f \in {{}} \cup {{src} : src \in Files}, e \in Environments :
       /\ file' = f /\ env' = {e}
       /\ config' = Layer(IF f = {} THEN Nothing ELSE The(f), FromEnvironment(e))
       /\ (Go("settle") /\ (f = {} => path = {})) \/ End("error")
  /\ UNCHANGED <<inputs, products>>

\* The rest of load_config: the defaults, and the checks.
Settle ==
  /\ stage = "settle"
  /\ config' = Layer(Default(config), config)
  /\ IF Deserializes(config) /\ Validates(config') THEN Go("coordinator") ELSE End("error")
  /\ UNCHANGED <<inputs, file, env, products>>

-----------------------------------------------------------------------------
(* The coordinator and the broker.                                         *)

Advertised == IF config["public_addr"] = {} THEN config["listen_addr"] ELSE config["public_addr"]

\* Mutant: the address of the cluster is parsed on every node.
NewCoordinator_Always ==
  /\ stage = "coordinator"
  /\ IF Advertised = {"good"} /\ config["bind_addr"] = {"good"}
       THEN Go("broker")
       ELSE End("panic")
  /\ UNCHANGED <<inputs, sources, products>>

\* main parses the address to advertise, and ClusterCoordinator::new the one to
\* bind to; disabled() parses constants only.  A failure is an expect.
NewCoordinator ==
  /\ stage = "coordinator"
  /\ IF Advertised = {"good"} /\ (config["enabled"] = {TRUE} => config["bind_addr"] = {"good"})
       THEN Go("broker")
       ELSE End("panic")
  /\ UNCHANGED <<inputs, sources, products>>

\* ApiKeyValidator::new and validate_optional
NewValidator(c) ==
  [hashes |-> {Hash[k] : k \in The(c["api_keys"])}, required |-> The(c["require_auth"])]

ValidateOptional(key) ==
  validator.required => \E k \in key : Hash[k] \in validator.hashes

MaxTimeout == 65000
Clamp(ms) == IF ms < MaxTimeout THEN ms ELSE MaxTimeout

\* Mutant: without the clamp.
KeepaliveTimeout_Unclamped(secs) == secs * 1500 + 5000

\* Cannot overflow: a u16 is at most 65535.
KeepaliveTimeout(secs) == Clamp(secs * 1500 + 5000)

\* secs as u32, times 1500, plus 5000: the low word with its carry, then the
\* high word, which overflows if it does not fit.
LowWord(secs) == secs.low * 1500 + 5000
HighWord(secs) == secs.high * 1500 + LowWord(secs) \div Word
Overflows(secs) == HighWord(secs) > MaxU16

\* Mutant: the high word is dropped before the clamp.
BridgeTimeout_Narrow(secs) == Clamp(LowWord(secs) % Word)

\* What is left after wrapping, clamped.
BridgeTimeout(secs) == IF HighWord(secs) % Word > 0 THEN MaxTimeout ELSE Clamp(LowWord(secs) % Word)

\* OtterWatchBroker::new and start.  Of several bridges the first is used.  A
\* build with overflow checks panics where another one wraps.
StartBroker ==
  /\ stage = "broker"
  /\ validator' = NewValidator(config)
  /\ LET bridges == The(config["bridge"]) IN
       \E checked \in Builds :
         IF config["listen_addr"] # {"good"}
              \/ (checked /\ bridges # <<>> /\ Overflows(bridges[1]))
           THEN End("panic") /\ UNCHANGED timeouts
           ELSE /\ timeouts' =
                     [client |-> {KeepaliveTimeout(The(config["keepalive_secs"]))},
                      bridge |-> IF bridges = <<>> THEN {} ELSE {BridgeTimeout(bridges[1])}]
                /\ Go("ready") \/ End("error")
  /\ UNCHANGED <<inputs, sources>>

Next ==
  \/ TakeFile \/ TakeOther \/ EndParse
  \/ ReadSources \/ Settle \/ NewCoordinator \/ StartBroker

Spec == Init /\ [][Next]_vars

-----------------------------------------------------------------------------
(* Properties.                                                             *)

TypeOK ==
  /\ stage \in {"args", "load", "settle", "coordinator", "broker", "ready", "ended"}
  /\ exit \in {"none", "success", "error", "panic"}
  /\ stage = "ended" <=> exit # "none"
  /\ argv \in Seq(Token) /\ i \in 1..(Len(argv) + 2)
  /\ IsOption(path, Token)
  /\ \A src \in file : IsSource(src) /\ file = {src}
  /\ \A e \in env : IsEnvironment(e) /\ env = {e}
  /\ IsSource(config)
  /\ validator.required \in BOOLEAN /\ validator.hashes \subseteq {Hash[k] : k \in Key}
  /\ IsOption(timeouts.client, 0..MaxTimeout) /\ IsOption(timeouts.bridge, 0..MaxTimeout)

\* While Args::parse runs, the words behind it are pairs of -c and a file, a -c
\* at the very end aside, and the last of those files is the one to load.
LastFileCounts ==
  LET read == {j \in 1..Len(argv) : j < i /\ j % 2 = 0} IN
  stage = "args" =>
    /\ i % 2 = 1
    /\ \A j \in 1..Len(argv) : j < i /\ j \notin read => argv[j] = "-c"
    /\ path = {argv[j] : j \in {l \in read : \A m \in read : m <= l}}

\* The configuration reference of DOC.md (lines 98 to 138), and no bridges
\* (schema.rs:22).  Sections and public_addr have no default.
Reference ==
  [listen_addr |-> {"good"}, max_connections |-> {10000}, router_buffer_size |-> {50000},
   keepalive_secs |-> {30}, max_qos |-> {1}, api_keys |-> {{}}, require_auth |-> {TRUE},
   enabled |-> {FALSE}, bind_addr |-> {"good"}, bridge |-> {<<>>}]

\* Past load_config every setting is what a variable with the separated prefix
\* says, else what the file says, else the documented default, but for the
\* address of a cluster that has no section; a file that was asked for has been
\* read; and rumqttd gets no limit of zero and no QoS above 2.
RunsAsConfigured ==
  stage \in {"coordinator", "broker", "ready"} =>
    /\ path # {} => file # {}
    /\ \A s \in Setting :
         LET says == {e[Separated][s] : e \in env} \ {{}}
             asks == {src[s] : src \in file} \ {{}}
         IN  /\ \A o \in says : config[s] = o
             /\ \A o \in asks : says = {} => config[s] = o
             /\ says \cup asks = {} =>
                  IF s \notin DOMAIN Reference THEN config[s] = {}
                  ELSE (s = "bind_addr" => config["cluster"] # {}) => config[s] = Reference[s]
    /\ 0 \notin config["max_connections"] \cup config["router_buffer_size"]
    /\ config["max_qos"] \subseteq 0..2

\* What --help says (main.rs:71): "OTTERWATCH_MQTT_* Override config values
\* (e.g., OTTERWATCH_MQTT_MQTT__LISTEN_ADDR)".  Past load_config a setting given
\* under that prefix, and not under the other one, has that value.
DocumentedNamesCount ==
  stage \in {"coordinator", "broker", "ready"} =>
    \A s \in Setting, e \in env :
      e[Documented][s] # {} /\ e[Separated][s] = {} => config[s] = e[Documented][s]

\* What validate_config does not look at is what a start can still fail on with
\* a panic: the addresses in use, and a ping delay that overflows in a build
\* that checks.  A node without a cluster never trips over the address that an
\* absent section leaves empty.
PanicsAreUnvalidated ==
  LET used == config["listen_addr"] \cup config["public_addr"]
                \cup (IF config["enabled"] = {TRUE} THEN config["bind_addr"] ELSE {})
      first == {b[1] : b \in config["bridge"] \ {<<>>}}
  IN  /\ exit = "panic" =>
           "bad" \in used \/ (TRUE \in Builds /\ \E secs \in first : Overflows(secs))
      /\ stage = "ready" => "bad" \notin used

\* The validator of a node that started opens to the configured keys and to no
\* other one, to everybody if no key is required, and never to nobody.
KeysOpen ==
  stage = "ready" =>
    LET required == config["require_auth"] = {TRUE} IN
    /\ \A k \in Key : ValidateOptional({k}) <=> (required => k \in The(config["api_keys"]))
    /\ ValidateOptional({}) <=> ~required
    /\ required => \E k \in Key : ValidateOptional({k})

\* The comment in build_rumqttd_config wants 1.5 times the keepalive, in ms.
Margin(ms, secs) == 2 * ms >= 3000 * secs

\* The clamp to 65 s keeps that margin up to a keepalive of 43 s and breaks it,
\* against the comment, for every longer one.
KeepaliveMargin ==
  stage = "ready" =>
    \E secs \in config["keepalive_secs"], ms \in timeouts.client :
      ms >= 5000 /\ (Margin(ms, secs) <=> secs <= 43)

\* 2863308 = 43 * 65536 + 45260 s is the longest ping delay whose product fits
\* a u32.
Fits(secs) == secs.above = 0 /\ (secs.high < 43 \/ (secs.high = 43 /\ secs.low <= 45260))

\* Up to there the same holds of the first bridge.  Beyond it the timeout may be
\* anything up to the clamp: it wraps.
BridgeMargin ==
  stage = "ready" =>
    \A b \in config["bridge"] \ {<<>>} :
      \E ms \in timeouts.bridge :
        Fits(b[1]) =>
          IF b[1].high > 0 THEN ms = MaxTimeout
                           ELSE ms >= 5000 /\ (Margin(ms, b[1].low) <=> b[1].low <= 43)
=============================================================================
