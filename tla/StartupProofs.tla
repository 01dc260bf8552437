---------------------------- MODULE StartupProofs ----------------------------
(***************************************************************************)
(* Proofs about module Startup: what a node that is ready runs with, for   *)
(* every command line, file and environment, and the arithmetic of the two *)
(* timeouts.                                                               *)
(***************************************************************************)
EXTENDS Startup, TLAPS

(***************************************************************************)
(* Optional values and sources.                                            *)
(***************************************************************************)

\* An optional value that is there is what The picks, and is of its set.
LEMMA TheOption ==
  ASSUME NEW S, NEW o, IsOption(o, S), o # {}
  PROVE  The(o) \in S /\ o = {The(o)}
BY DEF IsOption, The

\* The picks the only member.
LEMMA TheOnly == \A x : The({x}) = x
BY DEF The

\* A set with one member is an optional value that is there.
LEMMA Single ==
  /\ \A S, x : x \in S => IsOption({x}, S)
  /\ \A x : {x} # {}
BY DEF IsOption

\* Laying one source over another makes a source again (the config crate's
\* merge of file and environment).
LEMMA LayerIsSource ==
  ASSUME NEW a, NEW b, IsSource(a), IsSource(b)
  PROVE  IsSource(Layer(a, b))
<1> DEFINE c == Layer(a, b)
<1>1. DOMAIN c = Setting /\ \A s \in Setting : c[s] = a[s] \/ c[s] = b[s]
  BY DEF Layer
<1> HIDE DEF c
<1>2. /\ Section \subseteq Setting /\ Address \subseteq Setting
      /\ Limit \subseteq Setting /\ Switch \subseteq Setting
      /\ {"keepalive_secs", "max_qos", "api_keys", "bridge"} \subseteq Setting
  BY DEF Setting
<1>3. \A s \in Section : IsOption(c[s], {TRUE})
  BY <1>1, <1>2, Zenon DEF IsSource
<1>4. \A s \in Address : IsOption(c[s], {"good", "bad"})
  BY <1>1, <1>2, Zenon DEF IsSource
<1>5. \A s \in Limit : IsOption(c[s], Nat)
  BY <1>1, <1>2, Zenon DEF IsSource
<1>6. \A s \in Switch : IsOption(c[s], BOOLEAN)
  BY <1>1, <1>2, Zenon DEF IsSource
<1>7. /\ c["keepalive_secs"] \in {a["keepalive_secs"], b["keepalive_secs"]}
      /\ c["max_qos"] \in {a["max_qos"], b["max_qos"]}
      /\ c["api_keys"] \in {a["api_keys"], b["api_keys"]}
      /\ c["bridge"] \in {a["bridge"], b["bridge"]}
  BY <1>1, <1>2, Zenon
<1>8. IsOption(c["keepalive_secs"], 0..MaxU16) /\ IsOption(c["max_qos"], 0..255)
  BY <1>7, SMT DEF IsSource
<1>9. IsOption(c["api_keys"], SUBSET Key) /\ IsOption(c["bridge"], Seq(Seconds))
  BY <1>7, SMT DEF IsSource
<1>10. QED
  BY <1>1, <1>3, <1>4, <1>5, <1>6, <1>8, <1>9 DEF IsSource, c

\* A file that is not there is a source that gives nothing.
LEMMA NothingIsSource == IsSource(Nothing)
<1>1. DOMAIN Nothing = Setting /\ \A s \in Setting : Nothing[s] = {}
  BY DEF Nothing
<1>2. \A S : IsOption({}, S)
  BY DEF IsOption
<1>3. \A s \in Section \cup Address \cup Limit \cup Switch : Nothing[s] = {}
  BY <1>1 DEF Setting
<1>4. /\ Nothing["keepalive_secs"] = {} /\ Nothing["max_qos"] = {}
      /\ Nothing["api_keys"] = {} /\ Nothing["bridge"] = {}
  BY <1>1 DEF Setting
<1>5. QED
  BY <1>1, <1>2, <1>3, <1>4, Zenon DEF IsSource

\* The settings that have a value in every configuration.
Settled == Setting \ (Section \cup {"public_addr"})

\* The defaults are a source, and every setting but sections and public_addr
\* has one.
LEMMA DefaultIsSource ==
  ASSUME NEW given
  PROVE  /\ IsSource(Default(given))
         /\ \A s \in Settled : Default(given)[s] # {}
<1> DEFINE d == Default(given)
<1> USE DEF Setting, Section, Address, Limit, Switch
<1>1. d["node"] = {} /\ d["mqtt"] = {} /\ d["auth"] = {} /\ d["cluster"] = {} /\ d["public_addr"] = {}
  BY SMT DEF Default
<1>2. d["listen_addr"] = {"good"}
  BY SMT DEF Default
<1>3. d["max_connections"] = {10000}
  BY SMT DEF Default
<1>4. d["router_buffer_size"] = {50000}
  BY SMT DEF Default
<1>5. d["keepalive_secs"] = {30}
  BY SMT DEF Default
<1>6. d["max_qos"] = {1}
  BY SMT DEF Default
<1>7. d["api_keys"] = {{}}
  BY SMT DEF Default
<1>8. d["require_auth"] = {TRUE}
  BY SMT DEF Default
<1>9. d["enabled"] = {FALSE}
  BY SMT DEF Default
<1>10. d["bind_addr"] = {"bad"} \/ d["bind_addr"] = {"good"}
  BY SMT DEF Default
<1>11. d["bridge"] = {<<>>}
  BY SMT DEF Default
<1>12. DOMAIN d = Setting
  BY DEF Default
<1> HIDE DEF d
<1>13. \A s \in Section : IsOption(d[s], {TRUE})
  BY <1>1 DEF IsOption
<1>14. \A s \in Address : IsOption(d[s], {"good", "bad"})
  BY <1>1, <1>2, <1>10 DEF IsOption
<1>15. \A s \in Limit : IsOption(d[s], Nat)
  BY <1>3, <1>4, SMT DEF IsOption
<1>16. \A s \in Switch : IsOption(d[s], BOOLEAN)
  <2>1. IsOption({TRUE}, BOOLEAN) /\ IsOption({FALSE}, BOOLEAN)
    BY Single
  <2>2. QED
    BY <1>8, <1>9, <2>1, Zenon
<1>17. IsOption(d["keepalive_secs"], 0..MaxU16) /\ IsOption(d["max_qos"], 0..255)
  BY <1>5, <1>6, SMT DEF IsOption, MaxU16, Word
<1>18. IsOption(d["api_keys"], SUBSET Key)
  <2>1. {} \in SUBSET Key
    OBVIOUS
  <2>2. QED
    BY <1>7, <2>1, Single, Zenon
<1>19. IsOption(d["bridge"], Seq(Seconds))
  <2>1. <<>> \in Seq(Seconds)
    OBVIOUS
  <2>2. QED
    BY <1>11, <2>1, Single
<1>20. d["max_connections"] # {} /\ d["router_buffer_size"] # {}
  BY <1>3, <1>4, SMT
<1>21. d["keepalive_secs"] # {} /\ d["max_qos"] # {}
  BY <1>5, <1>6, SMT
<1>22. d["api_keys"] # {} /\ d["bridge"] # {} /\ d["require_auth"] # {} /\ d["enabled"] # {}
  BY <1>7, <1>8, <1>9, <1>11, Single
<1>23. d["listen_addr"] # {} /\ d["bind_addr"] # {}
  BY <1>2, <1>10, Single
<1>24. \A s \in Settled : d[s] # {}
  BY <1>20, <1>21, <1>22, <1>23 DEF Settled
<1>25. QED
  BY <1>12, <1>13, <1>14, <1>15, <1>16, <1>17, <1>18, <1>19, <1>24 DEF d, IsSource

\* The defaults are the documented ones, but for the address of a cluster that
\* has no section.
LEMMA DefaultsAreDocumented ==
  ASSUME NEW given, NEW s \in Setting
  PROVE  IF s \notin DOMAIN Reference THEN Default(given)[s] = {}
         ELSE (s = "bind_addr" => given["cluster"] # {}) => Default(given)[s] = Reference[s]
<1> DEFINE d == Default(given)
           r == Reference
<1> USE DEF Setting, Section, Address, Limit, Switch
<1>1. DOMAIN r = {"listen_addr", "max_connections", "router_buffer_size", "keepalive_secs",
                  "max_qos", "api_keys", "require_auth", "enabled", "bind_addr", "bridge"}
  BY DEF Reference
<1>2. d["node"] = {} /\ d["mqtt"] = {} /\ d["auth"] = {} /\ d["cluster"] = {} /\ d["public_addr"] = {}
  BY SMT DEF Default
<1>3. d["listen_addr"] = r["listen_addr"]
  BY SMT DEF Default, Reference
<1>4. d["max_connections"] = r["max_connections"]
  BY SMT DEF Default, Reference
<1>5. d["router_buffer_size"] = r["router_buffer_size"]
  BY SMT DEF Default, Reference
<1>6. d["keepalive_secs"] = r["keepalive_secs"]
  BY SMT DEF Default, Reference
<1>7. d["max_qos"] = r["max_qos"]
  BY SMT DEF Default, Reference
<1>8. d["api_keys"] = r["api_keys"]
  BY SMT DEF Default, Reference
<1>9. d["require_auth"] = r["require_auth"]
  BY SMT DEF Default, Reference
<1>10. d["enabled"] = r["enabled"]
  BY SMT DEF Default, Reference
<1>11. given["cluster"] # {} => d["bind_addr"] = r["bind_addr"]
  BY SMT DEF Default, Reference
<1>12. d["bridge"] = r["bridge"]
  BY SMT DEF Default, Reference
<1> HIDE DEF d, r
<1>13. s \in {"node", "mqtt", "auth", "cluster", "public_addr"} \cup DOMAIN r
  BY <1>1
<1>14. CASE s \in DOMAIN r
  <2>1. (s = "bind_addr" => given["cluster"] # {}) => d[s] = r[s]
    BY <1>1, <1>3, <1>4, <1>5, <1>6, <1>7, <1>8, <1>9, <1>10, <1>11, <1>12, <1>14
  <2>2. QED
    BY <1>14, <2>1 DEF d, r
<1>15. CASE s \notin DOMAIN r
  <2>1. d[s] = {}
    BY <1>2, <1>13, <1>15
  <2>2. QED
    BY <1>15, <2>1 DEF d, r
<1>16. QED
  BY <1>14, <1>15

\* Defaults under a source leave no setting without a value where one is needed.
LEMMA SettledIsSource ==
  ASSUME NEW given, IsSource(given)
  PROVE  /\ IsSource(Layer(Default(given), given))
         /\ \A s \in Settled : Layer(Default(given), given)[s] # {}
<1>1. IsSource(Layer(Default(given), given))
  BY DefaultIsSource, LayerIsSource
<1>2. \A s \in Settled : Layer(Default(given), given)[s] # {}
  BY DefaultIsSource DEF Layer, Settled
<1>3. QED
  BY <1>1, <1>2

(***************************************************************************)
(* The arithmetic.  Zenon cannot read numerals of this size, hence SMT.    *)
(***************************************************************************)

\* Division by the width of a word, in terms of its quotient and remainder.
LEMMA DivideByWord ==
  ASSUME NEW n \in Nat
  PROVE  /\ n \div 65536 \in Nat
         /\ n % 65536 \in Nat /\ n % 65536 < 65536
         /\ n = (n \div 65536) * 65536 + (n % 65536)
<1>1. n \div 65536 \in Nat
  BY SMT
<1>2. n % 65536 \in Nat /\ n % 65536 < 65536
  BY SMT
<1>3. n = (n \div 65536) * 65536 + (n % 65536)
  BY SMT
<1>4. QED
  BY <1>1, <1>2, <1>3, SMT

\* Of two numbers, the one with the smaller quotient by 2^32 is smaller.
LEMMA QuotientsDecide ==
  ASSUME NEW q \in Nat, NEW d \in Nat, NEW x \in Nat, NEW y \in Nat,
         q < d, y < 4294967296
  PROVE  q * 4294967296 + y < d * 4294967296 + x
<1>1. q + 1 <= d
  BY SMT
<1>2. (q + 1) * 4294967296 <= d * 4294967296
  BY <1>1, SMT
<1>3. QED
  BY <1>2, SMT

\* What is below 2^32 is the remainder, however often 2^32 is added.
LEMMA Remainder ==
  ASSUME NEW d \in Nat, NEW x \in Nat, x < 4294967296
  PROVE  (d * 4294967296 + x) % 4294967296 = x
<1> DEFINE n == d * 4294967296 + x
           q == n \div 4294967296
           y == n % 4294967296
<1>1. n \in Nat
  BY SMT
<1> HIDE DEF n
<1>2. q \in Nat
  BY <1>1, SMT
<1>3. y \in Nat /\ y < 4294967296
  BY <1>1, SMT
<1>4. n = q * 4294967296 + y
  BY <1>1, SMT
<1> HIDE DEF q, y
<1>5. ~ (q < d)
  BY <1>2, <1>3, <1>4, QuotientsDecide, SMT DEF n
<1>6. ~ (d < q)
  BY <1>2, <1>3, <1>4, QuotientsDecide, SMT DEF n
<1>7. y = x
  BY <1>2, <1>3, <1>4, <1>5, <1>6, SMT DEF n
<1>8. QED
  BY <1>7, SMT DEF y, n

\* The words of BridgeTimeout compute what the u32 expression of the code does:
\* it overflows iff the product does not fit 32 bits, and what is clamped is the
\* product modulo 2^32.
THEOREM BridgeArithmetic ==
  ASSUME NEW secs \in Seconds
  PROVE  LET ms == (secs.high * Word + secs.low) * 1500 + 5000 IN
         /\ Overflows(secs) <=> ms >= Word * Word
         /\ BridgeTimeout(secs) = Clamp(ms % (Word * Word))
<1> DEFINE h == secs.high
           l == secs.low
           w == l * 1500 + 5000
           c == w \div 65536
           r == w % 65536
           g == h * 1500 + c
           d == g \div 65536
           e == g % 65536
           x == e * 65536 + r
           ms == (h * 65536 + l) * 1500 + 5000
<1>1. h \in Nat /\ l \in Nat
  <2>1. h \in 0..MaxU16 /\ l \in 0..MaxU16
    BY DEF Seconds
  <2>2. MaxU16 \in Nat
    BY SMT DEF MaxU16, Word
  <2>3. QED
    BY <2>1, <2>2
<1>2. Word = 65536 /\ Word * Word = 4294967296 /\ MaxU16 = 65535
  BY SMT DEF Word, MaxU16
<1>3. LowWord(secs) = w /\ HighWord(secs) = g
  BY <1>2, SMT DEF LowWord, HighWord
<1> HIDE DEF h, l
<1>4. w \in Nat
  BY <1>1, SMT
<1>5. c \in Nat /\ r \in Nat /\ r < 65536 /\ w = c * 65536 + r
  BY <1>4, DivideByWord, SMT
<1> HIDE DEF c, r
<1>6. g \in Nat /\ ms = g * 65536 + r
  BY <1>1, <1>5, SMT
<1>7. d \in Nat /\ e \in Nat /\ e < 65536 /\ g = d * 65536 + e
  BY <1>6, DivideByWord, SMT
<1> HIDE DEF d, e
<1>8. x \in Nat /\ x < 4294967296 /\ ms = d * 4294967296 + x
  BY <1>5, <1>6, <1>7, SMT
<1>9. ms % 4294967296 = x
  <2> HIDE DEF x, ms
  <2>1. QED
    BY <1>7, <1>8, Remainder, SMT
<1>10. Overflows(secs) <=> ms >= 4294967296
  BY <1>2, <1>3, <1>5, <1>6, SMT DEF Overflows
<1>11. BridgeTimeout(secs) = IF e > 0 THEN MaxTimeout ELSE Clamp(r)
  BY <1>2, <1>3, SMT DEF BridgeTimeout, e, r
<1>12. Clamp(x) = IF e > 0 THEN MaxTimeout ELSE Clamp(r)
  BY <1>5, <1>7, SMT DEF Clamp, MaxTimeout
<1>13. QED
  BY <1>2, <1>9, <1>10, <1>11, <1>12, SMT DEF h, l

(***************************************************************************)
(* The inductive invariant: what main has established when it reaches each *)
(* of its stages.                                                          *)
(***************************************************************************)

Given == Layer(IF file = {} THEN Nothing ELSE The(file), FromEnvironment(The(env)))

Sourced ==
  stage \in {"settle", "coordinator", "broker", "ready"} \/ exit = "panic" =>
    env # {} /\ (path # {} => file # {})

Merged == stage = "settle" => config = Given

Checked ==
  stage \in {"coordinator", "broker", "ready"} \/ exit = "panic" =>
    config = Layer(Default(Given), Given) /\ Validates(config)

Addressed ==
  stage \in {"broker", "ready"} =>
    Advertised = {"good"} /\ (config["enabled"] = {TRUE} => config["bind_addr"] = {"good"})

Built ==
  stage = "ready" =>
    /\ config["listen_addr"] = {"good"}
    /\ validator = NewValidator(config)
    /\ timeouts.client = {KeepaliveTimeout(The(config["keepalive_secs"]))}
    /\ LET bridges == The(config["bridge"]) IN
         bridges # <<>> => timeouts.bridge = {BridgeTimeout(bridges[1])}

Inv == TypeOK /\ LastFileCounts /\ Sourced /\ Merged /\ Checked /\ Addressed /\ Built
         /\ PanicsAreUnvalidated

\* The invariant holds before the first word of the command line is read.
LEMMA InitInv == Init => Inv
<1> SUFFICES ASSUME Init PROVE Inv
  OBVIOUS
<1>1. argv \in Seq(Token) /\ Len(argv) \in Nat
  BY StartupAssumption DEF Init, BoundedSeq, SeqOf
<1>2. TypeOK
  BY <1>1, NothingIsSource DEF Init, TypeOK, IsOption
<1>3. LastFileCounts
  BY <1>1 DEF Init, LastFileCounts
<1>4. QED
  BY <1>2, <1>3 DEF Init, Inv, Sourced, Merged, Checked, Addressed, Built, PanicsAreUnvalidated

\* Once the sources are merged, every setting but the optional ones has a value.
LEMMA GivenIsSource ==
  ASSUME TypeOK, env # {}
  PROVE  /\ IsSource(Given)
         /\ IsSource(Layer(Default(Given), Given))
         /\ \A s \in Settled : Layer(Default(Given), Given)[s] # {}
<1>1. IsSource(FromEnvironment(The(env)))
  <2>1. PICK e \in env : IsEnvironment(e) /\ env = {e}
    BY DEF TypeOK
  <2>2. The(env) = e
    BY <2>1, TheOnly
  <2>3. QED
    BY <2>1, <2>2 DEF IsEnvironment, FromEnvironment
<1>2. IsSource(IF file = {} THEN Nothing ELSE The(file))
  <2>1. CASE file = {}
    BY <2>1, NothingIsSource
  <2>2. CASE file # {}
    <3>1. PICK src \in file : IsSource(src) /\ file = {src}
      BY <2>2 DEF TypeOK
    <3>2. The(file) = src
      BY <3>1, TheOnly
    <3>3. QED
      BY <2>2, <3>1, <3>2
  <2>3. QED
    BY <2>1, <2>2
<1>3. IsSource(Given)
  BY <1>1, <1>2, LayerIsSource DEF Given
<1>4. QED
  BY <1>3, SettledIsSource

(***************************************************************************)
(* The command line.                                                       *)
(***************************************************************************)

\* -c and its word preserve the invariant: the last file read so far is kept.
LEMMA TakeFileInv == Inv /\ TakeFile => Inv'
<1> SUFFICES ASSUME Inv, TakeFile PROVE Inv'
  OBVIOUS
<1> USE DEF TakeFile, Go, sources, products
<1>1. argv \in Seq(Token) /\ Len(argv) \in Nat /\ i \in 1..Len(argv) /\ argv' = argv
  BY DEF Inv, TypeOK
<1>2. TypeOK'
  <2>1. IsOption(path', Token)
    <3>1. ASSUME i < Len(argv) PROVE argv[i + 1] \in Token
      BY <1>1, <3>1
    <3>2. QED
      BY <3>1 DEF Inv, TypeOK, IsOption
  <2>2. i' \in 1..(Len(argv) + 2)
    BY <1>1
  <2>3. QED
    BY <2>1, <2>2, <1>1 DEF Inv, TypeOK
<1>3. LastFileCounts'
  <2> DEFINE read == {j \in 1..Len(argv) : j < i /\ j % 2 = 0}
             then == {j \in 1..Len(argv) : j < i + 2 /\ j % 2 = 0}
  <2>1. /\ i % 2 = 1
        /\ \A j \in 1..Len(argv) : j < i /\ j \notin read => argv[j] = "-c"
        /\ path = {argv[j] : j \in {l \in read : \A m \in read : m <= l}}
    BY DEF Inv, LastFileCounts
  <2>2. (i + 2) % 2 = 1 /\ (i + 1) % 2 = 0
    BY <1>1, <2>1
  <2>3. \A j \in 1..Len(argv) : j < i + 2 /\ j \notin then => argv[j] = "-c"
    BY <1>1, <2>1, <2>2
  <2>4. path' = {argv[j] : j \in {l \in then : \A m \in then : m <= l}}
    <3>1. CASE i < Len(argv)
      <4>1. i + 1 \in then /\ \A m \in then : m <= i + 1
        BY <1>1, <2>2, <3>1
      <4>2. {l \in then : \A m \in then : m <= l} = {i + 1}
        BY <1>1, <4>1
      <4>3. QED
        BY <3>1, <4>2
    <3>2. CASE ~ (i < Len(argv))
      <4>1. then = read
        BY <1>1, <2>1, <3>2
      <4>2. QED
        BY <2>1, <3>2, <4>1
    <3>3. QED
      BY <3>1, <3>2
  <2>5. QED
    BY <1>1, <2>2, <2>3, <2>4 DEF LastFileCounts
<1>4. QED
  BY <1>2, <1>3 DEF Inv, Sourced, Merged, Checked, Addressed, Built, PanicsAreUnvalidated, TypeOK

\* Any other word ends the process.
LEMMA TakeOtherInv == Inv /\ TakeOther => Inv'
<1> SUFFICES ASSUME Inv, TakeOther PROVE Inv'
  OBVIOUS
<1>1. stage' = "ended" /\ exit' \in {"success", "error"}
  BY DEF TakeOther, End
<1>2. UNCHANGED <<argv, i, path, file, env, config, validator, timeouts>>
  BY DEF TakeOther, inputs, sources, products
<1>3. TypeOK'
  BY <1>1, <1>2 DEF Inv, TypeOK
<1>4. QED
  BY <1>1, <1>3 DEF Inv, LastFileCounts, Sourced, Merged, Checked, Addressed, Built, PanicsAreUnvalidated

\* The end of Args::parse keeps nothing of the words but the path.
LEMMA EndParseInv == Inv /\ EndParse => Inv'
<1> SUFFICES ASSUME Inv, EndParse PROVE Inv'
  OBVIOUS
<1>1. stage' = "load" /\ exit' = exit /\ exit = "none" /\ argv' = <<>> /\ i' = 1
  BY DEF EndParse, Go, Inv, TypeOK
<1>2. UNCHANGED <<path, file, env, config, validator, timeouts>>
  BY DEF EndParse, sources, products
<1>3. TypeOK'
  BY <1>1, <1>2 DEF Inv, TypeOK
<1>4. QED
  BY <1>1, <1>3 DEF Inv, LastFileCounts, Sourced, Merged, Checked, Addressed, Built, PanicsAreUnvalidated

(***************************************************************************)
(* The configuration.                                                      *)
(***************************************************************************)

\* After the sources are read the configuration is one laid over the other.
LEMMA ReadSourcesInv == Inv /\ ReadSources => Inv'
<1> SUFFICES ASSUME Inv, ReadSources PROVE Inv'
  OBVIOUS
<1>1. PICK f \in {{}} \cup {{src} : src \in Files}, e \in Environments :
        /\ file' = f /\ env' = {e}
        /\ config' = Layer(IF f = {} THEN Nothing ELSE The(f), FromEnvironment(e))
        /\ (Go("settle") /\ (f = {} => path = {})) \/ End("error")
  BY DEF ReadSources
<1>2. UNCHANGED <<argv, i, path, validator, timeouts>> /\ stage = "load" /\ exit = "none"
  BY DEF ReadSources, inputs, products, Inv, TypeOK
<1>3. \/ stage' = "settle" /\ exit' = "none"
      \/ stage' = "ended" /\ exit' = "error"
  BY <1>1, <1>2 DEF Go, End
<1>4. IsEnvironment(e) /\ IsSource(FromEnvironment(e)) /\ The({e}) = e
  BY StartupAssumption, TheOnly DEF IsEnvironment, FromEnvironment
<1>5. \A src \in f : IsSource(src) /\ f = {src}
  BY StartupAssumption
<1>6. IsSource(IF f = {} THEN Nothing ELSE The(f))
  <2>1. CASE f = {}
    BY <2>1, NothingIsSource
  <2>2. CASE f # {}
    <3>1. PICK src \in f : IsSource(src) /\ f = {src}
      BY <1>5, <2>2
    <3>2. The(f) = src
      BY <3>1, TheOnly
    <3>3. QED
      BY <2>2, <3>1, <3>2
  <2>3. QED
    BY <2>1, <2>2
<1>7. IsSource(config')
  BY <1>1, <1>4, <1>6, LayerIsSource
<1>8. TypeOK'
  BY <1>1, <1>2, <1>3, <1>4, <1>5, <1>7 DEF Inv, TypeOK
<1>9. config' = Given'
  BY <1>1, <1>4 DEF Given
<1>10. Sourced'
  BY <1>1, <1>2, <1>3 DEF Sourced, Go, End
<1>11. QED
  BY <1>3, <1>8, <1>9, <1>10
     DEF Inv, LastFileCounts, Merged, Checked, Addressed, Built, PanicsAreUnvalidated

\* After the defaults and validate_config the settings are as the sources say.
LEMMA SettleInv == Inv /\ Settle => Inv'
<1> SUFFICES ASSUME Inv, Settle PROVE Inv'
  OBVIOUS
<1>1. UNCHANGED <<argv, i, path, file, env, validator, timeouts>>
  BY DEF Settle, inputs, products
<1>2. stage = "settle" /\ exit = "none" /\ env # {} /\ (path # {} => file # {}) /\ config = Given
  BY DEF Settle, Inv, TypeOK, Sourced, Merged
<1>3. Given' = Given
  BY <1>1 DEF Given
<1>4. config' = Layer(Default(Given), Given)
  BY <1>2 DEF Settle
<1>5. \/ stage' = "coordinator" /\ exit' = "none" /\ Validates(config')
      \/ stage' = "ended" /\ exit' = "error"
  BY <1>2 DEF Settle, Go, End
<1>6. IsSource(config')
  BY <1>2, <1>4, GivenIsSource DEF Inv
<1>7. TypeOK'
  BY <1>1, <1>2, <1>5, <1>6 DEF Inv, TypeOK
<1>8. Checked'
  BY <1>3, <1>4, <1>5 DEF Checked, Validates
<1>9. Sourced'
  BY <1>1, <1>2, <1>5 DEF Sourced
<1>10. QED
  BY <1>5, <1>7, <1>8, <1>9
     DEF Inv, LastFileCounts, Merged, Addressed, Built, PanicsAreUnvalidated

(***************************************************************************)
(* The coordinator and the broker.                                         *)
(***************************************************************************)

\* What the later stages know of the configuration.
LEMMA ConfigIsSettled ==
  ASSUME Inv, stage \in {"coordinator", "broker", "ready"}
  PROVE  /\ config["listen_addr"] \in {{"good"}, {"bad"}}
         /\ config["bind_addr"] \in {{"good"}, {"bad"}}
         /\ config["public_addr"] \in {{}, {"good"}, {"bad"}}
         /\ config["require_auth"] \in {{TRUE}, {FALSE}}
         /\ config["enabled"] \in {{TRUE}, {FALSE}}
         /\ \E n \in 0..MaxU16 : config["keepalive_secs"] = {n}
         /\ \E K \in SUBSET Key : config["api_keys"] = {K}
         /\ \E b \in Seq(Seconds) : config["bridge"] = {b}
<1>1. IsSource(config) /\ \A s \in Settled : config[s] # {}
  BY GivenIsSource DEF Inv, Checked, Sourced
<1>2. {"listen_addr", "bind_addr", "require_auth", "enabled", "keepalive_secs", "api_keys", "bridge"}
        \subseteq Settled
  BY DEF Settled, Setting, Section, Address, Switch
<1>3. config["listen_addr"] \in {{"good"}, {"bad"}} /\ config["bind_addr"] \in {{"good"}, {"bad"}}
  BY <1>1, <1>2 DEF IsSource, IsOption, Address
<1>4. config["public_addr"] \in {{}, {"good"}, {"bad"}}
  BY <1>1 DEF IsSource, IsOption, Address
<1>5. ASSUME NEW s \in {"require_auth", "enabled"} PROVE config[s] \in {{TRUE}, {FALSE}}
  <2>1. IsOption(config[s], BOOLEAN) /\ config[s] # {}
    BY <1>1, <1>2 DEF IsSource, Switch
  <2>2. The(config[s]) \in BOOLEAN /\ config[s] = {The(config[s])}
    BY <2>1, TheOption, Zenon
  <2>3. QED
    BY <2>2, Zenon
<1>6. \E n \in 0..MaxU16 : config["keepalive_secs"] = {n}
  <2>1. IsOption(config["keepalive_secs"], 0..MaxU16) /\ config["keepalive_secs"] # {}
    BY <1>1, <1>2 DEF IsSource
  <2>2. QED
    BY <2>1, TheOption, Zenon
<1>7. \E K \in SUBSET Key : config["api_keys"] = {K}
  <2>1. IsOption(config["api_keys"], SUBSET Key) /\ config["api_keys"] # {}
    BY <1>1, <1>2 DEF IsSource
  <2>2. QED
    BY <2>1, TheOption, Zenon
<1>8. \E b \in Seq(Seconds) : config["bridge"] = {b}
  <2>1. IsOption(config["bridge"], Seq(Seconds)) /\ config["bridge"] # {}
    BY <1>1, <1>2 DEF IsSource
  <2>2. QED
    BY <2>1, TheOption, Zenon
<1>9. QED
  BY <1>3, <1>4, <1>5, <1>6, <1>7, <1>8

\* Past the coordinator the addresses it parsed are good.
LEMMA NewCoordinatorInv == Inv /\ NewCoordinator => Inv'
<1> SUFFICES ASSUME Inv, NewCoordinator PROVE Inv'
  OBVIOUS
<1>1. UNCHANGED <<argv, i, path, file, env, config, validator, timeouts>>
  BY DEF NewCoordinator, inputs, sources, products
<1>2. stage = "coordinator" /\ exit = "none"
  BY DEF NewCoordinator, Inv, TypeOK
<1> DEFINE open == Advertised = {"good"} /\ (config["enabled"] = {TRUE} => config["bind_addr"] = {"good"})
<1>3. \/ open /\ stage' = "broker" /\ exit' = "none"
      \/ ~ open /\ stage' = "ended" /\ exit' = "panic"
  BY <1>2 DEF NewCoordinator, Go, End
<1>4. TypeOK'
  BY <1>1, <1>3 DEF Inv, TypeOK
<1>5. Sourced' /\ Checked'
  BY <1>1, <1>2, <1>3 DEF Inv, Sourced, Checked, Given
<1>6. Addressed'
  BY <1>1, <1>3 DEF Addressed, Advertised
<1>7. PanicsAreUnvalidated'
  <2>1. ASSUME ~ open
        PROVE  \/ "bad" \in config["listen_addr"] \cup config["public_addr"]
               \/ config["enabled"] = {TRUE} /\ "bad" \in config["bind_addr"]
    BY <1>2, <2>1, ConfigIsSettled DEF Advertised
  <2>2. QED
    BY <1>1, <1>3, <2>1 DEF PanicsAreUnvalidated
<1>8. QED
  BY <1>3, <1>4, <1>5, <1>6, <1>7 DEF Inv, LastFileCounts, Merged, Built

\* Both timeouts are between 0 and the clamp.
LEMMA TimeoutTypes ==
  /\ \A n \in 0..MaxU16 : KeepaliveTimeout(n) \in 0..MaxTimeout
  /\ \A secs \in Seconds : BridgeTimeout(secs) \in 0..MaxTimeout
<1>1. \A ms \in Nat : Clamp(ms) \in 0..MaxTimeout
  BY SMT DEF Clamp, MaxTimeout
<1>2. ASSUME NEW n \in 0..MaxU16 PROVE KeepaliveTimeout(n) \in 0..MaxTimeout
  <2>1. n * 1500 + 5000 \in Nat
    BY SMT
  <2>2. QED
    BY <1>1, <2>1, SMT DEF KeepaliveTimeout
<1>3. ASSUME NEW secs \in Seconds PROVE BridgeTimeout(secs) \in 0..MaxTimeout
  <2>1. secs.low \in Nat
    BY DEF Seconds
  <2>2. LowWord(secs) \in Nat
    BY <2>1, SMT DEF LowWord
  <2>3. LowWord(secs) % Word \in Nat
    BY <2>2, SMT DEF Word
  <2>4. MaxTimeout \in 0..MaxTimeout
    BY SMT DEF MaxTimeout
  <2>5. QED
    BY <1>1, <2>3, <2>4 DEF BridgeTimeout
<1>4. QED
  BY <1>2, <1>3

\* The start of the broker preserves the invariant.
LEMMA StartBrokerInv == Inv /\ StartBroker => Inv'
<1> SUFFICES ASSUME Inv, StartBroker PROVE Inv'
  OBVIOUS
<1> DEFINE bridges == The(config["bridge"])
           secs == The(config["keepalive_secs"])
<1>1. UNCHANGED <<argv, i, path, file, env, config>>
  BY DEF StartBroker, inputs, sources
<1>2. stage = "broker" /\ exit = "none"
  BY DEF StartBroker, Inv, TypeOK
<1>3. bridges \in Seq(Seconds) /\ config["bridge"] = {bridges}
  BY <1>2, ConfigIsSettled, TheOnly
<1>4. secs \in 0..MaxU16
  BY <1>2, ConfigIsSettled, TheOnly
<1>5. bridges # <<>> => bridges[1] \in Seconds
  BY <1>3
<1>6. validator' = NewValidator(config)
  BY DEF StartBroker
<1>7. validator'.required \in BOOLEAN /\ validator'.hashes \subseteq {Hash[k] : k \in Key}
  <2>1. The(config["require_auth"]) \in BOOLEAN /\ The(config["api_keys"]) \in SUBSET Key
    BY <1>2, ConfigIsSettled, TheOnly
  <2>2. QED
    BY <1>6, <2>1 DEF NewValidator
<1> DEFINE failing == config["listen_addr"] # {"good"} \/ (TRUE \in Builds /\ bridges # <<>> /\ Overflows(bridges[1]))
           client == KeepaliveTimeout(secs)
           bridge == IF bridges = <<>> THEN {} ELSE {BridgeTimeout(bridges[1])}
<1>8. \/ failing /\ stage' = "ended" /\ exit' = "panic" /\ timeouts' = timeouts
      \/ /\ config["listen_addr"] = {"good"}
         /\ timeouts' = [client |-> {client}, bridge |-> bridge]
         /\ \/ stage' = "ready" /\ exit' = "none"
            \/ stage' = "ended" /\ exit' = "error"
  <2>1. PICK checked \in Builds :
          IF config["listen_addr"] # {"good"} \/ (checked /\ bridges # <<>> /\ Overflows(bridges[1]))
            THEN End("panic") /\ UNCHANGED timeouts
            ELSE /\ timeouts' = [client |-> {client}, bridge |-> bridge]
                 /\ Go("ready") \/ End("error")
    BY DEF StartBroker
  <2>2. checked \in BOOLEAN
    BY StartupAssumption
  <2>3. CASE config["listen_addr"] # {"good"} \/ (checked /\ bridges # <<>> /\ Overflows(bridges[1]))
    <3>1. failing
      BY <2>2, <2>3, Zenon
    <3>2. QED
      BY <2>1, <2>3, <3>1, Zenon DEF End
  <2>4. CASE ~ (config["listen_addr"] # {"good"} \/ (checked /\ bridges # <<>> /\ Overflows(bridges[1])))
    BY <1>2, <2>1, <2>4, Zenon DEF Go, End
  <2>5. QED
    BY <2>3, <2>4
<1>9. IsOption(timeouts'.client, 0..MaxTimeout) /\ IsOption(timeouts'.bridge, 0..MaxTimeout)
  <2>1. IsOption({client}, 0..MaxTimeout)
    BY <1>4, TimeoutTypes, Single
  <2>2. IsOption(bridge, 0..MaxTimeout)
    BY <1>5, TimeoutTypes, Single DEF IsOption
  <2>3. CASE timeouts' = timeouts
    BY <2>3, Zenon DEF Inv, TypeOK
  <2>4. CASE timeouts' = [client |-> {client}, bridge |-> bridge]
    <3> HIDE DEF client, bridge
    <3>1. timeouts'.client = {client} /\ timeouts'.bridge = bridge
      BY <2>4
    <3>2. QED
      BY <2>1, <2>2, <3>1, Zenon
  <2>5. QED
    BY <1>8, <2>3, <2>4, Zenon
<1>10. TypeOK'
  BY <1>1, <1>7, <1>8, <1>9 DEF Inv, TypeOK
<1>11. Sourced' /\ Checked'
  BY <1>1, <1>2, <1>8 DEF Inv, Sourced, Checked, Given
<1>12. Addressed'
  BY <1>1, <1>2 DEF Inv, Addressed, Advertised
<1>13. Built'
  BY <1>1, <1>6, <1>8 DEF Built, NewValidator
<1>14. PanicsAreUnvalidated'
  <2>1. CASE exit' = "panic"
    <3>1. failing
      BY <1>8, <2>1
    <3>2. CASE config["listen_addr"] # {"good"}
      <4>1. "bad" \in config["listen_addr"]
        BY <1>2, <3>2, ConfigIsSettled
      <4>2. QED
        BY <1>1, <1>8, <2>1, <4>1 DEF PanicsAreUnvalidated
    <3>3. CASE TRUE \in Builds /\ bridges # <<>> /\ Overflows(bridges[1])
      <4>1. bridges[1] \in {b[1] : b \in config["bridge"] \ {<<>>}}
        BY <1>3, <3>3
      <4>2. QED
        BY <1>1, <1>8, <2>1, <3>3, <4>1 DEF PanicsAreUnvalidated
    <3>4. QED
      BY <3>1, <3>2, <3>3
  <2>2. CASE stage' = "ready"
    <3>1. config["listen_addr"] = {"good"} /\ exit' = "none"
      BY <1>8, <2>2
    <3>2. "bad" \notin config["public_addr"]
      BY <1>2, ConfigIsSettled DEF Inv, Addressed, Advertised
    <3>3. config["enabled"] = {TRUE} => "bad" \notin config["bind_addr"]
      BY <1>2 DEF Inv, Addressed
    <3>4. QED
      BY <1>1, <3>1, <3>2, <3>3 DEF PanicsAreUnvalidated
  <2>3. QED
    BY <2>1, <2>2 DEF PanicsAreUnvalidated
<1>15. QED
  BY <1>8, <1>10, <1>11, <1>12, <1>13, <1>14 DEF Inv, LastFileCounts, Merged

(***************************************************************************)
(* The theorems.                                                           *)
(***************************************************************************)

\* So does a stutter.
LEMMA StutterInv == Inv /\ UNCHANGED vars => Inv'
<1> SUFFICES ASSUME Inv, UNCHANGED vars PROVE Inv'
  OBVIOUS
<1> USE DEF vars, inputs, sources, products
<1>1. TypeOK' /\ LastFileCounts'
  BY DEF Inv, TypeOK, LastFileCounts
<1>2. Sourced' /\ Merged' /\ Checked' /\ Given' = Given
  BY DEF Inv, Sourced, Merged, Checked, Given
<1>3. Addressed' /\ Built' /\ PanicsAreUnvalidated'
  BY DEF Inv, Addressed, Advertised, Built, PanicsAreUnvalidated
<1>4. QED
  BY <1>1, <1>2, <1>3 DEF Inv

\* The invariant holds in every reachable state.
LEMMA InvHolds == Spec => []Inv
<1>1. Inv /\ [Next]_vars => Inv'
  BY TakeFileInv, TakeOtherInv, EndParseInv, ReadSourcesInv, SettleInv,
     NewCoordinatorInv, StartBrokerInv, StutterInv DEF Next
<1>2. QED
  BY InitInv, <1>1, PTL DEF Spec

\* Every reachable state is well typed: no setting is missing where it is used.
THEOREM StartupTypeCorrect == Spec => []TypeOK
<1>1. Inv => TypeOK
  BY DEF Inv
<1>2. QED
  BY InvHolds, <1>1, PTL

\* However long the command line, -c takes the next word and the last file counts.
THEOREM LastFile == Spec => []LastFileCounts
<1>1. Inv => LastFileCounts
  BY DEF Inv
<1>2. QED
  BY InvHolds, <1>1, PTL

\* For any file and environment, every setting is what a variable with the
\* separated prefix says, whatever the documented names say, else the file's,
\* else the documented default; and no limit of zero or QoS above 2 gets
\* through.
THEOREM Configured == Spec => []RunsAsConfigured
<1>1. Inv => RunsAsConfigured
  <2> SUFFICES ASSUME Inv, stage \in {"coordinator", "broker", "ready"} PROVE RunsAsConfigured
    BY DEF RunsAsConfigured
  <2>1. PICK e : env = {e}
    BY DEF Inv, Sourced, TypeOK
  <2>2. The(env) = e
    BY <2>1, TheOnly
  <2>3. config = Layer(Default(Given), Given) /\ Validates(config)
    BY DEF Inv, Checked
  <2>4. ASSUME NEW s \in Setting
        PROVE  LET says == {x[Separated][s] : x \in env} \ {{}}
                   asks == {src[s] : src \in file} \ {{}}
               IN  /\ \A o \in says : config[s] = o
                   /\ \A o \in asks : says = {} => config[s] = o
                   /\ says \cup asks = {} => config[s] = Default(Given)[s]
    <3>1. config[s] = IF Given[s] = {} THEN Default(Given)[s] ELSE Given[s]
      BY <2>3 DEF Layer
    <3>2. CASE file = {}
      <4>1. Given[s] = e[Separated][s]
        BY <2>2, <3>2 DEF Given, Layer, Nothing, FromEnvironment
      <4>2. QED
        BY <2>1, <3>1, <3>2, <4>1
    <3>3. CASE file # {}
      <4>1. PICK f : file = {f}
        BY <3>3 DEF Inv, TypeOK
      <4>2. The(file) = f
        BY <4>1, TheOnly
      <4>3. Given[s] = IF e[Separated][s] = {} THEN f[s] ELSE e[Separated][s]
        BY <2>2, <3>3, <4>2 DEF Given, Layer, FromEnvironment
      <4>4. QED
        BY <2>1, <3>1, <4>1, <4>3
    <3>4. QED
      BY <3>2, <3>3
  <2>5. ASSUME NEW s \in Setting
        PROVE  IF s \notin DOMAIN Reference THEN Default(Given)[s] = {}
               ELSE (s = "bind_addr" => Given["cluster"] # {}) => Default(Given)[s] = Reference[s]
    BY DefaultsAreDocumented
  <2>a. config["cluster"] # {} => Given["cluster"] # {}
    <3>1. Default(Given)["cluster"] = {} /\ "cluster" \in Setting
      BY SMT DEF Default, Setting, Section
    <3>2. QED
      BY <2>3, <3>1 DEF Layer
  <2>6. IsSource(config) /\ config["max_qos"] # {}
    <3>1. "max_qos" \in Settled
      BY DEF Settled, Setting, Section
    <3>2. QED
      BY <2>1, <2>3, <3>1, GivenIsSource DEF Inv
  <2>7. 0 \notin config["max_connections"] \cup config["router_buffer_size"]
    BY <2>3, <2>6 DEF Validates, IsSource, IsOption, Limit
  <2>8. config["max_qos"] \subseteq 0..2
    <3>1. The(config["max_qos"]) \in 0..255 /\ config["max_qos"] = {The(config["max_qos"])}
      BY <2>6, TheOption DEF IsSource
    <3>2. The(config["max_qos"]) <= 2
      BY <2>3 DEF Validates
    <3>3. The(config["max_qos"]) \in 0..2
      BY <3>1, <3>2, SMT
    <3>4. QED
      BY <3>1, <3>3
  <2>9. path # {} => file # {}
    BY DEF Inv, Sourced
  <2>10. QED
    BY <2>4, <2>5, <2>a, <2>7, <2>8, <2>9 DEF RunsAsConfigured
<1>2. QED
  BY InvHolds, <1>1, PTL

\* A start panics over an address in use or an overflowing ping delay only.
THEOREM PanicsUnvalidated == Spec => []PanicsAreUnvalidated
<1>1. Inv => PanicsAreUnvalidated
  BY DEF Inv
<1>2. QED
  BY InvHolds, <1>1, PTL

\* For any hash without collisions among the keys, a node that is ready accepts
\* exactly what its configuration says, and somebody.
THEOREM OpenToItsKeys == Spec => []KeysOpen
<1>1. Inv => KeysOpen
  <2> SUFFICES ASSUME Inv, stage = "ready"
               PROVE  LET required == config["require_auth"] = {TRUE} IN
                      /\ \A k \in Key : ValidateOptional({k}) <=> (required => k \in The(config["api_keys"]))
                      /\ ValidateOptional({}) <=> ~required
                      /\ required => \E k \in Key : ValidateOptional({k})
    BY DEF KeysOpen
  <2> DEFINE required == config["require_auth"] = {TRUE}
  <2>1. PICK K \in SUBSET Key : config["api_keys"] = {K}
    BY ConfigIsSettled
  <2>2. The(config["api_keys"]) = K
    BY <2>1, TheOnly
  <2>3. The(config["require_auth"]) <=> required
    <3>1. CASE config["require_auth"] = {TRUE}
      BY <3>1, TheOnly
    <3>2. CASE config["require_auth"] = {FALSE}
      <4>1. The(config["require_auth"]) = FALSE
        BY <3>2, TheOnly
      <4>2. {FALSE} # {TRUE}
        OBVIOUS
      <4>3. QED
        BY <3>2, <4>1, <4>2
    <3>3. QED
      BY <3>1, <3>2, ConfigIsSettled
  <2>4. validator.hashes = {Hash[k] : k \in K} /\ (validator.required <=> required)
    <3>1. validator = [hashes |-> {Hash[k] : k \in K}, required |-> The(config["require_auth"])]
      BY <2>2 DEF Inv, Built, NewValidator
    <3>2. validator.hashes = {Hash[k] : k \in K}
      BY <3>1
    <3>3. validator.required = The(config["require_auth"])
      BY <3>1
    <3>4. QED
      BY <2>3, <3>2, <3>3, Zenon
  <2>5. \A k \in Key : Hash[k] \in validator.hashes <=> k \in K
    BY <2>4, StartupAssumption
  <2>6. required => K # {}
    BY <2>1 DEF Inv, Checked, Validates
  <2>7. QED
    BY <2>2, <2>4, <2>5, <2>6 DEF ValidateOptional
<1>2. QED
  BY InvHolds, <1>1, PTL

\* The connection timeout has the margin the code's comment promises up to a
\* keepalive of 43 s and for no longer one.
THEOREM KeepaliveMargins == Spec => []KeepaliveMargin
<1>1. ASSUME NEW n \in 0..MaxU16
      PROVE  LET ms == KeepaliveTimeout(n) IN ms >= 5000 /\ (Margin(ms, n) <=> n <= 43)
  <2>1. n \in Nat
    BY DEF MaxU16
  <2>2. QED
    BY <2>1, SMT DEF KeepaliveTimeout, Clamp, MaxTimeout, Margin
<1>2. Inv => KeepaliveMargin
  <2> SUFFICES ASSUME Inv, stage = "ready" PROVE KeepaliveMargin
    BY SMT DEF KeepaliveMargin
  <2>1. PICK n \in 0..MaxU16 : config["keepalive_secs"] = {n}
    BY ConfigIsSettled
  <2>2. The(config["keepalive_secs"]) = n
    BY <2>1, TheOnly
  <2>3. timeouts.client = {KeepaliveTimeout(n)}
    BY <2>2 DEF Inv, Built
  <2>4. QED
    BY <1>1, <2>1, <2>3, SMT DEF KeepaliveMargin
<1>3. QED
  BY InvHolds, <1>2, PTL

\* For a ping delay whose product fits, the timeout is the clamp or has the
\* margin up to 43 s.
LEMMA FittingBridge ==
  ASSUME NEW secs \in Seconds, Fits(secs)
  PROVE  LET ms == BridgeTimeout(secs) IN
         IF secs.high > 0 THEN ms = MaxTimeout
                          ELSE ms >= 5000 /\ (Margin(ms, secs.low) <=> secs.low <= 43)
<1> DEFINE h == secs.high
           l == secs.low
           w == l * 1500 + 5000
           c == w \div 65536
           r == w % 65536
           g == h * 1500 + c
<1>1. h \in Nat /\ l \in Nat /\ l < 65536
  <2>1. h \in 0..MaxU16 /\ l \in 0..MaxU16
    BY DEF Seconds
  <2>2. MaxU16 \in Nat /\ MaxU16 < 65536
    BY SMT DEF MaxU16, Word
  <2>3. QED
    BY <2>1, <2>2, SMT
<1>2. h < 43 \/ (h = 43 /\ l <= 45260)
  BY SMT DEF Fits
<1>3. BridgeTimeout(secs) = IF g % 65536 > 0 THEN MaxTimeout ELSE Clamp(r)
  BY SMT DEF BridgeTimeout, HighWord, LowWord, Word
<1>4. secs.high = h /\ secs.low = l
  OBVIOUS
<1> HIDE DEF h, l
<1>5. w \in Nat
  BY <1>1, SMT
<1>6. c \in Nat /\ r \in Nat /\ r < 65536 /\ w = c * 65536 + r
  BY <1>5, DivideByWord, SMT
<1> HIDE DEF c, r
<1>7. g \in Nat /\ g < 65536
  BY <1>1, <1>2, <1>6, SMT
<1>8. g % 65536 = g
  <2> HIDE DEF g
  <2>1. QED
    BY <1>7, SMT
<1>9. CASE h > 0
  <2>1. g > 0
    BY <1>1, <1>6, <1>9, SMT
  <2>2. QED
    BY <1>3, <1>4, <1>8, <1>9, <2>1, SMT
<1>10. CASE h = 0
  <2>1. g = c
    BY <1>1, <1>6, <1>10, SMT
  <2>2. CASE c > 0
    <3>1. BridgeTimeout(secs) = MaxTimeout
      BY <1>3, <1>8, <2>1, <2>2, SMT
    <3>2. l > 40
      BY <1>1, <1>6, <2>2, SMT
    <3>3. QED
      BY <1>1, <1>4, <1>10, <3>1, <3>2, SMT DEF MaxTimeout, Margin
  <2>3. CASE c = 0
    <3>1. BridgeTimeout(secs) = Clamp(w)
      BY <1>3, <1>6, <1>8, <2>1, <2>3, SMT
    <3>2. QED
      BY <1>1, <1>4, <1>10, <3>1, SMT DEF Clamp, MaxTimeout, Margin
  <2>4. QED
    BY <1>6, <2>2, <2>3, SMT
<1>11. QED
  BY <1>1, <1>9, <1>10, SMT

\* The same holds of the first bridge for every ping delay whose product fits a
\* u32, and for those that do not fit nothing is claimed.
THEOREM BridgeMargins == Spec => []BridgeMargin
<1>1. Inv => BridgeMargin
  <2> SUFFICES ASSUME Inv, stage = "ready", NEW b \in config["bridge"] \ {<<>>}
               PROVE  \E ms \in timeouts.bridge :
                        Fits(b[1]) =>
                          IF b[1].high > 0
                            THEN ms = MaxTimeout
                            ELSE ms >= 5000 /\ (Margin(ms, b[1].low) <=> b[1].low <= 43)
    BY SMT DEF BridgeMargin
  <2>1. PICK bridges \in Seq(Seconds) : config["bridge"] = {bridges}
    BY ConfigIsSettled
  <2>2. b = bridges /\ The(config["bridge"]) = b /\ b[1] \in Seconds
    <3>1. b = bridges /\ b # <<>>
      BY <2>1
    <3>2. The(config["bridge"]) = b
      BY <2>1, <3>1, TheOnly
    <3>3. b[1] \in Seconds
      BY <3>1
    <3>4. QED
      BY <3>1, <3>2, <3>3
  <2>3. timeouts.bridge = {BridgeTimeout(b[1])}
    <3>1. b # <<>>
      OBVIOUS
    <3>2. LET bs == The(config["bridge"]) IN bs # <<>> => timeouts.bridge = {BridgeTimeout(bs[1])}
      BY DEF Inv, Built
    <3>3. QED
      BY <2>2, <3>1, <3>2
  <2>4. QED
    BY <2>2, <2>3, FittingBridge, SMT
<1>2. QED
  BY InvHolds, <1>1, PTL
=============================================================================
