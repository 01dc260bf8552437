------------------------------ MODULE MCStartup ------------------------------
(***************************************************************************)
(* Instances for TLC: files and environments that give a few settings, at  *)
(* the values where the code decides.                                      *)
(***************************************************************************)
EXTENDS Startup, TLC

SectionOf(s) ==
  CASE s \in {"api_keys", "require_auth"} -> "auth"
    [] s \in {"enabled", "bind_addr"} -> "cluster"
    [] s \in Section \cup {"bridge"} -> s
    [] OTHER -> "mqtt"

Ping(above, high, low) == [above |-> above, high |-> high, low |-> low]

Examples(s) ==
  CASE s \in Section -> {TRUE}
    [] s \in Address -> {"good", "bad"}
    [] s \in Limit -> {0}
    [] s = "keepalive_secs" -> {0, 43, 44, 65535}
    [] s = "max_qos" -> {2, 3}
    [] s = "api_keys" -> SUBSET Key
    [] s \in Switch -> BOOLEAN
    [] s = "bridge" -> {<<Ping(0, 0, 43), Ping(0, 0, 30)>>, <<Ping(0, 0, 44)>>, <<Ping(0, 1, 0)>>,
                        <<Ping(0, 43, 45260)>>, <<Ping(0, 43, 45261)>>, <<Ping(1, 0, 0)>>}

Give(src, s, v) == [src EXCEPT ![SectionOf(s)] = {TRUE}, ![s] = {v}]

\* src, and src with one more of these settings.
With(src, settings) == {src} \cup UNION {{Give(src, s, v) : v \in Examples(s)} : s \in settings}

Complete == [s \in Setting |-> IF s \in Required THEN {TRUE} ELSE {}]

MCFiles ==
  UNION {With(src, Setting) :
           src \in With(Complete, Setting) \cup {Give(Complete, "api_keys", Key), Nothing}}

\* The environment gives no lists; this much of it replaces a file.
Scalars == Setting \ {"api_keys", "bridge"}
Alone == Give(Complete, "require_auth", FALSE)

Variables(documented, separated) == (Documented :> documented) @@ (Separated :> separated)

\* Separated names only; and documented ones, alone or with a separated one.
MCEnvironments ==
  {Variables(Nothing, src) :
     src \in With(Nothing, Scalars) \cup With(Alone, {"cluster", "enabled", "bind_addr"})}
  \cup {Variables(src, other) :
          src \in With(Nothing, {"listen_addr", "max_qos"}) \ {Nothing},
          other \in {Nothing, Give(Nothing, "listen_addr", "good")}}

MCHash == [k \in Key |-> <<"sha256", k>>]
=============================================================================
