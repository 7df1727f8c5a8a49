------------------------------- MODULE Config -------------------------------
(***************************************************************************)
(* internal/config: what Load makes of a configuration file, a .env file   *)
(* and the environment, as pure operators.                                 *)
(*                                                                         *)
(* A source maps fields to values; an environment variable that is empty   *)
(* is Absent.  Values are strings; Zero stands for "", 0 and false,        *)
(* Malformed for text that is no number or boolean where one is expected.  *)
(* Nil is no file, and the Config of an error return or a panic, both of   *)
(* which end the process.                                                  *)
(***************************************************************************)
Absent == "absent"

Zero == "zero"

Malformed == "malformed"

Nil == [f \in {} |-> Zero]

\* Fields that strconv converts.
TypedFields == {"db_max_open_conns", "db_max_idle_conns", "auth_enabled",
                "rate_requests_per_minute", "rate_burst"}

\* Fields with a K8S_MTP_... variable.
EnvFields == TypedFields \cup
  {"listen_addr", "db_url", "log_level", "log_format", "db_conn_max_lifetime",
   "tenant_egress_policy", "platform_access_label", "webhook_image",
   "dex_issuer_url", "dex_client_id"}

\* Those that envParse knows in a .env file: it ignores two of them.
DotEnvFields == EnvFields \ {"log_format", "webhook_image"}

LimitRangeDefaults == {"free_cpu", "free_memory", "pro_cpu", "pro_memory",
                       "enterprise_cpu", "enterprise_memory"}

Fields == EnvFields \cup LimitRangeDefaults

fileParse(data) ==
  IF \E f \in Fields : data[f] = Malformed
    THEN Nil
    ELSE [f \in Fields |-> IF data[f] = Absent THEN Zero ELSE data[f]]

envParse(data) ==
  IF \E f \in TypedFields : data[f] = Malformed
    THEN Nil
    ELSE [f \in Fields |-> IF f \in DotEnvFields /\ data[f] # Absent
                             THEN data[f] ELSE Zero]

\* (mutant) a value from the file is kept.
overrideCfgUnset(cfg, env) ==
  IF \E f \in TypedFields : env[f] = Malformed
    THEN Nil
    ELSE [f \in Fields |-> IF /\ f \in EnvFields /\ env[f] # Absent
                              /\ cfg[f] = Zero
                             THEN env[f] ELSE cfg[f]]

\* A variable that is set replaces the value, by 0 or false too.
overrideCfg(cfg, env) ==
  IF \E f \in TypedFields : env[f] = Malformed
    THEN Nil
    ELSE [f \in Fields |-> IF f \in EnvFields /\ env[f] # Absent
                             THEN env[f] ELSE cfg[f]]

Required == {"listen_addr", "db_url", "log_level"}

\* A number's sign is not checked.
Defaults ==
  [log_format |-> "console", db_max_open_conns |-> "10",
   db_max_idle_conns |-> "5", db_conn_max_lifetime |-> "1h",
   tenant_egress_policy |-> "internal-only",
   platform_access_label |-> "k8s-mtp.io/tenant-access",
   free_cpu |-> "100m", free_memory |-> "128Mi",
   pro_cpu |-> "200m", pro_memory |-> "256Mi",
   enterprise_cpu |-> "500m", enterprise_memory |-> "512Mi",
   webhook_image |-> "k8s-mtp-webhook:latest", dex_client_id |-> "k8s-mtp",
   rate_requests_per_minute |-> "60", rate_burst |-> "10"]

validateCfg(cfg) ==
  IF \/ \E f \in Required : cfg[f] = Zero
     \/ cfg["log_format"] \notin {Zero, "json", "console"}
     \/ cfg["log_level"] \notin {"debug", "info", "warn", "error"}
    THEN Nil
    ELSE [f \in Fields |-> IF cfg[f] = Zero /\ f \in DOMAIN Defaults
                             THEN Defaults[f] ELSE cfg[f]]

(***************************************************************************)
(* s is all that Load looks at: whether the -config flag names a file,     *)
(* that file, ./config.json, ./.env and the environment.                   *)
(***************************************************************************)
\* With neither file the error of the last os.Stat is still in err: Load fails,
\* although it has made a Config that the environment could fill.
Parsed(s) == IF s.named
               THEN IF s.file = Nil THEN Nil ELSE fileParse(s.file)
               ELSE CASE s.json # Nil                    -> fileParse(s.json)
                      [] s.json = Nil /\ s.dotenv # Nil -> envParse(s.dotenv)
                      [] OTHER                           -> Nil

Load(s) ==
  LET parsed     == Parsed(s)
      overridden == IF parsed = Nil THEN Nil ELSE overrideCfg(parsed, s.env)
  IN IF overridden = Nil THEN Nil ELSE validateCfg(overridden)

=============================================================================
