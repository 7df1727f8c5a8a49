------------------------------ MODULE MCAccess ------------------------------
(***************************************************************************)
(* A small instance of Access.                                             *)
(***************************************************************************)
EXTENDS Access, TLC

Nothing == [f \in Fields |-> Absent]

\* A file that works, with authentication on and the client's audience.
WorkingFile == ("listen_addr" :> "addr" @@ "db_url" :> "url" @@ "log_level" :> "info"
               @@ "dex_issuer_url" :> "dex" @@ "dex_client_id" :> "k8s-mtp-cli"
               @@ "auth_enabled" :> "true" @@ "rate_burst" :> "5") @@ Nothing

FromFile(settings, env) == [named |-> TRUE, file |-> settings, json |-> Nil,
                            dotenv |-> Nil, env |-> env @@ Nothing]

FromDir(json, dotenv, env) == [named |-> FALSE, file |-> Nil, json |-> json,
                               dotenv |-> dotenv, env |-> env @@ Nothing]

TestSupplies ==
  {FromFile(WorkingFile, "auth_enabled" :> Zero),
   FromFile(WorkingFile, "dex_client_id" :> "k8s-mtp"),
   FromFile(WorkingFile, "rate_burst" :> Malformed),
   FromFile(WorkingFile, "db_conn_max_lifetime" :> "soon"),
   FromFile(WorkingFile, "db_url" :> "elsewhere"),
   FromFile(WorkingFile, "listen_addr" :> "taken"),
   FromFile([WorkingFile EXCEPT !["db_url"] = Absent], Nothing),
   FromFile(WorkingFile, "rate_burst" :> "negative"),
   FromDir(WorkingFile, Nil, "log_level" :> "debug"),
   FromDir(Nil, [WorkingFile EXCEPT !["log_format"] = "json"], "rate_burst" :> Zero),
   FromDir(Nil, Nil, WorkingFile)}

=============================================================================
