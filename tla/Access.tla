------------------------------- MODULE Access -------------------------------
(***************************************************************************)
(* How a user of the command line client (cmd/cli) gets through to the API *)
(* server: the server's start, at which it loads its configuration, opens  *)
(* the database, migrates it and fetches Dex's signing keys, its           *)
(* middleware chain, logging in at Dex and the token that the client keeps *)
(* in its file.                                                            *)
(*                                                                         *)
(* The rate limiter has a bucket for each connection (RateLimiter).  A     *)
(* client that connects to the server itself comes on a new one; behind an *)
(* ingress it shares one with others, who may have emptied its bucket.     *)
(*                                                                         *)
(* External: Dex, which rotates its signing key, publishes the former key  *)
(* for a while longer, may be unreachable, and issues tokens to public     *)
(* clients without a secret (the client sends none); the database, which   *)
(* may be unreachable too; the ingress; the kubelet; users.                *)
(***************************************************************************)
EXTENDS Naturals, Config

CONSTANTS Users,
          Supplies,      \* what a server may find when it loads its configuration
          DbUrl,         \* where the database is
          Durations,     \* the texts that time.ParseDuration takes
          ListenAddrs,   \* the addresses that the server can listen on
          Issuer,        \* Dex's issuer URL
          Unreadable,    \* published keys that publicKey cannot decode
          PublicClients, \* clients that Dex knows and asks no secret of
          NoToken,       \* the client has not logged in
          MaxKeys,       \* bound: signing keys
          MaxFaults,     \* bound: crashes, outages of Dex and database, expired tokens
          MaxEdits       \* bound: changes of the server's configuration

ASSUME AccessBoundsAssumption == MaxKeys \in Nat \ {0} /\ MaxFaults \in Nat
                                   /\ MaxEdits \in Nat

VARIABLES supply,  \* what the server would find now
          srv,     \* how far the server is, its configuration and its key set
          db,      \* the database: reachable, and the state of its schema
          dex,     \* Dex: reachable, its signing key and the keys it publishes
          file,    \* each user's ~/.k8s-mtp/config
          crowded, \* others have emptied the bucket of the users' connection
          answer,  \* what each user's last command or login came to
          faults, edits

accessVars == <<supply, srv, db, dex, file, crowded, answer, faults, edits>>

KeyIds == 1..MaxKeys

Token == [kid : KeyIds, aud : PublicClients, expired : BOOLEAN]

\* state: none, template (loadConfig made it: no URLs), complete.
File == [state : {"none", "template", "complete"}, clientID : STRING,
         token : Token \cup {NoToken}]

NewFile(state, clientID) ==
  [state |-> state, clientID |-> clientID, token |-> NoToken]

Answers == {"none", "config", "loggedIn", "noLogin", "noConnection", "limited",
            "unauthorized", "failed", "served"}

Down == [stage |-> "down", cfg |-> Nil, keySet |-> {}]

Up == srv.stage = "up"

TypeOK == /\ supply \in Supplies
          /\ srv.stage \in {"down", "migrate", "auth", "up"}
          /\ srv.stage # "down" => Required \subseteq DOMAIN srv.cfg
          /\ srv.keySet \subseteq KeyIds
          /\ srv.keySet # {} => Up
          /\ db.up \in BOOLEAN /\ db.schema \in {"none", "dirty", "migrated"}
          /\ dex.up \in BOOLEAN /\ dex.key \in KeyIds /\ dex.key \in dex.keys
          /\ dex.keys \subseteq KeyIds
          /\ \A u \in Users :
               /\ file[u].state \in {"none", "template", "complete"}
               /\ file[u].token \in Token \cup {NoToken}
               /\ file[u].token # NoToken => /\ file[u].state = "complete"
                                             /\ file[u].token.aud = file[u].clientID
          /\ crowded \in BOOLEAN
          /\ answer \in [Users -> Answers]
          /\ faults \in 0..MaxFaults /\ edits \in 0..MaxEdits

Init == /\ supply \in Supplies
        /\ srv = Down
        /\ db = [up |-> TRUE, schema |-> "none"]
        /\ dex = [up |-> TRUE, key |-> 1, keys |-> {1}]
        /\ file = [u \in Users |-> NewFile("none", "")]
        /\ crowded = FALSE
        /\ answer = [u \in Users |-> "none"]
        /\ faults = 0 /\ edits = 0

Fault == faults < MaxFaults /\ faults' = faults + 1

-----------------------------------------------------------------------------
(***************************************************************************)
(* The server.                                                             *)
(***************************************************************************)
\* (mutant) with authentication off there is no middleware.
FetchesWhenEnabled(cfg) ==
  dex.up /\ cfg["dex_issuer_url"] = Issuer /\ cfg["auth_enabled"] = "true"

\* NewAuthMiddleware gets the keys whether authentication is on or not.
Fetches(cfg) == dex.up /\ cfg["dex_issuer_url"] = Issuer

Listens(cfg) == cfg["listen_addr"] \in ListenAddrs

\* store.New: the connections' life time, and a ping.
Opens(cfg) == /\ cfg["db_conn_max_lifetime"] \in Durations
              /\ db.up /\ cfg["db_url"] = DbUrl

\* main, up to the migrations.  A process that gets no further exits, and is
\* started again.
ApiStart == /\ srv.stage = "down"
            /\ Load(supply) # Nil /\ Opens(Load(supply))
            /\ srv' = [stage |-> "migrate", cfg |-> Load(supply), keySet |-> {}]
            /\ UNCHANGED <<supply, db, dex, file, crowded, answer, faults, edits>>

\* Whatever the controllers migrate meanwhile (Startup).
RunMigrationsEmbedded ==
  /\ srv.stage = "migrate"
  /\ LET migrates == db.up /\ db.schema # "dirty"
     IN /\ srv' = IF migrates THEN [srv EXCEPT !.stage = "auth"] ELSE Down
        /\ db'  = IF migrates THEN [db EXCEPT !.schema = "migrated"] ELSE db
  /\ UNCHANGED <<supply, dex, file, crowded, answer, faults, edits>>

\* The rest of main: NewAuthMiddleware skips a key that it cannot decode, and
\* the server starts to listen.
Serve ==
  /\ srv.stage = "auth"
  /\ srv' = IF Fetches(srv.cfg) /\ Listens(srv.cfg)
              THEN [srv EXCEPT !.stage = "up", !.keySet = dex.keys \ Unreadable]
              ELSE Down
  /\ UNCHANGED <<supply, db, dex, file, crowded, answer, faults, edits>>

\* The server dies, or waits for the migration lock in vain.  In the middle of
\* the migration, its own or that of the controller it waits for, the schema is
\* left dirty.
ApiCrash ==
  /\ srv.stage # "down" /\ Fault
  /\ srv' = Down
  /\ \/ UNCHANGED db
     \/ /\ srv.stage = "migrate" /\ db.schema = "none"
        /\ db' = [db EXCEPT !.schema = "dirty"]
  /\ UNCHANGED <<supply, dex, file, crowded, answer, edits>>

Auth(t) ==
  \/ srv.cfg["auth_enabled"] # "true"
  \/ /\ t # NoToken
     /\ t.kid \in srv.keySet
     /\ srv.cfg["dex_issuer_url"] = Issuer
     /\ t.aud = srv.cfg["dex_client_id"] /\ ~t.expired

\* A bucket that nobody has used lets a first request pass.
FirstPasses == srv.cfg["rate_burst"] # "negative"

Limit == FirstPasses /\ ~crowded

-----------------------------------------------------------------------------
(***************************************************************************)
(* The client.                                                             *)
(***************************************************************************)
\* loadConfig finds no file, which it creates, or one without URLs.
NotConfigured(u) ==
  /\ file[u].state # "complete"
  /\ file' = IF file[u].state = "none"
               THEN [file EXCEPT ![u] = NewFile("template", "k8s-mtp-cli")]
               ELSE file
  /\ answer' = [answer EXCEPT ![u] = "config"]

\* (mutant) the token is not saved.
loginCmdUnsaved(u) ==
  /\ \/ NotConfigured(u)
     \/ /\ file[u].state = "complete"
        /\ answer' = [answer EXCEPT ![u] = "loggedIn"]
        /\ UNCHANGED file
  /\ UNCHANGED <<supply, srv, db, dex, crowded, faults, edits>>

\* (mutant) loadConfig does not look at the URLs.
loginCmdUnchecked(u) ==
  /\ dex.up /\ file[u].clientID \in PublicClients
  /\ file' = [file EXCEPT ![u].token =
                [kid |-> dex.key, aud |-> file[u].clientID, expired |-> FALSE]]
  /\ answer' = [answer EXCEPT ![u] = "loggedIn"]
  /\ UNCHANGED <<supply, srv, db, dex, crowded, faults, edits>>

loginCmd(u) ==
  /\ \/ NotConfigured(u)
     \/ /\ file[u].state = "complete"
        /\ dex.up /\ file[u].clientID \in PublicClients
        /\ file' = [file EXCEPT ![u].token =
                      [kid |-> dex.key, aud |-> file[u].clientID, expired |-> FALSE]]
        /\ answer' = [answer EXCEPT ![u] = "loggedIn"]
     \/ /\ file[u].state = "complete"
        /\ ~(dex.up /\ file[u].clientID \in PublicClients)
        /\ answer' = [answer EXCEPT ![u] = "noLogin"]
        /\ UNCHANGED file
  /\ UNCHANGED <<supply, srv, db, dex, crowded, faults, edits>>

\* What handleResponse makes of the server's answer: the middlewares in NewMux's
\* order, then a handler, which needs the database.
handleResponse(u) ==
  CASE ~Up                                                  -> "noConnection"
    [] Up /\ ~Limit                                         -> "limited"
    [] Up /\ Limit /\ ~Auth(file[u].token)                  -> "unauthorized"
    [] Up /\ Limit /\ Auth(file[u].token) /\ ~db.up         -> "failed"
    [] OTHER                                                -> "served"

\* Any tenant or member command: they differ in method, path and output.
Command(u) ==
  /\ \/ NotConfigured(u)
     \/ /\ file[u].state = "complete"
        /\ answer' = [answer EXCEPT ![u] = handleResponse(u)]
        /\ UNCHANGED file
  /\ UNCHANGED <<supply, srv, db, dex, crowded, faults, edits>>

-----------------------------------------------------------------------------
(***************************************************************************)
(* The environment.                                                        *)
(***************************************************************************)
\* The user fills in the URLs, and keeps the client id.
Complete(u) == /\ file[u].state = "template" /\ answer[u] = "config"
               /\ file' = [file EXCEPT ![u].state = "complete"]
               /\ UNCHANGED <<supply, srv, db, dex, crowded, answer, faults, edits>>

Expire(u) == /\ file[u].token # NoToken /\ ~file[u].token.expired /\ Fault
             /\ file' = [file EXCEPT ![u].token.expired = TRUE]
             /\ UNCHANGED <<supply, srv, db, dex, crowded, answer, edits>>

DexRotate == /\ dex.key < MaxKeys
             /\ dex' = [dex EXCEPT !.key = @ + 1, !.keys = {dex.key, dex.key + 1}]
             /\ UNCHANGED <<supply, srv, db, file, crowded, answer, faults, edits>>

DexRetire == /\ dex.keys # {dex.key}
             /\ dex' = [dex EXCEPT !.keys = {dex.key}]
             /\ UNCHANGED <<supply, srv, db, file, crowded, answer, faults, edits>>

DexOutage == /\ dex.up /\ Fault
             /\ dex' = [dex EXCEPT !.up = FALSE]
             /\ UNCHANGED <<supply, srv, db, file, crowded, answer, edits>>

DexReturn == /\ ~dex.up
             /\ dex' = [dex EXCEPT !.up = TRUE]
             /\ UNCHANGED <<supply, srv, db, file, crowded, answer, faults, edits>>

DbOutage == /\ db.up /\ Fault
            /\ db' = [db EXCEPT !.up = FALSE]
            /\ UNCHANGED <<supply, srv, dex, file, crowded, answer, edits>>

DbReturn == /\ ~db.up
            /\ db' = [db EXCEPT !.up = TRUE]
            /\ UNCHANGED <<supply, srv, dex, file, crowded, answer, faults, edits>>

\* Others empty the bucket of a connection that they share with the users.
Crowd == /\ Up /\ ~crowded /\ crowded' = TRUE
         /\ UNCHANGED <<supply, srv, db, dex, file, answer, faults, edits>>

\* They have paused for long enough.
Refill == /\ crowded /\ crowded' = FALSE
          /\ UNCHANGED <<supply, srv, db, dex, file, answer, faults, edits>>

\* The operator changes the ConfigMap or the environment; it is read at the
\* next start.
Reconfigure == /\ edits < MaxEdits /\ edits' = edits + 1
               /\ supply' \in Supplies \ {supply}
               /\ UNCHANGED <<srv, db, dex, file, crowded, answer, faults>>

Server == ApiStart \/ RunMigrationsEmbedded \/ Serve

Next == \/ Server \/ ApiCrash
        \/ \E u \in Users : loginCmd(u) \/ Command(u) \/ Complete(u) \/ Expire(u)
        \/ DexRotate \/ DexRetire \/ DexOutage \/ DexReturn
        \/ DbOutage \/ DbReturn \/ Crowd \/ Refill
        \/ Reconfigure

\* A user who is told "Token expired. Run: k8s-mtp login", or whose login failed.
LogsIn(u) == answer[u] \in {"unauthorized", "noLogin"} /\ loginCmd(u)

(***************************************************************************)
(* The kubelet restarts the server, outages end, a bucket is refilled, and *)
(* a user completes the file, logs in when told to and keeps trying.       *)
(***************************************************************************)
Fairness == /\ WF_accessVars(Server)
            /\ WF_accessVars(DexReturn) /\ WF_accessVars(DbReturn)
            /\ WF_accessVars(Refill)
            /\ \A u \in Users : /\ WF_accessVars(Complete(u))
                                /\ WF_accessVars(LogsIn(u))
                                /\ SF_accessVars(Command(u))

Spec == Init /\ [][Next]_accessVars /\ Fairness

-----------------------------------------------------------------------------
\* The value of field f that the files and the environment of s mean: the
\* environment's, else the file's, else the default.
Meant(s, f) ==
  LET chosen == IF s.named THEN s.file ELSE IF s.json # Nil THEN s.json ELSE s.dotenv
      value  == IF f \in EnvFields /\ s.env[f] # Absent THEN s.env[f] ELSE chosen[f]
  IN IF value \in {Absent, Zero}
       THEN IF f \in DOMAIN Defaults THEN Defaults[f] ELSE Zero
       ELSE value

\* Load's two passes over three possible sources give a starting server the
\* configuration that they mean together, field by field; only what a .env file
\* says of the log format and the webhook's image is lost.
StartsAsMeant ==
  [][srv.stage = "down" /\ srv'.stage # "down" =>
       \A f \in IF supply.named \/ supply.json # Nil THEN Fields ELSE DotEnvFields :
         srv'.cfg[f] = Meant(supply, f)]_accessVars

Usable(s) == LET cfg == Load(s)
             IN /\ cfg # Nil
                /\ cfg["db_conn_max_lifetime"] \in Durations /\ cfg["db_url"] = DbUrl
                /\ cfg["listen_addr"] \in ListenAddrs
                /\ cfg["dex_issuer_url"] = Issuer

\* Whatever is changed while it starts or runs, whatever crashes and whichever of
\* database and Dex cannot be reached for a time, the server comes up for good,
\* unless the configuration it finds is unusable for good or the schema is dirty.
UpUnlessUnusable == <>[]Up \/ <>[]~Usable(supply) \/ <>[](db.schema = "dirty")

\* The server does not know the key that Dex signs with.
KeySetStale == dex.key \notin srv.keySet

\* The server expects tokens for a client that this user's client is not.
AudienceDiffers(u) == file[u].clientID # srv.cfg["dex_client_id"]

\* A user who logs in when told "Token expired. Run: k8s-mtp login" and repeats
\* the command is served again and again, through expired tokens, crashes,
\* outages, rotated keys and changed configurations.  What alone keeps the user
\* out is a server that is down for good or has a negative burst or, with
\* authentication on, one that started before Dex's last rotation, cannot decode
\* the key or expects another audience; or others on the user's connection who
\* empty its bucket again and again.
ServedInTheEnd ==
  \A u \in Users :
    \/ []<>(answer[u] = "served")
    \/ <>[]~Up
    \/ <>[](Up /\ ~FirstPasses)
    \/ []<>crowded
    \/ <>[](Up /\ srv.cfg["auth_enabled"] = "true" /\ KeySetStale)
    \/ <>[](Up /\ srv.cfg["auth_enabled"] = "true" /\ AudienceDiffers(u))

=============================================================================
