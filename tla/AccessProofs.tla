---------------------------- MODULE AccessProofs ----------------------------
(***************************************************************************)
(* Theorems about Access, for any configurations, users and bounds: type   *)
(* correctness, and that a starting server gets the configuration that its *)
(* sources mean (StartsAsMeant).  What Access says of being served in the  *)
(* end is liveness, and stays with TLC.                                    *)
(***************************************************************************)
EXTENDS Access, TLAPS

-----------------------------------------------------------------------------
(***************************************************************************)
(* What Load computes.                                                     *)
(***************************************************************************)
\* The source that Load parses.
Chosen(s) == IF s.named THEN s.file ELSE IF s.json # Nil THEN s.json ELSE s.dotenv

\* The fields that the chosen source can set.
Settable(s) == IF s.named \/ s.json # Nil THEN Fields ELSE DotEnvFields

\* A parser that does not fail turns what is absent into the zero value.
LEMMA ParsedFields ==
  ASSUME NEW s, Parsed(s) # Nil
  PROVE  \A f \in Settable(s) :
           Parsed(s)[f] = IF Chosen(s)[f] = Absent THEN Zero ELSE Chosen(s)[f]
<1>1. DotEnvFields \subseteq Fields
  BY DEF DotEnvFields, Fields
<1>2. ASSUME NEW data, fileParse(data) # Nil, NEW f \in Fields
      PROVE  fileParse(data)[f] = IF data[f] = Absent THEN Zero ELSE data[f]
  BY <1>2 DEF fileParse
<1>3. ASSUME NEW data, envParse(data) # Nil, NEW f \in DotEnvFields
      PROVE  envParse(data)[f] = IF data[f] = Absent THEN Zero ELSE data[f]
  BY <1>1, <1>3 DEF envParse
<1>4. CASE s.named
  <2>1. Parsed(s) = fileParse(s.file) /\ Chosen(s) = s.file /\ Settable(s) = Fields
    BY <1>4 DEF Parsed, Chosen, Settable
  <2>2. QED
    BY <1>2, <2>1
<1>5. CASE ~s.named /\ s.json # Nil
  <2>1. Parsed(s) = fileParse(s.json) /\ Chosen(s) = s.json /\ Settable(s) = Fields
    BY <1>5 DEF Parsed, Chosen, Settable
  <2>2. QED
    BY <1>2, <2>1
<1>6. CASE ~s.named /\ s.json = Nil
  <2>1. /\ Parsed(s) = envParse(s.dotenv) /\ Chosen(s) = s.dotenv
        /\ Settable(s) = DotEnvFields
    BY <1>6 DEF Parsed, Chosen, Settable
  <2>2. QED
    BY <1>3, <2>1
<1>7. QED
  BY <1>4, <1>5, <1>6

\* A configuration that passed Load has every field.
LEMMA LoadedFields ==
  ASSUME NEW s, Load(s) # Nil
  PROVE  /\ Parsed(s) # Nil /\ overrideCfg(Parsed(s), s.env) # Nil
         /\ Load(s) = validateCfg(overrideCfg(Parsed(s), s.env))
         /\ DOMAIN Load(s) = Fields
<1>1. /\ Parsed(s) # Nil /\ overrideCfg(Parsed(s), s.env) # Nil
      /\ Load(s) = validateCfg(overrideCfg(Parsed(s), s.env))
  BY DEF Load
<1>2. \A cfg : validateCfg(cfg) # Nil => DOMAIN validateCfg(cfg) = Fields
  BY DEF validateCfg
<1>3. QED
  BY <1>1, <1>2

\* Field by field, Load's passes come to the environment's value, else the
\* file's, else the default.
LEMMA LoadMeans ==
  ASSUME NEW s, Load(s) # Nil, NEW f \in Settable(s)
  PROVE  Load(s)[f] = Meant(s, f)
<1> DEFINE parsed == Parsed(s)
           over   == overrideCfg(parsed, s.env)
           set    == f \in EnvFields /\ s.env[f] # Absent
           value  == IF set THEN s.env[f] ELSE Chosen(s)[f]
<1>0. f \in Fields
  BY DEF Settable, DotEnvFields, Fields
<1>1. parsed # Nil /\ over # Nil /\ Load(s) = validateCfg(over)
  BY LoadedFields
<1>2. parsed[f] = IF Chosen(s)[f] = Absent THEN Zero ELSE Chosen(s)[f]
  BY <1>1, ParsedFields
<1>3. over[f] = IF set THEN s.env[f] ELSE parsed[f]
  BY <1>0, <1>1 DEF overrideCfg
<1>4. Load(s)[f] = IF over[f] = Zero /\ f \in DOMAIN Defaults THEN Defaults[f] ELSE over[f]
  <2> HIDE DEF over
  <2>1. validateCfg(over) # Nil
    BY <1>1
  <2>2. QED
    BY <1>0, <1>1, <2>1 DEF validateCfg
<1>5. Meant(s, f) = IF value \in {Absent, Zero}
                      THEN IF f \in DOMAIN Defaults THEN Defaults[f] ELSE Zero
                      ELSE value
  BY DEF Meant, Chosen
<1>6. over[f] = IF value = Absent THEN Zero ELSE value
  BY <1>2, <1>3
<1> HIDE DEF over, value
<1>7. QED
  BY <1>4, <1>5, <1>6

\* Whatever combination of a named file, config.json, .env and environment a
\* server finds when it starts, it runs on the configuration that they mean.
THEOREM StartMeans == Spec => StartsAsMeant
<1> DEFINE Meets == srv.stage = "down" /\ srv'.stage # "down" =>
                      \A f \in Settable(supply) : srv'.cfg[f] = Meant(supply, f)
<1>1. [Next]_accessVars => [Meets]_accessVars
  <2> SUFFICES ASSUME Next, srv.stage = "down", srv'.stage # "down", NEW f \in Settable(supply)
               PROVE  srv'.cfg[f] = Meant(supply, f)
    BY DEF Settable
  <2>1. ApiStart
    <3>1. srv' # srv
      OBVIOUS
    <3>2. ~ApiCrash /\ ~RunMigrationsEmbedded /\ ~Serve
      BY DEF ApiCrash, RunMigrationsEmbedded, Serve
    <3>3. QED
      BY <3>1, <3>2 DEF Next, Server, loginCmd, Command, Complete, Expire, DexRotate,
         DexRetire, DexOutage, DexReturn, DbOutage, DbReturn, Crowd, Refill, Reconfigure
  <2>2. Load(supply) # Nil /\ srv'.cfg = Load(supply)
    BY <2>1 DEF ApiStart
  <2>3. QED
    BY <2>2, LoadMeans
<1>2. QED
  BY <1>1, PTL DEF Spec, StartsAsMeant, Settable

-----------------------------------------------------------------------------
(***************************************************************************)
(* Type correctness.                                                       *)
(***************************************************************************)
\* A File: no client id is ever written but the template's.
ClientFile == [state : {"none", "template", "complete"},
               clientID : {"", "k8s-mtp-cli"},
               token : Token \cup {NoToken}]

\* TypeOK looks into the records; the invariant says that they are records.
Inv == /\ TypeOK
       /\ dex \in [up : BOOLEAN, key : KeyIds, keys : SUBSET KeyIds]
       /\ file \in [Users -> ClientFile]
       /\ db \in [up : BOOLEAN, schema : {"none", "dirty", "migrated"}]
       /\ srv = [stage |-> srv.stage, cfg |-> srv.cfg, keySet |-> srv.keySet]

\* The files that loadConfig makes are files.
LEMMA NewFileType ==
  NewFile("none", "") \in ClientFile /\ NewFile("template", "k8s-mtp-cli") \in ClientFile
BY DEF NewFile, ClientFile

\* A client's file after a step, where only u's changes.
LEMMA FileStep ==
  ASSUME Inv, NEW u \in Users, NEW new \in ClientFile, file' = [file EXCEPT ![u] = new],
         new.token # NoToken => new.state = "complete" /\ new.token.aud = new.clientID
  PROVE  /\ file' \in [Users -> ClientFile]
         /\ \A w \in Users :
              /\ file'[w].state \in {"none", "template", "complete"}
              /\ file'[w].token \in Token \cup {NoToken}
              /\ file'[w].token # NoToken => /\ file'[w].state = "complete"
                                             /\ file'[w].token.aud = file'[w].clientID
<1>1. file' \in [Users -> ClientFile]
  BY DEF Inv
<1>2. \A w \in Users : /\ file'[w].state \in {"none", "template", "complete"}
                       /\ file'[w].token \in Token \cup {NoToken}
  BY <1>1 DEF ClientFile
<1>3. file'[u] = new /\ \A w \in Users \ {u} : file'[w] = file[w]
  BY DEF Inv
<1>4. QED
  BY <1>1, <1>2, <1>3 DEF Inv, TypeOK

ServerOK == /\ srv = [stage |-> srv.stage, cfg |-> srv.cfg, keySet |-> srv.keySet]
            /\ srv.stage \in {"down", "migrate", "auth", "up"}
            /\ srv.stage # "down" => Required \subseteq DOMAIN srv.cfg
            /\ srv.keySet \subseteq KeyIds
            /\ srv.keySet # {} => Up

DbOK == db \in [up : BOOLEAN, schema : {"none", "dirty", "migrated"}]

DexOK == /\ dex \in [up : BOOLEAN, key : KeyIds, keys : SUBSET KeyIds]
         /\ dex.key \in dex.keys

FilesOK == /\ file \in [Users -> ClientFile]
           /\ \A u \in Users :
                /\ file[u].state \in {"none", "template", "complete"}
                /\ file[u].token \in Token \cup {NoToken}
                /\ file[u].token # NoToken => /\ file[u].state = "complete"
                                              /\ file[u].token.aud = file[u].clientID

\* The invariant in parts.
LEMMA InvParts ==
  Inv <=> /\ supply \in Supplies /\ ServerOK /\ DbOK /\ DexOK /\ FilesOK
          /\ crowded \in BOOLEAN /\ answer \in [Users -> Answers]
          /\ faults \in 0..MaxFaults /\ edits \in 0..MaxEdits
BY DEF Inv, TypeOK, ServerOK, DbOK, DexOK, FilesOK

\* Every step keeps the invariant.
LEMMA InvStep == Inv /\ [Next]_accessVars => Inv'
<1> SUFFICES ASSUME Inv, [Next]_accessVars PROVE Inv'
  OBVIOUS
<1>0. /\ supply \in Supplies /\ ServerOK /\ DbOK /\ DexOK /\ FilesOK
      /\ crowded \in BOOLEAN /\ answer \in [Users -> Answers]
      /\ faults \in 0..MaxFaults /\ edits \in 0..MaxEdits
  BY InvParts
<1>a. SUFFICES /\ supply' \in Supplies /\ ServerOK' /\ DbOK' /\ DexOK' /\ FilesOK'
               /\ crowded' \in BOOLEAN /\ answer' \in [Users -> Answers]
               /\ faults' \in 0..MaxFaults /\ edits' \in 0..MaxEdits
  BY InvParts DEF Inv, TypeOK, ServerOK, DbOK, DexOK, FilesOK, Up
<1>b. UNCHANGED srv => ServerOK'
  BY <1>0 DEF ServerOK, Up
<1>c. UNCHANGED dex => DexOK'
  BY <1>0 DEF DexOK
<1>d. UNCHANGED file => FilesOK'
  BY <1>0 DEF FilesOK
<1>h. UNCHANGED db => DbOK'
  BY <1>0 DEF DbOK
<1>e. Fault => faults' \in 0..MaxFaults
  BY <1>0, AccessBoundsAssumption DEF Fault
<1>f. ASSUME NEW u \in Users, NEW new \in ClientFile, file' = [file EXCEPT ![u] = new],
             new.token # NoToken =>
               new.state = "complete" /\ new.token.aud = new.clientID
      PROVE  FilesOK'
  BY <1>f, FileStep DEF FilesOK
<1>g. ASSUME NEW u \in Users, NotConfigured(u)
      PROVE  FilesOK' /\ answer' \in [Users -> Answers]
  <2>1. answer' \in [Users -> Answers]
    BY <1>0, <1>g DEF NotConfigured, Answers
  <2> DEFINE new == NewFile("template", "k8s-mtp-cli")
  <2>2. new \in ClientFile /\ new.token = NoToken
    BY NewFileType DEF NewFile
  <2>3. UNCHANGED file \/ file' = [file EXCEPT ![u] = new]
    BY <1>g DEF NotConfigured
  <2>4. QED
    BY <1>d, <1>f, <2>1, <2>2, <2>3
<1>1. CASE UNCHANGED accessVars
  BY <1>0, <1>1, <1>b, <1>c, <1>d, <1>h DEF accessVars
<1>2. CASE Server
  <2>1. CASE ApiStart
    <3>1. /\ Load(supply) # Nil
          /\ srv' = [stage |-> "migrate", cfg |-> Load(supply), keySet |-> {}]
          /\ UNCHANGED <<supply, db, dex, file, crowded, answer, faults, edits>>
      BY <2>1 DEF ApiStart
    <3>2. Required \subseteq DOMAIN Load(supply)
      BY <3>1, LoadedFields DEF Required, Fields, EnvFields
    <3>3. ServerOK'
      BY <3>1, <3>2 DEF ServerOK
    <3>4. QED
      BY <1>0, <1>c, <1>d, <1>h, <3>1, <3>3
  <2>2. CASE RunMigrationsEmbedded
    <3>1. ServerOK'
      BY <1>0, <2>2 DEF RunMigrationsEmbedded, ServerOK, Down, Up
    <3>2. DbOK'
      BY <1>0, <2>2 DEF RunMigrationsEmbedded, DbOK
    <3>3. QED
      BY <1>0, <1>c, <1>d, <2>2, <3>1, <3>2 DEF RunMigrationsEmbedded
  <2>3. CASE Serve
    <3>1. dex.keys \ Unreadable \subseteq KeyIds
      BY <1>0 DEF DexOK
    <3>2. ServerOK'
      BY <1>0, <2>3, <3>1 DEF Serve, ServerOK, Down, Up
    <3>3. QED
      BY <1>0, <1>c, <1>d, <1>h, <2>3, <3>2 DEF Serve
  <2>4. QED
    BY <1>2, <2>1, <2>2, <2>3 DEF Server
<1>3. CASE ApiCrash
  <2>1. ServerOK'
    BY <1>3 DEF ApiCrash, Down, ServerOK, Up
  <2>2. DbOK'
    BY <1>0, <1>3 DEF ApiCrash, DbOK
  <2>3. QED
    BY <1>0, <1>3, <1>c, <1>d, <1>e, <2>1, <2>2 DEF ApiCrash
<1>4. ASSUME NEW u \in Users, loginCmd(u) PROVE FilesOK' /\ answer' \in [Users -> Answers]
  <2> DEFINE tok == [kid |-> dex.key, aud |-> file[u].clientID, expired |-> FALSE]
             new == [file[u] EXCEPT !.token = tok]
  <2>1. CASE NotConfigured(u)
    BY <1>g, <2>1
  <2>2. CASE /\ file[u].state = "complete"
             /\ file[u].clientID \in PublicClients
             /\ file' = [file EXCEPT ![u].token = tok]
             /\ answer' = [answer EXCEPT ![u] = "loggedIn"]
    <3>1. tok \in Token /\ tok.aud = file[u].clientID
      BY <1>0, <2>2 DEF DexOK, Token
    <3>2. file[u] \in ClientFile
      BY <1>0 DEF FilesOK
    <3> HIDE DEF tok
    <3>3. /\ new \in ClientFile /\ new.token = tok /\ new.state = "complete"
          /\ new.clientID = file[u].clientID
      BY <2>2, <3>1, <3>2 DEF ClientFile
    <3>4. file' = [file EXCEPT ![u] = new]
      BY <2>2
    <3> HIDE DEF new
    <3>5. FilesOK'
      BY <1>f, <3>1, <3>3, <3>4
    <3>6. answer' \in [Users -> Answers]
      BY <1>0, <2>2 DEF Answers
    <3>7. QED
      BY <3>5, <3>6
  <2>3. CASE answer' = [answer EXCEPT ![u] = "noLogin"] /\ UNCHANGED file
    BY <1>0, <1>d, <2>3 DEF Answers
  <2>4. QED
    BY <1>4, <2>1, <2>2, <2>3 DEF loginCmd
<1>5. ASSUME NEW u \in Users, Command(u) PROVE FilesOK' /\ answer' \in [Users -> Answers]
  <2>1. handleResponse(u) \in Answers
    BY DEF handleResponse, Answers
  <2>2. QED
    BY <1>0, <1>5, <1>d, <1>g, <2>1 DEF Command
<1>6. ASSUME NEW u \in Users, Complete(u) PROVE FilesOK'
  <2> DEFINE new == [file[u] EXCEPT !.state = "complete"]
  <2>1. file[u] \in ClientFile /\ file[u].token = NoToken
    BY <1>0, <1>6 DEF Complete, FilesOK
  <2>2. new \in ClientFile /\ new.token = NoToken
    BY <2>1 DEF ClientFile
  <2>3. file' = [file EXCEPT ![u] = new]
    BY <1>6 DEF Complete
  <2>4. QED
    BY <1>f, <2>2, <2>3
<1>7. ASSUME NEW u \in Users, Expire(u) PROVE FilesOK'
  <2> DEFINE tok == [file[u].token EXCEPT !.expired = TRUE]
             new == [file[u] EXCEPT !.token = tok]
  <2>1. /\ file[u] \in ClientFile /\ file[u].token \in Token
        /\ file[u].state = "complete" /\ file[u].token.aud = file[u].clientID
    BY <1>0, <1>7 DEF Expire, FilesOK
  <2>2. tok \in Token /\ tok.aud = file[u].token.aud
    BY <2>1 DEF Token
  <2>3. file' = [file EXCEPT ![u] = new]
    BY <1>7 DEF Expire
  <2> HIDE DEF tok
  <2>4. /\ new \in ClientFile /\ new.token = tok /\ new.state = "complete"
        /\ new.clientID = file[u].clientID
    BY <2>1, <2>2 DEF ClientFile
  <2> HIDE DEF new
  <2>5. QED
    BY <1>f, <2>1, <2>2, <2>3, <2>4
<1>8. CASE DexRotate \/ DexRetire \/ DexOutage \/ DexReturn
  <2>1. DexOK'
    <3>1. MaxKeys \in Nat /\ dex.key \in 1..MaxKeys
      BY <1>0, AccessBoundsAssumption DEF DexOK, KeyIds
    <3>2. dex.key < MaxKeys => dex.key + 1 \in KeyIds
      BY <3>1 DEF KeyIds
    <3>3. QED
      BY <1>0, <1>8, <3>2 DEF DexRotate, DexRetire, DexOutage, DexReturn, DexOK
  <2>2. faults' \in 0..MaxFaults
    BY <1>0, <1>8, <1>e DEF DexRotate, DexRetire, DexOutage, DexReturn
  <2>3. QED
    BY <1>0, <1>8, <1>b, <1>d, <1>h, <2>1, <2>2 DEF DexRotate, DexRetire, DexOutage, DexReturn
<1>9. CASE Reconfigure
  <2>1. edits' \in 0..MaxEdits
    BY <1>0, <1>9, AccessBoundsAssumption DEF Reconfigure
  <2>2. QED
    BY <1>0, <1>9, <1>b, <1>c, <1>d, <1>h, <2>1 DEF Reconfigure
<1>10. ASSUME NEW u \in Users, loginCmd(u) \/ Command(u)
       PROVE  /\ supply' \in Supplies /\ ServerOK' /\ DbOK' /\ DexOK' /\ FilesOK'
              /\ crowded' \in BOOLEAN /\ answer' \in [Users -> Answers]
              /\ faults' \in 0..MaxFaults /\ edits' \in 0..MaxEdits
  BY <1>0, <1>4, <1>5, <1>10, <1>b, <1>c, <1>h DEF loginCmd, Command
<1>11. ASSUME NEW u \in Users, Complete(u) \/ Expire(u)
       PROVE  /\ supply' \in Supplies /\ ServerOK' /\ DbOK' /\ DexOK' /\ FilesOK'
              /\ crowded' \in BOOLEAN /\ answer' \in [Users -> Answers]
              /\ faults' \in 0..MaxFaults /\ edits' \in 0..MaxEdits
  BY <1>0, <1>6, <1>7, <1>11, <1>b, <1>c, <1>e, <1>h DEF Complete, Expire
<1>12. CASE DbOutage \/ DbReturn
  <2>1. DbOK'
    BY <1>0, <1>12 DEF DbOutage, DbReturn, DbOK
  <2>2. faults' \in 0..MaxFaults
    BY <1>0, <1>12, <1>e DEF DbOutage, DbReturn
  <2>3. QED
    BY <1>0, <1>12, <1>b, <1>c, <1>d, <2>1, <2>2 DEF DbOutage, DbReturn
<1>13. CASE Crowd \/ Refill
  BY <1>0, <1>13, <1>b, <1>c, <1>d, <1>h DEF Crowd, Refill
<1>14. QED
  BY <1>1, <1>2, <1>3, <1>8, <1>9, <1>10, <1>11, <1>12, <1>13 DEF Next

\* Every reachable state is well typed: a server that has opened the database has
\* a configuration with the required fields, only one that is up has keys (and
\* may have none), and a client with a token has a complete file and the token is
\* for the client id in it.
THEOREM AccessTypeCorrect == Spec => []TypeOK
<1>1. Init => Inv
  <2> SUFFICES ASSUME Init PROVE Inv
    OBVIOUS
  <2>1. 1 \in KeyIds
    BY AccessBoundsAssumption DEF KeyIds
  <2>2. DexOK
    BY <2>1 DEF Init, DexOK
  <2>9. DbOK /\ crowded \in BOOLEAN
    BY DEF Init, DbOK
  <2>3. ServerOK
    BY DEF Init, Down, ServerOK, Up
  <2>4. NewFile("none", "") \in ClientFile /\ NewFile("none", "").token = NoToken
    BY NewFileType DEF NewFile
  <2>5. FilesOK
    BY <2>4 DEF Init, FilesOK, ClientFile
  <2>6. faults \in 0..MaxFaults /\ edits \in 0..MaxEdits
    <3>1. faults = 0 /\ edits = 0
      BY DEF Init
    <3>2. QED
      BY <3>1, AccessBoundsAssumption
  <2>7. supply \in Supplies /\ answer \in [Users -> Answers]
    BY DEF Init, Answers
  <2>8. QED
    BY <2>2, <2>3, <2>5, <2>6, <2>7, <2>9, InvParts
<1>2. Inv /\ [Next]_accessVars => Inv'
  BY InvStep
<1>3. Inv => TypeOK
  BY DEF Inv
<1>4. QED
  BY <1>1, <1>2, <1>3, PTL DEF Spec

=============================================================================
