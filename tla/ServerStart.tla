----------------------------- MODULE ServerStart -----------------------------
(***************************************************************************)
(* cmd/server/main.go and pkg/server/run.go: a server process from its     *)
(* start to its end, over the files that outlive it - the database, the    *)
(* certificate and its key - while export commands open the same database. *)
(* Any process may be killed between any two accesses to a file, and the   *)
(* server is started again (Restart=always).                               *)
(***************************************************************************)
EXTENDS SchemaMigration, ChannelTree

CONSTANTS
  Server,      \* the server, one of Procs and, for its ChannelsFile, of Importers
  LogsInfo     \* -log-level is debug or info

ASSUME StartAssumption ==
  /\ Server \in Procs
  /\ Server \in Importers
  /\ LogsInfo \in BOOLEAN

VARIABLES
  adminTokens,  \* rows of table tokens that ensureAdminToken made
  shown,        \* one of them has been logged
  cert, key,    \* the key pair each file holds a half of, 0 when absent or torn
  pair,         \* the key pair the process has generated
  serving       \* the key pair the control listener uses, 0 when there is none

tlsVars == <<cert, key, pair, serving>>
tokenVars == <<adminTokens, shown>>
vars == <<migTable, versions, tables, columns, pc, ver, mig, stmt, faults,
          rows, lastID, at, missing, ids, logged, requests,
          adminTokens, shown, cert, key, pair, serving>>

Init ==
  /\ SchemaInit
  /\ TreeInit
  /\ adminTokens = 0
  /\ shown = FALSE
  /\ cert = 0
  /\ key = 0
  /\ pair = 0
  /\ serving = 0

Admins == Importers \ {Server}

-----------------------------------------------------------------------------
(* Steps of Run *)

StartSteps == {"opened", "lobby", "channels", "importing", "has_tokens", "store_token",
               "log_token", "tls_load", "crt_create", "crt_write", "key_create",
               "key_write", "tls_reload", "listen_control", "listen_voice"}

InMemory == <<ver, mig, stmt>>
RunStep(label, next) == At(Server, label) /\ Goto(Server, next) /\ UNCHANGED <<fileVars, InMemory>>

\* An error of ListChannels counts as an empty list
ListChannels ==
  /\ \/ At(Server, "opened")
        /\ Goto(Server, IF rows = <<>> THEN "lobby" ELSE "channels")
     \/ pc[Server] = "opened" /\ Fault /\ Goto(Server, "lobby")
  /\ UNCHANGED <<fileVars, InMemory, treeVars, tokenVars, tlsVars>>

CreateLobby ==
  /\ RunStep("lobby", "channels")
  /\ CreateChannel(Row(LobbyName, Root, FALSE))
  /\ UNCHANGED <<importVars, requests, tokenVars, tlsVars>>

\* LoadChannelsFromYAML; no file is a file without channels
LoadChannels ==
  /\ RunStep("channels", "importing")
  /\ StartImport(Server)
  /\ UNCHANGED <<requests, tokenVars, tlsVars>>

\* The file cannot be read or parsed: logged, and the start goes on
BadChannelsFile ==
  /\ pc[Server] = "channels"
  /\ Fault
  /\ Goto(Server, "has_tokens")
  /\ UNCHANGED <<fileVars, InMemory, treeVars, tokenVars, tlsVars>>

ChannelsLoaded ==
  /\ RunStep("importing", "has_tokens")
  /\ Imported(Server)
  /\ UNCHANGED <<tokenVars, tlsVars>>

\* A token nobody has seen does not count.
HasShownTokens ==
  /\ RunStep("has_tokens", IF shown THEN "tls_load" ELSE "store_token")
  /\ UNCHANGED <<treeVars, tokenVars, tlsVars>>

\* ensureAdminToken
HasTokens ==
  /\ RunStep("has_tokens", IF adminTokens > 0 THEN "tls_load" ELSE "store_token")
  /\ UNCHANGED <<treeVars, tokenVars, tlsVars>>

StoreAdminToken ==
  /\ RunStep("store_token", "log_token")
  /\ adminTokens' = adminTokens + 1
  /\ UNCHANGED <<treeVars, shown, tlsVars>>

LogAdminToken ==
  /\ RunStep("log_token", "tls_load")
  /\ shown' = (shown \/ LogsInfo)
  /\ UNCHANGED <<treeVars, adminTokens, tlsVars>>

\* loadOrGenerateTLS: LoadX509KeyPair fails unless the halves fit
Loadable == cert # 0 /\ cert = key

\* A pair of its own for every start.
GeneratePair ==
  /\ RunStep("tls_load", "crt_create")
  /\ serving' = 0
  /\ pair' = pair + 1
  /\ UNCHANGED <<treeVars, tokenVars, cert, key>>

LoadPair ==
  /\ RunStep("tls_load", IF Loadable THEN "listen_control" ELSE "crt_create")
  /\ serving' = IF Loadable THEN cert ELSE 0
  /\ pair' = IF Loadable THEN pair ELSE pair + 1
  /\ UNCHANGED <<treeVars, tokenVars, cert, key>>

CreateCert ==
  /\ RunStep("crt_create", "crt_write")
  /\ cert' = 0
  /\ UNCHANGED <<treeVars, tokenVars, key, pair, serving>>

WriteCert ==
  /\ RunStep("crt_write", "key_create")
  /\ cert' = pair
  /\ UNCHANGED <<treeVars, tokenVars, key, pair, serving>>

CreateKey ==
  /\ RunStep("key_create", "key_write")
  /\ key' = 0
  /\ UNCHANGED <<treeVars, tokenVars, cert, pair, serving>>

WriteKey ==
  /\ RunStep("key_write", "tls_reload")
  /\ key' = pair
  /\ UNCHANGED <<treeVars, tokenVars, cert, pair, serving>>

ReloadPair ==
  /\ RunStep("tls_reload", "listen_control")
  /\ Loadable
  /\ serving' = cert
  /\ UNCHANGED <<treeVars, tokenVars, cert, key, pair>>

StartControl ==
  /\ RunStep("listen_control", "listen_voice")
  /\ UNCHANGED <<treeVars, tokenVars, tlsVars>>

StartVoice ==
  /\ RunStep("listen_voice", "running")
  /\ UNCHANGED <<treeVars, tokenVars, tlsVars>>

-----------------------------------------------------------------------------
(* Imports, of the start and of administrators *)

ImportStep(a) ==
  /\ pc[Server] = IF a = Server THEN "importing" ELSE "running"
  /\ Import(a)
  /\ UNCHANGED <<schemaVars, tokenVars, tlsVars>>

ImportError(a) ==
  /\ Importing(a)
  /\ StoreError(a)
  /\ Fault
  /\ UNCHANGED <<fileVars, procVars, tokenVars, tlsVars>>

Serve ==
  /\ pc[Server] = "running"
  /\ MakeTemp \/ Delete \/ \E a \in Admins : ImportRequest(a) \/ Imported(a)
  /\ UNCHANGED <<schemaVars, tokenVars, tlsVars>>

-----------------------------------------------------------------------------
(* Ends *)

\* Nothing of the process is left but its files
Ended ==
  /\ Gone(Server)
  /\ serving' = 0
  /\ Forget(Importers)
  /\ UNCHANGED <<fileVars, tokenVars, cert, key, pair>>

\* An error Run returns, or the process is killed
ServerFails == pc[Server] # "off" /\ Fault /\ Ended

\* SIGINT or SIGTERM
Shutdown == At(Server, "running") /\ Ended

Elsewhere == UNCHANGED <<treeVars, tokenVars, tlsVars>>

\* An export command: store.New, then it reads and ends.  One that finds the
\* schema complete only reads, and is left out.
\* One that is killed takes no further step.
ExportCommand(p) ==
  /\ p # Server
  /\ pc[p] = "off" => Latest \notin Elements(versions)
  /\ Open(p) \/ Migrate(p) \/ Exit(p)
  /\ Elsewhere

\* store.New of the server
NewStore == (Open(Server) \/ Migrate(Server)) /\ Elsewhere

Run ==
  \/ NewStore
  \/ ListChannels \/ CreateLobby \/ LoadChannels \/ BadChannelsFile
  \/ ImportStep(Server) \/ ChannelsLoaded
  \/ HasTokens \/ StoreAdminToken \/ LogAdminToken
  \/ LoadPair \/ CreateCert \/ WriteCert \/ CreateKey \/ WriteKey \/ ReloadPair
  \/ StartControl \/ StartVoice

Next ==
  \/ Run
  \/ Serve
  \/ \E a \in Admins : ImportStep(a)
  \/ \E a \in Importers : ImportError(a)
  \/ ServerFails
  \/ Shutdown
  \/ \E p \in Procs : ExportCommand(p)

Spec == Init /\ [][Next]_vars

\* The operating system runs the process, and systemd or Docker restarts it
FairSpec == Spec /\ WF_vars(Run)

-----------------------------------------------------------------------------
(* Properties *)

Started == pc[Server] \in {"listen_control", "listen_voice", "running"}

StartTypeOK ==
  /\ SchemaTypeOK
  /\ TreeTypeOK
  /\ pc \in [Procs -> {"off"} \cup MigrateSteps \cup StartSteps \cup {"running"}]
  /\ adminTokens \in Nat
  /\ shown \in BOOLEAN
  /\ {cert, key, serving} \subseteq 0 .. pair

(***************************************************************************)
(* Whatever was cut short before, a start that the faults leave alone      *)
(* comes up: no half-made schema, half-written certificate or half-done    *)
(* import keeps the server from running ever again.                        *)
(***************************************************************************)
ComesUp == pc[Server] = "off" ~> pc[Server] = "running"

(***************************************************************************)
(* Only one administrator token is ever made without being asked for,      *)
(* however often the first start is cut short.                             *)
(***************************************************************************)
OneAdminToken == adminTokens <= 1

(***************************************************************************)
(* The certificate clients have seen is the one they see after a restart:  *)
(* once a server has got to its listeners, the pair on disk fits, is the   *)
(* one in use, and stays.                                                  *)
(***************************************************************************)
CertStays ==
  [][/\ serving # 0 => cert = serving /\ key = serving /\ cert' = cert /\ key' = key
     /\ Loadable => cert' = cert /\ key' = key]_vars
=============================================================================
