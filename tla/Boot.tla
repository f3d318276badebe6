-------------------------------- MODULE Boot --------------------------------
(***************************************************************************)
(* A server process from its configuration to its exit: Config, main(),    *)
(* AppContainer::from_config, the migrations, the API key interceptor and  *)
(* the drain at shutdown.  Each start reads the config file and the        *)
(* environment anew; every step may fail, and the process may be killed    *)
(* between any two of them, so a later start finds what an earlier one     *)
(* left in the data directory.                                             *)
(*                                                                         *)
(* A setting is a string, or a number for the time and size limits; -1 is  *)
(* a number that does not parse and "none" is Option::None.                *)
(***************************************************************************)
EXTENDS Integers, FiniteSets

CONSTANTS Files,    \* config files: [exists, parses, sections, values]
          Envs,     \* environments: functions from some fields to values
          ApiKeys,  \* raw API keys given on the command line
          Requests, \* [id, service, bearer, header]: requests of a client
          GoodPaths \* TLS files that can be read

\* Every setting of a config file stands in a section of it, and no path is
\* called like the absent one.
ASSUME BootAssumption ==
    /\ \A file \in Files :
        \A p \in {"tls_cert_path", "tls_key_path"} \cap DOMAIN file.values :
            /\ file.exists /\ "server" \in file.sections
            /\ file.values[p] # "none"
    /\ \A env \in Envs :
        \A p \in {"tls_cert_path", "tls_key_path"} \cap DOMAIN env :
            env[p] # "none"

VARIABLES stage,  \* what main() is at; "down" when there is no process
          config, \* the Config in use
          asked,  \* what the operator configured: [file, env, key]
          tls,    \* the server has an identity
          tables, \* per data directory, the tables created so far
          open    \* requests being served

bootVars == <<stage, config, asked, tls, tables, open>>

Number == {"max_pool_size", "page_timeout_secs", "login_timeout_secs",
           "acquire_timeout_secs", "connect_timeout_secs",
           "max_pending_logins"}
TlsPath == {"tls_cert_path", "tls_key_path"}
SectionOf ==
    [grpc_addr |-> "server", tls_cert_path |-> "server",
     tls_key_path |-> "server", cdp_url |-> "browser", cdp_urls |-> "browser",
     viewer_urls |-> "browser", max_pool_size |-> "browser",
     page_timeout_secs |-> "browser", login_timeout_secs |-> "browser",
     acquire_timeout_secs |-> "browser", connect_timeout_secs |-> "browser",
     max_pending_logins |-> "browser", data_dir |-> "storage",
     encryption_key |-> "security"]
Field == DOMAIN SectionOf

\* The defaults of the fields, which are also those of Config::default().
Default ==
    [grpc_addr |-> "0.0.0.0:50051", tls_cert_path |-> "none",
     tls_key_path |-> "none", cdp_url |-> "127.0.0.1:9222",
     cdp_urls |-> "none", viewer_urls |-> "none", max_pool_size |-> 3,
     page_timeout_secs |-> 30, login_timeout_secs |-> 300,
     acquire_timeout_secs |-> 30, connect_timeout_secs |-> 30,
     max_pending_logins |-> 8, data_dir |-> "home/.imauth/data",
     encryption_key |-> "none"]

\* What a section that the file leaves out gets: its type's Default, which
\* ServerConfig and StorageConfig derive.
SectionDefault == [Default EXCEPT !.grpc_addr = "", !.data_dir = ""]

\* A field of a section the file has, but that it does not set.
FieldDefault(f) == Default[f]

FromToml(file) ==
    [f \in Field |->
        IF SectionOf[f] \notin file.sections THEN SectionDefault[f]
        ELSE IF f \in DOMAIN file.values THEN file.values[f]
        ELSE FieldDefault(f)]

\* One variable of the environment over what the file gave.
Override(f, old, value) ==
    CASE f \in Number  -> IF value = -1 THEN old ELSE value
      [] f \in TlsPath -> IF value \in {"", " "} THEN "none" ELSE value
      [] OTHER         -> value

ApplyEnvOverrides(cfg, env) ==
    LET set == [f \in Field |-> IF f \in DOMAIN env
                                THEN Override(f, cfg[f], env[f]) ELSE cfg[f]] IN
    [set EXCEPT !.encryption_key = IF @ = "" THEN "none" ELSE @,
                !.data_dir = IF @ = "~/imauth" THEN "home/imauth" ELSE @]

Load(file, env) ==
    ApplyEnvOverrides(IF file.exists THEN FromToml(file) ELSE Default, env)

\* Fault: one path of the two is taken for "TLS is not configured".
Fault_UnpairedIsPlaintext(cfg) ==
    IF \E p \in TlsPath : cfg[p] = "none" THEN "plaintext"
    ELSE IF \A p \in TlsPath : cfg[p] \in GoodPaths THEN "tls" ELSE "error"

\* tls_identity_paths and the reading of the two files.
Identity(cfg) ==
    IF \A p \in TlsPath : cfg[p] = "none" THEN "plaintext"
    ELSE IF \A p \in TlsPath : cfg[p] \in GoodPaths THEN "tls" ELSE "error"

\* AesGcmEncryptionService::from_config: a base64 key of 32 bytes.
EncryptionKeyOk(cfg) == cfg.encryption_key \notin {"none", "short"}

\* The five statements of run_migrations, in order.
Migrations == <<"sessions", "cookies", "idx_platform", "idx_domain",
                "credentials">>
Tables == {Migrations[i] : i \in 1..5}

\* normalize_api_key: trimmed, and None when nothing is left.
Blank == {"none", "", " "}
NormalizeApiKey(raw) ==
    CASE raw \in Blank -> "none" [] raw = " k " -> "k" [] OTHER -> raw

\* auth_interceptor: a bearer token if there is one, else x-api-key.
Authorized(key, r) ==
    key = "none" \/ key = (IF r.bearer # "none" THEN r.bearer ELSE r.header)

-----------------------------------------------------------------------------
NoFile == [exists |-> FALSE, parses |-> TRUE, sections |-> {}, values |-> << >>]

BootInit ==
    /\ stage = "down"
    /\ config = Default
    /\ asked = [file |-> NoFile, env |-> << >>, key |-> "none"]
    /\ tls = FALSE
    /\ tables = [d \in {"", "/data", "home/imauth", Default.data_dir} |-> {}]
    /\ open = {}

Down == stage' = "down" /\ open' = {}

\* Config::from_file or from_env; a file that does not parse ends main().
Start ==
    /\ stage = "down"
    /\ \E file \in Files, env \in Envs, key \in ApiKeys :
        /\ file.parses
        /\ config' = Load(file, env)
        /\ asked' = [file |-> file, env |-> env, key |-> key]
    /\ stage' = "bind"
    /\ tls' = FALSE
    /\ UNCHANGED <<tables, open>>

\* resolve_bind_addr: a port override keeps the host.
ResolveBindAddr ==
    /\ stage = "bind"
    /\ IF config.grpc_addr = "" THEN Down
       ELSE stage' = "identity" /\ UNCHANGED open
    /\ UNCHANGED <<config, asked, tls, tables>>

LoadServerIdentity ==
    /\ stage = "identity"
    /\ IF Identity(config) = "error" THEN Down /\ UNCHANGED tls
       ELSE /\ stage' = "encryption"
            /\ tls' = (Identity(config) = "tls")
            /\ UNCHANGED open
    /\ UNCHANGED <<config, asked, tables>>

BuildEncryption ==
    /\ stage = "encryption"
    /\ IF EncryptionKeyOk(config) THEN stage' = "migrate" /\ UNCHANGED open
       ELSE Down
    /\ UNCHANGED <<config, asked, tls, tables>>

\* CREATE ... IF NOT EXISTS, the first that is missing.
Migrate1 ==
    LET done == tables[config.data_dir]
        left == {i \in 1..5 : Migrations[i] \notin done} IN
    /\ stage = "migrate" /\ left # {}
    /\ \E i \in left :
        /\ \A j \in left : i <= j
        /\ tables' = [tables EXCEPT ![config.data_dir] =
                        @ \cup {Migrations[i]}]
    /\ UNCHANGED <<stage, config, asked, tls, open>>

Listen ==
    /\ stage = "migrate" /\ tables[config.data_dir] = Tables
    /\ stage' = "serving"
    /\ UNCHANGED <<config, asked, tls, tables, open>>

\* Any step of the start may fail: directory, database, port in use.
StartFails ==
    /\ stage = "migrate"
    /\ Down
    /\ UNCHANGED <<config, asked, tls, tables>>

\* A request reaches a service; health checks pass no interceptor.
Serve(r) ==
    /\ stage = "serving" /\ r \notin open
    /\ r.service = "health" \/ Authorized(NormalizeApiKey(asked.key), r)
    /\ open' = open \cup {r}
    /\ UNCHANGED <<stage, config, asked, tls, tables>>

Finish(r) ==
    /\ r \in open
    /\ open' = open \ {r}
    /\ UNCHANGED <<stage, config, asked, tls, tables>>

\* SIGTERM or SIGINT: serve_with_shutdown admits nothing more...
Shutdown ==
    /\ stage = "serving"
    /\ stage' = "draining"
    /\ UNCHANGED <<config, asked, tls, tables, open>>

\* ...and main() returns when what was open has finished.
Exit ==
    /\ stage = "draining" /\ open = {}
    /\ Down
    /\ UNCHANGED <<config, asked, tls, tables>>

Kill ==
    /\ stage # "down"
    /\ Down
    /\ UNCHANGED <<config, asked, tls, tables>>

BootNext ==
    \/ Start \/ ResolveBindAddr \/ LoadServerIdentity \/ BuildEncryption
    \/ Migrate1 \/ Listen \/ StartFails \/ Shutdown \/ Exit \/ Kill
    \/ \E r \in Requests : Serve(r) \/ Finish(r)

BootSpec == BootInit /\ [][BootNext]_bootVars

-----------------------------------------------------------------------------
(* Properties.                                                             *)

\* The operator gave field f a value: a path given blank in the environment
\* is no path, one given in the file is.
Named(f) ==
    IF f \in DOMAIN asked.env THEN asked.env[f] \notin {"", " "}
    ELSE f \in DOMAIN asked.file.values

\* Whatever starts failed or were killed before: a server that serves speaks
\* TLS if either of the two paths was named, in the file or the environment,
\* and plaintext otherwise; its schema is complete; and every business
\* request it serves came with the key, if the operator gave one that is not
\* blank.
ServesAsConfigured ==
    stage \in {"serving", "draining"} =>
        /\ tls = (\E p \in TlsPath : Named(p))
        /\ tables[config.data_dir] = Tables
        /\ \A r \in open : r.service = "health" \/ asked.key \in Blank
                           \/ NormalizeApiKey(asked.key) \in
                                {r.bearer, r.header}
=============================================================================
