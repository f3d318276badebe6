---------------------------- MODULE ServerProofs ----------------------------
(***************************************************************************)
(* Proofs about the parts of the server and its tools that MCServer puts   *)
(* side by side: Boot for any files, environments, keys and requests,      *)
(* Client for any calls of any clients, Recorder for any set of scripts,   *)
(* and CookieJar for any batches, calls and encryption keys.               *)
(***************************************************************************)
EXTENDS Boot, Client, Recorder, CookieJar, TLAPS

-----------------------------------------------------------------------------
(* Boot.  BootAssumption is all that is known of files and environments;   *)
(* the stage tells how much of the configuration has been acted upon.      *)

Identified == stage \notin {"down", "bind", "identity"}

\* A start has its configuration from what the operator asked for; past the
\* identity the server has what both paths give; what is being served has
\* come with the key.
BootInv ==
    /\ stage # "down" =>
          /\ asked.file \in Files /\ asked.env \in Envs
          /\ config = Load(asked.file, asked.env)
    /\ stage = "down" => open = {}
    /\ Identified => /\ Identity(config) # "error"
                /\ tls = (Identity(config) = "tls")
    /\ stage \in {"serving", "draining"} => tables[config.data_dir] = Tables
    /\ \A r \in open : r.service = "health"
                        \/ Authorized(NormalizeApiKey(asked.key), r)

LEMMA InitBootInv == BootInit => BootInv
BY DEF BootInit, BootInv, Identified

LEMMA StartIsConfigured == BootInv /\ Start => BootInv'
<1>. SUFFICES ASSUME BootInv, Start  PROVE BootInv'
  OBVIOUS
<1>1. PICK file \in Files, env \in Envs, apiKey \in ApiKeys :
        /\ config' = Load(file, env)
        /\ asked' = [file |-> file, env |-> env, key |-> apiKey]
  BY Zenon DEF Start
<1>2. stage = "down" /\ stage' = "bind" /\ open' = open
  BY DEF Start
<1>3. asked'.file = file /\ asked'.env = env
  BY <1>1
<1>. QED BY <1>1, <1>2, <1>3 DEF BootInv, Identified

LEMMA BootStep == BootInv /\ [BootNext]_bootVars => BootInv'
<1>. SUFFICES ASSUME BootInv, [BootNext]_bootVars  PROVE BootInv'
  OBVIOUS
<1>1. CASE Start
  BY <1>1, StartIsConfigured
<1>2. ASSUME Down, UNCHANGED <<config, asked, tables>>  PROVE BootInv'
  BY <1>2 DEF BootInv, Down, Identified
<1>3. CASE ResolveBindAddr
  <2>1. \/ Down
        \/ stage = "bind" /\ stage' = "identity" /\ open' = open
    BY <1>3 DEF ResolveBindAddr
  <2>2. UNCHANGED <<config, asked, tls, tables>>
    BY <1>3 DEF ResolveBindAddr
  <2>. QED BY <1>2, <2>1, <2>2 DEF BootInv, Identified
<1>4. CASE LoadServerIdentity
  <2>1. UNCHANGED <<config, asked, tables>> /\ stage = "identity"
    BY <1>4 DEF LoadServerIdentity
  <2>2. CASE Identity(config) = "error"
    BY <1>2, <1>4, <2>1, <2>2 DEF LoadServerIdentity
  <2>3. CASE Identity(config) # "error"
    <3>1. /\ stage' = "encryption" /\ tls' = (Identity(config) = "tls")
          /\ open' = open
      BY <1>4, <2>3 DEF LoadServerIdentity
    <3>2. Identity(config)' = Identity(config)
      BY <2>1 DEF Identity
    <3>. QED BY <2>1, <2>3, <3>1, <3>2, Zenon DEF BootInv, Identified
  <2>. QED BY <2>2, <2>3
<1>5. CASE BuildEncryption
  <2>1. \/ Down
        \/ stage = "encryption" /\ stage' = "migrate" /\ open' = open
    BY <1>5 DEF BuildEncryption
  <2>2. UNCHANGED <<config, asked, tls, tables>>
    BY <1>5 DEF BuildEncryption
  <2>. QED BY <1>2, <2>1, <2>2 DEF BootInv, Identified
<1>6. CASE Migrate1
  <2>1. stage = "migrate" /\ UNCHANGED <<stage, config, asked, tls, open>>
    BY <1>6 DEF Migrate1
  <2>. QED BY <2>1 DEF BootInv, Identified
<1>7. CASE Listen
  BY <1>7 DEF Listen, BootInv, Identified
<1>8. CASE StartFails \/ Exit \/ Kill
  BY <1>2, <1>8 DEF StartFails, Exit, Kill
<1>9. CASE Shutdown
  BY <1>9 DEF Shutdown, BootInv, Identified
<1>10. ASSUME NEW r \in Requests, Serve(r) \/ Finish(r)  PROVE BootInv'
  <2>1. UNCHANGED <<stage, config, asked, tls, tables>>
    BY <1>10 DEF Serve, Finish
  <2>2. /\ stage = "down" => open' = {}
        /\ \A q \in open' :
              q \in open \/ q.service = "health"
                        \/ Authorized(NormalizeApiKey(asked.key), q)
    BY <1>10 DEF Serve, Finish, BootInv
  <2>. QED BY <2>1, <2>2 DEF BootInv, Identified
<1>11. CASE UNCHANGED bootVars
  BY <1>11 DEF bootVars, BootInv, Identified
<1>. QED BY <1>1, <1>3, <1>4, <1>5, <1>6, <1>7, <1>8, <1>9, <1>10, <1>11
         DEF BootNext

\* A TLS path is set in the configuration exactly if the operator named it.
LEMMA PathsAreNamed ==
    ASSUME asked.file \in Files, asked.env \in Envs,
           config = Load(asked.file, asked.env), NEW p \in TlsPath
    PROVE  config[p] # "none" <=> Named(p)
<1>. DEFINE file == asked.file
            env == asked.env
            base == IF file.exists THEN FromToml(file) ELSE Default
<1>1. /\ p \in Field /\ p # "encryption_key" /\ p # "data_dir"
      /\ p \notin Number
      /\ Default[p] = "none" /\ SectionDefault[p] = "none"
  <2>1. p = "tls_cert_path" \/ p = "tls_key_path"
    BY DEF TlsPath
  <2>2. p \in Field
    BY <2>1 DEF Field, SectionOf
  <2>3. p # "encryption_key" /\ p # "data_dir" /\ p \notin Number
    BY <2>1 DEF Number
  <2>4. Default[p] = "none" /\ p \in DOMAIN Default
    BY <2>1 DEF Default
  <2>5. SectionDefault[p] = "none"
    BY <2>1, <2>4 DEF SectionDefault
  <2>. QED BY <2>2, <2>3, <2>4, <2>5
<1>2. config = ApplyEnvOverrides(base, env)
  BY DEF Load
<1>. HIDE DEF base
<1>3. config[p] = IF p \in DOMAIN env THEN Override(p, base[p], env[p])
                  ELSE base[p]
  <2>. DEFINE set == [f \in Field |-> IF f \in DOMAIN env
                          THEN Override(f, base[f], env[f]) ELSE base[f]]
  <2>1. config = [set EXCEPT
            !.encryption_key = IF @ = "" THEN "none" ELSE @,
            !.data_dir = IF @ = "~/imauth" THEN "home/imauth" ELSE @]
    BY <1>2 DEF ApplyEnvOverrides
  <2>2. config[p] = set[p]
    <3>. HIDE DEF set
    <3>1. DOMAIN set = Field
      BY DEF set
    <3>. QED BY <1>1, <2>1, <3>1
  <2>. QED BY <1>1, <2>2
<1>4. base[p] # "none" <=> p \in DOMAIN file.values
  <2>1. p \in DOMAIN file.values =>
            /\ file.exists /\ SectionOf[p] \in file.sections
            /\ file.values[p] # "none"
    BY BootAssumption DEF TlsPath, SectionOf
  <2>2. CASE file.exists
    <3>1. base[p] = IF SectionOf[p] \notin file.sections
                    THEN SectionDefault[p]
                    ELSE IF p \in DOMAIN file.values THEN file.values[p]
                    ELSE Default[p]
      BY <1>1, <2>2 DEF base, FromToml, FieldDefault
    <3>. QED BY <1>1, <2>1, <2>2, <3>1
  <2>3. CASE ~file.exists
    BY <1>1, <2>1, <2>3 DEF base
  <2>. QED BY <2>2, <2>3
<1>5. CASE p \in DOMAIN env
  <2>1. env[p] # "none"
    BY <1>5, BootAssumption DEF TlsPath
  <2>2. config[p] = IF env[p] \in {"", " "} THEN "none" ELSE env[p]
    BY <1>1, <1>3, <1>5 DEF Override
  <2>. QED BY <1>5, <2>1, <2>2 DEF Named
<1>6. CASE p \notin DOMAIN env
  BY <1>3, <1>4, <1>6 DEF Named
<1>. QED BY <1>5, <1>6

\* Whatever was configured before, and wherever earlier starts ended: a
\* server that serves has the identity, the schema and the key asked for.
THEOREM ServesWhatWasAsked == BootSpec => []ServesAsConfigured
<1>1. BootInv => ServesAsConfigured
  <2>. SUFFICES ASSUME BootInv, stage \in {"serving", "draining"}
                PROVE  /\ tls = (\E p \in TlsPath : Named(p))
                       /\ tables[config.data_dir] = Tables
                       /\ \A r \in open :
                            r.service = "health" \/ asked.key \in Blank
                            \/ NormalizeApiKey(asked.key) \in
                                {r.bearer, r.header}
    BY DEF ServesAsConfigured
  <2>1. \A p \in TlsPath : config[p] # "none" <=> Named(p)
    BY PathsAreNamed DEF BootInv
  <2>2. Identity(config) = "tls" <=> \E p \in TlsPath : config[p] # "none"
    BY DEF BootInv, Identified, Identity
  <2>3. tls = (\E p \in TlsPath : Named(p))
    <3>1. tls = (Identity(config) = "tls")
      BY DEF BootInv, Identified
    <3>2. (Identity(config) = "tls") <=> (\E p \in TlsPath : Named(p))
      BY <2>1, <2>2
    <3>. QED BY <3>1, <3>2, Zenon
  <2>4. ASSUME NEW r \in open
        PROVE  r.service = "health" \/ asked.key \in Blank
               \/ NormalizeApiKey(asked.key) \in {r.bearer, r.header}
    BY DEF BootInv, Authorized, NormalizeApiKey, Blank
  <2>. QED BY <2>3, <2>4 DEF BootInv
<1>. QED BY <1>1, InitBootInv, BootStep, PTL DEF BootSpec

-----------------------------------------------------------------------------
(* Client.                                                                 *)
(*                                                                         *)
(* A call has begun before, or is, whatever is in the row, so what the row *)
(* held when an answered write began was overwritten by it: the row is not *)
(* among the calls answered before that write (RowIsNew).  A write that    *)
(* still runs adrift was answered to nobody, so it is in no such set.      *)

Stages == {"new", "sent", "answered", "ended"}
Codes == {"-", "OK", "NOT_FOUND", "UNAVAILABLE", "UNAUTHENTICATED",
          "INVALID_ARGUMENT", "INTERNAL"}
Results == {"-", "info", "event", "true", "done", "value", "none", "false",
            "not found error", "connection error", "auth error", "error",
            "printed"}
Records == [client : Clients, op : RpcOps, stage : Stages, code : Codes,
            seen : Rpcs \cup {Nobody}, result : Results]
IsWrite(c) == rpc[c].op \in {"save", "delete"}
Applied == {c \in Rpcs : IsWrite(c) /\ rpc[c].code = "OK"}

ClientTypeOK ==
    /\ row \in Rpcs \cup {Nobody}
    /\ rpc \in [Rpcs -> Records]
    /\ before \in [Rpcs -> SUBSET Rpcs]
    /\ adrift \in SUBSET Rpcs

\* What the row or an answer may refer to.
WrittenBy(w) == w # Nobody => IsWrite(w) /\ rpc[w].stage # "new"

RowIsNew ==
    /\ WrittenBy(row)
    /\ row = Nobody => Applied = {}
    /\ \A v \in Applied : row \notin before[v]

\* Only answered calls are before others, and no call adrift was answered.
BeforeIsEnded ==
    /\ \A c \in Rpcs : before[c] \subseteq Ended
    /\ \A c \in adrift : rpc[c].stage = "ended" /\ rpc[c].code # "OK"

Answers(c) ==
    /\ WrittenBy(rpc[c].seen)
    /\ rpc[c].op = "get" =>
        /\ rpc[c].code \in {"OK", "NOT_FOUND"} =>
               ~Outdated(rpc[c].seen, before[c])
        /\ rpc[c].code = "OK" =>
               rpc[c].seen # Nobody /\ rpc[rpc[c].seen].op = "save"
        /\ rpc[c].code = "NOT_FOUND" =>
               rpc[c].seen = Nobody \/ rpc[rpc[c].seen].op = "delete"

ResultFollows(c) ==
    /\ rpc[c].stage # "ended" => rpc[c].result = "-"
    /\ rpc[c].result = "info" => rpc[c].code = "OK"
    /\ rpc[c].op = "get" /\ rpc[c].result = "none" => rpc[c].code = "NOT_FOUND"

ClientInv ==
    /\ ClientTypeOK
    /\ RowIsNew
    /\ BeforeIsEnded
    /\ \A c \in Rpcs : Answers(c) /\ ResultFollows(c)

-----------------------------------------------------------------------------
\* What a client makes of a code is one of Results; "info" is for OK only, and
\* "none" for NOT_FOUND.
LEMMA ResultIsSound ==
    ASSUME NEW client \in Clients, NEW op \in RpcOps, NEW answer \in Codes
    PROVE  /\ Result(client, op, answer) \in Results
           /\ Result(client, op, answer) = "info" => answer = "OK"
           /\ op = "get" /\ Result(client, op, answer) = "none"
                => answer = "NOT_FOUND"
<1>1. /\ PythonResult(op, answer) \in Results
      /\ PythonResult(op, answer) = "info" => answer = "OK"
      /\ op = "get" /\ PythonResult(op, answer) = "none" => answer = "NOT_FOUND"
  <2>1. CASE answer = "OK"
    <3>1. CASE op = "save"
      BY <2>1, <3>1 DEF PythonResult, Results
    <3>2. CASE op = "get"
      BY <2>1, <3>2 DEF PythonResult, Results
    <3>3. CASE op = "delete"
      BY <2>1, <3>3 DEF PythonResult, Results
    <3>4. CASE op = "status"
      BY <2>1, <3>4 DEF PythonResult, Results
    <3>5. CASE op = "cancel"
      BY <2>1, <3>5 DEF PythonResult, Results
    <3>6. CASE op = "cookies"
      BY <2>1, <3>6 DEF PythonResult, Results
    <3>. QED BY <3>1, <3>2, <3>3, <3>4, <3>5, <3>6 DEF RpcOps
  <2>2. CASE answer = "NOT_FOUND"
    <3>1. CASE op = "save"
      BY <2>2, <3>1 DEF PythonResult, Results
    <3>2. CASE op = "get"
      BY <2>2, <3>2 DEF PythonResult, Results
    <3>3. CASE op = "delete"
      BY <2>2, <3>3 DEF PythonResult, Results
    <3>4. CASE op = "status"
      BY <2>2, <3>4 DEF PythonResult, Results
    <3>5. CASE op = "cancel"
      BY <2>2, <3>5 DEF PythonResult, Results
    <3>6. CASE op = "cookies"
      BY <2>2, <3>6 DEF PythonResult, Results
    <3>. QED BY <3>1, <3>2, <3>3, <3>4, <3>5, <3>6 DEF RpcOps
  <2>3. CASE answer \notin {"OK", "NOT_FOUND"}
    BY <2>3 DEF PythonResult, Results
  <2>. QED BY <2>1, <2>2, <2>3
<1>. QED
  BY <1>1 DEF Result, AsyncPythonResult, TypeScriptResult, CliResult, Clients,
              Results

-----------------------------------------------------------------------------
\* The first call of an action is the only one whose record changes, to r.
Changed(c, r) ==
    /\ rpc'[c] = r /\ \A d \in Rpcs : d # c => rpc'[d] = rpc[d]
    /\ rpc' \in [Rpcs -> Records]

Began(c, r) ==
    /\ Changed(c, r)
    /\ r.stage # "new" /\ r.code = "-" /\ r.seen = Nobody
    /\ r.result \in {"-", "error"}
    /\ r.stage # "ended" => r.result = "-"
    /\ rpc[c].stage = "new" /\ row' = row /\ adrift' = adrift
    /\ before' = [before EXCEPT ![c] = Ended]

Refused(c, r) ==
    /\ Changed(c, r)
    /\ r.op = rpc[c].op /\ r.stage = "answered"
    /\ r.code \notin {"OK", "NOT_FOUND"}
    /\ r.seen = rpc[c].seen /\ r.result = rpc[c].result
    /\ rpc[c].stage = "sent"
    /\ row' = row /\ before' = before /\ adrift' = adrift

Executed(c, r) ==
    /\ Changed(c, r)
    /\ r.op = rpc[c].op /\ r.stage = "answered"
    /\ r.result = rpc[c].result
    /\ \/ /\ r.code \in {"OK", "NOT_FOUND"} /\ r.seen = row
          /\ Write(c)
          /\ r.code = "NOT_FOUND" <=>
               r.op = "get"
               /\ (row = Nobody \/ rpc[row].op = "delete")
       \/ /\ r.code = "INTERNAL" \/ r.op \in {"status", "cancel"}
          /\ r.code # "OK"
          /\ r.seen = rpc[c].seen /\ row' = row
    /\ rpc[c].stage = "sent" /\ before' = before /\ adrift' = adrift

Returned(c, r) ==
    /\ Changed(c, r)
    /\ r.op = rpc[c].op /\ r.stage = "ended"
    /\ r.code = rpc[c].code /\ r.seen = rpc[c].seen
    /\ r.result = "info" => r.code = "OK"
    /\ r.op = "get" /\ r.result = "none" => r.code = "NOT_FOUND"
    /\ rpc[c].stage = "answered"
    /\ row' = row /\ before' = before /\ adrift' = adrift

Lost(c, r) ==
    /\ Changed(c, r)
    /\ r.op = rpc[c].op /\ r.stage = "ended"
    /\ r.code = "UNAVAILABLE" /\ r.seen = rpc[c].seen
    /\ r.result # "info"
    /\ r.op = "get" => r.result # "none"
    /\ rpc[c].stage \in {"sent", "answered"}
    /\ row' = row /\ before' = before /\ adrift' \subseteq adrift \cup {c}
    /\ rpc[c].stage # "sent" => adrift' = adrift

Begin(c) == \E use \in Uses : Call(c, use[1], use[2])

LEMMA CallChanges ==
    ASSUME ClientTypeOK, NEW c \in Rpcs, Begin(c)
    PROVE  \E r : Began(c, r)
<1>. PICK use \in Uses : Call(c, use[1], use[2])
  BY DEF Begin
<1>1. use[1] \in Clients /\ use[2] \in RpcOps
  BY ClientAssumption
<1>2. Unsent \in Records
  BY DEF Unsent, Records, Clients, RpcOps, Stages, Codes, Results
<1>3. CASE rpc' = [rpc EXCEPT ![c] = [Unsent EXCEPT !.client = use[1],
                                       !.op = use[2], !.stage = "sent"]]
  <2>. DEFINE r == [Unsent EXCEPT !.client = use[1], !.op = use[2],
                                  !.stage = "sent"]
  <2>1. r \in Records
    BY <1>1, <1>2 DEF Records, Unsent, Stages
  <2>2. r.stage = "sent" /\ r.code = "-" /\ r.result = "-" /\ r.seen = Nobody
    BY DEF Unsent
  <2>. QED BY <1>3, <2>1, <2>2 DEF Began, Changed, ClientTypeOK, Call
<1>4. CASE rpc' = [rpc EXCEPT ![c] = [Unsent EXCEPT !.op = use[2],
                        !.stage = "ended", !.result = "error"]]
  <2>. DEFINE r == [Unsent EXCEPT !.op = use[2], !.stage = "ended",
                                  !.result = "error"]
  <2>1. r \in Records
    BY <1>1, <1>2 DEF Records, Unsent, Stages, Results
  <2>2. r.stage = "ended" /\ r.code = "-" /\ r.result = "error"
        /\ r.seen = Nobody
    BY DEF Unsent
  <2>. QED BY <1>4, <2>1, <2>2 DEF Began, Changed, ClientTypeOK, Call
<1>. QED BY <1>3, <1>4 DEF Call

\* The answer of a call, and what it saw, go into its record.
LEMMA AnsweredRecord ==
    ASSUME NEW x \in Records, NEW answer \in Codes,
           NEW seen \in Rpcs \cup {Nobody}
    PROVE  /\ [x EXCEPT !.stage = "answered", !.code = answer] \in Records
           /\ [x EXCEPT !.stage = "answered", !.seen = seen, !.code = answer]
                \in Records
<1>1. "answered" \in Stages
  BY DEF Stages
<1> HIDE DEF Stages, Codes, Results
<1>2. [x EXCEPT !.stage = "answered", !.code = answer] \in Records
  BY <1>1 DEF Records
<1>3. [x EXCEPT !.stage = "answered", !.seen = seen, !.code = answer]
         \in Records
  BY <1>1 DEF Records
<1>. QED BY <1>2, <1>3

LEMMA RefuseChanges ==
    ASSUME ClientTypeOK, NEW c \in Rpcs, Refuse(c)
    PROVE  \E r : Refused(c, r)
<1>1. PICK answer \in {"UNAUTHENTICATED", "INVALID_ARGUMENT"} :
         Answered(c, answer)
  BY DEF Refuse
<1>. DEFINE r == [rpc[c] EXCEPT !.stage = "answered", !.code = answer]
<1>2. rpc' = [rpc EXCEPT ![c] = r]
  BY <1>1 DEF Answered, ClientTypeOK
<1>3. r \in Records
  <2>1. rpc[c] \in Records /\ answer \in Codes /\ Nobody \in Rpcs \cup {Nobody}
    BY DEF ClientTypeOK, Codes
  <2>. QED BY <2>1, AnsweredRecord
<1>4. /\ r.op = rpc[c].op /\ r.stage = "answered" /\ r.code = answer
      /\ r.seen = rpc[c].seen /\ r.result = rpc[c].result
  BY DEF ClientTypeOK, Records
<1>. QED BY <1>2, <1>3, <1>4 DEF Refused, Changed, ClientTypeOK, Refuse

LEMMA ExecuteChanges ==
    ASSUME ClientTypeOK, NEW c \in Rpcs, Execute(c)
    PROVE  \E r : Executed(c, r)
<1>1. CASE \E answer \in {"OK", "NOT_FOUND"} :
             /\ rpc' = [rpc EXCEPT ![c].stage = "answered", ![c].seen = row,
                                   ![c].code = answer]
             /\ answer = "NOT_FOUND" <=>
                  rpc[c].op = "get" /\ (row = Nobody \/ rpc[row].op = "delete")
             /\ Write(c)
  <2>1. PICK answer \in {"OK", "NOT_FOUND"} :
             /\ rpc' = [rpc EXCEPT ![c].stage = "answered", ![c].seen = row,
                                   ![c].code = answer]
             /\ answer = "NOT_FOUND" <=>
                  rpc[c].op = "get" /\ (row = Nobody \/ rpc[row].op = "delete")
             /\ Write(c)
    BY <1>1
  <2>. DEFINE r == [rpc[c] EXCEPT !.stage = "answered", !.seen = row,
                                  !.code = answer]
  <2>2. rpc' = [rpc EXCEPT ![c] = r]
    BY <2>1 DEF ClientTypeOK
  <2>3. r \in Records
    <3>1. rpc[c] \in Records /\ answer \in Codes /\ row \in Rpcs \cup {Nobody}
      BY DEF ClientTypeOK, Codes
    <3>. QED BY <3>1, AnsweredRecord
  <2>4. /\ r.op = rpc[c].op /\ r.stage = "answered" /\ r.code = answer
        /\ r.seen = row /\ r.result = rpc[c].result
    BY DEF ClientTypeOK, Records
  <2>5. Changed(c, r)
    BY <2>2, <2>3 DEF Changed, ClientTypeOK
  <2>. QED BY <2>1, <2>4, <2>5 DEF Executed, Execute
<1>2. CASE /\ \/ Answered(c, "INTERNAL")
              \/ rpc[c].op \in {"status", "cancel"} /\ Answered(c, "NOT_FOUND")
           /\ UNCHANGED row
  <2>1. PICK answer \in {"INTERNAL", "NOT_FOUND"} :
             /\ Answered(c, answer)
             /\ answer = "INTERNAL" \/ rpc[c].op \in {"status", "cancel"}
    BY <1>2
  <2>. DEFINE r == [rpc[c] EXCEPT !.stage = "answered", !.code = answer]
  <2>2. rpc' = [rpc EXCEPT ![c] = r]
    BY <2>1 DEF Answered, ClientTypeOK
  <2>3. r \in Records
    <3>1. rpc[c] \in Records /\ answer \in Codes /\ Nobody \in Rpcs \cup {Nobody}
      BY DEF ClientTypeOK, Codes
    <3>. QED BY <3>1, AnsweredRecord
  <2>4. /\ r.op = rpc[c].op /\ r.stage = "answered" /\ r.code = answer
        /\ r.seen = rpc[c].seen /\ r.result = rpc[c].result
    BY DEF ClientTypeOK, Records
  <2>. QED BY <1>2, <2>1, <2>2, <2>3, <2>4 DEF Executed, Changed,
                                               ClientTypeOK, Execute
<1>. QED BY <1>1, <1>2 DEF Execute

LEMMA ReturnChanges ==
    ASSUME ClientTypeOK, NEW c \in Rpcs, Return(c)
    PROVE  \E r : Returned(c, r)
<1>1. /\ rpc[c] \in Records
      /\ rpc[c].client \in Clients /\ rpc[c].op \in RpcOps /\ rpc[c].code \in Codes
  BY DEF ClientTypeOK, Records
<1>2. PICK result : result = Result(rpc[c].client, rpc[c].op, rpc[c].code)
  OBVIOUS
<1>3. /\ result \in Results
      /\ result = "info" => rpc[c].code = "OK"
      /\ rpc[c].op = "get" /\ result = "none" => rpc[c].code = "NOT_FOUND"
  BY <1>1, <1>2, ResultIsSound
<1>. DEFINE r == [rpc[c] EXCEPT !.stage = "ended", !.result = result]
<1>4. rpc' = [rpc EXCEPT ![c] = r]
  BY <1>2 DEF Return, End, ClientTypeOK
<1>5. r \in Records
  BY <1>1, <1>3 DEF Records, Stages
<1>6. /\ r.op = rpc[c].op /\ r.stage = "ended" /\ r.code = rpc[c].code
      /\ r.seen = rpc[c].seen /\ r.result = result
  BY <1>1 DEF Records
<1>. QED BY <1>3, <1>4, <1>5, <1>6 DEF Returned, Changed, ClientTypeOK, Return

LEMMA LoseChanges ==
    ASSUME ClientTypeOK, NEW c \in Rpcs, Lose(c)
    PROVE  \E r : Lost(c, r)
<1>1. /\ rpc[c] \in Records
      /\ rpc[c].client \in Clients /\ rpc[c].op \in RpcOps
      /\ "UNAVAILABLE" \in Codes
  BY DEF ClientTypeOK, Records, Codes
<1>2. PICK result : result = Result(rpc[c].client, rpc[c].op, "UNAVAILABLE")
  OBVIOUS
<1>3. /\ result \in Results /\ result # "info"
      /\ rpc[c].op = "get" => result # "none"
  BY <1>1, <1>2, ResultIsSound
<1>. DEFINE r == [rpc[c] EXCEPT !.stage = "ended", !.code = "UNAVAILABLE",
                                !.result = result]
<1>4. rpc' = [rpc EXCEPT ![c] = r]
  BY <1>2 DEF Lose, ClientTypeOK
<1>5. r \in Records
  BY <1>1, <1>3 DEF Records, Stages
<1>6. /\ r.op = rpc[c].op /\ r.stage = "ended" /\ r.code = "UNAVAILABLE"
      /\ r.seen = rpc[c].seen /\ r.result = result
  BY <1>1 DEF Records
<1>7. Changed(c, r)
  BY <1>4, <1>5 DEF Changed, ClientTypeOK
<1>. QED BY <1>3, <1>6, <1>7 DEF Lost, Lose

-----------------------------------------------------------------------------
LEMMA InitClientInv == ClientInit => ClientInv
BY ClientAssumption
   DEF ClientInit, ClientInv, ClientTypeOK, Records, RowIsNew, WrittenBy, BeforeIsEnded,
       Answers, ResultFollows, Applied, IsWrite, Ended, Unsent, Clients, RpcOps,
       Stages, Codes, Results, Outdated

LEMMA TypeStep ==
    ASSUME ClientInv, NEW c \in Rpcs,
           \/ Begin(c) \/ Refuse(c) \/ Execute(c) \/ Return(c)
           \/ Lose(c) \/ RunAdrift(c)
    PROVE  ClientTypeOK'
<1>1. CASE Begin(c)
  <2>. PICK r : Began(c, r)
    BY <1>1, CallChanges DEF ClientInv
  <2>. QED BY ClientAssumption DEF Began, Changed, ClientInv, ClientTypeOK,
                                   Ended
<1>2. CASE Refuse(c)
  <2>. PICK r : Refused(c, r)
    BY <1>2, RefuseChanges DEF ClientInv
  <2>. QED BY ClientAssumption DEF Refused, Changed, ClientInv, ClientTypeOK,
                                   Ended
<1>3. CASE Execute(c)
  <2>. PICK r : Executed(c, r)
    BY <1>3, ExecuteChanges DEF ClientInv
  <2>. QED BY ClientAssumption DEF Executed, Changed, Write, ClientInv,
                                   ClientTypeOK, Ended
<1>4. CASE Return(c)
  <2>. PICK r : Returned(c, r)
    BY <1>4, ReturnChanges DEF ClientInv
  <2>. QED BY ClientAssumption DEF Returned, Changed, ClientInv, ClientTypeOK,
                                   Ended
<1>5. CASE Lose(c)
  <2>. PICK r : Lost(c, r)
    BY <1>5, LoseChanges DEF ClientInv
  <2>. QED BY ClientAssumption DEF Lost, Changed, ClientInv, ClientTypeOK,
                                   Ended
<1>6. CASE RunAdrift(c)
  BY <1>6, ClientAssumption DEF RunAdrift, Write, ClientInv, ClientTypeOK,
                                Ended
<1>. QED BY <1>1, <1>2, <1>3, <1>4, <1>5, <1>6

LEMMA RowStep ==
    ASSUME ClientInv, NEW c \in Rpcs,
           \/ Begin(c) \/ Refuse(c) \/ Execute(c) \/ Return(c)
           \/ Lose(c) \/ RunAdrift(c)
    PROVE  RowIsNew'
<1>1. CASE Begin(c)
  <2>. PICK r : Began(c, r)
    BY <1>1, CallChanges DEF ClientInv
  <2>. QED BY ClientAssumption DEF Began, Changed, ClientInv, ClientTypeOK,
             RowIsNew, BeforeIsEnded, WrittenBy, IsWrite, Applied, Ended
<1>2. CASE Refuse(c)
  <2>. PICK r : Refused(c, r)
    BY <1>2, RefuseChanges DEF ClientInv
  <2>. QED BY ClientAssumption DEF Refused, Changed, ClientInv, ClientTypeOK,
             RowIsNew, BeforeIsEnded, WrittenBy, IsWrite, Applied, Ended
<1>3. CASE Execute(c)
  <2>. PICK r : Executed(c, r)
    BY <1>3, ExecuteChanges DEF ClientInv
  <2>. QED BY ClientAssumption DEF Executed, Changed, Write, ClientInv,
                                   ClientTypeOK,
             RowIsNew, BeforeIsEnded, WrittenBy, IsWrite, Applied, Ended
<1>4. CASE Return(c)
  <2>. PICK r : Returned(c, r)
    BY <1>4, ReturnChanges DEF ClientInv
  <2>. QED BY ClientAssumption DEF Returned, Changed, ClientInv, ClientTypeOK,
             RowIsNew, BeforeIsEnded, WrittenBy, IsWrite, Applied, Ended
<1>5. CASE Lose(c)
  <2>. PICK r : Lost(c, r)
    BY <1>5, LoseChanges DEF ClientInv
  <2>. QED BY ClientAssumption DEF Lost, Changed, ClientInv, ClientTypeOK,
             RowIsNew, BeforeIsEnded, WrittenBy, IsWrite, Applied, Ended
<1>6. CASE RunAdrift(c)
  BY <1>6, ClientAssumption DEF RunAdrift, Write, ClientInv, ClientTypeOK,
             RowIsNew, BeforeIsEnded, WrittenBy, IsWrite, Applied, Ended
<1>. QED BY <1>1, <1>2, <1>3, <1>4, <1>5, <1>6

LEMMA BeforeStep ==
    ASSUME ClientInv, NEW c \in Rpcs,
           \/ Begin(c) \/ Refuse(c) \/ Execute(c) \/ Return(c)
           \/ Lose(c) \/ RunAdrift(c)
    PROVE  BeforeIsEnded'
<1>1. CASE Begin(c)
  <2>. PICK r : Began(c, r)
    BY <1>1, CallChanges DEF ClientInv
  <2>. QED BY ClientAssumption DEF Began, Changed, ClientInv, ClientTypeOK,
             BeforeIsEnded, Ended
<1>2. CASE Refuse(c)
  <2>. PICK r : Refused(c, r)
    BY <1>2, RefuseChanges DEF ClientInv
  <2>. QED BY ClientAssumption DEF Refused, Changed, ClientInv, ClientTypeOK,
             BeforeIsEnded, Ended
<1>3. CASE Execute(c)
  <2>. PICK r : Executed(c, r)
    BY <1>3, ExecuteChanges DEF ClientInv
  <2>. QED BY ClientAssumption DEF Executed, Changed, Write, ClientInv,
                                   ClientTypeOK,
             BeforeIsEnded, Ended
<1>4. CASE Return(c)
  <2>. PICK r : Returned(c, r)
    BY <1>4, ReturnChanges DEF ClientInv
  <2>. QED BY ClientAssumption DEF Returned, Changed, ClientInv, ClientTypeOK,
             BeforeIsEnded, Ended
<1>5. CASE Lose(c)
  <2>. PICK r : Lost(c, r)
    BY <1>5, LoseChanges DEF ClientInv
  <2>. QED BY ClientAssumption DEF Lost, Changed, ClientInv, ClientTypeOK,
             BeforeIsEnded, Ended
<1>6. CASE RunAdrift(c)
  BY <1>6, ClientAssumption DEF RunAdrift, Write, ClientInv, ClientTypeOK,
             BeforeIsEnded, Ended
<1>. QED BY <1>1, <1>2, <1>3, <1>4, <1>5, <1>6

\* An answer stays right while the calls that began keep what they are.
LEMMA AnswersStay ==
    ASSUME ClientInv, NEW d \in Rpcs,
           \A w \in Rpcs : rpc[w].stage # "new" =>
               /\ rpc'[w].op = rpc[w].op /\ rpc'[w].stage # "new"
               /\ before'[w] = before[w],
           rpc'[d].seen = rpc[d].seen, rpc'[d].op = rpc[d].op,
           before'[d] = before[d],
           rpc[d].op = "get" /\ rpc'[d].code \in {"OK", "NOT_FOUND"}
             => rpc'[d].code = rpc[d].code
    PROVE  Answers(d)'
<1>1. rpc[d].seen \in Rpcs \cup {Nobody} /\ Answers(d)
  BY DEF ClientInv, ClientTypeOK, Records
<1>2. WrittenBy(rpc[d].seen)'
  BY <1>1 DEF Answers, WrittenBy, IsWrite
<1>3. \A v \in before[d] : /\ v \in Rpcs /\ rpc[v].stage # "new"
                           /\ rpc'[v].op = rpc[v].op /\ before'[v] = before[v]
  BY DEF ClientInv, BeforeIsEnded, Ended
<1>4. ASSUME ~Outdated(rpc[d].seen, before[d])
      PROVE  ~Outdated(rpc[d].seen, before[d])'
  BY <1>3, <1>4 DEF Outdated
<1>. QED
  BY <1>1, <1>2, <1>4 DEF Answers, WrittenBy, IsWrite

LEMMA AnswersStep ==
    ASSUME ClientInv, NEW c \in Rpcs,
           \/ Begin(c) \/ Refuse(c) \/ Execute(c) \/ Return(c)
           \/ Lose(c) \/ RunAdrift(c)
    PROVE  \A d \in Rpcs : Answers(d)'
<1>1. CASE Begin(c)
  <2>. PICK r : Began(c, r)
    BY <1>1, CallChanges DEF ClientInv
  <2>1. \A w \in Rpcs : rpc[w].stage # "new" =>
               /\ rpc'[w].op = rpc[w].op /\ rpc'[w].stage # "new"
               /\ before'[w] = before[w]
    BY DEF Began, Changed, ClientInv, ClientTypeOK
  <2>2. ASSUME NEW d \in Rpcs \ {c} PROVE Answers(d)'
    BY <2>1, AnswersStay DEF Began, Changed, ClientInv, ClientTypeOK
  <2>3. Answers(c)'
    BY DEF Began, Changed, Answers, WrittenBy
  <2>. QED BY <2>2, <2>3
<1>2. CASE Refuse(c)
  <2>. PICK r : Refused(c, r)
    BY <1>2, RefuseChanges DEF ClientInv
  <2>1. \A w \in Rpcs : rpc[w].stage # "new" =>
               /\ rpc'[w].op = rpc[w].op /\ rpc'[w].stage # "new"
               /\ before'[w] = before[w]
    BY DEF Refused, Changed, ClientInv, ClientTypeOK
  <2>. QED
    BY <2>1, AnswersStay DEF Refused, Changed, ClientInv, ClientTypeOK
<1>3. CASE Execute(c)
  <2>. PICK r : Executed(c, r)
    BY <1>3, ExecuteChanges DEF ClientInv
  <2>1. \A w \in Rpcs : rpc[w].stage # "new" =>
               /\ rpc'[w].op = rpc[w].op /\ rpc'[w].stage # "new"
               /\ before'[w] = before[w]
    BY DEF Executed, Changed, ClientInv, ClientTypeOK
  <2>2. ASSUME NEW d \in Rpcs \ {c} PROVE Answers(d)'
    BY <2>1, AnswersStay DEF Executed, Changed, ClientInv, ClientTypeOK
  <2>3. CASE /\ r.code \in {"OK", "NOT_FOUND"} /\ r.seen = row
             /\ r.code = "NOT_FOUND" <=>
                  r.op = "get" /\ (row = Nobody \/ rpc[row].op = "delete")
    <3>. PICK w : w = row
      OBVIOUS
    <3>1. w # Nobody => /\ w \in Rpcs /\ rpc[w].op \in {"save", "delete"}
                        /\ rpc'[w].op = rpc[w].op /\ rpc'[w].stage # "new"
      BY <2>1 DEF ClientInv, ClientTypeOK, RowIsNew, WrittenBy, IsWrite
    <3>2. ~Outdated(w, before[c])
      BY DEF Outdated, ClientInv, ClientTypeOK, RowIsNew, BeforeIsEnded,
             Applied,
             IsWrite, Ended
    <3>3. \A v \in before[c] : /\ v \in Rpcs /\ rpc[v].stage # "new"
                             /\ rpc'[v].op = rpc[v].op /\ before'[v] = before[v]
      BY <2>1 DEF ClientInv, ClientTypeOK, BeforeIsEnded, Ended
    <3>4. before'[c] = before[c] /\ rpc'[c] = r
      BY DEF Executed, Changed
    <3>5. ~Outdated(w, before[c])'
      BY <3>2, <3>3, <3>4 DEF Outdated
    <3>6. /\ r.op = "get" /\ r.code = "OK" => w # Nobody /\ rpc'[w].op = "save"
          /\ r.op = "get" /\ r.code = "NOT_FOUND"
               => w = Nobody \/ rpc'[w].op = "delete"
      BY <2>3, <3>1
    <3>7. Answers(c)'
      BY <2>3, <3>1, <3>4, <3>5, <3>6 DEF Answers, WrittenBy, IsWrite
    <3>. QED BY <2>2, <3>7
  <2>4. CASE /\ r.code = "INTERNAL" \/ r.op \in {"status", "cancel"}
             /\ r.seen = rpc[c].seen
    BY <2>1, <2>2, <2>4, AnswersStay DEF Executed, Changed, ClientInv,
                                         ClientTypeOK
  <2>. QED BY <2>3, <2>4 DEF Executed
<1>4. CASE Return(c)
  <2>. PICK r : Returned(c, r)
    BY <1>4, ReturnChanges DEF ClientInv
  <2>1. \A w \in Rpcs : rpc[w].stage # "new" =>
               /\ rpc'[w].op = rpc[w].op /\ rpc'[w].stage # "new"
               /\ before'[w] = before[w]
    BY DEF Returned, Changed, ClientInv, ClientTypeOK
  <2>. QED
    BY <2>1, AnswersStay DEF Returned, Changed, ClientInv, ClientTypeOK
<1>5. CASE Lose(c)
  <2>. PICK r : Lost(c, r)
    BY <1>5, LoseChanges DEF ClientInv
  <2>1. \A w \in Rpcs : rpc[w].stage # "new" =>
               /\ rpc'[w].op = rpc[w].op /\ rpc'[w].stage # "new"
               /\ before'[w] = before[w]
    BY DEF Lost, Changed, ClientInv, ClientTypeOK
  <2>. QED
    BY <2>1, AnswersStay DEF Lost, Changed, ClientInv, ClientTypeOK
<1>6. CASE RunAdrift(c)
  BY <1>6, AnswersStay DEF RunAdrift, ClientInv
<1>. QED BY <1>1, <1>2, <1>3, <1>4, <1>5, <1>6

LEMMA ResultStep ==
    ASSUME ClientInv, NEW c \in Rpcs,
           \/ Begin(c) \/ Refuse(c) \/ Execute(c) \/ Return(c)
           \/ Lose(c) \/ RunAdrift(c)
    PROVE  \A d \in Rpcs : ResultFollows(d)'
<1>1. CASE Begin(c)
  <2>. PICK r : Began(c, r)
    BY <1>1, CallChanges DEF ClientInv
  <2>. QED BY ClientAssumption DEF Began, Changed, ClientInv, ClientTypeOK,
             ResultFollows
<1>2. CASE Refuse(c)
  <2>. PICK r : Refused(c, r)
    BY <1>2, RefuseChanges DEF ClientInv
  <2>. QED BY ClientAssumption DEF Refused, Changed, ClientInv, ClientTypeOK,
             ResultFollows
<1>3. CASE Execute(c)
  <2>. PICK r : Executed(c, r)
    BY <1>3, ExecuteChanges DEF ClientInv
  <2>. QED BY ClientAssumption DEF Executed, Changed, Write, ClientInv,
                                   ClientTypeOK,
             ResultFollows
<1>4. CASE Return(c)
  <2>. PICK r : Returned(c, r)
    BY <1>4, ReturnChanges DEF ClientInv
  <2>. QED BY ClientAssumption DEF Returned, Changed, ClientInv, ClientTypeOK,
             ResultFollows
<1>5. CASE Lose(c)
  <2>. PICK r : Lost(c, r)
    BY <1>5, LoseChanges DEF ClientInv
  <2>. QED BY ClientAssumption DEF Lost, Changed, ClientInv, ClientTypeOK,
             ResultFollows
<1>6. CASE RunAdrift(c)
  BY <1>6, ClientAssumption DEF RunAdrift, Write, ClientInv, ClientTypeOK,
             ResultFollows
<1>. QED BY <1>1, <1>2, <1>3, <1>4, <1>5, <1>6

\* CredentialsAreCurrent (every call, every client): no write that was answered
\* is seen or left once a later one was answered, and callers are told what the
\* row was at one moment of the call.
THEOREM CredentialsStayCurrent == ClientSpec => []CredentialsAreCurrent
<1>1. ClientInv => CredentialsAreCurrent
  <2>. SUFFICES ASSUME ClientInv PROVE CredentialsAreCurrent
    OBVIOUS
  <2>1. ~Outdated(row, Ended)
    BY DEF ClientInv, ClientTypeOK, RowIsNew, Outdated, Applied, IsWrite, Ended
  <2>2. ASSUME NEW c \in Rpcs, rpc[c].op = "get", rpc[c].stage = "ended"
        PROVE  /\ rpc[c].code \in {"OK", "NOT_FOUND"} =>
                      ~Outdated(rpc[c].seen, before[c])
               /\ rpc[c].result = "info" =>
                      rpc[c].seen # Nobody /\ rpc[rpc[c].seen].op = "save"
               /\ rpc[c].result = "none" =>
                      rpc[c].seen = Nobody \/ rpc[rpc[c].seen].op = "delete"
    BY <2>2 DEF ClientInv, Answers, ResultFollows
  <2>. QED BY <2>1, <2>2 DEF CredentialsAreCurrent
<1>2. ClientInv /\ [ClientNext]_clientVars => ClientInv'
  <2>. SUFFICES ASSUME ClientInv, [ClientNext]_clientVars PROVE ClientInv'
    OBVIOUS
  <2>1. ASSUME NEW c \in Rpcs,
               \/ Begin(c) \/ Refuse(c) \/ Execute(c) \/ Return(c)
               \/ Lose(c) \/ RunAdrift(c)
        PROVE  ClientInv'
    BY <2>1, TypeStep, RowStep, BeforeStep, AnswersStep, ResultStep
       DEF ClientInv
  <2>2. CASE UNCHANGED clientVars
    BY <2>2 DEF clientVars, ClientInv, ClientTypeOK, RowIsNew, BeforeIsEnded,
                Answers, ResultFollows, WrittenBy, IsWrite, Applied, Ended, Outdated
  <2>. QED BY <2>1, <2>2 DEF ClientNext, Begin
<1>. QED BY <1>1, <1>2, InitClientInv, PTL DEF ClientSpec

-----------------------------------------------------------------------------
(* Recorder.                                                               *)
(*                                                                         *)
(* The handlers run in every state of the recorder, so what finish() wrote *)
(* a moment ago is compared with a set that only grows: a script that is   *)
(* taken stays taken.  What was answered before finish() began to wait has *)
(* a tracked task or its result (AnsweredIsTracked), so that once the      *)
(* tasks it waits for have ended nothing of met is still being fetched     *)
(* (MetIsSettled); from then on met \cap Artifacts is fixed, and each step *)
(* of finish() adds its part.                                              *)

RecordContents == [points : Nat, network : SUBSET Scripts, listed : SUBSET Scripts,
             bodies : SUBSET Scripts]
ScriptStates == {"unasked", "asked", "fetching", "taken", "lost"}

TypeInv ==
    /\ opts \in [deep : BOOLEAN, auto : BOOLEAN, cdp : BOOLEAN, taken : BOOLEAN]
    /\ script \in [Scripts -> ScriptStates]
    /\ pending \subseteq Scripts /\ waited \subseteq Scripts
    /\ met \subseteq Scripts /\ har \subseteq Scripts
    /\ points \in Nat /\ raw \in RecordContents /\ out \in RecordContents
    /\ dirty \in BOOLEAN /\ tracing \in BOOLEAN

\* The steps of finish() after each part is there.
AfterWait == {"har", "raw", "write", "list", "bodies", "scan", "seal"}
AfterRaw == {"write", "list", "bodies", "scan", "seal"}
AfterWrite == {"list", "bodies", "scan", "seal"}
AfterList == {"bodies", "scan", "seal"}
AfterBodies == {"scan", "seal"}

AnsweredIsTracked ==
    /\ \A s \in Scripts : script[s] = "fetching" => s \in pending
    /\ \A s \in met : script[s] \in {"fetching", "taken", "lost"}

MetIsSettled ==
    /\ at = "trace" => \A s \in met : script[s] = "fetching" => s \in waited
    /\ at \in AfterWait => \A s \in met : script[s] # "fetching"

PointsKept == at # "end" /\ opts.deep => raw.points = points

RawIsWhole ==
    at \in AfterRaw /\ opts.deep =>
        /\ raw.network = har
        /\ met \cap Artifacts \subseteq raw.bodies
        /\ raw.bodies \subseteq Artifacts

OutIsWhole ==
    /\ at # "end" => out.bodies \subseteq Artifacts
    /\ at \in AfterWrite => out.points = points /\ out.network = har
    /\ at \in AfterList => /\ met \cap Artifacts \subseteq out.listed
                           /\ out.listed \subseteq Artifacts
                           /\ opts.deep => raw.bodies \subseteq out.listed
    /\ at \in AfterBodies /\ opts.deep => out.listed \subseteq out.bodies
    /\ at = "seal" => scanned = out

\* Only the last step leaves a manifest or another exit code.
SealedAtEnd == at # "end" => manifest = NoManifest /\ code = "running"

RecorderInv == /\ TypeInv /\ AnsweredIsTracked /\ MetIsSettled /\ PointsKept
        /\ RawIsWhole /\ OutIsWhole /\ SealedAtEnd /\ RecordIsWhole

-----------------------------------------------------------------------------
LEMMA InitRecorderInv == RecorderInit => RecorderInv
<1>1. RecorderInit => Empty \in RecordContents /\ Empty.bodies = {} /\ Empty.points = 0
  BY DEF Empty, RecordContents
<1>2. RecorderInit => TypeInv
  <2>. SUFFICES ASSUME RecorderInit PROVE TypeInv
    OBVIOUS
  <2>1. /\ opts \in [deep : BOOLEAN, auto : BOOLEAN, cdp : BOOLEAN, taken : BOOLEAN]
        /\ script \in [Scripts -> ScriptStates]
    BY DEF RecorderInit, ScriptStates
  <2>2. /\ pending = {} /\ waited = {} /\ met = {} /\ har = {} /\ points = 0
        /\ raw = Empty /\ out = Empty /\ dirty = FALSE /\ tracing = FALSE
    BY DEF RecorderInit
  <2>. QED BY <1>1, <2>1, <2>2 DEF TypeInv
<1>3. RecorderInit => AnsweredIsTracked /\ MetIsSettled /\ PointsKept
  BY <1>1 DEF RecorderInit, AnsweredIsTracked, MetIsSettled, PointsKept,
              AfterWait
<1>4. RecorderInit => RawIsWhole /\ OutIsWhole
  BY <1>1 DEF RecorderInit, RawIsWhole, OutIsWhole, AfterRaw, AfterWrite,
              AfterList,
              AfterBodies
<1>5. RecorderInit => SealedAtEnd /\ RecordIsWhole
  BY DEF RecorderInit, SealedAtEnd, RecordIsWhole
<1>. QED BY <1>2, <1>3, <1>4, <1>5 DEF RecorderInv

\* Before the record is begun there is nothing to keep.
LEMMA PreludeStep ==
    ASSUME RecorderInv,
           \/ RequireCommands \/ NpmInstall \/ InstallBrowser \/ PrepareRoot
           \/ OpenBrowser \/ StartTracing \/ Navigate
    PROVE  RecorderInv'
<1>. USE DEF Throw, Then, Recording, Artifacts, runVars, pageVars, recordVars,
         TypeInv, RecordContents, ScriptStates, AfterWait, AfterRaw, AfterWrite, AfterList,
         AfterBodies, AnsweredIsTracked, MetIsSettled, PointsKept, RawIsWhole,
         OutIsWhole, SealedAtEnd, RecorderInv
<1>1. CASE RequireCommands
  BY <1>1 DEF RequireCommands, RecordIsWhole
<1>2. CASE NpmInstall
  BY <1>2 DEF NpmInstall, RecordIsWhole
<1>3. CASE InstallBrowser
  BY <1>3 DEF InstallBrowser, RecordIsWhole
<1>4. CASE PrepareRoot
  BY <1>4 DEF PrepareRoot, RecordIsWhole
<1>5. CASE OpenBrowser
  BY <1>5 DEF OpenBrowser, RecordIsWhole
<1>6. CASE StartTracing
  BY <1>6 DEF StartTracing, RecordIsWhole
<1>7. CASE Navigate
  BY <1>7 DEF Navigate, RecordIsWhole
<1>. QED BY <1>1, <1>2, <1>3, <1>4, <1>5, <1>6, <1>7

\* A handler moves one script along and adds to the artifacts.
LEMMA HandlerStep ==
    ASSUME RecorderInv,
           NEW s \in Scripts,
           Request(s) \/ Response(s) \/ Body(s) \/ RequestFailed(s)
    PROVE  RecorderInv'
<1>. USE DEF Throw, Then, Recording, Artifacts, runVars, pageVars, recordVars,
         TypeInv, RecordContents, ScriptStates, AfterWait, AfterRaw, AfterWrite, AfterList,
         AfterBodies, AnsweredIsTracked, MetIsSettled, PointsKept, RawIsWhole,
         OutIsWhole, SealedAtEnd, RecorderInv
<1>1. CASE Request(s)
  BY <1>1 DEF Request, RecordIsWhole
<1>2. CASE Response(s)
  BY <1>2 DEF Response, RecordIsWhole
<1>3. CASE Body(s)
  BY <1>3 DEF Body, RecordIsWhole
<1>4. CASE RequestFailed(s)
  BY <1>4 DEF RequestFailed, RecordIsWhole
<1>. QED BY <1>1, <1>2, <1>3, <1>4

\* A checkpoint counts in raw/ as it does in the record, or ends it.
LEMMA CheckpointStep ==
    ASSUME RecorderInv,
           \/ Initial \/ Prompt \/ Final
    PROVE  RecorderInv'
<1>. USE DEF Throw, Then, Recording, Artifacts, runVars, pageVars, recordVars,
         TypeInv, RecordContents, ScriptStates, AfterWait, AfterRaw, AfterWrite, AfterList,
         AfterBodies, AnsweredIsTracked, MetIsSettled, PointsKept, RawIsWhole,
         OutIsWhole, SealedAtEnd, RecorderInv
<1>1. CASE Initial
  BY <1>1 DEF Initial, Take, CaptureCheckpoint, RecordIsWhole
<1>2. CASE Prompt
  BY <1>2 DEF Prompt, Take, CaptureCheckpoint, RecordIsWhole
<1>3. CASE Final
  BY <1>3 DEF Final, Take, CaptureCheckpoint, RecordIsWhole
<1>. QED BY <1>1, <1>2, <1>3

\* The steps of finish(), each of which adds its part, and the interrupt.
LEMMA FinishStep ==
    ASSUME RecorderInv,
           \/ Settle \/ StopTracing \/ BuildHar \/ WriteRaw
           \/ WriteCheckpoints \/ WriteInventory \/ WriteBodies \/ Scan
           \/ Seal \/ Interrupt
    PROVE  RecorderInv'
<1>. USE DEF Throw, Then, Recording, Artifacts, runVars, pageVars, recordVars,
         TypeInv, RecordContents, ScriptStates, AfterWait, AfterRaw, AfterWrite, AfterList,
         AfterBodies, AnsweredIsTracked, MetIsSettled, PointsKept, RawIsWhole,
         OutIsWhole, SealedAtEnd, RecorderInv
<1>1. CASE Settle
  <2>1. /\ at' = "trace" /\ waited' = pending /\ script' = script
        /\ pending' = pending
        /\ met' = {s \in Scripts : script[s] \in {"fetching", "taken"}}
    BY <1>1 DEF Settle
  <2>2. MetIsSettled'
    BY <2>1 DEF MetIsSettled
  <2>3. TypeInv'
    BY <1>1 DEF Settle
  <2>4. AnsweredIsTracked'
    BY <2>1
  <2>5. (PointsKept /\ RawIsWhole /\ OutIsWhole /\ SealedAtEnd /\ RecordIsWhole)'
    BY <1>1 DEF Settle, RecordIsWhole
  <2>. HIDE DEF TypeInv, AnsweredIsTracked, MetIsSettled, PointsKept, RawIsWhole,
            OutIsWhole, SealedAtEnd
  <2>. QED BY <2>2, <2>3, <2>4, <2>5
<1>2. CASE StopTracing
  BY <1>2 DEF StopTracing, RecordIsWhole
<1>3. CASE BuildHar
  BY <1>3 DEF BuildHar, RecordIsWhole
<1>4. CASE WriteRaw
  <2>1. CASE Throw /\ UNCHANGED raw
    BY <1>4, <2>1 DEF WriteRaw, RecordIsWhole
  <2>2. CASE /\ raw' = [raw EXCEPT !.network = har, !.bodies = Artifacts]
             /\ Then("write")
    <3>1. /\ raw' \in RecordContents /\ raw'.network = har /\ raw'.bodies = Artifacts
          /\ raw'.points = raw.points
      BY <2>2
    <3>. HIDE DEF RecordContents
    <3>. QED BY <1>4, <2>2, <3>1 DEF WriteRaw, RecordIsWhole
  <2>. QED BY <1>4, <2>1, <2>2 DEF WriteRaw
<1>5. CASE WriteCheckpoints
  <2>1. CASE Throw /\ UNCHANGED <<out, dirty>>
    BY <1>5, <2>1 DEF WriteCheckpoints, Sanitize, RecordIsWhole
  <2>2. CASE out' = [out EXCEPT !.points = points, !.network = har]
    <3>1. /\ out' \in RecordContents /\ out'.network = har
          /\ out'.points = points /\ out'.listed = out.listed
          /\ out'.bodies = out.bodies
      BY <2>2
    <3>. HIDE DEF RecordContents
    <3>. QED BY <1>5, <2>2, <3>1 DEF WriteCheckpoints, Sanitize, RecordIsWhole
  <2>. QED BY <1>5, <2>1, <2>2 DEF WriteCheckpoints, Sanitize
<1>6. CASE WriteInventory
  <2>1. CASE Throw /\ UNCHANGED <<out, dirty>>
    BY <1>6, <2>1 DEF WriteInventory, Sanitize, RecordIsWhole
  <2>2. CASE out' = [out EXCEPT !.listed = Artifacts]
    <3>1. /\ out' \in RecordContents /\ out'.network = out.network
          /\ out'.listed = Artifacts /\ out'.points = out.points
          /\ out'.bodies = out.bodies
      BY <2>2
    <3>. HIDE DEF RecordContents
    <3>. QED BY <1>6, <2>2, <3>1 DEF WriteInventory, Sanitize, RecordIsWhole
  <2>. QED BY <1>6, <2>1, <2>2 DEF WriteInventory, Sanitize
<1>7. CASE WriteBodies
  <2>1. CASE UNCHANGED <<out, dirty>>
    BY <1>7, <2>1 DEF WriteBodies, Sanitize, RecordIsWhole
  <2>2. ASSUME NEW s \in Artifacts \ out.bodies,
               out' = [out EXCEPT !.bodies = @ \cup {s}], Then("bodies")
        PROVE  RecorderInv'
    <3>1. /\ out' \in RecordContents /\ out'.network = out.network
          /\ out'.listed = out.listed /\ out'.points = out.points
          /\ out'.bodies = out.bodies \cup {s}
      BY <2>2
    <3>. HIDE DEF RecordContents
    <3>2. /\ at = "bodies" /\ at' = "bodies" /\ UNCHANGED <<opts, code>>
          /\ UNCHANGED <<pageVars, waited, met, tracing, har, raw, scanned,
                         manifest>>
          /\ dirty' \in BOOLEAN
      BY <1>7, <2>2 DEF WriteBodies, Sanitize
    <3>3. (TypeInv /\ AnsweredIsTracked /\ MetIsSettled /\ PointsKept)'
      BY <3>1, <3>2
    <3>4. (RawIsWhole /\ OutIsWhole /\ SealedAtEnd)'
      BY <3>1, <3>2
    <3>5. RecordIsWhole'
      BY <3>2 DEF RecordIsWhole
    <3>. HIDE DEF TypeInv, AnsweredIsTracked, MetIsSettled, PointsKept, RawIsWhole,
              OutIsWhole, SealedAtEnd
    <3>. QED BY <3>3, <3>4, <3>5
  <2>. QED BY <1>7, <2>1, <2>2 DEF WriteBodies, Sanitize
<1>8. CASE Scan
  BY <1>8 DEF Scan, RecordIsWhole
<1>9. CASE Seal
  <2>1. (TypeInv /\ AnsweredIsTracked /\ MetIsSettled /\ PointsKept
         /\ RawIsWhole /\ OutIsWhole /\ SealedAtEnd)'
    BY <1>9 DEF Seal
  <2>2. /\ at = "seal" /\ scanned' = scanned /\ out' = out /\ raw' = raw
        /\ met' = met /\ script' = script /\ opts' = opts /\ points' = points
        /\ dirty' = dirty /\ tracing' = tracing
    BY <1>9 DEF Seal
  <2>3. CASE manifest' = NoManifest
    BY <1>9, <2>2, <2>3 DEF Seal, RecordIsWhole
  <2>4. CASE manifest' = [files |-> out, ready |-> ~dirty, trace |-> tracing]
    <3>1. manifest'.files = out /\ manifest'.ready = ~dirty
      BY <2>4
    <3>2. code' = "0" => ~dirty
      BY <1>9 DEF Seal
    <3>3. /\ met' \cap Artifacts' \subseteq out'.listed
          /\ opts'.deep =>
                /\ met' \cap Artifacts' \subseteq raw'.bodies
                /\ raw'.bodies \subseteq out'.listed
                /\ out'.listed \subseteq out'.bodies
                /\ raw'.network = out'.network
      BY <2>2
    <3>4. opts'.deep => raw'.points >= out'.points
      BY <2>2
    <3>5. scanned' = out' /\ out'.points = points'
      BY <2>2
    <3>6. manifest'.ready = ~dirty'
      BY <2>2, <3>1
    <3>7. code' = "0" => manifest' # NoManifest /\ manifest'.ready
      BY <1>9, <2>2, <3>1, <3>2 DEF Seal
    <3>8. RecordIsWhole'
      BY <2>2, <3>1, <3>3, <3>4, <3>5, <3>6, <3>7 DEF RecordIsWhole
    <3>. HIDE DEF TypeInv, AnsweredIsTracked, MetIsSettled, PointsKept, RawIsWhole,
              OutIsWhole, SealedAtEnd
    <3>. QED BY <2>1, <3>8
  <2>. QED BY <1>9, <2>3, <2>4 DEF Seal
<1>10. CASE Interrupt
  BY <1>10 DEF Interrupt, RecordIsWhole
<1>. QED BY <1>1, <1>2, <1>3, <1>4, <1>5, <1>6, <1>7, <1>8, <1>9, <1>10

\* RecordIsWhole (any scripts, any number of checkpoints): a record with a
\* manifest has every script that was answered before finish() began to wait, in
\* each of its parts, and was scanned as it is.
THEOREM RecordsAreWhole == RecorderSpec => []RecordIsWhole
<1>1. RecorderInv => RecordIsWhole
  BY DEF RecorderInv
<1>2. RecorderInv /\ [RecorderNext]_recorderVars => RecorderInv'
  <2>. SUFFICES ASSUME RecorderInv, [RecorderNext]_recorderVars PROVE RecorderInv'
    OBVIOUS
  <2>1. CASE RecorderNext
    BY <2>1, PreludeStep, HandlerStep, CheckpointStep, FinishStep
       DEF RecorderNext
  <2>2. CASE UNCHANGED recorderVars
    BY <2>2 DEF recorderVars, runVars, pageVars, recordVars, RecorderInv,
                TypeInv,
       AnsweredIsTracked, MetIsSettled, PointsKept, RawIsWhole, OutIsWhole,
       SealedAtEnd, RecordIsWhole, Artifacts
  <2>. QED BY <2>1, <2>2
<1>. QED BY <1>1, <1>2, InitRecorderInv, PTL DEF RecorderSpec

-----------------------------------------------------------------------------
(***************************************************************************)
(* CookieJar.  What is to be saved, by a call or by a statement that still *)
(* lands, is what a platform filtered from a batch; a call that has not    *)
(* read has seen nothing; and the cookies kept of a login are in the rows  *)
(* of their slots, readable, whatever read or migrated them meanwhile.     *)
(***************************************************************************)
Saves(x) ==
    /\ x.platform \in Platforms
    /\ \E b \in Batches : x.batch = FilterCookies(x.platform, b)

InPlace(p, c) ==
    /\ table[SlotOf(p, c)] # Absent
    /\ table[SlotOf(p, c)].form \in {key, "plain"}
    /\ table[SlotOf(p, c)].value = c.value
    /\ table[SlotOf(p, c)].expires = c.expires

\* Every row a call has seen is decoded or still to be decoded, and it has
\* seen none of the platforms it has still to read.
AllDecoded(x) ==
    \A s \in Slots : /\ x.seen[s] # Absent => s \in x.todo \cup x.cookies
                     /\ s.platform \in x.target => x.seen[s] = Absent

JarInv ==
    /\ TypeOK
    /\ \A c \in Calls : /\ call[c].pc \in {"idle", "save"} => call[c].seen = NoRows
                        /\ call[c].pc = "save" => Saves(call[c])
                        /\ call[c].pc = "read" => call[c].op # "login"
                        /\ AllDecoded(call[c])
    /\ \A stmt \in inflight : "slot" \notin DOMAIN stmt => Saves(stmt)
    /\ \A p \in Platforms : \A c \in signedIn[p] :
          c \in UNION Batches /\ SlotOf(p, c) \in Slots /\ InPlace(p, c)

-----------------------------------------------------------------------------
\* Rows and what they say.

LEMMA RowsAre ==
    ASSUME NEW stored \in Rows
    PROVE  /\ stored = [value |-> stored.value, expires |-> stored.expires, form |-> stored.form]
           /\ stored.form \in EncKeys \cup {"plain"}
           /\ [value |-> stored.value, expires |-> stored.expires] \in Contents
           /\ \A k \in EncKeys : [stored EXCEPT !.form = k] \in Rows
           /\ stored # Absent
           /\ Plain(stored) = [value |-> stored.value, expires |-> stored.expires]
<1>1. PICK c \in Contents, form \in EncKeys \cup {"plain"} : stored = RowOf(c, form)
  BY DEF Rows
<1>2. c = [value |-> c.value, expires |-> c.expires]
  BY DEF Contents
<1>3. stored = [value |-> c.value, expires |-> c.expires, form |-> form]
  BY <1>1 DEF RowOf
<1>4. ASSUME NEW k \in EncKeys  PROVE [stored EXCEPT !.form = k] \in Rows
  <2>1. [stored EXCEPT !.form = k] = RowOf(c, k)
    BY <1>3 DEF RowOf
  <2>. QED BY <2>1 DEF Rows
<1>5. stored # Absent
  BY StoreAssumption
<1>. QED BY <1>2, <1>3, <1>4, <1>5 DEF Plain

LEMMA BatchRows ==
    ASSUME NEW c \in UNION Batches, NEW k \in EncKeys
    PROVE  /\ RowOf(c, k) \in Rows /\ RowOf(c, k).form = k
           /\ RowOf(c, k).value = c.value /\ RowOf(c, k).expires = c.expires
           /\ Plain(RowOf(c, k)) = [value |-> c.value, expires |-> c.expires]
<1> DEFINE d == [value |-> c.value, expires |-> c.expires]
<1>1. d \in Contents
  BY DEF Contents
<1>2. RowOf(c, k) = RowOf(d, k)
  BY DEF RowOf
<1>3. RowOf(d, k) \in Rows
  BY <1>1 DEF Rows
<1>4. RowOf(c, k) \in Rows
  BY <1>2, <1>3
<1>5. /\ RowOf(c, k).form = k
      /\ RowOf(c, k).value = c.value /\ RowOf(c, k).expires = c.expires
  BY DEF RowOf
<1>. QED BY <1>4, <1>5, RowsAre

\* A slot tells its platform, name and domain.
LEMMA SlotsAre ==
    ASSUME NEW p, NEW q, NEW c, NEW d, SlotOf(p, c) = SlotOf(q, d)
    PROVE  p = q /\ c.name = d.name /\ c.domain = d.domain
<1>1. SlotOf(p, c).platform = p /\ SlotOf(q, d).platform = q
  BY DEF SlotOf
<1>2. SlotOf(p, c).name = c.name /\ SlotOf(q, d).name = d.name
  BY DEF SlotOf
<1>3. SlotOf(p, c).domain = c.domain /\ SlotOf(q, d).domain = d.domain
  BY DEF SlotOf
<1>. QED BY <1>1, <1>2, <1>3

\* What writing the kept cookies of a batch does to the table.
Puts(p, kept) ==
    table' = [s \in Slots |->
                 LET new == {c \in kept : SlotOf(p, c) = s} IN
                 IF new = {} THEN table[s]
                 ELSE RowOf(CHOOSE c \in new : TRUE, key)]

LEMMA WhatUpsertDoes ==
    ASSUME table \in [Slots -> Stored], key \in EncKeys,
           NEW p \in Platforms, NEW b \in Batches,
           NEW kept \in Kept(p, FilterCookies(p, b)), Puts(p, kept)
    PROVE  /\ table' \in [Slots -> Stored]
           /\ kept \subseteq b /\ \A c \in kept : SlotOf(p, c) \in Slots
           /\ \A c \in kept : table'[SlotOf(p, c)] = RowOf(c, key)
           /\ \A s \in Slots : (\A c \in kept : SlotOf(p, c) # s)
                                  => table'[s] = table[s]
           /\ Written(p, kept) \in BatchWrites
           /\ DOMAIN Written(p, kept) = {SlotOf(p, c) : c \in kept}
           /\ \A c \in kept : Written(p, kept)[SlotOf(p, c)]
                                 = [value |-> c.value, expires |-> c.expires]
<1>1. /\ kept \subseteq b
      /\ \A c \in kept : c \in UNION Batches /\ SlotOf(p, c) \in Slots
      /\ \A c, d \in kept : SlotOf(p, c) = SlotOf(p, d) => c = d
  <2>1. kept \subseteq FilterCookies(p, b)
    BY DEF Kept
  <2>2. FilterCookies(p, b) \subseteq b
    BY DEF FilterCookies
  <2>3. \A c, d \in kept : SlotOf(p, c) = SlotOf(p, d) => c = d
    BY DEF Kept
  <2>. QED BY <2>1, <2>2, <2>3, StoreAssumption
<1>2. ASSUME NEW c \in kept
      PROVE  table'[SlotOf(p, c)] = RowOf(c, key)
  <2>1. {d \in kept : SlotOf(p, d) = SlotOf(p, c)} = {c}
    BY <1>1
  <2>2. (CHOOSE d \in {c} : TRUE) = c
    OBVIOUS
  <2>. QED BY <1>1, <2>1, <2>2 DEF Puts
<1>3. ASSUME NEW s \in Slots, \A c \in kept : SlotOf(p, c) # s
      PROVE  table'[s] = table[s]
  <2>1. {c \in kept : SlotOf(p, c) = s} = {}
    BY <1>3
  <2>. QED BY <2>1 DEF Puts
<1>4. ASSUME NEW s \in Slots  PROVE table'[s] \in Stored
  <2>1. CASE \E c \in kept : SlotOf(p, c) = s
    BY <2>1, <1>1, <1>2, BatchRows DEF Stored
  <2>2. CASE \A c \in kept : SlotOf(p, c) # s
    BY <2>2, <1>3
  <2>. QED BY <2>1, <2>2
<1>5. table' \in [Slots -> Stored]
  BY <1>4 DEF Puts
<1>6. Written(p, kept) \in BatchWrites
  <2> DEFINE W(q, d) == {Written(q, k) : k \in Kept(q, FilterCookies(q, d))}
  <2>1. Written(p, kept) \in W(p, b)
    OBVIOUS
  <2> HIDE DEF W
  <2>2. W(p, b) \in {W(q, d) : q \in Platforms, d \in Batches}
    OBVIOUS
  <2>3. BatchWrites = UNION {W(q, d) : q \in Platforms, d \in Batches}
    BY DEF BatchWrites, W
  <2>. QED BY <2>1, <2>2, <2>3
<1>7. ASSUME NEW c \in kept
      PROVE  Written(p, kept)[SlotOf(p, c)]
                = [value |-> c.value, expires |-> c.expires]
  <2>1. (CHOOSE d \in kept : SlotOf(p, d) = SlotOf(p, c)) = c
    BY <1>1
  <2>. QED BY <2>1 DEF Written
<1>8. DOMAIN Written(p, kept) = {SlotOf(p, c) : c \in kept}
  BY DEF Written
<1>. QED BY <1>1, <1>2, <1>3, <1>5, <1>6, <1>7, <1>8

\* Encrypting a row that was stored in the clear changes nothing it says.
LEMMA WhatMigrateDoes ==
    ASSUME table \in [Slots -> Stored], key \in EncKeys,
           NEW s \in Slots, NEW stored, Migrate(s, stored)
    PROVE  /\ table' \in [Slots -> Stored]
           /\ \A t \in Slots :
                 /\ Plain(table'[t]) = Plain(table[t])
                 /\ table[t] # Absent =>
                       /\ table'[t] # Absent
                       /\ table'[t].value = table[t].value
                       /\ table'[t].expires = table[t].expires
                       /\ table[t].form \in {key, "plain"} =>
                             table'[t].form \in {key, "plain"}
<1>1. CASE table' = table
  BY <1>1
<1>2. CASE table' # table
  <2>1. table[s] # Absent /\ table' = [table EXCEPT ![s].form = key]
    BY <1>2 DEF Migrate
  <2>2. table[s] \in Rows
    BY <2>1 DEF Stored
  <2> DEFINE r == [table[s] EXCEPT !.form = key]
  <2>3. table' = [table EXCEPT ![s] = r]
    BY <2>1
  <2>4. r.value = table[s].value /\ r.expires = table[s].expires /\ r.form = key
    BY <2>2, RowsAre
  <2>5. r \in Rows
    BY <2>2, RowsAre
  <2> HIDE DEF r
  <2>6. r # Absent /\ Plain(r) = Plain(table[s])
    BY <2>2, <2>4, <2>5, RowsAre
  <2>. QED BY <2>3, <2>4, <2>5, <2>6 DEF Stored
<1>. QED BY <1>1, <1>2

-----------------------------------------------------------------------------
\* The invariant is inductive.

LEMMA IdleIsOne ==
    /\ NoRows \in [Slots -> Stored]
    /\ Idle \in CallState /\ Idle.pc = "idle" /\ Idle.seen = NoRows
    /\ Idle.todo = {} /\ Failed \in CallState /\ Failed.pc = "failed"
    /\ Failed.todo = {} /\ Failed.seen = NoRows
    /\ AllDecoded(Idle) /\ AllDecoded(Failed)
<1>1. NoRows \in [Slots -> Stored]
  BY DEF NoRows, Stored
<1>2. Idle \in CallState
  BY <1>1 DEF Idle, CallState
<1>3. Failed \in CallState /\ Failed.seen = NoRows
  BY <1>1, <1>2 DEF Idle, Failed, CallState
<1>4. \A x : x.seen = NoRows => AllDecoded(x)
  BY DEF AllDecoded, NoRows
<1>. QED BY <1>1, <1>2, <1>3, <1>4 DEF Idle, Failed

THEOREM JarInvInit == Init => JarInv
<1> SUFFICES ASSUME Init  PROVE JarInv
  OBVIOUS
<1>1. TypeOK
  <2>1. table \in [Slots -> Stored]
    BY StoreAssumption DEF Init, Stored
  <2>2. \A c \in Calls : call[c] \in CallState /\ call[c].todo = {}
    BY IdleIsOne DEF Init
  <2>3. signedIn \in [Platforms -> SUBSET UNION Batches]
    BY DEF Init
  <2>4. now \in 1 .. MaxTime /\ restarts \in 0 .. MaxRestarts
    BY CookieJarAssumption DEF Init
  <2>. QED BY <2>1, <2>2, <2>3, <2>4 DEF Init, TypeOK
<1>2. \A c \in Calls : /\ call[c].pc = "idle" /\ call[c].seen = NoRows
                       /\ AllDecoded(call[c])
  BY IdleIsOne DEF Init
<1>3. inflight = {} /\ \A p \in Platforms : signedIn[p] = {}
  BY DEF Init
<1>. QED BY <1>1, <1>2, <1>3 DEF JarInv

\* What a save, by a call or by a statement left behind, does.
LEMMA SaveKeepsRows ==
    ASSUME JarInv, NEW x, Saves(x), NEW isLogin \in BOOLEAN,
           Upsert(x.platform, x.batch, isLogin), key' = key
    PROVE  /\ table' \in [Slots -> Stored]
           /\ signedIn' \in [Platforms -> SUBSET UNION Batches]
           /\ \A p \in Platforms : \A c \in signedIn'[p] :
                 c \in UNION Batches /\ SlotOf(p, c) \in Slots /\ InPlace(p, c)'
<1> DEFINE p == x.platform
<1>1. PICK b \in Batches : x.batch = FilterCookies(p, b)
  BY DEF Saves
<1>2. p \in Platforms
  BY DEF Saves
<1>3. PICK kept \in Kept(p, FilterCookies(p, b)) :
         /\ Puts(p, kept)
         /\ signedIn' = [signedIn EXCEPT ![p] = IF isLogin THEN kept ELSE {}]
  BY <1>1 DEF Upsert, Puts
<1> HIDE DEF p
<1>4. /\ table \in [Slots -> Stored] /\ key \in EncKeys
      /\ signedIn \in [Platforms -> SUBSET UNION Batches]
  BY DEF JarInv, TypeOK
<1>5. /\ table' \in [Slots -> Stored]
      /\ kept \subseteq b /\ \A c \in kept : SlotOf(p, c) \in Slots
      /\ \A c \in kept : table'[SlotOf(p, c)] = RowOf(c, key)
      /\ \A s \in Slots : (\A c \in kept : SlotOf(p, c) # s)
                             => table'[s] = table[s]
  BY <1>2, <1>3, <1>4, WhatUpsertDoes
<1>6. signedIn' \in [Platforms -> SUBSET UNION Batches]
  BY <1>3, <1>4, <1>5
<1>7. ASSUME NEW q \in Platforms, NEW c \in signedIn'[q]
      PROVE  c \in UNION Batches /\ SlotOf(q, c) \in Slots /\ InPlace(q, c)'
  <2>1. CASE q = p
    <3>1. c \in kept
      BY <2>1, <1>3, <1>4, <1>7
    <3>2. c \in UNION Batches
      BY <3>1, <1>5
    <3>3. /\ RowOf(c, key) # Absent /\ RowOf(c, key).form = key
          /\ RowOf(c, key).value = c.value /\ RowOf(c, key).expires = c.expires
      BY <3>2, <1>4, BatchRows, RowsAre
    <3>. QED BY <2>1, <3>1, <3>2, <3>3, <1>5 DEF InPlace
  <2>2. CASE q # p
    <3>1. c \in signedIn[q]
      BY <2>2, <1>3, <1>4, <1>7
    <3>2. c \in UNION Batches /\ SlotOf(q, c) \in Slots /\ InPlace(q, c)
      BY <3>1 DEF JarInv
    <3>3. table'[SlotOf(q, c)] = table[SlotOf(q, c)]
      BY <2>2, <3>2, <1>5, SlotsAre
    <3>. QED BY <3>2, <3>3 DEF InPlace
  <2>. QED BY <2>1, <2>2
<1>. QED BY <1>5, <1>6, <1>7

\* What a migration does.
LEMMA MigrateKeepsRows ==
    ASSUME JarInv, NEW s \in Slots, NEW stored, Migrate(s, stored),
           UNCHANGED <<key, signedIn>>
    PROVE  /\ table' \in [Slots -> Stored]
           /\ \A p \in Platforms : \A c \in signedIn'[p] :
                 c \in UNION Batches /\ SlotOf(p, c) \in Slots /\ InPlace(p, c)'
<1>1. table \in [Slots -> Stored] /\ key \in EncKeys
  BY DEF JarInv, TypeOK
<1>2. /\ table' \in [Slots -> Stored]
      /\ \A t \in Slots : table[t] # Absent =>
            /\ table'[t] # Absent
            /\ table'[t].value = table[t].value
            /\ table'[t].expires = table[t].expires
            /\ table[t].form \in {key, "plain"} => table'[t].form \in {key, "plain"}
  BY <1>1, WhatMigrateDoes
<1>3. ASSUME NEW p \in Platforms, NEW c \in signedIn[p]
      PROVE  c \in UNION Batches /\ SlotOf(p, c) \in Slots /\ InPlace(p, c)'
  <2>1. c \in UNION Batches /\ SlotOf(p, c) \in Slots /\ InPlace(p, c)
    BY DEF JarInv
  <2>. QED BY <2>1, <1>2 DEF InPlace
<1>. QED BY <1>2, <1>3

\* A step preserves the invariant part by part: rows and logins, statements
\* left behind, calls.
RowsFine ==
    /\ table \in [Slots -> Stored] /\ key \in EncKeys
    /\ signedIn \in [Platforms -> SUBSET UNION Batches]
    /\ \A p \in Platforms : \A c \in signedIn[p] :
          c \in UNION Batches /\ SlotOf(p, c) \in Slots /\ InPlace(p, c)

StatementFine(stmt) ==
    /\ stmt \in CallState \cup [slot : Slots, row : Rows]
    /\ "slot" \notin DOMAIN stmt => Saves(stmt)

CallFine(x) ==
    /\ x \in CallState
    /\ \A s \in x.todo : x.seen[s] # Absent
    /\ x.pc \in {"idle", "save"} => x.seen = NoRows
    /\ x.pc = "save" => Saves(x)
    /\ x.pc = "read" => x.op # "login"
    /\ AllDecoded(x)

LEMMA InvParts ==
    JarInv <=> /\ RowsFine
               /\ \A stmt \in inflight : StatementFine(stmt)
               /\ call \in [Calls -> CallState]
               /\ \A c \in Calls : CallFine(call[c])
               /\ now \in 1 .. MaxTime /\ restarts \in 0 .. MaxRestarts
BY DEF JarInv, RowsFine, StatementFine, CallFine, TypeOK

LEMMA InvNext ==
    ASSUME RowsFine', \A stmt \in inflight' : StatementFine(stmt),
           call' \in [Calls -> CallState], \A c \in Calls : CallFine(call'[c]),
           now' \in 1 .. MaxTime, restarts' \in 0 .. MaxRestarts
    PROVE  JarInv'
BY DEF JarInv, RowsFine, StatementFine, CallFine, TypeOK

LEMMA RowsStay ==
    ASSUME RowsFine, UNCHANGED <<table, key, signedIn>>
    PROVE  RowsFine'
BY DEF RowsFine, InPlace

LEMMA OneCall ==
    ASSUME call \in [Calls -> CallState], \A d \in Calls : CallFine(call[d]),
           NEW c \in Calls, NEW x, CallFine(x), call' = [call EXCEPT ![c] = x]
    PROVE  call' \in [Calls -> CallState] /\ \A d \in Calls : CallFine(call'[d])
BY DEF CallFine

LEMMA CallStep ==
    ASSUME JarInv, NEW c \in Calls, NEW x, CallFine(x),
           call' = [call EXCEPT ![c] = x],
           UNCHANGED <<table, key, now, inflight, signedIn, restarts>>
    PROVE  JarInv'
<1>1. RowsFine'
  BY InvParts, RowsStay
<1>2. call' \in [Calls -> CallState] /\ \A d \in Calls : CallFine(call'[d])
  BY InvParts, OneCall
<1>3. \A stmt \in inflight' : StatementFine(stmt)
  BY InvParts
<1>4. now' \in 1 .. MaxTime /\ restarts' \in 0 .. MaxRestarts
  BY InvParts
<1>. QED BY <1>1, <1>2, <1>3, <1>4, InvNext

\* A call that begins.
LEMMA StartedIs ==
    ASSUME NEW o \in Op, NEW p, p \in Platforms \/ p = "none",
           NEW cookies, cookies \subseteq UNION Batches,
           NEW d, d \in Domains \/ d = {}
    PROVE  /\ Started(o, p, cookies, d) \in CallState
           /\ Started(o, p, cookies, d).platform = p
           /\ Started(o, p, cookies, d).op = o
           /\ Started(o, p, cookies, d).batch = cookies
           /\ Started(o, p, cookies, d).seen = NoRows
           /\ Started(o, p, cookies, d).todo = {}
<1>1. Started(o, p, cookies, d) \in CallState
  BY IdleIsOne DEF Started, CallState
<1>2. /\ Started(o, p, cookies, d).platform = p
      /\ Started(o, p, cookies, d).op = o
      /\ Started(o, p, cookies, d).batch = cookies
      /\ Started(o, p, cookies, d).seen = NoRows
      /\ Started(o, p, cookies, d).todo = {}
  BY DEF Started, Idle
<1>. QED BY <1>1, <1>2

LEMMA Reads ==
    ASSUME NEW x \in CallState, x.todo = {}, NEW P \in SUBSET Platforms,
           x.seen = NoRows, x.op # "login"
    PROVE  /\ CallFine([x EXCEPT !.pc = "read", !.target = P])
           /\ [x EXCEPT !.pc = "read", !.target = P].seen = NoRows
BY DEF CallFine, CallState, AllDecoded, NoRows

LEMMA SavesFirst ==
    ASSUME NEW x \in CallState, x.todo = {}, NEW P \in SUBSET Platforms,
           Saves(x), x.seen = NoRows
    PROVE  /\ CallFine([x EXCEPT !.pc = "save", !.target = P])
           /\ CallFine([x EXCEPT !.pc = "save"])
           /\ [x EXCEPT !.pc = "save", !.target = P].seen = NoRows
           /\ [x EXCEPT !.pc = "save"].seen = NoRows
BY DEF CallFine, CallState, Saves, AllDecoded, NoRows

LEMMA ReceiveIs ==
    ASSUME NEW c \in Calls, Receive(c)
    PROVE  \E x : /\ call' = [call EXCEPT ![c] = x] /\ CallFine(x)
                  /\ x.seen = NoRows /\ x.pc \in {"read", "save"}
<1>1. CASE \E p \in Platforms, d \in Domains : Read(c, p, d)
  <2>1. PICK p \in Platforms, d \in Domains : Read(c, p, d)
    BY <1>1
  <2>2. PICK o \in {"get", "export", "validate"} :
            call' = [call EXCEPT ![c] =
                [Started(o, p, {}, d) EXCEPT !.pc = "read", !.target = {p}]]
    BY <2>1 DEF Read
  <2>3. o \in Op /\ o # "login"
    BY DEF Op
  <2> DEFINE x == Started(o, p, {}, d)
  <2>4. x \in CallState /\ x.seen = NoRows /\ x.todo = {} /\ x.op # "login"
    BY <2>3, StartedIs
  <2> HIDE DEF x
  <2>5. /\ CallFine([x EXCEPT !.pc = "read", !.target = {p}])
        /\ [x EXCEPT !.pc = "read", !.target = {p}].seen = NoRows
    BY <2>4, Reads
  <2>6. [x EXCEPT !.pc = "read", !.target = {p}].pc = "read"
    BY <2>4 DEF CallState
  <2>. QED BY <2>2, <2>5, <2>6 DEF x
<1>2. CASE \E p \in Platforms, b \in Batches : Update(c, p, b)
  <2>1. PICK p \in Platforms, b \in Batches : Update(c, p, b)
    BY <1>2
  <2> DEFINE cookies == FilterCookies(p, b)
             x == Started("update", p, cookies, {})
  <2>2. call' = [call EXCEPT ![c] =
            [x EXCEPT !.pc = IF cookies = {} THEN "read" ELSE "save",
                      !.target = {p}]]
    BY <2>1 DEF Update
  <2>3. /\ cookies \subseteq UNION Batches
        /\ \E d \in Batches : cookies = FilterCookies(p, d)
    BY DEF FilterCookies
  <2> HIDE DEF cookies
  <2>4. /\ x \in CallState /\ x.seen = NoRows /\ x.todo = {}
        /\ x.platform = p /\ x.batch = cookies /\ x.op # "login"
    <3>1. "update" \in Op /\ "update" # "login" /\ cookies \subseteq UNION Batches
      BY <2>3 DEF Op
    <3>2. /\ x \in CallState /\ x.seen = NoRows /\ x.todo = {}
          /\ x.platform = p /\ x.batch = cookies /\ x.op = "update"
      BY <3>1, StartedIs
    <3> HIDE DEF x
    <3>. QED BY <3>1, <3>2
  <2> HIDE DEF x
  <2>5. Saves(x)
    BY <2>3, <2>4 DEF Saves
  <2>6. CASE cookies = {}
    <3>1. /\ CallFine([x EXCEPT !.pc = "read", !.target = {p}])
          /\ [x EXCEPT !.pc = "read", !.target = {p}].seen = NoRows
      BY <2>4, Reads
    <3>2. [x EXCEPT !.pc = "read", !.target = {p}].pc = "read"
      BY <2>4 DEF CallState
    <3>. QED BY <2>2, <2>6, <3>1, <3>2
  <2>7. CASE cookies # {}
    <3>1. /\ CallFine([x EXCEPT !.pc = "save", !.target = {p}])
          /\ [x EXCEPT !.pc = "save", !.target = {p}].seen = NoRows
      BY <2>4, <2>5, SavesFirst
    <3>2. [x EXCEPT !.pc = "save", !.target = {p}].pc = "save"
      BY <2>4 DEF CallState
    <3>. QED BY <2>2, <2>7, <3>1, <3>2
  <2>. QED BY <2>6, <2>7
<1>3. CASE \E p \in Platforms, b \in Batches : Login(c, p, b)
  <2>1. PICK p \in Platforms, b \in Batches : Login(c, p, b)
    BY <1>3
  <2> DEFINE cookies == FilterCookies(p, b)
             x == Started("login", p, cookies, {})
  <2>2. call' = [call EXCEPT ![c] = [x EXCEPT !.pc = "save"]]
    BY <2>1 DEF Login
  <2>3. /\ cookies \subseteq UNION Batches
        /\ \E d \in Batches : cookies = FilterCookies(p, d)
    BY DEF FilterCookies
  <2> HIDE DEF cookies
  <2>4. /\ x \in CallState /\ x.seen = NoRows /\ x.todo = {}
        /\ x.platform = p /\ x.batch = cookies
    <3>1. "login" \in Op /\ cookies \subseteq UNION Batches
      BY <2>3 DEF Op
    <3>. QED BY <3>1, StartedIs
  <2> HIDE DEF x
  <2>5. Saves(x)
    BY <2>3, <2>4 DEF Saves
  <2>6. /\ CallFine([x EXCEPT !.pc = "save"])
        /\ [x EXCEPT !.pc = "save"].seen = NoRows
    BY <2>4, <2>5, SavesFirst
  <2>7. [x EXCEPT !.pc = "save"].pc = "save"
    BY <2>4 DEF CallState
  <2>. QED BY <2>2, <2>6, <2>7
<1>4. CASE Status(c)
  <2> DEFINE x == Started("status", "none", {}, {})
  <2>1. call' = [call EXCEPT ![c] =
            [x EXCEPT !.pc = "read", !.target = Platforms]]
    BY <1>4 DEF Status
  <2>2. x \in CallState /\ x.seen = NoRows /\ x.todo = {} /\ x.op # "login"
    <3>1. "status" \in Op /\ "status" # "login"
      BY DEF Op
    <3>2. /\ x \in CallState /\ x.seen = NoRows /\ x.todo = {}
          /\ x.op = "status"
      BY <3>1, StartedIs
    <3> HIDE DEF x
    <3>. QED BY <3>1, <3>2
  <2> HIDE DEF x
  <2>3. /\ CallFine([x EXCEPT !.pc = "read", !.target = Platforms])
        /\ [x EXCEPT !.pc = "read", !.target = Platforms].seen = NoRows
    BY <2>2, Reads
  <2>4. [x EXCEPT !.pc = "read", !.target = Platforms].pc = "read"
    BY <2>2 DEF CallState
  <2>. QED BY <2>1, <2>3, <2>4
<1>. QED BY <1>1, <1>2, <1>3, <1>4 DEF Receive

LEMMA FailedIsFine == CallFine(Failed)
BY IdleIsOne DEF CallFine

LEMMA ReceiveStep ==
    ASSUME JarInv, NEW c \in Calls, Receive(c)  PROVE JarInv'
<1>1. PICK x : call' = [call EXCEPT ![c] = x] /\ CallFine(x)
  BY ReceiveIs
<1>2. UNCHANGED <<table, key, now, inflight, signedIn, restarts>>
  BY DEF Receive
<1>. QED BY <1>1, <1>2, CallStep

LEMMA SaveStep ==
    ASSUME JarInv, NEW c \in Calls, Save(c)  PROVE JarInv'
<1> DEFINE x == call[c]
           pc == IF x.op = "login" THEN "done" ELSE "read"
<1>1. /\ CallFine(x) /\ x.pc = "save" /\ call \in [Calls -> CallState]
      /\ \A d \in Calls : CallFine(call[d])
  BY InvParts DEF Save
<1>2. /\ Upsert(x.platform, x.batch, x.op = "login")
      /\ call' = [call EXCEPT ![c].pc = pc]
      /\ UNCHANGED <<key, now, inflight, restarts>>
  BY DEF Save, Step
<1>3. call' = [call EXCEPT ![c] = [x EXCEPT !.pc = pc]]
  BY <1>1, <1>2
<1>4. pc \in {"done", "read"} /\ (pc = "read" => x.op # "login")
  OBVIOUS
<1> HIDE DEF pc
<1>5. CallFine([x EXCEPT !.pc = pc])
  BY <1>1, <1>4 DEF CallFine, CallState, AllDecoded
<1>6. call' \in [Calls -> CallState] /\ \A d \in Calls : CallFine(call'[d])
  BY <1>1, <1>3, <1>5, OneCall
<1>7. Saves(x)
  BY <1>1 DEF CallFine
<1> HIDE DEF x
<1>8. RowsFine'
  <2>1. key \in EncKeys /\ key' = key
    BY <1>2, InvParts DEF RowsFine
  <2>2. (x.op = "login") \in BOOLEAN
    OBVIOUS
  <2>. QED BY <1>2, <1>7, <2>1, <2>2, SaveKeepsRows DEF RowsFine
<1>9. /\ \A stmt \in inflight' : StatementFine(stmt)
      /\ now' \in 1 .. MaxTime /\ restarts' \in 0 .. MaxRestarts
  BY <1>2, InvParts
<1>. QED BY <1>6, <1>8, <1>9, InvNext

LEMMA SelectIs ==
    ASSUME JarInv, NEW c \in Calls, NEW p \in Platforms, Select(c, p)
    PROVE  LET seen == [s \in Slots |-> IF s \in Asked(call[c], p) THEN table[s]
                                        ELSE call[c].seen[s]]
               todo == call[c].todo
                          \cup {s \in Asked(call[c], p) : table[s] # Absent}
               x == [call[c] EXCEPT !.target = call[c].target \ {p}, !.seen = seen,
                                    !.todo = todo]
           IN  /\ call' = [call EXCEPT ![c] = x]
               /\ CallFine(x) /\ x.pc = "read" /\ x.seen = seen /\ x.op = call[c].op
               /\ x.target = call[c].target \ {p} /\ x.domains = call[c].domains
<1> DEFINE S == Asked(call[c], p)
           seen == [s \in Slots |-> IF s \in S THEN table[s]
                                    ELSE call[c].seen[s]]
           todo == call[c].todo \cup {s \in S : table[s] # Absent}
           target == call[c].target \ {p}
           x == [call[c] EXCEPT !.target = target, !.seen = seen, !.todo = todo]
<1>1. /\ CallFine(call[c]) /\ call[c] \in CallState /\ call[c].pc = "read"
      /\ call \in [Calls -> CallState] /\ table \in [Slots -> Stored]
  BY InvParts DEF Select, RowsFine
<1>2. call' = [call EXCEPT ![c] = x]
  BY <1>1 DEF Select
<1>3. S \subseteq Slots /\ \A s \in S : s.platform = p
  BY DEF Asked
<1> HIDE DEF S
<1>0. p \in call[c].target
  BY DEF Select
<1>4. /\ seen \in [Slots -> Stored] /\ todo \in SUBSET Slots
      /\ target \in SUBSET Platforms
  BY <1>1, <1>3 DEF CallState
<1>5. \A s \in Slots : /\ seen[s] # Absent => s \in todo \cup call[c].cookies
                       /\ s.platform \in target => seen[s] = Absent
                       /\ s \in todo => seen[s] # Absent
  BY <1>0, <1>1, <1>3 DEF CallFine, AllDecoded
<1> HIDE DEF seen, todo, target
<1>6. /\ x \in CallState /\ x.pc = "read" /\ x.seen = seen /\ x.todo = todo
      /\ x.op = call[c].op /\ x.target = target
      /\ x.domains = call[c].domains /\ x.cookies = call[c].cookies
  BY <1>1, <1>4 DEF CallState
<1>7. CallFine(x)
  <2>1. AllDecoded(x) /\ \A s \in x.todo : x.seen[s] # Absent
    BY <1>4, <1>5, <1>6 DEF AllDecoded
  <2>2. x.op # "login"
    BY <1>1, <1>6 DEF CallFine
  <2>. QED BY <1>6, <2>1, <2>2 DEF CallFine
<1>. QED BY <1>2, <1>6, <1>7 DEF S, seen, todo, target

LEMMA SelectStep ==
    ASSUME JarInv, NEW c \in Calls, NEW p \in Platforms, Select(c, p)
    PROVE  JarInv'
<1>1. PICK x : call' = [call EXCEPT ![c] = x] /\ CallFine(x)
  BY SelectIs
<1>2. UNCHANGED <<table, key, now, inflight, signedIn, restarts>>
  BY DEF Select
<1>. QED BY <1>1, <1>2, CallStep

LEMMA DecodeStep ==
    ASSUME JarInv, NEW c \in Calls, NEW s \in Slots, Decode(c, s)
    PROVE  JarInv'
<1> DEFINE stored == call[c].seen[s]
           x == [call[c] EXCEPT !.todo = call[c].todo \ {s},
                                !.cookies = call[c].cookies \cup {s}]
<1>1. /\ CallFine(call[c]) /\ call[c].pc = "read"
      /\ call \in [Calls -> CallState] /\ \A d \in Calls : CallFine(call[d])
  BY InvParts DEF Decode
<1>2. /\ UNCHANGED <<key, now, inflight, signedIn, restarts>>
      /\ IF stored.form = "plain" THEN Migrate(s, stored) ELSE UNCHANGED table
      /\ IF stored.form \in {"plain", key} THEN call' = [call EXCEPT ![c] = x]
         ELSE call' = [call EXCEPT ![c] = Failed]
  BY <1>1 DEF Decode
<1>3. CallFine(x)
  BY <1>1 DEF CallFine, CallState, Saves, AllDecoded
<1> HIDE DEF x, stored
<1>4. call' \in [Calls -> CallState] /\ \A d \in Calls : CallFine(call'[d])
  BY <1>1, <1>2, <1>3, OneCall, FailedIsFine
<1>5. RowsFine'
  <2>1. CASE stored.form = "plain"
    <3>1. Migrate(s, stored)
      BY <1>2, <2>1
    <3>. QED BY <3>1, <1>2, InvParts, MigrateKeepsRows DEF RowsFine
  <2>2. CASE stored.form # "plain"
    BY <1>2, <2>2, InvParts, RowsStay
  <2>. QED BY <2>1, <2>2
<1>6. /\ \A stmt \in inflight' : StatementFine(stmt)
      /\ now' \in 1 .. MaxTime /\ restarts' \in 0 .. MaxRestarts
  BY <1>2, InvParts
<1>. QED BY <1>4, <1>5, <1>6, InvNext

LEMMA ReplyFailStep ==
    ASSUME JarInv, NEW c \in Calls, Reply(c) \/ Fail(c)
    PROVE  JarInv'
<1>1. /\ CallFine(call[c]) /\ call[c] \in CallState
      /\ call \in [Calls -> CallState] /\ \A d \in Calls : CallFine(call[d])
  BY InvParts
<1>2. UNCHANGED <<table, key, now, inflight, signedIn, restarts>>
  BY DEF Reply, Fail
<1>3. \E x : call' = [call EXCEPT ![c] = x] /\ CallFine(x)
  <2>1. CASE Fail(c)
    BY <2>1, FailedIsFine DEF Fail
  <2>2. CASE Reply(c)
    <3> DEFINE x == [call[c] EXCEPT !.pc = "done"]
    <3>1. call' = [call EXCEPT ![c] = x]
      BY <2>2, <1>1 DEF Reply, Step
    <3>2. CallFine(x)
      BY <1>1 DEF CallFine, CallState, AllDecoded
    <3>. QED BY <3>1, <3>2
  <2>. QED BY <2>1, <2>2
<1>. QED BY <1>2, <1>3, CallStep

LEMMA AbandonStep ==
    ASSUME JarInv, NEW c \in Calls, Abandon(c)
    PROVE  JarInv'
<1> DEFINE x == call[c]
           D == [x EXCEPT !.pc = "done"]
           M(s) == [slot |-> s, row |-> x.seen[s]]
<1>1. /\ CallFine(x) /\ x \in CallState
      /\ call \in [Calls -> CallState] /\ \A d \in Calls : CallFine(call[d])
      /\ \A stmt \in inflight : StatementFine(stmt)
  BY InvParts
<1>2. /\ UNCHANGED <<table, key, now, signedIn, restarts>>
      /\ call' = [call EXCEPT ![c] = Failed]
  BY DEF Abandon
<1>3. \A stmt \in inflight' :
         \/ stmt \in inflight
         \/ x.pc = "save" /\ stmt = D
         \/ \E s \in x.todo : stmt = M(s)
  <2>1. inflight' \in {inflight} \cup {inflight \cup {stmt} :
            stmt \in IF x.pc = "save" THEN {D}
                     ELSE {M(s) : s \in {s \in x.todo : x.seen[s].form = "plain"}}}
    BY DEF Abandon
  <2> HIDE DEF D, M
  <2>. QED BY <2>1
<1>4. x.pc = "save" => StatementFine(D)
  <2>1. x.pc = "save" => D \in CallState /\ Saves(D)
    BY <1>1 DEF CallFine, CallState, Saves
  <2>. QED BY <2>1 DEF StatementFine
<1>5. ASSUME NEW s \in x.todo  PROVE StatementFine(M(s))
  <2>1. s \in Slots /\ x.seen[s] \in Rows
    BY <1>1 DEF CallFine, CallState, Stored
  <2>2. "slot" \in DOMAIN M(s)
    OBVIOUS
  <2>3. M(s) \in [slot : Slots, row : Rows]
    BY <2>1
  <2>. QED BY <2>2, <2>3 DEF StatementFine
<1> HIDE DEF D, M
<1>6. \A stmt \in inflight' : StatementFine(stmt)
  BY <1>1, <1>3, <1>4, <1>5
<1>7. call' \in [Calls -> CallState] /\ \A d \in Calls : CallFine(call'[d])
  BY <1>1, <1>2, OneCall, FailedIsFine
<1>8. /\ now' \in 1 .. MaxTime /\ restarts' \in 0 .. MaxRestarts
      /\ RowsFine'
  BY <1>2, InvParts, RowsStay
<1>. QED BY <1>6, <1>7, <1>8, InvNext

LEMMA WhatLands ==
    ASSUME NEW stmt, StatementFine(stmt)
    PROVE  /\ "slot" \in DOMAIN stmt => stmt.slot \in Slots /\ stmt.row \in Rows
           /\ "slot" \notin DOMAIN stmt => Saves(stmt)
<1>1. ASSUME stmt \in CallState  PROVE "slot" \notin DOMAIN stmt
  BY <1>1 DEF CallState
<1>. QED BY <1>1 DEF StatementFine

LEMMA LandStep ==
    ASSUME JarInv, NEW stmt \in inflight, Land(stmt)
    PROVE  JarInv'
<1>1. StatementFine(stmt) /\ inflight' \subseteq inflight
  BY InvParts DEF Land
<1>2. UNCHANGED <<key, now, call, restarts>>
  BY DEF Land
<1>3. RowsFine'
  <2>1. CASE "slot" \in DOMAIN stmt
    <3>1. Migrate(stmt.slot, stmt.row) /\ UNCHANGED signedIn
      BY <2>1 DEF Land
    <3>2. stmt.slot \in Slots
      BY <2>1, <1>1, WhatLands
    <3>. QED BY <3>1, <3>2, <1>2, InvParts, MigrateKeepsRows DEF RowsFine
  <2>2. CASE "slot" \notin DOMAIN stmt
    <3>1. Upsert(stmt.platform, stmt.batch, stmt.op = "login")
      BY <2>2 DEF Land
    <3>2. Saves(stmt) /\ (stmt.op = "login") \in BOOLEAN
      BY <2>2, <1>1, WhatLands
    <3>. QED BY <3>1, <3>2, <1>2, InvParts, SaveKeepsRows DEF RowsFine
  <2>. QED BY <2>1, <2>2
<1>4. /\ \A d \in inflight' : StatementFine(d)
      /\ now' \in 1 .. MaxTime /\ restarts' \in 0 .. MaxRestarts
  BY <1>1, <1>2, InvParts
<1>5. call' \in [Calls -> CallState] /\ \A d \in Calls : CallFine(call'[d])
  BY <1>2, InvParts
<1>. QED BY <1>3, <1>4, <1>5, InvNext

LEMMA RestartStep == ASSUME JarInv, Restart  PROVE JarInv'
<1>1. /\ inflight' = {} /\ now' = now /\ table' = table
      /\ restarts' \in 0 .. MaxRestarts /\ key' \in EncKeys
  BY InvParts, CookieJarAssumption DEF Restart
<1>2. call' \in [Calls -> CallState] /\ \A d \in Calls : CallFine(call'[d])
  BY InvParts, FailedIsFine, IdleIsOne DEF Restart
<1>3. RowsFine'
  <2>1. CASE key' = key
    BY <2>1, <1>1, InvParts, RowsStay DEF Restart
  <2>2. CASE key' # key
    <3>1. signedIn' = [p \in Platforms |-> {}]
      BY <2>2 DEF Restart
    <3>. QED BY <3>1, <1>1, InvParts DEF RowsFine
  <2>. QED BY <2>1, <2>2
<1>4. /\ \A stmt \in inflight' : StatementFine(stmt)
      /\ now' \in 1 .. MaxTime /\ restarts' \in 0 .. MaxRestarts
  BY <1>1, InvParts
<1>. QED BY <1>1, <1>2, <1>3, <1>4, InvNext

THEOREM JarInvStep == JarInv /\ [Next]_vars => JarInv'
<1> SUFFICES ASSUME JarInv, [Next]_vars  PROVE JarInv'
  OBVIOUS
<1>1. ASSUME UNCHANGED <<table, key, signedIn, call, inflight>>,
             now' \in 1 .. MaxTime, restarts' \in 0 .. MaxRestarts
      PROVE  JarInv'
  <2>1. RowsFine'
    BY <1>1, InvParts, RowsStay
  <2>2. /\ \A stmt \in inflight' : StatementFine(stmt)
        /\ call' \in [Calls -> CallState] /\ \A d \in Calls : CallFine(call'[d])
    BY <1>1, InvParts
  <2>. QED BY <1>1, <2>1, <2>2, InvNext
<1>2. CASE Tick
  <2>1. now' \in 1 .. MaxTime /\ restarts' \in 0 .. MaxRestarts
    BY <1>2, InvParts, CookieJarAssumption DEF Tick
  <2>. QED BY <1>1, <1>2, <2>1 DEF Tick
<1>3. CASE UNCHANGED vars
  <2>1. now' \in 1 .. MaxTime /\ restarts' \in 0 .. MaxRestarts
    BY <1>3, InvParts DEF vars
  <2>. QED BY <1>1, <1>3, <2>1 DEF vars
<1>. QED BY <1>2, <1>3, ReceiveStep, SaveStep, SelectStep, DecodeStep,
        ReplyFailStep, AbandonStep, LandStep, RestartStep DEF Next

-----------------------------------------------------------------------------
\* What was kept of a login is among what a reader can decrypt.

LEMMA MoreActive ==
    ASSUME NEW p, NEW S, NEW T, S \subseteq T, NEW name, NEW t
    PROVE  ActiveCookies(p, S, name, t) \subseteq ActiveCookies(p, T, name, t)
BY DEF ActiveCookies, FilterCookies

LEMMA MoreCookiesMoreSession ==
    ASSUME NEW p, NEW S, NEW T, S \subseteq T, NEW t, HasSession(p, S, t, FALSE)
    PROVE  HasSession(p, T, t, p # "novelpia")
<1>1. \A name : ActiveCookies(p, S, name, t) \subseteq ActiveCookies(p, T, name, t)
  BY MoreActive
<1>2. CASE p = "novelpia"
  BY <1>1, <1>2 DEF HasSession
<1>3. CASE p # "novelpia"
  BY <1>1, <1>3 DEF HasSession
<1>. QED BY <1>2, <1>3

LEMMA KeptAreRead ==
    ASSUME JarInv, NEW p \in Platforms
    PROVE  signedIn[p] \subseteq CookiesIn(p, Readable)
<1> SUFFICES ASSUME NEW c \in signedIn[p]  PROVE c \in CookiesIn(p, Readable)
  OBVIOUS
<1> DEFINE s == SlotOf(p, c)
<1>1. c \in UNION Batches /\ s \in Slots /\ InPlace(p, c)
  BY DEF JarInv
<1>2. /\ s.platform = p /\ s.name = c.name /\ s.domain = c.domain
  BY DEF SlotOf
<1>3. /\ Readable[s] = table[s] /\ Readable[s] # Absent
      /\ table[s].value = c.value /\ table[s].expires = c.expires
  BY <1>1 DEF InPlace, Readable
<1> HIDE DEF s
<1>4. c = [name |-> c.name, domain |-> c.domain,
           value |-> c.value, expires |-> c.expires]
  BY <1>1, StoreAssumption
<1>5. CookieOf(s, Readable[s]) = c
  BY <1>2, <1>3, <1>4 DEF CookieOf
<1>. QED BY <1>1, <1>2, <1>3, <1>5 DEF CookiesIn

\* Whatever is read, migrated, saved for other platforms or left behind by
\* clients that went away: what was kept of a login is a session the server
\* recognises in its table, for as long as the cookies live.
THEOREM LoginsLeaveSessions == Spec => []LoginLeavesSession
<1>1. JarInv => LoginLeavesSession
  <2> SUFFICES ASSUME JarInv, NEW p \in Platforms,
                      HasSession(p, signedIn[p], now, FALSE)
               PROVE  HasSession(p, CookiesIn(p, Readable), now, p # "novelpia")
    BY DEF LoginLeavesSession
  <2>. QED BY KeptAreRead, MoreCookiesMoreSession
<1>. QED BY <1>1, JarInvInit, JarInvStep, PTL DEF Spec

-----------------------------------------------------------------------------
\* The cookie store implements Jar.

Nothing == [s \in Slots |-> Absent]
Gone == [stage |-> "failed", left |-> {}, view |-> Nothing, answer |-> Nothing]
Content(t) == [s \in Slots |-> Plain(t[s])]
Overlay(view, S) ==
    [s \in Slots |-> IF s \in S THEN Content(table)[s] ELSE view[s]]
Shows(calls) == [c \in Calls |-> Shown(calls[c])]

LEMMA StagesAre ==
    ASSUME NEW x \in CallState
    PROVE  /\ x.pc = "failed" => Stage(x) = "failed"
           /\ x.pc = "idle" => Stage(x) = "new"
           /\ x.pc # "failed" /\ x.op = "login" => Stage(x) = "new"
           /\ x.pc \in {"save", "read"} /\ x.op # "login" => Stage(x) = "asked"
           /\ x.pc = "done" /\ x.op # "login" => Stage(x) = "answered"
           /\ x.pc \in {"idle", "save", "read"} => Stage(x) \in {"new", "asked"}
BY DEF CallState, Stage

\* What a call shows whose stage is known.
LEMMA ShownIs ==
    ASSUME NEW x
    PROVE  /\ Stage(x) = "asked" =>
                 Shown(x) = [stage |-> "asked",
                             left |-> {Part(x, p) : p \in x.target},
                             view |-> Content(x.seen), answer |-> Nothing]
           /\ Stage(x) \notin {"asked", "answered"} =>
                 Shown(x) = [stage |-> Stage(x), left |-> {},
                             view |-> Content(x.seen), answer |-> Nothing]
           /\ Stage(x) = "answered" /\ AllDecoded(x) /\ x.todo = {} =>
                 Shown(x) = [stage |-> "answered", left |-> {},
                             view |-> Content(x.seen),
                             answer |-> Content(x.seen)]
           /\ Shown(x).stage = Stage(x)
<1>1. ASSUME AllDecoded(x), x.todo = {}, NEW s \in Slots
      PROVE  (IF s \in x.cookies THEN Plain(x.seen[s]) ELSE Absent)
                 = Plain(x.seen[s])
  BY <1>1 DEF AllDecoded, Plain
<1>2. ASSUME Stage(x) = "answered", AllDecoded(x), x.todo = {}
      PROVE  Shown(x) = [stage |-> "answered", left |-> {},
                         view |-> Content(x.seen), answer |-> Content(x.seen)]
  BY <1>1, <1>2 DEF Shown, Content
<1>3. ASSUME Stage(x) # "answered"
      PROVE  [s \in Slots |-> IF Stage(x) = "answered" /\ s \in x.cookies
                              THEN Plain(x.seen[s]) ELSE Absent] = Nothing
  BY <1>3 DEF Nothing
<1>4. ASSUME Stage(x) = "asked"
      PROVE  Shown(x) = [stage |-> "asked",
                         left |-> {Part(x, p) : p \in x.target},
                         view |-> Content(x.seen), answer |-> Nothing]
  <2>1. Stage(x) # "answered"
    BY <1>4
  <2>. QED BY <1>3, <1>4, <2>1 DEF Shown, Content
<1>5. ASSUME Stage(x) \notin {"asked", "answered"}
      PROVE  Shown(x) = [stage |-> Stage(x), left |-> {},
                         view |-> Content(x.seen), answer |-> Nothing]
  <2>1. Stage(x) # "answered" /\ Stage(x) # "asked"
    BY <1>5
  <2>. QED BY <1>3, <2>1 DEF Shown, Content
<1>6. Shown(x).stage = Stage(x)
  BY DEF Shown
<1>. QED BY <1>2, <1>4, <1>5, <1>6

\* A call that has read nothing shows nothing; a failed one only that.
LEMMA NewShows ==
    /\ Content(NoRows) = Nothing
    /\ Promise!New = [stage |-> "new", left |-> {}, view |-> Nothing,
                      answer |-> Nothing]
    /\ Shown(Failed) = Gone
    /\ Shown(Idle) = Promise!New
<1>1. Content(NoRows) = Nothing
  BY DEF Content, NoRows, Nothing, Plain
<1>2. Promise!New = [stage |-> "new", left |-> {}, view |-> Nothing,
                     answer |-> Nothing]
  BY DEF Promise!New, Promise!At, Promise!Nothing, Nothing
<1>3. Stage(Failed) = "failed" /\ Stage(Idle) = "new"
  BY IdleIsOne, StagesAre
<1>4. Shown(Failed) = [stage |-> "failed", left |-> {}, view |-> Nothing,
                       answer |-> Nothing]
  <2>1. Stage(Failed) \notin {"asked", "answered"}
    BY <1>3
  <2>2. Shown(Failed) = [stage |-> Stage(Failed), left |-> {},
                         view |-> Content(Failed.seen), answer |-> Nothing]
    BY <2>1, ShownIs
  <2>. QED BY <2>2, <1>1, <1>3, IdleIsOne
<1>5. Shown(Idle) = [stage |-> "new", left |-> {}, view |-> Nothing,
                     answer |-> Nothing]
  <2>1. Stage(Idle) \notin {"asked", "answered"}
    BY <1>3
  <2>2. Shown(Idle) = [stage |-> Stage(Idle), left |-> {},
                       view |-> Content(Idle.seen), answer |-> Nothing]
    BY <2>1, ShownIs
  <2>. QED BY <2>2, <1>1, <1>3, IdleIsOne
<1>. QED BY <1>1, <1>2, <1>4, <1>5 DEF Gone

LEMMA JarInit == Init => Promise!Init
<1> SUFFICES ASSUME Init  PROVE Promise!Init
  OBVIOUS
<1>1. table \in [Slots -> Stored]
  BY StoreAssumption DEF Init, Stored
<1>2. \A s \in Slots : Plain(table[s]) \in Contents \cup {Absent}
  <2> SUFFICES ASSUME NEW s \in Slots
               PROVE  Plain(table[s]) \in Contents \cup {Absent}
    OBVIOUS
  <2>1. CASE table[s] = Absent
    BY <2>1 DEF Plain
  <2>2. CASE table[s] # Absent
    <3>1. table[s] \in Rows
      BY <2>2, <1>1 DEF Stored
    <3>. QED BY <3>1, RowsAre
  <2>. QED BY <2>1, <2>2
<1>3. \A c \in Calls : Shown(call[c]) = Promise!New
  BY NewShows DEF Init
<1>. QED BY <1>2, <1>3 DEF Promise!Init

\* The actions of Jar, by what this module shows of it.
LEMMA JarSteps ==
    /\ \A batch \in BatchWrites :
          /\ Shows(call') = Shows(call)
          /\ Content(table') = [s \in Slots |-> IF s \in DOMAIN batch THEN batch[s]
                                                ELSE Content(table)[s]]
          => Promise!Next
    /\ \A c \in Calls, parts \in SUBSET Wanted :
          /\ Content(table') = Content(table)
          /\ Shows(call)[c] = Promise!New
          /\ Shows(call') = [Shows(call) EXCEPT
                ![c] = [stage |-> "asked", left |-> parts, view |-> Nothing,
                        answer |-> Nothing]]
          => Promise!Next
    /\ \A c \in Calls : \A part \in Shows(call)[c].left :
          /\ Content(table') = Content(table)
          /\ Shows(call)[c].stage = "asked"
          /\ Shows(call') = [Shows(call) EXCEPT
                ![c] = [stage |-> "asked", left |-> Shows(call)[c].left \ {part},
                        view |-> Overlay(Shows(call)[c].view, part.slots),
                        answer |-> Nothing]]
          => Promise!Next
    /\ \A c \in Calls :
          /\ Content(table') = Content(table)
          /\ Shows(call)[c].stage = "asked" /\ Shows(call)[c].left = {}
          /\ Shows(call') = [Shows(call) EXCEPT
                ![c] = [stage |-> "answered", left |-> {},
                        view |-> Shows(call)[c].view,
                        answer |-> Shows(call)[c].view]]
          => Promise!Next
    /\ \A C \in SUBSET Calls :
          /\ Content(table') = Content(table)
          /\ \A c \in C : Shows(call)[c].stage \in {"new", "asked"}
          /\ Shows(call') = [c \in Calls |->
                IF c \in C THEN Gone
                ELSE Shows(call)[c]]
          => Promise!Next
    /\ Content(table') = Content(table) /\ Shows(call') = Shows(call)
          => UNCHANGED Promise!vars
<1>1. ASSUME NEW batch \in BatchWrites, Shows(call') = Shows(call),
             Content(table') = [s \in Slots |-> IF s \in DOMAIN batch THEN batch[s]
                                                ELSE Content(table)[s]]
      PROVE  Promise!Next
  <2>1. Promise!Write(batch)
    BY <1>1 DEF Promise!Write, Content, Shows
  <2>. QED BY <2>1 DEF Promise!Next
<1>2. ASSUME NEW c \in Calls, NEW parts \in SUBSET Wanted,
             Content(table') = Content(table), Shows(call)[c] = Promise!New,
             Shows(call') = [Shows(call) EXCEPT
                ![c] = [stage |-> "asked", left |-> parts, view |-> Nothing,
                        answer |-> Nothing]]
      PROVE  Promise!Next
  <2>1. Promise!Ask(c, parts)
    BY <1>2 DEF Promise!Ask, Promise!At, Promise!Nothing, Nothing, Content, Shows
  <2>. QED BY <2>1 DEF Promise!Next
<1>3. ASSUME NEW c \in Calls, NEW part \in Shows(call)[c].left,
             Content(table') = Content(table), Shows(call)[c].stage = "asked",
             Shows(call') = [Shows(call) EXCEPT
                ![c] = [stage |-> "asked", left |-> Shows(call)[c].left \ {part},
                        view |-> Overlay(Shows(call)[c].view, part.slots),
                        answer |-> Nothing]]
      PROVE  Promise!Next
  <2>1. Promise!Look(c, part)
    BY <1>3 DEF Promise!Look, Promise!At, Promise!Nothing, Nothing, Content, Shows,
              Overlay
  <2>. QED BY <2>1 DEF Promise!Next, Shows
<1>4. ASSUME NEW c \in Calls, Content(table') = Content(table),
             Shows(call)[c].stage = "asked", Shows(call)[c].left = {},
             Shows(call') = [Shows(call) EXCEPT
                ![c] = [stage |-> "answered", left |-> {},
                        view |-> Shows(call)[c].view,
                        answer |-> Shows(call)[c].view]]
      PROVE  Promise!Next
  <2>1. Promise!Reply(c)
    BY <1>4 DEF Promise!Reply, Promise!At, Content, Shows
  <2>. QED BY <2>1 DEF Promise!Next
<1>5. ASSUME NEW C \in SUBSET Calls, Content(table') = Content(table),
             \A c \in C : Shows(call)[c].stage \in {"new", "asked"},
             Shows(call') = [c \in Calls |->
                IF c \in C THEN Gone
                ELSE Shows(call)[c]]
      PROVE  Promise!Next
  <2>1. Promise!Fail(C)
    BY <1>5 DEF Promise!Fail, Promise!At, Promise!Nothing, Nothing, Gone, Content, Shows
  <2>. QED BY <2>1 DEF Promise!Next
<1>6. ASSUME Content(table') = Content(table), Shows(call') = Shows(call)
      PROVE  UNCHANGED Promise!vars
  BY <1>6 DEF Promise!vars, Content, Shows
<1>. QED BY <1>1, <1>2, <1>3, <1>4, <1>5, <1>6

\* What a step does to one call, as Jar sees it.
LEMMA JarCalls ==
    ASSUME JarInv, NEW c \in Calls, NEW x, call' = [call EXCEPT ![c] = x]
    PROVE  Shows(call') = [Shows(call) EXCEPT ![c] = Shown(x)]
<1>1. call \in [Calls -> CallState]
  BY InvParts
<1>. QED BY <1>1 DEF Shows

\* A call that shows the same moves nothing.
LEMMA JarCallStays ==
    ASSUME JarInv, NEW c \in Calls, NEW x, call' = [call EXCEPT ![c] = x],
           Shown(x) = Shown(call[c])
    PROVE  Shows(call') = Shows(call)
<1>1. Shows(call') = [Shows(call) EXCEPT ![c] = Shown(x)]
  BY JarCalls
<1>2. /\ Shows(call)[c] = Shown(x)
      /\ Shows(call) = [d \in Calls |-> Shows(call)[d]]
  BY DEF Shows
<1>. QED BY <1>1, <1>2

\* A call that has not answered fails.
LEMMA JarCallFails ==
    ASSUME JarInv, NEW c \in Calls, call[c].pc \in {"save", "read"},
           call' = [call EXCEPT ![c] = Failed], Content(table') = Content(table)
    PROVE  Promise!Next
<1>1. Shows(call') = [Shows(call) EXCEPT ![c] = Gone]
  <2>1. Shows(call') = [Shows(call) EXCEPT ![c] = Shown(Failed)]
    BY JarCalls
  <2>. QED BY <2>1, NewShows, Zenon
<1>2. Shows(call)[c].stage \in {"new", "asked"}
  <2>1. Stage(call[c]) \in {"new", "asked"}
    BY InvParts, StagesAre
  <2>2. Shown(call[c]).stage = Stage(call[c])
    BY ShownIs
  <2>. QED BY <2>1, <2>2 DEF Shows
<1>3. Shows(call') = [d \in Calls |->
          IF d \in {c} THEN Gone
          ELSE Shows(call)[d]]
  BY <1>1 DEF Shows
<1>. QED BY <1>2, <1>3, JarSteps

LEMMA JarUpsert ==
    ASSUME JarInv, NEW x, Saves(x), NEW isLogin,
           Upsert(x.platform, x.batch, isLogin), Shows(call') = Shows(call)
    PROVE  Promise!Next
<1> DEFINE p == x.platform
<1>1. PICK b \in Batches : x.batch = FilterCookies(p, b)
  BY DEF Saves
<1>2. p \in Platforms /\ table \in [Slots -> Stored] /\ key \in EncKeys
  BY InvParts DEF Saves, RowsFine
<1>3. PICK kept \in Kept(p, FilterCookies(p, b)) : Puts(p, kept)
  BY <1>1 DEF Upsert, Puts
<1> HIDE DEF p
<1> DEFINE batch == Written(p, kept)
<1>4. /\ kept \subseteq b
      /\ \A c \in kept : table'[SlotOf(p, c)] = RowOf(c, key)
      /\ \A s \in Slots : (\A c \in kept : SlotOf(p, c) # s)
                             => table'[s] = table[s]
      /\ batch \in BatchWrites
      /\ DOMAIN batch = {SlotOf(p, c) : c \in kept}
      /\ \A c \in kept : batch[SlotOf(p, c)]
                            = [value |-> c.value, expires |-> c.expires]
  BY <1>2, <1>3, WhatUpsertDoes DEF batch
<1> HIDE DEF batch
<1>5. ASSUME NEW s \in Slots
      PROVE  Plain(table'[s]) = IF s \in DOMAIN batch THEN batch[s]
                                ELSE Plain(table[s])
  <2>1. CASE s \in DOMAIN batch
    <3>1. PICK c \in kept : s = SlotOf(p, c)
      BY <2>1, <1>4
    <3>2. Plain(RowOf(c, key)) = [value |-> c.value, expires |-> c.expires]
      BY <1>2, <1>4, BatchRows
    <3>. QED BY <2>1, <3>1, <3>2, <1>4
  <2>2. CASE s \notin DOMAIN batch
    BY <2>2, <1>4
  <2>. QED BY <2>1, <2>2
<1>6. Content(table') = [s \in Slots |-> IF s \in DOMAIN batch THEN batch[s]
                                         ELSE Content(table)[s]]
  BY <1>5 DEF Content
<1>. QED BY <1>4, <1>6, JarSteps

LEMMA JarMigrate ==
    ASSUME JarInv, NEW s \in Slots, NEW stored, Migrate(s, stored)
    PROVE  Content(table') = Content(table)
<1>1. table \in [Slots -> Stored] /\ key \in EncKeys
  BY InvParts DEF RowsFine
<1>. QED BY <1>1, WhatMigrateDoes DEF Content

\* A call other than a login asks for its parts; a login asks for nothing.
LEMMA JarReceive ==
    ASSUME JarInv, NEW c \in Calls, Receive(c)
    PROVE  [Promise!Next]_(Promise!vars)
<1>1. PICK x : /\ call' = [call EXCEPT ![c] = x] /\ CallFine(x)
               /\ x.seen = NoRows /\ x.pc \in {"read", "save"}
  BY ReceiveIs
<1>2. /\ call[c].pc = "idle" /\ call[c].seen = NoRows /\ table' = table
      /\ call[c] \in CallState /\ x \in CallState
  BY <1>1, InvParts DEF Receive, CallFine
<1>3. Shown(call[c]) = Promise!New
  <2>1. Stage(call[c]) = "new"
    BY <1>2, StagesAre
  <2>2. Stage(call[c]) \notin {"asked", "answered"}
    BY <2>1
  <2>. QED BY <1>2, <2>1, <2>2, ShownIs, NewShows
<1>4. CASE x.op = "login"
  <2>1. Stage(x) = "new"
    BY <1>1, <1>2, <1>4, StagesAre
  <2>2. Stage(x) \notin {"asked", "answered"}
    BY <2>1
  <2>3. Shown(x) = Promise!New
    BY <1>1, <2>1, <2>2, ShownIs, NewShows
  <2>4. Shows(call') = Shows(call)
    BY <1>1, <1>3, <2>3, JarCallStays
  <2>. QED BY <1>2, <2>4, JarSteps
<1>5. CASE x.op # "login"
  <2> DEFINE parts == {Part(x, p) : p \in x.target}
  <2>1. Stage(x) = "asked"
    BY <1>1, <1>2, <1>5, StagesAre
  <2>2. parts \in SUBSET Wanted
    <3> DEFINE d == x.domains
    <3>1. d \in Domains \cup {{}} /\ x.target \subseteq Platforms
      BY <1>2 DEF CallState
    <3>2. \A p : Part(x, p) = Part([domains |-> d], p)
      BY DEF Part, Asked
    <3> HIDE DEF d
    <3>. QED BY <3>1, <3>2 DEF Wanted
  <2>3. Shown(x) = [stage |-> "asked", left |-> parts, view |-> Nothing,
                    answer |-> Nothing]
    BY <1>1, <2>1, ShownIs, NewShows
  <2> HIDE DEF parts
  <2>4. Shows(call)[c] = Promise!New
    BY <1>3 DEF Shows
  <2>5. Shows(call') = [Shows(call) EXCEPT ![c] = Shown(x)]
    BY <1>1, JarCalls
  <2>6. Shows(call') = [Shows(call) EXCEPT
                ![c] = [stage |-> "asked", left |-> parts, view |-> Nothing,
                        answer |-> Nothing]]
    BY <2>3, <2>5, Zenon
  <2>. QED BY <1>2, <2>2, <2>4, <2>6, JarSteps
<1>. QED BY <1>4, <1>5

LEMMA JarSave ==
    ASSUME JarInv, NEW c \in Calls, Save(c)
    PROVE  Promise!Next
<1> DEFINE pc == IF call[c].op = "login" THEN "done" ELSE "read"
           x == [call[c] EXCEPT !.pc = pc]
<1>1. /\ call[c] \in CallState /\ call[c].pc = "save" /\ Saves(call[c])
      /\ call \in [Calls -> CallState]
  BY InvParts DEF CallFine, Save
<1>2. call' = [call EXCEPT ![c] = x]
  BY <1>1 DEF Save, Step
<1>3. /\ x \in CallState /\ x.seen = call[c].seen /\ x.op = call[c].op
      /\ x.pc = pc /\ x.target = call[c].target /\ x.domains = call[c].domains
  BY <1>1 DEF CallState
<1> HIDE DEF x
<1>4. Shown(x) = Shown(call[c])
  <2>1. CASE call[c].op = "login"
    <3>1. Stage(x) = "new" /\ Stage(call[c]) = "new"
      BY <1>1, <1>3, <2>1, StagesAre
    <3>2. /\ Stage(x) \notin {"asked", "answered"}
          /\ Stage(call[c]) \notin {"asked", "answered"}
      BY <3>1
    <3>. QED BY <1>3, <3>1, <3>2, ShownIs
  <2>2. CASE call[c].op # "login"
    <3>1. Stage(x) = "asked" /\ Stage(call[c]) = "asked"
      BY <1>1, <1>3, <2>2, StagesAre
    <3>2. {Part(x, p) : p \in x.target}
              = {Part(call[c], p) : p \in call[c].target}
      BY <1>3 DEF Part, Asked
    <3>. QED BY <1>3, <3>1, <3>2, ShownIs
  <2>. QED BY <2>1, <2>2
<1>5. Shows(call') = Shows(call)
  BY <1>2, <1>4, JarCallStays
<1>6. Upsert(call[c].platform, call[c].batch, call[c].op = "login")
  BY DEF Save
<1>. QED BY <1>1, <1>5, <1>6, JarUpsert

\* A SELECT looks at one part; the parts of two platforms are two.
LEMMA JarSelect ==
    ASSUME JarInv, NEW c \in Calls, NEW p \in Platforms, Select(c, p)
    PROVE  [Promise!Next]_(Promise!vars)
<1> DEFINE S == Asked(call[c], p)
           seen == [s \in Slots |-> IF s \in S THEN table[s] ELSE call[c].seen[s]]
           x == [call[c] EXCEPT !.target = call[c].target \ {p}, !.seen = seen,
                    !.todo = call[c].todo \cup {s \in S : table[s] # Absent}]
<1>1. /\ call' = [call EXCEPT ![c] = x] /\ CallFine(x)
      /\ x.pc = "read" /\ x.seen = seen /\ x.op = call[c].op
      /\ x.target = call[c].target \ {p} /\ x.domains = call[c].domains
  BY SelectIs, Zenon
<1> HIDE DEF x
<1>2. /\ call[c].pc = "read" /\ table' = table /\ p \in call[c].target
      /\ call[c] \in CallState /\ x \in CallState /\ call[c].op # "login"
  BY <1>1, InvParts DEF Select, CallFine
<1> HIDE DEF S
<1> DEFINE part == Part(call[c], p)
           left == {Part(call[c], q) : q \in call[c].target}
<1>3. Stage(x) = "asked" /\ Stage(call[c]) = "asked"
  BY <1>1, <1>2, StagesAre
<1>4. {Part(x, q) : q \in x.target} = left \ {part}
  <3>1. \A q : Part(x, q) = Part(call[c], q)
    BY <1>1 DEF Part, Asked
  <3>2. \A q : Part(call[c], q) = part => q = p
    BY DEF Part
  <3>. QED BY <1>1, <3>1, <3>2
<1>5. part \in left /\ part.slots = S
  BY <1>2 DEF Part, S
<1> HIDE DEF part, left
<1>6. Shown(x) = [stage |-> "asked", left |-> left \ {part},
                  view |-> Content(seen), answer |-> Nothing]
  BY <1>1, <1>3, <1>4, ShownIs
<1>7. Shown(call[c]) = [stage |-> "asked", left |-> left,
                        view |-> Content(call[c].seen), answer |-> Nothing]
  BY <1>3, ShownIs DEF left
<1>8. Shows(call)[c] = Shown(call[c]) /\ c \in DOMAIN Shows(call)
  BY DEF Shows
<1>9. /\ Shows(call)[c].left = left /\ Shows(call)[c].stage = "asked"
      /\ Shows(call)[c].view = Content(call[c].seen)
  BY <1>7, <1>8
<1>10. Content(seen) = Overlay(Shows(call)[c].view, part.slots)
  <2>1. Content(seen) = [s \in Slots |->
            IF s \in S THEN Content(table)[s] ELSE Content(call[c].seen)[s]]
    BY DEF Content
  <2>. QED BY <1>5, <1>9, <2>1 DEF Overlay
<1> HIDE DEF seen
<1>11. Shows(call') = [Shows(call) EXCEPT ![c] = Shown(x)]
  BY <1>1, JarCalls
<1>12. Shows(call') = [Shows(call) EXCEPT
                ![c] = [stage |-> "asked", left |-> Shows(call)[c].left \ {part},
                        view |-> Overlay(Shows(call)[c].view, part.slots),
                        answer |-> Nothing]]
  BY <1>6, <1>9, <1>10, <1>11, Zenon
<1>13. /\ part \in Shows(call)[c].left /\ Shows(call)[c].stage = "asked"
       /\ Content(table') = Content(table)
  BY <1>2, <1>5, <1>9
<1>. QED BY <1>12, <1>13, JarSteps

LEMMA JarDecode ==
    ASSUME JarInv, NEW c \in Calls, NEW s \in Slots, Decode(c, s)
    PROVE  [Promise!Next]_(Promise!vars)
<1> DEFINE stored == call[c].seen[s]
           x == [call[c] EXCEPT !.todo = call[c].todo \ {s},
                                !.cookies = call[c].cookies \cup {s}]
<1>1. /\ call[c] \in CallState /\ call[c].pc = "read"
      /\ call \in [Calls -> CallState] /\ call[c].op # "login"
  BY InvParts DEF CallFine, Decode
<1>2. /\ IF stored.form = "plain" THEN Migrate(s, stored) ELSE UNCHANGED table
      /\ IF stored.form \in {"plain", key} THEN call' = [call EXCEPT ![c] = x]
         ELSE call' = [call EXCEPT ![c] = Failed]
  BY <1>1 DEF Decode
<1>3. Shown(x) = Shown(call[c])
  <2>1. /\ x \in CallState /\ x.seen = call[c].seen /\ x.op = call[c].op
        /\ x.pc = "read" /\ x.target = call[c].target
        /\ x.domains = call[c].domains
    BY <1>1 DEF CallState
  <2> HIDE DEF x
  <2>2. Stage(x) = "asked" /\ Stage(call[c]) = "asked"
    BY <1>1, <2>1, StagesAre
  <2>3. {Part(x, p) : p \in x.target}
            = {Part(call[c], p) : p \in call[c].target}
    BY <2>1 DEF Part, Asked
  <2>. QED BY <2>1, <2>2, <2>3, ShownIs
<1> HIDE DEF x, stored
<1>4. Content(table') = Content(table)
  <2>1. CASE stored.form = "plain"
    BY <2>1, <1>2, JarMigrate
  <2>2. CASE stored.form # "plain"
    BY <2>2, <1>2
  <2>. QED BY <2>1, <2>2
<1>5. CASE stored.form \in {"plain", key}
  <2>1. Shows(call') = Shows(call)
    BY <1>2, <1>3, <1>5, JarCallStays
  <2>. QED BY <2>1, <1>4, JarSteps
<1>6. CASE stored.form \notin {"plain", key}
  BY <1>1, <1>2, <1>4, <1>6, JarCallFails
<1>. QED BY <1>5, <1>6

\* Nothing is left to look at or to decode: the answer is all that was seen.
LEMMA JarReply ==
    ASSUME JarInv, NEW c \in Calls, Reply(c)
    PROVE  [Promise!Next]_(Promise!vars)
<1> DEFINE x == [call[c] EXCEPT !.pc = "done"]
<1>1. /\ call[c] \in CallState /\ call[c].pc = "read"
      /\ call[c].target = {} /\ call[c].todo = {} /\ AllDecoded(call[c])
      /\ call[c].op # "login"
      /\ call \in [Calls -> CallState] /\ table' = table
  BY InvParts DEF CallFine, Reply
<1>2. call' = [call EXCEPT ![c] = x]
  BY <1>1 DEF Reply, Step
<1>3. /\ x \in CallState /\ x.seen = call[c].seen /\ x.op = call[c].op
      /\ x.pc = "done" /\ x.todo = {} /\ AllDecoded(x)
  BY <1>1 DEF CallState, AllDecoded
<1> HIDE DEF x
<1>4. Stage(call[c]) = "asked" /\ Stage(x) = "answered"
  BY <1>1, <1>3, StagesAre
<1>5. Shown(call[c]) = [stage |-> "asked", left |-> {},
                        view |-> Content(call[c].seen), answer |-> Nothing]
  BY <1>1, <1>4, ShownIs
<1>6. Shown(x) = [stage |-> "answered", left |-> {},
                  view |-> Content(call[c].seen),
                  answer |-> Content(call[c].seen)]
  BY <1>3, <1>4, ShownIs
<1>7. Shows(call)[c] = Shown(call[c]) /\ c \in DOMAIN Shows(call)
  BY DEF Shows
<1>8. Shows(call') = [Shows(call) EXCEPT ![c] = Shown(x)]
  BY <1>2, JarCalls
<1>9. /\ Shows(call)[c].stage = "asked" /\ Shows(call)[c].left = {}
      /\ Shows(call)[c].view = Content(call[c].seen)
  BY <1>5, <1>7
<1>10. Shows(call') = [Shows(call) EXCEPT
                ![c] = [stage |-> "answered", left |-> {},
                        view |-> Shows(call)[c].view,
                        answer |-> Shows(call)[c].view]]
  BY <1>6, <1>8, <1>9, Zenon
<1>. QED BY <1>1, <1>9, <1>10, JarSteps

LEMMA JarLand ==
    ASSUME JarInv, NEW stmt \in inflight, Land(stmt)
    PROVE  [Promise!Next]_(Promise!vars)
<1>1. StatementFine(stmt) /\ call' = call
  BY InvParts DEF Land
<1>2. CASE "slot" \in DOMAIN stmt
  <2>1. Migrate(stmt.slot, stmt.row) /\ stmt.slot \in Slots
    BY <1>1, <1>2, WhatLands DEF Land
  <2>2. Content(table') = Content(table)
    BY <2>1, JarMigrate
  <2>. QED BY <2>2, <1>1, JarSteps
<1>3. CASE "slot" \notin DOMAIN stmt
  <2>1. Upsert(stmt.platform, stmt.batch, stmt.op = "login") /\ Saves(stmt)
    BY <1>1, <1>3, WhatLands DEF Land
  <2>. QED BY <2>1, <1>1, JarUpsert
<1>. QED BY <1>2, <1>3

LEMMA JarRestart ==
    ASSUME JarInv, Restart
    PROVE  Promise!Next
<1> DEFINE C == {c \in Calls : call[c].pc \in {"save", "read"}}
<1>1. /\ call' = [c \in Calls |-> IF c \in C THEN Failed ELSE call[c]]
      /\ table' = table
  BY DEF Restart
<1>2. \A c \in C : Shows(call)[c].stage \in {"new", "asked"}
  <2> SUFFICES ASSUME NEW c \in C
               PROVE  Shows(call)[c].stage \in {"new", "asked"}
    OBVIOUS
  <2>1. call[c] \in CallState /\ call[c].pc \in {"save", "read"}
    BY InvParts
  <2>2. Stage(call[c]) \in {"new", "asked"}
    BY <2>1, StagesAre
  <2>3. Shown(call[c]).stage = Stage(call[c])
    BY ShownIs
  <2>. QED BY <2>2, <2>3 DEF Shows
<1>3. C \in SUBSET Calls
  OBVIOUS
<1> HIDE DEF C
<1>4. Shows(call') = [c \in Calls |->
          IF c \in C THEN Gone
          ELSE Shows(call)[c]]
  BY <1>1, NewShows DEF Shows
<1>. QED BY <1>1, <1>2, <1>3, <1>4, JarSteps

LEMMA JarNext ==
    ASSUME JarInv, [Next]_vars
    PROVE  [Promise!Next]_(Promise!vars)
<1>1. ASSUME NEW c \in Calls, Fail(c) \/ Abandon(c)
      PROVE  Promise!Next
  <2>1. /\ call[c].pc \in {"save", "read"} /\ table' = table
        /\ call' = [call EXCEPT ![c] = Failed]
    BY <1>1 DEF Fail, Abandon
  <2>. QED BY <2>1, JarCallFails
<1>2. ASSUME table' = table, call' = call
      PROVE  UNCHANGED Promise!vars
  BY <1>2, JarSteps
<1>3. CASE Tick
  BY <1>2, <1>3 DEF Tick
<1>4. CASE UNCHANGED vars
  BY <1>2, <1>4 DEF vars
<1>. QED BY <1>1, <1>3, <1>4, JarReceive, JarSave, JarSelect, JarDecode,
        JarReply, JarLand, JarRestart DEF Next

\* Rows are encrypted, read, migrated and answered one by one, by calls that
\* fail and statements that outlive them; yet the store behaves as Jar says.
THEOREM JarRefinement == Spec => ImplementsJar
<1>. QED BY JarInvInit, JarInvStep, JarInit, JarNext, PTL
        DEF Spec, ImplementsJar, Promise!Spec

=============================================================================
