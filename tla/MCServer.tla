------------------------------ MODULE MCServer ------------------------------
EXTENDS CookieJar, Boot, Client, Recorder, TLC

VARIABLE part \* the part of the server a behaviour is about

Host(labels) == [labels |-> labels, spelling |-> "dotted"]
Naver == Host(<<"com", "naver">>)
NaverLogin == Host(<<"com", "naver", "nid">>)
Novelpia == Host(<<"com", "novelpia">>)
NovelpiaWww == Host(<<"com", "novelpia", "www">>)
Foreign == Host(<<"com", "example">>)

MCPlatforms == {"naver", "novelpia"}
Slot(p, name, domain) == [platform |-> p, name |-> name, domain |-> domain]
MCSlots == {Slot("naver", "NID_AUT", Naver), Slot("naver", "NID_AUT", NaverLogin),
            Slot("novelpia", "LOGINKEY", Novelpia),
            Slot("novelpia", "LOGINKEY", NovelpiaWww),
            Slot("novelpia", "USERKEY", Novelpia),
            Slot("novelpia", "ISLOGIN", Novelpia)}
MCLegacy ==
    {[s \in MCSlots |-> IF s \in S THEN [value |-> "1", expires |-> 0,
                                         form |-> "plain"] ELSE Absent] :
        S \in {{}, {s \in MCSlots : s.name \in {"NID_AUT", "LOGINKEY"}}}}
MCDomains == {{}, {NaverLogin}}
MCSymmetry == Permutations(Calls) \cup Permutations(EncKeys)
                  \cup Permutations(Rpcs)

Ck(name, domain, value, expires) ==
    [name |-> name, domain |-> domain, value |-> value, expires |-> expires]
MCBatches ==
    {{Ck("NID_AUT", Naver, "1", 2), Ck("NID_AUT", Foreign, "1", 0)},
     {Ck("NID_AUT", NaverLogin, "1", 3)},
     {Ck("LOGINKEY", Novelpia, "k", 0), Ck("USERKEY", Novelpia, "k", 0),
      Ck("ISLOGIN", Novelpia, "1", 3)},
     {Ck("LOGINKEY", Novelpia, "", 0), Ck("LOGINKEY", Novelpia, "k", 0),
      Ck("LOGINKEY", NovelpiaWww, "", 0)}}

File(sections, values) == [exists |-> TRUE, parses |-> TRUE,
                           sections |-> sections, values |-> values]
MCFiles ==
    {NoFile, [NoFile EXCEPT !.exists = TRUE, !.parses = FALSE]}
    \cup {File({"server", "storage"}, values) : values \in
            {<< >>, "tls_cert_path" :> "cert",
             "tls_cert_path" :> "cert" @@ "tls_key_path" :> "key",
             "tls_key_path" :> "" @@ "data_dir" :> "~/imauth"}}
    \cup {File({"browser", "security"}, "encryption_key" :> "k32")}
MCEnvs ==
    {("encryption_key" :> k) @@ e :
        k \in {"", "short", "k32"},
        e \in {"login_timeout_secs" :> -1, "tls_key_path" :> "key",
               "tls_key_path" :> "missing", "tls_cert_path" :> " "}}
MCApiKeys == {"none", " ", " k "}
Req(id, service, bearer, header) ==
    [id |-> id, service |-> service, bearer |-> bearer, header |-> header]
MCRequests == {Req(1, "session", "k", "none"), Req(2, "auth", "", "k"),
               Req(3, "health", "none", "none")}

MCUses == {<<"python", "save">>, <<"typescript", "get">>,
           <<"asyncio", "delete">>, <<"cli", "get">>,
           <<"python", "status">>, <<"typescript", "cookies">>}

\* The parts share no variable here (the key a restart brings is any of
\* EncKeys).  Each behaviour is of one of them; the others stay at their first
\* initial state.
MCInit ==
    /\ part \in {"jar", "boot", "client", "recorder"}
    /\ Init /\ BootInit /\ ClientInit /\ RecorderInit
    /\ part # "jar" => /\ \A s \in Slots : table[s] = Absent
                       /\ key = CHOOSE k \in EncKeys : TRUE
    /\ part # "recorder" =>
          /\ ~runtime
          /\ opts = [deep |-> FALSE, auto |-> FALSE, cdp |-> FALSE,
                     taken |-> FALSE]
MCNext ==
    /\ \/ /\ part = "jar" /\ Next
          /\ UNCHANGED <<bootVars, clientVars, recorderVars>>
       \/ /\ part = "boot" /\ BootNext
          /\ UNCHANGED <<vars, clientVars, recorderVars>>
       \/ /\ part = "client" /\ ClientNext
          /\ UNCHANGED <<vars, bootVars, recorderVars>>
       \/ /\ part = "recorder" /\ RecorderNext
          /\ UNCHANGED <<vars, bootVars, clientVars>>
    /\ UNCHANGED part
MCSpec ==
    MCInit /\ [][MCNext]_<<vars, bootVars, clientVars, recorderVars, part>>
=============================================================================
