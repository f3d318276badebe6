------------------------------ MODULE CookieJar ------------------------------
(***************************************************************************)
(* The cookies table and the calls that read and write it: the session     *)
(* RPCs (SessionGrpcService), their use cases (application/cookies.rs) and *)
(* SqliteCookieRepository, with the save a login ends with.                *)
(*                                                                         *)
(* A statement is atomic; between two statements of a call everything else *)
(* may happen.  A read is one SELECT per platform; its rows are decoded    *)
(* one after the other, and a row that an older version stored in the      *)
(* clear is encrypted by an UPDATE of its own, against the value read.     *)
(* A restart may come with another encryption key: what was stored under   *)
(* the old one cannot be decrypted any more.                               *)
(***************************************************************************)
EXTENDS Platform, Naturals, FiniteSets

CONSTANTS Platforms,   \* the platforms used, of PlatformName
          Slots,       \* [platform, name, domain]: the keys of the table
          Legacy,      \* the tables an older version may have left
          Batches,     \* the cookie sets callers and browsers come with
          Domains,     \* the lists of domains get_cookies is called with
          Calls,
          Ops,         \* the RPCs used, of Op
          EncKeys,
          Absent,      \* no row
          MaxTime,     \* bound on the clock
          MaxRestarts  \* bound on the restarts of a behaviour

ASSUME CookieJarAssumption ==
    /\ Platforms \subseteq PlatformName
    /\ MaxTime \in Nat \ {0}
    /\ MaxRestarts \in Nat

VARIABLES table,    \* the row of each slot: [value, expires, form]
          key,      \* the encryption key of the running server
          now,
          call,     \* what each call is doing
          inflight, \* statements whose caller is gone
          signedIn, \* what was kept of the last login, if nothing undid it
          restarts

vars == <<table, key, now, call, inflight, signedIn, restarts>>

Op == {"get", "export", "validate", "status", "update", "login"}

\* The rows of a batch; form is "plain" or the key of the ciphertext.
SlotOf(p, c) == [platform |-> p, name |-> c.name, domain |-> c.domain]
RowOf(c, form) == [value |-> c.value, expires |-> c.expires, form |-> form]
CookieOf(s, row) == [name |-> s.name, domain |-> s.domain,
                     value |-> row.value, expires |-> row.expires]

Contents == {[value |-> c.value, expires |-> c.expires] :
                c \in UNION Batches}
Rows == {RowOf(c, form) : c \in Contents, form \in EncKeys \cup {"plain"}}

\* A cookie is [name, domain, value, expires]; Slots are the keys that can occur.
ASSUME StoreAssumption ==
    /\ \A c \in UNION Batches : c = [name |-> c.name, domain |-> c.domain,
                                    value |-> c.value, expires |-> c.expires]
    /\ \A p \in Platforms, b \in Batches :
          \A c \in FilterCookies(p, b) : SlotOf(p, c) \in Slots
    /\ Legacy \subseteq [Slots -> Rows \cup {Absent}]
    /\ Absent \notin Rows

\* The cookies of platform p among rows.
CookiesIn(p, rows) ==
    {CookieOf(s, rows[s]) :
        s \in {s \in Slots : s.platform = p /\ rows[s] # Absent}}

\* The rows the key can decrypt, and those that are not encrypted yet.
Readable == [s \in Slots |-> IF /\ table[s] # Absent
                               /\ table[s].form \in {key, "plain"}
                            THEN table[s] ELSE Absent]

NoRows == [s \in Slots |-> Absent]
Idle == [pc |-> "idle", op |-> "none", platform |-> "none", batch |-> {},
         domains |-> {}, target |-> {}, seen |-> NoRows, todo |-> {},
         cookies |-> {}]
Failed == [Idle EXCEPT !.pc = "failed"]

Init ==
    /\ key \in EncKeys
    /\ table \in Legacy
    /\ now = 1
    /\ call = [c \in Calls |-> Idle]
    /\ inflight = {}
    /\ signedIn = [p \in Platforms |-> {}]
    /\ restarts = 0

-----------------------------------------------------------------------------
(* Statements.                                                             *)

\* migrate_plaintext: UPDATE ... AND value = the plaintext that was read.
Migrate(s, row) ==
    table' = IF table[s] = Absent \/ table[s].form # "plain"
                \/ table[s].value # row.value
             THEN table ELSE [table EXCEPT ![s].form = key]

\* What is left of a batch: the last cookie of each slot, whatever their order.
Kept(p, cookies) ==
    {kept \in SUBSET cookies :
        /\ \A c \in cookies : \E d \in kept : SlotOf(p, d) = SlotOf(p, c)
        /\ \A c, d \in kept : SlotOf(p, c) = SlotOf(p, d) => c = d}

\* Fault: ON CONFLICT DO NOTHING.
Fault_KeepOldRows(p, cookies, isLogin) ==
    \E kept \in Kept(p, cookies) :
        /\ table' = [s \in Slots |->
                        LET new == {c \in kept : SlotOf(p, c) = s} IN
                        IF new = {} \/ table[s] # Absent THEN table[s]
                        ELSE RowOf(CHOOSE c \in new : TRUE, key)]
        /\ signedIn' = [signedIn EXCEPT ![p] = IF isLogin THEN kept ELSE {}]

\* The transaction of save and save_login: each cookie of the batch replaces
\* the row of its name and domain; a login's leaves its platform signed in.
Upsert(p, cookies, isLogin) ==
    \E kept \in Kept(p, cookies) :
        /\ table' = [s \in Slots |->
                        LET new == {c \in kept : SlotOf(p, c) = s} IN
                        IF new = {} THEN table[s]
                        ELSE RowOf(CHOOSE c \in new : TRUE, key)]
        /\ signedIn' = [signedIn EXCEPT ![p] = IF isLogin THEN kept ELSE {}]

-----------------------------------------------------------------------------
(* Calls.                                                                  *)

Step(c, pc) == call' = [call EXCEPT ![c].pc = pc]

Started(o, p, cookies, domains) ==
    [Idle EXCEPT !.op = o, !.platform = p, !.batch = cookies,
                 !.domains = domains]

\* get_cookies, export_netscape, validate_session.
Read(c, p, domains) ==
    \E o \in Ops \cap {"get", "export", "validate"} :
        /\ o # "get" => domains = {}
        /\ call' = [call EXCEPT ![c] =
                [Started(o, p, {}, domains) EXCEPT !.pc = "read",
                                                   !.target = {p}]]

\* get_connection_status: every platform at once, the first error wins.
Status(c) ==
    /\ "status" \in Ops
    /\ call' = [call EXCEPT ![c] =
            [Started("status", "none", {}, {}) EXCEPT !.pc = "read",
                                                      !.target = Platforms]]

\* update_cookies: save what belongs to the platform, then read all of it.
Update(c, p, batch) ==
    LET cookies == FilterCookies(p, batch) IN
    /\ "update" \in Ops
    /\ call' = [call EXCEPT ![c] =
            [Started("update", p, cookies, {}) EXCEPT
                !.pc = IF cookies = {} THEN "read" ELSE "save",
                !.target = {p}]]

\* classify_auth_state found the session cookie: save_login.
Login(c, p, batch) ==
    /\ "login" \in Ops
    /\ MayHaveSession(p, batch, now)
    /\ call' = [call EXCEPT ![c] =
            [Started("login", p, FilterCookies(p, batch), {}) EXCEPT
                !.pc = "save"]]

Receive(c) ==
    /\ call[c].pc = "idle"
    /\ \/ \E p \in Platforms :
            \/ \E d \in Domains : Read(c, p, d)
            \/ \E batch \in Batches : Update(c, p, batch) \/ Login(c, p, batch)
       \/ Status(c)
    /\ UNCHANGED <<table, key, now, inflight, signedIn, restarts>>

Save(c) ==
    /\ call[c].pc = "save"
    /\ Upsert(call[c].platform, call[c].batch, call[c].op = "login")
    /\ Step(c, IF call[c].op = "login" THEN "done" ELSE "read")
    /\ UNCHANGED <<key, now, inflight, restarts>>

\* What get() asks for: a list of domains is compared as it is written.
Asked(x, p) ==
    {s \in Slots : s.platform = p
                   /\ (x.domains = {} \/ s.domain \in x.domains)}

Select(c, p) ==
    /\ call[c].pc = "read" /\ p \in call[c].target
    /\ call' = [call EXCEPT
            ![c].target = @ \ {p},
            ![c].seen = [s \in Slots |-> IF s \in Asked(call[c], p)
                                         THEN table[s] ELSE @[s]],
            ![c].todo = @ \cup {s \in Asked(call[c], p) : table[s] # Absent}]
    /\ UNCHANGED <<table, key, now, inflight, signedIn, restarts>>

\* Fault: a row that cannot be decrypted is left out of the answer.
Fault_DecodeSkips(c, s) ==
    LET row == call[c].seen[s] IN
    /\ call[c].pc = "read" /\ s \in call[c].todo
    /\ IF row.form = "plain" THEN Migrate(s, row) ELSE UNCHANGED table
    /\ call' = [call EXCEPT ![c].todo = @ \ {s},
            ![c].cookies = IF row.form \in {"plain", key} THEN @ \cup {s}
                           ELSE @]
    /\ UNCHANGED <<key, now, inflight, signedIn, restarts>>

\* cookie_from_row: decrypt, or take the plaintext and migrate it; the first
\* row that cannot be decrypted fails the call.
Decode(c, s) ==
    LET row == call[c].seen[s] IN
    /\ call[c].pc = "read" /\ s \in call[c].todo
    /\ IF row.form = "plain" THEN Migrate(s, row) ELSE UNCHANGED table
    /\ IF row.form \in {"plain", key}
       THEN call' = [call EXCEPT ![c].todo = @ \ {s},
                                 ![c].cookies = @ \cup {s}]
       ELSE call' = [call EXCEPT ![c] = Failed]
    /\ UNCHANGED <<key, now, inflight, signedIn, restarts>>

Reply(c) ==
    /\ call[c].pc = "read" /\ call[c].target = {} /\ call[c].todo = {}
    /\ Step(c, "done")
    /\ UNCHANGED <<table, key, now, inflight, signedIn, restarts>>

\* A statement fails: locked past busy_timeout, no connection, disk error.
Fail(c) ==
    /\ call[c].pc \in {"save", "read"}
    /\ call' = [call EXCEPT ![c] = Failed]
    /\ UNCHANGED <<table, key, now, inflight, signedIn, restarts>>

\* The client goes away; the statement being executed may still land.
Abandon(c) ==
    /\ call[c].pc \in {"save", "read"}
    /\ call' = [call EXCEPT ![c] = Failed]
    /\ inflight' \in {inflight} \cup {inflight \cup {stmt} :
            stmt \in IF call[c].pc = "save"
                     THEN {[call[c] EXCEPT !.pc = "done"]}
                     ELSE {[slot |-> s, row |-> call[c].seen[s]] :
                            s \in {s \in call[c].todo :
                                    call[c].seen[s].form = "plain"}}}
    /\ UNCHANGED <<table, key, now, signedIn, restarts>>

Land(stmt) ==
    /\ inflight' = inflight \ {stmt}
    /\ IF "slot" \in DOMAIN stmt
       THEN Migrate(stmt.slot, stmt.row) /\ UNCHANGED signedIn
       ELSE Upsert(stmt.platform, stmt.batch, stmt.op = "login")
    /\ UNCHANGED <<key, now, call, restarts>>

Tick ==
    /\ now < MaxTime
    /\ now' = now + 1
    /\ UNCHANGED <<table, key, call, inflight, signedIn, restarts>>

\* The process dies and comes back, perhaps with another key.
Restart ==
    /\ restarts < MaxRestarts
    /\ restarts' = restarts + 1
    /\ key' \in EncKeys
    /\ call' = [c \in Calls |-> IF call[c].pc \in {"save", "read"}
                                THEN Failed ELSE call[c]]
    /\ inflight' = {}
    /\ signedIn' = IF key' = key THEN signedIn ELSE [p \in Platforms |-> {}]
    /\ UNCHANGED <<table, now>>

Next ==
    \/ \E c \in Calls :
        \/ Receive(c) \/ Save(c) \/ Reply(c) \/ Fail(c) \/ Abandon(c)
        \/ \E p \in Platforms : Select(c, p)
        \/ \E s \in Slots : Decode(c, s)
    \/ \E stmt \in inflight : Land(stmt)
    \/ Tick
    \/ Restart

Spec == Init /\ [][Next]_vars

-----------------------------------------------------------------------------
(* Properties.                                                             *)

Stored == Rows \cup {Absent}
CallState ==
    [pc : {"idle", "save", "read", "done", "failed"}, op : Op \cup {"none"},
     platform : Platforms \cup {"none"}, batch : SUBSET UNION Batches,
     domains : Domains \cup {{}}, target : SUBSET Platforms,
     seen : [Slots -> Stored], todo : SUBSET Slots, cookies : SUBSET Slots]

\* Every variable keeps its type, and a call decodes only rows it has seen.
TypeOK ==
    /\ table \in [Slots -> Stored]
    /\ key \in EncKeys
    /\ now \in 1..MaxTime
    /\ call \in [Calls -> CallState]
    /\ \A c \in Calls : \A s \in call[c].todo : call[c].seen[s] # Absent
    /\ inflight \subseteq CallState \cup [slot : Slots, row : Rows]
    /\ signedIn \in [Platforms -> SUBSET UNION Batches]
    /\ restarts \in 0..MaxRestarts

\* What a row says, whatever its form.
Plain(row) == IF row = Absent THEN Absent
              ELSE [value |-> row.value, expires |-> row.expires]

\* What each batch may write, slot by slot.
Written(p, kept) ==
    [s \in {SlotOf(p, c) : c \in kept} |->
        LET c == CHOOSE c \in kept : SlotOf(p, c) = s IN
        [value |-> c.value, expires |-> c.expires]]
BatchWrites ==
    UNION {{Written(p, kept) : kept \in Kept(p, FilterCookies(p, b))} :
               p \in Platforms, b \in Batches}

\* What a call asks for: one part per platform.
Part(x, p) == [platform |-> p, slots |-> Asked(x, p)]
Wanted == {Part([domains |-> d], p) : d \in Domains \cup {{}}, p \in Platforms}

\* A login asks for nothing.
Stage(x) ==
    IF x.pc = "failed" THEN "failed"
    ELSE IF x.pc = "idle" \/ x.op = "login" THEN "new"
    ELSE IF x.pc = "done" THEN "answered" ELSE "asked"

\* A call as Jar sees it: its answer is made of the rows it has decoded.
Shown(x) ==
    [stage |-> Stage(x),
     left |-> IF Stage(x) = "asked" THEN {Part(x, p) : p \in x.target} ELSE {},
     view |-> [s \in Slots |-> Plain(x.seen[s])],
     answer |-> [s \in Slots |->
                    IF Stage(x) = "answered" /\ s \in x.cookies
                    THEN Plain(x.seen[s]) ELSE Absent]]

Promise == INSTANCE Jar WITH
    Parts <- Wanted,
    Held <- Contents \cup {Absent},
    Writes <- BatchWrites,
    content <- [s \in Slots |-> Plain(table[s])],
    call <- [c \in Calls |-> Shown(call[c])]

\* The cookie store implements Jar: rows are encrypted, read, decoded and
\* migrated one by one, by calls that fail and statements that outlive them,
\* yet only a batch changes what is stored (a reader's migration undoes none)
\* and what a call answers is every row of its platforms and domains, those of
\* a platform as they stood at one moment: one row the server cannot decrypt
\* fails the call, and is never left out.
ImplementsJar == Promise!Spec

\* A login leaves its platform with a session the server itself recognises
\* among the rows it can decrypt, for as long as the cookies that were kept of
\* it live: until an update, a restart with another key or the expiry,
\* whatever else is read or stored.  Rows of the same names under other
\* domains may be there as well; where the value of a cookie counts (novelpia)
\* one of them may be looked at instead.
LoginLeavesSession ==
    \A p \in Platforms :
        HasSession(p, signedIn[p], now, FALSE) =>
            HasSession(p, CookiesIn(p, Readable), now, p # "novelpia")
=============================================================================
