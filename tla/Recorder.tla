------------------------------ MODULE Recorder ------------------------------
(***************************************************************************)
(* `imauth provider record`: the command that prepares a Node.js runtime,  *)
(* and the recorder it runs in it (scripts/provider-record.mjs).  The      *)
(* recorder follows a page: its handlers note requests and responses and   *)
(* fetch the bodies of first-party scripts, one task each, at any time,    *)
(* while the main program takes checkpoints and, in finish(), writes the   *)
(* record.  Every await there lets the handlers run in between.            *)
(*                                                                         *)
(* A script is one first-party script request of the page.  The text of an *)
(* artifact is reduced to whether the scan finds something in it.          *)
(***************************************************************************)
EXTENDS Naturals

CONSTANTS Scripts, MaxPoints \* bound on the checkpoints of a record

VARIABLES at,       \* what the command is doing
          opts,     \* [deep, auto, cdp, taken]: the flags; taken, the record's
                    \* directory is there (it is named after the second)
          runtime,  \* the cached Playwright package is there
          script,   \* what each script's request is at
          pending,  \* the scripts whose tasks are tracked
          waited,   \* those finish() waits for
          met,      \* those answered when finish() began to wait
          points,   \* checkpoints taken
          tracing,
          har,      \* the requests of the HAR
          raw, out, \* what is in raw/ and in sanitized/
          dirty,    \* the scan will find something in sanitized/
          scanned,
          manifest,
          code      \* of the recorder: "running", "0", "2" or "error"

runVars == <<at, opts, runtime, code>>
pageVars == <<script, pending, points>>
recordVars == <<waited, met, tracing, har, raw, out, dirty, scanned, manifest>>
recorderVars == <<runVars, pageVars, recordVars>>

\* What a directory holds: the checkpoints, the requests of network.har, the
\* scripts listed in javascript.json and those whose bodies are there.
Empty == [points |-> 0, network |-> {}, listed |-> {}, bodies |-> {}]
NoManifest == [files |-> Empty, ready |-> FALSE, trace |-> FALSE]
Artifacts == {s \in Scripts : script[s] = "taken"}
Recording == at \notin {"cli", "install", "browser", "root", "open", "end"}

RecorderInit ==
    /\ at = "cli"
    /\ opts \in [deep : BOOLEAN, auto : BOOLEAN, cdp : BOOLEAN, taken : BOOLEAN]
    /\ runtime \in BOOLEAN
    /\ script = [s \in Scripts |-> "unasked"] /\ pending = {}
    /\ waited = {} /\ met = {} /\ points = 0 /\ tracing = FALSE /\ har = {}
    /\ raw = Empty /\ out = Empty
    /\ dirty = FALSE /\ scanned = Empty /\ manifest = NoManifest
    /\ code = "running"

Then(next) == at' = next /\ UNCHANGED <<opts, runtime, code>>

\* An exception leaves the try block: finally closes a browser of its own,
\* node exits with 1 and the record stays as it is.
Throw ==
    /\ at' = "end" /\ code' = "error"
    /\ UNCHANGED <<opts, runtime>>

\* node or npm is missing, or the cache directory cannot be written.
RequireCommands ==
    /\ at = "cli"
    /\ \/ Then(IF runtime THEN "browser" ELSE "install")
       \/ Throw
    /\ UNCHANGED <<pageVars, recordVars>>

NpmInstall ==
    /\ at = "install"
    /\ \/ at' = "browser" /\ runtime' = TRUE /\ UNCHANGED <<opts, code>>
       \/ Throw
    /\ UNCHANGED <<pageVars, recordVars>>

\* Playwright's own Chromium, unless the user's browser is recorded.
InstallBrowser ==
    /\ at = "browser"
    /\ \/ Then("root")
       \/ ~opts.cdp /\ Throw
    /\ UNCHANGED <<pageVars, recordVars>>

\* The output root is walked and the record's directory made; it must be new.
PrepareRoot ==
    /\ at = "root"
    /\ \/ ~opts.taken /\ Then("open")
       \/ Throw
    /\ UNCHANGED <<pageVars, recordVars>>

\* Launch or connect; a browser that is connected to needs a context.
OpenBrowser ==
    /\ at = "open"
    /\ Then("navigate") \/ Throw
    /\ UNCHANGED <<pageVars, recordVars>>

\* A trace that does not start is reported and done without.
StartTracing ==
    /\ at = "navigate" /\ opts.deep /\ ~tracing
    /\ tracing' = TRUE
    /\ UNCHANGED <<runVars, pageVars, waited, met, har, raw, out, dirty,
                   scanned, manifest>>

Navigate ==
    /\ at = "navigate"
    /\ Then(IF opts.auto THEN "final" ELSE "initial") \/ Throw
    /\ UNCHANGED <<pageVars, recordVars>>

-----------------------------------------------------------------------------
\* The handlers of installCapture.

Request(s) ==
    /\ Recording /\ script[s] = "unasked"
    /\ script' = [script EXCEPT ![s] = "asked"]
    /\ UNCHANGED <<runVars, pending, points, recordVars>>

\* Fault: the task is started and not tracked.
Fault_ResponseUntracked(s) ==
    /\ Recording /\ script[s] = "asked"
    /\ script' = [script EXCEPT ![s] = "fetching"]
    /\ UNCHANGED <<runVars, pending, points, recordVars>>

\* The response is noted and a tracked task fetches its body.
Response(s) ==
    /\ Recording /\ script[s] = "asked"
    /\ script' = [script EXCEPT ![s] = "fetching"]
    /\ pending' = pending \cup {s}
    /\ UNCHANGED <<runVars, points, recordVars>>

\* The task ends: it has the body, or null when it cannot be had.
Body(s) ==
    /\ Recording /\ script[s] = "fetching"
    /\ \E result \in {"taken", "lost"} :
          script' = [script EXCEPT ![s] = result]
    /\ pending' = pending \ {s}
    /\ waited' = waited \ {s}
    /\ UNCHANGED <<runVars, points, met, tracing, har, raw, out, dirty,
                   scanned, manifest>>

RequestFailed(s) ==
    /\ Recording /\ script[s] = "asked"
    /\ script' = [script EXCEPT ![s] = "lost"]
    /\ UNCHANGED <<runVars, pending, points, recordVars>>

-----------------------------------------------------------------------------
\* A checkpoint reads the newest page, and what it reads is kept; when that
\* fails the record ends, perhaps with a part of it in raw/.
CaptureCheckpoint(next) ==
    LET kept == [raw EXCEPT !.points = IF opts.deep THEN points + 1 ELSE @]
    IN  \/ points' = points + 1 /\ raw' = kept /\ Then(next)
        \/ UNCHANGED points /\ raw' \in {raw, kept} /\ Throw

Take(next) ==
    /\ CaptureCheckpoint(next)
    /\ UNCHANGED <<script, pending, waited, met, tracing, har, out, dirty,
                   scanned, manifest>>

Initial == at = "initial" /\ Take("prompt")

\* The commands: checkpoint <name>, finish and abort.
Prompt ==
    /\ at = "prompt"
    /\ \/ points < MaxPoints - 1 /\ Take("prompt")
       \/ /\ \E next \in {"final", "settle"} : Then(next)
          /\ UNCHANGED <<pageVars, recordVars>>

Final == at = "final" /\ Take("settle")

\* finish(): Promise.allSettled over the tasks tracked now.
Settle ==
    /\ at = "settle"
    /\ waited' = pending
    /\ met' = {s \in Scripts : script[s] \in {"fetching", "taken"}}
    /\ Then("trace")
    /\ UNCHANGED <<pageVars, tracing, har, raw, out, dirty, scanned, manifest>>

\* The tasks are settled; the trace, if there is one, is stopped and linked
\* into raw/.
StopTracing ==
    /\ at = "trace" /\ waited = {}
    /\ Then("har") \/ (tracing /\ Throw)
    /\ UNCHANGED <<pageVars, recordVars>>

BuildHar ==
    /\ at = "har"
    /\ har' = {s \in Scripts : script[s] # "unasked"}
    /\ Then(IF opts.deep THEN "raw" ELSE "write")
    /\ UNCHANGED <<pageVars, waited, met, tracing, raw, out, dirty, scanned,
                   manifest>>

\* The directory is made before the scripts to write are listed.
WriteRaw ==
    /\ at = "raw"
    /\ \/ /\ raw' = [raw EXCEPT !.network = har, !.bodies = Artifacts]
          /\ Then("write")
       \/ UNCHANGED raw /\ Throw
    /\ UNCHANGED <<pageVars, waited, met, tracing, har, out, dirty, scanned,
                   manifest>>

\* A step of writeSanitizedArtifacts: the text written may have something the
\* scan finds, and the write may fail.
Sanitize(files, next) ==
    /\ \/ /\ out' = files
          /\ dirty' \in {dirty, TRUE}
          /\ Then(next)
       \/ UNCHANGED <<out, dirty>> /\ Throw
    /\ UNCHANGED <<pageVars, waited, met, tracing, har, raw, scanned, manifest>>

WriteCheckpoints ==
    /\ at = "write"
    /\ Sanitize([out EXCEPT !.points = points, !.network = har], "list")

WriteInventory ==
    /\ at = "list"
    /\ Sanitize([out EXCEPT !.listed = Artifacts],
                IF opts.deep THEN "bodies" ELSE "scan")

\* The loop is over the live array: a script that comes while another is
\* being written is written too.
WriteBodies ==
    /\ at = "bodies"
    /\ \/ \E s \in Artifacts \ out.bodies :
             Sanitize([out EXCEPT !.bodies = @ \cup {s}], "bodies")
       \/ /\ Artifacts = out.bodies
          /\ Then("scan")
          /\ UNCHANGED <<pageVars, recordVars>>

Scan ==
    /\ at = "scan"
    /\ \/ scanned' = out /\ Then("seal")
       \/ UNCHANGED scanned /\ Throw
    /\ UNCHANGED <<pageVars, waited, met, tracing, har, raw, out, dirty,
                   manifest>>

\* Checksums, the redaction report, the manifest and report.md; a scan that
\* found something makes the exit code 2.
Seal ==
    LET ready == ~dirty
    IN  /\ at = "seal"
        /\ manifest' \in {manifest, [files |-> out, ready |-> ready,
                                      trace |-> tracing]}
        /\ \/ /\ manifest' # manifest
              /\ at' = "end" /\ code' = IF ready THEN "0" ELSE "2"
              /\ UNCHANGED <<opts, runtime>>
           \/ Throw
        /\ UNCHANGED <<pageVars, waited, met, tracing, har, raw, out, dirty,
                       scanned>>

\* The recorder is interrupted, at the prompt or anywhere else.
Interrupt ==
    /\ Recording
    /\ Throw
    /\ UNCHANGED <<pageVars, recordVars>>

RecorderNext ==
    \/ RequireCommands \/ NpmInstall \/ InstallBrowser \/ PrepareRoot
    \/ OpenBrowser \/ StartTracing \/ Navigate
    \/ \E s \in Scripts :
          Request(s) \/ Response(s) \/ Body(s) \/ RequestFailed(s)
    \/ Initial \/ Prompt \/ Final \/ Settle \/ StopTracing \/ BuildHar
    \/ WriteRaw \/ WriteCheckpoints \/ WriteInventory \/ WriteBodies \/ Scan
    \/ Seal \/ Interrupt

RecorderSpec == RecorderInit /\ [][RecorderNext]_recorderVars

-----------------------------------------------------------------------------
\* The handlers go on while finish() writes, so the parts of a record may be
\* of different moments.  What a record with a manifest promises is still
\* kept: every first-party script answered before finish() began to wait is
\* in the inventory, and in both sets of bodies of a deep record; a body in
\* raw/ is in the inventory, and what the inventory lists has a sanitized
\* body; both HARs have the same requests.  Everything in sanitized/ was
\* scanned and is listed with its checksum.  And the command succeeds only
\* with such a manifest, found clean.
RecordIsWhole ==
    /\ manifest # NoManifest =>
          /\ met \cap Artifacts \subseteq out.listed
          /\ opts.deep =>
                /\ met \cap Artifacts \subseteq raw.bodies
                /\ raw.bodies \subseteq out.listed
                /\ out.listed \subseteq out.bodies
                /\ raw.network = out.network
                /\ raw.points >= out.points
          /\ manifest.files = out /\ scanned = out
          /\ out.points = points
          /\ manifest.ready = ~dirty
    /\ code = "0" => manifest # NoManifest /\ manifest.ready
=============================================================================
