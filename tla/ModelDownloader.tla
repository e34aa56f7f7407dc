--------------------------- MODULE ModelDownloader --------------------------
(***************************************************************************)
(* ModelDownloader.download() for one model, again and again: assets are   *)
(* transferred one by one into a temporary directory that later calls      *)
(* resume, verified, joined by a manifest and published with one rename.   *)
(*                                                                         *)
(* Around it are a server that may answer anything, callers that cancel,   *)
(* a disk that fails, a process that dies, directories that are damaged or *)
(* removed between calls, and another process that installs the same       *)
(* model.  Each of these is a fault, and faults are bounded.  Calls do not *)
(* overlap: every caller holds Catalog.writeLock.                          *)
(*                                                                         *)
(* Bytes come in chunks.  What a file holds, and what a digest has seen,   *)
(* is abstracted to a number of chunks and whether they are the first ones *)
(* of the asset.                                                           *)
(***************************************************************************)
EXTENDS Integers

CONSTANTS
    Assets,            \* number of assets of the model
    Size,              \* chunks in an asset
    MaxRetries,        \* policy.maxRetries
    MaxFaults          \* bound: faults over a behaviour

ASSUME DownloaderAssumption ==
    /\ Assets \in Nat \ {0}
    /\ Size \in Nat \ {0}
    /\ MaxRetries \in Nat
    /\ MaxFaults \in Nat

(* Installed directories: 0 has the model's own name, the others a suffix. *)
Names == 0 .. MaxFaults + 1
Nowhere == -1       \* no directory was returned: the call failed, or still runs
Lost == -2          \* the process ended

VARIABLES
    faults,            \* faults so far
    copies,            \* the state of each installed directory
    ours,              \* ghost: those that download() published
    complete,          \* finished files of the temporary directory
    part,              \* partial files of the temporary directory
    manifest,          \* the manifest of the temporary directory
    pc,                \* where download() is, "idle" between calls
    resume,            \* policy.resume of this call
    asset,             \* the asset it is at
    attempt,
    requests,          \* ghost: requests for this asset in this call
    have,              \* bytes the request continues from
    received,
    declared,          \* Content-Length, -1 if there is none
    digest,            \* what the digest has been fed
    target,            \* the name this call is about to publish under
    returned           \* the directory the last call returned

tempvars == <<complete, part, manifest>>
installvars == <<copies, ours, target, returned>>
callvars == <<resume, asset, attempt, requests>>
bodyvars == <<have, received, declared, digest>>
vars == <<faults, tempvars, installvars, pc, callvars, bodyvars>>

-----------------------------------------------------------------------------
(* Bytes.                                                                  *)

Bytes == [len : -1 .. Size + 1, ok : BOOLEAN]

NoFile == [len |-> -1, ok |-> FALSE]
Empty == [len |-> 0, ok |-> TRUE]
Whole == [len |-> Size, ok |-> TRUE]

(* bytes with one more chunk, taken from position pos of the asset if good.*)
Grown(bytes, pos, good) ==
    [len |-> bytes.len + 1, ok |-> bytes.ok /\ good /\ bytes.len = pos]

Fault == faults < MaxFaults /\ faults' = faults + 1
NoFault == UNCHANGED faults

(* Something counts as a fault if it is bad.                               *)
FaultIf(bad) == IF bad THEN Fault ELSE NoFault

NoTemp ==
    /\ complete' = [a \in 1 .. Assets |-> "none"]
    /\ part' = [a \in 1 .. Assets |-> NoFile]
    /\ manifest' = "none"

Init ==
    /\ faults = 0
    /\ copies = [n \in Names |-> "none"]
    /\ ours = {}
    /\ complete = [a \in 1 .. Assets |-> "none"]
    /\ part = [a \in 1 .. Assets |-> NoFile]
    /\ manifest = "none"
    /\ pc = "idle"
    /\ resume = TRUE
    /\ asset = 1
    /\ attempt = 0
    /\ requests = 0
    /\ have = 0
    /\ received = 0
    /\ declared = -1
    /\ digest = Empty
    /\ target = 0
    /\ returned = Nowhere

-----------------------------------------------------------------------------
(* A call from its beginning to the transfers.                             *)

(* Mutant: only the directory of the model's own name is looked at.        *)
ReusableExact(n) == n = 0 /\ copies[n] = "whole"

(* reusable(): the directory is there and verifies.                        *)
Reusable(n) == copies[n] = "whole"

(* download() as far as the temporary directory.                           *)
Download ==
    /\ pc = "idle"
    /\ resume' \in BOOLEAN
    /\ asset' = 1
    /\ IF \E n \in Names : Reusable(n)
         THEN /\ \E n \in Names : Reusable(n) /\ returned' = n
              /\ UNCHANGED pc
         ELSE /\ returned' = Nowhere
              /\ pc' = "fetch"
    /\ UNCHANGED <<faults, copies, ours, target, tempvars, attempt, requests, bodyvars>>

(* fetch(): an asset that is finished and still hashes is left as it is.   *)
Fetch ==
    /\ pc = "fetch"
    /\ IF asset > Assets
         THEN /\ pc' = "stage"
              /\ UNCHANGED <<complete, part, asset, attempt, requests>>
         ELSE IF complete[asset] = "good"
         THEN /\ part' = [part EXCEPT ![asset] = NoFile]
              /\ asset' = asset + 1
              /\ UNCHANGED <<pc, complete, attempt, requests>>
         ELSE /\ complete' = [complete EXCEPT ![asset] = "none"]
              /\ attempt' = 1
              /\ requests' = 0
              /\ pc' = "request"
              /\ UNCHANGED <<part, asset>>
    /\ UNCHANGED <<faults, installvars, manifest, resume, bodyvars>>

(* resumePoint() keeps a partial file.                                     *)
Usable(p) == resume /\ p.len > 0 /\ p.len < Size

(* transfer() up to the response: an unusable partial file is discarded, a *)
(* usable one is fed to the digest.                                        *)
Request ==
    /\ pc = "request"
    /\ LET p == part[asset]
       IN  IF Usable(p)
             THEN /\ have' = p.len
                  /\ digest' = p
                  /\ UNCHANGED part
             ELSE /\ have' = 0
                  /\ digest' = Empty
                  /\ part' = [part EXCEPT ![asset] = NoFile]
    /\ requests' = requests + 1
    /\ pc' = "response"
    /\ UNCHANGED <<faults, installvars, complete, manifest, resume, asset, attempt,
                   received, declared>>

-----------------------------------------------------------------------------
(* Ends of a call that fails, and of an attempt.                           *)

(* Mutant: the temporary directory is kept under every policy.             *)
AbortAndKeep(parts) ==
    /\ pc' = "idle"
    /\ part' = parts
    /\ UNCHANGED <<complete, manifest>>

(* An exception leaves download() with these partial files: without resume *)
(* the temporary directory is removed.                                     *)
Abort(parts) ==
    /\ pc' = "idle"
    /\ IF resume
         THEN /\ part' = parts
              /\ UNCHANGED <<complete, manifest>>
         ELSE NoTemp

Discarded == [part EXCEPT ![asset] = NoFile]

NoAttemptLeft == attempt > MaxRetries

(* A failure worth a retry: the next attempt, while there is one.          *)
Retry ==
    /\ pc = "failed"
    /\ IF NoAttemptLeft
         THEN /\ Abort(part)
              /\ UNCHANGED attempt
         ELSE /\ attempt' = attempt + 1
              /\ pc' = "request"
              /\ UNCHANGED tempvars
    /\ UNCHANGED <<faults, installvars, resume, asset, requests, bodyvars>>

(* The call is cancelled, its observer throws, or the disk is full.        *)
Interrupt ==
    /\ pc # "idle"
    /\ Fault
    /\ Abort(part)
    /\ UNCHANGED <<installvars, callvars, bodyvars>>

-----------------------------------------------------------------------------
(* The response.                                                           *)

(* No answer, or a status worth a retry: 408, 429, 5xx.                    *)
AnswerTransient ==
    /\ pc = "response"
    /\ Fault
    /\ pc' = "failed"
    /\ UNCHANGED <<tempvars, installvars, callvars, bodyvars>>

(* Any other status; among them 206 and 416 to a request without a range.  *)
AnswerFatal ==
    /\ pc = "response"
    /\ Fault
    /\ Abort(part)
    /\ UNCHANGED <<installvars, callvars, bodyvars>>

(* Mutant: the partial file is kept, so the range is asked for again.      *)
RejectKeeping ==
    /\ pc = "response"
    /\ have > 0
    /\ pc' = "request"
    /\ UNCHANGED <<faults, tempvars, installvars, callvars, bodyvars>>

(* 416, or 206 with another range: once more from zero, in this attempt.   *)
AnswerRejected ==
    /\ pc = "response"
    /\ have > 0
    /\ NoFault
    /\ part' = Discarded
    /\ pc' = "request"
    /\ UNCHANGED <<complete, manifest, installvars, callvars, bodyvars>>

(* Mutant: what the digest saw of the partial file is not forgotten.       *)
RestartKeepingDigest == have' = 0 /\ UNCHANGED digest

(* 200 to a request with a range: have = 0 and digest.reset().             *)
Restart == have' = 0 /\ digest' = Empty

(* A body follows, after 200 from the start of the asset, after 206 with   *)
(* the range asked for from there.                                         *)
AnswerBody ==
    /\ pc = "response"
    /\ \E append \in BOOLEAN :
        /\ append => have > 0
        /\ IF append THEN UNCHANGED <<have, digest>> ELSE Restart
        /\ declared' \in -1 .. Size - have' + 1
        /\ FaultIf(declared' \notin {-1, Size - have'})
        /\ received' = 0
        /\ IF declared' > Size - have'
             THEN Abort(Discarded)
             ELSE /\ part' = IF append THEN part ELSE [part EXCEPT ![asset] = Empty]
                  /\ pc' = "body"
                  /\ UNCHANGED <<complete, manifest>>
    /\ UNCHANGED <<installvars, callvars>>

(* One chunk arrives, good or not; more than is missing is refused.        *)
Receive ==
    /\ pc = "body"
    /\ declared = -1 \/ received < declared
    /\ \E good \in BOOLEAN :
        /\ FaultIf(~good \/ have + received = Size)
        /\ IF have + received = Size
             THEN /\ Abort(Discarded)
                  /\ UNCHANGED <<received, digest>>
             ELSE /\ received' = received + 1
                  /\ digest' = Grown(digest, have + received, good)
                  /\ part' = [part EXCEPT ![asset] = Grown(@, have + received, good)]
                  /\ UNCHANGED <<pc, complete, manifest>>
    /\ UNCHANGED <<installvars, callvars, have, declared>>

(* Mutant: only the length of what arrived is verified.                    *)
VerifiedByLength == have + received = Size

Verified == have + received = Size /\ digest = Whole

(* The stream ends.  Too early for what was declared is worth a retry, a   *)
(* body that does not verify is not, and its file must go; the good file   *)
(* gets its name.                                                          *)
EndBody ==
    /\ pc = "body"
    /\ FaultIf(have + received # Size /\ received # declared)
    /\ IF declared >= 0 /\ received < declared
         THEN /\ pc' = "failed"
              /\ UNCHANGED <<tempvars, asset>>
         ELSE IF Verified
         THEN /\ complete' = [complete EXCEPT ![asset] =
                                IF part[asset] = Whole THEN "good" ELSE "bad"]
              /\ part' = Discarded
              /\ asset' = asset + 1
              /\ pc' = "fetch"
              /\ UNCHANGED manifest
         ELSE /\ Abort(Discarded)
              /\ UNCHANGED asset
    /\ UNCHANGED <<installvars, resume, attempt, requests, bodyvars>>

(* The connection breaks, whatever has arrived.                            *)
BreakBody ==
    /\ pc = "body"
    /\ Fault
    /\ pc' = "failed"
    /\ UNCHANGED <<tempvars, installvars, callvars, bodyvars>>

-----------------------------------------------------------------------------
(* Publication.                                                            *)

(* The layout is checked, then the manifest is written.                    *)
Stage ==
    /\ pc = "stage"
    /\ manifest' = "good"
    /\ pc' = "publish"
    /\ UNCHANGED <<faults, complete, part, installvars, callvars, bodyvars>>

(* Mutant: the model's own name is taken in any case.                      *)
OwnName == {0}

(* The model's own name if it is free, else a name nobody uses.            *)
FreeName == IF copies[0] = "none" THEN {0} ELSE {n \in Names \ {0} : copies[n] = "none"}

Choose ==
    /\ pc = "publish"
    /\ target' \in FreeName
    /\ pc' = "rename"
    /\ UNCHANGED <<faults, copies, ours, returned, tempvars, callvars, bodyvars>>

Staged ==
    /\ manifest = "good"
    /\ \A a \in 1 .. Assets : complete[a] = "good"

(* A rename does not go over a directory that holds files.                 *)
Renames == copies[target] = "none"

(* The rename, which fails if another process has taken the name meanwhile.*)
Publish ==
    /\ pc = "rename"
    /\ IF Renames
         THEN /\ copies' = [copies EXCEPT ![target] = IF Staged THEN "whole" ELSE "broken"]
              /\ ours' = ours \cup {target}
              /\ returned' = target
              /\ NoTemp
              /\ pc' = "idle"
         ELSE /\ Abort(part)
              /\ UNCHANGED <<copies, ours, returned>>
    /\ UNCHANGED <<faults, target, callvars, bodyvars>>

-----------------------------------------------------------------------------
(* The world around the calls.                                             *)

(* The process dies, or the device loses power.  A partial file is synced  *)
(* only when its body has ended: after a power cut it may be shorter, or   *)
(* hold other bytes.  So may the manifest while it is being written.       *)
Remnants(bytes) == {b \in Bytes : 0 <= b.len /\ b.len <= bytes.len /\ (b.ok => bytes.ok)}

Crash ==
    /\ Fault
    /\ \/ UNCHANGED part
       \/ \E a \in {b \in 1 .. Assets : part[b].len > 0} :
            \E bytes \in Remnants(part[a]) : part' = [part EXCEPT ![a] = bytes]
    /\ manifest' \in {manifest} \cup (IF pc = "stage" THEN {"torn"} ELSE {})
    /\ pc' = "idle"
    /\ returned' = Lost
    /\ UNCHANGED <<complete, copies, ours, target, callvars, bodyvars>>

(* Files are damaged between calls.                                        *)
Damage ==
    /\ pc = "idle"
    /\ Fault
    /\ \/ /\ \E n \in Names :
              /\ copies[n] = "whole"
              /\ copies' = [copies EXCEPT ![n] = "damaged"]
          /\ UNCHANGED complete
       \/ /\ \E a \in 1 .. Assets :
              /\ complete[a] = "good"
              /\ complete' = [complete EXCEPT ![a] = "bad"]
          /\ UNCHANGED copies
    /\ UNCHANGED <<part, manifest, ours, target, returned, pc, callvars, bodyvars>>

(* delete() and cleanup() of ModelManager, under the same lock as a call.  *)
Remove ==
    /\ pc = "idle"
    /\ Fault
    /\ \/ /\ \E n \in Names :
              /\ copies[n] # "none"
              /\ copies' = [copies EXCEPT ![n] = "none"]
              /\ ours' = ours \ {n}
          /\ UNCHANGED tempvars
       \/ /\ NoTemp
          /\ UNCHANGED <<copies, ours>>
    /\ UNCHANGED <<target, returned, pc, callvars, bodyvars>>

(* Another process publishes the model under its own name.                 *)
OtherPublishes ==
    /\ copies[0] = "none"
    /\ Fault
    /\ copies' = [copies EXCEPT ![0] = "whole"]
    /\ UNCHANGED <<tempvars, ours, target, returned, pc, callvars, bodyvars>>

(* One step of download().                                                 *)
Step ==
    \/ Download
    \/ Fetch
    \/ Request
    \/ Retry
    \/ AnswerTransient
    \/ AnswerFatal
    \/ AnswerRejected
    \/ AnswerBody
    \/ Receive
    \/ EndBody
    \/ BreakBody
    \/ Stage
    \/ Choose
    \/ Publish

Next ==
    \/ Step
    \/ Interrupt
    \/ Crash
    \/ Damage
    \/ Remove
    \/ OtherPublishes

(* The host calls again as long as it has no model, and the thread of a    *)
(* call runs.                                                              *)
Spec == Init /\ [][Next]_vars /\ WF_vars(Step)

-----------------------------------------------------------------------------
(* Properties.                                                             *)

TempOK ==
    /\ complete \in [1 .. Assets -> {"none", "good", "bad"}]
    /\ part \in [1 .. Assets -> Bytes]
    /\ manifest \in {"none", "torn", "good"}

InstallOK ==
    /\ copies \in [Names -> {"none", "whole", "broken", "damaged"}]
    /\ ours \in SUBSET Names
    /\ target \in Names
    /\ returned \in Names \cup {Nowhere, Lost}

CallOK ==
    /\ resume \in BOOLEAN
    /\ asset \in 1 .. Assets + 1
    /\ attempt \in 0 .. MaxRetries + 1
    /\ requests \in Nat

BodyOK ==
    /\ have \in 0 .. Size
    /\ received \in 0 .. Size
    /\ declared \in -1 .. Size + 1
    /\ digest \in Bytes

(* The state of a download is well formed; an attempt is one of those the  *)
(* policy allows (ModelDownloader.kt:251).                                 *)
TypeOK ==
    /\ faults \in 0 .. MaxFaults
    /\ pc \in {"idle", "fetch", "request", "response", "body", "failed", "stage", "publish",
              "rename"}
    /\ TempOK
    /\ InstallOK
    /\ CallOK
    /\ BodyOK

(* What is published is complete: every asset verified, through resumed    *)
(* transfers, crashes and ignored ranges, and a manifest that was written  *)
(* whole (ModelDownloader.kt:146, ModelManifest.kt:29).                    *)
PublishedWhole == \A n \in Names : copies[n] # "broken"

(* "what makes the final digest cover the file on disk rather than only    *)
(* this attempt's bytes" (ModelDownloader.kt:367): during a transfer the   *)
(* digest has seen exactly what the partial file holds.                    *)
DigestCoversFile == pc = "body" => digest = part[asset]

(* "one fresh request from zero within the same attempt, which cannot      *)
(* recurse" (ModelDownloader.kt:270): an asset costs a call at most two    *)
(* requests per attempt.                                                   *)
RequestsBounded == requests <= 2 * (MaxRetries + 1)

(* A directory that download() returns has just been verified.             *)
ReturnsWhole ==
    [][(returned' # returned /\ returned' \in Names) => copies'[returned'] = "whole"]_vars

(* A call that fails or is cancelled, at whatever point, under the resume  *)
(* policy keeps every finished asset for the next (ModelDownloader.kt:107),*)
(* and without the policy leaves nothing behind.                           *)
FailureKeepsOrRemoves ==
    [][(pc # "idle" /\ pc' = "idle" /\ returned' = Nowhere) =>
          IF resume
            THEN \A a \in 1 .. Assets : complete[a] = "good" => complete'[a] = "good"
            ELSE /\ \A a \in 1 .. Assets : complete'[a] = "none" /\ part'[a] = NoFile
                 /\ manifest' = "none"]_vars

(* "A published directory that fails verification is left alone and the    *)
(* model is downloaded beside it" (ModelDownloader.kt:104); that copy is   *)
(* found again, so repeated calls do not add copies.                       *)
OneWholeCopy == \A m, n \in ours : copies[m] = "whole" /\ copies[n] = "whole" => m = n

(* Publication never replaces a directory, also one that another process   *)
(* published meanwhile (ModelDownloader.kt:149).                           *)
NothingReplaced ==
    [][pc = "rename" => \A n \in Names :
          copies[n] # "none" => copies'[n] = copies[n] /\ (n \in ours' <=> n \in ours)]_vars

(* Once faults stop, a host that calls again gets its model, from whatever *)
(* state the temporary directory was left in.                              *)
EventuallyPublished == <>[](\E n \in Names : copies[n] = "whole")

(* What others see of a download: a whole directory appears under a name   *)
(* that was free, and nothing that was there is touched                    *)
(* (ModelDownloader.kt:146, ModelDownloader.kt:149).                       *)
Root == INSTANCE ModelRoot WITH
    state <- [n \in Names |-> CASE copies[n] = "none" -> "absent"
                                 [] copies[n] = "damaged" -> "bad"
                                 [] OTHER -> copies[n]],
    inUse <- {}

ImplementsRoot == Root!Spec
=============================================================================
