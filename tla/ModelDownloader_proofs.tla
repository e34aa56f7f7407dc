----------------------- MODULE ModelDownloader_proofs -----------------------
(***************************************************************************)
(* Theorems about ModelDownloader, for any number of assets, chunks,       *)
(* retries and faults.                                                     *)
(*                                                                         *)
(* The argument: what lies before the asset a call is at is finished and   *)
(* good (Progress), and the digest of the transfer in progress has seen    *)
(* what the partial file holds (Digested).  So a file that gets its name   *)
(* is good, and a directory that is published is whole.  A request sent    *)
(* back to zero asks for no range, so it is not sent back again (Counted). *)
(* A call that publishes found no whole directory (Copied).                *)
(***************************************************************************)
EXTENDS ModelDownloader, TLAPS

Transferring == pc \in {"request", "response", "body", "failed"}

(* A call is past the assets that are finished.                            *)
Progress ==
    /\ Transferring => asset <= Assets
    /\ pc # "idle" => \A a \in 1 .. Assets : a < asset => complete[a] = "good"
    /\ pc \in {"stage", "publish", "rename"} => asset = Assets + 1
    /\ pc \in {"publish", "rename"} => manifest = "good"

(* The digest has seen the partial file, unless it is about to be replaced.*)
Digested ==
    /\ pc = "response" => digest.len = have /\ (have > 0 => digest = part[asset])
    /\ pc = "body" => /\ digest = part[asset]
                      /\ digest.len = have + received
                      /\ have + received <= Size

(* Two requests for each attempt before this one, and one more if this     *)
(* attempt was sent back to zero.                                          *)
Counted ==
    /\ pc = "request" => \/ requests <= 2 * (attempt - 1)
                         \/ requests <= 2 * attempt - 1 /\ part[asset] = NoFile
    /\ pc = "response" => \/ requests <= 2 * attempt - 1
                          \/ requests <= 2 * attempt /\ have = 0
    /\ pc \in {"body", "failed"} => requests <= 2 * attempt

(* A call that transfers anything found no whole directory.                *)
Copied ==
    /\ \A n \in ours : copies[n] # "none"
    /\ pc # "idle" => \A n \in ours : copies[n] # "whole"

IInv ==
    /\ TypeOK
    /\ Progress
    /\ Digested
    /\ Counted
    /\ Copied
    /\ PublishedWhole
    /\ RequestsBounded
    /\ OneWholeCopy

(* What a step leaves alone keeps its type.                                *)
LEMMA Unchanged ==
    /\ UNCHANGED tempvars /\ TempOK => TempOK'
    /\ UNCHANGED installvars /\ InstallOK => InstallOK'
    /\ UNCHANGED callvars /\ CallOK => CallOK'
    /\ UNCHANGED bodyvars /\ BodyOK => BodyOK'
BY DEF tempvars, installvars, callvars, bodyvars, TempOK, InstallOK, CallOK, BodyOK

(* A fault or its absence leaves their number in bounds.                   *)
LEMMA FaultType ==
    ASSUME faults \in 0 .. MaxFaults, Fault \/ NoFault
    PROVE  faults' \in 0 .. MaxFaults
BY DownloaderAssumption DEF Fault, NoFault

(* The empty temporary directory is well formed.                           *)
LEMMA NoTempType == NoTemp => TempOK'
BY DownloaderAssumption DEF NoTemp, TempOK, Bytes, NoFile

(* So is what a failed call leaves.                                        *)
LEMMA AbortType ==
    ASSUME TypeOK, NEW parts \in [1 .. Assets -> Bytes], Abort(parts)
    PROVE  TempOK' /\ pc' = "idle"
<1>1. CASE resume
  BY <1>1 DEF Abort, TypeOK, TempOK
<1>2. CASE ~resume
  BY <1>2, NoTempType DEF Abort
<1>3. QED
  BY <1>1, <1>2

(* The two special values are byte states.                                 *)
LEMMA BytesType == Empty \in Bytes /\ NoFile \in Bytes
BY DownloaderAssumption DEF Empty, NoFile, Bytes

(* Partial files stay well formed when one is discarded or grows.          *)
LEMMA PartType ==
    ASSUME TempOK, NEW a \in 1 .. Assets
    PROVE  /\ part \in [1 .. Assets -> Bytes]
           /\ [part EXCEPT ![a] = NoFile] \in [1 .. Assets -> Bytes]
           /\ [part EXCEPT ![a] = Empty] \in [1 .. Assets -> Bytes]
BY DownloaderAssumption DEF TempOK, Bytes, NoFile, Empty

(* Types are preserved.                                                    *)
LEMMA TypeStep == TypeOK /\ Progress /\ Digested /\ [Next]_vars => TypeOK'
<1> SUFFICES ASSUME TypeOK, Progress, Digested, [Next]_vars PROVE TypeOK'
  OBVIOUS
<1> USE DownloaderAssumption, Unchanged
<1> /\ faults \in 0 .. MaxFaults
    /\ TempOK /\ InstallOK /\ CallOK /\ BodyOK
  BY DEF TypeOK
<1>0. Transferring => asset \in 1 .. Assets
  BY DEF Progress, CallOK
<1>1. CASE Download
  <2>1. returned' \in Names \cup {Nowhere, Lost} /\ pc' \in {pc, "fetch"}
    BY <1>1 DEF Download
  <2>2. InstallOK'
    BY <1>1, <2>1 DEF Download, InstallOK
  <2>3. CallOK'
    BY <1>1 DEF Download, CallOK
  <2>4. QED
    BY <1>1, <2>1, <2>2, <2>3 DEF Download, TypeOK
<1>2. CASE Fetch
  <2>1. CASE asset > Assets
    BY <1>2, <2>1 DEF Fetch, TypeOK, TempOK, CallOK
  <2>2. CASE asset <= Assets
    <3>1. asset \in 1 .. Assets /\ asset + 1 \in 1 .. Assets + 1
      BY <2>2 DEF CallOK
    <3>2. TempOK'
      BY <3>1, <2>2, <1>2, PartType DEF Fetch, TempOK
    <3>3. CallOK' /\ pc' \in {"fetch", "request"}
      BY <3>1, <2>2, <1>2 DEF Fetch, CallOK
    <3>4. QED
      BY <3>2, <3>3, <1>2 DEF Fetch, TypeOK
  <2>3. QED
    BY <2>1, <2>2 DEF CallOK
<1>3. CASE Request
  <2>1. asset \in 1 .. Assets
    BY <1>0, <1>3 DEF Request, Transferring
  <2>2. TempOK'
    BY <2>1, <1>3, PartType DEF Request, TempOK
  <2>3. part[asset] \in Bytes
    BY <2>1 DEF TempOK
  <2>4. have' \in 0 .. Size /\ digest' \in Bytes
    <3>1. CASE Usable(part[asset])
      <4>1. part[asset].len \in 0 .. Size
        BY <2>3, <3>1 DEF Usable, Bytes
      <4>2. have' = part[asset].len /\ digest' = part[asset]
        BY <3>1, <1>3 DEF Request
      <4>3. QED
        BY <2>3, <4>1, <4>2
    <3>2. CASE ~Usable(part[asset])
      BY <3>2, <1>3, BytesType DEF Request
    <3>3. QED
      BY <3>1, <3>2
  <2>5. CallOK' /\ BodyOK'
    BY <2>4, <1>3 DEF Request, CallOK, BodyOK
  <2>6. QED
    BY <1>3, <2>2, <2>5 DEF Request, TypeOK
<1>4. CASE Retry
  <2>1. TempOK' /\ CallOK' /\ pc' \in {"idle", "request"}
    BY <1>4, AbortType DEF Retry, NoAttemptLeft, CallOK, TempOK
  <2>2. QED
    BY <1>4, <2>1 DEF Retry, TypeOK
<1>5. CASE AnswerTransient
  BY <1>5, FaultType DEF AnswerTransient, TypeOK
<1>6. CASE AnswerFatal
  BY <1>6, FaultType, AbortType DEF AnswerFatal, TypeOK, TempOK
<1>7. CASE AnswerRejected
  <2>1. asset \in 1 .. Assets
    BY <1>0, <1>7 DEF AnswerRejected, Transferring
  <2>2. TempOK'
    BY <2>1, <1>7, PartType DEF AnswerRejected, Discarded, TempOK
  <2>3. QED
    BY <1>7, <2>2, FaultType DEF AnswerRejected, TypeOK
<1>8. CASE AnswerBody
  <2>1. asset \in 1 .. Assets
    BY <1>0, <1>8 DEF AnswerBody, Transferring
  <2>2. faults' \in 0 .. MaxFaults
    BY <1>8, FaultType DEF AnswerBody, FaultIf
  <2>3. TempOK' /\ pc' \in {"idle", "body"}
    BY <2>1, <1>8, PartType, AbortType DEF AnswerBody, Discarded, TempOK
  <2>4. have' \in 0 .. Size /\ digest' \in Bytes /\ received' = 0 /\ declared' \in -1 .. Size - have' + 1
    <3>1. \/ have' = have /\ digest' = digest
          \/ have' = 0 /\ digest' = Empty
      BY <1>8 DEF AnswerBody, Restart
    <3>2. received' = 0 /\ declared' \in -1 .. Size - have' + 1
      BY <1>8 DEF AnswerBody
    <3>3. have' \in 0 .. Size /\ digest' \in Bytes
      BY <3>1, BytesType DEF BodyOK
    <3>4. QED
      BY <3>2, <3>3
  <2>5. BodyOK'
    <3>1. ASSUME NEW h \in 0 .. Size PROVE -1 .. Size - h + 1 \subseteq -1 .. Size + 1
      OBVIOUS
    <3>2. declared' \in -1 .. Size + 1
      BY <2>4, <3>1
    <3>3. received' \in 0 .. Size
      BY <2>4
    <3>4. QED
      BY <2>4, <3>2, <3>3 DEF BodyOK
  <2>6. QED
    BY <1>8, <2>2, <2>3, <2>5 DEF AnswerBody, TypeOK
<1>9. CASE Receive
  <2>1. asset \in 1 .. Assets
    BY <1>0, <1>9 DEF Receive, Transferring
  <2>2. PICK good \in BOOLEAN :
          /\ FaultIf(~good \/ have + received = Size)
          /\ IF have + received = Size
               THEN /\ Abort(Discarded)
                    /\ UNCHANGED <<received, digest>>
               ELSE /\ received' = received + 1
                    /\ digest' = Grown(digest, have + received, good)
                    /\ part' = [part EXCEPT ![asset] = Grown(@, have + received, good)]
                    /\ UNCHANGED <<pc, complete, manifest>>
    BY <1>9 DEF Receive
  <2>3. faults' \in 0 .. MaxFaults /\ InstallOK' /\ CallOK' /\ have' = have /\ declared' = declared
    BY <2>2, <1>9, FaultType DEF FaultIf, Receive
  <2>4. CASE have + received = Size
    <3>1. TempOK' /\ pc' = "idle" /\ BodyOK'
      BY <2>1, <2>2, <2>3, <2>4, PartType, AbortType DEF Discarded, BodyOK
    <3>2. QED
      BY <2>3, <3>1 DEF TypeOK
  <2>5. CASE have + received # Size
    <3>1. pc = "body" /\ digest = part[asset] /\ digest.len = have + received /\ have + received <= Size
      BY <1>9 DEF Receive, Digested
    <3>2. Grown(part[asset], have + received, good) \in Bytes
      BY <3>1, <2>5 DEF Grown, BodyOK, Bytes
    <3>3. TempOK'
      BY <3>2, <2>1, <2>2, <2>5 DEF TempOK
    <3>4. BodyOK'
      BY <3>1, <3>2, <2>2, <2>3, <2>5 DEF BodyOK
    <3>5. QED
      BY <2>2, <2>3, <2>5, <3>3, <3>4 DEF TypeOK
  <2>6. QED
    BY <2>4, <2>5
<1>10. CASE EndBody
  <2>1. asset \in 1 .. Assets
    BY <1>0, <1>10 DEF EndBody, Transferring
  <2>2. faults' \in 0 .. MaxFaults
    BY <1>10, FaultType DEF EndBody, FaultIf
  <2>3. TempOK' /\ CallOK' /\ pc' \in {"failed", "fetch", "idle"}
    <3>1. CASE declared >= 0 /\ received < declared
      BY <1>10, <3>1 DEF EndBody, CallOK
    <3>2. CASE ~(declared >= 0 /\ received < declared) /\ Verified
      BY <1>10, <2>1, <3>2, PartType DEF EndBody, Discarded, TempOK, CallOK
    <3>3. CASE ~(declared >= 0 /\ received < declared) /\ ~Verified
      BY <1>10, <2>1, <3>3, PartType, AbortType DEF EndBody, Discarded, CallOK
    <3>4. QED
      BY <3>1, <3>2, <3>3
  <2>4. QED
    BY <1>10, <2>2, <2>3 DEF EndBody, TypeOK
<1>11. CASE BreakBody
  BY <1>11, FaultType DEF BreakBody, TypeOK
<1>12. CASE Stage
  <2>1. TempOK'
    BY <1>12 DEF Stage, TempOK
  <2>2. QED
    BY <1>12, <2>1 DEF Stage, TypeOK
<1>13. CASE Publish
  <2>1. CASE Renames
    <3>1. InstallOK'
      BY <1>13, <2>1 DEF Publish, InstallOK
    <3>2. QED
      BY <1>13, <2>1, <3>1, NoTempType DEF Publish, TypeOK
  <2>2. CASE ~Renames
    <3>1. InstallOK'
      BY <1>13, <2>2 DEF Publish, InstallOK
    <3>2. TempOK' /\ pc' = "idle"
      BY <1>13, <2>2, PartType, AbortType DEF Publish, TempOK
    <3>3. QED
      BY <1>13, <3>1, <3>2 DEF Publish, TypeOK
  <2>3. QED
    BY <2>1, <2>2
<1>14. CASE Interrupt
  BY <1>14, FaultType, AbortType DEF Interrupt, TypeOK, TempOK
<1>15. CASE Crash
  <2>1. ASSUME NEW a \in 1 .. Assets, NEW bytes \in Remnants(part[a])
        PROVE  bytes \in Bytes
    BY <2>1 DEF Remnants
  <2>2. part' \in [1 .. Assets -> Bytes]
    <3>1. CASE UNCHANGED part
      BY <3>1 DEF TempOK
    <3>2. CASE \E a \in 1 .. Assets : \E bytes \in Remnants(part[a]) : part' = [part EXCEPT ![a] = bytes]
      BY <3>2, <2>1 DEF TempOK
    <3>3. QED
      BY <1>15, <3>1, <3>2 DEF Crash
  <2>3. TempOK'
    BY <1>15, <2>2 DEF Crash, TempOK
  <2>4. InstallOK'
    BY <1>15 DEF Crash, InstallOK
  <2>5. QED
    BY <1>15, <2>3, <2>4, FaultType DEF Crash, TypeOK
<1>16. CASE Damage
  <2>1. TempOK' /\ InstallOK'
    BY <1>16 DEF Damage, TempOK, InstallOK
  <2>2. QED
    BY <1>16, <2>1, FaultType DEF Damage, TypeOK
<1>17. CASE Remove
  <2>1. InstallOK'
    BY <1>17 DEF Remove, InstallOK
  <2>2. TempOK'
    BY <1>17, NoTempType DEF Remove
  <2>3. QED
    BY <1>17, <2>1, <2>2, FaultType DEF Remove, TypeOK
<1>18. CASE OtherPublishes
  <2>1. InstallOK'
    BY <1>18 DEF OtherPublishes, InstallOK
  <2>2. QED
    BY <1>18, <2>1, FaultType DEF OtherPublishes, TypeOK
<1>19. CASE UNCHANGED vars
  BY <1>19 DEF vars, TypeOK
<1>20. CASE Choose
  <2>1. target' \in Names
    BY <1>20 DEF Choose, FreeName, Names
  <2>2. InstallOK'
    BY <1>20, <2>1 DEF Choose, InstallOK
  <2>3. QED
    BY <1>20, <2>2 DEF Choose, TypeOK
<1>21. QED
  BY <1>1, <1>2, <1>3, <1>4, <1>5, <1>6, <1>7, <1>8, <1>9, <1>10, <1>11, <1>12, <1>13,
     <1>14, <1>15, <1>16, <1>17, <1>18, <1>19, <1>20 DEF Next, Step

(* Between calls there is nothing to say about a transfer.                 *)
LEMMA IdleProgress == pc' = "idle" => Progress' /\ Digested'
BY DEF Progress, Transferring, Digested

(* Progress is preserved: a call moves on only past a finished asset.      *)
LEMMA ProgressStep == TypeOK /\ Progress /\ Digested /\ [Next]_vars => Progress'
<1> SUFFICES ASSUME TypeOK, Progress, Digested, [Next]_vars PROVE Progress'
  OBVIOUS
<1> USE DownloaderAssumption
<1> TempOK /\ CallOK
  BY DEF TypeOK
<1>0. UNCHANGED <<pc, asset, complete, manifest>> => Progress'
  BY DEF Progress, Transferring
<1>1. CASE Download
  <2>1. CASE pc' = "fetch"
    BY <1>1, <2>1 DEF Download, Progress, Transferring
  <2>2. CASE pc' = "idle"
    BY <2>2, IdleProgress
  <2>3. QED
    BY <1>1, <2>1, <2>2 DEF Download
<1>2. CASE Fetch
  <2>1. CASE asset > Assets
    BY <1>2, <2>1 DEF Fetch, Progress, Transferring, CallOK
  <2>2. CASE asset <= Assets /\ complete[asset] = "good"
    BY <1>2, <2>2 DEF Fetch, Progress, Transferring, CallOK
  <2>3. CASE asset <= Assets /\ complete[asset] # "good"
    BY <1>2, <2>3 DEF Fetch, Progress, Transferring, CallOK, TempOK
  <2>4. QED
    BY <2>1, <2>2, <2>3 DEF CallOK
<1>3. CASE Request
  BY <1>3 DEF Request, Progress, Transferring
<1>4. CASE Retry
  <2>1. CASE pc' = "idle"
    BY <2>1, IdleProgress
  <2>2. CASE pc' = "request" /\ UNCHANGED <<asset, complete, manifest>>
    BY <1>4, <2>2 DEF Retry, Progress, Transferring
  <2>3. QED
    BY <1>4, <2>1, <2>2 DEF Retry, Abort, tempvars
<1>5. CASE AnswerTransient
  BY <1>5 DEF AnswerTransient, Progress, Transferring, tempvars, callvars
<1>6. CASE AnswerFatal
  BY <1>6, IdleProgress DEF AnswerFatal, Abort
<1>7. CASE AnswerRejected
  BY <1>7 DEF AnswerRejected, Progress, Transferring, callvars
<1>8. CASE AnswerBody
  <2>1. CASE pc' = "idle"
    BY <2>1, IdleProgress
  <2>2. CASE pc' = "body" /\ UNCHANGED <<asset, complete, manifest>>
    BY <1>8, <2>2 DEF AnswerBody, Progress, Transferring
  <2>3. QED
    BY <1>8, <2>1, <2>2 DEF AnswerBody, Abort, callvars
<1>9. CASE Receive
  <2>1. CASE pc' = "idle"
    BY <2>1, IdleProgress
  <2>2. CASE UNCHANGED <<pc, asset, complete, manifest>>
    BY <2>2, <1>0
  <2>3. QED
    BY <1>9, <2>1, <2>2 DEF Receive, Abort, callvars
<1>10. CASE EndBody
  <2>1. CASE declared >= 0 /\ received < declared
    BY <1>10, <2>1 DEF EndBody, Progress, Transferring, tempvars
  <2>2. CASE ~(declared >= 0 /\ received < declared) /\ Verified
    <3>1. asset \in 1 .. Assets /\ digest = part[asset] /\ digest = Whole
      BY <1>10, <2>2 DEF EndBody, Verified, Digested, Progress, Transferring, CallOK
    <3>2. complete' = [complete EXCEPT ![asset] = "good"] /\ asset' = asset + 1 /\ pc' = "fetch"
      BY <1>10, <2>2, <3>1 DEF EndBody
    <3>3. \A a \in 1 .. Assets : a < asset' => complete'[a] = "good"
      BY <1>10, <3>1, <3>2 DEF EndBody, Progress, TempOK
    <3>4. QED
      BY <3>2, <3>3 DEF Progress, Transferring
  <2>3. CASE ~(declared >= 0 /\ received < declared) /\ ~Verified
    BY <1>10, <2>3, IdleProgress DEF EndBody, Abort
  <2>4. QED
    BY <2>1, <2>2, <2>3
<1>11. CASE BreakBody
  BY <1>11 DEF BreakBody, Progress, Transferring, tempvars, callvars
<1>12. CASE Stage
  BY <1>12 DEF Stage, Progress, Transferring, callvars
<1>13. CASE pc' = "idle"
  BY <1>13, IdleProgress
<1>14. CASE UNCHANGED <<pc, asset, complete, manifest>>
  BY <1>14, <1>0
<1>15. CASE Damage \/ Remove
  BY <1>15, IdleProgress DEF Damage, Remove
<1>16. CASE Choose
  BY <1>16 DEF Choose, Progress, Transferring, tempvars, callvars
<1>17. QED
  BY <1>1, <1>2, <1>3, <1>4, <1>5, <1>6, <1>7, <1>8, <1>9, <1>10, <1>11, <1>12, <1>13,
     <1>14, <1>15, <1>16 DEF Next, Step, Publish, Interrupt, Abort, Crash, OtherPublishes, tempvars,
     callvars, vars

(* Digested is preserved: file and digest grow by the same chunk.          *)
LEMMA DigestedStep == TypeOK /\ Progress /\ Digested /\ [Next]_vars => Digested'
<1> SUFFICES ASSUME TypeOK, Progress, Digested, [Next]_vars PROVE Digested'
  OBVIOUS
<1> USE DownloaderAssumption
<1> TempOK /\ CallOK /\ BodyOK
  BY DEF TypeOK
<1>0. Transferring => asset \in 1 .. Assets
  BY DEF Progress, CallOK
<1>1. CASE pc' \notin {"response", "body"}
  BY <1>1 DEF Digested
<1>2. CASE Request
  <2>1. asset \in 1 .. Assets /\ asset' = asset
    BY <1>0, <1>2 DEF Request, Transferring
  <2>2. CASE Usable(part[asset])
    BY <1>2, <2>1, <2>2 DEF Request, Digested
  <2>3. CASE ~Usable(part[asset])
    BY <1>2, <2>1, <2>3 DEF Request, Digested, Empty
  <2>4. QED
    BY <2>2, <2>3
<1>3. CASE AnswerBody /\ pc' = "body"
  <2>1. asset \in 1 .. Assets /\ asset' = asset
    BY <1>0, <1>3 DEF AnswerBody, Transferring, callvars
  <2>2. digest.len = have /\ (have > 0 => digest = part[asset]) /\ have <= Size
    BY <1>3 DEF AnswerBody, Digested, BodyOK
  <2>3. \/ have > 0 /\ have' = have /\ digest' = digest /\ part' = part /\ received' = 0
        \/ have' = 0 /\ digest' = Empty /\ part' = [part EXCEPT ![asset] = Empty] /\ received' = 0
    BY <1>3 DEF AnswerBody, Restart, Abort
  <2>4. digest' = part'[asset] /\ digest'.len = have' + received' /\ have' + received' <= Size
    <3>1. CASE have > 0 /\ have' = have /\ digest' = digest /\ part' = part /\ received' = 0
      BY <2>2, <3>1 DEF BodyOK
    <3>2. CASE have' = 0 /\ digest' = Empty /\ part' = [part EXCEPT ![asset] = Empty] /\ received' = 0
      BY <2>1, <3>2 DEF Empty, TempOK
    <3>3. QED
      BY <2>3, <3>1, <3>2
  <2>5. QED
    BY <1>3, <2>1, <2>4 DEF Digested
<1>4. CASE Receive /\ pc' = "body"
  <2>1. asset \in 1 .. Assets /\ asset' = asset /\ have' = have
    BY <1>0, <1>4 DEF Receive, Transferring, callvars
  <2>2. digest = part[asset] /\ digest.len = have + received /\ have + received <= Size
    BY <1>4 DEF Receive, Digested
  <2>3. PICK good \in BOOLEAN :
          /\ have + received # Size
          /\ received' = received + 1
          /\ digest' = Grown(digest, have + received, good)
          /\ part' = [part EXCEPT ![asset] = Grown(part[asset], have + received, good)]
    BY <1>4 DEF Receive, Abort
  <2>4. digest' = part'[asset]
    BY <2>1, <2>2, <2>3 DEF TempOK
  <2>5. digest'.len = have' + received' /\ have' + received' <= Size
    BY <2>1, <2>2, <2>3 DEF Grown, BodyOK
  <2>6. QED
    BY <1>4, <2>1, <2>4, <2>5 DEF Digested
<1>5. CASE UNCHANGED <<pc, asset, part, have, received, digest>>
  BY <1>5 DEF Digested
<1>6. Download \/ Fetch \/ Retry \/ AnswerTransient \/ AnswerFatal \/ AnswerRejected \/ EndBody
        => pc' \notin {"response", "body"}
  BY DEF Download, Fetch, Retry, AnswerTransient, AnswerFatal, AnswerRejected, EndBody, Abort
<1>7. BreakBody \/ Stage \/ Choose \/ Publish \/ Interrupt \/ Crash \/ Damage \/ Remove
        => pc' \notin {"response", "body"}
  BY DEF BreakBody, Stage, Choose, Publish, Interrupt, Crash, Damage, Remove, Abort
<1>8. AnswerBody \/ Receive => pc' \in {"idle", "body"}
  BY DEF AnswerBody, Receive, Abort
<1>9. OtherPublishes \/ UNCHANGED vars => UNCHANGED <<pc, asset, part, have, received, digest>>
  BY DEF OtherPublishes, vars, tempvars, callvars, bodyvars
<1>10. QED
  BY <1>1, <1>2, <1>3, <1>4, <1>5, <1>6, <1>7, <1>8, <1>9 DEF Next, Step

(* Counted is preserved: a request sent back to zero is the last of its    *)
(* attempt, because it asks for no range.                                  *)
LEMMA CountedStep ==
    TypeOK /\ Progress /\ Digested /\ Counted /\ RequestsBounded /\ [Next]_vars
      => Counted' /\ RequestsBounded'
<1> SUFFICES ASSUME TypeOK, Progress, Digested, Counted, RequestsBounded, [Next]_vars
             PROVE  Counted' /\ RequestsBounded'
  OBVIOUS
<1> USE DownloaderAssumption
<1> /\ TempOK /\ BodyOK
    /\ requests \in Nat /\ attempt \in 0 .. MaxRetries + 1
  BY DEF TypeOK, CallOK
<1>0. Transferring => asset \in 1 .. Assets
  BY DEF Progress, TypeOK, CallOK
<1>1. CASE ~Transferring' /\ requests' = requests
  BY <1>1 DEF Counted, RequestsBounded, Transferring
<1>2. CASE Fetch /\ pc' = "request"
  <2>1. requests' = 0 /\ attempt' = 1
    BY <1>2 DEF Fetch
  <2>2. QED
    BY <1>2, <2>1 DEF Counted, RequestsBounded
<1>3. CASE Request
  <2>1. asset \in 1 .. Assets /\ asset' = asset /\ attempt' = attempt
    BY <1>0, <1>3 DEF Request, Transferring
  <2>2. requests' = requests + 1 /\ pc' = "response" /\ pc = "request"
    BY <1>3 DEF Request
  <2>3. CASE requests <= 2 * (attempt - 1)
    BY <2>1, <2>2, <2>3 DEF Counted, RequestsBounded
  <2>4. CASE requests <= 2 * attempt - 1 /\ part[asset] = NoFile
    <3>1. have' = 0
      BY <1>3, <2>4 DEF Request, Usable, NoFile
    <3>2. QED
      BY <2>1, <2>2, <2>4, <3>1 DEF Counted, RequestsBounded
  <2>5. QED
    BY <2>2, <2>3, <2>4 DEF Counted
<1>4. CASE Retry /\ pc' = "request"
  <2>1. pc = "failed" /\ requests' = requests /\ attempt' = attempt + 1
    BY <1>4 DEF Retry, Abort
  <2>2. QED
    BY <1>4, <2>1 DEF Counted, RequestsBounded
<1>5. CASE AnswerRejected
  <2>1. asset \in 1 .. Assets /\ asset' = asset /\ attempt' = attempt /\ requests' = requests
    BY <1>0, <1>5 DEF AnswerRejected, Transferring, callvars
  <2>2. pc = "response" /\ have > 0 /\ pc' = "request" /\ part'[asset] = NoFile
    BY <1>5, <2>1 DEF AnswerRejected, Discarded, TempOK
  <2>3. QED
    BY <2>1, <2>2 DEF Counted, RequestsBounded, BodyOK
<1>6. CASE pc \in {"response", "body"} /\ pc' \in {"body", "failed"} /\ UNCHANGED <<attempt, requests>>
  BY <1>6 DEF Counted, RequestsBounded
<1>7. CASE UNCHANGED <<pc, attempt, requests, asset, part, have>>
  BY <1>7 DEF Counted, RequestsBounded
<1>8. /\ AnswerFatal => pc' = "idle" /\ requests' = requests
      /\ Retry => pc' \in {"idle", "request"} /\ requests' = requests
      /\ EndBody => pc' \in {"idle", "fetch", "failed"} /\ requests' = requests
      /\ Fetch => pc' = "request" \/ (pc' \in {"stage", "fetch"} /\ requests' = requests)
  <2>1. AnswerFatal => pc' = "idle" /\ requests' = requests
    BY DEF AnswerFatal, Abort, callvars
  <2>2. Retry => pc' \in {"idle", "request"} /\ requests' = requests
    BY DEF Retry, Abort
  <2>3. EndBody => pc' \in {"idle", "fetch", "failed"} /\ requests' = requests
    BY DEF EndBody, Abort
  <2>4. Fetch => pc' = "request" \/ (pc' \in {"stage", "fetch"} /\ requests' = requests)
    BY DEF Fetch
  <2>5. QED
    BY <2>1, <2>2, <2>3, <2>4
<1>9. Stage \/ Choose \/ Publish \/ Interrupt \/ Crash \/ Damage \/ Remove
        => ~Transferring' /\ requests' = requests
  BY DEF Stage, Choose, Publish, Interrupt, Crash, Damage, Remove, Abort, Transferring, callvars
<1>10. AnswerTransient \/ BreakBody
         => pc \in {"response", "body"} /\ pc' = "failed" /\ UNCHANGED <<attempt, requests>>
  BY DEF AnswerTransient, BreakBody, callvars
<1>11. AnswerBody \/ Receive
         => \/ ~Transferring' /\ requests' = requests
            \/ pc \in {"response", "body"} /\ pc' = "body" /\ UNCHANGED <<attempt, requests>>
  BY DEF AnswerBody, Receive, Abort, Transferring, callvars
<1>12. EndBody /\ pc' = "failed"
         => pc \in {"response", "body"} /\ UNCHANGED <<attempt, requests>>
  BY DEF EndBody, callvars
<1>13. pc' \in {"idle", "stage", "fetch"} => ~Transferring'
  BY DEF Transferring
<1>14. OtherPublishes \/ UNCHANGED vars => UNCHANGED <<pc, attempt, requests, asset, part, have>>
  BY DEF OtherPublishes, vars, tempvars, callvars, bodyvars
<1>15. Download => ~Transferring' /\ requests' = requests
  BY DEF Download, Transferring
<1>16. QED
  BY <1>1, <1>2, <1>3, <1>4, <1>5, <1>6, <1>7, <1>8, <1>9, <1>10, <1>11, <1>12, <1>13,
     <1>14, <1>15 DEF Next, Step

(* What is about to be published is all there.                             *)
LEMMA PublishStaged == Progress /\ pc = "rename" => Staged
BY DownloaderAssumption DEF Progress, Staged

(* What is published is whole, and a second copy appears only where the    *)
(* first is no longer whole.                                               *)
LEMMA CopiedStep == IInv /\ [Next]_vars => Copied' /\ PublishedWhole' /\ OneWholeCopy'
<1> SUFFICES ASSUME IInv, [Next]_vars PROVE Copied' /\ PublishedWhole' /\ OneWholeCopy'
  OBVIOUS
<1> USE DownloaderAssumption
<1> /\ copies \in [Names -> {"none", "whole", "broken", "damaged"}]
    /\ ours \in SUBSET Names
    /\ target \in Names
    /\ Progress /\ Copied /\ PublishedWhole /\ OneWholeCopy
  BY DEF IInv, TypeOK, InstallOK
<1>1. CASE UNCHANGED <<copies, ours>> /\ (pc' = "idle" \/ pc # "idle")
  BY <1>1 DEF Copied, PublishedWhole, OneWholeCopy
<1>2. CASE Download
  <2>1. UNCHANGED <<copies, ours>> /\ (pc' # "idle" => \A n \in Names : copies[n] # "whole")
    BY <1>2 DEF Download, Reusable
  <2>2. QED
    BY <2>1 DEF Copied, PublishedWhole, OneWholeCopy
<1>3. CASE Publish
  <2>1. Staged /\ pc # "idle" /\ pc' = "idle"
    BY <1>3, PublishStaged DEF Publish, Abort
  <2>2. CASE Renames
    <3>1. copies' = [copies EXCEPT ![target] = "whole"] /\ ours' = ours \cup {target}
      BY <1>3, <2>1, <2>2 DEF Publish
    <3>2. \A m \in Names : copies'[m] = IF m = target THEN "whole" ELSE copies[m]
      BY <3>1
    <3>3. QED
      BY <2>1, <3>1, <3>2 DEF Copied, PublishedWhole, OneWholeCopy
  <2>3. CASE ~Renames
    BY <1>3, <2>1, <2>3, <1>1 DEF Publish
  <2>4. QED
    BY <2>2, <2>3
<1>4. CASE Damage
  <2>1. \A m \in Names : copies'[m] = copies[m] \/ (copies[m] = "whole" /\ copies'[m] = "damaged")
    BY <1>4 DEF Damage
  <2>2. ours' = ours /\ pc' = "idle"
    BY <1>4 DEF Damage
  <2>3. QED
    BY <2>1, <2>2 DEF Copied, PublishedWhole, OneWholeCopy
<1>5. CASE Remove
  <2>1. pc' = "idle"
    BY <1>5 DEF Remove
  <2>2. CASE UNCHANGED <<copies, ours>>
    BY <2>1, <2>2, <1>1
  <2>3. CASE \E n \in Names : copies' = [copies EXCEPT ![n] = "none"] /\ ours' = ours \ {n}
    BY <2>1, <2>3 DEF Copied, PublishedWhole, OneWholeCopy
  <2>4. QED
    BY <1>5, <2>2, <2>3 DEF Remove
<1>6. CASE OtherPublishes
  <2>1. copies[0] = "none" /\ copies' = [copies EXCEPT ![0] = "whole"] /\ ours' = ours /\ pc' = pc
    BY <1>6 DEF OtherPublishes
  <2>2. 0 \notin ours
    BY <2>1 DEF Copied
  <2>3. QED
    BY <2>1, <2>2 DEF Copied, PublishedWhole, OneWholeCopy
<1>7. CASE UNCHANGED vars
  BY <1>7 DEF vars, installvars, Copied, PublishedWhole, OneWholeCopy
<1>8. Fetch \/ Request \/ Retry \/ AnswerTransient \/ AnswerFatal \/ AnswerRejected
        => UNCHANGED <<copies, ours>> /\ pc # "idle"
  BY DEF Fetch, Request, Retry, AnswerTransient, AnswerFatal, AnswerRejected, installvars
<1>9. AnswerBody \/ Receive \/ EndBody \/ BreakBody \/ Stage \/ Choose \/ Interrupt
        => UNCHANGED <<copies, ours>> /\ pc # "idle"
  BY DEF AnswerBody, Receive, EndBody, BreakBody, Stage, Choose, Interrupt, installvars
<1>10. Crash => UNCHANGED <<copies, ours>> /\ pc' = "idle"
  BY DEF Crash, installvars
<1>11. QED
  BY <1>1, <1>2, <1>3, <1>4, <1>5, <1>6, <1>7, <1>8, <1>9, <1>10 DEF Next, Step

(* The inductive invariant holds in every behaviour.                       *)
LEMMA Invariance == Spec => []IInv
<1>1. Init => IInv
  BY DownloaderAssumption DEF Init, IInv, TypeOK, TempOK, InstallOK, CallOK, BodyOK, Progress,
     Transferring, Digested, Counted, Copied, PublishedWhole, RequestsBounded, OneWholeCopy, Bytes,
     Empty, NoFile, Names, Nowhere, Lost
<1>2. IInv /\ [Next]_vars => IInv'
  BY TypeStep, ProgressStep, DigestedStep, CountedStep, CopiedStep DEF IInv
<1>3. QED
  BY <1>1, <1>2, PTL DEF Spec

(* The state of a download is well formed, and it makes no attempt beyond  *)
(* those of its policy.                                                    *)
THEOREM TypeCorrect == Spec => []TypeOK
BY Invariance, PTL DEF IInv

(* Nothing incomplete is published, whatever the server sends, whenever    *)
(* calls are cancelled, and wherever the process dies.                     *)
THEOREM PublishedAlwaysWhole == Spec => []PublishedWhole
BY Invariance, PTL DEF IInv

(* The digest describes the file that will get its name.                   *)
THEOREM DigestAlwaysCovers == Spec => []DigestCoversFile
<1>1. IInv => DigestCoversFile
  BY DEF IInv, Digested, DigestCoversFile
<1>2. QED
  BY <1>1, Invariance, PTL

(* No asset costs a call more than two requests per attempt.               *)
THEOREM RequestsAlwaysBounded == Spec => []RequestsBounded
BY Invariance, PTL DEF IInv

(* Repeated calls do not pile up copies.                                   *)
THEOREM AtMostOneWholeCopy == Spec => []OneWholeCopy
BY Invariance, PTL DEF IInv

(* What a call returns was verified, or published whole, by that call.     *)
THEOREM AlwaysReturnsWhole == Spec => ReturnsWhole
<1>1. ASSUME IInv, [Next]_vars
      PROVE  (returned' # returned /\ returned' \in Names) => copies'[returned'] = "whole"
  <2> USE <1>1
  <2>0. Nowhere \notin Names /\ Lost \notin Names
    BY DEF Names, Nowhere, Lost
  <2>1. CASE Download
    BY <2>0, <2>1 DEF Download, Reusable
  <2>2. CASE Publish
    <3>1. Staged
      BY <2>2, PublishStaged DEF IInv, Publish
    <3>2. CASE Renames
      <4>1. returned' = target /\ copies' = [copies EXCEPT ![target] = "whole"]
        BY <2>2, <3>1, <3>2 DEF Publish
      <4>2. target \in DOMAIN copies
        BY DEF IInv, TypeOK, InstallOK
      <4>3. QED
        BY <4>1, <4>2
    <3>3. CASE ~Renames
      BY <2>2, <3>3 DEF Publish
    <3>4. QED
      BY <3>2, <3>3
  <2>3. CASE UNCHANGED returned
    BY <2>3
  <2>4. Fetch \/ Request \/ Retry \/ AnswerTransient \/ AnswerFatal \/ AnswerRejected \/ AnswerBody
          => UNCHANGED returned
    BY DEF Fetch, Request, Retry, AnswerTransient, AnswerFatal, AnswerRejected, AnswerBody, installvars
  <2>5. (\/ Receive \/ EndBody \/ BreakBody \/ Stage \/ Choose \/ Interrupt
         \/ Damage \/ Remove \/ OtherPublishes)
          => UNCHANGED returned
    BY DEF Receive, EndBody, BreakBody, Stage, Choose, Interrupt, Damage, Remove,
       OtherPublishes, installvars
  <2>6. CASE Crash
    BY <2>0, <2>6 DEF Crash
  <2>7. QED
    BY <2>1, <2>2, <2>3, <2>4, <2>5, <2>6 DEF Next, Step, vars, installvars
<1>2. QED
  BY <1>1, Invariance, PTL DEF Spec, ReturnsWhole

(* Publication replaces nothing.                                           *)
THEOREM NeverReplaced == Spec => NothingReplaced
<1>1. ASSUME IInv, [Next]_vars
      PROVE  pc = "rename" => \A n \in Names :
               copies[n] # "none" => copies'[n] = copies[n] /\ (n \in ours' <=> n \in ours)
  <2> SUFFICES ASSUME pc = "rename", NEW n \in Names, copies[n] # "none"
               PROVE  copies'[n] = copies[n] /\ (n \in ours' <=> n \in ours)
    OBVIOUS
  <2> USE <1>1
  <2>1. CASE Publish
    <3>1. CASE Renames
      <4>1. copies' = [copies EXCEPT ![target] = IF Staged THEN "whole" ELSE "broken"]
            /\ ours' = ours \cup {target}
        BY <2>1, <3>1 DEF Publish
      <4>2. n # target
        BY <3>1 DEF Renames
      <4>3. QED
        BY <4>1, <4>2 DEF IInv, TypeOK, InstallOK
    <3>2. CASE ~Renames
      BY <2>1, <3>2 DEF Publish
    <3>3. QED
      BY <3>1, <3>2
  <2>2. CASE OtherPublishes
    BY <2>2 DEF OtherPublishes, IInv, TypeOK, InstallOK
  <2>3. CASE UNCHANGED <<copies, ours>>
    BY <2>3
  <2>4. (Interrupt \/ Crash \/ UNCHANGED vars) => UNCHANGED <<copies, ours>>
    BY DEF Interrupt, Crash, vars, installvars
  <2>5. QED
    BY <2>1, <2>2, <2>3, <2>4 DEF Next, Step, Download, Fetch, Request, Retry, AnswerTransient,
       AnswerFatal, AnswerRejected, AnswerBody, Receive, EndBody, BreakBody, Stage, Choose,
       Damage, Remove
<1>2. QED
  BY <1>1, Invariance, PTL DEF Spec, NothingReplaced

(* A failed call keeps the finished assets, or leaves nothing.             *)
THEOREM FailureAlwaysKeepsOrRemoves == Spec => FailureKeepsOrRemoves
<1>1. ASSUME IInv, [Next]_vars
      PROVE  (pc # "idle" /\ pc' = "idle" /\ returned' = Nowhere) =>
               IF resume
                 THEN \A a \in 1 .. Assets : complete[a] = "good" => complete'[a] = "good"
                 ELSE /\ \A a \in 1 .. Assets : complete'[a] = "none" /\ part'[a] = NoFile
                      /\ manifest' = "none"
  <2> SUFFICES ASSUME pc # "idle", pc' = "idle", returned' = Nowhere
               PROVE  Abort(part) \/ Abort(Discarded)
    BY DEF Abort, NoTemp
  <2> USE <1>1
  <2>1. Publish => Abort(part)
    BY DEF Publish, Renames, IInv, TypeOK, InstallOK, Names, Nowhere
  <2>2. (Retry \/ AnswerFatal \/ Interrupt) => Abort(part)
    BY DEF Retry, AnswerFatal, Interrupt
  <2>3. (AnswerBody \/ Receive \/ EndBody) => Abort(Discarded)
    BY DEF AnswerBody, Receive, EndBody
  <2>4. ~Crash
    BY DEF Crash, Nowhere, Lost
  <2>5. ~(Download \/ Fetch \/ Request \/ AnswerTransient \/ AnswerRejected \/ BreakBody \/ Stage \/ Choose)
    BY DEF Download, Fetch, Request, AnswerTransient, AnswerRejected, BreakBody, Stage, Choose
  <2>6. ~(Damage \/ Remove \/ OtherPublishes \/ UNCHANGED vars)
    BY DEF Damage, Remove, OtherPublishes, vars
  <2>7. QED
    BY <2>1, <2>2, <2>3, <2>4, <2>5, <2>6 DEF Next, Step
<1>2. QED
  BY <1>1, Invariance, PTL DEF Spec, FailureKeepsOrRemoves

-----------------------------------------------------------------------------
(* The contract of the model root.                                         *)

Seen == [n \in Names |-> CASE copies[n] = "none" -> "absent"
                           [] copies[n] = "damaged" -> "bad"
                           [] OTHER -> copies[n]]

(* What one directory becomes is what others see of it, and of no other.   *)
LEMMA SeenOne ==
  ASSUME TypeOK, NEW n \in Names, NEW c \in {"none", "whole", "damaged"},
         copies' = [copies EXCEPT ![n] = c]
  PROVE  /\ c = "none" => Seen' = [Seen EXCEPT ![n] = "absent"]
         /\ c = "whole" => Seen' = [Seen EXCEPT ![n] = "whole"]
         /\ c = "damaged" => Seen' = [Seen EXCEPT ![n] = "bad"]
<1>1. \A m \in Names : copies'[m] = IF m = n THEN c ELSE copies[m]
  BY DEF TypeOK, InstallOK
<1>2. /\ c = "none" => Seen'[n] = "absent"
      /\ c = "whole" => Seen'[n] = "whole"
      /\ c = "damaged" => Seen'[n] = "bad"
  BY <1>1 DEF Seen
<1>3. \A m \in Names \ {n} : Seen'[m] = Seen[m]
  BY <1>1 DEF Seen
<1>4. Seen = [m \in Names |-> Seen[m]] /\ Seen' = [m \in Names |-> Seen'[m]]
  BY DEF Seen
<1>5. \A x : Seen'[n] = x => Seen' = [Seen EXCEPT ![n] = x]
  BY <1>3, <1>4
<1>6. QED
  BY <1>2, <1>5

(* ModelDownloader implements ModelRoot: what appears is whole and appears *)
(* under a free name, and a download touches nothing else.                 *)
THEOREM KeepsTheContract == Spec => ImplementsRoot
<1>1. Init => Root!Init
  BY DEF Init, Root!Init
<1>2. ASSUME IInv, IInv', [Next]_vars
      PROVE  [Root!Next]_(Root!rvars)
  <2> USE <1>2 DEF IInv
  <2>1. ASSUME NEW n \in Names, copies[n] = "none", copies' = [copies EXCEPT ![n] = "whole"]
        PROVE  Root!Next
    <3>1. Seen[n] = "absent" /\ Seen' = [Seen EXCEPT ![n] = "whole"]
      BY <2>1, SeenOne DEF Seen
    <3>2. Root!Publish(n)
      BY <3>1 DEF Root!Publish, Root!Become, Seen
    <3>3. QED
      BY <3>2 DEF Root!Next
  <2>2. CASE Publish /\ Renames
    <3>1. target \in Names /\ copies[target] = "none"
          /\ copies' = [copies EXCEPT ![target] = IF Staged THEN "whole" ELSE "broken"]
      BY <2>2 DEF Publish, Renames, TypeOK, InstallOK
    <3>2. Staged
      BY <2>2, PublishStaged DEF Publish
    <3>3. PICK n \in Names : n = target
      BY <3>1
    <3>4. copies[n] = "none" /\ copies' = [copies EXCEPT ![n] = "whole"]
      BY <3>1, <3>2, <3>3
    <3>5. QED
      BY <2>1, <3>4
  <2>3. CASE OtherPublishes
    <3>1. 0 \in Names
      BY DownloaderAssumption DEF Names
    <3>2. QED
      BY <2>1, <2>3, <3>1 DEF OtherPublishes
  <2>4. ASSUME NEW n \in Names, copies[n] = "whole", copies' = [copies EXCEPT ![n] = "damaged"]
        PROVE  Root!Next
    <3>1. Seen[n] = "whole" /\ Seen' = [Seen EXCEPT ![n] = "bad"]
      BY <2>4, SeenOne DEF Seen
    <3>2. Root!Damage(n)
      BY <3>1 DEF Root!Damage, Root!Become, Seen
    <3>3. QED
      BY <3>2 DEF Root!Next
  <2>5. ASSUME NEW n \in Names, copies[n] # "none", copies' = [copies EXCEPT ![n] = "none"]
        PROVE  Root!Next
    <3>1. Seen[n] # "absent" /\ Seen' = [Seen EXCEPT ![n] = "absent"]
      BY <2>5, SeenOne DEF Seen, TypeOK, InstallOK
    <3>2. Root!Remove(n)
      BY <3>1 DEF Root!Remove, Root!Become, Seen
    <3>3. QED
      BY <3>2 DEF Root!Next
  <2>6. CASE copies' = copies
    BY <2>6 DEF Root!rvars
  <2>7. CASE Damage
    BY <2>4, <2>6, <2>7 DEF Damage
  <2>8. CASE Remove
    BY <2>5, <2>6, <2>8 DEF Remove
  <2>9. CASE Interrupt \/ Crash \/ UNCHANGED vars
    BY <2>6, <2>9 DEF Interrupt, Crash, vars, installvars
  <2>10. CASE Step
    BY <2>2, <2>6, <2>10 DEF Step, Download, Fetch, Request, Retry, AnswerTransient, AnswerFatal,
       AnswerRejected, AnswerBody, Receive, EndBody, BreakBody, Stage, Choose, Publish, installvars
  <2>11. QED
    BY <2>3, <2>7, <2>8, <2>9, <2>10 DEF Next
<1>3. QED
  BY <1>1, <1>2, Invariance, PTL DEF Spec, ImplementsRoot, Root!Spec
=============================================================================
