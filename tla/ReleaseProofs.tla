---------------------------- MODULE ReleaseProofs ----------------------------
(***************************************************************************)
(* Proofs about the checks between a built server and the calls it serves: *)
(* the report of Publication, for any number of runs of any contents under *)
(* one ref; the verdict of Activation, for every history the Registry may  *)
(* write; the promotion of EvaluationEvidence, for any bundle and altered  *)
(* reports; and the verdict of Reliability, for plans of any size.         *)
(***************************************************************************)
EXTENDS Publication, Activation, EvaluationEvidence, Reliability, FiniteSetTheorems, TLAPS

-----------------------------------------------------------------------------
(* Publication.                                                                *)
(*                                                                             *)
(* The report is true because each stage is entered with what the stages       *)
(* before it have established, and because the Registry never takes back a     *)
(* content: StageKnows says what a run that waits for a command knows, and     *)
(* AnswersTrue that an answer still holds when it is used, however late.       *)

Stages == {"idle", "status", "dry_apply", "apply", "pull", "verify", "official_validate",
           "official_publish", "done"}
Reports == {"manifest_invalid", "evidence_required", "artifact_digest_mismatch",
            "secret_material", "publisher_unavailable", "command_output_invalid",
            "immutable_version_conflict", "command_failed", "publication_outcome_unknown",
            "partial", "cancelled", "dry_run", "verified"}

PubTypes ==
  /\ stage \in [Jobs -> Stages]
  /\ report \in [Jobs -> Reports \cup {None}]
  /\ answer \in [Jobs -> {None, "created", "existing", "conflict"}]
  /\ pulled \in [Jobs -> Contents \cup {None}]
  /\ stored \in Contents \cup {None}
  /\ receipt \cup checked \cup outward \cup sent \cup localFault \subseteq Jobs

\* The Registry said created or existing: it holds the run's content.
AnswersTrue ==
  \A j \in Jobs : answer[j] \in {"created", "existing"} => stored = ContentOf[j]

\* What a run knows when it waits for a command.
StageKnows ==
  \A j \in Jobs :
    /\ stage[j] \in {"idle", "status", "dry_apply", "apply"} => j \notin receipt \cup checked
    /\ stage[j] \in {"status", "dry_apply"} => j \in DryRuns
    /\ stage[j] \in {"apply", "pull", "verify", "official_publish"} => j \notin DryRuns
    /\ stage[j] \in {"pull", "verify"} => j \in receipt \ checked
    /\ stage[j] = "verify" => pulled[j] = ContentOf[j]
    /\ stage[j] \in {"official_validate", "official_publish"} /\ j \notin DryRuns => j \in checked
    /\ stage[j] = "idle" => ~Wrote(j)
    /\ stage[j] # "done" => report[j] = None

\* What a run has done is backed by what came before it.
DeedsBacked ==
  \A j \in Jobs :
    /\ j \in receipt => answer[j] \in {"created", "existing"}
    /\ j \in checked => j \in receipt /\ pulled[j] = ContentOf[j]
    /\ j \in outward => j \in checked
    /\ report[j] \in {"verified", "partial"} => j \in checked
    /\ stage[j] = "done" /\ j \in receipt \ checked =>
         report[j] = "publication_outcome_unknown"
    /\ j \in DryRuns => j \notin receipt \cup checked /\ ~Wrote(j)
    /\ report[j] \in PrepareErrors /\ j \notin localFault => ~Wrote(j)
    /\ stage[j] = "done" /\ j \in checked \ localFault =>
         report[j] \in {"verified", "partial", "cancelled"}

PubInv == PubTypes /\ AnswersTrue /\ StageKnows /\ DeedsBacked

\* Nothing has been sent.
LEMMA InitPubInv == PubInit => PubInv
  <1> SUFFICES ASSUME PubInit PROVE PubInv
    OBVIOUS
  <1>2. PubTypes
    BY DEF PubInit, PubTypes, Stages
  <1>3. AnswersTrue /\ DeedsBacked
    BY PublicationAssumptions DEF PubInit, AnswersTrue, DeedsBacked, Wrote, Asked
  <1>4. StageKnows
    BY DEF PubInit, StageKnows, Wrote, Asked
  <1> QED  BY <1>2, <1>3, <1>4 DEF PubInv

\* A run ends without having done anything more, and reports an error.
LEMMA EndKeepsPubInv ==
  ASSUME PubInv, NEW j \in Jobs, NEW r \in Reports, Ends(j, r),
         UNCHANGED <<sent, answer, stored, receipt, pulled, checked, outward>>,
         r \in {"verified", "partial"} => j \in checked,
         j \in receipt \ checked => r = "publication_outcome_unknown",
         localFault' \in {localFault, localFault \cup {j}},
         r \in PrepareErrors /\ j \notin localFault' => ~Wrote(j),
         j \in checked \ localFault' => r \in {"verified", "partial", "cancelled"}
  PROVE  PubInv'
  <1>1. PubTypes'
    BY DEF PubInv, PubTypes, Ends, Stages
  <1>2. AnswersTrue'
    BY DEF PubInv, AnswersTrue
  <1>3. \A k \in Jobs : Wrote(k)' <=> Wrote(k)
    BY DEF Wrote, Asked
  <1>4. StageKnows'
    BY <1>3 DEF PubInv, PubTypes, StageKnows, Ends
  <1>5. DeedsBacked'
    BY <1>3 DEF PubInv, PubTypes, DeedsBacked, Ends
  <1> QED  BY <1>1, <1>2, <1>4, <1>5 DEF PubInv

\* A run goes on to its next command: it must know what that stage takes for
\* granted, and what it has just learned must be backed.
LEMMA StartKeepsPubInv ==
  ASSUME PubInv, NEW j \in Jobs, NEW s \in Stages \ {"idle", "done"}, Awaits(j, s),
         stage[j] # "done",
         UNCHANGED <<report, sent, answer, stored, outward, localFault>>,
         receipt' \in {receipt, receipt \cup {j}}, checked' \in {checked, checked \cup {j}},
         pulled' = pulled \/ (pulled' = [pulled EXCEPT ![j] = ContentOf[j]] /\ j \notin checked),
         s \in {"status", "dry_apply", "apply"} => j \notin receipt' \cup checked',
         s \in {"status", "dry_apply"} => j \in DryRuns,
         s \in {"apply", "pull", "verify", "official_publish"} => j \notin DryRuns,
         s \in {"pull", "verify"} => j \in receipt' \ checked',
         s = "verify" => pulled'[j] = ContentOf[j],
         s \in {"official_validate", "official_publish"} /\ j \notin DryRuns => j \in checked',
         j \in DryRuns => j \notin receipt' \cup checked',
         j \in receipt' => answer[j] \in {"created", "existing"},
         j \in checked' => j \in receipt' /\ pulled'[j] = ContentOf[j]
  PROVE  PubInv'
  <1>1. PubTypes'
    BY PublicationAssumptions DEF PubInv, PubTypes, Awaits, Stages
  <1>2. AnswersTrue'
    BY DEF PubInv, AnswersTrue
  <1>3. \A k \in Jobs : Wrote(k)' <=> Wrote(k)
    BY DEF Wrote, Asked
  <1>4. \A k \in Jobs \ {j} : /\ stage'[k] = stage[k] /\ pulled'[k] = pulled[k]
                              /\ (k \in receipt' <=> k \in receipt)
                              /\ (k \in checked' <=> k \in checked)
    BY DEF PubInv, PubTypes, Awaits
  <1>5. stage'[j] = s /\ report'[j] = None
    BY DEF PubInv, PubTypes, StageKnows, Awaits
  <1>6. StageKnows'
    BY <1>3, <1>4, <1>5 DEF PubInv, StageKnows
  <1>7. ASSUME NEW k \in Jobs, k # j
        PROVE  /\ k \in receipt' => answer'[k] \in {"created", "existing"}
               /\ k \in checked' => k \in receipt' /\ pulled'[k] = ContentOf[k]
               /\ k \in outward' => k \in checked'
               /\ report'[k] \in {"verified", "partial"} => k \in checked'
               /\ stage'[k] = "done" /\ k \in receipt' \ checked' =>
                    report'[k] = "publication_outcome_unknown"
               /\ k \in DryRuns => k \notin receipt' \cup checked' /\ ~Wrote(k)'
               /\ report'[k] \in PrepareErrors /\ k \notin localFault' => ~Wrote(k)'
               /\ stage'[k] = "done" /\ k \in checked' \ localFault' =>
                    report'[k] \in {"verified", "partial", "cancelled"}
    BY <1>3, <1>4, <1>7 DEF PubInv, DeedsBacked
  <1>8. /\ j \in outward' => j \in checked'
        /\ j \in DryRuns => ~Wrote(j)'
    BY <1>3 DEF PubInv, DeedsBacked
  <1>9. DeedsBacked'
    BY <1>5, <1>7, <1>8, PublicationAssumptions DEF DeedsBacked, PrepareErrors
  <1> QED  BY <1>1, <1>2, <1>6, <1>9 DEF PubInv

\* The process of a command that writes starts.
LEMMA LaunchKeepsPubInv ==
  ASSUME PubInv, NEW j \in Jobs, Launch(j)
  PROVE  PubInv'
  <1>1. /\ UNCHANGED <<stage, report, answer, stored, receipt, pulled, checked, localFault>>
        /\ j \notin DryRuns /\ report[j] = None /\ stage[j] \notin {"idle", "done"}
        /\ sent' \subseteq sent \cup {j} /\ sent \subseteq sent'
        /\ outward' \subseteq outward \cup {j} /\ outward \subseteq outward'
        /\ j \in outward' => j \in outward \/ stage[j] = "official_publish"
    BY DEF Launch, Writes, PubInv, StageKnows
  <1>2. \A k \in Jobs \ {j} : Wrote(k)' <=> Wrote(k)
    BY <1>1 DEF Wrote, Asked
  <1>3. PubTypes'
    BY <1>1 DEF PubInv, PubTypes
  <1>4. AnswersTrue'
    BY <1>1 DEF PubInv, AnswersTrue
  <1>5. StageKnows'
    BY <1>1, <1>2 DEF PubInv, StageKnows
  <1>6. j \in outward' => j \in checked
    BY <1>1 DEF PubInv, StageKnows, DeedsBacked
  <1>7. report'[j] \notin {"verified", "partial"} \cup PrepareErrors
    BY <1>1, PublicationAssumptions DEF PrepareErrors
  <1>8. ASSUME NEW k \in Jobs
        PROVE  /\ stage'[k] = stage[k] /\ report'[k] = report[k] /\ pulled'[k] = pulled[k]
               /\ answer'[k] = answer[k]
               /\ k # j => (k \in outward' <=> k \in outward) /\ (Wrote(k)' <=> Wrote(k))
    BY <1>1, <1>2
  <1>9. DeedsBacked'
    BY <1>1, <1>6, <1>7, <1>8 DEF PubInv, DeedsBacked
  <1> QED  BY <1>3, <1>4, <1>5, <1>9 DEF PubInv

\* The Registry handles an apply, also one whose run is over: the content of a
\* ref is never replaced, so what earlier answers said stays true.
LEMMA ApplyKeepsPubInv ==
  ASSUME PubInv, NEW j \in Jobs, RegistryApplies(j)
  PROVE  PubInv'
  <1>1. /\ j \in sent /\ sent' = sent \ {j} /\ j \notin DryRuns
        /\ stored' = IF stored = None THEN ContentOf[j] ELSE stored
        /\ UNCHANGED <<stage, report, receipt, pulled, checked, outward, localFault>>
    BY DEF RegistryApplies, PubInv, DeedsBacked, Wrote, Asked
  <1>2. PICK a \in {"created", "existing", "conflict"} :
          /\ answer' = [answer EXCEPT ![j] = a]
          /\ a \in {"created", "existing"} => stored' = ContentOf[j]
          /\ stored' = ContentOf[j] => a \in {"created", "existing"}
    BY DEF RegistryApplies
  <1>3. \A k \in Jobs : answer[k] \in {"created", "existing"} => stored' = stored
    BY <1>1, PublicationAssumptions DEF PubInv, AnswersTrue
  <1>4. PubTypes'
    BY <1>1, <1>2, PublicationAssumptions DEF PubInv, PubTypes
  <1>5. AnswersTrue'
    BY <1>2, <1>3 DEF PubInv, PubTypes, AnswersTrue
  <1>6. \A k \in Jobs : Wrote(k)' => Wrote(k)
    BY <1>1, <1>2 DEF Wrote, Asked, PubInv, PubTypes
  <1>7. StageKnows'
    BY <1>1, <1>6 DEF PubInv, StageKnows
  <1>8. DeedsBacked'
    <2>1. j \in receipt => stored' = ContentOf[j]
      BY <1>1, <1>3 DEF PubInv, DeedsBacked, AnswersTrue
    <2> QED  BY <1>1, <1>2, <1>6, <2>1 DEF PubInv, PubTypes, DeedsBacked
  <1> QED  BY <1>4, <1>5, <1>7, <1>8 DEF PubInv

\* Whatever a command prints, the report is an error of its own or one of the
\* two that say how far the run had come.
LEMMA FailureReports ==
  ASSUME NEW j \in Jobs, NEW s \in Stages \ {"idle", "done"},
         NEW how \in RunnerFailures \cup OutputFailures
  PROVE  /\ Failure(j, s, ErrorOf(how)) \in Reports \ (PrepareErrors \cup {"verified"})
         /\ Failure(j, s, ErrorOf(how)) = "partial" =>
              s \in {"official_validate", "official_publish"} /\ j \notin DryRuns
         /\ s \in {"pull", "verify"} =>
              Failure(j, s, ErrorOf(how)) = "publication_outcome_unknown"
         /\ s \in {"official_validate", "official_publish"} /\ j \notin DryRuns =>
              Failure(j, s, ErrorOf(how)) = "partial"
  <1>1. ErrorOf(how) \in Reports \ (PrepareErrors \cup {"verified", "partial"})
    BY DEF ErrorOf, RunnerError, OutputError, RunnerFailures, OutputFailures, Reports,
           PrepareErrors
  <1>2. CASE s \in {"pull", "verify"}
    BY <1>2 DEF Failure, Reports, PrepareErrors
  <1>3. CASE s \in {"official_validate", "official_publish"} /\ j \notin DryRuns
    BY <1>3 DEF Failure, Reports, PrepareErrors
  <1>4. CASE s \notin {"pull", "verify"} /\ ~(s \in {"official_validate", "official_publish"} /\ j \notin DryRuns)
    BY <1>1, <1>4 DEF Failure
  <1> QED  BY <1>2, <1>3, <1>4

\* A command that succeeds takes the run to its next stage.
LEMMA NextStage ==
  ASSUME NEW j \in Jobs, Proceeds(j)
  PROVE  /\ stage[j] = "status" => Awaits(j, "dry_apply") /\ UNCHANGED report
         /\ stage[j] = "apply" => Awaits(j, "pull") /\ UNCHANGED report
         /\ stage[j] = "pull" => Awaits(j, "verify") /\ UNCHANGED report
         /\ stage[j] \in {"dry_apply", "verify"} =>
              \/ j \in Officials /\ Awaits(j, "official_validate") /\ UNCHANGED report
              \/ Ends(j, Success(j))
         /\ stage[j] = "official_validate" =>
              \/ j \notin DryRuns /\ Awaits(j, "official_publish") /\ UNCHANGED report
              \/ j \in DryRuns /\ Ends(j, Success(j))
         /\ stage[j] = "official_publish" => Ends(j, Success(j))
  <1>1. ASSUME stage[j] = "status" PROVE Following(j, stage[j]) = "dry_apply"
    BY <1>1 DEF Following
  <1>2. ASSUME stage[j] = "apply" PROVE Following(j, stage[j]) = "pull"
    BY <1>2 DEF Following
  <1>3. ASSUME stage[j] = "pull" PROVE Following(j, stage[j]) = "verify"
    BY <1>3 DEF Following
  <1>4. ASSUME stage[j] \in {"dry_apply", "verify"}
        PROVE  Following(j, stage[j]) = IF j \in Officials THEN "official_validate" ELSE "done"
    BY <1>4 DEF Following
  <1>5. ASSUME stage[j] = "official_validate"
        PROVE  Following(j, stage[j]) = IF j \in DryRuns THEN "done" ELSE "official_publish"
    BY <1>5 DEF Following
  <1>6. ASSUME stage[j] = "official_publish" PROVE Following(j, stage[j]) = "done"
    BY <1>6 DEF Following
  <1> QED  BY <1>1, <1>2, <1>3, <1>4, <1>5, <1>6 DEF Proceeds

\* A run whose commands have all succeeded ends: what it reports is checked in
\* the step that ends it.
LEMMA SuccessKeepsPubInv ==
  ASSUME PubInv, NEW j \in Jobs, Ends(j, Success(j)),
         UNCHANGED <<sent, answer, stored, receipt, pulled, outward, localFault>>,
         checked' \in {checked, checked \cup {j}},
         j \notin DryRuns => j \in checked', j \in DryRuns => j \notin checked',
         j \in checked' => j \in receipt /\ pulled[j] = ContentOf[j]
  PROVE  PubInv'
  <1>1. /\ Success(j) \in Reports
        /\ Success(j) = IF j \in DryRuns THEN "dry_run" ELSE "verified"
    BY DEF Success, Reports
  <1>2. PubTypes'
    BY <1>1 DEF PubInv, PubTypes, Ends, Stages
  <1>3. AnswersTrue'
    BY DEF PubInv, AnswersTrue
  <1>4. \A k \in Jobs : Wrote(k)' <=> Wrote(k)
    BY DEF Wrote, Asked
  <1>5. StageKnows'
    BY <1>4 DEF PubInv, PubTypes, StageKnows, Ends
  <1>6. DeedsBacked'
    BY <1>1, <1>4 DEF PubInv, PubTypes, DeedsBacked, Ends, PrepareErrors
  <1> QED  BY <1>2, <1>3, <1>5, <1>6 DEF PubInv

\* Every step keeps the invariant.
LEMMA NextPubInv == PubInv /\ [PubNext]_pubVars => PubInv'
  <1> SUFFICES ASSUME PubInv, [PubNext]_pubVars PROVE PubInv'
    OBVIOUS
  <1>1. CASE UNCHANGED pubVars
    BY <1>1 DEF pubVars, PubInv, PubTypes, AnswersTrue, StageKnows, DeedsBacked, Wrote, Asked
  <1>2. ASSUME NEW j \in Jobs, PrepareFails(j)
        PROVE  PubInv'
    <2>1. stage[j] = "idle" /\ j \notin receipt \cup checked /\ ~Wrote(j)
      BY <1>2 DEF PrepareFails, PubInv, StageKnows
    <2>2. PICK e \in PrepareErrors : Ends(j, e)
      BY <1>2 DEF PrepareFails
    <2> QED  BY <1>2, <2>1, <2>2, EndKeepsPubInv DEF PrepareFails, Quiet, PrepareErrors, Reports
  <1>3. ASSUME NEW j \in Jobs, Prepare(j)
        PROVE  PubInv'
    <2>1. stage[j] = "idle" /\ j \notin receipt \cup checked
      BY <1>3 DEF Prepare, PubInv, StageKnows
    <2>2. CASE j \in DryRuns /\ Awaits(j, "status")
      BY <1>3, <2>1, <2>2, StartKeepsPubInv DEF Prepare, Quiet, Stages
    <2>3. CASE j \notin DryRuns /\ Awaits(j, "apply")
      BY <1>3, <2>1, <2>3, StartKeepsPubInv DEF Prepare, Quiet, Stages
    <2> QED  BY <1>3, <2>2, <2>3 DEF Prepare
  <1>4. ASSUME NEW j \in Jobs, CommandFails(j)
        PROVE  PubInv'
    <2>1. stage[j] \in Stages \ {"idle", "done"}
      BY <1>4 DEF CommandFails, PubInv, PubTypes
    <2>2. PICK how \in RunnerFailures \cup OutputFailures :
            Ends(j, Failure(j, stage[j], ErrorOf(how)))
      BY <1>4 DEF CommandFails
    <2> DEFINE r == Failure(j, stage[j], ErrorOf(how))
    <2>3. /\ r \in Reports \ PrepareErrors /\ r # "verified"
          /\ r = "partial" => stage[j] \in {"official_validate", "official_publish"} /\ j \notin DryRuns
          /\ stage[j] \in {"pull", "verify"} => r = "publication_outcome_unknown"
          /\ stage[j] \in {"official_validate", "official_publish"} /\ j \notin DryRuns => r = "partial"
      BY <2>1, FailureReports
    <2>4. Ends(j, r)
      BY <2>2
    <2> HIDE DEF r
    <2>5. r \in {"verified", "partial"} => j \in checked
      BY <2>3 DEF PubInv, StageKnows
    <2>6. j \in receipt \ checked => r = "publication_outcome_unknown"
      BY <2>1, <2>3 DEF PubInv, StageKnows, DeedsBacked, Stages
    <2>7. j \in checked => r = "partial"
      BY <2>1, <2>3 DEF PubInv, StageKnows, DeedsBacked, Stages
    <2> QED  BY <1>4, <2>3, <2>4, <2>5, <2>6, <2>7, EndKeepsPubInv DEF CommandFails, Quiet
  <1>5. ASSUME NEW j \in Jobs, Cancelled(j)
        PROVE  PubInv'
    <2>1. stage[j] \in Stages \ {"idle", "done"}
      BY <1>5 DEF Cancelled, PubInv, PubTypes
    <2>2. CASE stage[j] \in {"pull", "verify"} /\ Ends(j, "publication_outcome_unknown")
      <3>1. j \notin checked
        BY <2>2 DEF PubInv, StageKnows
      <3> QED  BY <1>5, <2>2, <3>1, EndKeepsPubInv DEF Cancelled, Quiet, Reports, PrepareErrors
    <2>3. CASE stage[j] \notin {"pull", "verify"} /\ Ends(j, "cancelled")
      <3>1. j \notin receipt \ checked
        BY <2>1, <2>3 DEF PubInv, StageKnows, DeedsBacked, Stages
      <3> QED  BY <1>5, <2>3, <3>1, EndKeepsPubInv DEF Cancelled, Quiet, Reports, PrepareErrors
    <2> QED  BY <1>5, <2>2, <2>3 DEF Cancelled
  <1>6. ASSUME NEW j \in Jobs, LocalFault(j)
        PROVE  PubInv'
    <2>1. stage[j] \in Stages \ {"idle", "done"}
      BY <1>6 DEF LocalFault, PubInv, PubTypes
    <2>2. PICK r \in Reports :
            /\ Ends(j, r) /\ r \notin {"verified", "partial"}
            /\ stage[j] \in {"pull", "verify"} => r = "publication_outcome_unknown"
      BY <1>6 DEF LocalFault, Reports
    <2>3. j \in receipt \ checked => r = "publication_outcome_unknown"
      BY <2>1, <2>2 DEF PubInv, StageKnows, DeedsBacked, Stages
    <2> QED  BY <1>6, <2>2, <2>3, EndKeepsPubInv DEF LocalFault
  <1>7. ASSUME NEW j \in Jobs, RemoteValidates(j)
        PROVE  PubInv'
    <2>1. /\ stage[j] \in {"status", "dry_apply"} /\ Proceeds(j)
          /\ j \notin receipt \cup checked
          /\ UNCHANGED <<sent, answer, stored, receipt, pulled, checked, outward, localFault>>
      BY <1>7 DEF RemoteValidates, Quiet, PubInv, StageKnows
    <2>2. j \in DryRuns
      BY <2>1 DEF PubInv, StageKnows
    <2>3. CASE \E s \in {"dry_apply", "official_validate"} : Awaits(j, s) /\ UNCHANGED report
      BY <2>1, <2>2, <2>3, StartKeepsPubInv DEF Stages
    <2>4. CASE Ends(j, Success(j))
      BY <2>1, <2>2, <2>4, SuccessKeepsPubInv
    <2> QED  BY <2>1, <2>3, <2>4, NextStage
  <1>8. ASSUME NEW j \in Jobs, CommandSucceeds(j)
        PROVE  PubInv'
    <2>1. /\ stage[j] \in {"verify", "official_validate", "official_publish"} /\ Proceeds(j)
          /\ checked' = IF stage[j] = "verify" THEN checked \cup {j} ELSE checked
          /\ UNCHANGED <<sent, answer, stored, receipt, pulled, outward, localFault>>
      BY <1>8 DEF CommandSucceeds
    <2>2. j \in checked' => j \in receipt /\ pulled[j] = ContentOf[j]
      BY <2>1 DEF PubInv, StageKnows, DeedsBacked
    <2>3. (j \notin DryRuns => j \in checked') /\ (j \in DryRuns => j \notin checked')
      BY <2>1 DEF PubInv, PubTypes, StageKnows, DeedsBacked
    <2>4. j \in receipt => answer[j] \in {"created", "existing"} /\ j \notin DryRuns
      BY DEF PubInv, DeedsBacked
    <2>5. CASE Ends(j, Success(j))
      BY <2>1, <2>2, <2>3, <2>5, SuccessKeepsPubInv
    <2>6. ASSUME NEW s \in {"official_validate", "official_publish"}, Awaits(j, s), UNCHANGED report,
                 s = "official_publish" => j \notin DryRuns
          PROVE  PubInv'
      BY <2>1, <2>2, <2>3, <2>4, <2>6, StartKeepsPubInv DEF Stages
    <2> QED  BY <2>1, <2>5, <2>6, NextStage
  <1>9. ASSUME NEW j \in Jobs, ApplySucceeds(j)
        PROVE  PubInv'
    <2>1. /\ stage[j] = "apply" /\ answer[j] \in {"created", "existing"}
          /\ receipt' = receipt \cup {j}
          /\ UNCHANGED <<sent, answer, stored, pulled, checked, outward, localFault>>
          /\ Awaits(j, "pull") /\ UNCHANGED report
      BY <1>9, NextStage DEF ApplySucceeds
    <2>2. j \notin checked /\ j \notin DryRuns
      BY <2>1 DEF PubInv, StageKnows
    <2> QED  BY <2>1, <2>2, StartKeepsPubInv DEF Stages
  <1>10. ASSUME NEW j \in Jobs, PullSucceeds(j)
         PROVE  PubInv'
    <2>1. /\ stage[j] = "pull" /\ j \in receipt \ checked /\ j \notin DryRuns
          /\ answer[j] \in {"created", "existing"}
          /\ UNCHANGED <<sent, answer, stored, receipt, checked, outward, localFault>>
      BY <1>10 DEF PullSucceeds, PubInv, StageKnows, DeedsBacked
    <2>2. CASE Proceeds(j) /\ pulled' = [pulled EXCEPT ![j] = ContentOf[j]]
      <3>1. Awaits(j, "verify") /\ UNCHANGED report
        BY <2>1, <2>2, NextStage
      <3>2. pulled'[j] = ContentOf[j]
        BY <2>2 DEF PubInv, PubTypes
      <3> QED  BY <2>1, <2>2, <3>1, <3>2, StartKeepsPubInv DEF Stages
    <2>3. CASE Ends(j, "publication_outcome_unknown") /\ UNCHANGED pulled
      BY <2>1, <2>3, EndKeepsPubInv DEF Reports, PrepareErrors
    <2> QED  BY <1>10, <2>2, <2>3 DEF PullSucceeds, Exact
  <1>11. ASSUME NEW j \in Jobs, NoReceipt(j)
         PROVE  PubInv'
    <2>1. stage[j] = "apply" /\ j \notin receipt \cup checked
      BY <1>11 DEF NoReceipt, PubInv, StageKnows
    <2> QED  BY <1>11, <2>1, EndKeepsPubInv DEF NoReceipt, Quiet, Reports, PrepareErrors
  <1> QED
    BY <1>1, <1>2, <1>3, <1>4, <1>5, <1>6, <1>7, <1>8, <1>9, <1>10, <1>11, ApplyKeepsPubInv,
       LaunchKeepsPubInv DEF PubNext

\* What a publisher run reports is true of the Registry, for any number of runs
\* of any contents, applies that commit after their run is over and local errors at any
\* stage: only a run that met such an error can report invalid inputs after a write.
THEOREM ReportsAreTrue == PubSpec => []ReportIsTrue
  <1>1. PubInv => ReportIsTrue
    BY PublicationAssumptions
    DEF PubInv, PubTypes, AnswersTrue, DeedsBacked, StageKnows, ReportIsTrue, Stages
  <1> QED  BY <1>1, InitPubInv, NextPubInv, PTL DEF PubSpec

-----------------------------------------------------------------------------
(* Activation.                                                                 *)
(*                                                                             *)
(* While a wait goes on, the generation it follows is that of the last status  *)
(* it has used; the log only grows, so what a verdict says of a status stays   *)
(* so.                                                                         *)

Statuses ==
  [gen : Nat, desired : {"draft", "published", "deprecated", "retired"},
   true : SUBSET Conditions, publishedAt : BOOLEAN, activeAt : BOOLEAN, exact : BOOLEAN]

ActTypes ==
  /\ log \in Seq(Statuses) /\ Len(log) >= 1
  /\ asked \in Nat \cup {None} /\ pin \in Nat \cup {None}
  /\ wait \in {"poll", "fetch", "sleep", "done"}
  /\ lastAt \in 0..Len(log)

\* The wait goes on with a status of the generation it follows.
FollowsPin == lastAt > 0 /\ wait # "done" => pin # None /\ log[lastAt].gen = pin

\* A wait that has ended is done, and a verdict names a status of the log.
EndingIsDone ==
  ending # None =>
    wait = "done" /\ (ending.how \in {"reached", "terminal"} => ending.at \in 1..Len(log))

ActInv == ActTypes /\ FollowsPin /\ EndingIsDone /\ VerdictIsCurrent

\* The first status is in the log and none has been read.
LEMMA InitActInv == ActInit => ActInv
  <1> SUFFICES ASSUME ActInit PROVE ActInv
    OBVIOUS
  <1>1. First \in Statuses
    BY DEF First, Statuses, Conditions, Readiness
  <1>2. log \in Seq(Statuses) /\ Len(log) = 1
    BY <1>1 DEF ActInit
  <1> QED
    BY <1>2, ActivationAssumptions
    DEF ActInit, ActInv, ActTypes, FollowsPin, EndingIsDone, VerdictIsCurrent

\* _reached, with the goal as an argument.
Reaches(g, ph) ==
  \/ ph = g
  \/ ph \in DOMAIN Rank /\ g \in DOMAIN Rank /\ Rank[ph] >= Rank[g]

\* The verdict in terms of the status it names.
VerdictOn(how, st, followed, g) ==
  st.gen = followed /\ st.exact /\ ((how = "reached") <=> Reaches(g, DerivedPhase(st)))

\* VerdictIsCurrent says that the status the wait ended with bears the verdict out.
LEMMA VerdictUnfolds ==
  /\ VerdictIsCurrent <=>
       (ending # None /\ ending.how \in {"reached", "terminal"} =>
          ending.at = lastAt /\ VerdictOn(ending.how, log[ending.at], pin, goal))
  /\ VerdictIsCurrent' <=>
       (ending' # None /\ ending'.how \in {"reached", "terminal"} =>
          ending'.at = lastAt' /\ VerdictOn(ending'.how, log'[ending'.at], pin', goal'))
  BY DEF VerdictIsCurrent, VerdictOn, ReachedGoal, Reaches

\* The Registry writes a status: the waiter's view of the earlier ones stays.
LEMMA WrittenKeepsActInv ==
  ASSUME ActInv, NEW st \in Statuses, Written(st)
  PROVE  ActInv'
  <1>1. /\ log' = Append(log, st) /\ log \in Seq(Statuses)
        /\ UNCHANGED <<goal, asked, pin, wait, late, lastAt, last, ending>>
    BY DEF Written, ActInv, ActTypes
  <1>2. /\ log' \in Seq(Statuses) /\ Len(log') = Len(log) + 1
        /\ \A i \in 1..Len(log) : log'[i] = log[i]
    BY <1>1
  <1>3. ActTypes'
    BY <1>1, <1>2 DEF ActInv, ActTypes
  <1>4. FollowsPin'
    BY <1>1, <1>2 DEF ActInv, ActTypes, FollowsPin
  <1>5. EndingIsDone'
    BY <1>1, <1>2 DEF ActInv, ActTypes, EndingIsDone
  <1>6. VerdictIsCurrent'
    <2>1. ending # None /\ ending.how \in {"reached", "terminal"} =>
            log'[ending.at] = log[ending.at]
      BY <1>2 DEF ActInv, EndingIsDone
    <2> QED  BY <1>1, <2>1, VerdictUnfolds DEF ActInv
  <1> QED  BY <1>3, <1>4, <1>5, <1>6 DEF ActInv

\* A step of the waiter that gives no verdict on a status.
LEMMA NoVerdictKeepsActInv ==
  ASSUME ActInv, UNCHANGED <<goal, asked, pin, log, lastAt>>,
         \/ UNCHANGED <<wait, ending>>
         \/ wait \in {"poll", "fetch", "sleep"} /\ wait' \in {"poll", "fetch", "sleep"} /\ UNCHANGED ending
         \/ wait' = "done" /\ \E how, at : /\ how \notin {"reached", "terminal"}
                                           /\ ending' = [how |-> how, at |-> at]
  PROVE  ActInv'
  <1>1. ActTypes' /\ FollowsPin'
    BY DEF ActInv, ActTypes, FollowsPin
  <1>2. EndingIsDone'
    BY DEF ActInv, EndingIsDone
  <1>3. VerdictIsCurrent'
    BY VerdictUnfolds DEF ActInv, EndingIsDone
  <1> QED  BY <1>1, <1>2, <1>3 DEF ActInv

\* A status in time: it is used only if it is not older than the last one, and
\* goes on or succeeds only if it has the generation that is followed.
LEMMA JudgeKeepsActInv ==
  ASSUME ActInv, wait = "fetch", NEW at \in 1..Len(log), Judge(at), UNCHANGED <<late, goal, asked, log>>
  PROVE  ActInv'
  <1> DEFINE st == log[at]
             pinned == IF pin = None THEN st.gen ELSE pin
  <1>1. ending = None /\ st.gen \in Nat /\ pinned \in Nat
    <2>1. st \in Statuses /\ pin \in Nat \cup {None}
      BY DEF ActInv, ActTypes
    <2>2. st.gen \in Nat
      BY <2>1 DEF Statuses
    <2> QED  BY <2>1, <2>2 DEF ActInv, EndingIsDone
  <1>2. CASE at < lastAt /\ Finish("contract", at) /\ UNCHANGED <<lastAt, pin>>
    BY <1>2, NoVerdictKeepsActInv DEF Finish
  <1>3. CASE at >= lastAt /\ lastAt' = at /\ pin' = pinned /\ ~MatchesTarget(st, pinned)
             /\ Finish("superseded", at)
    BY <1>1, <1>3
    DEF Finish, ActInv, ActTypes, FollowsPin, EndingIsDone, VerdictIsCurrent
  <1>4. CASE at >= lastAt /\ lastAt' = at /\ pin' = pinned /\ MatchesTarget(st, pinned)
             /\ ReachedGoal(DerivedPhase(st)) /\ Finish("reached", at)
    <2>1. ActTypes' /\ FollowsPin' /\ EndingIsDone'
      BY <1>1, <1>4 DEF Finish, ActInv, ActTypes, FollowsPin, EndingIsDone
    <2>2. VerdictIsCurrent'
      <3>1. ending'.how = "reached" /\ ending'.at = at
        BY <1>4 DEF Finish
      <3>2. VerdictOn("reached", st, pin', goal)
        BY <1>4 DEF MatchesTarget, VerdictOn, ReachedGoal, Reaches
      <3> QED  BY <1>4, <3>1, <3>2, VerdictUnfolds
    <2> QED  BY <2>1, <2>2 DEF ActInv
  <1>5. CASE at >= lastAt /\ lastAt' = at /\ pin' = pinned /\ MatchesTarget(st, pinned)
             /\ ~ReachedGoal(DerivedPhase(st)) /\ Finish("terminal", at)
    <2>1. ActTypes' /\ FollowsPin' /\ EndingIsDone'
      BY <1>1, <1>5 DEF Finish, ActInv, ActTypes, FollowsPin, EndingIsDone
    <2>2. VerdictIsCurrent'
      <3>1. ending'.how = "terminal" /\ ending'.at = at
        BY <1>5 DEF Finish
      <3>2. VerdictOn("terminal", st, pin', goal)
        BY <1>5 DEF MatchesTarget, VerdictOn, ReachedGoal, Reaches
      <3> QED  BY <1>5, <3>1, <3>2, VerdictUnfolds
    <2> QED  BY <2>1, <2>2 DEF ActInv
  <1>6. CASE at >= lastAt /\ lastAt' = at /\ pin' = pinned /\ MatchesTarget(st, pinned)
             /\ wait' = "sleep" /\ UNCHANGED ending
    BY <1>1, <1>6, ActivationAssumptions
    DEF MatchesTarget, ActInv, ActTypes, FollowsPin, EndingIsDone, VerdictIsCurrent
  <1> QED  BY <1>2, <1>3, <1>4, <1>5, <1>6 DEF Judge

\* The answer of a poll, with the refusals of fetch_activation.
LEMMA FetchedKeepsActInv ==
  ASSUME ActInv, Fetched
  PROVE  ActInv'
  <1>1. PICK at \in 1..Len(log) :
          \/ /\ Refusal(log[at]) # None /\ Finish(Refusal(log[at]), at)
             /\ UNCHANGED <<lastAt, last, pin>>
          \/ Finish("timeout", at) /\ UNCHANGED <<lastAt, pin>>
          \/ Judge(at)
    BY DEF Fetched
  <1>2. wait = "fetch" /\ UNCHANGED <<late, goal, asked, log>>
    BY DEF Fetched
  <1>3. Refusal(log[at]) \in {None, "superseded", "contract"}
    BY DEF Refusal
  <1>4. CASE Refusal(log[at]) # None /\ Finish(Refusal(log[at]), at) /\ UNCHANGED <<lastAt, last, pin>>
    BY <1>2, <1>3, <1>4, NoVerdictKeepsActInv DEF Finish
  <1>5. CASE Finish("timeout", at) /\ UNCHANGED <<lastAt, pin>>
    BY <1>2, <1>5, NoVerdictKeepsActInv DEF Finish
  <1> QED  BY <1>1, <1>2, <1>4, <1>5, JudgeKeepsActInv

\* What the Registry writes is a status.
LEMMA RegistryWrites ==
  ASSUME ActInv, ConditionChanges \/ Withdrawn \/ Redeployed
  PROVE  \E st \in Statuses : Written(st)
  <1>1. Now \in Statuses
    BY DEF ActInv, ActTypes, Now
  <1>2. CASE ConditionChanges
    <2>1. PICK true \in ConditionSets \ {Now.true} :
            Written([Now EXCEPT !.true = true, !.activeAt = @ \/ Readiness \subseteq true])
      BY <1>2 DEF ConditionChanges
    <2>2. [Now EXCEPT !.true = true, !.activeAt = @ \/ Readiness \subseteq true] \in Statuses
      <3>1. true \in SUBSET Conditions
        BY ActivationAssumptions
      <3>2. (Now.activeAt \/ Readiness \subseteq true) \in BOOLEAN
        OBVIOUS
      <3> QED  BY <1>1, <3>1, <3>2 DEF Statuses
    <2> QED  BY <2>1, <2>2
  <1>3. CASE Withdrawn
    <2>1. PICK d \in {"deprecated", "retired"} : Written([Now EXCEPT !.desired = d])
      BY <1>3 DEF Withdrawn
    <2>2. [Now EXCEPT !.desired = d] \in Statuses
      BY <1>1 DEF Statuses
    <2> QED  BY <2>1, <2>2
  <1>4. CASE Redeployed
    <2>1. PICK exact \in BOOLEAN : Written([First EXCEPT !.gen = Now.gen + 1, !.exact = exact])
      BY <1>4 DEF Redeployed
    <2>2. Now.gen + 1 \in Nat
      BY <1>1 DEF Statuses
    <2>3. [First EXCEPT !.gen = Now.gen + 1, !.exact = exact] \in Statuses
      BY <2>2 DEF Statuses, First, Conditions, Readiness
    <2> QED  BY <2>1, <2>3
  <1> QED  BY <1>2, <1>3, <1>4

\* Every step keeps the invariant.
LEMMA NextActInv == ActInv /\ [ActNext]_actVars => ActInv'
  <1> SUFFICES ASSUME ActInv, [ActNext]_actVars PROVE ActInv'
    OBVIOUS
  <1>1. CASE ConditionChanges \/ Withdrawn \/ Redeployed
    BY <1>1, RegistryWrites, WrittenKeepsActInv
  <1>2. CASE DeadlinePasses \/ UNCHANGED actVars
    BY <1>2, NoVerdictKeepsActInv DEF DeadlinePasses, actVars
  <1>3. CASE Poll \/ FetchTimeout \/ FetchFails \/ Wake
    <2>1. UNCHANGED <<goal, asked, pin, log, lastAt>>
      BY <1>3 DEF Poll, FetchTimeout, FetchFails, Wake, Unheard
    <2>2. \/ /\ wait \in {"poll", "fetch", "sleep"} /\ wait' \in {"poll", "fetch", "sleep"}
             /\ UNCHANGED ending
          \/ \E at : \E how \in {"timeout", "error"} : Finish(how, at)
      BY <1>3 DEF Poll, FetchTimeout, FetchFails, Wake
    <2> QED  BY <2>1, <2>2, NoVerdictKeepsActInv DEF Finish
  <1> QED  BY <1>1, <1>2, <1>3, FetchedKeepsActInv DEF ActNext

\* The invariant holds in every reachable state.
LEMMA ActInvariance == ActSpec => []ActInv
  BY InitActInv, NextActInv, PTL DEF ActSpec

\* A verdict is about the artifact that was published and the one generation
\* that is followed, on the newest status seen, for every history of statuses.
THEOREM VerdictsAreCurrent == ActSpec => []VerdictIsCurrent
  <1>1. ActInv => VerdictIsCurrent
    BY DEF ActInv
  <1> QED  BY <1>1, ActInvariance, PTL

\* Statuses are used in the order they were observed and of one generation.
THEOREM GenerationsGoForward == ActSpec => OneGenerationForward
  <1> DEFINE Forward == /\ lastAt' >= lastAt
                        /\ lastAt > 0 /\ lastAt' # lastAt => pin' = pin
                        /\ lastAt > 0 /\ wait' = "sleep" => log[lastAt'].gen = pin
  <1>1. ASSUME ActInv, [ActNext]_actVars
        PROVE  [Forward]_actVars
    <2> SUFFICES Forward
      OBVIOUS
    <2>1. lastAt \in Nat /\ (lastAt > 0 /\ wait # "done" => pin # None /\ log[lastAt].gen = pin)
      BY <1>1 DEF ActInv, ActTypes, FollowsPin
    <2>2. CASE UNCHANGED <<lastAt, pin>> /\ (wait' = "sleep" => wait # "done")
      BY <2>1, <2>2
    <2>3. ASSUME NEW at \in 1..Len(log), Judge(at), wait = "fetch"
          PROVE  Forward
      BY <2>1, <2>3 DEF Judge, Finish, MatchesTarget
    <2>4. CASE Fetched
      BY <2>2, <2>3, <2>4 DEF Fetched, Finish
    <2>5. CASE ~Fetched
      <3>1. UNCHANGED <<lastAt, pin>> /\ (wait' = "sleep" => wait # "done")
        BY <1>1, <2>5
        DEF ActNext, actVars, ConditionChanges, Withdrawn, Redeployed, Written, DeadlinePasses,
            Poll, FetchTimeout, FetchFails, Wake, Unheard, Finish
      <3> QED  BY <2>2, <3>1
    <2> QED  BY <2>4, <2>5
  <1> QED  BY <1>1, ActInvariance, PTL DEF ActSpec, OneGenerationForward

-----------------------------------------------------------------------------
(* EvaluationEvidence.                                                         *)
(*                                                                             *)
(* Every result says what was observed (ResultsTrue).  What is signed may have *)
(* been altered in its verdict, never in its results, metrics and artifacts    *)
(* (SignedTrue): a report that matches its signature therefore has the results *)
(* of this run, and one that agrees with them has the verdict they give.       *)

EvalTypes ==
  /\ step \in {"load", "run", "report", "signed", "done"}
  /\ step # "load" => bundle \in Bundles /\ ValidBundle(bundle)
  /\ results \in Seq(Range(results)) /\ truth \in Seq(Range(truth))
  /\ obs \in Seq(SUBSET Flaws)
  /\ decision # None => step = "done"

\* A result that is not incomplete is the evaluation of as many observations as
\* the case asks for.
ResultTrue(i) ==
  \/ results[i].status = "incomplete"
  \/ /\ truth[i] \in Seq(SUBSET Flaws) /\ Len(truth[i]) = bundle[i].attempts
     /\ results[i] = Evaluated(bundle[i], truth[i])

ResultsTrue ==
  /\ Len(truth) = Len(results)
  /\ \A i \in 1..Len(results) : ResultTrue(i)
  /\ step = "load" => Len(results) = 0
  /\ step = "run" => Len(results) < Len(bundle)
  /\ step \in {"report", "signed"} => Len(results) = Len(bundle)

ReportFields == {"binding", "mode", "cases", "metrics", "complete", "passed", "signature"}

\* What a report says of the run, whatever it says of its verdict.
SaysTrue(r) ==
  r.binding = <<bundle, "built">> /\ r.cases = results /\ r.metrics = Summaries(results)

SignedTrue ==
  /\ step \in {"report", "signed"} => DOMAIN evidence = ReportFields
  /\ step = "report" => SaysTrue(evidence)
  /\ step = "signed" => SaysTrue(evidence.signature.over)

EvalInv == EvalTypes /\ ResultsTrue /\ SignedTrue /\ PromotionIsEarned

\* Nothing is loaded.
LEMMA InitEvalInv == EvalInit => EvalInv
  BY
  DEF EvalInit, EvalInv, EvalTypes, ResultsTrue, ResultTrue, SignedTrue, PromotionIsEarned,
      Range

\* Nothing speaks against a promotion: the report passed and measured every metric,
\* and every role has reviewed it.
LEMMA NoReasons ==
  ASSUME NEW r, NEW level, NEW review, Reasons(r, level, review) = {}
  PROVE  /\ ~(~r.passed)
         /\ Metrics \subseteq DOMAIN r.metrics
         /\ \A x \in Policy(level).roles :
              \E s \in DOMAIN review.reviewers : x \in review.reviewers[s]
  <1>1. ~(~r.passed)
    BY DEF Reasons
  <1>2. {<<"metric_missing", m>> : m \in Metrics \ DOMAIN r.metrics} = {}
    BY DEF Reasons
  <1>3. {<<"reviewer_role_missing", role>> :
          role \in {x \in Policy(level).roles :
                      \A s \in DOMAIN review.reviewers : x \notin review.reviewers[s]}} = {}
    BY DEF Reasons
  <1> QED  BY <1>1, <1>2, <1>3

\* Append adds its element and loses none.
LEMMA AppendedRange ==
  ASSUME NEW s, s \in Seq(Range(s)), NEW e
  PROVE  /\ Append(s, e) \in Seq(Range(Append(s, e)))
         /\ Range(Append(s, e)) = Range(s) \cup {e}
  <1>1. /\ DOMAIN s = 1..Len(s) /\ Len(s) \in Nat
        /\ DOMAIN Append(s, e) = 1..(Len(s) + 1)
        /\ Append(s, e)[Len(s) + 1] = e
        /\ \A i \in 1..Len(s) : Append(s, e)[i] = s[i]
    OBVIOUS
  <1>2. Range(Append(s, e)) = Range(s) \cup {e}
    BY <1>1 DEF Range
  <1>3. Append(s, e) \in Seq(Range(s) \cup {e})
    <2>1. e \in Range(s) \cup {e} /\ s \in Seq(Range(s) \cup {e})
      OBVIOUS
    <2> QED  BY <2>1
  <1> QED  BY <1>2, <1>3

\* A case ends with a result that says what was observed.
LEMMA CaseEnds ==
  ASSUME EvalInv, step = "run", NEW result, NEW seen, EndsCase(result, seen),
         \/ result.status = "incomplete"
         \/ /\ seen \in Seq(SUBSET Flaws) /\ Len(seen) = Case.attempts
            /\ result = Evaluated(Case, seen),
         UNCHANGED <<bundle, decision>>
  PROVE  EvalInv'
  <1>1. /\ results \in Seq(Range(results)) /\ truth \in Seq(Range(truth))
        /\ Len(truth) = Len(results) /\ Len(results) < Len(bundle)
        /\ results' = Append(results, result) /\ truth' = Append(truth, seen) /\ obs' = <<>>
    BY DEF EvalInv, EvalTypes, ResultsTrue, EndsCase
  <1>2. bundle \in Seq(Range(bundle)) /\ bundle' = bundle
    BY EvaluationAssumptions DEF EvalInv, EvalTypes
  <1>3. results' \in Seq(Range(results')) /\ truth' \in Seq(Range(truth'))
    BY <1>1, AppendedRange
  <1>4. /\ Len(results') = Len(results) + 1 /\ Len(truth') = Len(results) + 1
        /\ results'[Len(results) + 1] = result /\ truth'[Len(results) + 1] = seen
        /\ \A i \in 1..Len(results) : results'[i] = results[i] /\ truth'[i] = truth[i]
        /\ Len(results) \in Nat /\ Len(bundle) \in Nat
    BY <1>1, <1>2
  <1>5. \A i \in 1..Len(results') : ResultTrue(i)'
    <2> SUFFICES ASSUME NEW i \in 1..Len(results') PROVE ResultTrue(i)'
      OBVIOUS
    <2>1. CASE i \in 1..Len(results)
      <3>1. ResultTrue(i)
        BY <2>1 DEF EvalInv, ResultsTrue
      <3> QED  BY <1>2, <1>4, <2>1, <3>1 DEF ResultTrue
    <2>2. CASE i = Len(results) + 1
      BY <1>2, <1>4, <2>2 DEF ResultTrue, Case
    <2> QED  BY <1>4, <2>1, <2>2
  <1>6. decision = None /\ decision' = None
    BY DEF EvalInv, EvalTypes
  <1>7. CASE Len(results) + 1 = Len(bundle)
    <2>1. step' = "report"
      BY <1>7 DEF EndsCase
    <2>2. PICK mode : evidence' = Report(<<bundle, "built">>, mode, results')
      BY <1>7 DEF EndsCase
    <2>3. DOMAIN evidence' = ReportFields /\ SaysTrue(evidence)'
      BY <1>2, <2>2 DEF Report, ReportFields, SaysTrue
    <2>4. EvalTypes'
      BY <1>1, <1>2, <1>3, <1>6, <2>1 DEF EvalInv, EvalTypes
    <2>5. ResultsTrue'
      BY <1>2, <1>4, <1>5, <1>7, <2>1 DEF ResultsTrue
    <2>6. SignedTrue'
      BY <2>1, <2>3 DEF SignedTrue
    <2> QED  BY <1>6, <2>4, <2>5, <2>6 DEF EvalInv, PromotionIsEarned
  <1>8. CASE Len(results) + 1 # Len(bundle)
    <2>1. step' = "run"
      BY <1>8 DEF EndsCase
    <2>2. EvalTypes'
      BY <1>1, <1>2, <1>3, <1>6, <2>1 DEF EvalInv, EvalTypes
    <2>3. ResultsTrue'
      BY <1>1, <1>2, <1>4, <1>5, <1>8, <2>1 DEF ResultsTrue
    <2>4. SignedTrue'
      BY <2>1 DEF SignedTrue
    <2> QED  BY <1>6, <2>2, <2>3, <2>4 DEF EvalInv, PromotionIsEarned
  <1> QED  BY <1>7, <1>8

\* A report that matches its signature is the one of this run.
LEMMA VerifiedSaysTrue ==
  ASSUME EvalInv, step = "signed", NEW r \in Presented, NEW binding, Verifies(r, binding)
  PROVE  SaysTrue(r) /\ binding = <<bundle, "built">>
  <1>1. DOMAIN evidence = ReportFields /\ SaysTrue(evidence.signature.over)
    BY DEF EvalInv, SignedTrue
  <1>2. r.signature = evidence.signature /\ DOMAIN r = ReportFields
    BY <1>1 DEF Presented, ReportFields
  <1>3. r.signature.over = [r EXCEPT !.signature = None] /\ r.binding = binding
    BY DEF Verifies
  <1>4. SaysTrue([r EXCEPT !.signature = None])
    BY <1>1, <1>2, <1>3
  <1> QED  BY <1>2, <1>3, <1>4 DEF SaysTrue, ReportFields

\* A promotion that is approved is earned.
LEMMA AssessKeeps == EvalInv /\ Assess => EvalInv'
  <1> SUFFICES ASSUME EvalInv, Assess PROVE EvalInv'
    OBVIOUS
  <1>1. PICK r \in Presented, binding \in {<<bundle, "built">>, <<bundle, "rebuilt">>},
             level \in {"experimental", "internal", "ga"}, review \in Reviews :
          /\ ValidReview(review)
          /\ decision' = [genuine |-> r = evidence, binding |-> binding, stage |-> level,
                          review |-> review, verified |-> Verifies(r, binding),
                          reasons |-> IF Verifies(r, binding) THEN Reasons(r, level, review)
                                                              ELSE {<<"rejected", None>>}]
    BY DEF Assess
  <1>2. step = "signed" /\ step' = "done" /\ UNCHANGED <<bundle, results, obs, truth, evidence>>
    BY DEF Assess
  <1>3. EvalTypes' /\ SignedTrue'
    BY <1>2 DEF EvalInv, EvalTypes, SignedTrue
  <1>4. ResultsTrue'
    BY <1>2 DEF EvalInv, ResultsTrue, ResultTrue
  <1>5. ASSUME decision'.reasons = {}
        PROVE  /\ binding = <<bundle, "built">>
               /\ \A i \in DOMAIN bundle :
                    /\ truth[i] # None /\ Len(truth[i]) = bundle[i].attempts
                    /\ ~bundle[i].quarantine
                    /\ \A m \in bundle[i].blocking, k \in DOMAIN truth[i] :
                         truth[i][k] \cap Blame(m) = {}
               /\ Metrics = UNION {bundle[i].metrics : i \in DOMAIN bundle}
               /\ Policy(level).roles \subseteq
                    UNION {review.reviewers[s] : s \in DOMAIN review.reviewers \ {review.author}}
    <2>1. Verifies(r, binding) /\ Reasons(r, level, review) = {}
      BY <1>1, <1>5
    <2>2. SaysTrue(r) /\ binding = <<bundle, "built">>
      BY <1>2, <2>1, VerifiedSaysTrue
    <2>3. /\ r.passed /\ Metrics \subseteq DOMAIN r.metrics
          /\ \A x \in Policy(level).roles :
               \E s \in DOMAIN review.reviewers : x \in review.reviewers[s]
      BY <2>1, NoReasons
    <2>4. \A i \in DOMAIN results : results[i].status = "passed"
      BY <2>1, <2>2, <2>3 DEF Verifies, Consistent, SaysTrue, Passed
    <2>5. /\ bundle \in Seq(Range(bundle)) /\ results \in Seq(Range(results))
          /\ Len(results) = Len(bundle)
          /\ \A i \in DOMAIN bundle : ValidCase(bundle[i]) /\ bundle[i].metrics \subseteq Metrics
      BY <1>2, EvaluationAssumptions DEF EvalInv, EvalTypes, ResultsTrue, ValidBundle
    <2>6. DOMAIN results = DOMAIN bundle /\ DOMAIN bundle = 1..Len(results)
      BY <2>5
    <2>7. ASSUME NEW i \in DOMAIN bundle
          PROVE  /\ truth[i] \in Seq(SUBSET Flaws) /\ Len(truth[i]) = bundle[i].attempts
                 /\ results[i] = Evaluated(bundle[i], truth[i])
      <3>1. ResultTrue(i)
        BY <2>6 DEF EvalInv, ResultsTrue
      <3> QED  BY <2>4, <2>6, <3>1 DEF ResultTrue
    <2>8. ASSUME NEW i \in DOMAIN bundle
          PROVE  ~bundle[i].quarantine /\ \A m \in bundle[i].blocking : MetricPassed(m, truth[i])
      <3>1. Evaluated(bundle[i], truth[i]).status = "passed"
        BY <2>4, <2>6, <2>7
      <3> QED  BY <3>1 DEF Evaluated
    <2>9. ASSUME NEW i \in DOMAIN bundle PROVE truth[i] # None
      BY <2>7, EvaluationAssumptions
    <2>10. Metrics = UNION {bundle[i].metrics : i \in DOMAIN bundle}
      <3>1. \A i \in DOMAIN bundle : results[i].metrics = bundle[i].metrics
        <4> SUFFICES ASSUME NEW i \in DOMAIN bundle PROVE results[i].metrics = bundle[i].metrics
          OBVIOUS
        <4>1. Evaluated(bundle[i], truth[i]).metrics = bundle[i].metrics
          BY DEF Evaluated
        <4> QED  BY <2>7, <4>1
      <3>2. DOMAIN Summaries(results) = UNION {results[i].metrics : i \in DOMAIN results}
        BY DEF Summaries
      <3>3. Metrics \subseteq UNION {results[i].metrics : i \in DOMAIN results}
        BY <2>2, <2>3, <3>2 DEF SaysTrue
      <3>4. UNION {bundle[i].metrics : i \in DOMAIN bundle} \subseteq Metrics
        BY <2>5
      <3>5. Metrics \subseteq UNION {bundle[i].metrics : i \in DOMAIN bundle}
        BY <2>6, <3>1, <3>3
      <3> QED  BY <3>4, <3>5
    <2>11. review.author \notin DOMAIN review.reviewers
      BY <1>1 DEF ValidReview
    <2>12. Policy(level).roles \subseteq
             UNION {review.reviewers[s] : s \in DOMAIN review.reviewers \ {review.author}}
      BY <2>3, <2>11
    <2>13. ASSUME NEW i \in DOMAIN bundle, NEW m \in bundle[i].blocking, NEW k \in DOMAIN truth[i]
           PROVE  truth[i][k] \cap Blame(m) = {}
      BY <2>8 DEF MetricPassed
    <2> QED  BY <2>2, <2>7, <2>8, <2>9, <2>10, <2>12, <2>13
  <1>6. /\ decision'.binding = binding /\ decision'.stage = level /\ decision'.review = review
    BY <1>1
  <1>7. PromotionIsEarned'
    BY <1>2, <1>5, <1>6 DEF PromotionIsEarned
  <1> QED  BY <1>3, <1>4, <1>7 DEF EvalInv

\* Every step keeps the invariant.
LEMMA NextEvalInv == EvalInv /\ [EvalNext]_evalVars => EvalInv'
  <1> SUFFICES ASSUME EvalInv, [EvalNext]_evalVars PROVE EvalInv'
    OBVIOUS
  <1>1. CASE UNCHANGED evalVars
    BY <1>1
    DEF evalVars, EvalInv, EvalTypes, ResultsTrue, ResultTrue, SignedTrue, SaysTrue,
        PromotionIsEarned
  <1>2. CASE Load
    <2>1. PICK b \in Bundles : ValidBundle(b) /\ bundle' = b
      BY <1>2 DEF Load
    <2>2. /\ step = "load" /\ step' = "run" /\ decision = None
          /\ UNCHANGED <<results, obs, truth, evidence, decision>>
      BY <1>2 DEF Load, EvalInv, EvalTypes
    <2>3. Len(results) = 0 /\ Len(truth) = 0 /\ Len(bundle') > 0
      <3>1. bundle' \in Seq(Range(bundle')) /\ bundle' # <<>>
        BY <2>1, EvaluationAssumptions DEF ValidBundle
      <3> QED  BY <2>2, <3>1 DEF EvalInv, ResultsTrue
    <2> QED
      BY <2>1, <2>2, <2>3 DEF EvalInv, EvalTypes, ResultsTrue, SignedTrue, PromotionIsEarned
  <1>3. CASE Observe
    <2>1. PICK o \in FlawSets :
            IF Len(Append(obs, o)) = Case.attempts
              THEN EndsCase(Evaluated(Case, Append(obs, o)), Append(obs, o))
              ELSE obs' = Append(obs, o) /\ UNCHANGED <<results, truth, step, evidence>>
      BY <1>3 DEF Observe
    <2>2. step = "run" /\ UNCHANGED <<bundle, decision>>
      BY <1>3 DEF Observe
    <2>3. Append(obs, o) \in Seq(SUBSET Flaws)
      BY EvaluationAssumptions DEF EvalInv, EvalTypes
    <2>4. CASE Len(Append(obs, o)) = Case.attempts
      BY <2>1, <2>2, <2>3, <2>4, CaseEnds
    <2>5. CASE Len(Append(obs, o)) # Case.attempts
      <3>1. obs' = Append(obs, o) /\ UNCHANGED <<results, truth, step, evidence>>
        BY <2>1, <2>5
      <3> QED
        BY <2>2, <2>3, <3>1
        DEF EvalInv, EvalTypes, ResultsTrue, ResultTrue, SignedTrue, PromotionIsEarned
    <2> QED  BY <2>4, <2>5
  <1>4. CASE TargetFails
    <2>1. Incomplete(Case, obs).status = "incomplete"
      BY DEF Incomplete
    <2> QED  BY <1>4, <2>1, CaseEnds DEF TargetFails
  <1>5. CASE RunnerCancelled
    BY <1>5
    DEF RunnerCancelled, EvalInv, EvalTypes, ResultsTrue, ResultTrue, SignedTrue,
        PromotionIsEarned
  <1>6. CASE Sign
    <2>1. PICK inflated \in BOOLEAN, key \in {"trusted", "unknown"} :
            LET signed == IF inflated THEN [evidence EXCEPT !.passed = TRUE, !.complete = TRUE]
                                      ELSE evidence IN
            evidence' = [signed EXCEPT !.signature = [key |-> key, over |-> signed]]
      BY <1>6 DEF Sign
    <2> DEFINE signed == IF inflated THEN [evidence EXCEPT !.passed = TRUE, !.complete = TRUE]
                                     ELSE evidence
    <2>2. /\ step = "report" /\ step' = "signed"
          /\ UNCHANGED <<bundle, results, obs, truth, decision>>
      BY <1>6 DEF Sign
    <2>3. DOMAIN evidence = ReportFields /\ SaysTrue(evidence)
      BY <2>2 DEF EvalInv, SignedTrue
    <2>4. DOMAIN signed = ReportFields /\ SaysTrue(signed)
      BY <2>3 DEF SaysTrue, ReportFields
    <2>5. evidence' = [signed EXCEPT !.signature = [key |-> key, over |-> signed]]
      BY <2>1
    <2> HIDE DEF signed
    <2>6. DOMAIN evidence' = ReportFields /\ evidence'.signature.over = signed
      BY <2>4, <2>5 DEF ReportFields
    <2>7. SignedTrue'
      BY <2>2, <2>4, <2>6 DEF SignedTrue, SaysTrue
    <2>8. EvalTypes' /\ ResultsTrue' /\ PromotionIsEarned'
      BY <2>2 DEF EvalInv, EvalTypes, ResultsTrue, ResultTrue, PromotionIsEarned
    <2> QED  BY <2>7, <2>8 DEF EvalInv
  <1> QED  BY <1>1, <1>2, <1>3, <1>4, <1>5, <1>6, AssessKeeps DEF EvalNext

\* A promotion is approved only for what was evaluated and on what was observed,
\* for every bundle and every review, however reports are altered before or after
\* they are signed.
THEOREM PromotionsAreEarned == EvalSpec => []PromotionIsEarned
  <1>1. EvalInv => PromotionIsEarned
    BY DEF EvalInv
  <1> QED  BY <1>1, InitEvalInv, NextEvalInv, PTL DEF EvalSpec

-----------------------------------------------------------------------------
(* Reliability.                                                                *)
(*                                                                             *)
(* The judgement sees a summary only, so the proof keeps for each scenario     *)
(* what its counters say about the calls that were answered.  Ended are those  *)
(* calls; Judged the states in which the task group and its sequel are over.   *)

CallStates(scenario, ph) ==
  CASE scenario \in {"load", "soak"} ->
         {"new", "active", "success", "unavailable", "cancelled"}
    [] scenario = "fairness" ->
         IF ph = "drained" THEN {"success", "lost", "overloaded"}
         ELSE {"new", "active", "held", "overloaded"}
    [] scenario = "rollout" ->
         IF ph = "drained" THEN {"success", "lost"} ELSE {"new", "active", "held"}
    [] scenario = "dependency" ->
         {"new", "active", "success", "unavailable", "timeout", "authentication_denied"}
    [] OTHER -> {"new", "active", "success", "unavailable"}

States == {"new", "active", "held", "success", "lost", "overloaded", "unavailable", "timeout",
           "authentication_denied", "cancelled"}

Ended == {c \in AllCalls : call[c] \notin {"new", "active"}}

Counts == [effects : Nat, runtime : Nat, other : Nat, rejected : Nat, held : Nat, stale : Nat,
           closed : Nat, dropped : Nat, opened : Nat, memory : Nat, capacity : Nat,
           restored : Nat]

RelTypes ==
  /\ phase \in {"submit", "run", "drained", "done"}
  /\ peak \in Nat /\ turn \in Nat /\ served \in Nat /\ counters \in Counts
  /\ phase = "submit" =>
       /\ peak = 0 /\ turn = 0 /\ served = 0 /\ verdict = {}
       /\ counters = [effects |-> 0, runtime |-> 0, other |-> 0, rejected |-> 0, held |-> 0,
                      stale |-> 0, closed |-> 0, dropped |-> 0, opened |-> 0, memory |-> 0,
                      capacity |-> 0, restored |-> 0]
  /\ phase # "submit" =>
       /\ plan \in Plans /\ ValidPlan(plan) /\ defect \in Defects \cup {None}
       /\ call \in [AllCalls -> States]

Judged == phase = "drained" \/ (phase = "done" /\ verdict # {"raised"})

\* The calls are where their scenario can have brought them.
CallsPlaced ==
  \A c \in AllCalls :
    call[c] \in CallStates(plan.scenario, IF Judged THEN "drained" ELSE "run")

\* Evidence is judged when every call is classified and the sequel is over.
SequelOver ==
  /\ turn <= Sequel
  /\ Judged => Classified /\ (turn = Sequel \/ In("cancelled") # {})

LoadInv ==
  plan.scenario \in {"load", "soak"} =>
    /\ peak <= plan.width /\ Cardinality(In("active")) <= plan.width
    /\ defect # "leaks" => counters.held = 0

FairnessInv ==
  plan.scenario = "fairness" =>
    /\ served <= turn
    /\ defect # "unlimited" =>
         /\ Cardinality(In("held")) <= plan.tenant
         /\ served = turn
         /\ Judged => Cardinality(In("success")) <= plan.tenant
    /\ defect # "loses_call" => \A c \in AllCalls : call[c] # "lost"

RetryInv ==
  plan.scenario = "retry" =>
    /\ defect # "amplifies" => counters.other = 0
    /\ defect # "forgets_key" => counters.effects = IF Ended = {} THEN 0 ELSE 1
    /\ counters.runtime <= Cardinality(Ended) * (MaxAttempts - 1)
    /\ defect # "loses_replay" => \A c \in Ended : call[c] = "success"

StatelessInv ==
  plan.scenario = "stateless" =>
    /\ defect # "forgets_key" => counters.effects = IF Ended = {} THEN 0 ELSE 1
    /\ defect = "remembers" /\ Ended # {} => counters.memory > 0
    /\ defect # "remembers" => counters.memory = 0
    /\ defect # "loses_replay" => \A c \in Ended : call[c] = "success"

DependencyInv ==
  plan.scenario = "dependency" =>
    /\ \A c \in Ended : call[c] \in FailureOutcomes(c)
    /\ \A c \in Ended \cap Affected :
         /\ plan.dependency = "identity" => IF c <= StaleCalls THEN counters.stale > 0
                                            ELSE counters.closed > 0
         /\ plan.dependency = "telemetry" => counters.dropped > 0
         /\ plan.dependency \in {"dns", "backing_api"} /\ c = CircuitCall => counters.opened > 0

RolloutInv ==
  plan.scenario = "rollout" =>
    /\ served + counters.rejected = turn
    /\ defect # "accepts_late" => served = 0
    /\ Judged =>
         /\ defect # "loses_call" => In("success") = AllCalls
         /\ counters.capacity = IF defect = "shrinks" THEN 0 ELSE 1
         /\ counters.restored = IF defect = "stays_down" THEN 0 ELSE 1

VerdictKept ==
  phase = "done" /\ verdict # {"raised"} =>
    /\ verdict = IF Refused THEN {"refused"} ELSE Shortfalls
    /\ In("cancelled") = {}

RelInv ==
  /\ RelTypes
  /\ phase = "run" \/ Judged =>
       /\ CallsPlaced /\ SequelOver
       /\ LoadInv /\ FairnessInv /\ RetryInv /\ StatelessInv /\ DependencyInv /\ RolloutInv
  /\ VerdictKept

LEMMA MaxOfTwo ==
  ASSUME NEW m \in Nat, NEW n \in Nat
  PROVE  Max({m, n}) = IF m >= n THEN m ELSE n
  <1>1. CASE m >= n
    <2>1. m \in {m, n} /\ \A y \in {m, n} : m >= y
      BY <1>1
    <2>2. \A x \in {m, n} : (\A y \in {m, n} : x >= y) => x = m
      BY <1>1
    <2> QED BY <1>1, <2>1, <2>2 DEF Max
  <1>2. CASE ~ m >= n
    <2>1. n \in {m, n} /\ \A y \in {m, n} : n >= y
      BY <1>2
    <2>2. \A x \in {m, n} : (\A y \in {m, n} : x >= y) => x = n
      BY <1>2
    <2> QED BY <1>2, <2>1, <2>2 DEF Max
  <1> QED BY <1>1, <1>2

\* The calls of a plan are finitely many and numbered from 1.
LEMMA CallsCounted ==
  ASSUME RelTypes, phase # "submit"
  PROVE  /\ plan.calls \in Nat \ {0} /\ plan.scenario \in Scenarios
         /\ AllCalls = 1..(IF plan.scenario = "dependency" THEN plan.calls + plan.unaffected
                           ELSE plan.calls)
         /\ IsFiniteSet(AllCalls)
         /\ plan.scenario # "dependency" => Cardinality(AllCalls) = plan.calls
         /\ 1 \in AllCalls /\ Affected \subseteq AllCalls
         /\ \A S \in SUBSET AllCalls : IsFiniteSet(S) /\ Cardinality(S) \in Nat
                                      /\ Cardinality(S) <= Cardinality(AllCalls)
  <1>1. plan \in Plans
    BY DEF RelTypes
  <1>2. /\ plan.calls \in Nat \ {0} /\ plan.scenario \in Scenarios
        /\ plan.scenario = "dependency" => plan.unaffected \in Nat
    BY <1>1, ReliabilityAssumptions
  <1>3. AllCalls = 1..(IF plan.scenario = "dependency" THEN plan.calls + plan.unaffected
                       ELSE plan.calls)
    BY DEF AllCalls, CallsOf
  <1> DEFINE n == IF plan.scenario = "dependency" THEN plan.calls + plan.unaffected
                  ELSE plan.calls
  <1>4. n \in Nat /\ n >= plan.calls /\ n # 0
    BY <1>2
  <1>5. IsFiniteSet(1..n) /\ Cardinality(1..n) = n
    <2> HIDE DEF n
    <2>1. 1 \in Int /\ n \in Int /\ ~ 1 > n /\ n - 1 + 1 = n
      BY <1>4
    <2>2. /\ IsFiniteSet(1..n)
          /\ Cardinality(1..n) = IF 1 > n THEN 0 ELSE n - 1 + 1
      BY <2>1, FS_Interval
    <2> QED BY <2>1, <2>2
  <1>6. 1 \in 1..n /\ Affected \subseteq 1..n
    BY <1>2, <1>4 DEF Affected
  <1>7. \A S \in SUBSET (1..n) : IsFiniteSet(S) /\ Cardinality(S) \in Nat
                               /\ Cardinality(S) <= Cardinality(1..n)
    BY <1>5, FS_Subset, FS_CardinalityType
  <1> QED BY <1>2, <1>3, <1>5, <1>6, <1>7

\* What changes when one call changes.
LEMMA OneCall ==
  ASSUME RelTypes, phase # "submit", plan' = plan, NEW c \in AllCalls, NEW v \in States,
         call' = [call EXCEPT ![c] = v]
  PROVE  /\ AllCalls' = AllCalls /\ call' \in [AllCalls -> States]
         /\ \A d \in AllCalls : call'[d] = IF d = c THEN v ELSE call[d]
         /\ \A s : In(s)' = IF s = v THEN In(s) \cup {c} ELSE In(s) \ {c}
         /\ Ended' = IF v \in {"new", "active"} THEN Ended \ {c} ELSE Ended \cup {c}
  <1>1. AllCalls' = AllCalls
    BY DEF AllCalls
  <1>2. call \in [AllCalls -> States]
    BY DEF RelTypes
  <1>3. call' \in [AllCalls -> States]
    BY <1>2
  <1>4. \A d \in AllCalls : call'[d] = IF d = c THEN v ELSE call[d]
    BY <1>2
  <1>5. \A s : In(s)' = IF s = v THEN In(s) \cup {c} ELSE In(s) \ {c}
    BY <1>1, <1>4 DEF In
  <1>6. Ended' = IF v \in {"new", "active"} THEN Ended \ {c} ELSE Ended \cup {c}
    BY <1>1, <1>4 DEF Ended
  <1> QED BY <1>1, <1>3, <1>4, <1>5, <1>6
\* Deliveries in turn never go to one replica twice in a row.
LEMMA NextReplicaDiffers ==
  ASSUME NEW c \in Nat, NEW r \in Nat, r >= 2
  PROVE  c % r # (c + 1) % r
  <1> DEFINE a == c \div r  b == (c + 1) \div r
  <1>1. c = a * r + (c % r) /\ c + 1 = b * r + ((c + 1) % r)
    OBVIOUS
  <1>2. a \in Int /\ b \in Int /\ c % r \in Int /\ (c + 1) % r \in Int
    OBVIOUS
  <1> HIDE DEF a, b
  <1>3. SUFFICES ASSUME c % r = (c + 1) % r PROVE FALSE
    OBVIOUS
  <1>4. a * r + 1 = b * r
    BY <1>1, <1>2, <1>3
  <1>5. (b - a) * r = 1
    BY <1>2, <1>4
  <1>6. b - a >= 1
    BY <1>2, <1>5
  <1> QED BY <1>2, <1>5, <1>6

LEMMA RetryBudget ==
  ASSUME NEW a \in Nat, NEW b \in Nat, NEW k \in Nat
  PROVE  /\ (a + 1) * k = a * k + k /\ a * k \in Nat
         /\ a <= b => a * k <= b * k
  OBVIOUS

-----------------------------------------------------------------------------
\* A step within the run has nothing to show of a verdict.
LEMMA StaysInRun ==
  ASSUME RelTypes', phase' = "run", CallsPlaced', SequelOver', LoadInv', FairnessInv',
         RetryInv', StatelessInv', DependencyInv', RolloutInv'
  PROVE  RelInv'
  BY DEF RelInv, VerdictKept

LEMMA SubmitKeeps ==
  ASSUME RelInv, Submit
  PROVE  RelInv'
  <1>1. PICK p \in Plans, d \in Defects \cup {None} :
          /\ ValidPlan(p) /\ plan' = p /\ defect' = d
          /\ call' = [c \in CallsOf(p) |-> "new"]
    BY DEF Submit
  <1>2. /\ phase = "submit" /\ phase' = "run" /\ peak' = 0 /\ turn' = 0 /\ served' = 0
        /\ counters' \in Counts
        /\ counters' = [effects |-> 0, runtime |-> 0, other |-> 0, rejected |-> 0, held |-> 0,
                        stale |-> 0, closed |-> 0, dropped |-> 0, opened |-> 0, memory |-> 0,
                        capacity |-> 0, restored |-> 0]
    BY DEF Submit, RelInv, RelTypes
  <1>3. AllCalls' = CallsOf(p) /\ \A c \in AllCalls' : call'[c] = "new"
    BY <1>1 DEF AllCalls
  <1>4. RelTypes'
    BY <1>1, <1>2, <1>3 DEF RelTypes, States
  <1>5. ~ Judged' /\ phase' # "submit"
    BY <1>2 DEF Judged
  <1>6. CallsPlaced'
    <2>1. \A sc : "new" \in CallStates(sc, "run")
      BY DEF CallStates
    <2> QED BY <1>3, <1>5, <2>1 DEF CallsPlaced
  <1>7. Sequel' \in Nat
    BY <1>1, ReliabilityAssumptions DEF Sequel, Scenarios
  <1>8. SequelOver'
    BY <1>2, <1>5, <1>7 DEF SequelOver
  <1>9. /\ In("active")' = {} /\ In("held")' = {} /\ Ended' = {}
    BY <1>3 DEF In, Ended
  <1>10. Cardinality({}) = 0
    BY FS_EmptySet
  <1>11. LoadInv'
    BY <1>1, <1>2, <1>9, <1>10, ReliabilityAssumptions DEF LoadInv
  <1>12. FairnessInv'
    BY <1>1, <1>2, <1>3, <1>5, <1>9, <1>10, ReliabilityAssumptions DEF FairnessInv
  <1>13. MaxAttempts - 1 \in Nat /\ 0 <= 0 * (MaxAttempts - 1)
    BY ReliabilityAssumptions
  <1>14. RetryInv' /\ StatelessInv'
    BY <1>2, <1>9, <1>10, <1>13 DEF RetryInv, StatelessInv
  <1>15. DependencyInv'
    BY <1>9 DEF DependencyInv
  <1>16. RolloutInv'
    BY <1>2, <1>5 DEF RolloutInv
  <1> QED BY <1>2, <1>4, <1>6, <1>8, <1>11, <1>12, <1>14, <1>15, <1>16, StaysInRun

LEMMA InvokedKeeps ==
  ASSUME RelInv, NEW c \in AllCalls, Invoked(c)
  PROVE  RelInv'
  <1>1. /\ phase = "run" /\ phase' = "run" /\ call[c] = "new" /\ plan' = plan /\ defect' = defect
        /\ call' = [call EXCEPT ![c] = "active"] /\ turn' = turn /\ served' = served
        /\ counters' = counters /\ verdict' = verdict
    BY DEF Invoked
  <1>2. /\ RelTypes /\ CallsPlaced /\ SequelOver /\ LoadInv /\ FairnessInv /\ RetryInv
        /\ StatelessInv /\ DependencyInv /\ RolloutInv
    BY <1>1 DEF RelInv
  <1>3. ~ Judged /\ ~ Judged' /\ phase # "submit"
    BY <1>1 DEF Judged
  <1>4. /\ AllCalls' = AllCalls /\ call' \in [AllCalls -> States]
        /\ \A d \in AllCalls : call'[d] = IF d = c THEN "active" ELSE call[d]
        /\ \A s : In(s)' = IF s = "active" THEN In(s) \cup {c} ELSE In(s) \ {c}
        /\ Ended' = Ended \ {c}
    BY <1>1, <1>2, <1>3, OneCall DEF States
  <1>5. Ended' = Ended /\ In("held")' = In("held") /\ c \notin In("active")
    BY <1>1, <1>4 DEF Ended, In
  <1>6. /\ In("active") \in SUBSET AllCalls
    BY DEF In
  <1>7. IsFiniteSet(In("active")) /\ Cardinality(In("active")) \in Nat
    BY <1>2, <1>3, <1>6, CallsCounted
  <1>8. Cardinality(In("active")') = Cardinality(In("active")) + 1
    BY <1>4, <1>5, <1>7, FS_AddElement
  <1>9. peak' \in Nat /\ (peak' = peak \/ peak' = Cardinality(In("active")) + 1)
    <2>1. peak \in Nat /\ Cardinality(In("active")) + 1 \in Nat
      BY <1>2, <1>7 DEF RelTypes
    <2>2. peak' = Max({peak, Cardinality(In("active")) + 1})
      BY DEF Invoked
    <2> QED BY <2>1, <2>2, MaxOfTwo
  <1>10. RelTypes'
    BY <1>1, <1>2, <1>3, <1>4, <1>9 DEF RelTypes
  <1>11. CallsPlaced'
    <2>1. \A sc : "active" \in CallStates(sc, "run")
      BY DEF CallStates
    <2> QED BY <1>1, <1>2, <1>3, <1>4, <2>1 DEF CallsPlaced
  <1>12. SequelOver'
    BY <1>1, <1>2, <1>3 DEF SequelOver, Sequel
  <1>13. LoadInv'
    <2>1. CASE plan.scenario \in {"load", "soak"}
      <3>1. Cardinality(In("active")) < plan.width /\ plan.width \in Nat
        BY <1>2, <1>3, <2>1, ReliabilityAssumptions DEF Invoked, RelTypes
      <3> QED BY <1>1, <1>2, <1>7, <1>8, <1>9, <2>1, <3>1 DEF LoadInv
    <2>2. CASE plan.scenario \notin {"load", "soak"}
      BY <1>1, <2>2 DEF LoadInv
    <2> QED BY <2>1, <2>2
  <1>14. FairnessInv' /\ RetryInv' /\ StatelessInv' /\ RolloutInv'
    <2>1. \A d \in Ended : call'[d] = call[d]
      BY <1>1, <1>4 DEF Ended
    <2>2. \A d \in AllCalls : call[d] # "lost" => call'[d] # "lost"
      BY <1>4
    <2> QED BY <1>1, <1>2, <1>3, <1>4, <1>5, <2>1, <2>2
            DEF FairnessInv, RetryInv, StatelessInv, RolloutInv
  <1>15. DependencyInv'
    <2>1. \A d \in Ended : call'[d] = call[d] /\ d \in AllCalls
      BY <1>1, <1>4 DEF Ended
    <2>2. \A d : FailureOutcomes(d)' = FailureOutcomes(d)
      BY <1>1 DEF FailureOutcomes, Affected
    <2>3. Affected' = Affected
      BY <1>1 DEF Affected
    <2> QED BY <1>1, <1>2, <1>5, <2>1, <2>2, <2>3 DEF DependencyInv
  <1> QED BY <1>1, <1>10, <1>11, <1>12, <1>13, <1>14, <1>15, StaysInRun
\* What every answer has in common.
LEMMA AnswerMoves ==
  ASSUME RelInv, NEW c \in AllCalls, Answered(c), NEW v \in States \ {"new", "active"},
         call' = [call EXCEPT ![c] = v]
  PROVE  /\ phase = "run" /\ phase' = "run" /\ call[c] = "active" /\ plan' = plan
         /\ defect' = defect /\ peak' = peak /\ turn' = turn /\ served' = served
         /\ RelTypes /\ CallsPlaced /\ SequelOver /\ ~ Judged /\ ~ Judged'
         /\ LoadInv /\ FairnessInv /\ RetryInv /\ StatelessInv /\ DependencyInv /\ RolloutInv
         /\ AllCalls' = AllCalls /\ c \notin Ended
         /\ \A d \in AllCalls : call'[d] = IF d = c THEN v ELSE call[d]
         /\ \A s : In(s)' = IF s = v THEN In(s) \cup {c} ELSE In(s) \ {c}
         /\ Ended' = Ended \cup {c}
         /\ SequelOver'
         /\ counters' \in Counts => RelTypes'
         /\ v \in CallStates(plan.scenario, "run") => CallsPlaced'
  <1>1. /\ phase = "run" /\ phase' = "run" /\ call[c] = "active" /\ plan' = plan
        /\ defect' = defect /\ peak' = peak /\ turn' = turn /\ served' = served
        /\ verdict' = verdict
    BY DEF Answered
  <1>2. /\ RelTypes /\ CallsPlaced /\ SequelOver /\ LoadInv /\ FairnessInv /\ RetryInv
        /\ StatelessInv /\ DependencyInv /\ RolloutInv
    BY <1>1 DEF RelInv
  <1>3. ~ Judged /\ ~ Judged' /\ phase # "submit"
    BY <1>1 DEF Judged
  <1>4. /\ AllCalls' = AllCalls /\ call' \in [AllCalls -> States]
        /\ \A d \in AllCalls : call'[d] = IF d = c THEN v ELSE call[d]
        /\ \A s : In(s)' = IF s = v THEN In(s) \cup {c} ELSE In(s) \ {c}
        /\ Ended' = Ended \cup {c}
    BY <1>1, <1>2, <1>3, OneCall
  <1>5. c \notin Ended
    BY <1>1 DEF Ended
  <1>6. SequelOver'
    BY <1>1, <1>2, <1>3 DEF SequelOver, Sequel
  <1>7. counters' \in Counts => RelTypes'
    BY <1>1, <1>2, <1>3, <1>4 DEF RelTypes
  <1>8. v \in CallStates(plan.scenario, "run") => CallsPlaced'
    BY <1>1, <1>2, <1>3, <1>4 DEF CallsPlaced
  <1> QED BY <1>1, <1>2, <1>3, <1>4, <1>5, <1>6, <1>7, <1>8

LEMMA LoadAnsweredKeeps ==
  ASSUME RelInv, NEW c \in AllCalls, Answered(c), LoadAnswered(c)
  PROVE  RelInv'
  <1>1. PICK v \in {"success", "unavailable", "cancelled"} : call' = [call EXCEPT ![c] = v]
    BY DEF LoadAnswered
  <1>2. v \in States \ {"new", "active"}
    BY DEF States
  <1>3. plan.scenario \in {"load", "soak"}
    BY DEF LoadAnswered
  <1>4. /\ phase = "run" /\ phase' = "run" /\ plan' = plan /\ defect' = defect /\ peak' = peak
        /\ RelTypes /\ LoadInv /\ SequelOver'
        /\ \A s : In(s)' = IF s = v THEN In(s) \cup {c} ELSE In(s) \ {c}
        /\ counters' \in Counts => RelTypes'
        /\ v \in CallStates(plan.scenario, "run") => CallsPlaced'
    BY <1>1, <1>2, AnswerMoves
  <1>5. counters \in Counts
    BY <1>4 DEF RelTypes
  <1>6. counters' \in Counts /\ (defect # "leaks" => counters' = counters)
    BY <1>5 DEF LoadAnswered, Counts
  <1>7. v \in CallStates(plan.scenario, "run")
    BY <1>3 DEF CallStates
  <1>8. Cardinality(In("active")') <= plan.width
    <2>1. In("active")' \in SUBSET In("active")
      BY <1>4
    <2>2. In("active") \in SUBSET AllCalls
      BY DEF In
    <2>3. IsFiniteSet(In("active")) /\ Cardinality(In("active")) \in Nat
      BY <1>4, <2>2, CallsCounted
    <2>4. /\ Cardinality(In("active")') <= Cardinality(In("active"))
          /\ Cardinality(In("active")') \in Nat
      BY <2>1, <2>3, FS_Subset, FS_CardinalityType
    <2>5. plan.width \in Nat
      BY <1>3, <1>4, ReliabilityAssumptions DEF RelTypes
    <2> QED BY <1>3, <1>4, <2>3, <2>4, <2>5 DEF LoadInv
  <1>9. LoadInv'
    BY <1>3, <1>4, <1>6, <1>8 DEF LoadInv
  <1>10. FairnessInv' /\ RetryInv' /\ StatelessInv' /\ DependencyInv' /\ RolloutInv'
    BY <1>3, <1>4 DEF FairnessInv, RetryInv, StatelessInv, DependencyInv, RolloutInv
  <1> QED BY <1>4, <1>6, <1>7, <1>9, <1>10, StaysInRun

LEMMA NoisyAnsweredKeeps ==
  ASSUME RelInv, NEW c \in AllCalls, Answered(c), NoisyAnswered(c)
  PROVE  RelInv'
  <1> DEFINE v == IF Admits THEN "held" ELSE "overloaded"
  <1>1. call' = [call EXCEPT ![c] = v] /\ plan.scenario = "fairness" /\ counters' = counters
    BY DEF NoisyAnswered
  <1>2. v \in States \ {"new", "active"} /\ v \in CallStates(plan.scenario, "run")
    BY <1>1 DEF States, CallStates
  <1>3. /\ phase = "run" /\ phase' = "run" /\ call[c] = "active" /\ plan' = plan
        /\ defect' = defect /\ turn' = turn /\ served' = served /\ ~ Judged'
        /\ RelTypes /\ FairnessInv /\ SequelOver'
        /\ \A s : In(s)' = IF s = v THEN In(s) \cup {c} ELSE In(s) \ {c}
        /\ counters' \in Counts => RelTypes'
        /\ v \in CallStates(plan.scenario, "run") => CallsPlaced'
    BY <1>1, <1>2, AnswerMoves
  <1>4. counters' \in Counts
    BY <1>1, <1>3 DEF RelTypes
  <1>5. /\ In("held") \in SUBSET AllCalls /\ c \notin In("held")
    BY <1>3 DEF In
  <1>6. IsFiniteSet(In("held")) /\ Cardinality(In("held")) \in Nat
    BY <1>3, <1>5, CallsCounted
  <1>7. defect # "unlimited" => Cardinality(In("held")') <= plan.tenant
    <2>1. plan.tenant \in Nat
      BY <1>1, <1>3, ReliabilityAssumptions DEF RelTypes
    <2>2. CASE Admits
      <3>1. In("held")' = In("held") \cup {c}
        BY <1>3, <2>2
      <3>2. Cardinality(In("held")') = Cardinality(In("held")) + 1
        BY <1>5, <1>6, <3>1, FS_AddElement
      <3>3. defect # "unlimited" => Cardinality(In("held")) < plan.tenant
        BY <2>2 DEF Admits
      <3> QED BY <1>6, <2>1, <3>2, <3>3
    <2>3. CASE ~ Admits
      <3>1. In("held")' = In("held")
        BY <1>3, <1>5, <2>3
      <3> QED BY <1>1, <1>3, <3>1 DEF FairnessInv
    <2> QED BY <2>2, <2>3
  <1>8. FairnessInv'
    <2>1. \A d \in AllCalls : call'[d] # call[d] => call'[d] = v
      BY <1>1, <1>3 DEF RelTypes
    <2>found. v # "lost"
      OBVIOUS
    <2>3. defect # "loses_call" => \A d \in AllCalls : call'[d] # "lost"
      BY <1>1, <1>3, <2>1, <2>found DEF FairnessInv
    <2>2. AllCalls' = AllCalls
      BY <1>3 DEF AllCalls
    <2> QED BY <1>1, <1>3, <1>7, <2>2, <2>3 DEF FairnessInv
  <1>9. LoadInv' /\ RetryInv' /\ StatelessInv' /\ DependencyInv' /\ RolloutInv'
    BY <1>1, <1>3 DEF LoadInv, RetryInv, StatelessInv, DependencyInv, RolloutInv
  <1> QED BY <1>2, <1>3, <1>4, <1>8, <1>9, StaysInRun

LEMMA DuplicateAnsweredKeeps ==
  ASSUME RelInv, NEW c \in AllCalls, Answered(c), DuplicateAnswered(c)
  PROVE  RelInv'
  <1>1. PICK v \in {"success", "unavailable"} :
          /\ call' = [call EXCEPT ![c] = v] /\ plan.scenario = "retry"
          /\ defect # "loses_replay" => v = "success"
    BY DEF DuplicateAnswered, Replayed
  <1>2. v \in States \ {"new", "active"} /\ v \in CallStates(plan.scenario, "run")
    BY <1>1 DEF States, CallStates
  <1>3. /\ phase = "run" /\ phase' = "run" /\ plan' = plan /\ defect' = defect
        /\ RelTypes /\ RetryInv /\ SequelOver' /\ c \notin Ended /\ Ended' = Ended \cup {c}
        /\ counters' \in Counts => RelTypes'
        /\ \A d \in AllCalls : call'[d] = IF d = c THEN v ELSE call[d]
        /\ v \in CallStates(plan.scenario, "run") => CallsPlaced'
    BY <1>1, <1>2, AnswerMoves
  <1>4. counters \in Counts /\ MaxAttempts - 1 \in Nat
    BY <1>3, ReliabilityAssumptions DEF RelTypes
  <1>5. PICK n \in {0, MaxAttempts - 1} :
          counters' = [counters EXCEPT
                         !.effects = IF @ = 0 \/ defect = "forgets_key" THEN @ + 1 ELSE @,
                         !.runtime = @ + n,
                         !.other = IF defect = "amplifies" THEN @ + 1 ELSE @]
    BY DEF DuplicateAnswered, Delivered
  <1>6. /\ counters' \in Counts
        /\ counters'.effects = IF counters.effects = 0 \/ defect = "forgets_key"
                                 THEN counters.effects + 1 ELSE counters.effects
        /\ counters'.runtime = counters.runtime + n
        /\ defect # "amplifies" => counters'.other = counters.other
    <2> DEFINE e == IF counters.effects = 0 \/ defect = "forgets_key" THEN counters.effects + 1
                    ELSE counters.effects
               r == counters.runtime + n
               o == IF defect = "amplifies" THEN counters.other + 1 ELSE counters.other
    <2>1. counters' = [counters EXCEPT !.effects = e, !.runtime = r, !.other = o]
      BY <1>5
    <2>2. e \in Nat /\ r \in Nat /\ o \in Nat
      BY <1>4 DEF Counts
    <2>3. defect # "amplifies" => o = counters.other
      OBVIOUS
    <2> HIDE DEF e, r, o
    <2>4. /\ counters' \in Counts
          /\ counters'.effects = e /\ counters'.runtime = r /\ counters'.other = o
      BY <1>4, <2>1, <2>2 DEF Counts
    <2> QED BY <2>3, <2>4 DEF e, r
  <1>7. Ended \in SUBSET AllCalls
    BY DEF Ended
  <1>8. IsFiniteSet(Ended) /\ Cardinality(Ended) \in Nat
    BY <1>3, <1>7, CallsCounted
  <1>9. Cardinality(Ended') = Cardinality(Ended) + 1
    BY <1>3, <1>8, FS_AddElement
  <1>10. counters'.runtime <= Cardinality(Ended') * (MaxAttempts - 1)
    <2> DEFINE a == Cardinality(Ended)  k == MaxAttempts - 1
    <2>1. (a + 1) * k = a * k + k /\ a * k \in Nat
      BY <1>4, <1>8, RetryBudget
    <2>2. counters.runtime <= a * k /\ counters.runtime \in Nat
      BY <1>1, <1>3, <1>4 DEF RetryInv, Counts
    <2>3. n <= k /\ n \in Nat
      BY <1>4
    <2>4. Cardinality(Ended') * k = a * k + k
      BY <1>9, <2>1
    <2> HIDE DEF a, k
    <2>5. counters'.runtime <= a * k + k
      BY <1>6, <2>1, <2>2, <2>3, <1>4 DEF k
    <2> QED BY <2>4, <2>5 DEF k
  <1>11. RetryInv'
    <2>1. Ended' # {}
      BY <1>3
    <2>2. defect # "forgets_key" => counters'.effects = 1
      BY <1>1, <1>3, <1>6 DEF RetryInv
    <2>3. defect # "loses_replay" => \A d \in Ended' : call'[d] = "success"
      BY <1>1, <1>3, <1>7 DEF RetryInv
    <2> QED BY <1>1, <1>3, <1>6, <1>10, <2>1, <2>2, <2>3 DEF RetryInv
  <1>12. LoadInv' /\ FairnessInv' /\ StatelessInv' /\ DependencyInv' /\ RolloutInv'
    BY <1>1, <1>3 DEF LoadInv, FairnessInv, StatelessInv, DependencyInv, RolloutInv
  <1> QED BY <1>2, <1>3, <1>6, <1>11, <1>12, StaysInRun

LEMMA StatelessAnsweredKeeps ==
  ASSUME RelInv, NEW c \in AllCalls, Answered(c), StatelessAnswered(c)
  PROVE  RelInv'
  <1>1. PICK v \in {"success", "unavailable"} :
          /\ call' = [call EXCEPT ![c] = v] /\ plan.scenario = "stateless"
          /\ defect # "loses_replay" => v = "success"
    BY DEF StatelessAnswered, Replayed
  <1>2. v \in States \ {"new", "active"} /\ v \in CallStates(plan.scenario, "run")
    BY <1>1 DEF States, CallStates
  <1>3. /\ phase = "run" /\ phase' = "run" /\ plan' = plan /\ defect' = defect
        /\ RelTypes /\ StatelessInv /\ SequelOver' /\ Ended' = Ended \cup {c}
        /\ counters' \in Counts => RelTypes'
        /\ \A d \in AllCalls : call'[d] = IF d = c THEN v ELSE call[d]
        /\ v \in CallStates(plan.scenario, "run") => CallsPlaced'
    BY <1>1, <1>2, AnswerMoves
  <1>4. counters \in Counts
    BY <1>3 DEF RelTypes
  <1>5. /\ counters' \in Counts
        /\ counters'.effects = IF counters.effects = 0 \/ defect = "forgets_key"
                                 THEN counters.effects + 1 ELSE counters.effects
        /\ counters'.memory = IF defect = "remembers" THEN counters.memory + 1
                              ELSE counters.memory
        /\ counters.memory \in Nat
    <2> DEFINE e == IF counters.effects = 0 \/ defect = "forgets_key" THEN counters.effects + 1
                    ELSE counters.effects
               m == IF defect = "remembers" THEN counters.memory + 1 ELSE counters.memory
    <2>1. counters' = [counters EXCEPT !.effects = e, !.memory = m]
      BY DEF StatelessAnswered
    <2>2. e \in Nat /\ m \in Nat /\ counters.memory \in Nat
      BY <1>4 DEF Counts
    <2> HIDE DEF e, m
    <2>3. counters' \in Counts /\ counters'.effects = e /\ counters'.memory = m
      BY <1>4, <2>1, <2>2 DEF Counts
    <2> QED BY <2>2, <2>3 DEF e, m
  <1>6. StatelessInv'
    <2>1. Ended' # {}
      BY <1>3
    <2>2. defect # "forgets_key" => counters'.effects = 1
      BY <1>1, <1>3, <1>5 DEF StatelessInv
    <2>3. defect # "loses_replay" => \A d \in Ended' : call'[d] = "success"
      BY <1>1, <1>3 DEF StatelessInv, Ended
    <2> QED BY <1>1, <1>3, <1>5, <2>1, <2>2, <2>3 DEF StatelessInv
  <1>7. LoadInv' /\ FairnessInv' /\ RetryInv' /\ DependencyInv' /\ RolloutInv'
    BY <1>1, <1>3 DEF LoadInv, FairnessInv, RetryInv, DependencyInv, RolloutInv
  <1> QED BY <1>2, <1>3, <1>5, <1>6, <1>7, StaysInRun
LEMMA OutageAnsweredKeeps ==
  ASSUME RelInv, NEW c \in AllCalls, Answered(c), OutageAnswered(c)
  PROVE  RelInv'
  <1>1. PICK v \in FailureOutcomes(c) :
          /\ call' = [call EXCEPT ![c] = v] /\ plan.scenario = "dependency"
          /\ counters' = FailureCounted(c)
    BY DEF OutageAnswered
  <1>2. v \in {"success", "unavailable", "timeout", "authentication_denied"}
    BY DEF FailureOutcomes
  <1>3. v \in States \ {"new", "active"} /\ v \in CallStates(plan.scenario, "run")
    BY <1>1, <1>2 DEF States, CallStates
  <1>4. /\ phase = "run" /\ phase' = "run" /\ plan' = plan /\ defect' = defect
        /\ RelTypes /\ DependencyInv /\ SequelOver' /\ Ended' = Ended \cup {c}
        /\ \A d \in AllCalls : call'[d] = IF d = c THEN v ELSE call[d]
        /\ counters' \in Counts => RelTypes'
        /\ v \in CallStates(plan.scenario, "run") => CallsPlaced'
    BY <1>1, <1>3, AnswerMoves
  <1>5. counters \in Counts
    BY <1>4 DEF RelTypes
  <1>6. c \in Nat /\ StaleCalls \in Nat
    BY <1>4, CallsCounted, ReliabilityAssumptions
  <1>7. /\ counters' \in Counts
        /\ counters'.stale >= counters.stale /\ counters'.closed >= counters.closed
        /\ counters'.dropped >= counters.dropped /\ counters'.opened >= counters.opened
        /\ c \in Affected =>
             /\ plan.dependency = "identity" => IF c <= StaleCalls THEN counters'.stale > 0
                                                ELSE counters'.closed > 0
             /\ plan.dependency = "telemetry" => counters'.dropped > 0
             /\ plan.dependency \in {"dns", "backing_api"} /\ c = CircuitCall =>
                  counters'.opened > 0
    <2>1. CASE counters' = counters
               /\ (c \in Affected => /\ plan.dependency \notin {"identity", "telemetry"}
                                     /\ ~ (plan.dependency \in {"dns", "backing_api"}
                                           /\ c = CircuitCall))
      BY <1>5, <2>1 DEF Counts
    <2>2. CASE plan.dependency = "identity" /\ c <= StaleCalls
               /\ counters' = [counters EXCEPT !.stale = counters.stale + 1]
      BY <1>5, <2>2 DEF Counts
    <2>3. CASE plan.dependency = "identity" /\ ~ c <= StaleCalls
               /\ counters' = [counters EXCEPT !.closed = counters.closed + 1]
      BY <1>5, <2>3 DEF Counts
    <2>4. CASE plan.dependency = "telemetry"
               /\ counters' = [counters EXCEPT !.dropped = counters.dropped + 1]
      BY <1>5, <2>4 DEF Counts
    <2>5. CASE plan.dependency \in {"dns", "backing_api"} /\ c = CircuitCall
               /\ counters' = [counters EXCEPT !.opened = counters.opened + 1]
      BY <1>5, <2>5 DEF Counts
    <2> QED BY <1>1, <1>6, <2>1, <2>2, <2>3, <2>4, <2>5 DEF FailureCounted
  <1>8. DependencyInv'
    <2>1. Affected' = Affected
      BY <1>4 DEF Affected
    <2>2. \A d : FailureOutcomes(d)' = FailureOutcomes(d)
      BY <1>4 DEF FailureOutcomes, Affected
    <2>3. Ended \subseteq AllCalls
      BY DEF Ended
    <2>4. \A d \in Ended' : call'[d] \in FailureOutcomes(d)'
      BY <1>1, <1>4, <2>1, <2>2, <2>3 DEF DependencyInv
    <2>5. /\ counters.stale \in Nat /\ counters.closed \in Nat /\ counters.dropped \in Nat
          /\ counters.opened \in Nat /\ counters'.stale \in Nat /\ counters'.closed \in Nat
          /\ counters'.dropped \in Nat /\ counters'.opened \in Nat
      BY <1>5, <1>7 DEF Counts
    <2>6. ASSUME NEW d \in Ended' \cap Affected
          PROVE  /\ plan.dependency = "identity" => IF d <= StaleCalls THEN counters'.stale > 0
                                                    ELSE counters'.closed > 0
                 /\ plan.dependency = "telemetry" => counters'.dropped > 0
                 /\ plan.dependency \in {"dns", "backing_api"} /\ d = CircuitCall =>
                      counters'.opened > 0
      <3>1. CASE d = c
        BY <1>7, <2>6, <3>1
      <3>2. CASE d \in Ended
        BY <1>1, <1>4, <1>7, <2>5, <2>6, <3>2 DEF DependencyInv
      <3> QED BY <1>4, <2>6, <3>1, <3>2
    <2> QED BY <1>1, <1>4, <2>1, <2>4, <2>6 DEF DependencyInv
  <1>9. LoadInv' /\ FairnessInv' /\ RetryInv' /\ StatelessInv' /\ RolloutInv'
    BY <1>1, <1>4 DEF LoadInv, FairnessInv, RetryInv, StatelessInv, RolloutInv
  <1> QED BY <1>3, <1>4, <1>7, <1>8, <1>9, StaysInRun

LEMMA AcceptedKeeps ==
  ASSUME RelInv, NEW c \in AllCalls, Answered(c), Accepted(c)
  PROVE  RelInv'
  <1>1. /\ call' = [call EXCEPT ![c] = "held"] /\ plan.scenario = "rollout"
        /\ counters' = counters
    BY DEF Accepted
  <1>2. "held" \in States \ {"new", "active"} /\ "held" \in CallStates(plan.scenario, "run")
    BY <1>1 DEF States, CallStates
  <1>3. /\ phase = "run" /\ phase' = "run" /\ plan' = plan /\ defect' = defect /\ turn' = turn
        /\ served' = served /\ ~ Judged' /\ RelTypes /\ RolloutInv /\ SequelOver'
        /\ counters' \in Counts => RelTypes'
        /\ "held" \in CallStates(plan.scenario, "run") => CallsPlaced'
    BY <1>1, <1>2, AnswerMoves
  <1>4. counters' \in Counts
    BY <1>1, <1>3 DEF RelTypes
  <1>5. LoadInv' /\ FairnessInv' /\ RetryInv' /\ StatelessInv' /\ DependencyInv' /\ RolloutInv'
    BY <1>1, <1>3
       DEF LoadInv, FairnessInv, RetryInv, StatelessInv, DependencyInv, RolloutInv
  <1> QED BY <1>2, <1>3, <1>4, <1>5, StaysInRun

LEMMA AnsweredKeeps ==
  ASSUME RelInv, NEW c \in AllCalls, Answered(c)
  PROVE  RelInv'
  <1>1. \/ LoadAnswered(c) \/ NoisyAnswered(c) \/ DuplicateAnswered(c)
        \/ StatelessAnswered(c) \/ OutageAnswered(c) \/ Accepted(c)
    BY DEF Answered
  <1> QED BY <1>1, LoadAnsweredKeeps, NoisyAnsweredKeeps, DuplicateAnsweredKeeps,
             StatelessAnsweredKeeps, OutageAnsweredKeeps, AcceptedKeeps

LEMMA FollowUpKeeps ==
  ASSUME RelInv, FollowUp
  PROVE  RelInv'
  <1>1. /\ phase = "run" /\ phase' = "run" /\ turn < Sequel /\ turn' = turn + 1
        /\ plan' = plan /\ defect' = defect /\ peak' = peak /\ verdict' = verdict
        /\ In("cancelled") = {}
        /\ ReservedCall \/ LateCall \/ NextCycle
    BY DEF FollowUp
  <1>2. /\ RelTypes /\ CallsPlaced /\ SequelOver /\ LoadInv /\ FairnessInv /\ RetryInv
        /\ StatelessInv /\ DependencyInv /\ RolloutInv
    BY <1>1 DEF RelInv
  <1>3. ~ Judged /\ ~ Judged' /\ phase # "submit" /\ AllCalls' = AllCalls /\ plan \in Plans
    BY <1>1, <1>2 DEF Judged, AllCalls, RelTypes
  <1>4. SequelOver'
    <2>1. Sequel \in Nat /\ Sequel' = Sequel /\ turn \in Nat
      BY <1>1, <1>2, <1>3, ReliabilityAssumptions DEF Sequel, Scenarios, RelTypes
    <2> QED BY <1>1, <1>3, <2>1 DEF SequelOver
  <1>5. turn \in Nat /\ served \in Nat /\ counters \in Counts
    BY <1>2 DEF RelTypes
  <1>6. CASE ReservedCall
    <2>1. plan.scenario = "fairness" /\ call' = call /\ counters' = counters
      BY <1>6 DEF ReservedCall
    <2>2. RelTypes' /\ CallsPlaced'
      BY <1>1, <1>2, <1>3, <1>6, <2>1 DEF RelTypes, CallsPlaced, ReservedCall
    <2>3. In("held") \in SUBSET AllCalls /\ In("held")' = In("held")
      BY <1>3, <2>1 DEF In
    <2>4. Cardinality(In("held")) \in Nat
      BY <1>2, <1>3, <2>3, CallsCounted
    <2>5. /\ plan.tenant \in Nat /\ plan.tool \in Nat /\ plan.reserved \in Nat \ {0}
          /\ plan.tenant + plan.reserved <= plan.tool
      BY <1>2, <1>3, <2>1, ReliabilityAssumptions
         DEF RelTypes, ValidPlan, ReliabilityFairnessPlan
    <2>6. defect # "unlimited" => served' = served + 1
      BY <1>2, <1>6, <2>1, <2>4, <2>5 DEF FairnessInv, ReservedCall
    <2>7. served' <= served + 1
      BY <1>5, <1>6 DEF ReservedCall
    <2>8. served' \in Nat
      BY <2>2 DEF RelTypes
    <2>9. FairnessInv'
      BY <1>1, <1>2, <1>3, <1>5, <2>1, <2>3, <2>6, <2>7, <2>8 DEF FairnessInv
    <2>10. LoadInv' /\ RetryInv' /\ StatelessInv' /\ DependencyInv' /\ RolloutInv'
      BY <1>1, <2>1 DEF LoadInv, RetryInv, StatelessInv, DependencyInv, RolloutInv
    <2> QED BY <1>1, <1>4, <2>2, <2>9, <2>10, StaysInRun
  <1>7. CASE LateCall
    <2>1. plan.scenario = "rollout" /\ call' = call
      BY <1>7 DEF LateCall
    <2>late. PICK open \in {FALSE, defect = "accepts_late"} :
            /\ served' = IF open THEN served + 1 ELSE served
            /\ counters' = [counters EXCEPT !.rejected = IF open THEN @ ELSE @ + 1]
      BY <1>7 DEF LateCall
    <2> DEFINE n == IF open THEN counters.rejected ELSE counters.rejected + 1
    <2>2. n \in Nat /\ counters.rejected \in Nat /\ counters' = [counters EXCEPT !.rejected = n]
      BY <1>5, <2>late DEF Counts
    <2>3. counters' \in Counts /\ counters'.rejected = n
      <3> HIDE DEF n
      <3> QED BY <1>5, <2>2 DEF Counts
    <2>4. RelTypes' /\ CallsPlaced'
      BY <1>1, <1>2, <1>3, <2>late, <2>1, <2>3 DEF RelTypes, CallsPlaced
    <2>5. RolloutInv'
      <3>1. served' + counters'.rejected = turn' /\ (defect # "accepts_late" => served' = 0)
        <4>1. served + counters.rejected = turn /\ (defect # "accepts_late" => served = 0)
          BY <1>2, <2>1 DEF RolloutInv
        <4>2. CASE open = TRUE
          <5>1. defect = "accepts_late"
            BY <2>late, <4>2
          <5>2. served' = served + 1 /\ counters'.rejected = counters.rejected
            BY <2>late, <2>3, <4>2
          <5> QED BY <1>1, <1>5, <2>2, <4>1, <5>1, <5>2
        <4>3. CASE open = FALSE
          <5>1. served' = served /\ counters'.rejected = counters.rejected + 1
            BY <2>late, <2>3, <4>3
          <5> QED BY <1>1, <1>5, <2>2, <4>1, <5>1
        <4> QED BY <2>late, <4>2, <4>3
      <3> QED BY <1>1, <1>3, <2>1, <3>1 DEF RolloutInv
    <2>6. LoadInv' /\ FairnessInv' /\ RetryInv' /\ StatelessInv' /\ DependencyInv'
      BY <1>1, <2>1 DEF LoadInv, FairnessInv, RetryInv, StatelessInv, DependencyInv
    <2> QED BY <1>1, <1>4, <2>4, <2>5, <2>6, StaysInRun
  <1>8. CASE NextCycle
    <2>1. /\ plan.scenario = "soak" /\ call' = [c \in AllCalls |-> "new"] /\ served' = served
          /\ counters' = counters
      BY <1>8 DEF NextCycle
    <2>2. RelTypes'
      BY <1>1, <1>2, <1>3, <2>1 DEF RelTypes, States
    <2>3. CallsPlaced'
      BY <1>1, <1>3, <2>1 DEF CallsPlaced, CallStates
    <2>4. In("active")' = {}
      BY <1>3, <2>1 DEF In
    <2>5. Cardinality({}) = 0 /\ plan.width \in Nat
      BY <1>3, <2>1, FS_EmptySet, ReliabilityAssumptions
    <2>6. LoadInv'
      <3>1. Cardinality(In("active")') <= plan.width
        BY <2>4, <2>5
      <3> QED BY <1>1, <1>2, <2>1, <3>1 DEF LoadInv
    <2>7. FairnessInv' /\ RetryInv' /\ StatelessInv' /\ DependencyInv' /\ RolloutInv'
      BY <1>1, <2>1 DEF FairnessInv, RetryInv, StatelessInv, DependencyInv, RolloutInv
    <2> QED BY <1>1, <1>4, <2>2, <2>3, <2>6, <2>7, StaysInRun
  <1> QED BY <1>1, <1>6, <1>7, <1>8
LEMMA DrainKeeps ==
  ASSUME RelInv, Drain
  PROVE  RelInv'
  <1>1. /\ phase = "run" /\ phase' = "drained" /\ Classified
        /\ turn = Sequel \/ In("cancelled") # {}
        /\ plan' = plan /\ defect' = defect /\ peak' = peak /\ turn' = turn /\ served' = served
        /\ verdict' = verdict
    BY DEF Drain
  <1>2. /\ RelTypes /\ CallsPlaced /\ SequelOver /\ LoadInv /\ FairnessInv /\ RetryInv
        /\ StatelessInv /\ DependencyInv /\ RolloutInv
    BY <1>1 DEF RelInv
  <1>3. ~ Judged /\ Judged' /\ phase # "submit" /\ AllCalls' = AllCalls /\ plan \in Plans
    BY <1>1, <1>2 DEF Judged, AllCalls, RelTypes
  <1>4. /\ call \in [AllCalls -> States] /\ counters \in Counts
        /\ plan.scenario \in Scenarios
    BY <1>2, <1>3, ReliabilityAssumptions DEF RelTypes
  <1>5. \A c \in AllCalls :
          call'[c] = IF call[c] # "held" THEN call[c]
                     ELSE IF defect = "loses_call" /\ c = 1 THEN "lost" ELSE "success"
    BY DEF Drain
  <1>6. call' \in [AllCalls -> States]
    BY <1>4 DEF Drain, States
  <1> DEFINE cap == IF defect = "shrinks" THEN 0 ELSE 1
             res == IF defect = "stays_down" THEN 0 ELSE 1
  <1>7. cap \in Nat /\ res \in Nat
        /\ counters' = [counters EXCEPT !.capacity = cap, !.restored = res]
    BY DEF Drain
  <1>8. /\ counters' \in Counts /\ counters'.capacity = cap /\ counters'.restored = res
        /\ counters'.held = counters.held /\ counters'.effects = counters.effects
        /\ counters'.runtime = counters.runtime /\ counters'.other = counters.other
        /\ counters'.rejected = counters.rejected /\ counters'.stale = counters.stale
        /\ counters'.closed = counters.closed /\ counters'.dropped = counters.dropped
        /\ counters'.opened = counters.opened /\ counters'.memory = counters.memory
    <2> HIDE DEF cap, res
    <2> QED BY <1>4, <1>7 DEF Counts
  <1> HIDE DEF cap, res
  <1>9. \A c \in AllCalls : call[c] \notin {"new", "active"} /\ call'[c] \notin {"new", "active"}
    BY <1>1, <1>5 DEF Classified
  <1>10. /\ In("active")' = {} /\ In("held")' = {} /\ In("cancelled")' = In("cancelled")
         /\ Ended' = Ended
    BY <1>3, <1>5, <1>9 DEF In, Ended
  <1>11. RelTypes'
    BY <1>1, <1>2, <1>3, <1>6, <1>8 DEF RelTypes
  <1>12. \A c \in AllCalls : call[c] \in CallStates(plan.scenario, "run") \ {"new", "active"}
    BY <1>2, <1>3, <1>9 DEF CallsPlaced
  <1>13. CallsPlaced'
    <2> SUFFICES ASSUME NEW c \in AllCalls
                 PROVE  call'[c] \in CallStates(plan.scenario, "drained")
      BY <1>1, <1>3 DEF CallsPlaced
    <2>1. call[c] \in CallStates(plan.scenario, "run") \ {"new", "active"}
      BY <1>12
    <2>2. CASE plan.scenario \in {"load", "soak"}
      BY <1>5, <2>1, <2>2 DEF CallStates
    <2>3. CASE plan.scenario = "fairness"
      BY <1>5, <2>1, <2>3 DEF CallStates
    <2>4. CASE plan.scenario = "rollout"
      BY <1>5, <2>1, <2>4 DEF CallStates
    <2>5. CASE plan.scenario = "dependency"
      BY <1>5, <2>1, <2>5 DEF CallStates
    <2>6. CASE plan.scenario \in {"retry", "stateless"}
      BY <1>5, <2>1, <2>6 DEF CallStates
    <2> QED BY <1>4, <2>2, <2>3, <2>4, <2>5, <2>6 DEF Scenarios
  <1>14. SequelOver'
    <2>1. Sequel' = Sequel
      BY <1>1 DEF Sequel
    <2>2. Classified'
      BY <1>3, <1>9 DEF Classified
    <2> QED BY <1>1, <1>2, <1>10, <2>1, <2>2 DEF SequelOver
  <1>15. Cardinality({}) = 0
    BY FS_EmptySet
  <1>16. LoadInv'
    <2>1. CASE plan.scenario \in {"load", "soak"}
      <3>1. plan.width \in Nat
        BY <1>3, <2>1, ReliabilityAssumptions
      <3>2. Cardinality(In("active")') <= plan.width
        BY <1>10, <1>15, <3>1
      <3> QED BY <1>1, <1>2, <1>8, <2>1, <3>2 DEF LoadInv
    <2>2. CASE plan.scenario \notin {"load", "soak"}
      BY <1>1, <2>2 DEF LoadInv
    <2> QED BY <2>1, <2>2
  <1>17. FairnessInv'
    <2>1. CASE plan.scenario = "fairness"
      <3>1. plan.tenant \in Nat
        BY <1>3, <2>1, ReliabilityAssumptions
      <3>2. In("success")' \in SUBSET In("held")
        <4>1. \A c \in AllCalls : call[c] # "success"
          BY <1>12, <2>1 DEF CallStates
        <4> QED BY <1>3, <1>5, <4>1 DEF In
      <3>3. In("held") \in SUBSET AllCalls
        BY DEF In
      <3>4. IsFiniteSet(In("held")) /\ Cardinality(In("held")) \in Nat
        BY <1>2, <1>3, <3>3, CallsCounted
      <3>5. /\ Cardinality(In("success")') <= Cardinality(In("held"))
            /\ Cardinality(In("success")') \in Nat
        BY <3>2, <3>4, FS_Subset, FS_CardinalityType
      <3>6. Cardinality(In("held")') <= plan.tenant
        BY <1>10, <1>15, <3>1
      <3>7. Cardinality(In("success")') <= plan.tenant \/ defect = "unlimited"
        BY <1>2, <2>1, <3>1, <3>4, <3>5 DEF FairnessInv
      <3>8. defect # "loses_call" => \A c \in AllCalls : call'[c] # "lost"
        BY <1>2, <1>5, <2>1 DEF FairnessInv
      <3> QED BY <1>1, <1>2, <1>3, <2>1, <3>6, <3>7, <3>8 DEF FairnessInv
    <2>2. CASE plan.scenario # "fairness"
      BY <1>1, <2>2 DEF FairnessInv
    <2> QED BY <2>1, <2>2
  <1>18. RetryInv' /\ StatelessInv'
    <2>1. Ended \subseteq AllCalls
      BY DEF Ended
    <2>2. \A c \in Ended : call[c] = "success" => call'[c] = "success"
      BY <1>5, <2>1
    <2> QED BY <1>1, <1>2, <1>8, <1>10, <2>2 DEF RetryInv, StatelessInv
  <1>19. DependencyInv'
    <2>1. CASE plan.scenario = "dependency"
      <3>1. \A c \in AllCalls : call'[c] = call[c]
        BY <1>5, <1>12, <2>1 DEF CallStates
      <3>2. Affected' = Affected /\ Ended \subseteq AllCalls
        BY <1>1 DEF Affected, Ended
      <3>3. \A d : FailureOutcomes(d)' = FailureOutcomes(d)
        BY <1>1 DEF FailureOutcomes, Affected
      <3> QED BY <1>1, <1>2, <1>8, <1>10, <2>1, <3>1, <3>2, <3>3 DEF DependencyInv
    <2>2. CASE plan.scenario # "dependency"
      BY <1>1, <2>2 DEF DependencyInv
    <2> QED BY <2>1, <2>2
  <1>20. RolloutInv'
    <2>1. CASE plan.scenario = "rollout"
      <3>1. \A c \in AllCalls : call[c] = "held"
        BY <1>12, <2>1 DEF CallStates
      <3>2. defect # "loses_call" => In("success")' = AllCalls'
        BY <1>3, <1>5, <3>1 DEF In
      <3> QED BY <1>1, <1>2, <1>8, <2>1, <3>2 DEF RolloutInv, cap, res
    <2>2. CASE plan.scenario # "rollout"
      BY <1>1, <2>2 DEF RolloutInv
    <2> QED BY <2>1, <2>2
  <1>21. VerdictKept'
    BY <1>1 DEF VerdictKept
  <1> QED BY <1>11, <1>13, <1>14, <1>16, <1>17, <1>18, <1>19, <1>20, <1>21 DEF RelInv

\* A step that only settles the verdict, or none.
LEMMA RestKeeps ==
  ASSUME RelInv, UNCHANGED <<plan, defect, call, peak, turn, served, counters>>,
         phase # "submit", phase' \in {"run", "drained", "done"},
         phase' = "run" => phase = "run", Judged' => Judged, VerdictKept',
         phase' = "run" => ~ Judged
  PROVE  RelInv'
  <1>1. AllCalls' = AllCalls /\ Ended' = Ended /\ Affected' = Affected /\ Sequel' = Sequel
        /\ Classified' = Classified
    BY DEF AllCalls, Ended, Affected, Sequel, Classified
  <1>2. \A s : In(s)' = In(s)
    BY <1>1 DEF In
  <1>3. \A d : FailureOutcomes(d)' = FailureOutcomes(d)
    BY DEF FailureOutcomes, Affected
  <1>4. RelTypes'
    BY <1>1 DEF RelInv, RelTypes
  <1>5. ASSUME phase' = "run" \/ Judged'
        PROVE  /\ CallsPlaced' /\ SequelOver' /\ LoadInv' /\ FairnessInv' /\ RetryInv'
               /\ StatelessInv' /\ DependencyInv' /\ RolloutInv'
    <2>1. /\ CallsPlaced /\ SequelOver /\ LoadInv /\ FairnessInv /\ RetryInv
          /\ StatelessInv /\ DependencyInv /\ RolloutInv
      BY <1>5 DEF RelInv
    <2>2. Judged' = Judged
      BY <1>5 DEF Judged
    <2>3. CallsPlaced'
      BY <1>1, <2>1, <2>2 DEF CallsPlaced
    <2>4. SequelOver'
      BY <1>1, <1>2, <2>1, <2>2 DEF SequelOver
    <2>5. LoadInv' /\ FairnessInv'
      BY <1>1, <1>2, <2>1, <2>2 DEF LoadInv, FairnessInv
    <2>6. RetryInv' /\ StatelessInv'
      BY <1>1, <2>1 DEF RetryInv, StatelessInv
    <2>7. DependencyInv'
      BY <1>1, <1>3, <2>1 DEF DependencyInv
    <2>8. RolloutInv'
      BY <1>1, <1>2, <2>1, <2>2 DEF RolloutInv
    <2> QED BY <2>3, <2>4, <2>5, <2>6, <2>7, <2>8
  <1> QED BY <1>4, <1>5 DEF RelInv
LEMMA AssessedKeeps ==
  ASSUME RelInv, Assessed
  PROVE  RelInv'
  <1>1. /\ phase = "drained" /\ phase' = "done" /\ plan' = plan /\ defect' = defect
        /\ call' = call /\ peak' = peak /\ turn' = turn /\ served' = served
        /\ counters' = counters
    BY DEF Assessed
  <1>2. AllCalls' = AllCalls
    BY <1>1 DEF AllCalls
  <1>3. \A s : In(s)' = In(s)
    BY <1>1, <1>2 DEF In
  <1>4. Shortfalls' = Shortfalls /\ Refused' = Refused
    BY <1>1, <1>2, <1>3 DEF Shortfalls, Refused, Affected
  <1>5. VerdictKept'
    BY <1>1, <1>2, <1>3, <1>4 DEF VerdictKept, Assessed
  <1>6. Judged
    BY <1>1 DEF Judged
  <1> QED BY <1>1, <1>5, <1>6, RestKeeps

LEMMA RaisesKeeps ==
  ASSUME RelInv, NEW c \in AllCalls, Raises(c)
  PROVE  RelInv'
  <1>1. ~ Judged' /\ VerdictKept' /\ phase = "run" /\ phase' = "done"
    BY DEF Raises, Judged, VerdictKept
  <1> QED BY <1>1, RestKeeps DEF Raises

LEMMA StutterKeeps ==
  ASSUME RelInv, UNCHANGED relVars
  PROVE  RelInv'
  <1>1. /\ phase' = phase /\ verdict' = verdict
        /\ UNCHANGED <<plan, defect, call, peak, turn, served, counters>>
    BY DEF relVars
  <1>2. Judged' = Judged
    BY <1>1 DEF Judged
  <1>3. AllCalls' = AllCalls
    BY <1>1 DEF AllCalls
  <1>4. \A s : In(s)' = In(s)
    BY <1>1, <1>3 DEF In
  <1>5. Shortfalls' = Shortfalls /\ Refused' = Refused
    BY <1>1, <1>3, <1>4 DEF Shortfalls, Refused, Affected
  <1>6. VerdictKept'
    BY <1>1, <1>3, <1>4, <1>5 DEF VerdictKept, RelInv
  <1>7. CASE phase = "submit"
    <2>1. RelTypes'
      BY <1>1, <1>7 DEF RelInv, RelTypes
    <2>2. ~ Judged'
      BY <1>2, <1>7 DEF Judged
    <2> QED BY <1>1, <1>6, <1>7, <2>1, <2>2 DEF RelInv
  <1>8. CASE phase # "submit"
    <2>1. phase \in {"run", "drained", "done"} /\ (phase = "run" => ~ Judged)
      BY <1>8 DEF RelInv, RelTypes, Judged
    <2> QED BY <1>1, <1>2, <1>6, <1>8, <2>1, RestKeeps
  <1> QED BY <1>7, <1>8

LEMMA RelStep ==
  RelInv /\ [RelNext]_relVars => RelInv'
  <1> SUFFICES ASSUME RelInv, [RelNext]_relVars PROVE RelInv'
    OBVIOUS
  <1>1. CASE \E c \in AllCalls : Invoked(c) \/ Answered(c) \/ Raises(c)
    BY <1>1, InvokedKeeps, AnsweredKeeps, RaisesKeeps
  <1> QED BY <1>1, SubmitKeeps, FollowUpKeeps, DrainKeeps, AssessedKeeps, StutterKeeps
         DEF RelNext

-----------------------------------------------------------------------------
LEMMA EvidenceIsTrue ==
  ASSUME RelInv, phase = "done", verdict # {"raised"}
  PROVE  VerdictIsEarned
  <1>1. /\ verdict = IF Refused THEN {"refused"} ELSE Shortfalls
        /\ verdict = {} => ~ Refused
        /\ In("cancelled") = {}
    BY DEF RelInv, VerdictKept
  <1>2. Judged
    BY DEF Judged
  <1>3. /\ RelTypes /\ CallsPlaced /\ SequelOver /\ LoadInv /\ FairnessInv /\ RetryInv
        /\ StatelessInv /\ DependencyInv /\ RolloutInv
    BY <1>2 DEF RelInv
  <1>4. /\ plan.calls \in Nat \ {0} /\ plan.scenario \in Scenarios
        /\ AllCalls = 1..(IF plan.scenario = "dependency" THEN plan.calls + plan.unaffected
                          ELSE plan.calls)
        /\ IsFiniteSet(AllCalls)
        /\ plan.scenario # "dependency" => Cardinality(AllCalls) = plan.calls
        /\ 1 \in AllCalls /\ Affected \subseteq AllCalls
    BY <1>3, CallsCounted
  <1>5. Classified /\ turn = Sequel /\ plan \in Plans /\ counters \in Counts
    BY <1>1, <1>2, <1>3 DEF SequelOver, RelTypes
  <1>6. Ended = AllCalls /\ Ended # {}
    BY <1>4, <1>5 DEF Ended, Classified
  <1>7. \A c \in AllCalls : call[c] \in CallStates(plan.scenario, "drained") \ {"new", "active"}
    BY <1>2, <1>3, <1>5 DEF CallsPlaced, Classified
  <1> DEFINE sound == defect \in {None, "denies_stale"}
  <1>8. sound => defect \notin TargetDefects \ {"denies_stale"}
    BY ReliabilityAssumptions
  <1>9. In("success") \subseteq AllCalls
        /\ (Cardinality(In("success")) = Cardinality(AllCalls) => In("success") = AllCalls)
    BY <1>4, FS_Subset DEF In
  <1>10. CASE plan.scenario = "load"
    <2>1. verdict = Against("load_errors", Cardinality(In("success")) # plan.calls)
      BY <1>1, <1>10 DEF Shortfalls, Refused
    <2>2. verdict = {} => In("success") = AllCalls
      BY <1>4, <1>9, <1>10, <2>1 DEF Against
    <2> QED BY <1>3, <1>10, <2>2 DEF VerdictIsEarned, LoadInv
  <1>11. CASE plan.scenario = "soak"
    <2>1. verdict = Against("resource_growth", counters.held > Growth)
      BY <1>1, <1>11 DEF Shortfalls, Refused
    <2>2. counters.held \in Nat /\ Growth \in Nat
      BY <1>5, ReliabilityAssumptions DEF Counts
    <2>3. verdict = {} => counters.held <= Growth
      BY <2>1, <2>2 DEF Against
    <2>4. sound => verdict = {}
      BY <1>3, <1>8, <1>11, <2>1, <2>2 DEF Against, LoadInv, TargetDefects
    <2> QED BY <1>3, <1>11, <2>3, <2>4 DEF VerdictIsEarned, LoadInv, StaleThenClosed
  <1>12. CASE plan.scenario = "fairness"
    <2>1. ~ Refused => verdict = Against("noisy_tenant_exceeded_limit",
                            Cardinality(In("success")) > plan.tenant)
                    \cup Against("reserved_tenant_starved", served # turn)
      BY <1>1, <1>12 DEF Shortfalls
    <2>2. /\ plan.tenant \in Nat /\ Cardinality(In("success")) \in Nat
          /\ turn = plan.reserved
      BY <1>4, <1>5, <1>9, <1>12, FS_Subset, FS_CardinalityType, ReliabilityAssumptions
         DEF Sequel
    <2>3. verdict = {} => Cardinality(In("success")) <= plan.tenant /\ served = plan.reserved
      BY <1>1, <2>1, <2>2 DEF Against
    <2>kept. sound => ~ Refused
      BY <1>3, <1>7, <1>8, <1>12 DEF FairnessInv, TargetDefects, CallStates, Refused, In
    <2>4. sound => verdict = {}
      BY <1>2, <1>3, <1>8, <1>12, <2>1, <2>2, <2>kept DEF Against, FairnessInv, TargetDefects
    <2> QED BY <1>12, <2>3, <2>4 DEF VerdictIsEarned, StaleThenClosed
  <1>13. CASE plan.scenario = "retry"
    <2>1. ~ Refused =>
          verdict = Against("retry_amplification", counters.other > 0)
                    \cup Against("runtime_retry_cap",
                                 counters.runtime > plan.calls * (MaxAttempts - 1))
                    \cup Against("duplicate_effect", counters.effects # 1)
      BY <1>1, <1>13 DEF Shortfalls
    <2>2. counters.other \in Nat /\ counters.runtime \in Nat
      BY <1>5 DEF Counts
    <2>3. verdict = {} => /\ counters.other = 0 /\ counters.effects = 1
                          /\ In("success") = AllCalls
      BY <1>1, <1>13, <2>1, <2>2 DEF Against, Refused
    <2>4. sound => counters.other = 0 /\ counters.effects = 1
      BY <1>3, <1>6, <1>8, <1>13 DEF RetryInv, TargetDefects
    <2>5. ~ counters.runtime > plan.calls * (MaxAttempts - 1)
      <3>1. MaxAttempts - 1 \in Nat
        BY ReliabilityAssumptions
      <3>2. plan.calls * (MaxAttempts - 1) \in Nat
        BY <1>4, <3>1
      <3>3. counters.runtime <= plan.calls * (MaxAttempts - 1)
        BY <1>3, <1>4, <1>6, <1>13 DEF RetryInv
      <3> QED BY <2>2, <3>2, <3>3
    <2>kept. sound => ~ Refused
      BY <1>3, <1>6, <1>8, <1>13 DEF RetryInv, TargetDefects, Refused, In
    <2>6. sound => verdict = {}
      BY <2>1, <2>4, <2>5, <2>kept DEF Against
    <2> QED BY <1>13, <2>3, <2>6 DEF VerdictIsEarned, StaleThenClosed
  <1>14. CASE plan.scenario = "stateless"
    <2> DEFINE affinity == \E c \in 1..(plan.calls - 1) :
                             c % plan.replicas = (c + 1) % plan.replicas
    <2>1. verdict = Against("stateless_call_failed", Cardinality(In("success")) # plan.calls)
                    \cup Against("stateless_replica_affinity", affinity)
                    \cup Against("stateless_duplicate_effect", counters.effects # 1)
                    \cup Against("stateless_request_memory", counters.memory > 0)
      BY <1>1, <1>14 DEF Shortfalls, Refused
    <2>2. ~ affinity
      <3>1. plan.replicas \in Nat /\ plan.replicas >= 2
        BY <1>3, <1>5, <1>14, ReliabilityAssumptions
           DEF RelTypes, ValidPlan, ReliabilityStatelessPlan
      <3> QED BY <1>4, <3>1, NextReplicaDiffers
    <2> HIDE DEF affinity
    <2>3. counters.memory \in Nat
      BY <1>5 DEF Counts
    <2>4. verdict = {} => /\ counters.effects = 1 /\ counters.memory = 0
                          /\ In("success") = AllCalls
      BY <1>4, <1>9, <1>14, <2>1, <2>3 DEF Against
    <2>5. defect = "remembers" => counters.memory > 0
      BY <1>3, <1>6, <1>14 DEF StatelessInv
    <2>6. sound => In("success") = AllCalls
      BY <1>3, <1>6, <1>8, <1>14 DEF StatelessInv, TargetDefects, In
    <2>7. sound => counters.effects = 1 /\ counters.memory = 0
      BY <1>3, <1>6, <1>8, <1>14 DEF StatelessInv, TargetDefects
    <2>8. sound => verdict = {}
      BY <1>4, <1>14, <2>1, <2>2, <2>6, <2>7 DEF Against
    <2> QED BY <1>14, <2>3, <2>4, <2>5, <2>8 DEF VerdictIsEarned, StaleThenClosed
  <1>15. CASE plan.scenario = "dependency"
    <2> DEFINE blast == In("success") \ Affected = {}
               degraded == plan.dependency \in {"registry", "telemetry"}
                           /\ ~ Affected \subseteq In("success")
               policy == plan.dependency = "identity"
                         /\ (~ Affected \subseteq In("authentication_denied")
                             \/ counters.stale = 0 \/ counters.closed = 0)
               outcome == plan.dependency \in {"agentgateway", "dns", "backing_api"}
                          /\ ~ Affected \subseteq In("unavailable") \cup In("timeout")
               unmeasured == plan.dependency = "telemetry" /\ counters.dropped = 0
               unopened == plan.dependency \in {"dns", "backing_api"} /\ counters.opened = 0
    <2>1. ~ Refused =>
          verdict = Against("dependency_blast_radius", blast)
                    \cup Against("dependency_degraded", degraded)
                    \cup Against("identity_cache_policy", policy)
                    \cup Against("dependency_outcome", outcome)
                    \cup Against("telemetry_drop_unmeasured", unmeasured)
                    \cup Against("circuit_not_opened", unopened)
      BY <1>1, <1>15 DEF Shortfalls
    <2> DEFINE masked == {"registry", "telemetry"}
    <2>2. ASSUME verdict = {}
          PROVE  /\ In("success") \ Affected # {}
                 /\ IF plan.dependency \in masked THEN Affected \subseteq In("success")
                    ELSE Affected \cap In("success") = {}
      <3>1. ~ blast /\ ~ degraded /\ ~ policy /\ ~ outcome
        <4> HIDE DEF blast, degraded, policy, outcome, unmeasured, unopened
        <4> QED BY <1>1, <2>1, <2>2 DEF Against
      <3>2. plan.dependency \in Dependencies
        BY <1>5, <1>15, ReliabilityAssumptions
      <3>3. In("success") \cap (In("authentication_denied") \cup In("unavailable")
                                \cup In("timeout")) = {}
        BY DEF In
      <3>4. CASE plan.dependency \in masked
        BY <3>1, <3>4
      <3>5. CASE plan.dependency \notin masked
        <4>1. Affected \subseteq In("authentication_denied") \cup In("unavailable")
                                 \cup In("timeout")
          BY <3>1, <3>2, <3>5 DEF Dependencies
        <4> QED BY <3>1, <3>3, <3>5, <4>1
      <3> QED BY <3>4, <3>5
    <2>3. ASSUME sound, ~ TooFewCalls
          PROVE  verdict = IF StaleThenClosed THEN {"refused"} ELSE {}
      <3>1. plan.unaffected \in Nat \ {0} /\ plan.dependency \in Dependencies
        BY <1>5, <1>15, ReliabilityAssumptions
      <3>2. StaleCalls \in Nat \ {0} /\ CircuitCall \in Nat \ {0}
        BY ReliabilityAssumptions
      <3>3. \A c \in AllCalls : call[c] \in FailureOutcomes(c)
        BY <1>3, <1>6, <1>15 DEF DependencyInv
      <3>4. defect \notin {"spreads", "flickers"}
        BY <1>8, <2>3 DEF TargetDefects
      <3>5. \A c \in Affected : c \in Nat /\ c \in AllCalls /\ c \in Ended \cap Affected
        BY <1>4, <1>6 DEF Affected
      <3>6. 1 \in Affected /\ plan.calls \in Affected
        BY <1>4 DEF Affected
      <3>7. CASE StaleThenClosed
        <4>1. 1 <= StaleCalls /\ ~ plan.calls <= StaleCalls /\ None # "denies_stale"
          BY <1>4, <3>2, <3>7, ReliabilityAssumptions DEF StaleThenClosed, TargetDefects
        <4>2. call[1] = "success"
          BY <3>3, <3>4, <3>5, <3>6, <3>7, <4>1 DEF FailureOutcomes, StaleThenClosed
        <4>3. call[plan.calls] = "authentication_denied"
          BY <3>3, <3>4, <3>5, <3>6, <3>7, <4>1 DEF FailureOutcomes, StaleThenClosed
        <4>4. Refused
          BY <1>15, <3>6, <4>2, <4>3 DEF Refused
        <4> QED BY <1>1, <3>7, <4>4
      <3>8. CASE ~ StaleThenClosed
        <4>1. \A c \in Affected :
                call[c] = CASE plan.dependency \in masked -> "success"
                            [] plan.dependency = "identity" -> "authentication_denied"
                            [] plan.dependency = "dns" -> "timeout"
                            [] OTHER -> "unavailable"
          <5>1. plan.dependency = "identity" => defect = "denies_stale"
            BY <1>4, <1>15, <2>3, <3>2, <3>8 DEF StaleThenClosed, TooFewCalls
          <5> QED BY <3>3, <3>4, <3>5, <5>1 DEF FailureOutcomes
        <4>2. ~ Refused
          BY <1>15, <4>1 DEF Refused
        <4>3. ~ blast
          <5>1. plan.calls + 1 \in AllCalls \ Affected
            BY <1>4, <1>15, <3>1 DEF Affected
          <5>2. FailureOutcomes(plan.calls + 1) = {"success"}
            BY <3>4, <5>1 DEF FailureOutcomes
          <5> QED BY <3>3, <5>1, <5>2 DEF In
        <4>4. /\ counters.stale \in Nat /\ counters.closed \in Nat
              /\ counters.dropped \in Nat /\ counters.opened \in Nat
          BY <1>5 DEF Counts
        <4>5. ~ degraded
          BY <3>5, <4>1 DEF In
        <4>6. ~ policy
          <5> SUFFICES ASSUME plan.dependency = "identity" PROVE ~ policy
            OBVIOUS
          <5>1. Affected \subseteq In("authentication_denied")
            BY <3>5, <4>1 DEF In
          <5>2. ~ plan.calls <= StaleCalls /\ 1 <= StaleCalls
            BY <1>4, <1>15, <2>3, <3>2 DEF TooFewCalls
          <5>3. counters.stale > 0 /\ counters.closed > 0
            BY <1>3, <1>15, <3>5, <3>6, <5>2 DEF DependencyInv
          <5> QED BY <4>4, <5>1, <5>3
        <4>7. ~ outcome
          BY <3>5, <4>1 DEF In
        <4>8. ~ unmeasured
          BY <1>3, <1>15, <3>5, <3>6, <4>4 DEF DependencyInv
        <4>9. ~ unopened
          <5> SUFFICES ASSUME plan.dependency \in {"dns", "backing_api"} PROVE ~ unopened
            OBVIOUS
          <5>1. CircuitCall \in Affected
            BY <1>4, <1>15, <2>3, <3>2 DEF TooFewCalls, Affected
          <5> QED BY <1>3, <1>15, <3>5, <4>4, <5>1 DEF DependencyInv
        <4> HIDE DEF blast, degraded, policy, outcome, unmeasured, unopened
        <4> QED BY <2>1, <3>8, <4>2, <4>3, <4>5, <4>6, <4>7, <4>8, <4>9 DEF Against
      <3> QED BY <3>7, <3>8
    <2> QED BY <1>15, <2>2, <2>3 DEF VerdictIsEarned
  <1>16. CASE plan.scenario = "rollout"
    <2>1. verdict = Against("drain_incomplete", Cardinality(In("success")) # plan.calls)
                    \cup Against("drain_admission_open", counters.rejected = 0)
                    \cup Against("previous_capacity_lost", counters.capacity = 0)
                    \cup Against("rollback_failed", counters.restored = 0)
      BY <1>1, <1>16 DEF Shortfalls, Refused
    <2>2. plan.late \in Nat \ {0} /\ turn = plan.late
      BY <1>5, <1>16, ReliabilityAssumptions DEF Sequel
    <2>3. counters.rejected \in Nat /\ served \in Nat
      BY <1>3, <1>5 DEF Counts, RelTypes
    <2>4. verdict = {} => /\ Cardinality(In("success")) = plan.calls /\ counters.rejected # 0
                          /\ counters.capacity # 0 /\ counters.restored # 0
      BY <2>1 DEF Against
    <2>5. verdict = {} => /\ In("success") = AllCalls /\ served < plan.late
                          /\ defect \notin {"shrinks", "stays_down"}
      BY <1>2, <1>3, <1>4, <1>9, <1>16, <2>2, <2>3, <2>4 DEF RolloutInv
    <2>6. ASSUME sound
          PROVE  /\ Cardinality(In("success")) = plan.calls /\ counters.rejected # 0
                 /\ counters.capacity # 0 /\ counters.restored # 0
      <3>1. defect \notin {"accepts_late", "loses_call", "shrinks", "stays_down"}
        BY <1>8, <2>6 DEF TargetDefects
      <3>2. served = 0 /\ served + counters.rejected = turn
        BY <1>3, <1>16, <3>1 DEF RolloutInv
      <3>3. In("success") = AllCalls /\ counters.capacity = 1 /\ counters.restored = 1
        BY <1>2, <1>3, <1>16, <3>1 DEF RolloutInv
      <3> QED BY <1>4, <1>16, <2>2, <2>3, <3>2, <3>3
    <2>7. sound => verdict = {}
      BY <2>1, <2>6 DEF Against
    <2> QED BY <1>16, <2>5, <2>7 DEF VerdictIsEarned, StaleThenClosed
  <1> QED BY <1>4, <1>10, <1>11, <1>12, <1>13, <1>14, <1>15, <1>16 DEF Scenarios

\* Approved evidence is true of the run it was drawn from, and a target without a defect
\* is approved in every fault scenario but for plans of too few calls and the identity
\* outage that serves stale keys first, which is always refused: whatever the order in
\* which concurrent calls are answered, and however many they are.
THEOREM VerdictsAreEarned == RelSpec => []VerdictIsEarned
  <1>1. RelInit => RelInv
    BY DEF RelInit, RelInv, RelTypes, Counts, Judged, VerdictKept
  <1>2. RelInv => VerdictIsEarned
    BY EvidenceIsTrue DEF VerdictIsEarned
  <1> QED BY <1>1, <1>2, RelStep, PTL DEF RelSpec
=============================================================================
