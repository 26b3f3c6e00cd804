---------------------------- MODULE Publication ------------------------------
(***************************************************************************)
(* The publisher (packages/tesserix-mcp-publisher): PublisherWorkflow      *)
(* drives delegated commands one after another - apply, pull, verify, then *)
(* the official registry - and the CLI turns the end of the run into a     *)
(* report.  Several runs publish under one ref, as retries of a release or *)
(* with other content.                                                     *)
(*                                                                         *)
(* The Agentic Registry and the commands are external: versions are        *)
(* immutable, an apply that was sent may commit after its command was      *)
(* killed, and what a command prints says little about what it did.        *)
(***************************************************************************)
EXTENDS Naturals, FiniteSets, PythonNone

CONSTANTS
  Jobs,           \* publisher runs
  Contents,       \* manifests that can be prepared for the ref
  ContentOf,      \* the content each run publishes
  DryRuns,        \* runs with --dry-run
  Officials,      \* runs with --official
  Altered         \* an artifact whose digest does not match its content

ASSUME PublicationAssumptions ==
  /\ ContentOf \in [Jobs -> Contents]
  /\ DryRuns \subseteq Jobs /\ Officials \subseteq Jobs
  /\ Altered \notin Contents /\ None \notin Contents \cup {Altered}
  /\ None \notin {"created", "existing", "verified", "partial", "manifest_invalid",
                 "evidence_required", "artifact_digest_mismatch"}

VARIABLES
  stage,      \* the command each run waits for, or "idle" or "done"
  report,     \* what the CLI reports for it
  sent,       \* applies on their way to the Registry
  answer,     \* the Registry's answer to each run's apply
  stored,     \* the content of the ref in the Registry
  receipt,    \* runs that have their receipt
  pulled,     \* the artifact each run has read back
  checked,    \* runs whose artifact has been verified
  outward,    \* runs whose official publish has been started
  localFault  \* history: runs that ended by a local error no PublicationError stands for

pubVars == <<stage, report, sent, answer, stored, receipt, pulled, checked, outward,
             localFault>>

PubInit ==
  /\ stage = [j \in Jobs |-> "idle"] /\ report = [j \in Jobs |-> None]
  /\ sent = {} /\ answer = [j \in Jobs |-> None] /\ stored = None
  /\ pulled = [j \in Jobs |-> None]
  /\ receipt = {} /\ checked = {} /\ outward = {} /\ localFault = {}

-----------------------------------------------------------------------------
(* Preparation: evidence files are hashed, the manifest is read, checked and   *)
(* compiled.  Nothing external happens, and every failure ends the run.        *)

PrepareErrors == {"manifest_invalid", "evidence_required", "artifact_digest_mismatch"}

Ends(j, r) == stage' = [stage EXCEPT ![j] = "done"] /\ report' = [report EXCEPT ![j] = r]
Quiet == UNCHANGED <<sent, answer, stored, receipt, pulled, checked, outward, localFault>>

PrepareFails(j) ==
  /\ stage[j] = "idle"
  /\ \E e \in PrepareErrors : Ends(j, e)
  /\ Quiet

-----------------------------------------------------------------------------
(* The delegated commands. *)

Writes == {"apply", "official_publish"}

\* The step after a command that succeeded.
Following(j, s) ==
  CASE s = "status" -> "dry_apply"
    [] s = "dry_apply" -> IF j \in Officials THEN "official_validate" ELSE "done"
    [] s = "apply" -> "pull"
    [] s = "pull" -> "verify"
    [] s = "verify" -> IF j \in Officials THEN "official_validate" ELSE "done"
    [] s = "official_validate" -> IF j \in DryRuns THEN "done" ELSE "official_publish"
    [] s = "official_publish" -> "done"

Awaits(j, s) == stage' = [stage EXCEPT ![j] = s]

Prepare(j) ==
  /\ stage[j] = "idle"
  /\ Awaits(j, IF j \in DryRuns THEN "status" ELSE "apply")
  /\ UNCHANGED report /\ Quiet

\* Whether a request of j to write is on its way or was answered.
Asked(j) == j \in sent \/ answer[j] # None
Started(j) == IF stage[j] = "apply" THEN Asked(j) ELSE j \in outward

\* The process of a command that writes starts, once its private document is written:
\* its request is on the way.
Launch(j) ==
  /\ stage[j] \in Writes /\ ~Started(j)
  /\ sent' = IF stage[j] = "apply" THEN sent \cup {j} ELSE sent
  /\ outward' = IF stage[j] = "official_publish" THEN outward \cup {j} ELSE outward
  /\ UNCHANGED <<stage, report, answer, stored, receipt, pulled, checked, localFault>>

\* A command that writes has ended only if it was started.
Over(j) == stage[j] \notin {"idle", "done"} /\ (stage[j] \in Writes => Started(j))

\* The Registry handles an apply, also one whose command is gone: the first
\* content of a ref stays, the same content again is a replay.
RegistryApplies(j) ==
  /\ j \in sent
  /\ sent' = sent \ {j}
  /\ stored' = IF stored = None THEN ContentOf[j] ELSE stored
  /\ answer' = [answer EXCEPT ![j] = IF stored = None THEN "created"
                                     ELSE IF stored = ContentOf[j] THEN "existing"
                                     ELSE "conflict"]
  /\ UNCHANGED <<stage, report, receipt, pulled, checked, outward, localFault>>

\* SubprocessCommandRunner.run: the process is not started, exits, or is killed
\* when its time passes or it prints too much.
RunnerError(how) ==
  CASE how = "refused" -> "secret_material"
    [] how = "unstartable" -> "publisher_unavailable"
    [] how = "timeout" -> "publisher_unavailable"
    [] how = "overflow" -> "command_output_invalid"

\* _checked and _document: a clean exit with unusable output, or a failed exit
\* classified by the words in its output, which are not the Registry's state.
OutputError(how) ==
  CASE how = "protected" -> "secret_material"
    [] how = "malformed" -> "command_output_invalid"
    [] how = "says_conflict" -> "immutable_version_conflict"
    [] how = "says_unavailable" -> "publisher_unavailable"
    [] how = "says_other" -> "command_failed"

RunnerFailures == {"refused", "unstartable", "timeout", "overflow"}
OutputFailures == {"protected", "malformed", "says_conflict", "says_unavailable", "says_other"}

ErrorOf(how) == IF how \in RunnerFailures THEN RunnerError(how) ELSE OutputError(how)

\* How the run's status reads when all commands have succeeded.
Success(j) == IF j \in DryRuns THEN "dry_run" ELSE "verified"

\* Mutant of Failure: an unknown outcome is reported as what the command said.
FailureTypedOnly(j, s, error) ==
  IF s \in {"official_validate", "official_publish"} /\ j \notin DryRuns THEN "partial"
  ELSE error

\* How workflow.execute reports a command that failed: before the apply has
\* succeeded by its own code, between apply and verification as unknown, and
\* after it as partial.
Failure(j, s, error) ==
  CASE s \in {"pull", "verify"} -> "publication_outcome_unknown"
    [] s \in {"official_validate", "official_publish"} /\ j \notin DryRuns -> "partial"
    [] OTHER -> error

CommandFails(j) ==
  /\ stage[j] \notin {"idle", "done"}
  /\ \E how \in RunnerFailures \cup OutputFailures :
       /\ IF how \in {"refused", "unstartable"} THEN stage[j] \in Writes => ~Started(j)
                                                ELSE Over(j)
       /\ Ends(j, Failure(j, stage[j], ErrorOf(how)))
  /\ Quiet

\* The run is cancelled while a command runs: its process group is killed.
Cancelled(j) ==
  /\ stage[j] \notin {"idle", "done"}
  /\ Ends(j, IF stage[j] \in {"pull", "verify"} THEN "publication_outcome_unknown"
                                                ELSE "cancelled")
  /\ Quiet

\* A local error that is no PublicationError: a private document cannot be written
\* before its command starts, its directory cannot be removed afterwards, or the
\* process was killed by a signal, whose negative exit code no CommandResult takes.
\* After the apply it makes the outcome unknown; elsewhere only the CLI catches it.
LocalFault(j) ==
  /\ stage[j] \notin {"idle", "done"}
  /\ Ends(j, IF stage[j] \in {"pull", "verify"} THEN "publication_outcome_unknown"
                                                ELSE "manifest_invalid")
  /\ localFault' = localFault \cup {j}
  /\ UNCHANGED <<sent, answer, stored, receipt, pulled, checked, outward>>

-----------------------------------------------------------------------------
(* Commands that succeed. *)

Proceeds(j) ==
  LET next == Following(j, stage[j]) IN
  IF next = "done" THEN Ends(j, Success(j)) ELSE Awaits(j, next) /\ UNCHANGED report

\* remote_validate, the two commands of a dry run.
RemoteValidates(j) ==
  /\ stage[j] \in {"status", "dry_apply"}
  /\ Proceeds(j) /\ Quiet

\* The official commands and verify, which marks the artifact.
CommandSucceeds(j) ==
  /\ stage[j] \in {"verify", "official_validate", "official_publish"} /\ Over(j)
  /\ Proceeds(j)
  /\ checked' = IF stage[j] = "verify" THEN checked \cup {j} ELSE checked
  /\ UNCHANGED <<sent, answer, stored, receipt, pulled, outward, localFault>>

\* publish: the receipt names the version and says whether it was created.
ApplySucceeds(j) ==
  /\ stage[j] = "apply" /\ answer[j] \in {"created", "existing"}
  /\ Proceeds(j)
  /\ receipt' = receipt \cup {j}
  /\ UNCHANGED <<sent, answer, stored, pulled, checked, outward, localFault>>

\* A delegate that answers with something else than a receipt, as the two of this
\* package never do, leaves the outcome unknown.
NoReceipt(j) ==
  /\ stage[j] = "apply" /\ Over(j)
  /\ Ends(j, "publication_outcome_unknown")
  /\ Quiet

\* fetch recomputes the digest over what was returned, and execute compares it
\* with the prepared one.
Exact(j, artifact) == artifact = ContentOf[j]

PullSucceeds(j) ==
  /\ stage[j] = "pull"
  /\ \E artifact \in Contents \cup {Altered} :
       IF Exact(j, artifact)
         THEN Proceeds(j) /\ pulled' = [pulled EXCEPT ![j] = artifact]
         ELSE Ends(j, "publication_outcome_unknown") /\ UNCHANGED pulled
  /\ UNCHANGED <<sent, answer, stored, receipt, checked, outward, localFault>>

-----------------------------------------------------------------------------
PubNext ==
  \E j \in Jobs :
    \/ PrepareFails(j) \/ Prepare(j) \/ Launch(j) \/ RegistryApplies(j)
    \/ CommandFails(j) \/ Cancelled(j) \/ LocalFault(j)
    \/ RemoteValidates(j) \/ CommandSucceeds(j) \/ ApplySucceeds(j) \/ NoReceipt(j)
    \/ PullSucceeds(j)

PubSpec == PubInit /\ [][PubNext]_pubVars

-----------------------------------------------------------------------------
(* Properties. *)

\* Whether j has asked a registry to write, or may still do so.
Wrote(j) == Asked(j) \/ j \in outward

\* The report of a publisher run is true of the Registry.  Verified and partial
\* mean that the ref holds exactly the run's content, read back and verified; the
\* official registry sees only such content; a run that ends between its receipt
\* and that point says the outcome is unknown, never that it failed or may be
\* repeated; and a dry run writes nothing, whatever its commands print.  Unless it
\* ended by a local error, a run whose inputs are reported as invalid has asked for no
\* write, and one that verified its artifact reports it or was cancelled.
ReportIsTrue ==
  \A j \in Jobs :
    /\ report[j] \in {"verified", "partial"} =>
         stored = ContentOf[j] /\ pulled[j] = stored /\ j \in checked
    /\ j \in outward => j \in checked /\ pulled[j] = stored
    /\ stage[j] = "done" /\ j \in receipt \ checked =>
         report[j] = "publication_outcome_unknown"
    /\ j \in DryRuns => ~Wrote(j)
    /\ report[j] \in PrepareErrors /\ j \notin localFault => ~Wrote(j)
    /\ stage[j] = "done" /\ j \in checked \ localFault =>
         report[j] \in {"verified", "partial", "cancelled"}

\* docs/registry-publication.md on exit code 2: "Invalid arguments, manifest, evidence,
\* or digest", "Repair local inputs; no write occurred".  The apply of a run that reports
\* one of these has created nothing, and its official publish was not started.
InvalidWroteNothing ==
  \A j \in Jobs :
    report[j] \in PrepareErrors => answer[j] # "created" /\ j \notin outward
=============================================================================
