------------------------------ MODULE MCRecords -----------------------------
(***************************************************************************)
(* The back office: schedules, referrals, holds, dispute tickets,          *)
(* contributors' files and mail, the views of the ledger, snapshots and    *)
(* compliance reports, one scene each.                                     *)
(***************************************************************************)
EXTENDS TLC, PaymentSchedules, CaseFiles, Contributors, Correspondence, Reports

VARIABLE scene

mcVars == <<planVars, referralVars, holdVars, disputeVars, fileVars, postVars, viewVars, reportVars, scene>>

RecordsInit ==
    /\ scene \in {"schedules", "referrals", "holds", "disputes", "kyc", "standing", "onboarding", "digest", "office", "tables", "views", "fees", "snapshots", "compliance"}
    /\ PlansInit /\ ReferralsInit /\ HoldsInit /\ DisputesInit
    /\ ContributorsInit /\ CorrespondenceInit /\ ViewsInit /\ ReportsInit

RecordsNext ==
    /\ UNCHANGED scene
    /\ \/ /\ scene = "schedules" /\ PlansNext
          /\ UNCHANGED <<referralVars, holdVars, disputeVars, fileVars, postVars, viewVars, reportVars>>
       \/ /\ scene = "referrals" /\ ReferralsNext
          /\ UNCHANGED <<planVars, holdVars, disputeVars, fileVars, postVars, viewVars, reportVars>>
       \/ /\ scene = "holds" /\ HoldsNext
          /\ UNCHANGED <<planVars, referralVars, disputeVars, fileVars, postVars, viewVars, reportVars>>
       \/ /\ scene = "disputes" /\ DisputesNext
          /\ UNCHANGED <<planVars, referralVars, holdVars, fileVars, postVars, viewVars, reportVars>>
       \/ /\ \/ scene = "kyc" /\ KycNext
             \/ scene = "standing" /\ StandingNext
             \/ scene = "onboarding" /\ OnboardingNext
          /\ UNCHANGED <<planVars, referralVars, holdVars, disputeVars, postVars, viewVars, reportVars>>
       \/ /\ (scene = "digest" /\ DigestNext) \/ (scene = "office" /\ OfficeNext)
          /\ UNCHANGED <<planVars, referralVars, holdVars, disputeVars, fileVars, viewVars, reportVars>>
       \/ /\ \/ scene = "tables" /\ (ChangeTables \/ NextViewDay) /\ UNCHANGED reportVars
             \/ scene = "views" /\ ViewsNext /\ Len(entries') <= 1 /\ UNCHANGED reportVars
             \/ scene = "fees" /\ FeesNext /\ UNCHANGED reportVars
             \/ scene = "snapshots" /\ SnapshotsNext
             \/ scene = "compliance" /\ ComplianceNext
          /\ UNCHANGED <<planVars, referralVars, holdVars, disputeVars, fileVars, postVars>>

\* Whole, split, not whole, whole but for a bad row, bad, and on the bounds of a share.
UploadDef == {<<100>>, <<60, 40>>, <<60, 60>>, <<100, -1>>, <<-1>>, <<0, 100>>, <<101, -1>>, <<40, -1, 60>>}

\* The sets whose members no definition tells apart.
Symmetry == Permutations(Deal) \cup Permutations(Payee) \cup Permutations(Generator)
              \cup Permutations(DigestPass)

RecordsSpec == RecordsInit /\ [][RecordsNext]_mcVars

-----------------------------------------------------------------------------
\* A schedule's next run is ahead and on the day it names, and a distribution is
\* only recorded of a schedule that was due when the pass read it.
SchedulesKeepTime == NextRunIsNext /\ RecordedWasDue

\* A referral pays its activation bonus once, and the audit trail explains every
\* hold in force, although each route fails after its rows are written.
DecisionsAreTraceable == ActivationPaysOnce /\ TrailExplainsHold

\* What the office lists of a contributor agrees: the last mail about a ticket, the
\* tables of verification, tax, tier and onboarding, and the imports and letters.
FilesAgree == ContributorKnowsStatus /\ ContributorFilesAgree /\ OfficeListsAgree

\* Passes of one job that overlap do not repeat what is on record: a digest marked
\* as sent is not mailed by a later pass, two passes never work on one period's
\* report, and what pruning leaves of the snapshots has no hole.
JobsDoNotOverlap == SentStopsLaterPasses /\ ReportsDoNotOverlap /\ HistoryHasNoHole

\* The routes that compute one figure by different queries agree, and once the
\* tables have been still for a cache's lifetime it says what a fresh query would;
\* and a fee stays with the contract it was first recorded for.
FiguresMatch == (entries # <<>> => ViewsAgree /\ StaleOnlyForAWhile) /\ FeeHasOneContract
=============================================================================
