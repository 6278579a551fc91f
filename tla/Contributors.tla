---------------------------- MODULE Contributors ----------------------------
(***************************************************************************)
(* What the backend keeps of a contributor: identity checks (kyc-          *)
(* webhooks.js, kyc-providers.js, verification.js), standing               *)
(* (contributor-status.js), tax papers, tier, payment preference,          *)
(* onboarding checklist and split templates.                               *)
(*                                                                         *)
(* A Stellar address has 56 characters.  Most routes ask for "G" and 55    *)
(* more; the two KYC patterns ask for "G" and 54 more, so they match only  *)
(* the strings of Short.                                                   *)
(***************************************************************************)
EXTENDS Integers, Sequences, FiniteSets, FiniteSetsExt, SequencesExt, Functions, Tables

CONSTANTS
    Full, Short,             \* addresses of 56 and of 55 characters
    MaxKyc, MaxTemplates     \* bounds on kyc_events and templates

ASSUME FilesAssumption == IsFiniteSet(Full)

Account == Full \cup Short

VARIABLES
    kycEvents,      \* kyc_events
    verification,   \* contributor_verification, with who wrote the row last
    standing,       \* contributor_status: status and the two stamps
    papers,         \* contributor_tax
    tier,           \* contributor_tiers
    payment,        \* payment_preferences
    checklist,      \* contributor_onboarding
    paid,           \* accounts with a row in distribution_payouts
    splits          \* royalty_split_templates

fileVars == <<kycEvents, verification, standing, papers, tier, payment, checklist, paid, splits>>

None == [step |-> "none", status |-> "none", by |-> "none"]

ContributorsInit ==
    /\ kycEvents = <<>>
    /\ verification = [w \in Account |-> None]
    /\ standing = [w \in Full |-> [status |-> "none", suspended |-> FALSE, deactivated |-> FALSE]]
    /\ papers = [w \in Full |-> [status |-> "none", document |-> FALSE]]
    /\ tier = [w \in Full |-> "none"]
    /\ payment = [w \in Full |-> "none"]
    /\ checklist = [w \in Full |-> [kyc |-> "pending", pay |-> FALSE, tax |-> FALSE]]
    /\ paid = {}
    /\ splits = {}

-----------------------------------------------------------------------------
\* Identity checks.

VERIFICATION_STEPS == {"email", "kyc", "manual_review", "verified", "rejected"}
VERIFICATION_STATUSES == {"pending", "in_progress", "completed", "failed"}

\* What the providers call an outcome, and what it is stored as.
VERIFF_STATUS_MAP ==
    [approved |-> "approved", declined |-> "declined", expired |-> "expired",
     resubmission_requested |-> "resubmission_requested", abandoned |-> "abandoned"]
JUMIO_STATUS_MAP ==
    [approved_verified |-> "approved", denied_fraud |-> "declined",
     denied_unsupported_id_type |-> "declined", denied_unsupported_id_country |-> "declined",
     error_not_readable_id |-> "resubmission_requested",
     no_id_uploaded |-> "resubmission_requested", expired |-> "expired",
     abandoned |-> "abandoned"]

parseVeriff(status) == VERIFF_STATUS_MAP[status]
parseJumio(status) == JUMIO_STATUS_MAP[status]
normaliseKycPayload(provider, status) ==
    IF provider = "veriff" THEN parseVeriff(status) ELSE parseJumio(status)

outcomeToVerificationState(outcome) ==
    CASE outcome = "approved" -> [step |-> "verified", status |-> "completed"]
      [] outcome = "declined" -> [step |-> "rejected", status |-> "failed"]
      [] OTHER -> [step |-> "kyc", status |-> "failed"]

getVerification(w) == verification[w]
upsertVerification(w, state, by) ==
    verification' = [verification EXCEPT ![w] = [step |-> state.step, status |-> state.status,
                                                 by |-> by]]
getVerificationsByStep(step) == {w \in Account : verification[w].step = step}

recordKycEvent(w, outcome) ==
    /\ Len(kycEvents) < MaxKyc
    /\ kycEvents' = Append(kycEvents, [wallet |-> w, outcome |-> outcome])
getKycEventsByWallet(w) == RowsIn(kycEvents, {k \in DOMAIN kycEvents : kycEvents[k].wallet = w})

Others == <<standing, papers, tier, payment, checklist, paid, splits>>

\* Callbacks come in any order, and again.  The event is always kept.
Receive(w, outcome) ==
    /\ recordKycEvent(w, outcome)
    /\ IF w \in Short
         THEN upsertVerification(w, outcomeToVerificationState(outcome), "kyc")
         ELSE UNCHANGED verification

\* A signature that does not match, an unknown provider or status: 4xx.  The
\* audit action is refused, so a callback that updates a row ends in a 500.
PostKycWebhook ==
    /\ \E w \in Account, status \in DOMAIN VERIFF_STATUS_MAP \cup DOMAIN JUMIO_STATUS_MAP :
          \/ /\ status \in DOMAIN VERIFF_STATUS_MAP
             /\ Receive(w, normaliseKycPayload("veriff", status))
          \/ /\ status \in DOMAIN JUMIO_STATUS_MAP
             /\ Receive(w, normaliseKycPayload("jumio", status))
    /\ UNCHANGED Others

\* Starting again answers with the row there is.
PostStart ==
    /\ \E w \in Full :
          /\ getVerification(w) = None
          /\ upsertVerification(w, [step |-> "email", status |-> "pending"], "start")
    /\ UNCHANGED <<kycEvents, Others>>

\* Any step and status, from any other, without a role check.
PostAdvance ==
    /\ \E w \in Full, step \in VERIFICATION_STEPS, status \in VERIFICATION_STATUSES :
          upsertVerification(w, [step |-> step, status |-> status], "advance")
    /\ UNCHANGED <<kycEvents, Others>>

KycNext == PostKycWebhook \/ PostStart \/ PostAdvance

-----------------------------------------------------------------------------
\* Standing, tax papers, tier, preference.

\* A stamp is written when its status is set, and kept.
setContributorStatus(w, status) ==
    standing' = [standing EXCEPT ![w] = [status |-> status,
                                         suspended |-> @.suspended \/ status = "suspended",
                                         deactivated |-> @.deactivated \/ status = "deactivated"]]
getContributorStatus(w) == IF standing[w].status = "none" THEN "active" ELSE standing[w].status
listContributorStatuses(includeActive) ==
    {w \in Full : standing[w].status # "none" /\ (includeActive \/ standing[w].status # "active")}
isContributorBlocked(w) == standing[w].status \notin {"none", "active"}

\* A field the caller leaves out is cleared: saving a status drops the document.
upsertContributorTax(w, status, document) ==
    papers' = [papers EXCEPT ![w] = [status |-> status, document |-> document]]
getTaxComplianceReport ==
    [w \in {x \in Full : papers[x].status # "none"} |->
        IF papers[w].status = "completed" THEN "compliant" ELSE "non_compliant"]
getContributorsMissingTaxInfo == {w \in Full : papers[w].status \in {"not_collected", "pending"}}
GetCompliance(verdict) ==
    Cardinality({w \in DOMAIN getTaxComplianceReport : getTaxComplianceReport[w] = verdict})

VALID_TIERS == {"vip", "regular", "trial"}
getContributorTier(w) == IF tier[w] = "none" THEN "regular" ELSE tier[w]
getContractTiers == {w \in Full : tier[w] # "none"}
PAYMENT_METHODS == {"direct_transfer", "usdc", "xlm"}

PostStatus(w) ==
    /\ \E status \in {"active", "suspended", "deactivated"} : setContributorStatus(w, status)
    /\ UNCHANGED <<kycEvents, verification, papers, tier, payment, checklist, paid, splits>>

PostTax(w) ==
    /\ \E status \in {"not_collected", "pending", "completed", "exempt"} :
          upsertContributorTax(w, status, FALSE)
    /\ UNCHANGED <<kycEvents, verification, standing, tier, payment, checklist, paid, splits>>

PostUpload(w) ==
    /\ upsertContributorTax(w, "pending", TRUE)
    /\ UNCHANGED <<kycEvents, verification, standing, tier, payment, checklist, paid, splits>>

setContributorTier(w, t) == tier' = [tier EXCEPT ![w] = t]
removeContributorTier(w) == tier' = [tier EXCEPT ![w] = "none"]
PutTier(w) ==
    /\ \E t \in VALID_TIERS : setContributorTier(w, t)
    /\ UNCHANGED <<kycEvents, verification, standing, papers, payment, checklist, paid, splits>>
DeleteTier(w) ==
    /\ removeContributorTier(w)
    /\ UNCHANGED <<kycEvents, verification, standing, papers, payment, checklist, paid, splits>>

savePaymentPreference(w, method) == payment' = [payment EXCEPT ![w] = method]
PostPayment(w) ==
    /\ \E method \in PAYMENT_METHODS : savePaymentPreference(w, method)
    /\ UNCHANGED <<kycEvents, verification, standing, papers, tier, checklist, paid, splits>>

StandingNext == \E w \in Full :
    PostStatus(w) \/ PostTax(w) \/ PostUpload(w) \/ PutTier(w) \/ DeleteTier(w) \/ PostPayment(w)

-----------------------------------------------------------------------------
\* The onboarding checklist, and the split templates.

\* The first payout is looked up in the payouts at every read.
getContributorOnboarding(w) ==
    [kyc |-> checklist[w].kyc, pay |-> checklist[w].pay, tax |-> checklist[w].tax,
     first |-> w \in paid]

calculateOnboardingSummary(w) ==
    LET r == getContributorOnboarding(w)
        items == <<TRUE, r.kyc = "verified", r.pay, r.tax, r.first>>
        open == {i \in 1..5 : ~items[i]}
    IN  [percent |-> 20 * (5 - Cardinality(open)),
         locked |-> open \cap 1..4 # {},
         next |-> IF open = {} THEN 0 ELSE Min(open)]

\* Fields that are not given keep their value.
upsertContributorOnboarding(w, kyc, pay, tax) ==
    checklist' = [checklist EXCEPT ![w] = [kyc |-> kyc, pay |-> pay, tax |-> tax]]

PatchOnboarding(w) ==
    /\ \/ \E kyc \in {"unverified", "pending", "verified"} :
             upsertContributorOnboarding(w, kyc, checklist[w].pay, checklist[w].tax)
       \/ \E pay \in BOOLEAN, tax \in BOOLEAN :
             upsertContributorOnboarding(w, checklist[w].kyc, pay, tax)
    /\ UNCHANGED <<kycEvents, verification, standing, papers, tier, payment, paid, splits>>

PayoutRecorded(w) ==
    /\ paid' = paid \cup {w}
    /\ UNCHANGED <<kycEvents, verification, standing, papers, tier, payment, checklist, splits>>

\* Percentages in hundredths; the sum must round to 100 %.
validateAllocations(a) ==
    /\ \A i, j \in DOMAIN a : i # j => a[i].address # a[j].address
    /\ SumFunction([i \in DOMAIN a |-> a[i].percentage]) = 10000

createTemplate(w, a) == splits' = splits \cup {[owner |-> w, of |-> a, n |-> Cardinality(splits)]}
listTemplates(w) == {t \in splits : t.owner = w}
deleteTemplate(t) == splits' = splits \ {t}

PostTemplate(w) ==
    /\ Cardinality(splits) < MaxTemplates
    /\ \E x, y \in Account, p, q \in {3333, 5000, 6667} :
          LET a == <<[address |-> x, percentage |-> p], [address |-> y, percentage |-> q]>>
          IN  validateAllocations(a) /\ createTemplate(w, a)
    /\ UNCHANGED <<kycEvents, verification, standing, papers, tier, payment, checklist, paid>>

\* A template is deleted only by its owner.
DeleteTemplate(w) ==
    /\ \E t \in listTemplates(w) : deleteTemplate(t)
    /\ UNCHANGED <<kycEvents, verification, standing, papers, tier, payment, checklist, paid>>

OnboardingNext == \E w \in Full :
    PatchOnboarding(w) \/ PayoutRecorded(w) \/ PostTemplate(w) \/ DeleteTemplate(w)

-----------------------------------------------------------------------------
\* A row a callback wrote last says what the wallet's last event says, however
\* the callbacks and the admins' steps interleave; a blocked contributor is
\* listed, with the stamp of its state; the tax report counts every row once
\* and a row that still lacks papers is never reported compliant; and the
\* checklist unlocks with its required items, the next step being the first
\* one open.
ContributorFilesAgree ==
    /\ \A w \in Account :
          verification[w].by = "kyc" =>
              LET s == outcomeToVerificationState(Last(getKycEventsByWallet(w)).outcome)
              IN  w \in getVerificationsByStep(s.step) /\ verification[w].status = s.status
    /\ \A w \in Full :
          /\ isContributorBlocked(w) = (w \in listContributorStatuses(FALSE))
          /\ getContributorStatus(w) = "suspended" => standing[w].suspended
          /\ getContributorStatus(w) = "deactivated" => standing[w].deactivated
          /\ getContributorTier(w) # "regular" => w \in getContractTiers
          /\ LET sum == calculateOnboardingSummary(w)
             IN  /\ sum.locked = (sum.next \in 1..4)
                 /\ (sum.percent = 100) = (sum.next = 0)
          /\ \A t \in listTemplates(w) : \A i \in DOMAIN t.of : t.of[i].percentage <= 10000
    /\ GetCompliance("compliant") + GetCompliance("non_compliant")
         = Cardinality(DOMAIN getTaxComplianceReport)
    /\ \A w \in getContributorsMissingTaxInfo : getTaxComplianceReport[w] = "non_compliant"
=============================================================================
