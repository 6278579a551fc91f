---------------------------- MODULE RecordsProofs ----------------------------
(***************************************************************************)
(* What the back office guarantees, for every set of contributors,         *)
(* contracts, passes and generators and every length of a day, a week and  *)
(* a month: one section per table or job, each with the invariant that     *)
(* carries the property.                                                   *)
(***************************************************************************)
EXTENDS MCRecords, SumTheorems, SequenceTheorems

-----------------------------------------------------------------------------
\* A step of the back office is a step of one part and leaves the others alone.
LEMMA RecordsFrame ==
    ASSUME [RecordsNext]_mcVars
    PROVE  /\ PlansNext \/ UNCHANGED planVars
           /\ ReferralsNext \/ UNCHANGED referralVars
           /\ HoldsNext \/ UNCHANGED holdVars
           /\ DisputesNext \/ UNCHANGED disputeVars
           /\ KycNext \/ StandingNext \/ OnboardingNext \/ UNCHANGED fileVars
           /\ DigestNext \/ OfficeNext \/ UNCHANGED postVars
           /\ \/ ViewsNext /\ UNCHANGED reportVars
              \/ FeesNext /\ UNCHANGED reportVars
              \/ SnapshotsNext \/ ComplianceNext
              \/ UNCHANGED <<viewVars, reportVars>>
<1>1. CASE UNCHANGED mcVars
  BY <1>1 DEF mcVars
<1>2. CASE RecordsNext
  BY <1>2 DEF RecordsNext, ViewsNext
<1> QED  BY <1>1, <1>2

-----------------------------------------------------------------------------
(***************************************************************************)
(* The weekly digest.  The property is about mails that were sent; what    *)
(* carries it is what a pass that waits for the mail server has seen: the  *)
(* log only grows, and up to where the pass read it, it has no entry for   *)
(* the mail under way.                                                     *)
(***************************************************************************)

LogRow == [reader : Reader, week : Nat, status : {"sent", "failed"}]
MailRow == [reader : Reader, week : Nat, seen : Nat]
PassRow == [week : Nat, left : SUBSET Reader, sending : SUBSET Reader, seen : Nat]

DigestTypeOK ==
    /\ today \in Nat
    /\ digestLog \in Seq(LogRow) /\ mails \in Seq(MailRow)
    /\ digestPass \in [DigestPass -> PassRow]

\* The first "seen" entries of the log have no digest sent to r for the week.
NotSent(log, r, week, seen) ==
    /\ seen <= Len(log)
    /\ \A k \in 1..seen :
          ~(log[k].reader = r /\ log[k].week = week /\ log[k].status = "sent")

PassesHaveLooked ==
    /\ \A p \in DigestPass : \A r \in digestPass[p].sending :
          NotSent(digestLog, r, digestPass[p].week, digestPass[p].seen)
    /\ \A i \in DOMAIN mails : NotSent(digestLog, mails[i].reader, mails[i].week, mails[i].seen)

DigestInv == DigestTypeOK /\ PassesHaveLooked

LEMMA IdleIsPass == Idle \in PassRow /\ Idle.sending = {}
  BY DEF Idle, PassRow

LEMMA WeekIsNat == \A day \in Nat : getWeekRange(day) \in Nat
  BY DigestAssumption DEF getWeekRange

\* What the log has not said, it has not said of before when it grows.
LEMMA LogGrows ==
    ASSUME NEW log \in Seq(LogRow), NEW row \in LogRow
    PROVE  /\ Append(log, row) \in Seq(LogRow)
           /\ \A r, week : \A seen \in Nat :
                 NotSent(log, r, week, seen) => NotSent(Append(log, row), r, week, seen)
<1>1. Append(log, row) \in Seq(LogRow) /\ Len(Append(log, row)) = Len(log) + 1
  OBVIOUS
<1>2. \A k \in 1..Len(log) : Append(log, row)[k] = log[k]
  OBVIOUS
<1>3. ASSUME NEW r, NEW week, NEW seen \in Nat, NotSent(log, r, week, seen)
      PROVE  NotSent(Append(log, row), r, week, seen)
  <2>1. seen <= Len(log) /\ Len(log) \in Nat  BY <1>3 DEF NotSent
  <2>2. \A k \in 1..seen : k \in 1..Len(log)  BY <2>1
  <2> QED  BY <1>1, <1>2, <1>3, <2>1, <2>2 DEF NotSent
<1> QED  BY <1>1, <1>3

\* The log grows or stays, one pass goes on to something it has looked up, and a
\* mail may be added that was looked up too.
LEMMA PassGoesOn ==
    ASSUME DigestInv, NEW p \in DigestPass, NEW new \in PassRow,
           digestPass' = [digestPass EXCEPT ![p] = new], today' \in Nat,
           UNCHANGED digestLog \/ \E row \in LogRow : digestLog' = Append(digestLog, row),
           \A r \in new.sending : NotSent(digestLog', r, new.week, new.seen),
           \/ UNCHANGED mails
           \/ \E mail \in MailRow : /\ mails' = Append(mails, mail)
                                   /\ NotSent(digestLog, mail.reader, mail.week, mail.seen)
    PROVE  DigestInv'
<1>0. DigestTypeOK /\ PassesHaveLooked  BY DEF DigestInv
<1>1. digestLog' \in Seq(LogRow)
      /\ \A r, week : \A seen \in Nat :
            NotSent(digestLog, r, week, seen) => NotSent(digestLog', r, week, seen)
  <2>1. CASE UNCHANGED digestLog
    BY <1>0, <2>1 DEF DigestTypeOK
  <2>2. CASE \E row \in LogRow : digestLog' = Append(digestLog, row)
    BY <1>0, <2>2, LogGrows DEF DigestTypeOK
  <2> QED  BY <2>1, <2>2
<1>2. digestPass' \in [DigestPass -> PassRow] /\ digestPass'[p] = new
      /\ \A q \in DigestPass : q # p => digestPass'[q] = digestPass[q]
  BY <1>0 DEF DigestTypeOK
<1>3. mails' \in Seq(MailRow)
      /\ \A i \in DOMAIN mails' : mails'[i] \in MailRow
           /\ NotSent(digestLog, mails'[i].reader, mails'[i].week, mails'[i].seen)
  <2>0. mails \in Seq(MailRow) /\ \A i \in DOMAIN mails : mails[i] \in MailRow
    BY <1>0 DEF DigestTypeOK
  <2>1. CASE UNCHANGED mails
    BY <1>0, <2>0, <2>1 DEF PassesHaveLooked
  <2>2. ASSUME NEW mail \in MailRow, mails' = Append(mails, mail),
               NotSent(digestLog, mail.reader, mail.week, mail.seen)
        PROVE  /\ mails' \in Seq(MailRow)
               /\ \A i \in DOMAIN mails' : mails'[i] \in MailRow
                    /\ NotSent(digestLog, mails'[i].reader, mails'[i].week, mails'[i].seen)
    <3>1. mails' \in Seq(MailRow)  BY <2>0, <2>2
    <3>2. ASSUME NEW i \in DOMAIN mails'
          PROVE  \/ i \in DOMAIN mails /\ mails'[i] = mails[i]
                 \/ mails'[i] = mail
      BY <2>0, <2>2, <3>2
    <3> QED  BY <1>0, <2>0, <2>2, <3>1, <3>2 DEF PassesHaveLooked
  <2> QED  BY <2>1, <2>2
<1>4. DigestTypeOK'  BY <1>0, <1>1, <1>2, <1>3 DEF DigestTypeOK
<1>5. ASSUME NEW q \in DigestPass, NEW r \in digestPass'[q].sending
      PROVE  NotSent(digestLog', r, digestPass'[q].week, digestPass'[q].seen)
  <2>1. CASE q = p  BY <1>2, <1>5, <2>1
  <2>2. CASE q # p
    <3>1. digestPass[q] \in PassRow  BY <1>0 DEF DigestTypeOK
    <3>2. digestPass[q].seen \in Nat /\ r \in digestPass[q].sending /\ digestPass'[q] = digestPass[q]
      BY <1>2, <1>5, <2>2, <3>1 DEF PassRow
    <3>3. NotSent(digestLog, r, digestPass[q].week, digestPass[q].seen)  BY <1>0, <3>2 DEF PassesHaveLooked
    <3> QED  BY <1>1, <3>2, <3>3
  <2> QED  BY <2>1, <2>2
<1>6. ASSUME NEW i \in DOMAIN mails'
      PROVE  NotSent(digestLog', mails'[i].reader, mails'[i].week, mails'[i].seen)
  <2>1. NotSent(digestLog, mails'[i].reader, mails'[i].week, mails'[i].seen)
    BY <1>3, <1>6
  <2>2. mails'[i].seen \in Nat  BY <1>3, <1>6 DEF MailRow
  <2> QED  BY <1>1, <2>1, <2>2
<1>7. PassesHaveLooked'
  BY <1>5, <1>6 DEF PassesHaveLooked
<1> QED  BY <1>4, <1>7 DEF DigestInv

LEMMA DigestStep == ASSUME DigestInv, DigestNext PROVE DigestInv'
<1>0. DigestTypeOK /\ PassesHaveLooked  BY DEF DigestInv
<1>1. CASE UNCHANGED <<digestLog, digestPass, mails>> /\ today' \in Nat
  BY <1>0, <1>1 DEF DigestInv, DigestTypeOK, PassesHaveLooked
<1>2. ASSUME NEW p \in DigestPass, StartDigests(p) PROVE DigestInv'
  <2> DEFINE new == [Idle EXCEPT !.week = getWeekRange(today), !.left = getSubscribersDueForDigest(today)]
  <2>1. new \in PassRow /\ new.sending = {}
    <3>1. getWeekRange(today) \in Nat /\ getSubscribersDueForDigest(today) \in SUBSET Reader
      BY <1>0, WeekIsNat DEF DigestTypeOK, getSubscribersDueForDigest
    <3> QED  BY <3>1, IdleIsPass DEF PassRow
  <2>2. digestPass' = [digestPass EXCEPT ![p] = new]
    BY <1>2 DEF StartDigests
  <2>3. UNCHANGED <<digestLog, mails, today>>  BY <1>2 DEF StartDigests
  <2> HIDE DEF new
  <2> QED  BY <1>0, <1>2, <2>1, <2>2, <2>3, PassGoesOn DEF DigestTypeOK
<1>3. ASSUME NEW p \in DigestPass, EndDigests(p) PROVE DigestInv'
  <2>1. digestPass' = [digestPass EXCEPT ![p] = Idle] /\ UNCHANGED <<digestLog, mails, today>>
    BY <1>3 DEF EndDigests
  <2> QED  BY <1>0, <1>3, <2>1, IdleIsPass, PassGoesOn DEF DigestTypeOK
<1>4. ASSUME NEW p \in DigestPass, NEW r \in Reader, sendWeeklyDigests(p, r)
      PROVE  DigestInv'
  <2> DEFINE d == digestPass[p]
             new == [d EXCEPT !.left = d.left \ {r}]
             out == [d EXCEPT !.left = d.left \ {r}, !.sending = {r}, !.seen = Len(digestLog)]
  <2>1. d \in PassRow /\ d.sending = {} /\ UNCHANGED <<mails, today>> /\ today \in Nat
    BY <1>0, <1>4 DEF DigestTypeOK, sendWeeklyDigests
  <2>2. Len(digestLog) \in Nat  BY <1>0 DEF DigestTypeOK
  <2>3. new \in PassRow /\ new.sending = {}  BY <2>1 DEF PassRow
  <2>4. out \in PassRow /\ out.sending = {r} /\ out.week = d.week /\ out.seen = Len(digestLog)
    BY <2>1, <2>2 DEF PassRow
  <2>5. CASE wasDigestSentThisWeek(r, d.week) \/ getEarningsForWeek(r, d.week) = {}
    <3>1. digestPass' = [digestPass EXCEPT ![p] = new]  BY <1>4, <2>5 DEF sendWeeklyDigests
    <3>2. UNCHANGED digestLog \/ digestLog' = Append(digestLog, Logged(r, d.week, "sent"))
      BY <1>4, <2>5 DEF sendWeeklyDigests, logDigestSent
    <3>3. Logged(r, d.week, "sent") \in LogRow  BY <2>1 DEF Logged, LogRow, PassRow
    <3> HIDE DEF new
    <3> QED  BY <1>4, <2>1, <2>3, <3>1, <3>2, <3>3, PassGoesOn
  <2>6. CASE ~wasDigestSentThisWeek(r, d.week) /\ getEarningsForWeek(r, d.week) # {}
    <3>1. digestPass' = [digestPass EXCEPT ![p] = out] /\ UNCHANGED digestLog
      BY <1>4, <2>6 DEF sendWeeklyDigests
    <3>2. NotSent(digestLog, r, d.week, Len(digestLog))
      <4>1. \A k \in 1..Len(digestLog) : k \in DOMAIN digestLog  BY <1>0 DEF DigestTypeOK
      <4> QED  BY <2>2, <2>6, <4>1 DEF NotSent, wasDigestSentThisWeek
    <3>3. \A x \in out.sending : NotSent(digestLog', x, out.week, out.seen)
      BY <2>4, <3>1, <3>2
    <3> HIDE DEF out
    <3> QED  BY <1>4, <2>1, <2>4, <3>1, <3>3, PassGoesOn
  <2> QED  BY <2>5, <2>6
<1>5. ASSUME NEW p \in DigestPass, NEW r \in Reader, NEW taken \in BOOLEAN, sendEmail(p, r, taken)
      PROVE  DigestInv'
  <2> DEFINE d == digestPass[p]
             new == [d EXCEPT !.sending = {}, !.seen = 0]
             mail == [reader |-> r, week |-> d.week, seen |-> d.seen]
  <2>1. d \in PassRow /\ r \in d.sending /\ UNCHANGED today /\ today \in Nat
    BY <1>0, <1>5 DEF DigestTypeOK, sendEmail
  <2>2. new \in PassRow /\ new.sending = {}  BY <2>1 DEF PassRow
  <2>3. digestPass' = [digestPass EXCEPT ![p] = new]  BY <1>5 DEF sendEmail
  <2>4. \E row \in LogRow : digestLog' = Append(digestLog, row)
    <3>1. Logged(r, d.week, "sent") \in LogRow /\ Logged(r, d.week, "failed") \in LogRow
      BY <2>1 DEF Logged, LogRow, PassRow
    <3> QED  BY <1>5, <3>1 DEF sendEmail, logDigestSent, logDigestFailed
  <2>5. mail \in MailRow /\ mail.reader = r /\ mail.week = d.week /\ mail.seen = d.seen
    BY <2>1 DEF PassRow, MailRow
  <2>6. UNCHANGED mails \/ mails' = Append(mails, mail)  BY <1>5 DEF sendEmail
  <2>7. NotSent(digestLog, mail.reader, mail.week, mail.seen)
    BY <1>0, <2>1, <2>5 DEF PassesHaveLooked
  <2> HIDE DEF new, mail
  <2> QED  BY <2>1, <2>2, <2>3, <2>4, <2>5, <2>6, <2>7, PassGoesOn
<1>6. ASSUME PostSubscribe \/ PutPreferences \/ PostUnsubscribe \/ NextDay \/ \E r \in Reader : Earn(r)
      PROVE  DigestInv'
  <2>1. UNCHANGED <<digestLog, digestPass, mails>>
    BY <1>6 DEF PostSubscribe, PutPreferences, PostUnsubscribe, NextDay, Earn
  <2>2. today' \in Nat
    BY <1>0, <1>6 DEF DigestTypeOK, PostSubscribe, PutPreferences, PostUnsubscribe, NextDay, Earn
  <2> QED  BY <1>1, <2>1, <2>2
<1> QED  BY <1>2, <1>3, <1>4, <1>5, <1>6 DEF DigestNext

\* A digest is mailed twice for one week only by passes that overlap.
LEMMA DigestHolds == DigestInv => SentStopsLaterPasses
  BY DEF DigestInv, PassesHaveLooked, NotSent, SentStopsLaterPasses

LEMMA DigestStarts == CorrespondenceInit => DigestInv
<1> SUFFICES ASSUME CorrespondenceInit PROVE DigestInv  OBVIOUS
<1>1. DigestTypeOK  BY IdleIsPass DEF CorrespondenceInit, DigestTypeOK
<1>2. PassesHaveLooked  BY IdleIsPass DEF CorrespondenceInit, PassesHaveLooked
<1> QED  BY <1>1, <1>2 DEF DigestInv

LEMMA DigestStays == DigestInv /\ [RecordsNext]_mcVars => DigestInv'
<1> SUFFICES ASSUME DigestInv, [RecordsNext]_mcVars PROVE DigestInv'  OBVIOUS
<1>1. CASE DigestNext  BY <1>1, DigestStep
<1>2. CASE OfficeNext \/ UNCHANGED postVars
  <2>1. UNCHANGED <<today, digestLog, digestPass, mails>>
    BY <1>2 DEF OfficeNext, PostCommunication, PostInternalNote, PostImport, postVars
  <2> QED  BY <2>1 DEF DigestInv, DigestTypeOK, PassesHaveLooked
<1> QED  BY <1>1, <1>2, RecordsFrame

-----------------------------------------------------------------------------
(***************************************************************************)
(* Compliance reports.  The test for an earlier report looks at rows; the  *)
(* property is about generators.  What joins them: a generator at work     *)
(* owns its row, which is marked as being generated, and no two such rows  *)
(* are of one period.                                                      *)
(***************************************************************************)

ReportType == {"monthly", "quarterly", "annual"}
ReportRec == [type : ReportType, period : Int \X Int, status : {"generating", "completed", "failed"},
              file : BOOLEAN, emailedTo : SUBSET Recipient]

ReportTypeOK ==
    /\ month \in Nat
    /\ compliance_reports \in Seq(ReportRec)
    /\ generator \in [Generator -> [id : Nat, left : SUBSET Recipient]]
    /\ sent \subseteq (DOMAIN compliance_reports) \X Recipient

\* A period is a whole month, quarter or year.
Whole(type, period) ==
    /\ type = "monthly" => \E m \in Int : period = <<m, m>>
    /\ type = "quarterly" => \E q \in Int : period = <<3 * q, 3 * q + 2>>
    /\ type = "annual" => \E y \in Int : period = <<12 * y, 12 * y + 11>>

PeriodsAreWhole ==
    \A i \in DOMAIN compliance_reports : Whole(compliance_reports[i].type, compliance_reports[i].period)

\* A generator at work and its row.
Busy(g) == generator[g] # NoReport
GeneratorsOwnTheirRows ==
    /\ \A g \in Generator : Busy(g) =>
          /\ generator[g].id \in DOMAIN compliance_reports
          /\ compliance_reports[generator[g].id].status = "generating"
    /\ \A g, h \in Generator : Busy(g) /\ Busy(h) /\ generator[g].id = generator[h].id => g = h

Standing(i) == compliance_reports[i].status \in {"completed", "generating"}
SamePeriod(i, j) == /\ compliance_reports[i].type = compliance_reports[j].type
                    /\ compliance_reports[i].period = compliance_reports[j].period
OneReportPerPeriod ==
    \A i, j \in DOMAIN compliance_reports :
        Standing(i) /\ Standing(j) /\ SamePeriod(i, j) => i = j

\* What was mailed is on file, or its generator is still at it.
MailedIsOnFile ==
    \A s \in sent : \/ compliance_reports[s[1]].file
                    \/ \E g \in Generator : generator[g].id = s[1] /\ s[2] \notin generator[g].left

ReportInv ==
    ReportTypeOK /\ PeriodsAreWhole /\ GeneratorsOwnTheirRows /\ OneReportPerPeriod /\ MailedIsOnFile

LEMMA PeriodIsWhole ==
    ASSUME NEW thisMonth \in Nat, NEW type \in ReportType
    PROVE  Period(type, thisMonth) \in Int \X Int /\ Whole(type, Period(type, thisMonth))
<1>1. CASE type = "monthly"
  <2>1. Period(type, thisMonth) = <<thisMonth - 1, thisMonth - 1>> /\ thisMonth - 1 \in Int
    BY <1>1 DEF Period, previousMonthPeriod
  <2> QED  BY <1>1, <2>1 DEF Whole
<1>2. CASE type = "quarterly"
  <2> DEFINE q == (thisMonth \div 3) - 1
  <2>1. Period(type, thisMonth) = <<(thisMonth \div 3) * 3 - 3, ((thisMonth \div 3) * 3 - 3) + 2>>
    BY <1>2 DEF Period, previousQuarterPeriod
  <2>2. q \in Int /\ (thisMonth \div 3) * 3 - 3 = 3 * q /\ ((thisMonth \div 3) * 3 - 3) + 2 = 3 * q + 2
    OBVIOUS
  <2> HIDE DEF q
  <2> QED  BY <1>2, <2>1, <2>2 DEF Whole
<1>3. CASE type = "annual"
  <2> DEFINE y == (thisMonth \div 12) - 1
  <2>1. Period(type, thisMonth) = <<(thisMonth \div 12) * 12 - 12, ((thisMonth \div 12) * 12 - 12) + 11>>
    BY <1>3 DEF Period, previousYearPeriod
  <2>2. y \in Int /\ (thisMonth \div 12) * 12 - 12 = 12 * y /\ ((thisMonth \div 12) * 12 - 12) + 11 = 12 * y + 11
    OBVIOUS
  <2> HIDE DEF y
  <2> QED  BY <1>3, <2>1, <2>2 DEF Whole
<1> QED  BY <1>1, <1>2, <1>3 DEF ReportType

LEMMA WholePeriodsAreApart ==
    ASSUME NEW type \in ReportType, NEW a \in Int \X Int, NEW b \in Int \X Int,
           Whole(type, a), Whole(type, b)
    PROVE  a = b \/ a[2] < b[1] \/ b[2] < a[1]
<1>1. CASE type = "monthly"
  <2>1. PICK m \in Int : a = <<m, m>>  BY <1>1 DEF Whole
  <2>2. PICK n \in Int : b = <<n, n>>  BY <1>1 DEF Whole
  <2> QED  BY <2>1, <2>2
<1>2. CASE type = "quarterly"
  <2>1. PICK m \in Int : a = <<3 * m, 3 * m + 2>>  BY <1>2 DEF Whole
  <2>2. PICK n \in Int : b = <<3 * n, 3 * n + 2>>  BY <1>2 DEF Whole
  <2>3. m = n \/ 3 * m + 2 < 3 * n \/ 3 * n + 2 < 3 * m  OBVIOUS
  <2> QED  BY <2>1, <2>2, <2>3
<1>3. CASE type = "annual"
  <2>1. PICK m \in Int : a = <<12 * m, 12 * m + 11>>  BY <1>3 DEF Whole
  <2>2. PICK n \in Int : b = <<12 * n, 12 * n + 11>>  BY <1>3 DEF Whole
  <2>3. m = n \/ 12 * m + 11 < 12 * n \/ 12 * n + 11 < 12 * m  OBVIOUS
  <2> QED  BY <2>1, <2>2, <2>3
<1> QED  BY <1>1, <1>2, <1>3 DEF ReportType

LEMMA BusyHasId ==
    ASSUME ReportTypeOK, NEW g \in Generator, generator[g].id # 0
    PROVE  Busy(g)
  BY DEF Busy, NoReport

LEMMA NewReport ==
    ASSUME ReportInv, NEW g \in Generator, NEW type \in ReportType, NEW period \in Int \X Int,
           Whole(type, period), generateComplianceReport(g, type, period)
    PROVE  ReportInv'
<1> DEFINE row == createComplianceReport(type, period)
           n == Len(compliance_reports)
           new == [id |-> n + 1, left |-> Recipient]
<1>0. /\ ReportTypeOK /\ PeriodsAreWhole /\ GeneratorsOwnTheirRows /\ OneReportPerPeriod
      /\ MailedIsOnFile
  BY DEF ReportInv
<1>1. /\ row \in ReportRec /\ row.type = type /\ row.period = period /\ row.status = "generating"
  BY DEF createComplianceReport, ReportRec
<1>2. n \in Nat /\ compliance_reports \in Seq(ReportRec) /\ DOMAIN compliance_reports = 1..n
  BY <1>0 DEF ReportTypeOK
<1>3. /\ generator[g] = NoReport /\ ~reportExistsForPeriod(type, period)
      /\ compliance_reports' = Append(compliance_reports, row)
      /\ generator' = [generator EXCEPT ![g] = new] /\ UNCHANGED <<month, sent>>
  BY DEF generateComplianceReport
<1> HIDE DEF row
<1>4. /\ compliance_reports' \in Seq(ReportRec) /\ DOMAIN compliance_reports' = 1..(n + 1)
      /\ compliance_reports'[n + 1] = row
      /\ \A i \in 1..n : compliance_reports'[i] = compliance_reports[i]
  BY <1>1, <1>2, <1>3
<1>5. /\ generator' \in [Generator -> [id : Nat, left : SUBSET Recipient]]
      /\ generator'[g] = new /\ new.id = n + 1
      /\ \A h \in Generator : h # g => generator'[h] = generator[h]
  BY <1>0, <1>2, <1>3 DEF ReportTypeOK
<1> HIDE DEF n, new
<1>6. ReportTypeOK'
  <2>1. 1..n \subseteq 1..(n + 1)  BY <1>2
  <2> QED  BY <1>0, <1>2, <1>3, <1>4, <1>5, <2>1 DEF ReportTypeOK
<1>7. \A i \in 1..(n + 1) : i \in 1..n \/ i = n + 1
  BY <1>2
<1>8. PeriodsAreWhole'
  BY <1>0, <1>1, <1>2, <1>4, <1>7 DEF PeriodsAreWhole
<1>9. \A h \in Generator : h # g /\ Busy(h) => generator[h].id \in 1..n
  BY <1>0, <1>2 DEF GeneratorsOwnTheirRows
<1>10. n + 1 \notin 1..n /\ n + 1 \in 1..(n + 1) /\ \A i \in 1..n : i \in 1..(n + 1)
  BY <1>2
<1>11. GeneratorsOwnTheirRows'
  <2>1. ASSUME NEW h \in Generator, Busy(h)'
        PROVE  generator'[h].id \in 1..(n + 1) /\ compliance_reports'[generator'[h].id].status = "generating"
    <3>1. CASE h = g  BY <1>1, <1>4, <1>5, <1>10, <3>1
    <3>2. CASE h # g
      <4>1. Busy(h)  BY <1>5, <2>1, <3>2 DEF Busy
      <4> QED  BY <1>0, <1>4, <1>5, <1>9, <1>10, <3>2, <4>1 DEF GeneratorsOwnTheirRows
    <3> QED  BY <3>1, <3>2
  <2>2. ASSUME NEW h \in Generator, NEW k \in Generator, Busy(h)', Busy(k)',
               generator'[h].id = generator'[k].id
        PROVE  h = k
    <3>1. CASE h = g /\ k # g
      <4>1. Busy(k)  BY <1>5, <2>2, <3>1 DEF Busy
      <4> QED  BY <1>5, <1>9, <1>10, <2>2, <3>1, <4>1
    <3>2. CASE h # g /\ k = g
      <4>1. Busy(h)  BY <1>5, <2>2, <3>2 DEF Busy
      <4> QED  BY <1>5, <1>9, <1>10, <2>2, <3>2, <4>1
    <3>3. CASE h # g /\ k # g
      BY <1>0, <1>5, <2>2, <3>3 DEF Busy, GeneratorsOwnTheirRows
    <3> QED  BY <3>1, <3>2, <3>3
  <2> QED  BY <1>4, <2>1, <2>2 DEF GeneratorsOwnTheirRows
<1>12. OneReportPerPeriod'
  <2>1. \A i \in 1..n : ~(/\ compliance_reports[i].type = type /\ compliance_reports[i].period = period
                          /\ Standing(i))
    BY <1>2, <1>3 DEF reportExistsForPeriod, ReportRow, Standing
  <2>2. ASSUME NEW i \in 1..(n + 1), NEW j \in 1..(n + 1), Standing(i)', Standing(j)', SamePeriod(i, j)'
        PROVE  i = j
    <3>1. CASE i \in 1..n /\ j \in 1..n
      <4>1. Standing(i) /\ Standing(j) /\ SamePeriod(i, j)
        BY <1>4, <2>2, <3>1 DEF Standing, SamePeriod
      <4> QED  BY <1>0, <1>2, <3>1, <4>1 DEF OneReportPerPeriod
    <3>2. CASE i \in 1..n /\ j = n + 1
      BY <1>1, <1>4, <2>1, <2>2, <3>2 DEF Standing, SamePeriod
    <3>3. CASE j \in 1..n /\ i = n + 1
      BY <1>1, <1>4, <2>1, <2>2, <3>3 DEF Standing, SamePeriod
    <3> QED  BY <1>7, <3>1, <3>2, <3>3
  <2> QED  BY <1>4, <2>2 DEF OneReportPerPeriod
<1>13. MailedIsOnFile'
  <2> SUFFICES ASSUME NEW s \in sent'
               PROVE  \/ compliance_reports'[s[1]].file
                      \/ \E h \in Generator : generator'[h].id = s[1] /\ s[2] \notin generator'[h].left
    BY DEF MailedIsOnFile
  <2>1. s \in sent /\ s[1] \in 1..n  BY <1>0, <1>2, <1>3 DEF ReportTypeOK
  <2>2. CASE compliance_reports[s[1]].file  BY <1>4, <2>1, <2>2
  <2>3. ASSUME NEW h \in Generator, generator[h].id = s[1], s[2] \notin generator[h].left
        PROVE  generator'[h].id = s[1] /\ s[2] \notin generator'[h].left
    <3>1. h # g  BY <1>2, <1>3, <2>1, <2>3 DEF NoReport
    <3> QED  BY <1>5, <2>3, <3>1
  <2> QED  BY <1>0, <2>1, <2>2, <2>3 DEF MailedIsOnFile
<1> QED  BY <1>6, <1>8, <1>11, <1>12, <1>13 DEF ReportInv

LEMMA ReportMailed ==
    ASSUME ReportInv, NEW g \in Generator, NEW r \in Recipient, MailReport(g, r)
    PROVE  ReportInv'
<1> DEFINE old == generator[g]
           new == [old EXCEPT !.left = old.left \ {r}]
<1>0. /\ ReportTypeOK /\ PeriodsAreWhole /\ GeneratorsOwnTheirRows /\ OneReportPerPeriod
      /\ MailedIsOnFile
  BY DEF ReportInv
<1>1. old \in [id : Nat, left : SUBSET Recipient] /\ Busy(g)
  BY <1>0 DEF ReportTypeOK, MailReport, Busy
<1>2. old.id \in DOMAIN compliance_reports /\ compliance_reports \in Seq(ReportRec)
  BY <1>0, <1>1 DEF GeneratorsOwnTheirRows, ReportTypeOK
<1>3. new \in [id : Nat, left : SUBSET Recipient] /\ new.id = old.id /\ new.left = old.left \ {r}
  BY <1>1
<1>4. generator' = [generator EXCEPT ![g] = new] /\ UNCHANGED <<month, compliance_reports>>
  BY DEF MailReport
<1>5. \A s \in sent' : s \in sent \/ s = <<old.id, r>>
  BY DEF MailReport
<1>6. r \in Recipient  OBVIOUS
<1> HIDE DEF new
<1>7. /\ generator' \in [Generator -> [id : Nat, left : SUBSET Recipient]] /\ generator'[g] = new
      /\ \A h \in Generator : h # g => generator'[h] = generator[h]
  BY <1>0, <1>3, <1>4 DEF ReportTypeOK
<1>8. \A h \in Generator : generator'[h].id = generator[h].id
  BY <1>3, <1>7
<1>9. \A h \in Generator : Busy(h)' => Busy(h)
  BY <1>1, <1>7 DEF Busy
<1>10. ReportTypeOK'
  <2>1. <<old.id, r>> \in (DOMAIN compliance_reports) \X Recipient  BY <1>2
  <2> QED  BY <1>0, <1>4, <1>5, <1>7, <2>1 DEF ReportTypeOK
<1>11. PeriodsAreWhole' /\ OneReportPerPeriod'
  BY <1>0, <1>4 DEF PeriodsAreWhole, OneReportPerPeriod, Standing, SamePeriod
<1>12. GeneratorsOwnTheirRows'
  BY <1>0, <1>4, <1>8, <1>9 DEF GeneratorsOwnTheirRows
<1>13. MailedIsOnFile'
  <2> SUFFICES ASSUME NEW s \in sent'
               PROVE  \/ compliance_reports[s[1]].file
                      \/ \E h \in Generator : generator'[h].id = s[1] /\ s[2] \notin generator'[h].left
    BY <1>4 DEF MailedIsOnFile
  <2>1. CASE s = <<old.id, r>>  BY <1>3, <1>7, <2>1
  <2>2. CASE s \in sent
    <3>1. ASSUME NEW h \in Generator, generator[h].id = s[1], s[2] \notin generator[h].left
          PROVE  generator'[h].id = s[1] /\ s[2] \notin generator'[h].left
      <4>1. CASE h = g  BY <1>3, <1>7, <3>1, <4>1
      <4>2. CASE h # g  BY <1>7, <3>1, <4>2
      <4> QED  BY <4>1, <4>2
    <3> QED  BY <1>0, <2>2, <3>1 DEF MailedIsOnFile
  <2> QED  BY <1>5, <2>1, <2>2
<1> QED  BY <1>10, <1>11, <1>12, <1>13 DEF ReportInv

\* The generator is done with its row: the file is there, or nothing was mailed.
LEMMA ReportEnds ==
    ASSUME ReportInv, NEW g \in Generator, Busy(g), NEW row \in ReportRec,
           row.type = compliance_reports[generator[g].id].type,
           row.period = compliance_reports[generator[g].id].period,
           row.file \/ (generator[g].left = Recipient /\ row.file = compliance_reports[generator[g].id].file),
           compliance_reports' = [compliance_reports EXCEPT ![generator[g].id] = row],
           generator' = [generator EXCEPT ![g] = NoReport],
           UNCHANGED <<month, sent>>
    PROVE  ReportInv'
<1> DEFINE id == generator[g].id
<1>0. /\ ReportTypeOK /\ PeriodsAreWhole /\ GeneratorsOwnTheirRows /\ OneReportPerPeriod
      /\ MailedIsOnFile
  BY DEF ReportInv
<1>1. id \in DOMAIN compliance_reports /\ compliance_reports[id].status = "generating"
  BY <1>0 DEF GeneratorsOwnTheirRows
<1>2. /\ compliance_reports' \in Seq(ReportRec) /\ DOMAIN compliance_reports' = DOMAIN compliance_reports
      /\ compliance_reports'[id] = row
      /\ \A i \in DOMAIN compliance_reports : i # id => compliance_reports'[i] = compliance_reports[i]
  BY <1>0, <1>1 DEF ReportTypeOK
<1>3. NoReport \in [id : Nat, left : SUBSET Recipient] /\ NoReport.id = 0
  BY DEF NoReport
<1>4. /\ generator' \in [Generator -> [id : Nat, left : SUBSET Recipient]] /\ generator'[g] = NoReport
      /\ \A h \in Generator : h # g => generator'[h] = generator[h]
  BY <1>0, <1>3 DEF ReportTypeOK
<1> HIDE DEF id
<1>5. ReportTypeOK'
  BY <1>0, <1>2, <1>4 DEF ReportTypeOK
<1>6. \A i \in DOMAIN compliance_reports : /\ compliance_reports'[i].type = compliance_reports[i].type
                                           /\ compliance_reports'[i].period = compliance_reports[i].period
  BY <1>2 DEF id
<1>7. PeriodsAreWhole'
  BY <1>0, <1>2, <1>6 DEF PeriodsAreWhole
<1>8. OneReportPerPeriod'
  <2>1. \A i \in DOMAIN compliance_reports : Standing(i)' => Standing(i)
    BY <1>1, <1>2 DEF Standing
  <2> QED  BY <1>0, <1>2, <1>6, <2>1 DEF OneReportPerPeriod, SamePeriod
<1>9. \A h \in Generator : Busy(h)' => h # g /\ Busy(h) /\ generator'[h] = generator[h] /\ generator[h].id # id
  BY <1>0, <1>4 DEF Busy, GeneratorsOwnTheirRows, id
<1>10. GeneratorsOwnTheirRows'
  BY <1>0, <1>2, <1>9 DEF GeneratorsOwnTheirRows
<1>11. MailedIsOnFile'
  <2> SUFFICES ASSUME NEW s \in sent
               PROVE  \/ compliance_reports'[s[1]].file
                      \/ \E h \in Generator : generator'[h].id = s[1] /\ s[2] \notin generator'[h].left
    BY DEF MailedIsOnFile
  <2>0. s[1] \in DOMAIN compliance_reports /\ s[2] \in Recipient /\ s[1] # 0
    BY <1>0 DEF ReportTypeOK
  <2>1. CASE compliance_reports[s[1]].file
    BY <1>2, <2>0, <2>1 DEF id
  <2>2. ASSUME NEW h \in Generator, generator[h].id = s[1], s[2] \notin generator[h].left, h # g
        PROVE  generator'[h].id = s[1] /\ s[2] \notin generator'[h].left
    BY <1>4, <2>2
  <2>3. CASE generator[g].id = s[1] /\ s[2] \notin generator[g].left
    BY <1>2, <2>0, <2>3 DEF id
  <2> QED  BY <1>0, <2>1, <2>2, <2>3 DEF MailedIsOnFile
<1> QED  BY <1>5, <1>7, <1>8, <1>10, <1>11 DEF ReportInv

LEMMA ReportStep == ASSUME ReportInv, ComplianceNext PROVE ReportInv'
<1>0. ReportTypeOK /\ GeneratorsOwnTheirRows
  BY DEF ReportInv
<1>1. CASE NextMonth
  <2>1. UNCHANGED <<compliance_reports, generator, sent>> /\ month' \in Nat
    BY <1>0, <1>1 DEF NextMonth, ReportTypeOK
  <2> QED  BY <2>1 DEF ReportInv, ReportTypeOK, PeriodsAreWhole, GeneratorsOwnTheirRows, Busy,
                       OneReportPerPeriod, Standing, SamePeriod, MailedIsOnFile
<1>2. ASSUME NEW g \in Generator, runComplianceReportScheduler(g) \/ PostGenerate(g) PROVE ReportInv'
  <2>1. PICK type \in ReportType : generateComplianceReport(g, type, Period(type, month))
    BY <1>2 DEF runComplianceReportScheduler, PostGenerate, getReportTypesDue, ReportType
  <2>2. Period(type, month) \in Int \X Int /\ Whole(type, Period(type, month))
    BY <1>0, PeriodIsWhole DEF ReportTypeOK
  <2> QED  BY <2>1, <2>2, NewReport
<1>3. ASSUME NEW g \in Generator, Busy(g)
      PROVE  compliance_reports[generator[g].id] \in ReportRec
  BY <1>0, <1>3 DEF ReportTypeOK, GeneratorsOwnTheirRows
<1>4. ASSUME NEW row \in ReportRec, NEW to \in SUBSET Recipient
      PROVE  /\ markReportFailed(row) \in ReportRec /\ markReportFailed(row).type = row.type
             /\ markReportFailed(row).period = row.period /\ markReportFailed(row).file = row.file
             /\ markReportCompleted(row, to) \in ReportRec /\ markReportCompleted(row, to).type = row.type
             /\ markReportCompleted(row, to).period = row.period /\ markReportCompleted(row, to).file
  BY DEF markReportFailed, markReportCompleted, ReportRec
<1>5. ASSUME NEW g \in Generator, FinishReport(g) PROVE ReportInv'
  <2> DEFINE id == generator[g].id
             to == {s[2] : s \in {x \in sent : x[1] = id}}
             done == markReportCompleted(compliance_reports[id], to)
             row == IF Audited("compliance_report_generated") THEN done ELSE markReportFailed(done)
  <2>1. Busy(g) /\ to \in SUBSET Recipient  BY <1>0, <1>5 DEF FinishReport, Busy, ReportTypeOK
  <2>2. compliance_reports[id] \in ReportRec  BY <1>3, <2>1
  <2>3. /\ compliance_reports' = [compliance_reports EXCEPT ![id] = row]
        /\ generator' = [generator EXCEPT ![g] = NoReport] /\ UNCHANGED <<month, sent>>
    BY <1>5 DEF FinishReport
  <2> HIDE DEF to
  <2>4. done \in ReportRec /\ done.type = compliance_reports[id].type
        /\ done.period = compliance_reports[id].period /\ done.file
    BY <1>4, <2>1, <2>2
  <2> HIDE DEF done
  <2>5. row \in ReportRec /\ row.type = compliance_reports[id].type
        /\ row.period = compliance_reports[id].period /\ row.file
    BY <1>4, <2>1, <2>4
  <2> HIDE DEF row
  <2> QED  BY <2>1, <2>3, <2>5, ReportEnds
<1>6. ASSUME NEW g \in Generator, ReportFails(g) PROVE ReportInv'
  <2> DEFINE id == generator[g].id
             row == markReportFailed(compliance_reports[id])
  <2>1. Busy(g) /\ generator[g].left = Recipient  BY <1>6 DEF ReportFails, Busy
  <2>2. compliance_reports[id] \in ReportRec  BY <1>3, <2>1
  <2>3. /\ compliance_reports' = [compliance_reports EXCEPT ![id] = row]
        /\ generator' = [generator EXCEPT ![g] = NoReport] /\ UNCHANGED <<month, sent>>
    BY <1>6 DEF ReportFails
  <2>5. row \in ReportRec /\ row.type = compliance_reports[id].type
        /\ row.period = compliance_reports[id].period /\ row.file = compliance_reports[id].file
    BY <1>4, <2>2
  <2> HIDE DEF row
  <2> QED  BY <2>1, <2>3, <2>5, ReportEnds
<1> QED  BY <1>1, <1>2, <1>5, <1>6, ReportMailed DEF ComplianceNext

\* Two passes are never at work on one period's report, periods of one kind have
\* no month in common, every report is of one kind, and what was mailed is on file.
LEMMA ReportHolds == ReportInv => ReportsDoNotOverlap
<1> SUFFICES ASSUME ReportInv PROVE ReportsDoNotOverlap  OBVIOUS
<1>0. /\ ReportTypeOK /\ PeriodsAreWhole /\ GeneratorsOwnTheirRows /\ OneReportPerPeriod
      /\ MailedIsOnFile
  BY DEF ReportInv
<1>1. ASSUME NEW g \in Generator, NEW h \in Generator, g # h, generator[g] # NoReport, generator[h] # NoReport
      PROVE  \/ getComplianceReport(generator[g].id).type # getComplianceReport(generator[h].id).type
             \/ getComplianceReport(generator[g].id).period # getComplianceReport(generator[h].id).period
  <2>1. Busy(g) /\ Busy(h)  BY <1>1 DEF Busy
  <2>2. generator[g].id # generator[h].id  BY <1>0, <1>1, <2>1 DEF GeneratorsOwnTheirRows
  <2>3. /\ generator[g].id \in DOMAIN compliance_reports /\ Standing(generator[g].id)
        /\ generator[h].id \in DOMAIN compliance_reports /\ Standing(generator[h].id)
    BY <1>0, <2>1 DEF GeneratorsOwnTheirRows, Standing
  <2> QED  BY <1>0, <2>2, <2>3 DEF OneReportPerPeriod, SamePeriod, getComplianceReport
<1>2. ASSUME NEW type \in ReportType, NEW i \in listComplianceReports(type), NEW j \in listComplianceReports(type)
      PROVE  LET a == getComplianceReport(i).period
                 b == getComplianceReport(j).period
             IN  a = b \/ a[2] < b[1] \/ b[2] < a[1]
  <2>1. /\ i \in DOMAIN compliance_reports /\ compliance_reports[i].type = type
        /\ j \in DOMAIN compliance_reports /\ compliance_reports[j].type = type
    BY <1>2 DEF listComplianceReports, ReportRow
  <2>2. compliance_reports[i] \in ReportRec /\ compliance_reports[j] \in ReportRec
    BY <1>0, <2>1 DEF ReportTypeOK
  <2>3. compliance_reports[i].period \in Int \X Int /\ compliance_reports[j].period \in Int \X Int
    BY <2>2 DEF ReportRec
  <2>4. Whole(type, compliance_reports[i].period) /\ Whole(type, compliance_reports[j].period)
    BY <1>0, <2>1 DEF PeriodsAreWhole
  <2> QED  BY <2>3, <2>4, WholePeriodsAreApart DEF getComplianceReport
<1>3. SumOf([type \in ReportType |-> countComplianceReports(type)]) = Len(compliance_reports)
  <2> DEFINE n == Len(compliance_reports)
             S == 1..n
             kind == [i \in S |-> compliance_reports[i].type]
             h == [type \in ReportType |-> countComplianceReports(type)]
  <2>1. n \in Nat /\ S = DOMAIN compliance_reports  BY <1>0 DEF ReportTypeOK
  <2>2. IsFiniteSet(S) /\ Cardinality(S) = n
    <3> HIDE DEF n
    <3> QED  BY <2>1, FS_Interval
  <2>3. \A i \in S : kind[i] \in ReportType
    <3>1. \A i \in S : compliance_reports[i] \in ReportRec  BY <1>0, <2>1 DEF ReportTypeOK
    <3>2. \A row \in ReportRec : row.type \in ReportType  BY DEF ReportRec
    <3> QED  BY <3>1, <3>2
  <2>4. ASSUME NEW type \in ReportType PROVE h[type] = Cardinality(ClassOf(S, kind, type))
    <3>1. listComplianceReports(type) = ClassOf(S, kind, type)
      BY <2>1 DEF listComplianceReports, ReportRow, ClassOf
    <3> QED  BY <3>1 DEF countComplianceReports
  <2>5. IsFiniteSet(ReportType)
    <3>1. ReportType = ({"monthly"} \cup {"quarterly"}) \cup {"annual"}  BY DEF ReportType
    <3> QED  BY <3>1, FS_Singleton, FS_Union
  <2>6. DOMAIN h = ReportType  OBVIOUS
  <2> HIDE DEF S, kind, h
  <2>7. SumFunctionOnSet(h, ReportType) = Cardinality(S)
    BY <2>2, <2>3, <2>4, <2>5, CountByClass
  <2>8. SumOf(h) = SumFunctionOnSet(h, ReportType)  BY <2>6 DEF SumOf, SumFunction
  <2> QED  BY <2>2, <2>7, <2>8 DEF h
<1>4. ASSUME NEW s \in sent, \A g \in Generator : generator[g].id # s[1]
      PROVE  DownloadableReport(s[1])
  BY <1>0, <1>4 DEF MailedIsOnFile, DownloadableReport, getComplianceReport
<1> QED  BY <1>1, <1>2, <1>3, <1>4 DEF ReportsDoNotOverlap, ReportType

LEMMA ReportStarts == ReportsInit => ReportInv
<1> SUFFICES ASSUME ReportsInit PROVE ReportInv  OBVIOUS
<1>1. /\ month \in Nat /\ compliance_reports = <<>> /\ sent = {}
      /\ generator = [g \in Generator |-> NoReport]
  BY ReportAssumption DEF ReportsInit
<1>2. NoReport \in [id : Nat, left : SUBSET Recipient]  BY DEF NoReport
<1>3. ReportTypeOK  BY <1>1, <1>2 DEF ReportTypeOK
<1> QED
  BY <1>1, <1>3 DEF ReportInv, PeriodsAreWhole, GeneratorsOwnTheirRows, Busy, OneReportPerPeriod, MailedIsOnFile

LEMMA ReportStays == ReportInv /\ [RecordsNext]_mcVars => ReportInv'
<1> SUFFICES ASSUME ReportInv, [RecordsNext]_mcVars PROVE ReportInv'  OBVIOUS
<1>1. CASE ComplianceNext  BY <1>1, ReportStep
<1>2. CASE SnapshotsNext \/ UNCHANGED reportVars
  <2>1. UNCHANGED <<month, compliance_reports, generator, sent>>
    BY <1>2 DEF SnapshotsNext, startSnapshotScheduler, executeSnapshotRun, SnapshotFails, PruneAfterRun,
                PostSnapshot, DeletePrune, NewTransaction, Paper, reportVars
  <2> QED  BY <2>1 DEF ReportInv, ReportTypeOK, PeriodsAreWhole, GeneratorsOwnTheirRows, Busy,
                       OneReportPerPeriod, Standing, SamePeriod, MailedIsOnFile
<1> QED  BY <1>1, <1>2, RecordsFrame

-----------------------------------------------------------------------------
(***************************************************************************)
(* Snapshots.  A row is never dated ahead of the clock, so a new one is    *)
(* the newest of its contract, and pruning keeps a top of what there is.   *)
(***************************************************************************)

ShotTypeOK ==
    /\ viewDay \in Nat
    /\ \E S : shots \in Seq(S)
    /\ kept \subseteq DOMAIN shots
    /\ \A j \in DOMAIN shots : /\ shots[j].at \in Nat /\ shots[j].at <= viewDay
                               /\ shots[j].hash = computeStateHash(shots[j].state)

NoGap == \A i \in kept : \A j \in DOMAIN shots :
            shots[j].deal = shots[i].deal /\ shots[j].at > shots[i].at => j \in kept
LatestKept == \A j \in DOMAIN shots : \E i \in kept : shots[i].deal = shots[j].deal

ShotInv == ShotTypeOK /\ NoGap /\ LatestKept

LEMMA ShotAdded ==
    ASSUME ShotInv, NEW k, NEW state, createSnapshot(k, state), UNCHANGED viewDay
    PROVE  ShotInv'
<1> DEFINE n == Len(shots)
           new == [deal |-> k, at |-> viewDay, state |-> state, hash |-> computeStateHash(state)]
<1>0. ShotTypeOK /\ NoGap /\ LatestKept  BY DEF ShotInv
<1>1. PICK S : shots \in Seq(S)  BY <1>0 DEF ShotTypeOK
<1>2. shots' = Append(shots, new) /\ kept' = kept \cup {n + 1}  BY DEF createSnapshot
<1>3. new.deal = k /\ new.at = viewDay /\ new.state = state /\ new.hash = computeStateHash(state)
  OBVIOUS
<1> HIDE DEF new
<1>4. shots \in Seq(S \cup {new}) /\ n \in Nat /\ DOMAIN shots = 1..n
  BY <1>1
<1>5. /\ shots' \in Seq(S \cup {new}) /\ DOMAIN shots' = 1..(n + 1) /\ shots'[n + 1] = new
      /\ \A j \in 1..n : shots'[j] = shots[j]
  BY <1>2, <1>4
<1> HIDE DEF n
<1>6. \A j \in 1..(n + 1) : j \in 1..n \/ j = n + 1
  BY <1>4
<1>7. n + 1 \in 1..(n + 1) /\ \A j \in 1..n : j \in 1..(n + 1)
  BY <1>4
<1>8. viewDay \in Nat /\ kept \subseteq 1..n
      /\ \A j \in 1..n : /\ shots[j].at \in Nat /\ shots[j].at <= viewDay
                         /\ shots[j].hash = computeStateHash(shots[j].state)
  BY <1>0, <1>4 DEF ShotTypeOK
<1>9. ShotTypeOK'
  <2>1. kept' \subseteq 1..(n + 1)  BY <1>2, <1>7, <1>8
  <2>2. ASSUME NEW j \in 1..(n + 1)
        PROVE  /\ shots'[j].at \in Nat /\ shots'[j].at <= viewDay
               /\ shots'[j].hash = computeStateHash(shots'[j].state)
    <3>1. CASE j \in 1..n  BY <1>5, <1>8, <3>1
    <3>2. CASE j = n + 1  BY <1>3, <1>5, <1>8, <3>2
    <3> QED  BY <1>6, <3>1, <3>2
  <2> QED  BY <1>5, <1>8, <2>1, <2>2 DEF ShotTypeOK, computeStateHash
<1>10. NoGap'
  <2> SUFFICES ASSUME NEW i \in kept', NEW j \in 1..(n + 1), shots'[j].deal = shots'[i].deal,
                      shots'[j].at > shots'[i].at
               PROVE  j \in kept'
    BY <1>5 DEF NoGap
  <2>1. CASE j = n + 1  BY <1>2, <2>1
  <2>2. CASE j \in 1..n /\ i \in kept
    BY <1>0, <1>2, <1>4, <1>5, <1>8, <2>2 DEF NoGap
  <2>3. CASE j \in 1..n /\ i = n + 1
    BY <1>3, <1>5, <1>8, <2>3
  <2> QED  BY <1>2, <1>6, <2>1, <2>2, <2>3
<1>11. LatestKept'
  <2> SUFFICES ASSUME NEW j \in 1..(n + 1) PROVE \E i \in kept' : shots'[i].deal = shots'[j].deal
    BY <1>5 DEF LatestKept
  <2>1. CASE j = n + 1  BY <1>2, <2>1
  <2>2. CASE j \in 1..n
    <3>1. PICK i \in kept : shots[i].deal = shots[j].deal  BY <1>0, <1>4, <2>2 DEF LatestKept
    <3> QED  BY <1>2, <1>5, <1>8, <2>2, <3>1
  <2> QED  BY <1>6, <2>1, <2>2
<1> QED  BY <1>9, <1>10, <1>11 DEF ShotInv

LEMMA ShotsPruned ==
    ASSUME ShotInv, NEW k, NEW keep, pruneSnapshots(k, keep), UNCHANGED <<viewDay, shots>>
    PROVE  ShotInv'
<1>0. ShotTypeOK /\ NoGap /\ LatestKept  BY DEF ShotInv
<1>1. PICK top \in listSnapshots(k, keep) : kept' = IF top = {} THEN kept ELSE kept \ (ShotsOf(k) \ top)
  BY DEF pruneSnapshots
<1>2. top \subseteq ShotsOf(k) /\ \A i \in top, j \in ShotsOf(k) \ top : shots[i].at >= shots[j].at
  BY <1>1 DEF listSnapshots
<1>3. CASE top = {}
  BY <1>0, <1>1, <1>3 DEF ShotInv, ShotTypeOK, NoGap, LatestKept
<1>4. CASE top # {}
  <2>1. kept' = kept \ (ShotsOf(k) \ top)  BY <1>1, <1>4
  <2>2. ShotTypeOK'  BY <1>0, <2>1 DEF ShotTypeOK
  <2>3. NoGap'
    <3> SUFFICES ASSUME NEW i \in kept', NEW j \in DOMAIN shots, shots[j].deal = shots[i].deal,
                        shots[j].at > shots[i].at
                 PROVE  j \in kept'
      BY DEF NoGap
    <3>1. i \in kept /\ j \in kept  BY <1>0, <2>1 DEF NoGap
    <3>2. i \in DOMAIN shots /\ shots[i].at \in Nat /\ shots[j].at \in Nat
      BY <1>0, <3>1 DEF ShotTypeOK
    <3>3. CASE j \in ShotsOf(k) \ top
      <4>1. i \in ShotsOf(k)  BY <3>1, <3>3 DEF ShotsOf
      <4>2. i \in top  BY <2>1, <4>1
      <4>3. shots[i].at >= shots[j].at  BY <1>2, <3>3, <4>2
      <4> QED  BY <3>2, <4>3
    <3> QED  BY <2>1, <3>1, <3>3
  <2>4. LatestKept'
    <3> SUFFICES ASSUME NEW j \in DOMAIN shots PROVE \E i \in kept' : shots[i].deal = shots[j].deal
      BY DEF LatestKept
    <3>1. CASE shots[j].deal = k
      <4>1. PICK i \in top : TRUE  BY <1>4
      <4> QED  BY <1>2, <2>1, <3>1, <4>1 DEF ShotsOf
    <3>2. CASE shots[j].deal # k
      <4>1. PICK i \in kept : shots[i].deal = shots[j].deal  BY <1>0 DEF LatestKept
      <4> QED  BY <2>1, <3>2, <4>1 DEF ShotsOf
    <3> QED  BY <3>1, <3>2
  <2> QED  BY <2>2, <2>3, <2>4 DEF ShotInv
<1> QED  BY <1>3, <1>4

\* What is left of a contract's snapshots is its latest history.
LEMMA ShotHolds == ShotInv => HistoryHasNoHole
<1> SUFFICES ASSUME ShotInv PROVE HistoryHasNoHole  OBVIOUS
<1>0. ShotTypeOK /\ NoGap /\ LatestKept  BY DEF ShotInv
<1>1. PICK S : shots \in Seq(S)  BY <1>0 DEF ShotTypeOK
<1>2. IsFiniteSet(kept)
  <2>1. Len(shots) \in Nat /\ DOMAIN shots = 1..Len(shots)  BY <1>1
  <2>2. IsFiniteSet(DOMAIN shots)  BY <2>1, CountedSetIsFinite
  <2> QED  BY <1>0, <2>2, FS_Subset DEF ShotTypeOK
<1>3. ASSUME NEW k \in Deal, NEW j \in DOMAIN shots, shots[j].deal = k
      PROVE  countSnapshots(k) > 0
  <2>1. ShotsOf(k) \subseteq kept /\ ShotsOf(k) # {}  BY <1>0, <1>3 DEF ShotsOf, LatestKept
  <2>2. IsFiniteSet(ShotsOf(k))  BY <1>2, <2>1, FS_Subset
  <2>3. Cardinality(ShotsOf(k)) \in Nat /\ Cardinality(ShotsOf(k)) # 0
    BY <2>1, <2>2, FS_CardinalityType, FS_EmptySet
  <2> QED  BY <2>3 DEF countSnapshots
<1>4. \A i \in kept : verifySnapshotIntegrity(i)
  BY <1>0 DEF ShotTypeOK, verifySnapshotIntegrity, getSnapshot
<1>5. \A i \in kept : \A j \in DOMAIN shots :
          shots[j].deal = shots[i].deal /\ shots[j].at > shots[i].at => j \in kept
  BY <1>0 DEF NoGap
<1> QED  BY <1>3, <1>4, <1>5 DEF HistoryHasNoHole, getAllSnapshots

LEMMA ShotStarts == ViewsInit /\ ReportsInit => ShotInv
<1> SUFFICES ASSUME ViewsInit, ReportsInit PROVE ShotInv  OBVIOUS
<1>1. viewDay = 0 /\ shots = <<>> /\ kept = {}  BY DEF ViewsInit, ReportsInit
<1>2. shots \in Seq({})  BY <1>1
<1>3. ShotTypeOK  BY <1>1, <1>2 DEF ShotTypeOK
<1> QED  BY <1>1, <1>3 DEF ShotInv, NoGap, LatestKept

\* The clock of the views never goes back.
LEMMA DayGoesOn ==
    ASSUME viewDay \in Nat, [RecordsNext]_mcVars
    PROVE  viewDay' \in Nat /\ viewDay <= viewDay'
<1>1. viewDay' = viewDay \/ viewDay' = viewDay + 1
  BY RecordsFrame DEF ViewsNext, FeesNext, SnapshotsNext, ComplianceNext, ChangeTables, NextViewDay, GetRanking,
     GetAnalytics, PostRecompute, GetMetrics, PostRefresh, PostFee, startSnapshotScheduler, executeSnapshotRun,
     SnapshotFails, PruneAfterRun, PostSnapshot, DeletePrune, NewTransaction, NextMonth,
     runComplianceReportScheduler, PostGenerate, generateComplianceReport, FinishReport, ReportFails,
     MailReport, viewVars
<1> QED  BY <1>1

LEMMA ShotStays == ShotInv /\ [RecordsNext]_mcVars => ShotInv'
<1> SUFFICES ASSUME ShotInv, [RecordsNext]_mcVars PROVE ShotInv'  OBVIOUS
<1>0. ShotTypeOK /\ NoGap /\ LatestKept  BY DEF ShotInv
<1>1. viewDay' \in Nat /\ viewDay <= viewDay'  BY <1>0, DayGoesOn DEF ShotTypeOK
<1>2. CASE UNCHANGED <<shots, kept>>
  <2>1. ShotTypeOK'
    <3>1. \A j \in DOMAIN shots : shots[j].at \in Nat /\ shots[j].at <= viewDay'
      BY <1>0, <1>1 DEF ShotTypeOK
    <3> QED  BY <1>0, <1>1, <1>2, <3>1 DEF ShotTypeOK, computeStateHash
  <2> QED  BY <1>0, <1>2, <2>1 DEF ShotInv, NoGap, LatestKept
<1>3. ASSUME NEW k \in Deal, executeSnapshotRun(k) \/ PostSnapshot(k) PROVE ShotInv'
  BY <1>3, ShotAdded DEF executeSnapshotRun, PostSnapshot, viewVars
<1>4. ASSUME NEW k \in Deal, PruneAfterRun(k) \/ DeletePrune(k) PROVE ShotInv'
  BY <1>4, ShotsPruned DEF PruneAfterRun, DeletePrune, viewVars
<1>5. CASE ComplianceNext
  <2>1. UNCHANGED <<shots, kept>>
    BY <1>5 DEF ComplianceNext, NextMonth, runComplianceReportScheduler, PostGenerate, generateComplianceReport,
                FinishReport, ReportFails, MailReport
  <2> QED  BY <1>2, <2>1
<1>6. CASE UNCHANGED reportVars  BY <1>2, <1>6 DEF reportVars
<1>7. CASE SnapshotsNext
  <2>1. ASSUME NEW k \in Deal, SnapshotFails(k) \/ NewTransaction(k) PROVE UNCHANGED <<shots, kept>>
    BY <2>1 DEF SnapshotFails, NewTransaction, reportVars
  <2>2. startSnapshotScheduler => UNCHANGED <<shots, kept>>  BY DEF startSnapshotScheduler
  <2> QED  BY <1>2, <1>3, <1>4, <1>6, <1>7, <2>1, <2>2 DEF SnapshotsNext
<1> QED  BY <1>5, <1>6, <1>7, RecordsFrame

-----------------------------------------------------------------------------
\* Digests, reports and snapshots: jobs whose passes overlap do not repeat what is
\* on record, whatever the number of passes, contributors and contracts.
THEOREM TheJobsDoNotOverlap == RecordsSpec => []JobsDoNotOverlap
<1> DEFINE Inv == DigestInv /\ ReportInv /\ ShotInv
<1>1. RecordsInit => Inv
  BY DigestStarts, ReportStarts, ShotStarts DEF RecordsInit
<1>2. Inv /\ [RecordsNext]_mcVars => Inv'
  BY DigestStays, ReportStays, ShotStays
<1>3. Inv => JobsDoNotOverlap
  BY DigestHolds, ReportHolds, ShotHolds DEF JobsDoNotOverlap
<1> QED  BY <1>1, <1>2, <1>3, PTL DEF RecordsSpec

-----------------------------------------------------------------------------
(***************************************************************************)
(* Payment schedules.  The calculator works with days and hours, the       *)
(* property with ticks: a tick is a day and an hour of it, and ticks are   *)
(* ordered as these are.  While the schedule is on, its next run is what   *)
(* the calculator says for the time it was set at.                         *)
(***************************************************************************)

LEMMA TickIsDayAndHour ==
    ASSUME NEW d \in Int, NEW h \in 0..(DayLength - 1)
    PROVE  atHour(d, h) \in Int /\ Day(atHour(d, h)) = d /\ atHour(d, h) % DayLength = h
<1>1. DayLength \in Nat \ {0}  BY ScheduleAssumption
<1> QED  BY <1>1, OneQuotient DEF atHour, Day

LEMMA DaysAndTicks ==
    ASSUME NEW t \in Int, NEW u \in Int
    PROVE  /\ Day(t) \in Int /\ t % DayLength \in 0..(DayLength - 1)
           /\ t = atHour(Day(t), t % DayLength)
           /\ t <= u => Day(t) <= Day(u)
           /\ Day(t) < Day(u) => t < u
<1>1. DayLength \in Nat \ {0}  BY ScheduleAssumption
<1>2. Day(t) \in Int /\ t % DayLength \in 0..(DayLength - 1) /\ t = atHour(Day(t), t % DayLength)
  BY <1>1, Quotient DEF atHour, Day
<1>3. (t <= u => Day(t) <= Day(u)) /\ (Day(t) < Day(u) => t < u)
  BY <1>1, QuotientOrder DEF Day
<1> QED  BY <1>2, <1>3

\* Of two ticks at one hour the later one is on a later day.
LEMMA SameHour ==
    ASSUME NEW d \in Int, NEW e \in Int, NEW h \in 0..(DayLength - 1), atHour(d, h) < atHour(e, h)
    PROVE  d < e
<1>1. /\ atHour(d, h) \in Int /\ atHour(e, h) \in Int
      /\ Day(atHour(d, h)) = d /\ Day(atHour(e, h)) = e
  BY TickIsDayAndHour
<1>2. d <= e  BY <1>1, DaysAndTicks
<1> QED  BY <1>1, <1>2

\* n is the first tick after t at an hour of the days that are d modulo m.
FirstAfter(n, t, hour, m, d) ==
    /\ n \in Int /\ n > t /\ n % DayLength = hour /\ Day(n) % m = d
    /\ \A u \in (t + 1)..(n - 1) : ~(u % DayLength = hour /\ Day(u) % m = d)

LEMMA MonthlyIsNext ==
    ASSUME NEW t \in Int, NEW dom \in 1..MonthLength, NEW h \in 0..(DayLength - 1)
    PROVE  FirstAfter(nextMonthly(t, dom, h), t, h, MonthLength, dom - 1)
<1> DEFINE M == MonthLength
           D == Day(t)
           Q == D \div M
           r == dom - 1
           one == Q * M + r
           two == (Q + 1) * M + r
           n == nextMonthly(t, dom, h)
<1>0. M \in Nat \ {0} /\ r \in 0..(M - 1)  BY ScheduleAssumption
<1>1. D \in Int /\ Q \in Int /\ D % M \in 0..(M - 1) /\ D = Q * M + (D % M)
  BY <1>0, DaysAndTicks, Quotient
<1>2. one \in Int /\ two \in Int /\ one % M = r /\ two % M = r
  <2>1. Q + 1 \in Int  BY <1>1
  <2> HIDE DEF Q, r
  <2>2. Q * M \in Int /\ (Q + 1) * M \in Int  BY <1>0, <1>1, <2>1, Distributes
  <2>3. (Q * M + r) % M = r /\ ((Q + 1) * M + r) % M = r  BY <1>0, <1>1, <2>1, OneQuotient
  <2> QED  BY <1>0, <2>2, <2>3
<1>3. n = IF atHour(one, h) <= t THEN atHour(two, h) ELSE atHour(one, h)
  <2>1. (Q * M) + dom - 1 = one /\ ((Q * M) + M) + dom - 1 = two  BY <1>0, <1>1
  <2> QED  BY <2>1 DEF nextMonthly
<1>4. D < two
  <2>1. (Q + 1) * M = Q * M + M /\ Q * M \in Int
    <3> HIDE DEF Q
    <3> QED  BY <1>0, <1>1, Distributes
  <2> QED  BY <1>0, <1>1, <2>1
<1>5. ASSUME NEW u \in Int, t < u, u % DayLength = h, Day(u) % M = r
      PROVE  \E P \in Int : Q <= P /\ Day(u) = P * M + r /\ u = atHour(P * M + r, h)
  <2>1. D <= Day(u) /\ Day(u) \in Int /\ u = atHour(Day(u), h)  BY <1>5, DaysAndTicks
  <2>2. Q <= Day(u) \div M /\ Day(u) \div M \in Int /\ Day(u) = (Day(u) \div M) * M + r
    BY <1>0, <1>1, <1>5, <2>1, Quotient, QuotientOrder
  <2> QED  BY <2>1, <2>2
<1> HIDE DEF n, Q, D
<1>6. atHour(one, h) \in Int /\ atHour(two, h) \in Int /\ t < atHour(two, h)
  BY <1>2, <1>4, TickIsDayAndHour, DaysAndTicks DEF D
<1>7. n \in Int /\ n > t /\ n % DayLength = h /\ Day(n) % M = r
  BY <1>2, <1>3, <1>6, TickIsDayAndHour
<1>8. ASSUME NEW u \in (t + 1)..(n - 1), u % DayLength = h, Day(u) % M = r PROVE FALSE
  <2>0. u \in Int /\ t < u /\ u < n  BY <1>7
  <2>1. PICK P \in Int : Q <= P /\ Day(u) = P * M + r /\ u = atHour(P * M + r, h)
    BY <1>5, <1>8, <2>0
  <2>2. P * M + r \in Int  BY <1>0
  <2>3. CASE n = atHour(one, h)
    <3>1. P * M + r < one  BY <1>2, <2>0, <2>1, <2>2, <2>3, SameHour
    <3>2. P * M < Q * M  BY <1>0, <1>1, <3>1
    <3>3. P >= Q /\ P - Q \in Nat  BY <1>1, <2>1
    <3>4. (P - Q) * M >= 0  BY <1>0, <3>3
    <3> QED  BY <1>0, <1>1, <3>2, <3>4
  <2>4. CASE n = atHour(two, h) /\ atHour(one, h) <= t
    <3>1. P * M + r < two  BY <1>2, <2>0, <2>1, <2>2, <2>4, SameHour
    <3>2. P = Q
      <4>1. SUFFICES ASSUME P - Q >= 1 PROVE FALSE  BY <1>1, <2>1
      <4>2. (P - Q) * M >= M  BY <1>0, <1>1, <4>1
      <4>3. P * M - Q * M >= M /\ (Q + 1) * M = Q * M + M  BY <1>0, <1>1, <4>2
      <4> QED  BY <1>0, <1>1, <3>1, <4>3
    <3> QED  BY <1>6, <2>0, <2>1, <2>4, <3>2
  <2> QED  BY <1>3, <2>3, <2>4
<1> QED  BY <1>7, <1>8 DEF n, FirstAfter

LEMMA WeeklyIsNext ==
    ASSUME NEW t \in Int, NEW dow \in 0..6, NEW h \in 0..(DayLength - 1)
    PROVE  FirstAfter(nextWeekly(t, dow, h), t, h, 7, dow)
<1> DEFINE D == Day(t)
           x == (dow - (D % 7) + 7) % 7
           n == nextWeekly(t, dow, h)
<1>0. DayLength \in Nat \ {0}  BY ScheduleAssumption
<1>1. D \in Int  BY DaysAndTicks
<1>2. x \in 0..6 /\ (D + x) % 7 = dow /\ (D + x + 7) % 7 = dow
  <2> HIDE DEF D
  <2> QED  BY <1>1
<1>3. ASSUME NEW e \in Int, D <= e, e < D + x + 7, e % 7 = dow PROVE e = D + x
  <2> HIDE DEF D
  <2> QED  BY <1>1, <1>3
<1>4. n = IF atHour(D + x, h) <= t THEN atHour(D + x, h) + 7 * DayLength ELSE atHour(D + x, h)
  BY DEF nextWeekly
<1> HIDE DEF x, n
<1>5. atHour(D + x, h) + 7 * DayLength = atHour(D + x + 7, h)
  <2> HIDE DEF D
  <2> QED  BY <1>0, <1>1, <1>2 DEF atHour
<1>6. D + x \in Int /\ D + x + 7 \in Int /\ D < D + x + 7
  <2> HIDE DEF D
  <2> QED  BY <1>1, <1>2
<1>7. atHour(D + x, h) \in Int /\ atHour(D + x + 7, h) \in Int /\ t < atHour(D + x + 7, h)
  BY <1>6, TickIsDayAndHour, DaysAndTicks
<1>8. n \in Int /\ n > t /\ n % DayLength = h /\ Day(n) % 7 = dow
  BY <1>2, <1>4, <1>5, <1>6, <1>7, TickIsDayAndHour
<1>9. ASSUME NEW u \in (t + 1)..(n - 1), u % DayLength = h, Day(u) % 7 = dow PROVE FALSE
  <2>0. u \in Int /\ t < u /\ u < n  BY <1>8
  <2>1. D <= Day(u) /\ Day(u) \in Int /\ u = atHour(Day(u), h)  BY <1>9, <2>0, DaysAndTicks
  <2>2. CASE n = atHour(D + x, h)
    <3>1. Day(u) < D + x  BY <1>6, <2>0, <2>1, <2>2, SameHour
    <3> QED  BY <1>1, <1>2, <1>3, <1>9, <2>1, <3>1
  <2>3. CASE n = atHour(D + x + 7, h) /\ atHour(D + x, h) <= t
    <3>1. Day(u) < D + x + 7  BY <1>6, <2>0, <2>1, <2>3, SameHour
    <3>2. Day(u) = D + x  BY <1>3, <1>9, <2>1, <3>1
    <3> QED  BY <1>7, <2>0, <2>1, <2>3, <3>2
  <2> QED  BY <1>4, <1>5, <2>2, <2>3
<1> QED  BY <1>8, <1>9 DEF n, FirstAfter

\* A cycle that has begun by this hour is never the one computed: the calculator's
\* second candidate is not needed.
LEMMA IntervalIsAhead ==
    ASSUME NEW t \in Int, NEW anchor \in Int, NEW days \in Nat \ {0}, NEW h \in 0..(DayLength - 1)
    PROVE  LET n == nextInterval(t, anchor, days, h)
           IN  n \in Int /\ n > t /\ n % DayLength = h /\ (Day(n) - anchor) % days = 0
<1> DEFINE L == DayLength
           D == Day(t)
           c == (D - anchor) \div days
           one == anchor + (c + 1) * days
           n == nextInterval(t, anchor, days, h)
<1>0. L \in Nat \ {0}  BY ScheduleAssumption
<1>1. D \in Int /\ t % L \in 0..(L - 1) /\ t = D * L + (t % L)
  BY DaysAndTicks DEF atHour
<1>2. (t - anchor * L) \div L = D - anchor
  <2>1. t - anchor * L = (D - anchor) * L + (t % L) /\ D - anchor \in Int
    <3> HIDE DEF D
    <3>1. (D - anchor) * L = D * L - anchor * L /\ D * L \in Int /\ anchor * L \in Int
      BY <1>0, <1>1, Distributes
    <3> QED  BY <1>0, <1>1, <3>1
  <2>2. ((D - anchor) * L + (t % L)) \div L = D - anchor  BY <1>0, <1>1, <2>1, OneQuotient
  <2> QED  BY <2>1, <2>2
<1>3. /\ c \in Int /\ (D - anchor) % days \in 0..(days - 1)
      /\ D - anchor = c * days + ((D - anchor) % days)
  <2>1. D - anchor \in Int  BY <1>1
  <2> QED  BY <2>1, Quotient
<1>4. n = IF atHour(one, h) <= t THEN atHour(anchor + (c + 2) * days, h) ELSE atHour(one, h)
  BY <1>2 DEF nextInterval
<1> HIDE DEF D, c, n
<1>5. one \in Int /\ D < one
  <2>1. (c + 1) * days = c * days + days /\ c * days \in Int  BY <1>3
  <2> QED  BY <1>1, <1>3, <2>1
<1>6. atHour(one, h) \in Int /\ t < atHour(one, h)
  BY <1>5, TickIsDayAndHour, DaysAndTicks DEF D
<1>7. n = atHour(one, h)
  BY <1>4, <1>6
<1>8. (one - anchor) % days = 0
  <2>1. one - anchor = (c + 1) * days + 0 /\ c + 1 \in Int /\ 0 \in 0..(days - 1)  BY <1>3
  <2>2. ((c + 1) * days + 0) % days = 0  BY <2>1, OneQuotient
  <2> QED  BY <2>1, <2>2
<1> QED  BY <1>5, <1>6, <1>7, <1>8, TickIsDayAndHour DEF n

PlanRec == [type : SCHEDULE_TYPES, day : Int \cup {Unset}, every : Int, hour : Hours, enabled : BOOLEAN, next : Int]
Intent == [read : PlanRec, at : Int]

Valid(p) == updateScheduleSchema(p.type, p.day, p.every)

PlanTypeOK ==
    /\ now \in Int /\ setAt \in Int
    /\ plan \in PlanRec \cup {NoPlan}
    /\ pass \in [JobPass -> Seq(PlanRec)] /\ passNow \in [JobPass -> Int]
    /\ intents \in Seq(Intent)

Due(p, t) == p.enabled /\ p.next <= t

PlanInv ==
    /\ PlanTypeOK
    /\ plan # NoPlan => Valid(plan)
    /\ plan # NoPlan /\ plan.enabled => plan.next = computeNextRun(plan, setAt)
    /\ \A p \in JobPass : \A i \in DOMAIN pass[p] : Due(pass[p][i], passNow[p])
    /\ \A i \in DOMAIN intents : Due(intents[i].read, intents[i].at)

LEMMA NoPlanIsNone == NoPlan \notin PlanRec
<1>1. \A p \in PlanRec : p.type \in SCHEDULE_TYPES  BY DEF PlanRec
<1>2. NoPlan.type \notin SCHEDULE_TYPES  BY DEF NoPlan, SCHEDULE_TYPES
<1> QED  BY <1>1, <1>2

\* What the calculator answers for a valid schedule.
LEMMA NextRun ==
    ASSUME NEW type \in SCHEDULE_TYPES, NEW day \in Int \cup {Unset}, NEW every \in Int, NEW hour \in Hours,
           updateScheduleSchema(type, day, every), NEW t \in Int,
           NEW p, p.type = type, p.day = day, p.every = every, p.hour = hour
    PROVE  /\ computeNextRun(p, t) \in Int /\ computeNextRun(p, t) > t
           /\ Occurs(p, t, computeNextRun(p, t))
           /\ type \in {"weekly", "monthly"} =>
                 \A u \in (t + 1)..(computeNextRun(p, t) - 1) : ~Occurs(p, t, u)
<1>0. hour \in 0..(DayLength - 1)  BY ScheduleAssumption
<1> DEFINE a == anchorOf(p, t)
<1>a. a \in Int
  <2>1. Day(t) \in Int  BY DaysAndTicks
  <2> QED  BY <2>1 DEF anchorOf
<1> HIDE DEF a
<1>1. CASE type = "monthly"
  <2>1. computeNextRun(p, t) = nextMonthly(t, day, hour)  BY <1>1 DEF computeNextRun
  <2>2. \A u : Occurs(p, t, u) <=> u % DayLength = hour /\ Day(u) % MonthLength = day - 1
    BY <1>1 DEF Occurs
  <2>3. day \in 1..MonthLength  BY <1>1 DEF updateScheduleSchema
  <2> DEFINE n == nextMonthly(t, day, hour)
  <2>4. FirstAfter(n, t, hour, MonthLength, day - 1)  BY <1>0, <2>3, MonthlyIsNext
  <2> HIDE DEF n
  <2>5. computeNextRun(p, t) = n  BY <2>1 DEF n
  <2> QED  BY <2>2, <2>4, <2>5 DEF FirstAfter
<1>2. CASE type = "weekly"
  <2>1. computeNextRun(p, t) = nextWeekly(t, day, hour)  BY <1>2 DEF computeNextRun
  <2>2. \A u : Occurs(p, t, u) <=> u % DayLength = hour /\ Day(u) % 7 = day
    BY <1>2 DEF Occurs
  <2>3. day \in 0..6  BY <1>2 DEF updateScheduleSchema
  <2> DEFINE n == nextWeekly(t, day, hour)
  <2>4. FirstAfter(n, t, hour, 7, day)  BY <1>0, <2>3, WeeklyIsNext
  <2> HIDE DEF n
  <2>5. computeNextRun(p, t) = n  BY <2>1 DEF n
  <2> QED  BY <2>2, <2>4, <2>5 DEF FirstAfter
<1>3. CASE type = "biweekly"
  <2>1. computeNextRun(p, t) = nextInterval(t, a, 14, hour)  BY <1>3 DEF computeNextRun, a
  <2>2. \A u : Occurs(p, t, u) <=> u % DayLength = hour /\ (Day(u) - a) % 14 = 0
    BY <1>3 DEF Occurs, a
  <2>3. 14 \in Nat \ {0}  OBVIOUS
  <2>4. type \notin {"weekly", "monthly"}  BY <1>3
  <2> QED  BY <1>0, <1>a, <2>1, <2>2, <2>3, <2>4, IntervalIsAhead
<1>4. CASE type = "custom"
  <2>1. computeNextRun(p, t) = nextInterval(t, a, every, hour)  BY <1>4 DEF computeNextRun, a
  <2>2. \A u : Occurs(p, t, u) <=> u % DayLength = hour /\ (Day(u) - a) % every = 0
    BY <1>4 DEF Occurs, a
  <2>3. every \in Nat \ {0}
    <3>1. every >= 1  BY DEF updateScheduleSchema
    <3> QED  BY <3>1
  <2>4. type \notin {"weekly", "monthly"}  BY <1>4
  <2> QED  BY <1>0, <1>a, <2>1, <2>2, <2>3, <2>4, IntervalIsAhead
<1> QED  BY <1>1, <1>2, <1>3, <1>4 DEF SCHEDULE_TYPES

LEMMA NextRunOfPlan ==
    ASSUME NEW p \in PlanRec, Valid(p), NEW t \in Int
    PROVE  /\ computeNextRun(p, t) \in Int /\ computeNextRun(p, t) > t
           /\ Occurs(p, t, computeNextRun(p, t))
           /\ p.type \in {"weekly", "monthly"} =>
                 \A u \in (t + 1)..(computeNextRun(p, t) - 1) : ~Occurs(p, t, u)
<1>1. p.type \in SCHEDULE_TYPES /\ p.day \in Int \cup {Unset} /\ p.every \in Int /\ p.hour \in Hours
  BY DEF PlanRec
<1>2. updateScheduleSchema(p.type, p.day, p.every)  BY DEF Valid
<1> QED  BY <1>1, <1>2, NextRun

\* The calculator looks at four fields of the row.
LEMMA SameTimingSameRun ==
    ASSUME NEW p, NEW q, p.type = q.type, p.day = q.day, p.every = q.every, p.hour = q.hour, NEW t
    PROVE  computeNextRun(p, t) = computeNextRun(q, t)
  BY DEF computeNextRun, anchorOf

\* The next run is ahead and on time, and the job records what was due.
LEMMA PlanHolds == PlanInv => SchedulesKeepTime
<1> SUFFICES ASSUME PlanInv PROVE SchedulesKeepTime  OBVIOUS
<1>1. ASSUME plan # NoPlan, plan.enabled
      PROVE  /\ plan.next > setAt /\ Occurs(plan, setAt, plan.next)
             /\ plan.type \in {"weekly", "monthly"} =>
                   \A t \in (setAt + 1)..(plan.next - 1) : ~Occurs(plan, setAt, t)
  <2>1. plan \in PlanRec /\ Valid(plan) /\ setAt \in Int /\ plan.next = computeNextRun(plan, setAt)
    BY <1>1 DEF PlanInv, PlanTypeOK
  <2> QED  BY <2>1, NextRunOfPlan
<1>2. RecordedWasDue  BY DEF PlanInv, Due, RecordedWasDue
<1> QED  BY <1>1, <1>2 DEF SchedulesKeepTime, NextRunIsNext

LEMMA PlanStarts == PlansInit => PlanInv
<1> SUFFICES ASSUME PlansInit PROVE PlanInv  OBVIOUS
<1>1. PlanTypeOK  BY DEF PlansInit, PlanTypeOK
<1> QED  BY <1>1 DEF PlansInit, PlanInv

\* The table's row is replaced; passes and records are as they were.
LEMMA PlanChanges ==
    ASSUME PlanInv, NEW new \in PlanRec, Valid(new), plan' = new, setAt' \in Int,
           new.enabled => new.next = computeNextRun(new, setAt'),
           UNCHANGED <<now, pass, passNow, intents>>
    PROVE  PlanInv'
<1>1. PlanTypeOK'  BY DEF PlanInv, PlanTypeOK
<1>2. plan' # NoPlan => Valid(plan)'  BY DEF Valid, updateScheduleSchema
<1>3. plan' # NoPlan /\ plan'.enabled => plan'.next = computeNextRun(plan', setAt')  OBVIOUS
<1>4. \A p \in JobPass : \A i \in DOMAIN pass'[p] : Due(pass'[p][i], passNow'[p])  BY DEF PlanInv
<1>5. \A i \in DOMAIN intents' : Due(intents'[i].read, intents'[i].at)  BY DEF PlanInv
<1> QED  BY <1>1, <1>2, <1>3, <1>4, <1>5 DEF PlanInv

LEMMA PlanStep == ASSUME PlanInv, PlansNext PROVE PlanInv'
<1>0. PlanTypeOK  BY DEF PlanInv
<1>1. ASSUME NEW type \in SCHEDULE_TYPES, PostSchedule(type) PROVE PlanInv'
  <2>1. PICK day \in Days, every \in Intervals, hour \in Hours :
          LET p == [type |-> type, day |-> day, every |-> every, hour |-> hour]
          IN  createScheduleSchema(type, day, every) /\ plan' = createPaymentSchedule(p, computeNextRun(p, now))
    BY <1>1 DEF PostSchedule
  <2> DEFINE p == [type |-> type, day |-> day, every |-> every, hour |-> hour]
             n == computeNextRun(p, now)
             new == createPaymentSchedule(p, n)
  <2>2. setAt' = now /\ now \in Int /\ UNCHANGED <<now, pass, passNow, intents>>
    BY <1>0, <1>1 DEF PostSchedule, PlanTypeOK
  <2>3. plan' = new /\ updateScheduleSchema(type, day, every)  BY <2>1 DEF createScheduleSchema
  <2>4. p.type = type /\ p.day = day /\ p.every = every /\ p.hour = hour
        /\ day \in Int /\ every \in Int /\ hour \in Hours
    BY ScheduleAssumption
  <2> HIDE DEF p
  <2>5. n \in Int  BY <2>2, <2>3, <2>4, NextRun
  <2> HIDE DEF n
  <2>6. new \in PlanRec /\ new.type = type /\ new.day = day /\ new.every = every /\ new.hour = hour
        /\ new.next = n
    BY <2>4, <2>5 DEF createPaymentSchedule, PlanRec
  <2> HIDE DEF new
  <2>7. Valid(new)  BY <2>3, <2>6 DEF Valid
  <2>8. new.next = computeNextRun(new, setAt')
    BY <2>2, <2>4, <2>6, SameTimingSameRun DEF n
  <2> QED  BY <2>2, <2>3, <2>6, <2>7, <2>8, PlanChanges
<1>2. CASE PatchSchedule
  <2>1. PICK on \in BOOLEAN, day \in Days \cup {Unset}, every \in Intervals, hour \in Hours :
          LET merged == [plan EXCEPT !.enabled = on, !.day = day, !.every = every, !.hour = hour]
          IN  /\ updateScheduleSchema(plan.type, day, every)
              /\ plan' = [merged EXCEPT !.next = IF on THEN computeNextRun(merged, now) ELSE @]
              /\ setAt' = IF on THEN now ELSE setAt
    BY <1>2 DEF PatchSchedule
  <2> DEFINE merged == [plan EXCEPT !.enabled = on, !.day = day, !.every = every, !.hour = hour]
             n == computeNextRun(merged, now)
             new == [merged EXCEPT !.next = IF on THEN n ELSE merged.next]
  <2>2. plan \in PlanRec /\ Valid(plan) /\ now \in Int /\ setAt \in Int
        /\ UNCHANGED <<now, pass, passNow, intents>>
    BY <1>0, <1>2 DEF PatchSchedule, PlanInv, PlanTypeOK
  <2>3. merged \in PlanRec /\ merged.type = plan.type /\ merged.day = day
        /\ merged.every = every /\ merged.enabled = on
    <3>1. day \in Int \cup {Unset} /\ every \in Int  BY ScheduleAssumption
    <3> QED  BY <2>2, <3>1 DEF PlanRec
  <2>4. /\ plan' = new /\ setAt' = IF on THEN now ELSE setAt
        /\ updateScheduleSchema(plan.type, day, every)
    BY <2>1
  <2> HIDE DEF merged
  <2>5. Valid(merged)  BY <2>3, <2>4 DEF Valid
  <2>6. n \in Int  BY <2>2, <2>3, <2>5, NextRunOfPlan
  <2> HIDE DEF n
  <2>7. /\ new \in PlanRec /\ new.type = merged.type /\ new.day = merged.day /\ new.every = merged.every
        /\ new.hour = merged.hour /\ new.enabled = on
        /\ new.next = IF on THEN n ELSE merged.next
    BY <2>3, <2>6 DEF PlanRec
  <2> HIDE DEF new
  <2>8. Valid(new)  BY <2>5, <2>7 DEF Valid
  <2>9. new.enabled => new.next = computeNextRun(new, setAt')
    BY <2>4, <2>7, SameTimingSameRun DEF n
  <2> QED  BY <2>2, <2>4, <2>7, <2>8, <2>9, PlanChanges
<1>3. CASE DeleteSchedule
  <2>1. plan' = NoPlan /\ UNCHANGED <<now, setAt, pass, passNow, intents>>  BY <1>3 DEF DeleteSchedule
  <2>2. PlanTypeOK'  BY <1>0, <2>1 DEF PlanTypeOK
  <2> QED  BY <2>1, <2>2 DEF PlanInv
<1>4. ASSUME NEW p \in JobPass, startPaymentScheduleJob(p) PROVE PlanInv'
  <2>1. /\ pass' = [pass EXCEPT ![p] = <<plan>>] /\ plan # NoPlan /\ Due(plan, now)
        /\ passNow' = [passNow EXCEPT ![p] = now] /\ UNCHANGED <<now, plan, setAt, intents>>
    BY <1>4 DEF startPaymentScheduleJob, getSchedulesDue, Due
  <2>2. plan \in PlanRec /\ <<plan>> \in Seq(PlanRec) /\ DOMAIN <<plan>> = {1} /\ <<plan>>[1] = plan
    BY <1>0, <2>1 DEF PlanTypeOK
  <2>3. PlanTypeOK'  BY <1>0, <2>1, <2>2 DEF PlanTypeOK
  <2>4. ASSUME NEW q \in JobPass, NEW i \in DOMAIN pass'[q] PROVE Due(pass'[q][i], passNow'[q])
    <3>1. CASE q = p
      <4>1. pass'[q] = <<plan>> /\ passNow'[q] = now  BY <1>0, <2>1, <3>1 DEF PlanTypeOK
      <4> QED  BY <2>1, <2>2, <2>4, <4>1
    <3>2. CASE q # p
      <4>1. pass'[q] = pass[q] /\ passNow'[q] = passNow[q]  BY <1>0, <2>1, <3>2 DEF PlanTypeOK
      <4> QED  BY <2>4, <4>1 DEF PlanInv
    <3> QED  BY <3>1, <3>2
  <2>5. plan' # NoPlan => Valid(plan)'  BY <2>1 DEF PlanInv, Valid, updateScheduleSchema
  <2>6. plan' # NoPlan /\ plan'.enabled => plan'.next = computeNextRun(plan', setAt')  BY <2>1 DEF PlanInv
  <2>7. \A i \in DOMAIN intents' : Due(intents'[i].read, intents'[i].at)  BY <2>1 DEF PlanInv
  <2> QED  BY <2>3, <2>4, <2>5, <2>6, <2>7 DEF PlanInv
<1>5. ASSUME NEW p \in JobPass, NEW simulated \in BOOLEAN, runPaymentSchedules(p, simulated) PROVE PlanInv'
  <2> DEFINE rows == pass[p]
             new == [read |-> Head(rows), at |-> passNow[p]]
  <2>0. ~Audited("scheduled_distribution_triggered")  BY DEF Audited, AUDIT_ACTIONS
  <2>1. /\ rows # <<>> /\ intents' = Append(intents, new) /\ pass' = [pass EXCEPT ![p] = Tail(rows)]
        /\ UNCHANGED <<plan, setAt, now, passNow>>
    BY <1>5, <2>0 DEF runPaymentSchedules
  <2>2. rows \in Seq(PlanRec) /\ passNow[p] \in Int  BY <1>0 DEF PlanTypeOK
  <2>3. /\ Head(rows) \in PlanRec /\ Tail(rows) \in Seq(PlanRec) /\ Head(rows) = rows[1]
        /\ 1 \in DOMAIN rows /\ \A i \in DOMAIN Tail(rows) : i + 1 \in DOMAIN rows /\ Tail(rows)[i] = rows[i + 1]
    BY <2>1, <2>2
  <2>4. \A i \in DOMAIN rows : Due(rows[i], passNow[p])  BY DEF PlanInv
  <2>5. new \in Intent /\ Due(new.read, new.at)  BY <2>2, <2>3, <2>4 DEF Intent
  <2> HIDE DEF new
  <2>6. intents \in Seq(Intent)  BY <1>0 DEF PlanTypeOK
  <2>7. intents' \in Seq(Intent)
        /\ \A i \in DOMAIN intents' : (i \in DOMAIN intents /\ intents'[i] = intents[i]) \/ intents'[i] = new
    BY <2>1, <2>5, <2>6
  <2>8. PlanTypeOK'
    BY <1>0, <2>1, <2>3, <2>7 DEF PlanTypeOK
  <2>9. ASSUME NEW q \in JobPass, NEW i \in DOMAIN pass'[q] PROVE Due(pass'[q][i], passNow'[q])
    <3>1. CASE q = p
      <4>1. pass'[q] = Tail(rows) /\ passNow'[q] = passNow[p]  BY <1>0, <2>1, <3>1 DEF PlanTypeOK
      <4> QED  BY <2>3, <2>4, <2>9, <4>1
    <3>2. CASE q # p
      <4>1. pass'[q] = pass[q] /\ passNow'[q] = passNow[q]  BY <1>0, <2>1, <3>2 DEF PlanTypeOK
      <4> QED  BY <2>9, <4>1 DEF PlanInv
    <3> QED  BY <3>1, <3>2
  <2>10. \A i \in DOMAIN intents' : Due(intents'[i].read, intents'[i].at)
    <3>1. \A i \in DOMAIN intents : Due(intents[i].read, intents[i].at)  BY DEF PlanInv
    <3> QED  BY <2>5, <2>7, <3>1
  <2>11. plan' # NoPlan => Valid(plan)'  BY <2>1 DEF PlanInv, Valid, updateScheduleSchema
  <2>12. plan' # NoPlan /\ plan'.enabled => plan'.next = computeNextRun(plan', setAt')  BY <2>1 DEF PlanInv
  <2> QED  BY <2>8, <2>9, <2>10, <2>11, <2>12 DEF PlanInv
<1>6. CASE Later
  <2>1. now' \in Int /\ UNCHANGED <<plan, setAt, pass, passNow, intents>>  BY <1>0, <1>6 DEF Later, PlanTypeOK
  <2>2. PlanTypeOK'  BY <1>0, <2>1 DEF PlanTypeOK
  <2> QED  BY <2>1, <2>2 DEF PlanInv, Valid, updateScheduleSchema
<1> QED  BY <1>1, <1>2, <1>3, <1>4, <1>5, <1>6 DEF PlansNext

\* A schedule's next run is ahead and on the day it names, for every calendar and
\* every valid schedule, and what the job records was due.
THEOREM TheSchedulesKeepTime == RecordsSpec => []SchedulesKeepTime
<1>1. RecordsInit => PlanInv  BY PlanStarts DEF RecordsInit
<1>2. PlanInv /\ [RecordsNext]_mcVars => PlanInv'
  <2> SUFFICES ASSUME PlanInv, [RecordsNext]_mcVars PROVE PlanInv'  OBVIOUS
  <2>1. CASE UNCHANGED planVars
    BY <2>1 DEF planVars, PlanInv, PlanTypeOK, Valid, updateScheduleSchema
  <2> QED  BY <2>1, PlanStep, RecordsFrame
<1> QED  BY <1>1, <1>2, PlanHolds, PTL DEF RecordsSpec

-----------------------------------------------------------------------------
(***************************************************************************)
(* Referrals.  A referral is at work for its referrer: while it is pending *)
(* no activation bonus names it, and once it is active one does.           *)
(***************************************************************************)

Referral == [referrer : Wallet, status : {"pending", "active"}]
BonusRow == [of : Wallet, to : Wallet, amount : Nat, n : Nat, by : {"activation", "admin"}]

ReferralTypeOK ==
    /\ codes \subseteq Wallet
    /\ referral \in [Wallet -> Referral \cup {NoReferral}]
    /\ bonuses \subseteq BonusRow /\ IsFiniteSet(bonuses)

PaidFor(w) == {b \in bonuses : b.of = w /\ b.by = "activation"}

ReferralInv ==
    /\ ReferralTypeOK
    /\ \A w \in Wallet :
          /\ referral[w] # NoReferral => referral[w].referrer \in codes /\ referral[w].referrer # w
          /\ referral[w].status # "active" => PaidFor(w) = {}
          /\ referral[w].status = "active" => \E b : PaidFor(w) = {b} /\ b.to = referral[w].referrer

LEMMA NoReferralIsNone ==
    /\ NoReferral \notin Referral /\ NoReferral.status \notin {"pending", "active"}
    /\ NoReferral.referrer \notin Wallet
<1>1. NoReferral.status \notin {"pending", "active"}  BY DEF NoReferral
<1>2. NoReferral.referrer \notin Wallet  BY ReferralAssumption DEF NoReferral
<1> QED  BY <1>1, <1>2 DEF Referral

\* Every bonus is counted by one referrer's dashboard and every active referral too.
LEMMA ReferralHolds == ReferralInv => ActivationPaysOnce
<1> SUFFICES ASSUME ReferralInv PROVE ActivationPaysOnce  OBVIOUS
<1>0. ReferralTypeOK  BY DEF ReferralInv
<1>1. IsFiniteSet(Wallet)  BY ReferralAssumption
<1>2. ASSUME NEW w \in Wallet
      PROVE  /\ referral[w].status = "active" => Cardinality(PaidFor(w)) = 1
             /\ referral[w].status # "active" => PaidFor(w) = {}
             /\ \A b \in PaidFor(w) : b.to = referral[w].referrer /\ b.to # w
  <2>1. CASE referral[w].status # "active"  BY <2>1 DEF ReferralInv
  <2>2. CASE referral[w].status = "active"
    <3>1. PICK b : PaidFor(w) = {b} /\ b.to = referral[w].referrer  BY <2>2 DEF ReferralInv
    <3>2. referral[w] # NoReferral  BY <2>2, NoReferralIsNone
    <3>3. referral[w].referrer # w  BY <3>2 DEF ReferralInv
    <3>4. Cardinality(PaidFor(w)) = 1  BY <3>1, FS_Singleton
    <3> QED  BY <2>2, <3>1, <3>3, <3>4
  <2> QED  BY <2>1, <2>2
<1>3. ASSUME NEW w \in Wallet
      PROVE  /\ GetDashboard(w).total = GetDashboard(w).pending + GetDashboard(w).active
             /\ GetDashboard(w).total > 0 => GetDashboard(w).code
  <2> DEFINE all == getReferralsByReferrer(w)
             waiting == all \cap getAllReferrals("pending")
             at == all \cap getAllReferrals("active")
  <2>1. /\ GetDashboard(w).total = Cardinality(all) /\ GetDashboard(w).pending = Cardinality(waiting)
        /\ GetDashboard(w).active = Cardinality(at) /\ GetDashboard(w).code = (w \in codes)
    BY DEF GetDashboard, getReferralDashboard, countReferralsByReferrer
  <2>2. all \subseteq Wallet /\ \A r \in all : referral[r] \in Referral /\ referral[r].referrer = w
    BY <1>0, NoReferralIsNone DEF getReferralsByReferrer, ReferralTypeOK
  <2>3. IsFiniteSet(all)  BY <1>1, <2>2, FS_Subset
  <2>4. all = waiting \cup at /\ waiting \cap at = {}
    BY <2>2 DEF getAllReferrals, Referral
  <2>5. all # {} => w \in codes
    <3>1. \A r \in all : referral[r] # NoReferral  BY <2>2, NoReferralIsNone
    <3> QED  BY <2>2, <3>1 DEF ReferralInv
  <2> HIDE DEF all, waiting, at
  <2>6. IsFiniteSet(waiting) /\ IsFiniteSet(at)  BY <2>3, <2>4, FS_Subset
  <2>7. Cardinality(all) = Cardinality(waiting) + Cardinality(at) - Cardinality(waiting \cap at)
    BY <2>4, <2>6, FS_Union
  <2>8. Cardinality(waiting) \in Nat /\ Cardinality(at) \in Nat /\ Cardinality(waiting \cap at) = 0
    BY <2>4, <2>6, FS_CardinalityType, FS_EmptySet
  <2>9. Cardinality(all) > 0 => all # {}  BY FS_EmptySet
  <2>10. GetDashboard(w).total = GetDashboard(w).pending + GetDashboard(w).active
    BY <2>1, <2>7, <2>8
  <2>11. GetDashboard(w).total > 0 => GetDashboard(w).code
    BY <2>1, <2>5, <2>9, Zenon
  <2> QED  BY <2>10, <2>11
<1>4. SumFunction([w \in Wallet |-> GetDashboard(w).stroops]) = Stroops(bonuses)
  <2> DEFINE f == [b \in bonuses |-> b.amount]
             class == [b \in bonuses |-> b.to]
             h == [w \in Wallet |-> GetDashboard(w).stroops]
  <2>1. IntsOn(f, bonuses) /\ \A b \in bonuses : class[b] \in Wallet
    BY <1>0 DEF ReferralTypeOK, BonusRow, IntsOn
  <2>2. ASSUME NEW w \in Wallet PROVE h[w] = SumFunctionOnSet(f, ClassOf(bonuses, class, w))
    <3>1. getBonusesByReferrer(w) = ClassOf(bonuses, class, w)
      BY DEF getBonusesByReferrer, ClassOf
    <3>2. h[w] = Stroops(getBonusesByReferrer(w))  BY DEF GetDashboard, getReferralDashboard
    <3> QED  BY <3>1, <3>2 DEF Stroops
  <2>3. DOMAIN h = Wallet /\ IsFiniteSet(bonuses)  BY <1>0 DEF ReferralTypeOK
  <2>4. Stroops(bonuses) = SumFunctionOnSet(f, bonuses)  BY DEF Stroops
  <2> HIDE DEF f, class, h
  <2>5. SumFunctionOnSet(h, Wallet) = SumFunctionOnSet(f, bonuses)
    BY <1>1, <2>1, <2>2, <2>3, SumByClass
  <2>6. SumFunction(h) = SumFunctionOnSet(h, Wallet)  BY <2>3 DEF SumFunction
  <2> QED  BY <2>4, <2>5, <2>6 DEF h
<1>5. SumFunction([w \in Wallet |-> GetDashboard(w).active]) = GetAdminAll["active"]
  <2> DEFINE S == getAllReferrals("active")
             class == [r \in Wallet |-> referral[r].referrer]
             h == [w \in Wallet |-> GetDashboard(w).active]
  <2>1. S \subseteq Wallet /\ \A r \in S : referral[r] \in Referral
    BY <1>0, NoReferralIsNone DEF getAllReferrals, ReferralTypeOK
  <2>2. \A r \in S : class[r] \in Wallet  BY <2>1 DEF Referral
  <2>3. ASSUME NEW w \in Wallet PROVE h[w] = Cardinality(ClassOf(S, class, w))
    <3>1. getReferralsByReferrer(w) \cap S = ClassOf(S, class, w)
      BY <2>1 DEF getReferralsByReferrer, ClassOf
    <3>2. h[w] = Cardinality(getReferralsByReferrer(w) \cap S)  BY DEF GetDashboard, getReferralDashboard
    <3> QED  BY <3>1, <3>2
  <2>4. DOMAIN h = Wallet /\ IsFiniteSet(S)  BY <1>1, <2>1, FS_Subset
  <2>5. GetAdminAll["active"] = Cardinality(S)  BY DEF GetAdminAll, countAllReferrals
  <2> HIDE DEF S, class, h
  <2>6. SumFunctionOnSet(h, Wallet) = Cardinality(S)
    BY <1>1, <2>2, <2>3, <2>4, CountByClass
  <2>7. SumFunction(h) = SumFunctionOnSet(h, Wallet)  BY <2>4 DEF SumFunction
  <2> QED  BY <2>5, <2>6, <2>7 DEF h
<1> QED  BY <1>2, <1>3, <1>4, <1>5 DEF ActivationPaysOnce, PaidFor

LEMMA ReferralStarts == ReferralsInit => ReferralInv
<1> SUFFICES ASSUME ReferralsInit PROVE ReferralInv  OBVIOUS
<1>1. ReferralTypeOK  BY FS_EmptySet DEF ReferralsInit, ReferralTypeOK
<1>2. \A w \in Wallet : referral[w] = NoReferral /\ PaidFor(w) = {}  BY DEF ReferralsInit, PaidFor
<1> QED  BY <1>1, <1>2, NoReferralIsNone DEF ReferralInv

LEMMA BonusAdded ==
    ASSUME ReferralTypeOK, NEW w \in Wallet, NEW to \in Wallet, NEW b \in Bonus,
           NEW by \in {"activation", "admin"}, awardReferralBonus(w, to, b, by)
    PROVE  \E new \in BonusRow : /\ bonuses' = bonuses \cup {new} /\ IsFiniteSet(bonuses')
                                 /\ new.of = w /\ new.to = to /\ new.by = by
<1> DEFINE new == [of |-> w, to |-> to, amount |-> b, n |-> Cardinality(bonuses), by |-> by]
<1>1. IsFiniteSet(bonuses) /\ Cardinality(bonuses) \in Nat /\ b \in Nat
  BY FS_CardinalityType, ReferralAssumption DEF ReferralTypeOK
<1>2. new \in BonusRow /\ new.of = w /\ new.to = to /\ new.by = by  BY <1>1 DEF BonusRow
<1>3. bonuses' = bonuses \cup {new}  BY DEF awardReferralBonus
<1> HIDE DEF new
<1> QED  BY <1>1, <1>2, <1>3, FS_AddElement

LEMMA ReferralStep == ASSUME ReferralInv, ReferralsNext PROVE ReferralInv'
<1>0. ReferralTypeOK  BY DEF ReferralInv
<1>1. ASSUME NEW w \in Wallet, PostLink(w) PROVE ReferralInv'
  <2>1. codes' = codes \cup {w} /\ UNCHANGED <<referral, bonuses>>  BY <1>1 DEF PostLink, generateReferralLink
  <2>2. ReferralTypeOK'  BY <1>0, <2>1 DEF ReferralTypeOK
  <2> QED  BY <2>1, <2>2 DEF ReferralInv, PaidFor
<1>2. ASSUME NEW w \in Wallet, PostRegister(w) PROVE ReferralInv'
  <2>1. PICK code \in Wallet : registerReferral(code, w)  BY <1>2 DEF PostRegister
  <2> DEFINE new == [referrer |-> code, status |-> "pending"]
  <2>2. /\ code \in codes /\ code # w /\ referral[w] = NoReferral
        /\ referral' = [referral EXCEPT ![w] = new] /\ UNCHANGED <<codes, bonuses>>
    BY <1>2, <2>1 DEF PostRegister, registerReferral, getReferralLinkByCode, getReferralByReferred
  <2>3. new \in Referral /\ new.referrer = code /\ new.status = "pending"  BY DEF Referral
  <2> HIDE DEF new
  <2>4. ReferralTypeOK'  BY <1>0, <2>2, <2>3 DEF ReferralTypeOK
  <2>5. \A x \in Wallet : referral'[x] = IF x = w THEN new ELSE referral[x]
    BY <1>0, <2>2 DEF ReferralTypeOK
  <2>6. PaidFor(w) = {}  BY <2>2, NoReferralIsNone DEF ReferralInv
  <2>7. ASSUME NEW x \in Wallet
        PROVE  /\ referral'[x] # NoReferral => referral'[x].referrer \in codes' /\ referral'[x].referrer # x
               /\ referral'[x].status # "active" => PaidFor(x)' = {}
               /\ referral'[x].status = "active" =>
                     \E b : PaidFor(x)' = {b} /\ b.to = referral'[x].referrer
    <3>1. PaidFor(x)' = PaidFor(x)  BY <2>2 DEF PaidFor
    <3>2. CASE x = w  BY <2>2, <2>3, <2>5, <2>6, <3>1, <3>2
    <3>3. CASE x # w  BY <2>2, <2>5, <3>1, <3>3 DEF ReferralInv
    <3> QED  BY <3>2, <3>3
  <2> QED  BY <2>4, <2>7 DEF ReferralInv
<1>3. ASSUME NEW w \in Wallet, PostActivate(w) PROVE ReferralInv'
  <2>1. PICK b \in Bonus : activateReferral(w, b)  BY <1>3 DEF PostActivate
  <2> DEFINE to == referral[w].referrer
  <2>2. /\ referral[w].status = "pending" /\ referral' = [referral EXCEPT ![w].status = "active"]
        /\ awardReferralBonus(w, to, b, "activation") /\ UNCHANGED codes
    BY <1>3, <2>1 DEF PostActivate, activateReferral
  <2>3. referral[w] \in Referral /\ to \in Wallet /\ referral[w] # NoReferral
    BY <1>0, <2>2, NoReferralIsNone DEF ReferralTypeOK, Referral
  <2>4. PICK new \in BonusRow : /\ bonuses' = bonuses \cup {new} /\ IsFiniteSet(bonuses')
                                /\ new.of = w /\ new.to = to /\ new.by = "activation"
    BY <1>0, <2>2, <2>3, BonusAdded
  <2>5. \A x \in Wallet : x # w => referral'[x] = referral[x] /\ PaidFor(x)' = PaidFor(x)
    BY <1>0, <2>2, <2>4 DEF ReferralTypeOK, PaidFor
  <2>6. referral'[w] \in Referral /\ referral'[w].status = "active" /\ referral'[w].referrer = to
    BY <1>0, <2>2, <2>3 DEF ReferralTypeOK, Referral
  <2>7. PaidFor(w)' = {new}
    <3>1. PaidFor(w) = {}  BY <2>2 DEF ReferralInv
    <3> QED  BY <2>4, <3>1 DEF PaidFor
  <2>8. ReferralTypeOK'
    <3>1. referral' \in [Wallet -> Referral \cup {NoReferral}]
      <4>1. DOMAIN referral' = Wallet /\ referral' = [x \in Wallet |-> referral'[x]]
        BY <1>0, <2>2 DEF ReferralTypeOK
      <4>2. \A x \in Wallet : referral'[x] \in Referral \cup {NoReferral}
        BY <1>0, <2>5, <2>6 DEF ReferralTypeOK
      <4> QED  BY <4>1, <4>2
    <3> QED  BY <1>0, <2>2, <2>4, <3>1 DEF ReferralTypeOK
  <2>9. ASSUME NEW x \in Wallet
        PROVE  /\ referral'[x] # NoReferral => referral'[x].referrer \in codes' /\ referral'[x].referrer # x
               /\ referral'[x].status # "active" => PaidFor(x)' = {}
               /\ referral'[x].status = "active" =>
                     \E z : PaidFor(x)' = {z} /\ z.to = referral'[x].referrer
    <3>1. CASE x = w
      <4>1. to \in codes /\ to # w  BY <2>3 DEF ReferralInv
      <4> QED  BY <2>2, <2>4, <2>6, <2>7, <3>1, <4>1
    <3>2. CASE x # w  BY <2>2, <2>5, <3>2 DEF ReferralInv
    <3> QED  BY <3>1, <3>2
  <2> QED  BY <2>8, <2>9 DEF ReferralInv
<1>4. ASSUME NEW w \in Wallet, PostBonus(w) PROVE ReferralInv'
  <2>1. PICK to \in Wallet, b \in Bonus : awardReferralBonus(w, to, b, "admin")  BY <1>4 DEF PostBonus
  <2>2. UNCHANGED <<codes, referral>>  BY <1>4 DEF PostBonus
  <2>3. PICK new \in BonusRow : bonuses' = bonuses \cup {new} /\ IsFiniteSet(bonuses') /\ new.by = "admin"
    BY <1>0, <2>1, BonusAdded
  <2>4. \A x \in Wallet : PaidFor(x)' = PaidFor(x)  BY <2>3 DEF PaidFor
  <2>5. ReferralTypeOK'  BY <1>0, <2>2, <2>3 DEF ReferralTypeOK
  <2> QED  BY <2>2, <2>4, <2>5 DEF ReferralInv
<1> QED  BY <1>1, <1>2, <1>3, <1>4 DEF ReferralsNext

(***************************************************************************)
(* Holds.  The columns of a transaction are what its trail says, row by    *)
(* row: one more placement than releases while it is on hold.              *)
(***************************************************************************)

HoldMove == {"placed", "released", "approved"}
HoldRow == [status : {"none", "active", "released"}, approved : BOOLEAN]

Places(log, a) == {i \in DOMAIN log : log[i] = a}
Times(log, a) == Cardinality(Places(log, a))
Unreleased(log) ==
    \E i \in DOMAIN log : log[i] = "placed" /\ \A j \in i..Len(log) : log[j] # "released"

\* One row and its trail.
Explained(row, log) ==
    /\ (row.status = "active") = Unreleased(log)
    /\ Times(log, "released") <= Times(log, "placed")
    /\ row.status = "active" => Times(log, "released") < Times(log, "placed")
    /\ row.approved = (Places(log, "approved") # {})

HoldInv ==
    /\ hold \in [HeldTx -> HoldRow] /\ trail \in [HeldTx -> Seq(HoldMove)]
    /\ \A t \in HeldTx : Explained(hold[t], trail[t])

LEMMA TimesAreCounted ==
    ASSUME NEW log \in Seq(HoldMove), NEW a
    PROVE  IsFiniteSet(Places(log, a)) /\ Times(log, a) \in Nat /\ (Times(log, a) > 0) = (Places(log, a) # {})
<1>1. Len(log) \in Nat /\ DOMAIN log = 1..Len(log)  OBVIOUS
<1>2. IsFiniteSet(DOMAIN log)  BY <1>1, CountedSetIsFinite
<1>3. Places(log, a) \subseteq DOMAIN log  BY DEF Places
<1>4. IsFiniteSet(Places(log, a))  BY <1>2, <1>3, FS_Subset
<1>5. Times(log, a) \in Nat /\ (Times(log, a) = 0 <=> Places(log, a) = {})
  BY <1>4, FS_CardinalityType, FS_EmptySet DEF Times
<1>6. (Times(log, a) > 0) = (Places(log, a) # {})  BY <1>5
<1> QED  BY <1>4, <1>5, <1>6

LEMMA TrailGrows ==
    ASSUME NEW log \in Seq(HoldMove), NEW a \in HoldMove
    PROVE  /\ Append(log, a) \in Seq(HoldMove)
           /\ Times(Append(log, a), a) = Times(log, a) + 1
           /\ Places(Append(log, a), a) # {}
           /\ \A b \in HoldMove \ {a} : Places(Append(log, a), b) = Places(log, b)
           /\ a = "placed" => Unreleased(Append(log, a))
           /\ a = "released" => ~Unreleased(Append(log, a))
           /\ a = "approved" => Unreleased(Append(log, a)) = Unreleased(log)
<1> DEFINE n == Len(log)
           more == Append(log, a)
<1>1. n \in Nat /\ DOMAIN log = 1..n  OBVIOUS
<1>2. more \in Seq(HoldMove) /\ Len(more) = n + 1 /\ DOMAIN more = 1..(n + 1) /\ more[n + 1] = a
      /\ \A i \in 1..n : more[i] = log[i]
  OBVIOUS
<1> HIDE DEF n, more
<1>3. n + 1 \in 1..(n + 1) /\ n + 1 \notin 1..n /\ \A i \in 1..(n + 1) : i \in 1..n \/ i = n + 1
  BY <1>1
<1>4. \A i \in 1..n : i \in 1..(n + 1)  BY <1>1
<1>5. Places(more, a) = Places(log, a) \cup {n + 1} /\ n + 1 \notin Places(log, a)
  BY <1>1, <1>2, <1>3, <1>4 DEF Places
<1>6. Times(more, a) = Times(log, a) + 1
  BY <1>5, TimesAreCounted, FS_AddElement DEF Times
<1>7. ASSUME NEW b \in HoldMove \ {a} PROVE Places(more, b) = Places(log, b)
  BY <1>1, <1>2, <1>3, <1>4 DEF Places
<1>8. ASSUME a = "placed" PROVE Unreleased(more)
  <2>1. \A j \in (n + 1)..(n + 1) : j = n + 1  BY <1>1
  <2> QED  BY <1>2, <1>3, <1>8, <2>1 DEF Unreleased
<1>9. ASSUME a = "released" PROVE ~Unreleased(more)
  <2>1. \A i \in 1..(n + 1) : n + 1 \in i..(n + 1)  BY <1>1
  <2> QED  BY <1>2, <1>9, <2>1 DEF Unreleased
<1>10. ASSUME a = "approved" PROVE Unreleased(more) = Unreleased(log)
  <2>1. ASSUME Unreleased(more) PROVE Unreleased(log)
    <3>1. PICK i \in 1..(n + 1) : more[i] = "placed" /\ \A j \in i..(n + 1) : more[j] # "released"
      BY <1>2, <2>1 DEF Unreleased
    <3>2. i \in 1..n  BY <1>2, <1>3, <1>10, <3>1
    <3>3. \A j \in i..n : j \in 1..n /\ j \in i..(n + 1)  BY <1>1, <3>2
    <3>4. log[i] = "placed" /\ \A j \in i..n : log[j] # "released"  BY <1>2, <3>1, <3>2, <3>3
    <3> QED  BY <1>1, <3>2, <3>4 DEF Unreleased, n
  <2>2. ASSUME Unreleased(log) PROVE Unreleased(more)
    <3>1. PICK i \in 1..n : log[i] = "placed" /\ \A j \in i..n : log[j] # "released"
      BY <1>1, <2>2 DEF Unreleased, n
    <3>2. \A j \in i..(n + 1) : (j \in i..n /\ j \in 1..n) \/ j = n + 1  BY <1>1, <3>1
    <3>3. more[i] = "placed" /\ \A j \in i..(n + 1) : more[j] # "released"
      BY <1>2, <1>10, <3>1, <3>2
    <3> QED  BY <1>2, <1>4, <3>1, <3>3 DEF Unreleased
  <2>3. Unreleased(more) \in BOOLEAN /\ Unreleased(log) \in BOOLEAN  BY DEF Unreleased
  <2> QED  BY <2>1, <2>2, <2>3
<1> QED  BY <1>2, <1>5, <1>6, <1>7, <1>8, <1>9, <1>10 DEF more

\* The trail explains every hold in force.
LEMMA HoldHolds == HoldInv => TrailExplainsHold
<1> SUFFICES ASSUME HoldInv, NEW t \in HeldTx
             PROVE  LET log == getHoldAuditTrail(t)
                        count(a) == Cardinality({i \in DOMAIN log : log[i] = a})
                    IN  /\ (t \in getAllHeldTransactions("active")) =
                             \E i \in DOMAIN log : log[i] = "placed" /\ \A j \in i..Len(log) : log[j] # "released"
                        /\ count("released") <= count("placed")
                        /\ (t \in getTransactionsPendingHoldRelease)
                             = (t \in getHeldTransactions("active") /\ count("approved") > 0)
  BY DEF TrailExplainsHold
<1> DEFINE log == trail[t]
<1>1. log \in Seq(HoldMove) /\ hold[t] \in HoldRow /\ Explained(hold[t], log)  BY DEF HoldInv
<1>2. (t \in getAllHeldTransactions("active")) = Unreleased(log)
  <2>1. (t \in getAllHeldTransactions("active")) <=> hold[t].status = "active"
    BY DEF getAllHeldTransactions, getHeldTransactions
  <2>2. (hold[t].status = "active") = Unreleased(log)  BY <1>1 DEF Explained
  <2> QED  BY <2>1, <2>2
<1>3. Times(log, "released") <= Times(log, "placed")  BY <1>1 DEF Explained
<1>4. (t \in getTransactionsPendingHoldRelease)
         = (t \in getHeldTransactions("active") /\ Times(log, "approved") > 0)
  <2>1. hold[t].approved = (Times(log, "approved") > 0)  BY <1>1, TimesAreCounted DEF Explained
  <2>2. (t \in getTransactionsPendingHoldRelease) <=> (t \in getHeldTransactions("active") /\ hold[t].approved)
    BY DEF getTransactionsPendingHoldRelease
  <2>3. hold[t].approved <=> Times(log, "approved") > 0  BY <2>1
  <2> DEFINE listed == t \in getTransactionsPendingHoldRelease
             pending == t \in getHeldTransactions("active") /\ Times(log, "approved") > 0
  <2>4. listed \in BOOLEAN /\ pending \in BOOLEAN  OBVIOUS
  <2>5. listed <=> pending  BY <2>2, <2>3
  <2> HIDE DEF listed, pending
  <2>6. listed = pending  BY <2>4, <2>5
  <2> QED  BY <2>6 DEF listed, pending
<1> QED  BY <1>2, <1>3, <1>4 DEF getHoldAuditTrail, Times, Places, Unreleased

LEMMA HoldStarts == HoldsInit => HoldInv
<1> SUFFICES ASSUME HoldsInit, NEW t \in HeldTx PROVE Explained(hold[t], trail[t])
  BY DEF HoldsInit, HoldInv, HoldRow
<1>1. trail[t] = <<>> /\ hold[t].status = "none" /\ hold[t].approved = FALSE  BY DEF HoldsInit
<1>2. Places(<<>>, "approved") = {} /\ Places(<<>>, "released") = {} /\ Places(<<>>, "placed") = {}
      /\ Unreleased(<<>>) = FALSE
  BY DEF Places, Unreleased
<1>3. Times(<<>>, "released") = 0 /\ Times(<<>>, "placed") = 0  BY <1>2, FS_EmptySet DEF Times
<1>4. (hold[t].status = "active") = Unreleased(trail[t]) /\ hold[t].status # "active"  BY <1>1, <1>2
<1>5. hold[t].approved = (Places(trail[t], "approved") # {})  BY <1>1, <1>2
<1>6. Times(trail[t], "released") <= Times(trail[t], "placed")  BY <1>1, <1>3
<1> QED  BY <1>4, <1>5, <1>6 DEF Explained

\* One transaction's row and trail move on together.
LEMMA HoldMoves ==
    ASSUME HoldInv, NEW t \in HeldTx, NEW row \in HoldRow, NEW a \in HoldMove,
           hold' = [hold EXCEPT ![t] = row], trail' = [trail EXCEPT ![t] = Append(trail[t], a)],
           Explained(row, Append(trail[t], a))
    PROVE  HoldInv'
<1>1. trail[t] \in Seq(HoldMove)  BY DEF HoldInv
<1>2. Append(trail[t], a) \in Seq(HoldMove)  BY <1>1, TrailGrows
<1>3. hold' \in [HeldTx -> HoldRow] /\ trail' \in [HeldTx -> Seq(HoldMove)]  BY <1>2 DEF HoldInv
<1>4. ASSUME NEW u \in HeldTx PROVE Explained(hold'[u], trail'[u])
  <2>1. CASE u = t
    <3>1. hold'[u] = row /\ trail'[u] = Append(trail[t], a)  BY <2>1 DEF HoldInv
    <3> QED  BY <3>1
  <2>2. CASE u # t
    <3>1. hold'[u] = hold[u] /\ trail'[u] = trail[u]  BY <2>2 DEF HoldInv
    <3> QED  BY <3>1 DEF HoldInv
  <2> QED  BY <2>1, <2>2
<1> QED  BY <1>3, <1>4 DEF HoldInv

LEMMA HoldStep == ASSUME HoldInv, HoldsNext PROVE HoldInv'
<1>0. ASSUME NEW t \in HeldTx
      PROVE  /\ hold[t] \in HoldRow /\ trail[t] \in Seq(HoldMove) /\ Explained(hold[t], trail[t])
             /\ \A a \in HoldMove : Times(trail[t], a) \in Nat
  <2>1. hold[t] \in HoldRow /\ trail[t] \in Seq(HoldMove) /\ Explained(hold[t], trail[t])  BY DEF HoldInv
  <2> QED  BY <2>1, TimesAreCounted
<1>1. ASSUME NEW t \in HeldTx, placeHold(t) PROVE HoldInv'
  <2> DEFINE log == trail[t]
             more == Append(log, "placed")
             row == [hold[t] EXCEPT !.status = "active"]
  <2>1. hold' = [hold EXCEPT ![t] = row] /\ trail' = [trail EXCEPT ![t] = more]
    BY <1>1 DEF placeHold, Trailed
  <2>2. row \in HoldRow /\ row.status = "active" /\ row.approved = hold[t].approved  BY <1>0 DEF HoldRow
  <2>3. /\ Times(more, "placed") = Times(log, "placed") + 1 /\ Unreleased(more)
        /\ Places(more, "released") = Places(log, "released") /\ Places(more, "approved") = Places(log, "approved")
    BY <1>0, TrailGrows DEF HoldMove
  <2>4. Times(more, "released") = Times(log, "released")  BY <2>3 DEF Times
  <2>5. "placed" \in HoldMove /\ "released" \in HoldMove  BY DEF HoldMove
  <2> HIDE DEF row, more
  <2>6. Times(more, "released") <= Times(more, "placed") /\ Times(more, "released") < Times(more, "placed")
    BY <1>0, <2>3, <2>4, <2>5 DEF Explained
  <2>7. (row.status = "active") = Unreleased(more)  BY <2>2, <2>3 DEF Unreleased
  <2>8. row.approved = (Places(more, "approved") # {})  BY <1>0, <2>2, <2>3 DEF Explained
  <2>9. Explained(row, more)  BY <2>6, <2>7, <2>8 DEF Explained
  <2> QED  BY <2>1, <2>2, <2>5, <2>9, HoldMoves DEF more
<1>2. ASSUME NEW t \in HeldTx, releaseHold(t) PROVE HoldInv'
  <2> DEFINE log == trail[t]
             more == Append(log, "released")
             row == [hold[t] EXCEPT !.status = "released"]
  <2>1. hold' = [hold EXCEPT ![t] = row] /\ trail' = [trail EXCEPT ![t] = more] /\ hold[t].status = "active"
    BY <1>2 DEF releaseHold, Trailed
  <2>2. row \in HoldRow /\ row.status = "released" /\ row.approved = hold[t].approved  BY <1>0 DEF HoldRow
  <2>3. /\ Times(more, "released") = Times(log, "released") + 1 /\ ~Unreleased(more)
        /\ Places(more, "placed") = Places(log, "placed") /\ Places(more, "approved") = Places(log, "approved")
    BY <1>0, TrailGrows DEF HoldMove
  <2>4. Times(more, "placed") = Times(log, "placed")  BY <2>3 DEF Times
  <2>5. "placed" \in HoldMove /\ "released" \in HoldMove  BY DEF HoldMove
  <2> HIDE DEF row, more
  <2>6. Times(more, "released") <= Times(more, "placed")
    <3>1. Times(log, "released") < Times(log, "placed")  BY <1>0, <2>1 DEF Explained
    <3> QED  BY <1>0, <2>3, <2>4, <2>5, <3>1
  <2>7. row.status # "active" /\ (row.status = "active") = Unreleased(more)  BY <2>2, <2>3 DEF Unreleased
  <2>8. row.approved = (Places(more, "approved") # {})  BY <1>0, <2>2, <2>3 DEF Explained
  <2>9. Explained(row, more)  BY <2>6, <2>7, <2>8 DEF Explained
  <2> QED  BY <2>1, <2>2, <2>5, <2>9, HoldMoves DEF more
<1>3. ASSUME NEW t \in HeldTx, approveHoldRelease(t) PROVE HoldInv'
  <2> DEFINE log == trail[t]
             more == Append(log, "approved")
             row == [hold[t] EXCEPT !.approved = TRUE]
  <2>1. hold' = [hold EXCEPT ![t] = row] /\ trail' = [trail EXCEPT ![t] = more] /\ hold[t].status = "active"
    BY <1>3 DEF approveHoldRelease, Trailed
  <2>2. row \in HoldRow /\ row.status = hold[t].status /\ row.approved = TRUE  BY <1>0 DEF HoldRow
  <2>3. /\ Unreleased(more) = Unreleased(log) /\ Places(more, "approved") # {}
        /\ Places(more, "placed") = Places(log, "placed") /\ Places(more, "released") = Places(log, "released")
    BY <1>0, TrailGrows DEF HoldMove
  <2>4. Times(more, "placed") = Times(log, "placed") /\ Times(more, "released") = Times(log, "released")
    BY <2>3 DEF Times
  <2>5. "approved" \in HoldMove  BY DEF HoldMove
  <2> HIDE DEF row, more
  <2>6. Explained(row, more)  BY <1>0, <2>2, <2>3, <2>4 DEF Explained
  <2> QED  BY <2>1, <2>2, <2>5, <2>6, HoldMoves DEF more
<1> QED  BY <1>1, <1>2, <1>3 DEF HoldsNext, PostPlace, PostRelease, PostApproveRelease

\* Activation pays once, and the trail explains every hold: for every number of
\* wallets, transactions, bonuses and decisions.
THEOREM TheDecisionsAreTraceable == RecordsSpec => []DecisionsAreTraceable
<1>1. RecordsInit => ReferralInv /\ HoldInv  BY ReferralStarts, HoldStarts DEF RecordsInit
<1>2. ReferralInv /\ [RecordsNext]_mcVars => ReferralInv'
  <2> SUFFICES ASSUME ReferralInv, [RecordsNext]_mcVars PROVE ReferralInv'  OBVIOUS
  <2>1. CASE UNCHANGED referralVars
    BY <2>1 DEF referralVars, ReferralInv, ReferralTypeOK, PaidFor
  <2> QED  BY <2>1, ReferralStep, RecordsFrame
<1>3. HoldInv /\ [RecordsNext]_mcVars => HoldInv'
  <2> SUFFICES ASSUME HoldInv, [RecordsNext]_mcVars PROVE HoldInv'  OBVIOUS
  <2>1. CASE UNCHANGED holdVars  BY <2>1 DEF holdVars, HoldInv
  <2> QED  BY <2>1, HoldStep, RecordsFrame
<1>4. ReferralInv /\ HoldInv => DecisionsAreTraceable
  BY ReferralHolds, HoldHolds DEF DecisionsAreTraceable
<1> QED  BY <1>1, <1>2, <1>3, <1>4, PTL DEF RecordsSpec

-----------------------------------------------------------------------------
(***************************************************************************)
(* The views of the ledger.  Every figure is the amount of a set of        *)
(* payouts, and the parts of a figure are the classes of one set: by day,  *)
(* by payee, by contract.  What makes the totals agree is that no payout   *)
(* belongs to an initialization and that every day is one the views know.  *)
(***************************************************************************)

Entry == [deal : Deal, type : {"initialize", "distribute"}, status : {"pending", "confirmed", "failed"},
          day : ViewDay, block : ViewDay \cup {NoDay}, paid : [Payee -> Nat]]

EntriesOK ==
    /\ entries \in Seq(Entry)
    /\ \A i \in DOMAIN entries : entries[i].type = "initialize" => \A p \in Payee : entries[i].paid[p] = 0

\* The classes payouts are counted by.
ByDay == [r \in Payout |-> entries[r[1]].day]
ByWhen == [r \in Payout |-> When(r[1])]
ByPayee == [r \in Payout |-> r[2]]
ByDeal == [r \in Payout |-> entries[r[1]].deal]
ByCell == [r \in Payout |-> <<When(r[1]), entries[r[1]].deal>>]

LEMMA ViewDayFinite == IsFiniteSet(ViewDay)
<1>1. 0 \in Int /\ LastViewDay \in Int  BY LedgerAssumption
<1> QED  BY <1>1, FS_Interval DEF ViewDay

LEMMA PayoutType ==
    ASSUME EntriesOK
    PROVE  /\ IsFiniteSet(DOMAIN entries) /\ IsFiniteSet(Payout)
           /\ \A i \in DOMAIN entries : entries[i] \in Entry
           /\ \A r \in Payout :
                 /\ r[1] \in DOMAIN entries /\ r[2] \in Payee /\ entries[r[1]] \in Entry
                 /\ entries[r[1]].paid[r[2]] \in Nat /\ entries[r[1]].paid[r[2]] > 0
                 /\ entries[r[1]].type = "distribute"
                 /\ ByDay[r] \in ViewDay /\ ByWhen[r] \in ViewDay /\ ByPayee[r] \in Payee
                 /\ ByDeal[r] \in Deal /\ ByCell[r] \in ViewDay \X Deal
<1>1. Len(entries) \in Nat /\ DOMAIN entries = 1..Len(entries)  BY DEF EntriesOK
<1>2. IsFiniteSet(DOMAIN entries) /\ IsFiniteSet(Payee)  BY <1>1, CountedSetIsFinite, LedgerAssumption
<1>3. IsFiniteSet((DOMAIN entries) \X Payee)  BY <1>2, FS_Product
<1>4. Payout \subseteq (DOMAIN entries) \X Payee  BY DEF Payout
<1>5. IsFiniteSet(Payout)  BY <1>3, <1>4, FS_Subset
<1>6. \A i \in DOMAIN entries : entries[i] \in Entry  BY DEF EntriesOK
<1>7. ASSUME NEW r \in Payout
      PROVE  /\ r[1] \in DOMAIN entries /\ r[2] \in Payee /\ entries[r[1]] \in Entry
             /\ entries[r[1]].paid[r[2]] \in Nat /\ entries[r[1]].paid[r[2]] > 0
             /\ entries[r[1]].type = "distribute"
             /\ ByDay[r] \in ViewDay /\ ByWhen[r] \in ViewDay /\ ByPayee[r] \in Payee
             /\ ByDeal[r] \in Deal /\ ByCell[r] \in ViewDay \X Deal
  <2>1. r[1] \in DOMAIN entries /\ r[2] \in Payee  BY <1>4
  <2>2. entries[r[1]] \in Entry /\ entries[r[1]].paid[r[2]] > 0  BY <1>6, <2>1 DEF Payout
  <2> DEFINE e == entries[r[1]]
  <2>3. /\ e.deal \in Deal /\ e.type \in {"initialize", "distribute"} /\ e.day \in ViewDay
        /\ e.block \in ViewDay \cup {NoDay} /\ e.paid[r[2]] \in Nat
    BY <2>1, <2>2 DEF Entry
  <2>4. e.type # "initialize"
    <3>1. e.paid[r[2]] # 0  BY <2>2, <2>3
    <3> QED  BY <2>1, <3>1 DEF EntriesOK
  <2>5. When(r[1]) \in ViewDay  BY <2>3 DEF When
  <2> QED  BY <2>1, <2>2, <2>3, <2>4, <2>5 DEF ByDay, ByWhen, ByPayee, ByDeal, ByCell
<1> QED  BY <1>2, <1>5, <1>6, <1>7

LEMMA AmountByClass ==
    ASSUME EntriesOK, NEW S \in SUBSET Payout, NEW D, IsFiniteSet(D),
           NEW class, \A r \in S : class[r] \in D,
           NEW h, DOMAIN h = D, \A d \in D : h[d] = Amount(ClassOf(S, class, d))
    PROVE  SumOf(h) = Amount(S)
<1> DEFINE f == [r \in Payout |-> entries[r[1]].paid[r[2]]]
<1>1. IsFiniteSet(S)  BY PayoutType, FS_Subset
<1>2. IntsOn(f, S)  BY PayoutType DEF IntsOn
<1>3. \A T : Amount(T) = SumFunctionOnSet(f, T)  BY DEF Amount
<1> HIDE DEF f
<1>4. \A d \in D : h[d] = SumFunctionOnSet(f, ClassOf(S, class, d))  BY <1>3
<1>5. SumFunctionOnSet(h, D) = SumFunctionOnSet(f, S)  BY <1>1, <1>2, <1>4, SumByClass
<1>6. SumOf(h) = SumFunctionOnSet(h, D)  BY DEF SumOf, SumFunction
<1> QED  BY <1>3, <1>5, <1>6

LEMMA AmountSplits ==
    ASSUME EntriesOK, NEW S \in SUBSET Payout, NEW P \in SUBSET S
    PROVE  Amount(S) = Amount(P) + Amount(S \ P)
<1> DEFINE f == [r \in Payout |-> entries[r[1]].paid[r[2]]]
<1>1. IsFiniteSet(S)  BY PayoutType, FS_Subset
<1>2. IntsOn(f, S)  BY PayoutType DEF IntsOn
<1> HIDE DEF f
<1>3. SumFunctionOnSet(f, S) = SumFunctionOnSet(f, P) + SumFunctionOnSet(f, S \ P)  BY <1>1, <1>2, SumSplits
<1> QED  BY <1>3 DEF Amount, f

\* An amount is a number, and it is zero of no payouts only.
LEMMA AmountType ==
    ASSUME EntriesOK, NEW S \in SUBSET Payout
    PROVE  Amount(S) \in Nat /\ (Amount(S) = 0 <=> S = {})
<1> DEFINE f == [r \in Payout |-> entries[r[1]].paid[r[2]]]
<1>1. IsFiniteSet(S)  BY PayoutType, FS_Subset
<1>2. \A r \in S : f[r] \in Nat /\ f[r] > 0  BY PayoutType
<1>3. IntsOn(f, S)  BY <1>2 DEF IntsOn
<1>4. \A T : Amount(T) = SumFunctionOnSet(f, T)  BY DEF Amount
<1> HIDE DEF f
<1>5. SumFunctionOnSet(f, S) \in Nat  BY <1>1, <1>2, SumNonNegative
<1>6. SumFunctionOnSet(f, {}) = 0  BY SumEmpty
<1>7. ASSUME S # {} PROVE SumFunctionOnSet(f, S) # 0
  <2>1. PICK r \in S : TRUE  BY <1>7
  <2>2. SumFunctionOnSet(f, S) = f[r] + SumFunctionOnSet(f, S \ {r})  BY <1>1, <1>3, SumRemove
  <2>3. IsFiniteSet(S \ {r})  BY <1>1, FS_Subset
  <2>4. SumFunctionOnSet(f, S \ {r}) \in Nat  BY <1>2, <2>3, SumNonNegative
  <2> QED  BY <1>2, <2>2, <2>4
<1> QED  BY <1>4, <1>5, <1>6, <1>7

-----------------------------------------------------------------------------
\* The confirmed payouts of a contract in a window, and what analytics.js makes
\* of them.
DealRows(k, start, end) ==
    {r \in ConfirmedPayout : entries[r[1]].deal = k /\ Timestamped(r[1], start, end)}

LEMMA AnalyticsFigures ==
    ASSUME EntriesOK, NEW k, NEW start, NEW end
    PROVE  LET a == getAnalyticsData(k, start, end)
           IN  /\ DealRows(k, start, end) \in SUBSET Payout
               /\ a.totalDistributed = Amount(DealRows(k, start, end))
               /\ DOMAIN a.trends = ViewDay
               /\ \A d \in ViewDay : a.trends[d] = Amount(ClassOf(DealRows(k, start, end), ByDay, d))
               /\ DOMAIN a.collaboratorStats = Payee
               /\ \A p \in Payee :
                     a.collaboratorStats[p] = Amount(ClassOf(DealRows(k, start, end), ByPayee, p))
<1> DEFINE tx == {i \in ConfirmedTx : entries[i].deal = k /\ Timestamped(i, start, end)}
           rows == {r \in Payout : r[1] \in tx}
           royalties == {i \in tx : entries[i].type # "initialize"}
           a == getAnalyticsData(k, start, end)
<1>1. rows = DealRows(k, start, end)
  BY DEF DealRows, ConfirmedPayout
<1>2. {r \in rows : r[1] \in royalties} = rows
  BY PayoutType
<1>3. \A d : {r \in rows : entries[r[1]].day = d} = ClassOf(rows, ByDay, d)
  BY DEF ClassOf, ByDay
<1>4. \A p : {r \in rows : r[2] = p} = ClassOf(rows, ByPayee, p)
  BY DEF ClassOf, ByPayee
<1>5. /\ a.totalDistributed = Amount({r \in rows : r[1] \in royalties})
      /\ a.trends = [d \in ViewDay |-> Amount({r \in rows : entries[r[1]].day = d})]
      /\ a.collaboratorStats = [p \in Payee |-> Amount({r \in rows : r[2] = p})]
  BY DEF getAnalyticsData
<1>6. rows \in SUBSET Payout  OBVIOUS
<1> HIDE DEF a
<1>7. a.totalDistributed = Amount(rows)  BY <1>2, <1>5
<1>8. DOMAIN a.trends = ViewDay /\ \A d \in ViewDay : a.trends[d] = Amount(ClassOf(rows, ByDay, d))
  BY <1>3, <1>5
<1>9. DOMAIN a.collaboratorStats = Payee
      /\ \A p \in Payee : a.collaboratorStats[p] = Amount(ClassOf(rows, ByPayee, p))
  BY <1>4, <1>5
<1> HIDE DEF rows
<1> QED  BY <1>1, <1>6, <1>7, <1>8, <1>9 DEF a

\* The rows of a contract in a window, of every status.
VolumeOf(k, start, end) ==
    {i \in DOMAIN entries : /\ entries[i].deal = k /\ entries[i].type # "initialize"
                            /\ Timestamped(i, start, end)}
DayOf == [i \in DOMAIN entries |-> entries[i].day]
StatusOf == [i \in DOMAIN entries |-> entries[i].status]
Statuses == {"confirmed", "failed", "pending"}

LEMMA StatusesFinite == IsFiniteSet(Statuses)
<1>1. IsFiniteSet({}) /\ IsFiniteSet({} \cup {"confirmed"})  BY FS_EmptySet, FS_AddElement
<1>2. IsFiniteSet(({} \cup {"confirmed"}) \cup {"failed"})  BY <1>1, FS_AddElement
<1>3. IsFiniteSet((({} \cup {"confirmed"}) \cup {"failed"}) \cup {"pending"})  BY <1>2, FS_AddElement
<1>4. Statuses = (({} \cup {"confirmed"}) \cup {"failed"}) \cup {"pending"}  BY DEF Statuses
<1> QED  BY <1>3, <1>4

LEMMA VolumeFigures ==
    ASSUME EntriesOK, NEW k, NEW start, NEW end
    PROVE  SumOf(Volume(k, start, end).buckets) = SumOf(Volume(k, start, end).status)
<1> DEFINE tx == VolumeOf(k, start, end)
           v == Volume(k, start, end)
<1>1. tx \in SUBSET DOMAIN entries /\ IsFiniteSet(tx)
  <2>1. tx \subseteq DOMAIN entries  BY DEF VolumeOf
  <2> QED  BY <2>1, PayoutType, FS_Subset
<1>2. \A i \in tx : DayOf[i] \in ViewDay /\ StatusOf[i] \in Statuses
  <2> SUFFICES ASSUME NEW i \in tx PROVE DayOf[i] \in ViewDay /\ StatusOf[i] \in Statuses  OBVIOUS
  <2>1. i \in DOMAIN entries /\ entries[i] \in Entry  BY <1>1, PayoutType
  <2>2. entries[i].day \in ViewDay /\ entries[i].status \in Statuses  BY <2>1 DEF Entry, Statuses
  <2> QED  BY <2>1, <2>2 DEF DayOf, StatusOf
<1>3. /\ v.buckets = [d \in ViewDay |-> Cardinality({i \in tx : entries[i].day = d})]
      /\ v.status = [s \in Statuses |-> Cardinality({i \in tx : entries[i].status = s})]
  BY DEF Volume, VolumeOf, Statuses
<1>4. \A d : {i \in tx : entries[i].day = d} = ClassOf(tx, DayOf, d)  BY <1>1 DEF ClassOf, DayOf
<1>5. \A s : {i \in tx : entries[i].status = s} = ClassOf(tx, StatusOf, s)  BY <1>1 DEF ClassOf, StatusOf
<1> HIDE DEF tx, v
<1>6. DOMAIN v.buckets = ViewDay /\ \A d \in ViewDay : v.buckets[d] = Cardinality(ClassOf(tx, DayOf, d))
  BY <1>3, <1>4
<1>7. DOMAIN v.status = Statuses /\ \A s \in Statuses : v.status[s] = Cardinality(ClassOf(tx, StatusOf, s))
  BY <1>3, <1>5
<1> DEFINE buckets == v.buckets
           status == v.status
<1> HIDE DEF buckets, status
<1>8. SumFunctionOnSet(buckets, ViewDay) = Cardinality(tx)
  BY <1>1, <1>2, <1>6, ViewDayFinite, CountByClass DEF buckets
<1>9. SumFunctionOnSet(status, Statuses) = Cardinality(tx)
  BY <1>1, <1>2, <1>7, StatusesFinite, CountByClass DEF status
<1>10. SumOf(buckets) = SumOf(status)  BY <1>6, <1>7, <1>8, <1>9 DEF SumOf, SumFunction, buckets, status
<1> QED  BY <1>10 DEF buckets, status, v

\* The collaborators that a ranking lists, and those ahead of one of them.
Listed(of, start, end) == {p \in Payee : Earned(p, of, start, end) > 0}
AheadOf(p, of, start, end) == {q \in Listed(of, start, end) : buildOrderClause(p, q, of, start, end)}

LEMMA RankRows ==
    ASSUME NEW of, NEW start, NEW end, NEW row \in Rank(of, start, end)
    PROVE  /\ row.payee \in Listed(of, start, end)
           /\ row.earned = Earned(row.payee, of, start, end)
           /\ row.rank = 1 + Cardinality(AheadOf(row.payee, of, start, end))
<1> DEFINE L == Listed(of, start, end)
           R(p) == [payee |-> p, earned |-> Earned(p, of, start, end),
                    rank |-> 1 + Cardinality(AheadOf(p, of, start, end))]
<1>1. Rank(of, start, end) = {R(p) : p \in L}  BY DEF Rank, Listed, AheadOf
<1> HIDE DEF L
<1>2. \A x \in {R(p) : p \in L} : \E p \in L : x = R(p)
  <2> HIDE DEF R
  <2> QED  OBVIOUS
<1>3. PICK p \in L : row = R(p)  BY <1>1, <1>2
<1> QED  BY <1>3 DEF L

LEMMA ContractFigures ==
    ASSUME EntriesOK, NEW k \in Deal, NEW start, NEW end
    PROVE  ContractViewsAgree(k, start, end)
<1> DEFINE a == getAnalyticsData(k, start, end)
           rows == DealRows(k, start, end)
<1>1. /\ rows \in SUBSET Payout /\ a.totalDistributed = Amount(rows)
      /\ DOMAIN a.trends = ViewDay /\ \A d \in ViewDay : a.trends[d] = Amount(ClassOf(rows, ByDay, d))
      /\ DOMAIN a.collaboratorStats = Payee
      /\ \A p \in Payee : a.collaboratorStats[p] = Amount(ClassOf(rows, ByPayee, p))
  BY AnalyticsFigures
<1> HIDE DEF a, rows
<1>2. \A r \in rows : ByDay[r] \in ViewDay /\ ByPayee[r] \in Payee  BY <1>1, PayoutType
<1> DEFINE trends == a.trends
           stats == a.collaboratorStats
<1>3. SumOf(trends) = Amount(rows)
  <2>1. DOMAIN trends = ViewDay /\ \A d \in ViewDay : trends[d] = Amount(ClassOf(rows, ByDay, d))  BY <1>1
  <2> HIDE DEF trends
  <2> QED  BY <1>1, <1>2, <2>1, ViewDayFinite, AmountByClass
<1>4. SumOf(stats) = Amount(rows)
  <2>1. DOMAIN stats = Payee /\ \A p \in Payee : stats[p] = Amount(ClassOf(rows, ByPayee, p))  BY <1>1
  <2> HIDE DEF stats
  <2> QED  BY <1>1, <1>2, <2>1, LedgerAssumption, AmountByClass
<1>5. ASSUME NEW row \in ContractRanking(k, start, end)
      PROVE  row.earned = a.collaboratorStats[row.payee]
  <2>1. PICK p \in Payee : row.payee = p /\ row.earned = Earned(p, {k}, start, end)
    BY <1>5, RankRows DEF ContractRanking, Listed
  <2>2. {r \in ConfirmedPayout : r[2] = p /\ entries[r[1]].deal \in {k} /\ Timestamped(r[1], start, end)}
          = ClassOf(rows, ByPayee, p)
    BY DEF ClassOf, ByPayee, rows, DealRows, ConfirmedPayout
  <2> QED  BY <1>1, <2>1, <2>2 DEF Earned
<1>6. SumOf(Volume(k, start, end).buckets) = SumOf(Volume(k, start, end).status)  BY VolumeFigures
<1> QED  BY <1>1, <1>3, <1>4, <1>5, <1>6 DEF ContractViewsAgree, a

\* A window ends where the next begins, and every day is in the two.
LEMMA WindowFigures ==
    ASSUME EntriesOK, NEW k \in Deal
    PROVE  WindowsMeet(k)
<1> DEFINE all == DealRows(k, NoDay, LastViewDay)
           early == DealRows(k, NoDay, 0)
           late == DealRows(k, 0, LastViewDay)
<1>1. LastViewDay \in Nat /\ NoDay = -1  BY LedgerAssumption DEF NoDay
<1>2. \A r \in ConfirmedPayout : entries[r[1]].day \in 0..LastViewDay
  <2> SUFFICES ASSUME NEW r \in ConfirmedPayout PROVE entries[r[1]].day \in 0..LastViewDay  OBVIOUS
  <2>1. entries[r[1]] \in Entry  BY PayoutType DEF ConfirmedPayout
  <2> QED  BY <2>1 DEF Entry, ViewDay
<1>3. early \in SUBSET all /\ late = all \ early  BY <1>1, <1>2 DEF DealRows, Timestamped
<1>4. /\ all \in SUBSET Payout
      /\ Compute(k) = Amount(all)
      /\ getAnalyticsData(k, NoDay, 0).totalDistributed = Amount(early)
      /\ getAnalyticsData(k, 0, LastViewDay).totalDistributed = Amount(late)
  BY AnalyticsFigures DEF Compute, AllDays
<1> HIDE DEF all, early, late
<1> QED  BY <1>3, <1>4, AmountSplits DEF WindowsMeet

-----------------------------------------------------------------------------
\* One collaborator.
LEMMA EarningsFigures ==
    ASSUME EntriesOK, NEW p \in Payee
    PROVE  EarningsAddUp(p)
<1> DEFINE start == AllDays[1]
           end == AllDays[2]
           rows == {r \in ConfirmedPayout : /\ r[2] = p /\ entries[r[1]].deal \in Deal
                                            /\ Timestamped(r[1], start, end)}
           h == MultiContract(p, start, end)
<1> HIDE DEF start, end
<1>1. rows \in SUBSET Payout  BY DEF ConfirmedPayout
<1>2. \A k \in Deal : {r \in ConfirmedPayout :
          r[2] = p /\ entries[r[1]].deal = k /\ Timestamped(r[1], start, end)} = ClassOf(rows, ByDeal, k)
  BY DEF ClassOf, ByDeal, ConfirmedPayout
<1>3. DOMAIN h = Deal /\ \A k \in Deal : h[k] = Amount(ClassOf(rows, ByDeal, k))
  BY <1>2 DEF MultiContract
<1>4. Earned(p, Deal, start, end) = Amount(rows)  BY DEF Earned
<1> HIDE DEF rows, h
<1>5. \A r \in rows : ByDeal[r] \in Deal  BY <1>1, PayoutType
<1>6. SumOf(h) = Amount(rows)  BY <1>1, <1>3, <1>5, LedgerAssumption, AmountByClass
<1> QED  BY <1>4, <1>6 DEF EarningsAddUp, h, start, end

LEMMA HistoryFigures ==
    ASSUME EntriesOK, NEW p \in Payee, NEW start, NEW end, NEW of
    PROVE  HistoryIsTheExport(p, start, end, of)
<1> DEFINE In(r) == of = {} \/ entries[r[1]].deal \in of
           rows == {r \in ConfirmedPayout : r[2] = p /\ Blocked(r[1], start, end) /\ In(r)}
           h == getContributorEarningsHistory(p, start, end, of)
<1>1. rows \in SUBSET Payout  BY DEF ConfirmedPayout
<1>2. \A r \in ConfirmedPayout : entries[r[1]].type = "distribute"  BY PayoutType DEF ConfirmedPayout
<1>3. getContributorPayoutRecords(p, start, end, of) = rows  BY DEF getContributorPayoutRecords
<1>4. /\ EarningsExport(p, start, end, of, "distribute") = rows
      /\ EarningsExport(p, start, end, of, "initialize") = {}
  BY <1>2, <1>3 DEF EarningsExport
<1>5. \A c \in ViewDay \X Deal :
         {r \in ConfirmedPayout :
             /\ r[2] = p /\ entries[r[1]].type # "initialize" /\ Blocked(r[1], start, end)
             /\ <<When(r[1]), entries[r[1]].deal>> = c /\ In(r)} = ClassOf(rows, ByCell, c)
  BY <1>2 DEF ClassOf, ByCell, ConfirmedPayout
<1>6. DOMAIN h = ViewDay \X Deal /\ \A c \in ViewDay \X Deal : h[c] = Amount(ClassOf(rows, ByCell, c))
  BY <1>5 DEF getContributorEarningsHistory
<1>7. EarningsHistory(p, start, end, of).snapshots = h  BY DEF EarningsHistory
<1> HIDE DEF rows, h
<1> DEFINE D == ViewDay \X Deal
<1>8. IsFiniteSet(D)  BY ViewDayFinite, LedgerAssumption, FS_Product
<1>9. \A r \in rows : ByCell[r] \in D  BY <1>1, PayoutType
<1>10. DOMAIN h = D /\ \A c \in D : h[c] = Amount(ClassOf(rows, ByCell, c))  BY <1>6
<1> HIDE DEF D
<1>11. SumOf(h) = Amount(rows)  BY <1>1, <1>8, <1>9, <1>10, AmountByClass
<1> QED  BY <1>4, <1>7, <1>11 DEF HistoryIsTheExport

\* A rate is a percentage, because the confirmed attempts are among the attempts.
LEMMA PercentageOf ==
    ASSUME NEW c \in Nat, NEW a \in Nat \ {0}, c <= a
    PROVE  (c * 100) \div a \in 0..100
<1>1. (c * 100) \div a \in Int  BY Quotient
<1>2. (100 * a + 0) \div a = 100  BY OneQuotient
<1>3. (0 * a + 0) \div a = 0  BY OneQuotient
<1>4. 100 * a + 0 \in Int /\ c * 100 \in Int /\ c * 100 <= 100 * a + 0 /\ 0 * a + 0 = 0 /\ 0 <= c * 100
  OBVIOUS
<1>5. (c * 100) \div a <= (100 * a + 0) \div a  BY <1>4, QuotientOrder
<1>6. 0 \div a <= (c * 100) \div a  BY <1>4, QuotientOrder
<1> QED  BY <1>1, <1>2, <1>3, <1>4, <1>5, <1>6

\* The transactions a set of payouts belongs to, and their days.
TxOf(rows) == {r[1] : r \in rows}
DaysOf(rows) == {When(r[1]) : r \in rows}
PaidTo(p) == {r \in ConfirmedPayout : r[2] = p}
SharesOf(p) == {r \in Payout : r[2] = p /\ entries[r[1]].type = "distribute"}

LEMMA RawStats ==
    ASSUME EntriesOK, NEW p \in Payee
    PROVE  LET s == fetchRawStats(p)
           IN  /\ s.attempts \in Nat /\ s.confirmed \in Nat /\ s.active \in Nat
               /\ s.confirmed <= s.attempts
               /\ s.earned = Amount(SharesOf(p))
               /\ SuccessRate(s) \in 0..100
<1> DEFINE s == fetchRawStats(p)
           T == TxOf(SharesOf(p))
           C == T \cap ConfirmedTx
           A == DaysOf(PaidTo(p))
<1>1. s = [attempts |-> Cardinality(T), confirmed |-> Cardinality(C), earned |-> Amount(SharesOf(p)),
           active |-> Cardinality(A)]
  BY DEF fetchRawStats, TxOf, SharesOf, DaysOf, PaidTo
<1>2. IsFiniteSet(T) /\ IsFiniteSet(C) /\ C \subseteq T
  <2>1. \A r \in SharesOf(p) : r[1] \in DOMAIN entries  BY PayoutType DEF SharesOf
  <2>2. T \subseteq DOMAIN entries  BY <2>1 DEF TxOf
  <2> QED  BY <2>2, PayoutType, FS_Subset
<1>3. IsFiniteSet(A)
  <2>1. \A r \in PaidTo(p) : r \in Payout /\ ByWhen[r] \in ViewDay  BY PayoutType DEF PaidTo, ConfirmedPayout
  <2>2. \A r \in PaidTo(p) : When(r[1]) \in ViewDay  BY <2>1 DEF ByWhen
  <2>3. A \subseteq ViewDay  BY <2>2 DEF DaysOf
  <2> QED  BY <2>3, ViewDayFinite, FS_Subset
<1> HIDE DEF T, C, A, s
<1>4. /\ Cardinality(T) \in Nat /\ Cardinality(C) \in Nat /\ Cardinality(A) \in Nat
      /\ Cardinality(C) <= Cardinality(T)
  BY <1>2, <1>3, FS_CardinalityType, FS_Subset
<1>5. /\ s.attempts = Cardinality(T) /\ s.confirmed = Cardinality(C) /\ s.active = Cardinality(A)
      /\ s.earned = Amount(SharesOf(p))
  BY <1>1
<1>6. SuccessRate(s) \in 0..100
  <2>1. CASE s.attempts = 0  BY <2>1 DEF SuccessRate
  <2>2. CASE s.attempts # 0
    <3>1. (s.confirmed * 100) \div s.attempts \in 0..100  BY <1>4, <1>5, <2>2, PercentageOf
    <3> QED  BY <2>2, <3>1 DEF SuccessRate
  <2> QED  BY <2>1, <2>2
<1> QED  BY <1>4, <1>5, <1>6 DEF s

LEMMA ScoreIsAPercentage ==
    ASSUME NEW rate \in 0..100, NEW active \in Nat
    PROVE  computeReliabilityScore(rate, active) \in 0..100
<1> DEFINE year == LastViewDay + 1
           months == (active * 100) \div year
           raw == (70 * rate + 30 * months) \div 100
<1>1. year \in Nat \ {0}  BY LedgerAssumption
<1>2. months \in Nat
  <2> HIDE DEF year
  <2>1. months \in Int /\ 0 <= active * 100 /\ active * 100 \in Int  BY <1>1, Quotient
  <2>2. 0 \div year <= months  BY <1>1, <2>1, QuotientOrder
  <2>3. (0 * year + 0) \div year = 0 /\ 0 * year + 0 = 0  BY <1>1, OneQuotient
  <2> QED  BY <2>1, <2>2, <2>3
<1> HIDE DEF months, year
<1>3. raw \in Nat  BY <1>2
<1>4. computeReliabilityScore(rate, active) = IF raw > 100 THEN 100 ELSE raw
  BY DEF computeReliabilityScore, months, year
<1> HIDE DEF raw
<1> QED  BY <1>3, <1>4

LEMMA ProfileFigures ==
    ASSUME EntriesOK, NEW p \in Payee
    PROVE  ProfileIsConsistent(p)
<1>1. ASSUME NEW k \in getContributorContracts(p)
      PROVE  \E e \in getContributorEarningsEvents(p) : e.type = "contract_added" /\ e.deal = k
  <2> DEFINE First(c) == Min({When(r[1]) : r \in {x \in ConfirmedPayout : x[2] = p /\ entries[x[1]].deal = c}})
             Added == {[type |-> "contract_added", deal |-> c, day |-> First(c)] : c \in getContributorContracts(p)}
             e == [type |-> "contract_added", deal |-> k, day |-> First(k)]
  <2>1. Added \subseteq getContributorEarningsEvents(p)  BY DEF getContributorEarningsEvents
  <2> HIDE DEF First
  <2>2. e \in Added  BY <1>1
  <2>3. e.type = "contract_added" /\ e.deal = k  OBVIOUS
  <2> HIDE DEF e, Added
  <2> QED  BY <2>1, <2>2, <2>3
<1>2. (resolvers(p) = {}) <=> (Earned(p, Deal, AllDays[1], AllDays[2]) = 0)
  <2>1. \A r \in ConfirmedPayout : entries[r[1]].deal \in Deal /\ Timestamped(r[1], AllDays[1], AllDays[2])
    <3> SUFFICES ASSUME NEW r \in ConfirmedPayout
                 PROVE  entries[r[1]].deal \in Deal /\ Timestamped(r[1], AllDays[1], AllDays[2])
      OBVIOUS
    <3>1. entries[r[1]] \in Entry  BY PayoutType DEF ConfirmedPayout
    <3>2. entries[r[1]].deal \in Deal /\ entries[r[1]].day \in 0..LastViewDay  BY <3>1 DEF Entry, ViewDay
    <3> QED  BY <3>2, LedgerAssumption DEF Timestamped, AllDays, NoDay
  <2>2. Earned(p, Deal, AllDays[1], AllDays[2]) = Amount(PaidTo(p))
    <3>1. {r \in ConfirmedPayout : /\ r[2] = p /\ entries[r[1]].deal \in Deal
                                   /\ Timestamped(r[1], AllDays[1], AllDays[2])} = PaidTo(p)
      BY <2>1 DEF PaidTo
    <3> QED  BY <3>1 DEF Earned
  <2>3. PaidTo(p) \in SUBSET Payout  BY DEF PaidTo, ConfirmedPayout
  <2>4. Amount(PaidTo(p)) = 0 <=> PaidTo(p) = {}  BY <2>3, AmountType
  <2>5. getContributorContracts(p) = {} <=> PaidTo(p) = {}
    BY DEF getContributorContracts, PaidTo
  <2>6. resolvers(p) = {} <=> getContributorContracts(p) = {}  BY DEF resolvers
  <2> QED  BY <2>2, <2>4, <2>5, <2>6
<1>3. LET s == fetchRawStats(p) IN computeReliabilityScore(SuccessRate(s), s.active) \in 0..100
  <2> DEFINE s == fetchRawStats(p)
             rate == SuccessRate(s)
             active == s.active
  <2>1. rate \in 0..100 /\ active \in Nat  BY RawStats
  <2> HIDE DEF rate, active
  <2>2. computeReliabilityScore(rate, active) \in 0..100  BY <2>1, ScoreIsAPercentage
  <2> QED  BY <2>2 DEF rate, active
<1>4. (resolvers(p) = {}) = (Earned(p, Deal, AllDays[1], AllDays[2]) = 0)  BY <1>2
<1> QED  BY <1>1, <1>3, <1>4 DEF ProfileIsConsistent

-----------------------------------------------------------------------------
\* The report, the ranking.
LEMMA ReportFigures ==
    ASSUME EntriesOK
    PROVE  ReportAddsUp
<1> DEFINE f == gatherReportData(0, LastViewDay)
           tx == {i \in DOMAIN entries : /\ entries[i].type = "distribute"
                                         /\ 0 <= When(i) /\ When(i) <= LastViewDay}
           rows == {r \in ConfirmedPayout : r[1] \in tx}
           contractBreakdown == [k \in Deal |-> Amount({r \in rows : entries[r[1]].deal = k})]
           topEarners == [p \in Payee |-> Amount({r \in rows : r[2] = p})]
           monthlyTrend == [d \in ViewDay |-> Amount({r \in rows : When(r[1]) = d})]
<1>1. /\ f.totalDistributed = Amount(rows) /\ f.contractBreakdown = contractBreakdown
      /\ f.topEarners = topEarners /\ f.monthlyTrend = monthlyTrend
  BY DEF gatherReportData
<1>2. rows \in SUBSET Payout  BY DEF ConfirmedPayout
<1> HIDE DEF f, rows
<1>3. \A r \in rows : ByDeal[r] \in Deal /\ ByPayee[r] \in Payee /\ ByWhen[r] \in ViewDay
  BY <1>2, PayoutType
<1>4. SumOf(contractBreakdown) = Amount(rows)
  <2>1. \A k : {r \in rows : entries[r[1]].deal = k} = ClassOf(rows, ByDeal, k)  BY <1>2 DEF ClassOf, ByDeal
  <2>2. DOMAIN contractBreakdown = Deal
        /\ \A k \in Deal : contractBreakdown[k] = Amount(ClassOf(rows, ByDeal, k))
    BY <2>1
  <2> HIDE DEF contractBreakdown
  <2> QED  BY <1>2, <1>3, <2>2, LedgerAssumption, AmountByClass
<1>5. SumOf(topEarners) = Amount(rows)
  <2>1. \A p : {r \in rows : r[2] = p} = ClassOf(rows, ByPayee, p)  BY <1>2 DEF ClassOf, ByPayee
  <2>2. DOMAIN topEarners = Payee /\ \A p \in Payee : topEarners[p] = Amount(ClassOf(rows, ByPayee, p))
    BY <2>1
  <2> HIDE DEF topEarners
  <2> QED  BY <1>2, <1>3, <2>2, LedgerAssumption, AmountByClass
<1>6. SumOf(monthlyTrend) = Amount(rows)
  <2>1. \A d : {r \in rows : When(r[1]) = d} = ClassOf(rows, ByWhen, d)  BY <1>2 DEF ClassOf, ByWhen
  <2>2. DOMAIN monthlyTrend = ViewDay /\ \A d \in ViewDay : monthlyTrend[d] = Amount(ClassOf(rows, ByWhen, d))
    BY <2>1
  <2> HIDE DEF monthlyTrend
  <2> QED  BY <1>2, <1>3, <2>2, ViewDayFinite, AmountByClass
<1> HIDE DEF contractBreakdown, topEarners, monthlyTrend
<1> QED  BY <1>1, <1>4, <1>5, <1>6 DEF ReportAddsUp, f

\* Whoever earned less has at least one more ahead of it: the one that earned more.
LEMMA RankFigures ==
    ASSUME EntriesOK
    PROVE  RanksFollowEarnings
<1> DEFINE E(p) == Earned(p, Deal, AllDays[1], AllDays[2])
           L == Listed(Deal, AllDays[1], AllDays[2])
           H(p) == AheadOf(p, Deal, AllDays[1], AllDays[2])
<1>1. \A p \in Payee : E(p) \in Nat
  <2> SUFFICES ASSUME NEW p \in Payee PROVE E(p) \in Nat  OBVIOUS
  <2> DEFINE rows == {r \in ConfirmedPayout : /\ r[2] = p /\ entries[r[1]].deal \in Deal
                                              /\ Timestamped(r[1], AllDays[1], AllDays[2])}
  <2>1. rows \in SUBSET Payout /\ E(p) = Amount(rows)  BY DEF ConfirmedPayout, Earned
  <2> HIDE DEF rows
  <2> QED  BY <2>1, AmountType
<1>2. \A p : H(p) = {q \in L : E(q) > E(p)}  BY DEF AheadOf, buildOrderClause
<1>3. L \subseteq Payee /\ IsFiniteSet(L)
  <2>1. L \subseteq Payee  BY DEF Listed
  <2> QED  BY <2>1, LedgerAssumption, FS_Subset
<1>4. \A x \in GlobalRanking : x.payee \in L /\ x.earned = E(x.payee) /\ x.rank = 1 + Cardinality(H(x.payee))
  BY RankRows DEF GlobalRanking
<1> HIDE DEF E, L, H
<1>5. \A p \in L : IsFiniteSet(H(p)) /\ Cardinality(H(p)) \in Nat  BY <1>2, <1>3, FS_Subset, FS_CardinalityType
<1>6. ASSUME NEW p \in L, NEW q \in L, E(p) > E(q) PROVE Cardinality(H(p)) < Cardinality(H(q))
  <2>1. H(p) \subseteq H(q)  BY <1>1, <1>2, <1>3, <1>6
  <2>2. p \in H(q) /\ p \notin H(p)  BY <1>1, <1>2, <1>3, <1>6
  <2>3. H(p) # H(q)  BY <2>2
  <2> QED  BY <1>5, <2>1, <2>3, FS_Subset
<1>7. ASSUME NEW p \in L, NEW q \in L, E(p) = E(q) PROVE H(p) = H(q)  BY <1>2, <1>7
<1>8. ASSUME NEW a \in GlobalRanking, NEW b \in GlobalRanking
      PROVE  (a.rank < b.rank) = (a.earned > b.earned)
  <2> DEFINE p == a.payee
             q == b.payee
  <2>1. /\ p \in L /\ a.earned = E(p) /\ a.rank = 1 + Cardinality(H(p))
        /\ q \in L /\ b.earned = E(q) /\ b.rank = 1 + Cardinality(H(q))
    BY <1>4
  <2> HIDE DEF p, q
  <2>2. E(p) \in Nat /\ E(q) \in Nat /\ Cardinality(H(p)) \in Nat /\ Cardinality(H(q)) \in Nat
    BY <1>1, <1>3, <1>5, <2>1
  <2>3. CASE E(p) > E(q)
    <3>1. Cardinality(H(p)) < Cardinality(H(q))  BY <1>6, <2>1, <2>3
    <3> QED  BY <2>1, <2>2, <2>3, <3>1
  <2>4. CASE E(q) > E(p)
    <3>1. Cardinality(H(q)) < Cardinality(H(p))  BY <1>6, <2>1, <2>4
    <3> QED  BY <2>1, <2>2, <2>4, <3>1
  <2>5. CASE E(p) = E(q)
    <3>1. Cardinality(H(p)) = Cardinality(H(q))  BY <1>7, <2>1, <2>5
    <3> QED  BY <2>1, <2>2, <2>5, <3>1
  <2> QED  BY <2>2, <2>3, <2>4, <2>5
<1> QED  BY <1>8 DEF RanksFollowEarnings

-----------------------------------------------------------------------------
\* The figures depend on the tables only.
LEMMA FiguresStay ==
    ASSUME entries' = entries
    PROVE  /\ EntriesOK => EntriesOK'
           /\ \A k : Compute(k)' = Compute(k)
           /\ GlobalRanking' = GlobalRanking
           /\ \A p : fetchRawStats(p)' = fetchRawStats(p)
<1>1. EntriesOK => EntriesOK'  BY DEF EntriesOK
<1>2. \A k : Compute(k)' = Compute(k)
  BY DEF Compute, getAnalyticsData, Amount, Payout, ConfirmedTx, Timestamped
<1>3. GlobalRanking' = GlobalRanking
  BY DEF GlobalRanking, Rank, Earned, buildOrderClause, ConfirmedPayout, Amount, Payout, ConfirmedTx, Timestamped
<1>4. \A p : fetchRawStats(p)' = fetchRawStats(p)
  BY DEF fetchRawStats, ConfirmedPayout, Amount, Payout, ConfirmedTx, When
<1> QED  BY <1>1, <1>2, <1>3, <1>4

(***************************************************************************)
(* The caches.  What a cache holds was computed on the day it is marked    *)
(* with, so an answer marked later than the last change is still right;    *)
(* an answer that is served is at most ViewTtl days old, and after ViewTtl *)
(* still days that is later than the change.                               *)
(***************************************************************************)

CacheDay == ViewDay \cup {NoDay}

CachesOK ==
    /\ viewDay \in ViewDay /\ changed \in ViewDay /\ changed <= viewDay
    /\ DOMAIN answers = Deal /\ DOMAIN contributor_metrics = Payee
    /\ \A k \in Deal : /\ answers[k].at \in CacheDay /\ answers[k].at <= viewDay
                       /\ answers[k].at > changed => answers[k].total = Compute(k)
    /\ ranks.at \in CacheDay /\ ranks.at <= viewDay
    /\ ranks.at > changed => ranks.table = GlobalRanking
    /\ \A p \in Payee : LET m == contributor_metrics[p]
                        IN  /\ m.at \in CacheDay /\ m.at <= viewDay /\ m.rate \in 0..100
                            /\ m.at > changed => m.earned = fetchRawStats(p).earned

FeesOK ==
    /\ DOMAIN transaction_fees = 1..MaxEntries
    /\ \A i \in 1..MaxEntries : \A f, g \in transaction_fees[i] : f[1] = g[1]

ViewInv == EntriesOK /\ CachesOK /\ FeesOK

LEMMA FiguresInit == RecordsInit => ViewInv
<1> SUFFICES ASSUME RecordsInit PROVE ViewInv  OBVIOUS
<1>1. ViewsInit  BY DEF RecordsInit
<1>2. EntriesOK
  <2>1. entries = <<>> /\ DOMAIN entries = {}  BY <1>1 DEF ViewsInit
  <2> QED  BY <2>1 DEF EntriesOK
<1>3. /\ 0 \in ViewDay /\ NoDay \in CacheDay /\ NoDay <= 0 /\ ~(NoDay > 0)
  BY LedgerAssumption DEF ViewDay, NoDay, CacheDay
<1>4. CachesOK  BY <1>1, <1>3 DEF ViewsInit, CachesOK
<1>5. FeesOK  BY <1>1 DEF ViewsInit, FeesOK
<1> QED  BY <1>2, <1>4, <1>5 DEF ViewInv

LEMMA RecordKeepsEntries ==
    ASSUME EntriesOK, viewDay \in ViewDay, NEW k \in Deal, NEW type \in {"initialize", "distribute"},
           recordTransaction(k, type)
    PROVE  EntriesOK'
<1> DEFINE e == [deal |-> k, type |-> type, status |-> "pending", day |-> viewDay,
                 block |-> NoDay, paid |-> [p \in Payee |-> 0]]
<1>1. e \in Entry  BY DEF Entry
<1>2. \A p \in Payee : e.paid[p] = 0  OBVIOUS
<1>3. entries' = Append(entries, e)  BY DEF recordTransaction
<1> HIDE DEF e
<1>4. entries \in Seq(Entry)  BY DEF EntriesOK
<1>5. /\ entries' \in Seq(Entry) /\ DOMAIN entries' = 1..(Len(entries) + 1)
      /\ \A i \in DOMAIN entries : entries'[i] = entries[i]
      /\ entries'[Len(entries) + 1] = e
  BY <1>1, <1>3, <1>4
<1>6. DOMAIN entries = 1..Len(entries) /\ Len(entries) \in Nat  BY <1>4
<1>7. ASSUME NEW i \in DOMAIN entries', entries'[i].type = "initialize", NEW p \in Payee
      PROVE  entries'[i].paid[p] = 0
  <2>1. CASE i \in DOMAIN entries  BY <1>5, <1>7, <2>1 DEF EntriesOK
  <2>2. CASE i = Len(entries) + 1  BY <1>2, <1>5, <2>2
  <2> QED  BY <1>5, <1>6, <1>7, <2>1, <2>2
<1> QED  BY <1>5, <1>7 DEF EntriesOK

LEMMA PayoutKeepsEntries ==
    ASSUME EntriesOK, NEW i \in DOMAIN entries, NEW p \in Payee, NEW amount \in 1..2,
           PayoutIsDue(i, p), addDistributionPayout(i, p, amount)
    PROVE  EntriesOK'
<1> DEFINE given == [entries[i].paid EXCEPT ![p] = amount]
           e == [entries[i] EXCEPT !.paid = given]
<1>1. entries \in Seq(Entry) /\ entries[i] \in Entry /\ entries[i].type = "distribute"
  BY DEF EntriesOK, PayoutIsDue
<1>2. given \in [Payee -> Nat]
  <2>1. entries[i].paid \in [Payee -> Nat] /\ amount \in Nat  BY <1>1 DEF Entry
  <2> QED  BY <2>1
<1>3. entries' = [entries EXCEPT ![i] = e]  BY DEF addDistributionPayout
<1> HIDE DEF given
<1>4. e \in Entry /\ e.type = "distribute"  BY <1>1, <1>2 DEF Entry
<1> HIDE DEF e
<1>5. /\ entries' \in Seq(Entry) /\ DOMAIN entries' = DOMAIN entries /\ entries'[i] = e
      /\ \A j \in DOMAIN entries : j # i => entries'[j] = entries[j]
  BY <1>1, <1>3, <1>4
<1>6. ASSUME NEW j \in DOMAIN entries', entries'[j].type = "initialize", NEW q \in Payee
      PROVE  entries'[j].paid[q] = 0
  <2>1. j # i  BY <1>5, <1>4, <1>6
  <2> QED  BY <1>5, <1>6, <2>1 DEF EntriesOK
<1> QED  BY <1>5, <1>6 DEF EntriesOK

LEMMA StatusKeepsEntries ==
    ASSUME EntriesOK, viewDay \in ViewDay, NEW i \in DOMAIN entries, NEW status \in {"confirmed", "failed"},
           updateTransactionStatus(i, status)
    PROVE  EntriesOK'
<1> DEFINE block == IF status = "confirmed" THEN viewDay ELSE NoDay
           e == [entries[i] EXCEPT !.status = status, !.block = block]
<1>1. entries \in Seq(Entry) /\ entries[i] \in Entry /\ block \in ViewDay \cup {NoDay}  BY DEF EntriesOK
<1>2. entries' = [entries EXCEPT ![i] = e]  BY DEF updateTransactionStatus
<1> HIDE DEF block
<1>3. e \in Entry /\ e.type = entries[i].type /\ e.paid = entries[i].paid  BY <1>1 DEF Entry
<1> HIDE DEF e
<1>4. /\ entries' \in Seq(Entry) /\ DOMAIN entries' = DOMAIN entries /\ entries'[i] = e
      /\ \A j \in DOMAIN entries : j # i => entries'[j] = entries[j]
  BY <1>1, <1>2, <1>3
<1>5. ASSUME NEW j \in DOMAIN entries', entries'[j].type = "initialize", NEW q \in Payee
      PROVE  entries'[j].paid[q] = 0
  <2>1. entries'[j].type = entries[j].type /\ entries'[j].paid = entries[j].paid  BY <1>3, <1>4, <1>5
  <2> QED  BY <1>4, <1>5, <2>1 DEF EntriesOK
<1> QED  BY <1>4, <1>5 DEF EntriesOK

\* A change of the tables is of today, and no answer is of a later day.
LEMMA ChangeKeepsFigures ==
    ASSUME ViewInv, EntriesOK', changed' = viewDay,
           UNCHANGED <<viewDay, answers, ranks, contributor_metrics, transaction_fees>>
    PROVE  ViewInv'
<1>1. CachesOK /\ FeesOK  BY DEF ViewInv
<1>2. /\ viewDay' = viewDay /\ changed' = viewDay /\ answers' = answers /\ ranks' = ranks
      /\ contributor_metrics' = contributor_metrics /\ transaction_fees' = transaction_fees
  OBVIOUS
<1>3. viewDay \in Int /\ \A d \in CacheDay : d \in Int
  BY <1>1, LedgerAssumption DEF CachesOK, ViewDay, NoDay, CacheDay
<1>4. \A k \in Deal : ~(answers[k].at > viewDay)  BY <1>1, <1>3 DEF CachesOK
<1>5. ~(ranks.at > viewDay)  BY <1>1, <1>3 DEF CachesOK
<1>6. \A p \in Payee : ~(contributor_metrics[p].at > viewDay)  BY <1>1, <1>3 DEF CachesOK
<1>7. CachesOK'
  BY <1>1, <1>2, <1>3, <1>4, <1>5, <1>6 DEF CachesOK
<1>8. FeesOK'  BY <1>1, <1>2 DEF FeesOK
<1> QED  BY <1>7, <1>8 DEF ViewInv

\* While the tables are still, an answer computed today is right.
LEMMA CachesKeepFigures ==
    ASSUME ViewInv, UNCHANGED <<viewDay, entries, changed>>,
           DOMAIN answers' = Deal,
           \A k \in Deal : answers'[k] = answers[k] \/ answers'[k] = [at |-> viewDay, total |-> Compute(k)],
           ranks' = ranks \/ ranks' = [at |-> viewDay, table |-> GlobalRanking],
           DOMAIN contributor_metrics' = Payee,
           \A p \in Payee : \/ contributor_metrics'[p] = contributor_metrics[p]
                            \/ contributor_metrics'[p] = Recomputed(p)
    PROVE  EntriesOK' /\ CachesOK'
<1>1. EntriesOK /\ CachesOK  BY DEF ViewInv
<1>2. /\ EntriesOK' /\ \A k : Compute(k)' = Compute(k)
      /\ GlobalRanking' = GlobalRanking /\ \A p : fetchRawStats(p)' = fetchRawStats(p)
  BY <1>1, FiguresStay
<1>3. viewDay' = viewDay /\ changed' = changed /\ viewDay \in CacheDay /\ viewDay \in Int
  BY <1>1, LedgerAssumption DEF CachesOK, CacheDay, ViewDay
<1>4. ASSUME NEW k \in Deal
      PROVE  /\ answers'[k].at \in CacheDay /\ answers'[k].at <= viewDay
             /\ answers'[k].at > changed => answers'[k].total = Compute(k)'
  <2>1. CASE answers'[k] = answers[k]  BY <1>1, <1>2, <2>1 DEF CachesOK
  <2>2. CASE answers'[k] = [at |-> viewDay, total |-> Compute(k)]
    <3>1. answers'[k].at = viewDay /\ answers'[k].total = Compute(k)  BY <2>2
    <3> QED  BY <1>2, <1>3, <3>1
  <2> QED  BY <2>1, <2>2
<1>5. /\ ranks'.at \in CacheDay /\ ranks'.at <= viewDay
      /\ ranks'.at > changed => ranks'.table = GlobalRanking'
  <2>1. CASE ranks' = ranks  BY <1>1, <1>2, <2>1 DEF CachesOK
  <2>2. CASE ranks' = [at |-> viewDay, table |-> GlobalRanking]
    <3>1. ranks'.at = viewDay /\ ranks'.table = GlobalRanking  BY <2>2
    <3> QED  BY <1>2, <1>3, <3>1
  <2> QED  BY <2>1, <2>2
<1>6. ASSUME NEW p \in Payee
      PROVE  LET m == contributor_metrics'[p]
             IN  /\ m.at \in CacheDay /\ m.at <= viewDay /\ m.rate \in 0..100
                 /\ m.at > changed => m.earned = fetchRawStats(p)'.earned
  <2>1. CASE contributor_metrics'[p] = contributor_metrics[p]  BY <1>1, <1>2, <2>1 DEF CachesOK
  <2>2. CASE contributor_metrics'[p] = Recomputed(p)
    <3>1. Recomputed(p).at = viewDay /\ Recomputed(p).rate = SuccessRate(fetchRawStats(p))
          /\ Recomputed(p).earned = fetchRawStats(p).earned
      BY DEF Recomputed
    <3>2. SuccessRate(fetchRawStats(p)) \in 0..100  BY <1>1, RawStats
    <3> QED  BY <1>2, <1>3, <2>2, <3>1, <3>2
  <2> QED  BY <2>1, <2>2
<1>7. CachesOK'  BY <1>1, <1>3, <1>4, <1>5, <1>6 DEF CachesOK
<1> QED  BY <1>2, <1>7

LEMMA DayKeepsFigures ==
    ASSUME ViewInv, NextViewDay
    PROVE  ViewInv'
<1>1. EntriesOK /\ CachesOK /\ FeesOK  BY DEF ViewInv
<1>2. /\ viewDay' = viewDay + 1 /\ viewDay < LastViewDay
      /\ entries' = entries /\ changed' = changed /\ answers' = answers /\ ranks' = ranks
      /\ contributor_metrics' = contributor_metrics /\ transaction_fees' = transaction_fees
  BY DEF NextViewDay
<1>3. /\ EntriesOK' /\ \A k : Compute(k)' = Compute(k)
      /\ GlobalRanking' = GlobalRanking /\ \A p : fetchRawStats(p)' = fetchRawStats(p)
  BY <1>1, <1>2, FiguresStay
<1>4. viewDay' \in ViewDay /\ \A d \in CacheDay : d <= viewDay => d <= viewDay'
  BY <1>1, <1>2, LedgerAssumption DEF CachesOK, CacheDay, ViewDay, NoDay
<1>5. ViewDay \subseteq CacheDay  BY DEF CacheDay
<1>6. CachesOK'  BY <1>1, <1>2, <1>3, <1>4, <1>5 DEF CachesOK
<1>7. FeesOK'  BY <1>1, <1>2 DEF FeesOK
<1> QED  BY <1>3, <1>6, <1>7 DEF ViewInv

\* A step that leaves the tables alone and fills a cache or none.
LEMMA QueryKeepsFigures ==
    ASSUME ViewInv, UNCHANGED <<viewDay, entries, changed, transaction_fees>>,
           \/ UNCHANGED <<answers, ranks, contributor_metrics>>
           \/ GetRanking \/ (\E k \in Deal : GetAnalytics(k) \/ PostRecompute(k))
           \/ \E p \in Payee : GetMetrics(p) \/ PostRefresh(p)
    PROVE  ViewInv'
<1>1. DOMAIN answers = Deal /\ DOMAIN contributor_metrics = Payee  BY DEF ViewInv, CachesOK
<1>2. /\ DOMAIN answers' = Deal
      /\ \A k \in Deal : answers'[k] = answers[k] \/ answers'[k] = [at |-> viewDay, total |-> Compute(k)]
  <2>1. CASE answers' = answers  BY <1>1, <2>1
  <2>2. CASE \E k \in Deal : GetAnalytics(k)
    <3>1. PICK k \in Deal : answers' = [answers EXCEPT ![k] = [at |-> viewDay, total |-> Compute(k)]]
      BY <2>2 DEF GetAnalytics
    <3> QED  BY <1>1, <3>1
  <2> QED  BY <2>1, <2>2 DEF GetRanking, GetAnalytics, PostRecompute, GetMetrics, PostRefresh
<1>3. ranks' = ranks \/ ranks' = [at |-> viewDay, table |-> GlobalRanking]
  BY DEF GetRanking, GetAnalytics, PostRecompute, GetMetrics, PostRefresh
<1>4. /\ DOMAIN contributor_metrics' = Payee
      /\ \A p \in Payee : \/ contributor_metrics'[p] = contributor_metrics[p]
                          \/ contributor_metrics'[p] = Recomputed(p)
  <2>1. CASE contributor_metrics' = contributor_metrics  BY <1>1, <2>1
  <2>2. CASE \E p \in Payee : recomputeMetrics(p)
    <3>1. PICK p \in Payee : contributor_metrics' = [contributor_metrics EXCEPT ![p] = Recomputed(p)]
      BY <2>2 DEF recomputeMetrics
    <3> QED  BY <1>1, <3>1
  <2>3. CASE \E k \in Deal : recomputeContractMetrics(k)
    <3>1. PICK k \in Deal : recomputeContractMetrics(k)  BY <2>3
    <3> DEFINE wallets == {p \in Payee : \E i \in DOMAIN entries :
                              /\ <<i, p>> \in Payout /\ entries[i].deal = k /\ entries[i].type = "distribute"}
    <3>2. contributor_metrics' = [p \in Payee |->
              IF p \in wallets THEN Recomputed(p) ELSE contributor_metrics[p]]
      BY <3>1 DEF recomputeContractMetrics
    <3> HIDE DEF wallets
    <3> QED  BY <3>2
  <2> QED
    BY <2>1, <2>2, <2>3
       DEF GetRanking, GetAnalytics, PostRecompute, GetMetrics, PostRefresh, getOrComputeMetrics
<1>5. EntriesOK' /\ CachesOK'  BY <1>2, <1>3, <1>4, CachesKeepFigures
<1>6. FeesOK'  BY DEF ViewInv, FeesOK
<1> QED  BY <1>5, <1>6 DEF ViewInv

LEMMA FeeKeepsFigures ==
    ASSUME ViewInv, PostFee
    PROVE  ViewInv'
<1>1. DOMAIN answers = Deal /\ DOMAIN contributor_metrics = Payee  BY DEF ViewInv, CachesOK
<1>2. EntriesOK' /\ CachesOK'  BY <1>1, CachesKeepFigures DEF PostFee
<1>3. PICK i \in 1..MaxEntries, k \in Deal : recordTransactionFee(i, k, 1)  BY DEF PostFee
<1> DEFINE old == transaction_fees[i]
           new == IF old = {} THEN {<<k, 1>>} ELSE {<<f[1], 1>> : f \in old}
<1>4. FeesOK  BY DEF ViewInv
<1>5. transaction_fees' = [transaction_fees EXCEPT ![i] = new]  BY <1>3 DEF recordTransactionFee
<1>6. \A f, g \in new : f[1] = g[1]
  <2>1. \A f, g \in old : f[1] = g[1]  BY <1>4 DEF FeesOK
  <2>2. CASE old = {}  BY <2>2
  <2>3. CASE old # {}
    <3>1. \A f \in new : \E h \in old : f = <<h[1], 1>>  BY <2>3
    <3>2. \A f \in new : \E h \in old : f[1] = h[1]  BY <3>1
    <3> HIDE DEF old, new
    <3> QED  BY <2>1, <3>2
  <2> QED  BY <2>2, <2>3
<1> HIDE DEF new
<1>7. FeesOK'  BY <1>4, <1>5, <1>6 DEF FeesOK
<1> QED  BY <1>2, <1>7 DEF ViewInv

LEMMA FiguresStep ==
    ASSUME ViewInv, [RecordsNext]_mcVars
    PROVE  ViewInv'
<1>0. EntriesOK /\ viewDay \in ViewDay  BY DEF ViewInv, CachesOK
<1>1. CASE UNCHANGED viewVars  BY <1>1, QueryKeepsFigures DEF viewVars
<1>2. CASE ChangeTables
  <2>1. EntriesOK'
    BY <1>0, <1>2, RecordKeepsEntries, PayoutKeepsEntries, StatusKeepsEntries DEF ChangeTables
  <2> QED  BY <1>2, <2>1, ChangeKeepsFigures DEF ChangeTables
<1>3. CASE NextViewDay  BY <1>3, DayKeepsFigures
<1>4. CASE \/ GetRanking \/ (\E k \in Deal : GetAnalytics(k) \/ PostRecompute(k))
           \/ \E p \in Payee : GetMetrics(p) \/ PostRefresh(p)
  <2>1. UNCHANGED <<viewDay, entries, changed, transaction_fees>>
    BY <1>4 DEF GetRanking, GetAnalytics, PostRecompute, GetMetrics, PostRefresh
  <2> QED  BY <1>4, <2>1, QueryKeepsFigures
<1>5. CASE FeesNext  BY <1>5, FeeKeepsFigures DEF FeesNext
<1>6. CASE SnapshotsNext
  <2>1. CASE \E k \in Deal : NewTransaction(k)
    <3>1. PICK k \in Deal : NewTransaction(k)  BY <2>1
    <3>2. EntriesOK'  BY <1>0, <3>1, RecordKeepsEntries DEF NewTransaction
    <3> QED  BY <3>1, <3>2, ChangeKeepsFigures DEF NewTransaction
  <2> QED
    BY <1>1, <1>3, <1>6, <2>1
       DEF SnapshotsNext, startSnapshotScheduler, executeSnapshotRun, SnapshotFails, PruneAfterRun,
           PostSnapshot, DeletePrune
<1>7. CASE ComplianceNext
  <2>1. UNCHANGED viewVars
    BY <1>7 DEF ComplianceNext, NextMonth, runComplianceReportScheduler, PostGenerate, FinishReport,
                ReportFails, MailReport, generateComplianceReport
  <2> QED  BY <1>1, <2>1
<1>8. CASE ViewsNext  BY <1>2, <1>3, <1>4, <1>8 DEF ViewsNext
<1> QED  BY <1>1, <1>5, <1>6, <1>7, <1>8, RecordsFrame

LEMMA ViewsHold == ViewInv => ViewsAgree
<1> SUFFICES ASSUME ViewInv PROVE ViewsAgree  OBVIOUS
<1>1. EntriesOK /\ FeesOK  BY DEF ViewInv
<1>2. \A k \in Deal : WindowsMeet(k) /\ \A w \in Window : ContractViewsAgree(k, w[1], w[2])
  BY <1>1, WindowFigures, ContractFigures
<1>3. \A p \in Payee :
         /\ EarningsAddUp(p) /\ ProfileIsConsistent(p)
         /\ \A of \in SUBSET Deal : \A w \in Window : HistoryIsTheExport(p, w[1], w[2], of)
  BY <1>1, EarningsFigures, ProfileFigures, HistoryFigures
<1> QED  BY <1>1, <1>2, <1>3, ReportFigures, RankFigures DEF ViewsAgree

LEMMA FeesHold == ViewInv => FeeHasOneContract
<1> SUFFICES ASSUME ViewInv, NEW k \in Deal, NEW i \in getFeesByContract(k), NEW j \in Deal \ {k},
                    i \in getFeesByContract(j)
             PROVE  FALSE
  BY DEF FeeHasOneContract
<1>1. i \in 1..MaxEntries /\ (\E f \in transaction_fees[i] : f[1] = k) /\ \E g \in transaction_fees[i] : g[1] = j
  BY DEF getFeesByContract, getTransactionFee
<1> QED  BY <1>1 DEF ViewInv, FeesOK

LEMMA CachesHold == ViewInv => StaleOnlyForAWhile
<1> SUFFICES ASSUME ViewInv, viewDay - changed >= ViewTtl
             PROVE  /\ \A k \in Deal : ServedAnalytics(k) = Compute(k)
                    /\ ServedRanking = GlobalRanking
                    /\ \A p \in Payee : ServedMetrics(p).earned = Recomputed(p).earned
                    /\ \A k \in Deal : \A p \in getContractLeaderboard(k) : ServedMetrics(p).rate <= 100
  BY DEF StaleOnlyForAWhile
<1>1. EntriesOK /\ CachesOK  BY DEF ViewInv
<1>2. ASSUME NEW at \in CacheDay, IsFresh(at) PROVE at > changed
  <2>1. viewDay \in Int /\ changed \in Int /\ at \in Int /\ ViewTtl \in Int
    BY <1>1, LedgerAssumption DEF CachesOK, CacheDay, ViewDay, NoDay
  <2>2. viewDay - at < ViewTtl  BY <1>2 DEF IsFresh
  <2> QED  BY <2>1, <2>2
<1>3. \A k \in Deal : ServedAnalytics(k) = Compute(k)
  BY <1>1, <1>2 DEF CachesOK, ServedAnalytics
<1>4. ServedRanking = GlobalRanking
  BY <1>1, <1>2 DEF CachesOK, ServedRanking
<1>5. ASSUME NEW p \in Payee
      PROVE  ServedMetrics(p).earned = Recomputed(p).earned /\ ServedMetrics(p).rate <= 100
  <2>1. /\ Recomputed(p).rate = SuccessRate(fetchRawStats(p))
        /\ Recomputed(p).earned = fetchRawStats(p).earned
    BY DEF Recomputed
  <2>2. SuccessRate(fetchRawStats(p)) \in 0..100  BY <1>1, RawStats
  <2>3. CASE IsFresh(contributor_metrics[p].at)
    <3>1. ServedMetrics(p) = contributor_metrics[p]  BY <2>3 DEF ServedMetrics, getCachedMetrics
    <3>2. contributor_metrics[p].at \in CacheDay /\ contributor_metrics[p].rate \in 0..100  BY <1>1 DEF CachesOK
    <3>3. contributor_metrics[p].earned = fetchRawStats(p).earned  BY <1>1, <1>2, <2>3, <3>2 DEF CachesOK
    <3> QED  BY <2>1, <3>1, <3>2, <3>3
  <2>4. CASE ~IsFresh(contributor_metrics[p].at)
    <3>1. ServedMetrics(p) = Recomputed(p)  BY <2>4 DEF ServedMetrics, getCachedMetrics
    <3> QED  BY <2>1, <2>2, <3>1
  <2> QED  BY <2>3, <2>4
<1>6. \A k \in Deal : \A p \in getContractLeaderboard(k) : ServedMetrics(p).rate <= 100
  BY <1>5 DEF getContractLeaderboard
<1> QED  BY <1>3, <1>4, <1>5, <1>6

\* Every pair of routes that compute one figure by different queries agrees in every
\* reachable state: totals are the sums of their days, collaborators, contracts and
\* statuses, windows that meet count a row once, an export is its history, a rank
\* follows the earnings, a score is a percentage, a fee has one contract; and once
\* the tables have been still for ViewTtl days every cache says what a fresh query
\* would (analytics.js, ranking.js, earnings-history.js, contributor-metrics.js).
THEOREM TheFiguresMatch == RecordsSpec => []FiguresMatch
<1>1. RecordsInit => ViewInv  BY FiguresInit
<1>2. ViewInv /\ [RecordsNext]_mcVars => ViewInv'  BY FiguresStep
<1>3. ViewInv => FiguresMatch  BY ViewsHold, CachesHold, FeesHold DEF FiguresMatch
<1> QED  BY <1>1, <1>2, <1>3, PTL DEF RecordsSpec

-----------------------------------------------------------------------------
(***************************************************************************)
(* Dispute tickets.  The last review of a ticket has a letter with the     *)
(* status it gave, on its way or sent; a letter stays when others are      *)
(* written, and whether there is an address for it never changes.          *)
(***************************************************************************)

Ticket == [wallet : Contributor, status : DisputeStatuses]

TicketsOK ==
    /\ tickets \in Seq(Ticket) /\ Len(tickets) <= MaxTickets
    /\ reviews \in Seq(Nat \X DisputeStatuses)
    /\ \A k \in DOMAIN reviews : reviews[k][1] \in DOMAIN tickets

RemarksOK ==
    /\ \E V : remarks \in Seq(V)
    /\ \A k \in DOMAIN remarks :
          remarks[k].author = "contributor" => remarks[k].status \in {"open", "under_review"}

IsLastReview(k) == \A j \in (k + 1)..Len(reviews) : reviews[j][1] # reviews[k][1]
NewsOf(k) == Letter(reviews[k][1], tickets[reviews[k][1]].status, k)

NewsIsOnItsWay ==
    \A k \in DOMAIN reviews :
        tickets[reviews[k][1]].wallet \in Subscribed /\ IsLastReview(k) => NewsOf(k) \in outgoing \cup mailed

DisputeInv == TicketsOK /\ RemarksOK /\ NewsIsOnItsWay

\* A page that starts at the first row and is long enough is the whole list, and so
\* are a page of one row and the page that follows it.
LEMMA PagesMakeTheList ==
    ASSUME NEW V, NEW s \in Seq(V), Len(s) <= MaxTickets
    PROVE  Page(s, MaxTickets, 0) = s /\ (s # << >> => Page(s, 1, 0) \o Page(s, MaxTickets, 1) = s)
<1>1. Len(s) \in Nat /\ MaxTickets \in Nat  BY TicketAssumption
<1>2. SubSeq(s, 1, Len(s)) = s  BY SubSeqFull
<1>3. Page(s, MaxTickets, 0) = SubSeq(s, 1, Len(s))
  <2>1. (IF 0 + MaxTickets < Len(s) THEN 0 + MaxTickets ELSE Len(s)) = Len(s) /\ 0 + 1 = 1  BY <1>1
  <2> QED  BY <2>1, Zenon DEF Page
<1>4. ASSUME s # << >> PROVE Page(s, 1, 0) \o Page(s, MaxTickets, 1) = s
  <2>1. Len(s) >= 1  BY <1>4
  <2>2. Page(s, 1, 0) = SubSeq(s, 1, 1)
    <3>1. (IF 0 + 1 < Len(s) THEN 0 + 1 ELSE Len(s)) = 1
      <4> DEFINE n == Len(s)
      <4>1. n \in Nat /\ n >= 1  BY <1>1, <2>1
      <4> HIDE DEF n
      <4>2. (IF 0 + 1 < n THEN 0 + 1 ELSE n) = 1  BY <4>1
      <4> QED  BY <4>2 DEF n
    <3>2. 0 + 1 = 1  OBVIOUS
    <3> QED  BY <3>1, <3>2, Zenon DEF Page
  <2>3. Page(s, MaxTickets, 1) = SubSeq(s, 1 + 1, Len(s))
    <3>1. (IF 1 + MaxTickets < Len(s) THEN 1 + MaxTickets ELSE Len(s)) = Len(s)  BY <1>1
    <3> QED  BY <3>1, Zenon DEF Page
  <2>4. 1 \in 1..(Len(s) + 1) /\ 1 \in (1 - 1)..Len(s) /\ Len(s) \in 1..Len(s)  BY <1>1, <2>1
  <2>5. SubSeq(s, 1, 1) \o SubSeq(s, 1 + 1, Len(s)) = SubSeq(s, 1, Len(s))
    BY <2>4, ConcatAdjacentSubSeq
  <2> QED  BY <1>2, <2>2, <2>3, <2>5
<1> QED  BY <1>2, <1>3, <1>4

\* The tickets that a condition picks: each is listed, and none twice.
LEMMA TicketsAreListed ==
    ASSUME TicketsOK, NEW P \in SUBSET DOMAIN tickets, NEW at, at = NewestFirst(P)
    PROVE  /\ at \in Seq(P) /\ Len(at) = Cardinality(P) /\ Len(at) <= MaxTickets
           /\ ToSet(at) = P
<1>1. Len(tickets) \in Nat /\ DOMAIN tickets = 1..Len(tickets) /\ Len(tickets) <= MaxTickets
  BY DEF TicketsOK
<1>2. IsFiniteSet(P) /\ Cardinality(P) <= Len(tickets) /\ P \in SUBSET Int
  <2>1. PICK n \in Nat : n = Len(tickets)  BY <1>1
  <2>2. IsFiniteSet(1..n) /\ Cardinality(1..n) = IF 1 > n THEN 0 ELSE n - 1 + 1  BY FS_Interval
  <2>3. P \in SUBSET (1..n)  BY <1>1, <2>1
  <2>4. IsFiniteSet(P) /\ Cardinality(P) <= Cardinality(1..n)  BY <2>2, <2>3, FS_Subset
  <2> QED  BY <2>1, <2>2, <2>3, <2>4
<1>3. at \in {OldestFirst(P), NewestFirst(P)}  OBVIOUS
<1>4. /\ Cardinality(P) \in Nat /\ DOMAIN at = 1..Cardinality(P)
      /\ at \in Seq(P) /\ Len(at) = Cardinality(P)
      /\ \A k \in DOMAIN at : at[k] \in P
      /\ \A x \in P : \E k \in DOMAIN at : at[k] = x
  BY <1>2, <1>3, PlacesAreListed
<1>5. MaxTickets \in Nat  BY TicketAssumption
<1>6. ToSet(at) = P  BY <1>4 DEF ToSet
<1>7. Len(at) <= MaxTickets  BY <1>1, <1>2, <1>4, <1>5
<1> QED  BY <1>4, <1>6, <1>7

LEMMA RemarksAreListed ==
    ASSUME RemarksOK, NEW i \in Nat
    PROVE  \A c \in ToSet(getDisputeComments(i)) : \E k \in DOMAIN remarks : c = remarks[k]
<1> DEFINE picked == {k \in DOMAIN remarks : remarks[k].ticket = i}
<1>1. PICK V : remarks \in Seq(V)  BY DEF RemarksOK
<1>2. ArePlaces(picked)
  <2>1. PICK n \in Nat : DOMAIN remarks = 1..n  BY <1>1
  <2>2. IsFiniteSet(1..n)  BY FS_Interval
  <2> QED  BY <2>1, <2>2, FS_Subset DEF ArePlaces
<1>3. getDisputeComments(i) = RowsIn(remarks, picked) /\ picked \subseteq DOMAIN remarks
  BY DEF getDisputeComments
<1> HIDE DEF picked
<1>4. \A k \in DOMAIN RowsIn(remarks, picked) : \E p \in picked : RowsIn(remarks, picked)[k] = remarks[p]
  BY <1>2, RowsOfPlaces
<1> QED  BY <1>3, <1>4 DEF ToSet

LEMMA DisputesHold == DisputeInv => ContributorKnowsStatus
<1> SUFFICES ASSUME DisputeInv PROVE ContributorKnowsStatus  OBVIOUS
<1> USE DEF DisputeInv
<1>1. ASSUME outgoing = {}, NEW k \in DOMAIN reviews,
             tickets[reviews[k][1]].wallet \in Subscribed,
             \A j \in (k + 1)..Len(reviews) : reviews[j][1] # reviews[k][1]
      PROVE  \E m \in mailed : m.ticket = reviews[k][1] /\ m.n = k /\ m.status = tickets[reviews[k][1]].status
  <2>1. NewsOf(k) \in mailed  BY <1>1 DEF NewsIsOnItsWay, IsLastReview
  <2>2. /\ NewsOf(k).ticket = reviews[k][1] /\ NewsOf(k).n = k
        /\ NewsOf(k).status = tickets[reviews[k][1]].status
    BY DEF NewsOf, Letter
  <2> QED  BY <2>1, <2>2
<1>2. ASSUME NEW i \in DOMAIN tickets
      PROVE  LET t == tickets[i]
                 mine == getDisputesByWallet(t.wallet, MaxTickets, 0)
                 alike == getAllDisputes(t.status, 1, 0) \o getAllDisputes(t.status, MaxTickets, 1)
             IN  /\ i \in ToSet(mine) /\ Len(mine) = countDisputesByWallet(t.wallet)
                 /\ i \in ToSet(alike) /\ Len(alike) = countAllDisputes(t.status)
                 /\ \A c \in ToSet(getDisputeComments(i)) :
                       c.author = "contributor" => c.status \in {"open", "under_review"}
  <2> DEFINE t == tickets[i]
             P == {j \in DOMAIN tickets : tickets[j].wallet = t.wallet}
             Q == {j \in DOMAIN tickets : tickets[j].status = t.status}
             inP == NewestFirst(P)
             inQ == NewestFirst(Q)
             mine == getDisputesByWallet(t.wallet, MaxTickets, 0)
             alike == getAllDisputes(t.status, 1, 0) \o getAllDisputes(t.status, MaxTickets, 1)
  <2>1. P \in SUBSET DOMAIN tickets /\ Q \in SUBSET DOMAIN tickets /\ i \in P /\ i \in Q  OBVIOUS
  <2>2. mine = Page(inP, MaxTickets, 0)  BY DEF getDisputesByWallet
  <2>3. alike = Page(inQ, 1, 0) \o Page(inQ, MaxTickets, 1)  BY DEF getAllDisputes
  <2>4. countDisputesByWallet(t.wallet) = Cardinality(P) /\ countAllDisputes(t.status) = Cardinality(Q)
    BY DEF countDisputesByWallet, countAllDisputes
  <2> HIDE DEF t, P, Q, mine, alike
  <2>5. /\ inP \in Seq(P) /\ Len(inP) = Cardinality(P) /\ Len(inP) <= MaxTickets /\ ToSet(inP) = P
        /\ inQ \in Seq(Q) /\ Len(inQ) = Cardinality(Q) /\ Len(inQ) <= MaxTickets /\ ToSet(inQ) = Q
    BY <2>1, TicketsAreListed
  <2> HIDE DEF inP, inQ
  <2>6. inQ # << >>  BY <2>1, <2>5 DEF ToSet
  <2>7. mine = inP /\ alike = inQ
    <3>1. Page(inP, MaxTickets, 0) = inP  BY <2>5, PagesMakeTheList
    <3>2. Page(inQ, 1, 0) \o Page(inQ, MaxTickets, 1) = inQ  BY <2>5, <2>6, PagesMakeTheList
    <3> QED  BY <2>2, <2>3, <3>1, <3>2
  <2>8. /\ i \in ToSet(mine) /\ Len(mine) = countDisputesByWallet(t.wallet)
        /\ i \in ToSet(alike) /\ Len(alike) = countAllDisputes(t.status)
    BY <2>1, <2>4, <2>5, <2>7
  <2>9. \A c \in ToSet(getDisputeComments(i)) : c.author = "contributor" => c.status \in {"open", "under_review"}
    BY RemarksAreListed DEF RemarksOK
  <2> QED  BY <2>8, <2>9 DEF t, mine, alike
<1> QED  BY <1>1, <1>2, Zenon DEF ContributorKnowsStatus

LEMMA DisputesStart == DisputesInit => DisputeInv
<1> SUFFICES ASSUME DisputesInit PROVE DisputeInv  OBVIOUS
<1>1. tickets = << >> /\ remarks = << >> /\ reviews = << >>  BY DEF DisputesInit
<1>2. tickets \in Seq(Ticket) /\ Len(tickets) = 0 /\ reviews \in Seq(Nat \X DisputeStatuses)  BY <1>1
<1>3. remarks \in Seq({})  BY <1>1
<1>4. DOMAIN reviews = {} /\ DOMAIN remarks = {}  BY <1>1
<1> QED  BY <1>2, <1>3, <1>4, TicketAssumption DEF DisputeInv, TicketsOK, RemarksOK, NewsIsOnItsWay

\* What is said of a ticket is said in the status it has.
LEMMA RemarkAdded ==
    ASSUME DisputeInv, NEW i \in DOMAIN tickets, NEW author, addDisputeComment(i, author),
           author = "contributor" => tickets[i].status \in {"open", "under_review"}
    PROVE  RemarksOK'
<1> DEFINE r == [ticket |-> i, author |-> author, status |-> tickets[i].status]
<1>1. PICK V : remarks \in Seq(V)  BY DEF DisputeInv, RemarksOK
<1>2. remarks' = Append(remarks, r)  BY DEF addDisputeComment
<1>3. r.author = author /\ r.status = tickets[i].status  OBVIOUS
<1> HIDE DEF r
<1>4. remarks \in Seq(V \cup {r})  BY <1>1
<1>5. /\ remarks' \in Seq(V \cup {r}) /\ Len(remarks') = Len(remarks) + 1
      /\ \A k \in 1..Len(remarks) : remarks'[k] = remarks[k]
      /\ remarks'[Len(remarks) + 1] = r
  BY <1>2, <1>4
<1>6. Len(remarks) \in Nat /\ DOMAIN remarks = 1..Len(remarks) /\ DOMAIN remarks' = 1..(Len(remarks) + 1)
  BY <1>4, <1>5
<1>7. ASSUME NEW k \in DOMAIN remarks', remarks'[k].author = "contributor"
      PROVE  remarks'[k].status \in {"open", "under_review"}
  <2>1. CASE k \in 1..Len(remarks)  BY <1>5, <1>6, <1>7, <2>1 DEF DisputeInv, RemarksOK
  <2>2. CASE k = Len(remarks) + 1  BY <1>3, <1>5, <1>7, <2>2
  <2> QED  BY <1>6, <2>1, <2>2
<1> QED  BY <1>5, <1>7 DEF RemarksOK

LEMMA DisputeStep == ASSUME DisputeInv, DisputesNext PROVE DisputeInv'
<1> USE DEF DisputeInv
<1>0. /\ Len(tickets) \in Nat /\ DOMAIN tickets = 1..Len(tickets)
      /\ Len(reviews) \in Nat /\ DOMAIN reviews = 1..Len(reviews)
      /\ \A k \in DOMAIN reviews : reviews[k][1] \in DOMAIN tickets
  BY DEF TicketsOK
<1>1. ASSUME NEW w \in Contributor, NEW email \in BOOLEAN, PostDispute(w, email) PROVE DisputeInv'
  <2> DEFINE t == [wallet |-> w, status |-> "open"]
  <2>1. /\ Len(tickets) < MaxTickets /\ tickets' = Append(tickets, t)
        /\ outgoing \subseteq outgoing' /\ UNCHANGED <<remarks, reviews, mailed>>
    BY <1>1 DEF PostDispute, createDispute
  <2>2. t \in Ticket  BY DEF Ticket, DisputeStatuses
  <2> HIDE DEF t
  <2>3. /\ tickets' \in Seq(Ticket) /\ Len(tickets') = Len(tickets) + 1
        /\ \A i \in DOMAIN tickets : i \in DOMAIN tickets' /\ tickets'[i] = tickets[i]
    BY <1>0, <2>1, <2>2 DEF TicketsOK
  <2>4. TicketsOK'  BY <1>0, <2>1, <2>3, TicketAssumption DEF TicketsOK
  <2>5. RemarksOK'  BY <2>1 DEF RemarksOK
  <2>6. NewsIsOnItsWay'
    BY <1>0, <2>1, <2>3 DEF NewsIsOnItsWay, NewsOf, IsLastReview
  <2> QED  BY <2>4, <2>5, <2>6
<1>2. ASSUME NEW i \in DOMAIN tickets, NEW status \in DisputeStatuses, PatchStatus(i, status) PROVE DisputeInv'
  <2> DEFINE n == Len(reviews)
             r == <<i, status>>
             row == [tickets[i] EXCEPT !.status = status]
  <2>1. /\ tickets' = [tickets EXCEPT ![i] = row] /\ reviews' = Append(reviews, r)
        /\ outgoing' = outgoing \cup {Letter(i, status, Len(reviews'))}
        /\ UNCHANGED <<remarks, mailed>>
    BY <1>2 DEF PatchStatus, updateDisputeStatus
  <2>2. row \in Ticket /\ row.status = status /\ row.wallet = tickets[i].wallet
    <3>1. tickets[i] \in Ticket  BY <1>0 DEF TicketsOK
    <3> QED  BY <3>1 DEF Ticket
  <2>3. r \in Nat \X DisputeStatuses /\ r[1] = i  BY <1>0
  <2> HIDE DEF r, row
  <2>4. /\ tickets' \in Seq(Ticket) /\ Len(tickets') = Len(tickets) /\ DOMAIN tickets' = DOMAIN tickets
        /\ tickets'[i] = row /\ \A j \in DOMAIN tickets : j # i => tickets'[j] = tickets[j]
    BY <1>0, <2>1, <2>2 DEF TicketsOK
  <2>5. /\ reviews' \in Seq(Nat \X DisputeStatuses) /\ Len(reviews') = n + 1
        /\ reviews'[n + 1] = r /\ \A k \in 1..n : reviews'[k] = reviews[k]
    BY <1>0, <2>1, <2>3 DEF TicketsOK
  <2>6. DOMAIN reviews' = 1..(n + 1)  BY <1>0, <2>5
  <2>7. TicketsOK'
    <3>1. ASSUME NEW k \in DOMAIN reviews' PROVE reviews'[k][1] \in DOMAIN tickets'
      <4>1. CASE k = n + 1  BY <2>3, <2>4, <2>5, <4>1
      <4>2. CASE k \in 1..n  BY <1>0, <2>4, <2>5, <4>2
      <4> QED  BY <1>0, <2>6, <4>1, <4>2
    <3> QED  BY <2>4, <2>5, <3>1 DEF TicketsOK
  <2>8. RemarksOK'  BY <2>1 DEF RemarksOK
  <2>9. ASSUME NEW k \in DOMAIN reviews', tickets'[reviews'[k][1]].wallet \in Subscribed, IsLastReview(k)'
        PROVE  NewsOf(k)' \in (outgoing \cup mailed)'
    <3>1. CASE k = n + 1
      <4>1. reviews'[k][1] = i /\ Len(reviews') = k  BY <2>3, <2>5, <3>1
      <4>2. tickets'[i].status = status  BY <2>2, <2>4
      <4>3. NewsOf(k)' = Letter(i, status, Len(reviews'))  BY <4>1, <4>2 DEF NewsOf
      <4> QED  BY <2>1, <4>3
    <3>2. CASE k \in 1..n
      <4>1. \A j \in (k + 1)..(n + 1) : reviews'[j][1] # reviews'[k][1]  BY <2>5, <2>9 DEF IsLastReview
      <4>2. n + 1 \in (k + 1)..(n + 1)  BY <1>0, <3>2
      <4>3. reviews'[k][1] # i  BY <2>3, <2>5, <4>1, <4>2
      <4>4. reviews'[k] = reviews[k] /\ reviews[k][1] \in DOMAIN tickets  BY <1>0, <2>5, <3>2
      <4>5. tickets'[reviews[k][1]] = tickets[reviews[k][1]]  BY <2>4, <4>3, <4>4
      <4>6. IsLastReview(k)
        <5>1. \A j \in (k + 1)..n : j \in (k + 1)..(n + 1) /\ reviews'[j] = reviews[j]  BY <1>0, <2>5, <3>2
        <5> QED  BY <4>1, <4>4, <5>1 DEF IsLastReview
      <4>7. NewsOf(k) \in outgoing \cup mailed  BY <1>0, <2>9, <3>2, <4>4, <4>5, <4>6 DEF NewsIsOnItsWay
      <4>8. NewsOf(k)' = NewsOf(k)  BY <4>4, <4>5 DEF NewsOf
      <4> QED  BY <2>1, <4>7, <4>8
    <3> QED  BY <1>0, <2>6, <3>1, <3>2
  <2>10. NewsIsOnItsWay'
    BY <2>9, Zenon DEF NewsIsOnItsWay
  <2> QED  BY <2>7, <2>8, <2>10
<1>3. ASSUME UNCHANGED <<tickets, reviews>>, outgoing \cup mailed \subseteq outgoing' \cup mailed', RemarksOK'
      PROVE  DisputeInv'
  <2>1. TicketsOK'  BY <1>3 DEF TicketsOK
  <2>2. NewsIsOnItsWay'  BY <1>3 DEF NewsIsOnItsWay, NewsOf, IsLastReview
  <2> QED  BY <1>3, <2>1, <2>2
<1>4. ASSUME NEW i \in DOMAIN tickets, PostAdminComment(i) PROVE DisputeInv'
  <2>1. /\ addDisputeComment(i, "admin") /\ UNCHANGED <<tickets, reviews, mailed>>
        /\ outgoing \subseteq outgoing'
    BY <1>4 DEF PostAdminComment
  <2>2. RemarksOK'  BY <2>1, RemarkAdded
  <2> QED  BY <1>3, <2>1, <2>2
<1>5. ASSUME NEW i \in DOMAIN tickets, NEW w, PostComment(i, w) PROVE DisputeInv'
  <2>1. /\ addDisputeComment(i, "contributor") /\ UNCHANGED <<tickets, reviews, outgoing, mailed>>
        /\ tickets[i].status \notin {"closed", "resolved"}
    BY <1>5 DEF PostComment
  <2>2. tickets[i].status \in {"open", "under_review"}
    <3>1. tickets[i] \in Ticket  BY <1>0 DEF TicketsOK
    <3> QED  BY <2>1, <3>1 DEF Ticket, DisputeStatuses
  <2>3. RemarksOK'  BY <2>1, <2>2, RemarkAdded
  <2> QED  BY <1>3, <2>1, <2>3
<1>6. ASSUME NEW m \in outgoing, notifyContributor(m) PROVE DisputeInv'
  <2>1. /\ outgoing' = outgoing \ {m} /\ UNCHANGED <<tickets, remarks, reviews>>
        /\ mailed \subseteq mailed' /\ (resolveContributorEmail(m) => m \in mailed')
    BY <1>6 DEF notifyContributor
  <2>2. TicketsOK' /\ RemarksOK'  BY <2>1 DEF TicketsOK, RemarksOK
  <2>3. ASSUME NEW k \in DOMAIN reviews, tickets[reviews[k][1]].wallet \in Subscribed, IsLastReview(k)
        PROVE  NewsOf(k) \in outgoing' \cup mailed'
    <3>1. NewsOf(k) \in outgoing \cup mailed  BY <2>3 DEF NewsIsOnItsWay
    <3>2. CASE NewsOf(k) = m
      <4>1. m.ticket = reviews[k][1]  BY <3>2 DEF NewsOf, Letter
      <4>2. resolveContributorEmail(m)  BY <2>3, <4>1 DEF resolveContributorEmail
      <4> QED  BY <2>1, <3>2, <4>2
    <3> QED  BY <2>1, <3>1, <3>2
  <2>4. NewsIsOnItsWay'  BY <2>1, <2>3 DEF NewsIsOnItsWay, NewsOf, IsLastReview
  <2> QED  BY <2>2, <2>4
<1> QED  BY <1>1, <1>2, <1>4, <1>5, <1>6, Zenon DEF DisputesNext

-----------------------------------------------------------------------------
(***************************************************************************)
(* Contributors' files.  Events are only added, so a row that a callback   *)
(* wrote agrees with the wallet's last event until another callback or an  *)
(* admin writes it; a callback about an address that the row's pattern     *)
(* does not match cannot come in between, as it is about another wallet.   *)
(***************************************************************************)

KycOutcome == {"approved", "declined", "expired", "resubmission_requested", "abandoned"}
KycEvent == [wallet : Account, outcome : KycOutcome]

IsLastEvent(w, m) ==
    /\ m \in DOMAIN kycEvents /\ kycEvents[m].wallet = w
    /\ \A k \in DOMAIN kycEvents : kycEvents[k].wallet = w => k <= m

SaysWhatItsLastEventSays(w) ==
    \E m \in DOMAIN kycEvents :
        LET s == outcomeToVerificationState(kycEvents[m].outcome)
        IN  /\ IsLastEvent(w, m)
            /\ verification[w].step = s.step /\ verification[w].status = s.status

VerificationOK ==
    /\ kycEvents \in Seq(KycEvent) /\ DOMAIN verification = Account
    /\ \A w \in Account : verification[w].by = "kyc" => w \in Short /\ SaysWhatItsLastEventSays(w)

StampsOK ==
    /\ DOMAIN standing = Full
    /\ \A w \in Full : /\ standing[w].status = "suspended" => standing[w].suspended
                       /\ standing[w].status = "deactivated" => standing[w].deactivated

SplitsOK == \A t \in splits : \A i \in DOMAIN t.of : t.of[i].percentage <= 10000

FileInv == VerificationOK /\ StampsOK /\ SplitsOK

LEMMA OutcomesAreKnown ==
    /\ \A status \in DOMAIN VERIFF_STATUS_MAP : normaliseKycPayload("veriff", status) \in KycOutcome
    /\ \A status \in DOMAIN JUMIO_STATUS_MAP : normaliseKycPayload("jumio", status) \in KycOutcome
<1>1. \A status \in DOMAIN VERIFF_STATUS_MAP : VERIFF_STATUS_MAP[status] \in KycOutcome
  BY DEF VERIFF_STATUS_MAP, KycOutcome
<1>2. \A status \in DOMAIN JUMIO_STATUS_MAP : JUMIO_STATUS_MAP[status] \in KycOutcome
  BY DEF JUMIO_STATUS_MAP, KycOutcome
<1> QED  BY <1>1, <1>2 DEF normaliseKycPayload, parseVeriff, parseJumio

\* A callback: its event is the last one, and the row it may write is of its wallet.
LEMMA EventReceived ==
    ASSUME VerificationOK, NEW w \in Account, NEW outcome \in KycOutcome, Receive(w, outcome)
    PROVE  VerificationOK'
<1> DEFINE e == [wallet |-> w, outcome |-> outcome]
           s == outcomeToVerificationState(outcome)
           row == [step |-> s.step, status |-> s.status, by |-> "kyc"]
<1>1. PICK n \in Nat : n = Len(kycEvents) /\ DOMAIN kycEvents = 1..n  BY DEF VerificationOK
<1>2. kycEvents' = Append(kycEvents, e)  BY DEF Receive, recordKycEvent
<1>3. /\ w \in Short => verification' = [verification EXCEPT ![w] = row]
      /\ w \notin Short => verification' = verification
  BY DEF Receive, upsertVerification
<1>4. e \in KycEvent /\ e.wallet = w /\ e.outcome = outcome  BY DEF KycEvent
<1>5. row.step = s.step /\ row.status = s.status  OBVIOUS
<1> HIDE DEF e, row
<1>6. /\ kycEvents' \in Seq(KycEvent) /\ Len(kycEvents') = n + 1
      /\ \A k \in 1..n : kycEvents'[k] = kycEvents[k]
      /\ kycEvents'[n + 1] = e
  BY <1>1, <1>2, <1>4 DEF VerificationOK
<1>7. DOMAIN kycEvents' = 1..(n + 1)  BY <1>1, <1>6
<1>8. DOMAIN verification' = Account /\ \A v \in Account : v # w => verification'[v] = verification[v]
  BY <1>3 DEF VerificationOK
<1>9. ASSUME NEW v \in Account, verification'[v].by = "kyc"
      PROVE  v \in Short /\ SaysWhatItsLastEventSays(v)'
  <2>1. CASE v = w /\ w \in Short
    <3>1. verification'[w] = row  BY <1>3, <2>1 DEF VerificationOK
    <3>2. IsLastEvent(w, n + 1)'
      <4>1. \A k \in DOMAIN kycEvents' : k <= n + 1  BY <1>1, <1>7
      <4> QED  BY <1>1, <1>4, <1>6, <1>7, <4>1 DEF IsLastEvent
    <3>3. n + 1 \in DOMAIN kycEvents' /\ kycEvents'[n + 1].outcome = outcome  BY <1>1, <1>4, <1>6, <1>7
    <3> QED  BY <1>5, <2>1, <3>1, <3>2, <3>3 DEF SaysWhatItsLastEventSays
  <2>2. CASE v = w /\ w \notin Short
    BY <1>3, <1>9, <2>2 DEF VerificationOK
  <2>3. CASE v # w
    <3>1. verification'[v] = verification[v] /\ v \in Short  BY <1>8, <1>9, <2>3 DEF VerificationOK
    <3>2. PICK m \in DOMAIN kycEvents :
             /\ IsLastEvent(v, m)
             /\ verification[v].step = outcomeToVerificationState(kycEvents[m].outcome).step
             /\ verification[v].status = outcomeToVerificationState(kycEvents[m].outcome).status
      BY <1>8, <1>9, <2>3 DEF VerificationOK, SaysWhatItsLastEventSays
    <3>3. m \in DOMAIN kycEvents' /\ kycEvents'[m] = kycEvents[m]  BY <1>1, <1>6, <1>7
    <3>4. IsLastEvent(v, m)'
      <4>1. ASSUME NEW k \in DOMAIN kycEvents', kycEvents'[k].wallet = v PROVE k <= m
        <5>1. k # n + 1  BY <1>4, <1>6, <2>3, <4>1
        <5>2. k \in 1..n  BY <1>1, <1>7, <5>1
        <5> QED  BY <1>1, <1>6, <3>2, <4>1, <5>2 DEF IsLastEvent
      <4> QED  BY <3>2, <3>3, <4>1 DEF IsLastEvent
    <3> QED  BY <3>1, <3>2, <3>3, <3>4 DEF SaysWhatItsLastEventSays
  <2> QED  BY <2>1, <2>2, <2>3
<1> QED  BY <1>6, <1>8, <1>9 DEF VerificationOK

\* An admin's row is not a callback's.
LEMMA RowWritten ==
    ASSUME VerificationOK, NEW w \in Account, NEW state, NEW by, by # "kyc",
           upsertVerification(w, state, by), kycEvents' = kycEvents
    PROVE  VerificationOK'
<1> DEFINE row == [step |-> state.step, status |-> state.status, by |-> by]
<1>1. verification' = [verification EXCEPT ![w] = row]  BY DEF upsertVerification
<1>2. row.by # "kyc"  OBVIOUS
<1> HIDE DEF row
<1>3. /\ DOMAIN verification' = Account /\ verification'[w] = row
      /\ \A v \in Account : v # w => verification'[v] = verification[v]
  BY <1>1 DEF VerificationOK
<1>4. ASSUME NEW v \in Account, verification'[v].by = "kyc"
      PROVE  v \in Short /\ SaysWhatItsLastEventSays(v)'
  <2>1. v # w /\ verification'[v] = verification[v]  BY <1>2, <1>3, <1>4
  <2> QED  BY <1>4, <2>1 DEF VerificationOK, SaysWhatItsLastEventSays, IsLastEvent
<1> QED  BY <1>3, <1>4 DEF VerificationOK

LEMMA FilesStart == ContributorsInit => FileInv
<1> SUFFICES ASSUME ContributorsInit PROVE FileInv  OBVIOUS
<1>1. VerificationOK
  <2>1. kycEvents = << >> /\ verification = [w \in Account |-> None]  BY DEF ContributorsInit
  <2>2. None.by # "kyc"  BY DEF None
  <2> HIDE DEF None
  <2> QED  BY <2>1, <2>2 DEF VerificationOK
<1>2. StampsOK
  <2>1. standing = [w \in Full |-> [status |-> "none", suspended |-> FALSE, deactivated |-> FALSE]]
    BY DEF ContributorsInit
  <2> QED  BY <2>1 DEF StampsOK
<1>3. SplitsOK  BY DEF ContributorsInit, SplitsOK
<1> QED  BY <1>1, <1>2, <1>3 DEF FileInv

LEMMA FileStep ==
    ASSUME FileInv, KycNext \/ StandingNext \/ OnboardingNext
    PROVE  FileInv'
<1> USE DEF FileInv
<1>1. CASE KycNext
  <2>1. UNCHANGED <<standing, splits>>
    BY <1>1 DEF KycNext, PostKycWebhook, PostStart, PostAdvance, Others
  <2>2. StampsOK' /\ SplitsOK'  BY <2>1 DEF StampsOK, SplitsOK
  <2>3. CASE PostKycWebhook
    <3>1. PICK w \in Account, outcome \in KycOutcome : Receive(w, outcome)
      BY <2>3, OutcomesAreKnown DEF PostKycWebhook
    <3> QED  BY <2>2, <3>1, EventReceived
  <2>4. CASE PostStart
    <3>1. PICK w \in Full : upsertVerification(w, [step |-> "email", status |-> "pending"], "start")
      BY <2>4 DEF PostStart
    <3>2. kycEvents' = kycEvents /\ w \in Account  BY <2>4 DEF PostStart, Account
    <3> QED  BY <2>2, <3>1, <3>2, RowWritten
  <2>5. CASE PostAdvance
    <3>1. PICK w \in Full, step \in VERIFICATION_STEPS, status \in VERIFICATION_STATUSES :
             upsertVerification(w, [step |-> step, status |-> status], "advance")
      BY <2>5 DEF PostAdvance
    <3>2. kycEvents' = kycEvents /\ w \in Account  BY <2>5 DEF PostAdvance, Account
    <3> QED  BY <2>2, <3>1, <3>2, RowWritten
  <2> QED  BY <1>1, <2>3, <2>4, <2>5 DEF KycNext
<1>2. CASE StandingNext
  <2>1. PICK w \in Full : PostStatus(w) \/ PostTax(w) \/ PostUpload(w) \/ PutTier(w) \/ DeleteTier(w) \/ PostPayment(w)
    BY <1>2 DEF StandingNext
  <2>2. UNCHANGED <<kycEvents, verification, splits>>
    BY <2>1 DEF PostStatus, PostTax, PostUpload, PutTier, DeleteTier, PostPayment
  <2>3. VerificationOK'  BY <2>2 DEF VerificationOK, SaysWhatItsLastEventSays, IsLastEvent
  <2>4. SplitsOK'  BY <2>2 DEF SplitsOK
  <2>5. StampsOK'
    <3>1. CASE UNCHANGED standing  BY <3>1 DEF StampsOK
    <3>2. CASE PostStatus(w)
      <4>1. PICK status : setContributorStatus(w, status)  BY <3>2 DEF PostStatus
      <4> DEFINE row == [status |-> status,
                         suspended |-> standing[w].suspended \/ status = "suspended",
                         deactivated |-> standing[w].deactivated \/ status = "deactivated"]
      <4>2. standing' = [standing EXCEPT ![w] = row]  BY <4>1 DEF setContributorStatus
      <4>3. /\ row.status = "suspended" => row.suspended
            /\ row.status = "deactivated" => row.deactivated
        OBVIOUS
      <4> HIDE DEF row
      <4>4. /\ DOMAIN standing' = Full /\ standing'[w] = row
            /\ \A v \in Full : v # w => standing'[v] = standing[v]
        BY <4>2 DEF StampsOK
      <4> QED  BY <4>3, <4>4 DEF StampsOK
    <3> QED  BY <2>1, <3>1, <3>2 DEF PostTax, PostUpload, PutTier, DeleteTier, PostPayment
  <2> QED  BY <2>3, <2>4, <2>5
<1>3. CASE OnboardingNext
  <2>1. PICK w \in Full : PatchOnboarding(w) \/ PayoutRecorded(w) \/ PostTemplate(w) \/ DeleteTemplate(w)
    BY <1>3 DEF OnboardingNext
  <2>2. UNCHANGED <<kycEvents, verification, standing>>
    BY <2>1 DEF PatchOnboarding, PayoutRecorded, PostTemplate, DeleteTemplate
  <2>3. VerificationOK'  BY <2>2 DEF VerificationOK, SaysWhatItsLastEventSays, IsLastEvent
  <2>4. StampsOK'  BY <2>2 DEF StampsOK
  <2>5. SplitsOK'
    <3>1. CASE splits' \subseteq splits  BY <3>1 DEF SplitsOK
    <3>2. CASE PostTemplate(w)
      <4>1. ASSUME NEW x, NEW y, NEW p \in {3333, 5000, 6667}, NEW q \in {3333, 5000, 6667}
            PROVE  LET a == <<[address |-> x, percentage |-> p], [address |-> y, percentage |-> q]>>
                   IN  \A i \in DOMAIN a : a[i].percentage <= 10000
        OBVIOUS
      <4>2. \E a : createTemplate(w, a) /\ \A i \in DOMAIN a : a[i].percentage <= 10000
        BY <3>2, <4>1 DEF PostTemplate
      <4> QED  BY <4>2 DEF createTemplate, SplitsOK
    <3>3. CASE DeleteTemplate(w)  BY <3>1, <3>3 DEF DeleteTemplate, deleteTemplate
    <3> QED  BY <2>1, <3>1, <3>2, <3>3 DEF PatchOnboarding, PayoutRecorded
  <2> QED  BY <2>3, <2>4, <2>5
<1> QED  BY <1>1, <1>2, <1>3

\* The last of a wallet's events, in the list of them.
LEMMA LastEventIsListed ==
    ASSUME VerificationOK, NEW w, NEW m, IsLastEvent(w, m)
    PROVE  Last(getKycEventsByWallet(w)) = kycEvents[m]
<1> DEFINE picked == {k \in DOMAIN kycEvents : kycEvents[k].wallet = w}
           rows == RowsIn(kycEvents, picked)
<1>1. picked \in SUBSET Int /\ IsFiniteSet(picked)
  <2>1. PICK n \in Nat : DOMAIN kycEvents = 1..n  BY DEF VerificationOK
  <2>2. IsFiniteSet(1..n)  BY FS_Interval
  <2> QED  BY <2>1, <2>2, FS_Subset
<1>2. m \in picked /\ \A p \in picked : p <= m  BY DEF IsLastEvent
<1>3. getKycEventsByWallet(w) = rows  BY DEF getKycEventsByWallet
<1> HIDE DEF picked
<1>4. Len(rows) = Cardinality(picked) /\ rows[Cardinality(picked)] = kycEvents[m]
  BY <1>1, <1>2, LastRow
<1> HIDE DEF rows
<1> QED  BY <1>3, <1>4 DEF Last

\* The step shown next is the first that is open.
LEMMA ChecklistIsInOrder ==
    ASSUME NEW w
    PROVE  LET sum == calculateOnboardingSummary(w)
           IN  /\ sum.locked = (sum.next \in 1..4)
               /\ (sum.percent = 100) = (sum.next = 0)
<1> DEFINE r == getContributorOnboarding(w)
           items == <<TRUE, r.kyc = "verified", r.pay, r.tax, r.first>>
           open == {i \in 1..5 : ~items[i]}
           sum == calculateOnboardingSummary(w)
           next == IF open = {} THEN 0 ELSE Min(open)
<1>1. /\ sum.percent = 20 * (5 - Cardinality(open)) /\ sum.locked = (open \cap 1..4 # {})
      /\ sum.next = next
  BY DEF calculateOnboardingSummary
<1>2. open \subseteq 1..5  OBVIOUS
<1> HIDE DEF open, sum
<1>3. IsFiniteSet(open) /\ Cardinality(open) \in Nat /\ (Cardinality(open) = 0 <=> open = {})
  <2>1. IsFiniteSet(1..5)
    <3>1. PICK n \in Nat : n = 5  OBVIOUS
    <3>2. IsFiniteSet(1..n)  BY FS_Interval
    <3> QED  BY <3>1, <3>2
  <2>2. IsFiniteSet(open)  BY <1>2, <2>1, FS_Subset
  <2> QED  BY <2>2, FS_CardinalityType, FS_EmptySet
<1>4. ASSUME open # {} PROVE next \in open /\ \A i \in open : next <= i
  <2>1. open \in SUBSET Nat  BY <1>2
  <2>2. \E m \in open : \A i \in open : m <= i  BY <1>4, <2>1, LeastNumber
  <2> QED  BY <1>4, <2>2 DEF Min
<1>5. open = {} => next = 0  OBVIOUS
<1> HIDE DEF next
<1>6. (open \cap 1..4 # {}) <=> next \in 1..4
  <2>1. CASE open = {}  BY <1>5, <2>1
  <2>2. CASE open # {}
    <3>1. next \in open /\ \A i \in open : next <= i  BY <1>4, <2>2
    <3>2. ASSUME NEW i \in open, i \in 1..4 PROVE next \in 1..4  BY <1>2, <3>1, <3>2
    <3> QED  BY <3>1, <3>2
  <2> QED  BY <2>1, <2>2
<1>7. 20 * (5 - Cardinality(open)) = 100 <=> next = 0
  <2>1. next = 0 <=> open = {}  BY <1>2, <1>4, <1>5
  <2> DEFINE n == Cardinality(open)
  <2>2. n \in Nat /\ (n = 0 <=> open = {})  BY <1>3
  <2> HIDE DEF n
  <2>3. 20 * (5 - n) = 100 <=> n = 0  BY <2>2
  <2> QED  BY <2>1, <2>2, <2>3 DEF n
<1>8. sum.locked = (sum.next \in 1..4)  BY <1>1, <1>6
<1>9. (sum.percent = 100) = (sum.next = 0)  BY <1>1, <1>7
<1> QED  BY <1>8, <1>9 DEF sum

LEMMA TaxReportIsWhole ==
    /\ GetCompliance("compliant") + GetCompliance("non_compliant") = Cardinality(DOMAIN getTaxComplianceReport)
    /\ \A w \in getContributorsMissingTaxInfo : getTaxComplianceReport[w] = "non_compliant"
<1> DEFINE D == {x \in Full : papers[x].status # "none"}
           report == getTaxComplianceReport
           good == {w \in D : report[w] = "compliant"}
           bad == {w \in D : report[w] = "non_compliant"}
<1>1. /\ DOMAIN report = D
      /\ \A w \in D : report[w] = IF papers[w].status = "completed" THEN "compliant" ELSE "non_compliant"
  BY DEF getTaxComplianceReport
<1>2. \A w \in getContributorsMissingTaxInfo : w \in D /\ report[w] = "non_compliant"
  BY <1>1 DEF getContributorsMissingTaxInfo
<1>3. GetCompliance("compliant") = Cardinality(good) /\ GetCompliance("non_compliant") = Cardinality(bad)
  BY <1>1 DEF GetCompliance
<1>4. good \cup bad = D /\ good \cap bad = {}  BY <1>1
<1>5. D \subseteq Full  OBVIOUS
<1>6. good \subseteq D /\ bad \subseteq D  OBVIOUS
<1> HIDE DEF D, report, good, bad
<1>7. IsFiniteSet(good) /\ IsFiniteSet(bad)
  <2>1. IsFiniteSet(D)  BY <1>5, FilesAssumption, FS_Subset
  <2> QED  BY <1>6, <2>1, FS_Subset
<1>8. Cardinality(good) + Cardinality(bad) = Cardinality(D)
  <2>1. Cardinality(good \cup bad) = Cardinality(good) + Cardinality(bad) - Cardinality(good \cap bad)
    BY <1>7, FS_Union
  <2>2. Cardinality(good) \in Nat /\ Cardinality(bad) \in Nat  BY <1>7, FS_CardinalityType
  <2>3. Cardinality({}) = 0  BY FS_EmptySet
  <2>4. Cardinality(good \cup bad) = Cardinality(D) /\ Cardinality(good \cap bad) = 0  BY <1>4, <2>3
  <2> QED  BY <2>1, <2>2, <2>4
<1> QED  BY <1>1, <1>2, <1>3, <1>8 DEF report

LEMMA FilesHold == FileInv => ContributorFilesAgree
<1> SUFFICES ASSUME FileInv PROVE ContributorFilesAgree  OBVIOUS
<1> USE DEF FileInv
<1>1. ASSUME NEW w \in Account, verification[w].by = "kyc"
      PROVE  LET s == outcomeToVerificationState(Last(getKycEventsByWallet(w)).outcome)
             IN  w \in getVerificationsByStep(s.step) /\ verification[w].status = s.status
  <2>1. PICK m \in DOMAIN kycEvents :
           /\ IsLastEvent(w, m)
           /\ verification[w].step = outcomeToVerificationState(kycEvents[m].outcome).step
           /\ verification[w].status = outcomeToVerificationState(kycEvents[m].outcome).status
    BY <1>1 DEF VerificationOK, SaysWhatItsLastEventSays
  <2>2. Last(getKycEventsByWallet(w)) = kycEvents[m]  BY <2>1, LastEventIsListed
  <2> QED  BY <2>1, <2>2 DEF getVerificationsByStep
<1>2. \A w \in Full : LET sum == calculateOnboardingSummary(w)
                      IN  /\ sum.locked = (sum.next \in 1..4)
                          /\ (sum.percent = 100) = (sum.next = 0)
  BY ChecklistIsInOrder
<1>3. \A w \in Full : \A t \in listTemplates(w) : \A i \in DOMAIN t.of : t.of[i].percentage <= 10000
  BY DEF SplitsOK, listTemplates
<1>4. ASSUME NEW w \in Full
      PROVE  /\ isContributorBlocked(w) = (w \in listContributorStatuses(FALSE))
             /\ getContributorStatus(w) = "suspended" => standing[w].suspended
             /\ getContributorStatus(w) = "deactivated" => standing[w].deactivated
             /\ getContributorTier(w) # "regular" => w \in getContractTiers
             /\ LET sum == calculateOnboardingSummary(w)
                IN  /\ sum.locked = (sum.next \in 1..4)
                    /\ (sum.percent = 100) = (sum.next = 0)
             /\ \A t \in listTemplates(w) : \A i \in DOMAIN t.of : t.of[i].percentage <= 10000
  <2> DEFINE blocked == standing[w].status \notin {"none", "active"}
             listed == w \in listContributorStatuses(FALSE)
  <2>1. blocked <=> listed  BY DEF listContributorStatuses
  <2>2. blocked \in BOOLEAN /\ listed \in BOOLEAN  OBVIOUS
  <2> HIDE DEF blocked, listed
  <2>3. blocked = listed  BY <2>1, <2>2
  <2>4. isContributorBlocked(w) = (w \in listContributorStatuses(FALSE))
    BY <2>3, Zenon DEF isContributorBlocked, blocked, listed
  <2>5. /\ getContributorStatus(w) = "suspended" => standing[w].suspended
        /\ getContributorStatus(w) = "deactivated" => standing[w].deactivated
    BY DEF getContributorStatus, StampsOK
  <2>6. getContributorTier(w) # "regular" => w \in getContractTiers
    BY DEF getContributorTier, getContractTiers
  <2> QED  BY <1>2, <1>3, <2>4, <2>5, <2>6
<1> QED  BY <1>1, <1>4, TaxReportIsWhole, Zenon DEF ContributorFilesAgree

-----------------------------------------------------------------------------
(***************************************************************************)
(* The lists of the office.  They are queries, and an import's row keeps   *)
(* the figures it was made with, of which one adds up the other two.       *)
(***************************************************************************)

Note == [reader : Reader, type : {"email", "internal_note"}, internal : BOOLEAN]
Result == [share : Int, status : {"success", "error"}]
ImportRow == [rowCount : Nat, results : Seq(Result), status : {"completed", "failed"}]

Taken(i) == {k \in DOMAIN i.results : i.results[k].status = "success"}
Failed(i) == {k \in DOMAIN i.results : i.results[k].status = "error"}

ImportAddsUp(i) ==
    /\ Cardinality(DOMAIN i.results) = i.rowCount
    /\ i.status = "completed" <=> Failed(i) = {}
    /\ Taken(i) = {} \/ SumFunctionOnSet([k \in DOMAIN i.results |-> i.results[k].share], Taken(i)) = 100

OfficeInv ==
    /\ notes \in Seq(Note) /\ imports \in Seq(ImportRow) /\ uploads = Len(imports)
    /\ \A i \in DOMAIN imports : ImportAddsUp(imports[i])

\* Every mail of a digest is on the log.
MailsAreLogged ==
    \A i \in DOMAIN mails : \E k \in DOMAIN digestLog :
        digestLog[k] = Logged(mails[i].reader, mails[i].week, "sent")

\* The rows written of a file's check add up.
LEMMA CheckAddsUp ==
    ASSUME NEW rows \in Seq(Int), NEW v, v = validateCsvRows(rows), NEW row,
           row = [rowCount |-> createCsvImport(v), results |-> addImportResult(rows, v),
                  status |-> IF markImportFailed(v) THEN "failed" ELSE "completed"]
    PROVE  row \in ImportRow /\ ImportAddsUp(row)
<1> DEFINE good == {k \in DOMAIN rows : rows[k] \in 0..100}
           valid == IF SumFunctionOnSet(rows, good) = 100 THEN good ELSE {}
<1>1. PICK n \in Nat : n = Len(rows) /\ DOMAIN rows = 1..n  OBVIOUS
<1>2. IsFiniteSet(1..n) /\ Cardinality(1..n) \in Nat
  <2>1. IsFiniteSet(1..n)  BY FS_Interval
  <2> QED  BY <2>1, FS_CardinalityType
<1>3. v = [valid |-> valid, errors |-> DOMAIN rows \ valid]  BY DEF validateCsvRows
<1>4. valid \in SUBSET (1..n) /\ (valid = {} \/ SumFunctionOnSet(rows, valid) = 100)  BY <1>1
<1> HIDE DEF valid
<1>5. v.valid = valid /\ v.errors = (1..n) \ valid  BY <1>1, <1>3
<1>6. /\ IsFiniteSet(valid) /\ IsFiniteSet(v.errors)
      /\ Cardinality(valid) \in Nat /\ Cardinality(v.errors) \in Nat
  BY <1>2, <1>4, <1>5, FS_Subset, FS_CardinalityType
<1>7. Cardinality(v.valid) + Cardinality(v.errors) = Cardinality(1..n)
  <2> DEFINE bad == (1..n) \ valid
  <2>1. valid \cup bad = 1..n /\ valid \cap bad = {}  BY <1>4
  <2>2. v.valid = valid /\ v.errors = bad  BY <1>5
  <2> HIDE DEF bad
  <2>3. Cardinality(valid \cup bad) = Cardinality(valid) + Cardinality(bad) - Cardinality(valid \cap bad)
    BY <1>6, <2>2, FS_Union
  <2>4. Cardinality({}) = 0  BY FS_EmptySet
  <2>5. Cardinality(1..n) = Cardinality(valid) + Cardinality(bad) - 0  BY <2>1, <2>3, <2>4
  <2> QED  BY <1>6, <2>2, <2>5
<1> DEFINE results == [k \in 1..n |-> [share |-> rows[k], status |-> IF k \in valid THEN "success" ELSE "error"]]
<1>8. row.results = results /\ row.rowCount = Cardinality(1..n)
      /\ row.status = (IF (1..n) \ valid # {} THEN "failed" ELSE "completed")
  BY <1>1, <1>5, <1>7 DEF addImportResult, createCsvImport, markImportFailed
<1>9. results \in Seq(Result) /\ DOMAIN results = 1..n
  <2>1. \A k \in 1..n : rows[k] \in Int  BY <1>1
  <2>2. results \in [1..n -> Result]  BY <2>1 DEF Result
  <2> QED  BY <2>2
<1>10. \A k \in 1..n : results[k].share = rows[k] /\ (results[k].status = "success" <=> k \in valid)
                       /\ (results[k].status = "error" <=> k \notin valid)
  OBVIOUS
<1>11. row \in ImportRow
  <2>1. row = [rowCount |-> row.rowCount, results |-> row.results, status |-> row.status]  OBVIOUS
  <2>2. row.status \in {"completed", "failed"}  BY <1>8
  <2> HIDE DEF results
  <2>3. row.results \in Seq(Result) /\ row.rowCount \in Nat  BY <1>2, <1>8, <1>9
  <2> QED  BY <2>1, <2>2, <2>3 DEF ImportRow
<1>12. Taken(row) = valid /\ Failed(row) = (1..n) \ valid
  <2> HIDE DEF results
  <2>1. DOMAIN row.results = 1..n  BY <1>8, <1>9
  <2>2. Taken(row) = {k \in 1..n : results[k].status = "success"}
        /\ Failed(row) = {k \in 1..n : results[k].status = "error"}
    BY <1>8, <2>1 DEF Taken, Failed
  <2> DEFINE all == 1..n
  <2>3. \A k \in all : (results[k].status = "success" <=> k \in valid)
                       /\ (results[k].status = "error" <=> k \notin valid)
    BY <1>10
  <2>4. valid \in SUBSET all  BY <1>4
  <2>5. Taken(row) = {k \in all : results[k].status = "success"}
        /\ Failed(row) = {k \in all : results[k].status = "error"}
    BY <2>2
  <2> HIDE DEF all
  <2>6. Taken(row) = valid /\ Failed(row) = all \ valid  BY <2>3, <2>4, <2>5
  <2> QED  BY <2>6 DEF all
<1>13. [k \in DOMAIN row.results |-> row.results[k].share] = rows
  <2> HIDE DEF results
  <2>1. [k \in DOMAIN row.results |-> row.results[k].share] = [k \in 1..n |-> results[k].share]
    BY <1>8, <1>9
  <2>2. [k \in 1..n |-> results[k].share] = [k \in 1..n |-> rows[k]]  BY <1>10
  <2>3. rows = [k \in 1..n |-> rows[k]]  BY <1>1
  <2> QED  BY <2>1, <2>2, <2>3
<1>14. DOMAIN row.results = 1..n  BY <1>8, <1>9
<1> HIDE DEF results
<1>15. ImportAddsUp(row)
  <2>1. row.status = "completed" <=> Failed(row) = {}  BY <1>8, <1>12
  <2>2. Cardinality(DOMAIN row.results) = row.rowCount  BY <1>8, <1>14
  <2>3. Taken(row) = {} \/ SumFunctionOnSet([k \in DOMAIN row.results |-> row.results[k].share], Taken(row)) = 100
    BY <1>4, <1>12, <1>13
  <2> QED  BY <2>1, <2>2, <2>3 DEF ImportAddsUp
<1> QED  BY <1>11, <1>15

\* A row that adds up joins others that do.
LEMMA ImportAdded ==
    ASSUME OfficeInv, UNCHANGED notes, uploads' = uploads + 1,
           NEW row \in ImportRow, ImportAddsUp(row), imports' = Append(imports, row)
    PROVE  OfficeInv'
<1>3. PICK n \in Nat : n = Len(imports) /\ DOMAIN imports = 1..n  BY DEF OfficeInv
<1>4. /\ imports' \in Seq(ImportRow) /\ Len(imports') = n + 1 /\ imports'[n + 1] = row
      /\ \A i \in 1..n : imports'[i] = imports[i]
  BY <1>3 DEF OfficeInv
<1>5. DOMAIN imports' = 1..(n + 1)  BY <1>4
<1>6. ASSUME NEW i \in DOMAIN imports' PROVE ImportAddsUp(imports'[i])
  <2>1. CASE i = n + 1  BY <1>4, <2>1
  <2>2. CASE i \in 1..n  BY <1>3, <1>4, <2>2 DEF OfficeInv
  <2> QED  BY <1>3, <1>5, <2>1, <2>2
<1>7. \A i \in DOMAIN imports' : ImportAddsUp(imports[i])'  BY <1>6 DEF ImportAddsUp, Taken, Failed
<1> QED  BY <1>3, <1>4, <1>7 DEF OfficeInv

LEMMA ImportsStay ==
    ASSUME OfficeInv, UNCHANGED <<imports, uploads>>, notes' \in Seq(Note)
    PROVE  OfficeInv'
<1>1. \A i \in DOMAIN imports' : ImportAddsUp(imports'[i])  BY DEF OfficeInv
<1>2. \A i \in DOMAIN imports' : ImportAddsUp(imports[i])'  BY <1>1 DEF ImportAddsUp, Taken, Failed
<1>3. imports' \in Seq(ImportRow) /\ uploads' = Len(imports')  BY DEF OfficeInv
<1> QED  BY <1>2, <1>3 DEF OfficeInv

LEMMA OfficeStep == ASSUME OfficeInv, OfficeNext PROVE OfficeInv'
<1>1. ASSUME NEW r \in Reader, NEW type \in {"email", "internal_note"}, NEW internal \in BOOLEAN,
             recordCommunication(r, type, internal), UNCHANGED <<imports, uploads>>
      PROVE  OfficeInv'
  <2> DEFINE n == [reader |-> r, type |-> type, internal |-> internal]
  <2>1. n \in Note /\ notes' = Append(notes, n)  BY <1>1 DEF Note, recordCommunication
  <2> HIDE DEF n
  <2>2. notes' \in Seq(Note)  BY <2>1 DEF OfficeInv
  <2> QED  BY <1>1, <2>2, ImportsStay
<1>2. CASE PostCommunication  BY <1>1, <1>2 DEF PostCommunication
<1>3. CASE PostInternalNote  BY <1>1, <1>3 DEF PostInternalNote, addInternalNote
<1>4. CASE PostImport
  <2>1. \A rows \in parseCsv : rows \in Seq(Int)
    <3>1. << >> \in Seq(Int)  OBVIOUS
    <3> QED  BY <3>1, UploadAssumption DEF parseCsv
  <2>2. PICK rows \in parseCsv : LET v == validateCsvRows(rows)
          IN  imports' = Append(imports, [rowCount |-> createCsvImport(v), results |-> addImportResult(rows, v),
                                          status |-> IF markImportFailed(v) THEN "failed" ELSE "completed"])
    BY <1>4 DEF PostImport
  <2>3. uploads' = uploads + 1 /\ UNCHANGED notes  BY <1>4 DEF PostImport
  <2> DEFINE v == validateCsvRows(rows)
             row == [rowCount |-> createCsvImport(v), results |-> addImportResult(rows, v),
                     status |-> IF markImportFailed(v) THEN "failed" ELSE "completed"]
  <2>4. imports' = Append(imports, row)  BY <2>2
  <2>5. row \in ImportRow /\ ImportAddsUp(row)  BY <2>1, CheckAddsUp
  <2> HIDE DEF row
  <2> QED  BY <2>3, <2>4, <2>5, ImportAdded
<1> QED  BY <1>2, <1>3, <1>4 DEF OfficeNext

LEMMA OfficeHolds == DigestInv /\ MailsAreLogged /\ OfficeInv => OfficeListsAgree
<1> SUFFICES ASSUME DigestInv, MailsAreLogged, OfficeInv PROVE OfficeListsAgree  OBVIOUS
<1>0. /\ \E n \in Nat : DOMAIN digestLog = 1..n
      /\ \E n \in Nat : DOMAIN notes = 1..n
      /\ \E n \in Nat : DOMAIN imports = 1..n
  BY DEF DigestInv, DigestTypeOK, OfficeInv
<1>1. ASSUME NEW s, \E n \in Nat : DOMAIN s = 1..n, NEW P \in SUBSET DOMAIN s PROVE ArePlaces(P)
  <2>1. PICK n \in Nat : DOMAIN s = 1..n  BY <1>1
  <2>2. IsFiniteSet(1..n)  BY FS_Interval
  <2> QED  BY <2>1, <2>2, FS_Subset DEF ArePlaces
<1>2. ASSUME NEW r
      PROVE  /\ \A d \in ToSet(getDigestHistory(r)) : d.reader = r
             /\ \A k \in DOMAIN digestLog : digestLog[k].reader = r => digestLog[k] \in ToSet(getDigestHistory(r))
  <2> DEFINE P == {k \in DOMAIN digestLog : digestLog[k].reader = r}
  <2>1. ArePlaces(P)  BY <1>0, <1>1
  <2>2. getDigestHistory(r) = LatestIn(digestLog, P)  BY DEF getDigestHistory
  <2>3. \A p \in P : p \in DOMAIN digestLog /\ digestLog[p].reader = r  OBVIOUS
  <2> HIDE DEF P
  <2>4. \A k \in DOMAIN LatestIn(digestLog, P) : \E p \in P : LatestIn(digestLog, P)[k] = digestLog[p]
    BY <2>1, RowsOfPlaces
  <2>5. \A p \in P : \E k \in DOMAIN LatestIn(digestLog, P) : LatestIn(digestLog, P)[k] = digestLog[p]
    <3> DEFINE rows == LatestIn(digestLog, P)
    <3>1. P \in SUBSET Int /\ IsFiniteSet(P)  BY <2>1 DEF ArePlaces
    <3>2. rows \in {RowsIn(digestLog, P), LatestIn(digestLog, P)}  OBVIOUS
    <3> HIDE DEF rows
    <3>3. \A p \in P : \E k \in DOMAIN rows : rows[k] = digestLog[p]  BY <3>1, <3>2, RowsAreListed
    <3> QED  BY <3>3 DEF rows
  <2>6. \A k \in DOMAIN digestLog : digestLog[k].reader = r => k \in P  BY DEF P
  <2>7. \A d \in ToSet(getDigestHistory(r)) : d.reader = r  BY <2>2, <2>3, <2>4 DEF ToSet
  <2>8. \A p \in P : digestLog[p] \in ToSet(LatestIn(digestLog, P))
    <3> SUFFICES ASSUME NEW p \in P PROVE digestLog[p] \in ToSet(LatestIn(digestLog, P))  OBVIOUS
    <3>1. PICK k \in DOMAIN LatestIn(digestLog, P) : LatestIn(digestLog, P)[k] = digestLog[p]  BY <2>5
    <3> QED  BY <3>1 DEF ToSet
  <2> QED  BY <2>2, <2>6, <2>7, <2>8
<1>3. ASSUME NEW r, NEW inside
      PROVE  /\ Len(getCommunicationsByWallet(r, inside)) = countCommunications(r, inside)
             /\ \A d \in ToSet(getCommunicationsByWallet(r, FALSE)) : ~d.internal
             /\ \A d \in ToSet(searchCommunications("internal_note", FALSE)) : ~d.internal
             /\ \E V : getCommunicationsByWallet(r, FALSE) \in Seq(V)
             /\ \E V : searchCommunications("internal_note", FALSE) \in Seq(V)
  <2> DEFINE P == {k \in DOMAIN notes : notes[k].reader = r /\ (inside \/ ~notes[k].internal)}
             own == {k \in DOMAIN notes : notes[k].reader = r /\ (FALSE \/ ~notes[k].internal)}
             found == {k \in DOMAIN notes : notes[k].type = "internal_note" /\ (FALSE \/ ~notes[k].internal)}
  <2>1. ArePlaces(P) /\ ArePlaces(own) /\ ArePlaces(found)
    <3>1. P \in SUBSET DOMAIN notes /\ own \in SUBSET DOMAIN notes /\ found \in SUBSET DOMAIN notes  OBVIOUS
    <3> HIDE DEF P, own, found
    <3> QED  BY <1>0, <1>1, <3>1
  <2>2. /\ getCommunicationsByWallet(r, inside) = LatestIn(notes, P)
        /\ countCommunications(r, inside) = Cardinality(P)
    BY DEF getCommunicationsByWallet, countCommunications
  <2>3. /\ getCommunicationsByWallet(r, FALSE) = LatestIn(notes, own)
        /\ searchCommunications("internal_note", FALSE) = LatestIn(notes, found)
    BY DEF getCommunicationsByWallet, searchCommunications
  <2>4. /\ \A p \in own : p \in DOMAIN notes /\ ~notes[p].internal
        /\ \A p \in found : p \in DOMAIN notes /\ ~notes[p].internal
    OBVIOUS
  <2> HIDE DEF P, own, found
  <2>5. /\ Len(LatestIn(notes, P)) = Cardinality(P)
        /\ \A k \in DOMAIN LatestIn(notes, own) : \E p \in own : LatestIn(notes, own)[k] = notes[p]
        /\ \A k \in DOMAIN LatestIn(notes, found) : \E p \in found : LatestIn(notes, found)[k] = notes[p]
    BY <2>1, RowsOfPlaces
  <2>6. /\ \A d \in ToSet(LatestIn(notes, own)) : ~d.internal
        /\ \A d \in ToSet(LatestIn(notes, found)) : ~d.internal
    BY <2>4, <2>5 DEF ToSet
  <2>7. ASSUME NEW Q, ArePlaces(Q) PROVE \E V : LatestIn(notes, Q) \in Seq(V)
    <3> DEFINE V == {notes[p] : p \in Q}
    <3>1. \A p \in Q : notes[p] \in V  OBVIOUS
    <3> HIDE DEF V
    <3>2. Q \in SUBSET Int /\ IsFiniteSet(Q)  BY <2>7 DEF ArePlaces
    <3>3. LatestIn(notes, Q) \in Seq(V)  BY <3>1, <3>2, RowsAreListed
    <3> QED  BY <3>3
  <2> QED  BY <2>1, <2>2, <2>3, <2>5, <2>6, <2>7
<1>4. ASSUME NEW s, NEW t, \E V : s \in Seq(V), \E V : t \in Seq(V),
             \A d \in ToSet(s) : ~d.internal, \A d \in ToSet(t) : ~d.internal
      PROVE  \A d \in ToSet(s \o t) : ~d.internal
  <2>1. PICK V : s \in Seq(V)  BY <1>4
  <2>2. PICK W : t \in Seq(W)  BY <1>4
  <2>3. s \in Seq(V \cup W) /\ t \in Seq(V \cup W)  BY <2>1, <2>2
  <2>4. /\ Len(s) \in Nat /\ Len(t) \in Nat /\ DOMAIN s = 1..Len(s) /\ DOMAIN t = 1..Len(t)
        /\ DOMAIN (s \o t) = 1..(Len(s) + Len(t))
        /\ \A k \in 1..(Len(s) + Len(t)) : (s \o t)[k] = IF k <= Len(s) THEN s[k] ELSE t[k - Len(s)]
    BY <2>3
  <2>5. \A k \in DOMAIN (s \o t) : (s \o t)[k] \in ToSet(s) \cup ToSet(t)
    <3> SUFFICES ASSUME NEW k \in 1..(Len(s) + Len(t)) PROVE (s \o t)[k] \in ToSet(s) \cup ToSet(t)  BY <2>4
    <3>1. CASE k <= Len(s)
      <4>1. k \in DOMAIN s /\ (s \o t)[k] = s[k]  BY <2>4, <3>1
      <4> QED  BY <4>1 DEF ToSet
    <3>2. CASE ~(k <= Len(s))
      <4>1. k - Len(s) \in DOMAIN t /\ (s \o t)[k] = t[k - Len(s)]  BY <2>4, <3>2
      <4> QED  BY <4>1 DEF ToSet
    <3> QED  BY <3>1, <3>2
  <2>6. \A d \in ToSet(s \o t) : d \in ToSet(s) \cup ToSet(t)
    <3> DEFINE u == s \o t
    <3>1. \A k \in DOMAIN u : u[k] \in ToSet(s) \cup ToSet(t)  BY <2>5
    <3> HIDE DEF u
    <3>2. \A d \in ToSet(u) : \E k \in DOMAIN u : d = u[k]  BY DEF ToSet
    <3>3. \A d \in ToSet(u) : d \in ToSet(s) \cup ToSet(t)  BY <3>1, <3>2
    <3> QED  BY <3>3 DEF u
  <2> QED  BY <1>4, <2>6
<1>5. \A r \in Reader : \A d \in ToSet(getCommunicationsByWallet(r, FALSE)
                                         \o searchCommunications("internal_note", FALSE)) : ~d.internal
  BY <1>3, <1>4
<1>6. \A i \in DOMAIN mails :
          Logged(mails[i].reader, mails[i].week, "sent") \in ToSet(getDigestHistory(mails[i].reader))
  <2> SUFFICES ASSUME NEW i \in DOMAIN mails
               PROVE  Logged(mails[i].reader, mails[i].week, "sent") \in ToSet(getDigestHistory(mails[i].reader))
    OBVIOUS
  <2>1. PICK k \in DOMAIN digestLog : digestLog[k] = Logged(mails[i].reader, mails[i].week, "sent")
    BY DEF MailsAreLogged
  <2>2. digestLog[k].reader = mails[i].reader  BY <2>1 DEF Logged
  <2> QED  BY <1>2, <2>1, <2>2
<1>7. HistoriesAgree  BY <1>2, <1>3, <1>5, <1>6 DEF HistoriesAgree
<1>8. ImportsAreWhole
  <2> SUFFICES ASSUME NEW i \in DOMAIN imports
               PROVE  /\ getImportSummary(i).total = imports[i].rowCount
                      /\ (imports[i].status = "completed") = (getImportSummary(i).errorCount = 0)
                      /\ getImportSummary(i).successCount = 0
                           \/ SumFunctionOnSet([k \in DOMAIN imports[i].results |-> imports[i].results[k].share],
                                               ResultsWith(i, "success")) = 100
    BY DEF ImportsAreWhole
  <2>1. ImportAddsUp(imports[i])  BY DEF OfficeInv
  <2>2. Taken(imports[i]) = ResultsWith(i, "success") /\ Failed(imports[i]) = ResultsWith(i, "error")
    BY DEF Taken, Failed, ResultsWith
  <2>3. /\ getImportSummary(i).total = Cardinality(DOMAIN imports[i].results)
        /\ getImportSummary(i).successCount = Cardinality(ResultsWith(i, "success"))
        /\ getImportSummary(i).errorCount = Cardinality(ResultsWith(i, "error"))
    BY DEF getImportSummary
  <2>4. IsFiniteSet(ResultsWith(i, "success")) /\ IsFiniteSet(ResultsWith(i, "error"))
    <3>1. imports[i] \in ImportRow  BY DEF OfficeInv
    <3>2. imports[i].results \in Seq(Result)  BY <3>1 DEF ImportRow
    <3>3. PICK n \in Nat : DOMAIN imports[i].results = 1..n  BY <3>2
    <3>4. IsFiniteSet(1..n)  BY FS_Interval
    <3>5. ResultsWith(i, "success") \in SUBSET (1..n) /\ ResultsWith(i, "error") \in SUBSET (1..n)
      BY <3>3 DEF ResultsWith
    <3> QED  BY <3>4, <3>5, FS_Subset
  <2>5. Cardinality(ResultsWith(i, "success")) = 0 <=> ResultsWith(i, "success") = {}  BY <2>4, FS_EmptySet
  <2>6. Cardinality(ResultsWith(i, "error")) = 0 <=> ResultsWith(i, "error") = {}  BY <2>4, FS_EmptySet
  <2>7. imports[i].status = "completed" <=> getImportSummary(i).errorCount = 0
    BY <2>1, <2>2, <2>3, <2>6 DEF ImportAddsUp
  <2>8. (imports[i].status = "completed") = (getImportSummary(i).errorCount = 0)  BY <2>7
  <2>9. getImportSummary(i).total = imports[i].rowCount  BY <2>1, <2>3 DEF ImportAddsUp
  <2>10. \/ ResultsWith(i, "success") = {}
         \/ SumFunctionOnSet([k \in DOMAIN imports[i].results |-> imports[i].results[k].share],
                             ResultsWith(i, "success")) = 100
    BY <2>1, <2>2, Zenon DEF ImportAddsUp
  <2>11. getImportSummary(i).successCount = 0 <=> ResultsWith(i, "success") = {}  BY <2>3, <2>5
  <2> QED  BY <2>8, <2>9, <2>10, <2>11, Zenon
<1> QED  BY <1>7, <1>8 DEF OfficeListsAgree, OfficeInv

\* A mail goes with its row of the log, which only grows.
LEMMA LogKeepsMails ==
    ASSUME DigestInv, MailsAreLogged,
           UNCHANGED digestLog \/ \E row \in LogRow : digestLog' = Append(digestLog, row),
           \/ UNCHANGED mails
           \/ \E mail \in MailRow : /\ mails' = Append(mails, mail)
                                   /\ digestLog' = Append(digestLog, Logged(mail.reader, mail.week, "sent"))
    PROVE  MailsAreLogged'
<1>1. digestLog \in Seq(LogRow) /\ mails \in Seq(MailRow)  BY DEF DigestInv, DigestTypeOK
<1>2. \A k \in DOMAIN digestLog : k \in DOMAIN digestLog' /\ digestLog'[k] = digestLog[k]
  <2>1. ASSUME NEW row \in LogRow, digestLog' = Append(digestLog, row), NEW k \in DOMAIN digestLog
        PROVE  k \in DOMAIN digestLog' /\ digestLog'[k] = digestLog[k]
    BY <1>1, <2>1
  <2> QED  BY <2>1
<1>3. ASSUME NEW i \in DOMAIN mails'
      PROVE  \E k \in DOMAIN digestLog' : digestLog'[k] = Logged(mails'[i].reader, mails'[i].week, "sent")
  <2>1. CASE i \in DOMAIN mails /\ mails'[i] = mails[i]
    <3>1. PICK k \in DOMAIN digestLog : digestLog[k] = Logged(mails[i].reader, mails[i].week, "sent")
      BY <2>1 DEF MailsAreLogged
    <3> QED  BY <1>2, <2>1, <3>1
  <2>2. ASSUME NEW mail \in MailRow, mails' = Append(mails, mail), mails'[i] = mail,
               digestLog' = Append(digestLog, Logged(mail.reader, mail.week, "sent"))
        PROVE  \E k \in DOMAIN digestLog' : digestLog'[k] = Logged(mails'[i].reader, mails'[i].week, "sent")
    <3> DEFINE row == Logged(mail.reader, mail.week, "sent")
    <3>1. row = Logged(mails'[i].reader, mails'[i].week, "sent")  BY <2>2
    <3>2. digestLog' = Append(digestLog, row)  BY <2>2
    <3> HIDE DEF row
    <3>3. Len(digestLog) + 1 \in DOMAIN digestLog' /\ digestLog'[Len(digestLog) + 1] = row  BY <1>1, <3>2
    <3> QED  BY <3>1, <3>3
  <2>3. CASE UNCHANGED mails  BY <1>3, <2>1, <2>3
  <2>4. ASSUME NEW mail \in MailRow, mails' = Append(mails, mail)
        PROVE  (i \in DOMAIN mails /\ mails'[i] = mails[i]) \/ mails'[i] = mail
    BY <1>1, <1>3, <2>4
  <2> QED  BY <2>1, <2>2, <2>3, <2>4
<1> QED  BY <1>3 DEF MailsAreLogged, Logged

LEMMA MailsStayLogged == DigestInv /\ MailsAreLogged /\ [RecordsNext]_mcVars => MailsAreLogged'
<1> SUFFICES ASSUME DigestInv, MailsAreLogged, [RecordsNext]_mcVars PROVE MailsAreLogged'  OBVIOUS
<1>0. digestLog \in Seq(LogRow) /\ mails \in Seq(MailRow) /\ digestPass \in [DigestPass -> PassRow]
  BY DEF DigestInv, DigestTypeOK
<1>1. CASE UNCHANGED <<digestLog, mails>>  BY <1>1, LogKeepsMails
<1>2. CASE OfficeNext \/ UNCHANGED postVars
  <2>1. UNCHANGED <<digestLog, mails>>
    BY <1>2 DEF OfficeNext, PostCommunication, PostInternalNote, PostImport, postVars
  <2> QED  BY <1>1, <2>1
<1>3. CASE PostSubscribe \/ PutPreferences \/ PostUnsubscribe \/ NextDay \/ \E r \in Reader : Earn(r)
  <2>1. UNCHANGED <<digestLog, mails>>
    BY <1>3 DEF PostSubscribe, PutPreferences, PostUnsubscribe, NextDay, Earn
  <2> QED  BY <1>1, <2>1
<1>4. ASSUME NEW p \in DigestPass, StartDigests(p) \/ EndDigests(p) PROVE MailsAreLogged'
  BY <1>1, <1>4 DEF StartDigests, EndDigests
<1>5. ASSUME NEW p \in DigestPass, NEW r \in Reader, sendWeeklyDigests(p, r) PROVE MailsAreLogged'
  <2>1. Logged(r, digestPass[p].week, "sent") \in LogRow  BY <1>0 DEF Logged, LogRow, PassRow
  <2>2. UNCHANGED mails /\ (UNCHANGED digestLog \/ digestLog' = Append(digestLog, Logged(r, digestPass[p].week, "sent")))
    BY <1>5 DEF sendWeeklyDigests, logDigestSent
  <2> QED  BY <2>1, <2>2, LogKeepsMails
<1>6. ASSUME NEW p \in DigestPass, NEW r \in Reader, NEW taken \in BOOLEAN, sendEmail(p, r, taken)
      PROVE  MailsAreLogged'
  <2> DEFINE mail == [reader |-> r, week |-> digestPass[p].week, seen |-> digestPass[p].seen]
  <2>1. mail \in MailRow /\ mail.reader = r /\ mail.week = digestPass[p].week  BY <1>0 DEF PassRow, MailRow
  <2>2. Logged(r, digestPass[p].week, "sent") \in LogRow /\ Logged(r, digestPass[p].week, "failed") \in LogRow
    BY <1>0 DEF Logged, LogRow, PassRow
  <2>3. CASE taken
    <3>1. digestLog' = Append(digestLog, Logged(r, digestPass[p].week, "sent")) /\ mails' = Append(mails, mail)
      BY <1>6, <2>3 DEF sendEmail, logDigestSent
    <3> HIDE DEF mail
    <3> QED  BY <2>1, <2>2, <3>1, LogKeepsMails
  <2>4. CASE ~taken
    <3>1. digestLog' = Append(digestLog, Logged(r, digestPass[p].week, "failed")) /\ UNCHANGED mails
      BY <1>6, <2>4 DEF sendEmail, logDigestFailed
    <3> QED  BY <2>2, <3>1, LogKeepsMails
  <2> QED  BY <2>3, <2>4
<1>7. DigestNext \/ OfficeNext \/ UNCHANGED postVars  BY RecordsFrame
<1> QED  BY <1>2, <1>3, <1>4, <1>5, <1>6, <1>7 DEF DigestNext

LEMMA DigestLeavesOffice == DigestNext => UNCHANGED <<notes, imports, uploads>>
<1> SUFFICES ASSUME DigestNext PROVE UNCHANGED <<notes, imports, uploads>>  OBVIOUS
<1>1. CASE PostSubscribe \/ PutPreferences \/ PostUnsubscribe \/ NextDay
  BY <1>1 DEF PostSubscribe, PutPreferences, PostUnsubscribe, NextDay, Rest
<1>2. CASE \E r \in Reader : Earn(r)  BY <1>2 DEF Earn, Rest
<1>3. CASE \E p \in DigestPass : StartDigests(p) \/ EndDigests(p)  BY <1>3 DEF StartDigests, EndDigests, Rest
<1>4. CASE \E p \in DigestPass, r \in Reader : sendWeeklyDigests(p, r)  BY <1>4 DEF sendWeeklyDigests, Rest
<1>5. CASE \E p \in DigestPass, r \in Reader, taken \in BOOLEAN : sendEmail(p, r, taken)
  BY <1>5 DEF sendEmail, Rest
<1> QED  BY <1>1, <1>2, <1>3, <1>4, <1>5 DEF DigestNext

\* What the office shows of a contributor agrees in every reachable state: the last
\* review of a ticket reaches its contributor, a row a callback wrote says what the
\* wallet's last event said, a block is listed, the shares an import took are whole, a
\* digest that was mailed is in its reader's history, and no list of a contributor's
\* holds an internal entry; for every number of tickets, wallets,
\* readers and passes, and however the steps of the tables interleave
\* (disputes.js, kyc-webhooks.js, contributor-status.js, email-digest.js,
\* communications.js, csv-import.js).
THEOREM TheFilesAgree == RecordsSpec => []FilesAgree
<1> DEFINE Inv == DisputeInv /\ FileInv /\ DigestInv /\ MailsAreLogged /\ OfficeInv
<1>1. RecordsInit => Inv
  <2> SUFFICES ASSUME RecordsInit PROVE Inv  OBVIOUS
  <2>1. DisputesInit /\ ContributorsInit /\ CorrespondenceInit  BY DEF RecordsInit
  <2>2. notes = << >> /\ imports = << >> /\ uploads = 0  BY <2>1 DEF CorrespondenceInit
  <2>3. OfficeInv
    <3>1. notes \in Seq(Note) /\ imports \in Seq(ImportRow) /\ Len(imports) = 0  BY <2>2
    <3> QED  BY <2>2, <3>1 DEF OfficeInv
  <2>4. MailsAreLogged  BY <2>1 DEF CorrespondenceInit, MailsAreLogged
  <2> QED  BY <2>1, <2>3, <2>4, DisputesStart, FilesStart, DigestStarts
<1>2. Inv /\ [RecordsNext]_mcVars => Inv'
  <2> SUFFICES ASSUME Inv, [RecordsNext]_mcVars PROVE Inv'  OBVIOUS
  <2>1. DisputeInv'
    <3>1. CASE UNCHANGED disputeVars
      <4>1. UNCHANGED <<tickets, remarks, reviews, outgoing, mailed>>  BY <3>1 DEF disputeVars
      <4>2. TicketsOK' /\ RemarksOK'  BY <4>1 DEF DisputeInv, TicketsOK, RemarksOK
      <4>3. NewsIsOnItsWay'  BY <4>1 DEF DisputeInv, NewsIsOnItsWay, NewsOf, IsLastReview
      <4> QED  BY <4>2, <4>3 DEF DisputeInv
    <3> QED  BY <3>1, DisputeStep, RecordsFrame
  <2>2. FileInv'
    <3>1. CASE UNCHANGED fileVars
      <4>1. UNCHANGED <<kycEvents, verification, standing, splits>>  BY <3>1 DEF fileVars
      <4>2. VerificationOK'
        BY <4>1 DEF FileInv, VerificationOK, SaysWhatItsLastEventSays, IsLastEvent
      <4>3. StampsOK' /\ SplitsOK'  BY <4>1 DEF FileInv, StampsOK, SplitsOK
      <4> QED  BY <4>2, <4>3 DEF FileInv
    <3> QED  BY <3>1, FileStep, RecordsFrame
  <2>3. OfficeInv'
    <3>1. CASE UNCHANGED <<notes, imports, uploads>>
      <4>1. notes' \in Seq(Note)  BY <3>1 DEF OfficeInv
      <4> QED  BY <3>1, <4>1, ImportsStay
    <3>2. CASE UNCHANGED postVars  BY <3>1, <3>2 DEF postVars
    <3> QED  BY <3>1, <3>2, OfficeStep, DigestLeavesOffice, RecordsFrame
  <2> QED  BY <2>1, <2>2, <2>3, DigestStays, MailsStayLogged
<1>3. Inv => FilesAgree  BY DisputesHold, FilesHold, OfficeHolds DEF FilesAgree
<1> QED  BY <1>1, <1>2, <1>3, PTL DEF RecordsSpec
=============================================================================
