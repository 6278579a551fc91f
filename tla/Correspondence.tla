--------------------------- MODULE Correspondence ---------------------------
(***************************************************************************)
(* Mail to contributors and records about them: the weekly digest          *)
(* (email-digest.js, jobs/weekly-digest-job.js), the communication log     *)
(* (communications.js) and the CSV import of shares (csv-import.js).       *)
(*                                                                         *)
(* The digest's clock counts days, WeekLength to a week, day 0 the first   *)
(* of a week; a subscriber names a day, and the hour is the whole day.     *)
(***************************************************************************)
EXTENDS Integers, Sequences, FiniteSets, FiniteSetsExt, SequencesExt, Functions, Tables

CONSTANTS
    Reader,       \* subscribers' wallets
    WeekLength, LastDay,
    DigestPass,   \* passes that may overlap
    Upload,       \* uploaded files of shares: the share of each row, -1 standing for a
                  \* row with a bad address or share
    MaxMails, MaxNotes

ASSUME DigestAssumption == WeekLength \in Nat \ {0}
ASSUME UploadAssumption == Upload \subseteq Seq(Int)

VARIABLES
    today,
    subscriber,   \* email_digest_subscribers: the day, and whether enabled
    digestLog,    \* email_digest_log
    digestPass,   \* per pass: the week, the subscribers left, whose mail is out
    mails,        \* digests the mail server took: reader, week, the log it saw
    earned,       \* confirmed payouts: reader and day
    notes,        \* contributor_communications
    imports,      \* csv_imports, each with its rows of csv_import_results
    uploads       \* uploaded files that are still on the disk

postVars == <<today, subscriber, digestLog, digestPass, mails, earned, notes, imports, uploads>>

Idle == [week |-> 0, left |-> {}, sending |-> {}, seen |-> 0]

CorrespondenceInit ==
    /\ today = 0
    /\ subscriber = [r \in Reader |-> [day |-> 0, enabled |-> FALSE]]
    /\ digestLog = <<>>
    /\ digestPass = [p \in DigestPass |-> Idle]
    /\ mails = <<>>
    /\ earned = {}
    /\ notes = <<>>
    /\ imports = <<>>
    /\ uploads = 0

-----------------------------------------------------------------------------
\* The weekly digest.

getWeekRange(day) == day \div WeekLength

subscribeEmailDigest(r, day) ==
    subscriber' = [subscriber EXCEPT ![r] = [day |-> day, enabled |-> TRUE]]
unsubscribeByEmailDigest(r) == subscriber' = [subscriber EXCEPT ![r].enabled = FALSE]
updateSubscriberPreferences(r, day) == subscriber' = [subscriber EXCEPT ![r].day = day]

getSubscribersDueForDigest(day) ==
    {r \in Reader : subscriber[r].enabled /\ subscriber[r].day = day % WeekLength}

\* Mutant: only the latest row is looked at.
wasDigestSentLast(r, week) == digestLog # <<>> /\ Last(digestLog) = [reader |-> r, week |-> week,
                                                                    status |-> "sent"]

wasDigestSentThisWeek(r, week) ==
    \E i \in DOMAIN digestLog :
        digestLog[i].reader = r /\ digestLog[i].week = week /\ digestLog[i].status = "sent"

Logged(r, week, status) == [reader |-> r, week |-> week, status |-> status]
logDigestSent(r, week) == digestLog' = Append(digestLog, Logged(r, week, "sent"))
logDigestFailed(r, week) == digestLog' = Append(digestLog, Logged(r, week, "failed"))
getDigestHistory(r) == LatestIn(digestLog, {k \in DOMAIN digestLog : digestLog[k].reader = r})

\* BETWEEN two dates compares text: a time of the last day is past its date.
getEarningsForWeek(r, week) ==
    {e \in earned : e[1] = r /\ getWeekRange(e[2]) = week /\ e[2] % WeekLength # WeekLength - 1}

Rest == <<notes, imports, uploads>>

PostSubscribe ==
    /\ \E r \in Reader, day \in 0..(WeekLength - 1) : subscribeEmailDigest(r, day)
    /\ UNCHANGED <<today, digestLog, digestPass, mails, earned, Rest>>

PutPreferences ==
    /\ \E r \in Reader, day \in 0..(WeekLength - 1) :
          subscriber[r].enabled /\ updateSubscriberPreferences(r, day)
    /\ UNCHANGED <<today, digestLog, digestPass, mails, earned, Rest>>

PostUnsubscribe ==
    /\ \E r \in Reader : subscriber[r].enabled /\ unsubscribeByEmailDigest(r)
    /\ UNCHANGED <<today, digestLog, digestPass, mails, earned, Rest>>

\* The interval starts a pass every minute, whether or not the last has ended.
StartDigests(p) ==
    /\ digestPass[p] = Idle
    /\ getSubscribersDueForDigest(today) # {}
    /\ digestPass' = [digestPass EXCEPT ![p] =
          [Idle EXCEPT !.week = getWeekRange(today), !.left = getSubscribersDueForDigest(today)]]
    /\ UNCHANGED <<today, subscriber, digestLog, mails, earned, Rest>>

\* One subscriber up to the await of the mail: the log is read before it.
sendWeeklyDigests(p, r) ==
    LET d == digestPass[p]
    IN  /\ d.sending = {} /\ r \in d.left
        /\ Len(digestLog) < MaxMails
        /\ IF wasDigestSentThisWeek(r, d.week)
             THEN /\ digestPass' = [digestPass EXCEPT ![p].left = @ \ {r}]
                  /\ UNCHANGED digestLog
             ELSE IF getEarningsForWeek(r, d.week) = {}
             THEN /\ digestPass' = [digestPass EXCEPT ![p].left = @ \ {r}]
                  /\ logDigestSent(r, d.week)
             ELSE /\ digestPass' = [digestPass EXCEPT ![p].left = @ \ {r}, ![p].sending = {r},
                                                      ![p].seen = Len(digestLog)]
                  /\ UNCHANGED digestLog
        /\ UNCHANGED <<today, subscriber, mails, earned, Rest>>

\* sendEmail has answered: the server took the mail, or refused it.
sendEmail(p, r, taken) ==
    LET d == digestPass[p]
    IN  /\ r \in d.sending
        /\ Len(digestLog) < MaxMails
        /\ IF taken
             THEN /\ logDigestSent(r, d.week)
                  /\ mails' = Append(mails, [reader |-> r, week |-> d.week, seen |-> d.seen])
             ELSE logDigestFailed(r, d.week) /\ UNCHANGED mails
        /\ digestPass' = [digestPass EXCEPT ![p].sending = {}, ![p].seen = 0]
        /\ UNCHANGED <<today, subscriber, earned, Rest>>

EndDigests(p) ==
    /\ digestPass[p] # Idle /\ digestPass[p].left = {} /\ digestPass[p].sending = {}
    /\ digestPass' = [digestPass EXCEPT ![p] = Idle]
    /\ UNCHANGED <<today, subscriber, digestLog, mails, earned, Rest>>

Earn(r) ==
    /\ earned' = earned \cup {<<r, today>>}
    /\ UNCHANGED <<today, subscriber, digestLog, digestPass, mails, Rest>>

NextDay ==
    /\ today < LastDay
    /\ today' = today + 1
    /\ UNCHANGED <<subscriber, digestLog, digestPass, mails, earned, Rest>>

DigestNext ==
    \/ PostSubscribe \/ PutPreferences \/ PostUnsubscribe \/ NextDay
    \/ \E r \in Reader : Earn(r)
    \/ \E p \in DigestPass :
          \/ StartDigests(p) \/ EndDigests(p)
          \/ \E r \in Reader : sendWeeklyDigests(p, r)
          \/ \E r \in Reader, taken \in BOOLEAN : sendEmail(p, r, taken)

-----------------------------------------------------------------------------
\* The communication log and the CSV import.

recordCommunication(r, type, internal) ==
    /\ Len(notes) < MaxNotes
    /\ notes' = Append(notes, [reader |-> r, type |-> type, internal |-> internal])
addInternalNote(r) == recordCommunication(r, "internal_note", TRUE)

getCommunicationTimeline(r, includeInternal) ==
    RowsIn(notes, {k \in DOMAIN notes :
                      notes[k].reader = r /\ (includeInternal \/ ~notes[k].internal)})
getCommunicationsByWallet(r, includeInternal) ==
    LatestIn(notes, {k \in DOMAIN notes :
                        notes[k].reader = r /\ (includeInternal \/ ~notes[k].internal)})
countCommunications(r, includeInternal) ==
    Cardinality({i \in DOMAIN notes :
        notes[i].reader = r /\ (includeInternal \/ ~notes[i].internal)})
searchCommunications(type, includeInternal) ==
    LatestIn(notes, {k \in DOMAIN notes :
                        notes[k].type = type /\ (includeInternal \/ ~notes[k].internal)})

PostCommunication ==
    /\ \E r \in Reader, type \in {"email", "internal_note"}, internal \in BOOLEAN :
          recordCommunication(r, type, internal)
    /\ UNCHANGED <<today, subscriber, digestLog, digestPass, mails, earned, imports, uploads>>

PostInternalNote ==
    /\ \E r \in Reader : addInternalNote(r)
    /\ UNCHANGED <<today, subscriber, digestLog, digestPass, mails, earned, imports, uploads>>

\* A file without a line below its header has no rows.
parseCsv == {<<>>} \cup Upload

\* Good rows are valid when their shares are whole, and otherwise errors as well.
validateCsvRows(rows) ==
    LET good == {k \in DOMAIN rows : rows[k] \in 0..100}
        valid == IF SumFunctionOnSet(rows, good) = 100 THEN good ELSE {}
    IN  [valid |-> valid, errors |-> DOMAIN rows \ valid]

createCsvImport(v) == Cardinality(v.valid) + Cardinality(v.errors)
addImportResult(rows, v) ==
    [k \in DOMAIN rows |-> [share |-> rows[k], status |-> IF k \in v.valid THEN "success" ELSE "error"]]
markImportFailed(v) == v.errors # {}

ResultsWith(i, status) == {k \in DOMAIN imports[i].results : imports[i].results[k].status = status}
getImportSummary(i) ==
    [total |-> Cardinality(DOMAIN imports[i].results),
     successCount |-> Cardinality(ResultsWith(i, "success")),
     errorCount |-> Cardinality(ResultsWith(i, "error"))]

\* Validation and preview delete the uploaded file.  The import writes its rows
\* first; its audit action is refused, which skips the deletion.
PostImport ==
    /\ Len(imports) < MaxNotes
    /\ \E rows \in parseCsv :
          LET v == validateCsvRows(rows)
          IN  imports' = Append(imports, [rowCount |-> createCsvImport(v), results |-> addImportResult(rows, v),
                                          status |-> IF markImportFailed(v) THEN "failed" ELSE "completed"])
    /\ uploads' = uploads + 1
    /\ UNCHANGED <<today, subscriber, digestLog, digestPass, mails, earned, notes>>

OfficeNext == PostCommunication \/ PostInternalNote \/ PostImport

-----------------------------------------------------------------------------
\* A digest is mailed twice for one week only by passes that overlap: when the
\* log says sent, no pass that reads the log later mails again, whatever was
\* refused, resubscribed or moved to another day in between.
SentStopsLaterPasses ==
    \A i \in DOMAIN mails : \A k \in 1..mails[i].seen :
        ~(digestLog[k].reader = mails[i].reader /\ digestLog[k].week = mails[i].week
            /\ digestLog[k].status = "sent")

\* A subscriber's history has every digest that was mailed to it, and rows of its
\* own only; a contributor's own list never holds an internal entry, and its count
\* is its length.
HistoriesAgree ==
    /\ \A i \in DOMAIN mails :
          Logged(mails[i].reader, mails[i].week, "sent") \in ToSet(getDigestHistory(mails[i].reader))
    /\ \A r \in Reader :
          /\ \A d \in ToSet(getDigestHistory(r)) : d.reader = r
          /\ \A inside \in BOOLEAN :
                Len(getCommunicationsByWallet(r, inside)) = countCommunications(r, inside)
          /\ \A n \in ToSet(getCommunicationsByWallet(r, FALSE)
                              \o searchCommunications("internal_note", FALSE)) : ~n.internal

\* An import has a result for every row it counted, it is completed exactly when
\* none of them is an error (a file without rows is), and the shares it took, if it
\* took any, are whole: those of a failed import as well.
ImportsAreWhole ==
    \A i \in DOMAIN imports :
        /\ getImportSummary(i).total = imports[i].rowCount
        /\ (imports[i].status = "completed") = (getImportSummary(i).errorCount = 0)
        /\ getImportSummary(i).successCount = 0
             \/ SumFunctionOnSet([k \in DOMAIN imports[i].results |-> imports[i].results[k].share],
                                 ResultsWith(i, "success")) = 100

OfficeListsAgree == HistoriesAgree /\ ImportsAreWhole /\ uploads = Len(imports)
=============================================================================
