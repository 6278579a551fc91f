----------------------------- MODULE OfficeForms -----------------------------
(***************************************************************************)
(* Three forms of the contract's staff: the upload of a contributors file  *)
(* (BulkContributorUpload.tsx), the record of a resale                     *)
(* (RecordSecondarySale.tsx) and the distribution of the pool of resale    *)
(* royalties (DistributeSecondaryRoyalties.tsx).  The contract they work   *)
(* for is a prop that may change at any time; a handler keeps the one of   *)
(* the render it was made in.                                              *)
(***************************************************************************)
EXTENDS Integers, Sequences, FiniteSets, SequencesExt

CONSTANTS
    OfficeContract,
    CsvFile, ValidRows,   \* files, and per file its number of valid rows
    PoolOf,               \* per contract: the pool's balance
    MaxEntries,           \* bound on what the user types or picks
    MaxRequests           \* bound on the submissions of a form

ASSUME OfficeAssumption == MaxEntries \in Nat

VARIABLES
    officeContract,
    upFile, upStep, upPreview, upImport,  \* upImport: the file the import under way sends
    upDone,               \* imports the backend has run: file, and the rows succeeded on the button
    entry,                \* what the form holds: the number of the entry, 0 when blank
    formStep, formAsked,  \* the handler's place, and [entry, contract] it was started with
    formStatus,
    rowsOf, taken,        \* per entry: rows the backend wrote, transactions the ledger took
    succeeded,            \* per entry: times the form reported success
    poolBalance, poolAsks,
    entries, requests

uploadVars == <<upFile, upStep, upPreview, upImport, upDone>>
staffFormVars == <<entry, formStep, formAsked, formStatus, rowsOf, taken, succeeded, requests>>
poolVars == <<poolBalance, poolAsks>>
officeVars == <<officeContract, uploadVars, staffFormVars, poolVars, entries>>

NoFile == "no file"
BlankForm == 0
Unknown == -1             \* the balance before any answer
NotAsked == [entry |-> BlankForm, contract |-> NoFile]
Entry == 1 .. MaxEntries

OfficeInit ==
    /\ officeContract = (CHOOSE c \in OfficeContract : TRUE)
    /\ upFile = NoFile /\ upStep = "upload" /\ upPreview = NoFile /\ upImport = NoFile /\ upDone = {}
    /\ entry = BlankForm /\ formStep = "idle" /\ formAsked = NotAsked /\ formStatus = "none"
    /\ rowsOf = [e \in Entry |-> 0] /\ taken = [e \in Entry |-> 0] /\ succeeded = [e \in Entry |-> 0]
    /\ poolBalance = Unknown /\ poolAsks = {officeContract}
    /\ entries = 0 /\ requests = 0

-----------------------------------------------------------------------------
\* The upload of a file.

\* The drop zone is there in the first step only; a file that is no CSV is refused.
handleFileSelect(f) ==
    /\ upStep = "upload" /\ entries < MaxEntries
    /\ entries' = entries + 1
    /\ upFile' = f /\ upStep' = "preview"
    /\ UNCHANGED <<upPreview, upImport, upDone, officeContract, staffFormVars, poolVars>>

handleDrop(f) == handleFileSelect(f)

\* What the preview found is kept as the file it is of.
handlePreview ==
    /\ upStep = "preview" /\ upPreview = NoFile
    /\ \/ upPreview' = upFile /\ UNCHANGED upStep
       \/ upStep' = "upload" /\ UNCHANGED upPreview
    /\ UNCHANGED <<upFile, upImport, upDone, officeContract, staffFormVars, poolVars, entries>>

PreviewPanel == upStep = "preview" /\ upPreview # NoFile

\* The button names the rows of the preview, and the file chosen is sent.
handleImport ==
    /\ PreviewPanel /\ ValidRows[upPreview] > 0
    /\ upStep' = "importing" /\ upImport' = upFile
    /\ UNCHANGED <<upFile, upPreview, upDone, officeContract, staffFormVars, poolVars, entries>>

\* The backend has imported the file; its answer may be lost.
ImportEnds ==
    /\ upStep = "importing"
    /\ \/ upDone' = upDone \cup {[file |-> upImport, promised |-> ValidRows[upPreview]]} /\ upStep' \in {"done", "preview"}
       \/ upStep' = "preview" /\ UNCHANGED upDone
    /\ upImport' = NoFile
    /\ UNCHANGED <<upFile, upPreview, officeContract, staffFormVars, poolVars, entries>>

\* Cancel, or Import Another File.
handleReset ==
    /\ PreviewPanel \/ upStep = "done"
    /\ upFile' = NoFile /\ upPreview' = NoFile /\ upStep' = "upload"
    /\ UNCHANGED <<upImport, upDone, officeContract, staffFormVars, poolVars, entries>>

UploadNext ==
    \/ handlePreview \/ handleImport \/ ImportEnds \/ handleReset
    \/ \E f \in CsvFile : handleFileSelect(f) \/ handleDrop(f)

-----------------------------------------------------------------------------
\* The record of a resale: the backend writes the sale and answers with a
\* transaction, the wallet signs and submits it, the backend is told.

\* The fields are disabled while the handler runs; an entry is one way of filling them.
updateField ==
    /\ formStep = "idle" /\ entries < MaxEntries
    /\ entries' = entries + 1
    /\ entry' = entries + 1
    /\ UNCHANGED <<formStep, formAsked, formStatus, rowsOf, taken, succeeded, requests, officeContract, uploadVars, poolVars>>

isFormValid == entry # BlankForm

\* The handler's first segment, of both forms.
FormStarts(step) ==
    /\ formStep = "idle" /\ requests < MaxRequests
    /\ requests' = requests + 1
    /\ formStep' = step /\ formStatus' = "info"
    /\ formAsked' = [entry |-> entry, contract |-> officeContract]

FormEnds(status) == formStep' = "idle" /\ formAsked' = NotAsked /\ formStatus' = status

Counted(counter) == counter' = [counter EXCEPT ![formAsked.entry] = @ + 1]

submitSale ==
    /\ isFormValid
    /\ FormStarts("recording")
    /\ UNCHANGED <<entry, rowsOf, taken, succeeded, officeContract, uploadVars, poolVars, entries>>

\* The row is written before the answer, and before any signature.
SaleIsWritten ==
    /\ formStep = "recording"
    /\ Counted(rowsOf)
    /\ \/ formStep' = "signing" /\ UNCHANGED <<formStatus, formAsked>>
       \/ FormEnds("error")
    /\ UNCHANGED <<entry, taken, succeeded, requests, officeContract, uploadVars, poolVars, entries>>

FormRequestFails ==
    /\ formStep \in {"recording", "building"}
    /\ FormEnds("error")
    /\ UNCHANGED <<entry, rowsOf, taken, succeeded, requests, officeContract, uploadVars, poolVars, entries>>

\* The wallet refuses, the ledger does, or it takes what the page no longer waits for.
SigningFails ==
    /\ formStep \in {"signing", "signing pool"}
    /\ FormEnds("error")
    /\ Counted(taken) \/ UNCHANGED taken
    /\ UNCHANGED <<entry, rowsOf, succeeded, requests, officeContract, uploadVars, poolVars, entries>>

SaleIsTaken ==
    /\ formStep = "signing"
    /\ Counted(taken)
    /\ formStep' = "confirming"
    /\ UNCHANGED <<entry, formStatus, formAsked, rowsOf, succeeded, requests, officeContract, uploadVars, poolVars, entries>>

SaleIsConfirmed ==
    /\ formStep = "confirming"
    /\ \/ FormEnds("ok") /\ Counted(succeeded) /\ entry' = BlankForm
       \/ FormEnds("error") /\ UNCHANGED <<succeeded, entry>>
    /\ UNCHANGED <<rowsOf, taken, requests, officeContract, uploadVars, poolVars, entries>>

SaleNext == updateField \/ submitSale \/ SaleIsWritten \/ FormRequestFails \/ SigningFails \/ SaleIsTaken \/ SaleIsConfirmed

-----------------------------------------------------------------------------
\* The distribution of the pool.

\* The pool's balance is asked for; nothing says for which contract it comes.
OfficeContractChanges ==
    /\ entries < MaxEntries
    /\ entries' = entries + 1
    /\ officeContract' \in OfficeContract \ {officeContract}
    /\ poolAsks' = poolAsks \cup {officeContract'}
    /\ UNCHANGED <<poolBalance, uploadVars, staffFormVars>>

PoolAnswers ==
    /\ \E c \in poolAsks :
          /\ poolAsks' = poolAsks \ {c}
          /\ poolBalance' \in {PoolOf[c], 0}
    /\ UNCHANGED <<officeContract, uploadVars, staffFormVars, entries>>

submitPool ==
    /\ isFormValid /\ poolBalance # 0
    /\ FormStarts("building")
    /\ UNCHANGED <<entry, rowsOf, taken, succeeded, officeContract, uploadVars, poolVars, entries>>

\* The backend has marked the sales and recorded the distribution; without any it answers so.
PoolIsBuilt ==
    /\ formStep = "building"
    /\ IF PoolOf[formAsked.contract] = 0
       THEN FormEnds("error") /\ UNCHANGED rowsOf
       ELSE /\ Counted(rowsOf)
            /\ formStep' = "signing pool"
            /\ UNCHANGED <<formStatus, formAsked>>
    /\ UNCHANGED <<entry, taken, succeeded, requests, officeContract, uploadVars, poolVars, entries>>

\* The backend is not told: its row stays pending.
PoolIsTaken ==
    /\ formStep = "signing pool"
    /\ Counted(taken) /\ Counted(succeeded)
    /\ FormEnds("ok") /\ entry' = BlankForm
    /\ UNCHANGED <<rowsOf, requests, officeContract, uploadVars, poolVars, entries>>

PoolNext ==
    \/ updateField \/ submitPool \/ FormRequestFails \/ PoolIsBuilt \/ SigningFails \/ PoolIsTaken
    \/ OfficeContractChanges \/ PoolAnswers

-----------------------------------------------------------------------------
\* The file imported is the one whose rows the button promised, also after
\* a cancel, a failed preview or a failed import, in whatever order.
ImportsWhatWasPreviewed == \A i \in upDone : i.promised = ValidRows[i.file]

\* What the user typed once is reported as done once at most, and only when
\* the ledger has taken it and the backend has a row for every transaction
\* the ledger took: a second click after a success finds the form blank, and
\* one after a failure may pay again but always with a row of its own.
EntrySucceedsOnce ==
    \A e \in Entry :
        /\ succeeded[e] <= 1
        /\ succeeded[e] <= taken[e] /\ taken[e] <= rowsOf[e]
        /\ formStatus = "ok" /\ formStep = "idle" => entry # e \/ succeeded[e] = 0
=============================================================================
