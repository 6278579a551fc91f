------------------------------ MODULE SetupForm ------------------------------
(***************************************************************************)
(* The form that initializes a contract (InitializeForm.tsx), its checks   *)
(* (lib/formValidation.ts), its files (utils/royaltyConfig.ts), its draft  *)
(* (hooks/useRoyaltyDraft.ts) and what the server takes of it              *)
(* (initializeSchema of validation.js).                                    *)
(*                                                                         *)
(* A percentage is a number of thousandths of a percent, so that rounding  *)
(* to basis points is seen.  The button is disabled while a submission     *)
(* runs, the keyboard shortcut is not: submissions overlap.  The contract  *)
(* is App's and may change at any time; the form keeps everything then,    *)
(* the payload waiting to be revealed too.                                 *)
(***************************************************************************)
EXTENDS Integers, Sequences, SequencesExt, FiniteSets, FiniteSetsExt

CONSTANTS
    SetupContract,    \* contracts the user turns to
    Account,          \* addresses that are well formed
    Percentage,       \* percentages typed or read, in thousandths of a percent
    MAX_COLLABORATORS,
    MaxShares,        \* what the server takes at most
    Submission,       \* submissions that may overlap
    MaxEdits          \* bound on changes of the form

VARIABLES
    setupContract,    \* the contract shown
    collaborators,    \* the rows
    errors,           \* the fields with an error: row and field
    loading,
    pendingCommit,    \* the payload committed and not yet revealed
    submissions,      \* per submission: where it is, its contract and payload, whether
                      \* it reveals, whether the form that made it is still mounted
    commitment,       \* on the ledger, per contract: the payload committed last
    everCommitted,    \* per contract: the payloads ever committed
    installed,        \* on the ledger, per contract: the payload revealed
    draftStore,       \* localStorage
    pendingDraft,     \* the draft offered
    saveTimer,        \* an autosave is due
    cleared,          \* the user removed the saved draft after the last save
    edits

formVars == <<setupContract, collaborators, errors, loading, pendingCommit>>
chainVars == <<commitment, everCommitted, installed>>
draftVars == <<draftStore, pendingDraft, saveTimer, cleared>>
setupVars == <<formVars, submissions, chainVars, draftVars, edits>>

NoPayload == [collaborators |-> <<>>, shares |-> <<>>]
ShownFirst == CHOOSE c \in SetupContract : TRUE
Resting == [at |-> "idle", contract |-> ShownFirst, payload |-> NoPayload, reveal |-> FALSE, here |-> TRUE]
NoDraft == <<>>
Blank == -1                       \* nothing typed
Whole == 100000                   \* 100 percent
NoAddress == ""
Malformed == "malformed"
AddressText == Account \cup {NoAddress, Malformed}
EmptyRow == [address |-> NoAddress, basisPoints |-> Blank]
Field == {"address", "basisPoints"}

ASSUME SetupAssumption ==
    /\ NoAddress \notin Account /\ Percentage \subseteq Nat
    /\ MAX_COLLABORATORS \in Nat \ {0}
    /\ SetupContract # {}

SetupInit ==
    /\ setupContract = ShownFirst
    /\ collaborators = <<EmptyRow>> /\ errors = {}
    /\ loading = FALSE /\ pendingCommit = NoPayload
    /\ submissions = [t \in Submission |-> Resting]
    /\ commitment = [c \in SetupContract |-> NoPayload] /\ installed = commitment
    /\ everCommitted = [c \in SetupContract |-> {}]
    /\ draftStore = NoDraft /\ pendingDraft = NoDraft /\ saveTimer = FALSE /\ cleared = FALSE
    /\ edits = 0

-----------------------------------------------------------------------------
\* The checks.

getAccountAddressError(a) == a # NoAddress /\ a \notin Account
getPercentageValidationError(p) == p = Blank \/ p > Whole

\* Math.round(percent * 100)
RoundToBasisPoints(p) == (p + 5) \div 10

SumPercent(rows) == FoldSeq(LAMBDA c, sum : sum + (IF c.basisPoints = Blank THEN 0 ELSE c.basisPoints), 0, rows)
SumsToWhole(rows) == RoundToBasisPoints(SumPercent(rows)) = 10000
NoDuplicates(rows) ==
    \A i, j \in DOMAIN rows : rows[i].address = rows[j].address => i = j \/ rows[i].address = NoAddress
Rows == DOMAIN collaborators

hasEmptyFields == \E i \in Rows : collaborators[i].address = NoAddress \/ collaborators[i].basisPoints = Blank
hasInvalidPercentages == \E i \in Rows : getPercentageValidationError(collaborators[i].basisPoints)
hasErrors == errors # {}

\* What ValidationSummary lists.
validationIssues ==
    {<<i, "address">> : i \in {i \in Rows : collaborators[i].address \notin Account}}
    \cup {<<i, "basisPoints">> : i \in {i \in Rows : getPercentageValidationError(collaborators[i].basisPoints)}}
    \cup (IF NoDuplicates(collaborators) THEN {} ELSE {<<0, "address">>})
    \cup (IF SumsToWhole(collaborators) THEN {} ELSE {<<0, "basisPoints">>})

SubmitEnabled == ~loading /\ ~hasErrors /\ ~hasEmptyFields /\ ~hasInvalidPercentages

-----------------------------------------------------------------------------
\* Editing.  Every change of the rows sets the autosave timer anew.

Edited(rows) ==
    /\ edits < MaxEdits
    /\ edits' = edits + 1
    /\ collaborators' = rows
    /\ saveTimer' = TRUE
    /\ UNCHANGED <<setupContract, loading, pendingCommit, submissions, chainVars, draftStore, pendingDraft, cleared>>

validateRow(i, field, bad) == errors' = IF bad THEN errors \cup {<<i, field>>} ELSE errors \ {<<i, field>>}

\* Only leaving the field checks an address.
EditAddress(i, a) ==
    /\ Edited([collaborators EXCEPT ![i].address = a])
    /\ UNCHANGED errors

EditPercentage(i, p) ==
    /\ Edited([collaborators EXCEPT ![i].basisPoints = p])
    /\ validateRow(i, "basisPoints", getPercentageValidationError(p))

\* A sign or a letter: the error shows, the value stays.
RefusePercentage(i) ==
    /\ validateRow(i, "basisPoints", TRUE)
    /\ UNCHANGED <<setupContract, collaborators, loading, pendingCommit, submissions, chainVars, draftVars, edits>>

handleBlur(i, field) ==
    /\ IF field = "address"
         THEN validateRow(i, field, getAccountAddressError(collaborators[i].address))
         ELSE validateRow(i, field, getPercentageValidationError(collaborators[i].basisPoints))
    /\ UNCHANGED <<setupContract, collaborators, loading, pendingCommit, submissions, chainVars, draftVars, edits>>

addRow ==
    /\ Len(collaborators) < MAX_COLLABORATORS
    /\ Edited(Append(collaborators, EmptyRow))
    /\ UNCHANGED errors

\* The errors keep the numbers of their rows.
removeRow(i) ==
    /\ Len(collaborators) > 1
    /\ Edited(RemoveAt(collaborators, i))
    /\ UNCHANGED errors

-----------------------------------------------------------------------------
\* Files.

parseRoyaltyConfigImport(file) ==
    /\ file # <<>> /\ Len(file) <= MAX_COLLABORATORS
    /\ \A i \in DOMAIN file : file[i].address \in Account
                              /\ file[i].basisPoints > 0 /\ file[i].basisPoints <= Whole
    /\ NoDuplicates(file)
    /\ SumsToWhole(file)

buildRoyaltyConfigExport(rows) ==
    /\ rows # <<>>
    /\ \A i \in DOMAIN rows : rows[i].address \in Account
                              /\ rows[i].basisPoints > 0 /\ rows[i].basisPoints <= Whole
    /\ NoDuplicates(rows)
    /\ SumsToWhole(rows)

handleImportFile(file) ==
    /\ parseRoyaltyConfigImport(file)
    /\ Edited(file)
    /\ errors' = {}

FileRow == [address : AddressText, basisPoints : Percentage]
File == {<<r>> : r \in FileRow} \cup {<<r, s>> : r \in FileRow, s \in FileRow}

-----------------------------------------------------------------------------
\* Submitting: commit, and once that is confirmed, reveal.

SharesOf(rows) == [i \in DOMAIN rows |-> RoundToBasisPoints(rows[i].basisPoints)]
AddressesOf(rows) == [i \in DOMAIN rows |-> rows[i].address]

\* Mutant: the reveal is built from the rows as they are now.
PayloadFromRows ==
    [collaborators |-> AddressesOf(collaborators), shares |-> SharesOf(collaborators)]

PayloadToSend ==
    IF pendingCommit # NoPayload THEN pendingCommit
    ELSE [collaborators |-> AddressesOf(collaborators), shares |-> SharesOf(collaborators)]

\* Rows with errors only gain their marks.
RefuseSubmit ==
    LET marks == {<<i, "address">> : i \in {i \in Rows : collaborators[i].address \notin Account}}
                 \cup {<<i, "basisPoints">> : i \in {i \in Rows : getPercentageValidationError(collaborators[i].basisPoints)}}
    IN  /\ marks # {}
        /\ errors' = errors \cup marks
        /\ UNCHANGED <<setupContract, collaborators, loading, pendingCommit, submissions, chainVars, draftVars, edits>>

\* By the button or, whatever its state, by the shortcut.
submit(t) ==
    /\ submissions[t].at = "idle"
    /\ \A i \in Rows : /\ collaborators[i].address \in Account
                       /\ ~getPercentageValidationError(collaborators[i].basisPoints)
    /\ SumsToWhole(collaborators)
    /\ NoDuplicates(collaborators)
    /\ submissions' = [submissions EXCEPT ![t] =
          [at |-> "building", contract |-> setupContract, payload |-> PayloadToSend,
           reveal |-> pendingCommit # NoPayload, here |-> TRUE]]
    /\ loading' = TRUE
    /\ UNCHANGED <<setupContract, collaborators, errors, pendingCommit, chainVars, draftVars, edits>>

initializeSchema(payload) ==
    /\ Len(payload.collaborators) <= MaxShares
    /\ Len(payload.collaborators) = Len(payload.shares)
    /\ FoldSeq(LAMBDA s, sum : s + sum, 0, payload.shares) = 10000

ServerBuilds(t) ==
    /\ submissions[t].at = "building"
    /\ initializeSchema(submissions[t].payload)
    /\ submissions[t].reveal \/ installed[submissions[t].contract] = NoPayload
    /\ submissions' = [submissions EXCEPT ![t].at = "signing"]
    /\ UNCHANGED <<formVars, chainVars, draftVars, edits>>

\* Signed and sent: the ledger takes a commitment, and a reveal of the last one made
\* to this contract unless it gives somebody nothing.
LedgerTakes(t) ==
    LET s == submissions[t]
        c == submissions[t].contract
    IN  /\ s.at = "signing" /\ installed[c] = NoPayload
        /\ IF s.reveal
             THEN /\ commitment[c] # NoPayload /\ commitment[c] = s.payload
                  /\ \A i \in DOMAIN s.payload.shares : s.payload.shares[i] # 0
                  /\ installed' = [installed EXCEPT ![c] = s.payload]
                  /\ commitment' = [commitment EXCEPT ![c] = NoPayload]
                  /\ UNCHANGED everCommitted
             ELSE /\ commitment' = [commitment EXCEPT ![c] = s.payload]
                  /\ everCommitted' = [everCommitted EXCEPT ![c] = @ \cup {s.payload}]
                  /\ UNCHANGED installed
        /\ submissions' = [submissions EXCEPT ![t].at = "sent"]
        /\ UNCHANGED <<formVars, draftVars, edits>>

\* The branch was chosen when the submission began; a form that is gone takes no
\* notice.
SubmissionConfirmed(t) ==
    /\ submissions[t].at = "sent"
    /\ pendingCommit' = IF ~submissions[t].here THEN pendingCommit
                        ELSE IF submissions[t].reveal THEN NoPayload ELSE submissions[t].payload
    /\ loading' = (loading /\ ~submissions[t].here)
    /\ submissions' = [submissions EXCEPT ![t] = Resting]
    /\ UNCHANGED <<setupContract, collaborators, errors, chainVars, draftVars, edits>>

\* Refused, not signed, failed on the ledger, or the poll ran out.
SubmissionFails(t) ==
    /\ submissions[t].at # "idle"
    /\ loading' = (loading /\ ~submissions[t].here)
    /\ submissions' = [submissions EXCEPT ![t] = Resting]
    /\ UNCHANGED <<setupContract, collaborators, errors, pendingCommit, chainVars, draftVars, edits>>

-----------------------------------------------------------------------------
\* The draft.

isValidDraft(rows) == rows # <<>> /\ \A i \in DOMAIN rows : rows[i].address \in Account
IsCompleteValidDraft ==
    \A i \in Rows : collaborators[i].address \in Account /\ collaborators[i].basisPoints # Blank

AutosaveFires ==
    /\ saveTimer
    /\ saveTimer' = FALSE
    /\ IF IsCompleteValidDraft THEN draftStore' = collaborators /\ cleared' = FALSE
                               ELSE UNCHANGED <<draftStore, cleared>>
    /\ UNCHANGED <<formVars, submissions, chainVars, pendingDraft, edits>>

acceptDraft ==
    /\ pendingDraft # NoDraft
    /\ draftStore' = NoDraft
    /\ collaborators' = pendingDraft /\ errors' = {}
    /\ pendingDraft' = NoDraft
    /\ saveTimer' = TRUE
    /\ UNCHANGED <<setupContract, loading, pendingCommit, submissions, chainVars, cleared, edits>>

discardDraft ==
    /\ pendingDraft # NoDraft
    /\ draftStore' = NoDraft /\ pendingDraft' = NoDraft /\ cleared' = TRUE
    /\ UNCHANGED <<formVars, submissions, chainVars, saveTimer, edits>>

\* The timer goes on.
clearSavedDraft ==
    /\ draftStore # NoDraft \/ saveTimer
    /\ draftStore' = NoDraft /\ pendingDraft' = NoDraft /\ cleared' = TRUE
    /\ UNCHANGED <<formVars, submissions, chainVars, saveTimer, edits>>

\* Another page, or a reload: what was typed is gone, the timer with it.
Remount ==
    /\ edits < MaxEdits
    /\ edits' = edits + 1
    /\ collaborators' = <<EmptyRow>> /\ errors' = {}
    /\ loading' = FALSE /\ pendingCommit' = NoPayload
    /\ pendingDraft' = IF isValidDraft(draftStore) THEN draftStore ELSE NoDraft
    /\ saveTimer' = FALSE /\ cleared' = FALSE
    /\ submissions' = [t \in Submission |->
                         IF submissions[t].at = "idle" THEN Resting ELSE [submissions[t] EXCEPT !.here = FALSE]]
    /\ UNCHANGED <<setupContract, chainVars, draftStore>>

\* App shows another contract: the form has it with its next submission.
ContractChanges(c) ==
    /\ c # setupContract /\ edits < MaxEdits
    /\ edits' = edits + 1
    /\ setupContract' = c
    /\ UNCHANGED <<collaborators, errors, loading, pendingCommit, submissions, chainVars, draftVars>>

-----------------------------------------------------------------------------
TypeNext ==
    \/ \E i \in Rows :
          \/ \E a \in AddressText : EditAddress(i, a)
          \/ \E p \in Percentage \cup {Blank} : EditPercentage(i, p)
          \/ \E f \in Field : handleBlur(i, f)
          \/ RefusePercentage(i) \/ removeRow(i)
    \/ addRow
    \/ \E file \in File : handleImportFile(file)
    \/ Remount

SubmitNext ==
    \/ RefuseSubmit \/ \E c \in SetupContract : ContractChanges(c)
    \/ \E t \in Submission :
          submit(t) \/ ServerBuilds(t) \/ LedgerTakes(t) \/ SubmissionConfirmed(t) \/ SubmissionFails(t)

DraftNext == AutosaveFires \/ acceptDraft \/ discardDraft \/ clearSavedDraft

-----------------------------------------------------------------------------
\* Whatever is typed or submitted meanwhile and whichever contract is shown, a
\* reveal sends a payload that was committed to some contract, the ledger installs
\* for a contract only a split of exactly the whole committed to it, a form with no
\* issue listed and no row of zero percent can be exported to a file that is read
\* back, and with the button enabled the issues left are addresses or about the
\* rows together.
RevealFollowsItsCommit ==
    /\ \A t \in Submission :
          submissions[t].at # "idle" /\ submissions[t].reveal =>
              \E c \in SetupContract : submissions[t].payload \in everCommitted[c]
    /\ \A c \in SetupContract :
          installed[c] # NoPayload => installed[c] \in everCommitted[c] /\ initializeSchema(installed[c])
    /\ buildRoyaltyConfigExport(collaborators) => parseRoyaltyConfigImport(collaborators)
    /\ validationIssues = {} /\ (\A i \in Rows : collaborators[i].basisPoints # 0) =>
          buildRoyaltyConfigExport(collaborators)
    /\ SubmitEnabled => \A issue \in validationIssues : issue[1] = 0 \/ issue[2] = "address"

\* What is stored can be offered again, and once the timer has run a complete
\* form is what is stored, unless the user removed it after that.
DraftKeepsUp ==
    /\ draftStore # NoDraft => isValidDraft(draftStore)
    /\ ~saveTimer /\ IsCompleteValidDraft /\ ~cleared => draftStore = collaborators
=============================================================================
