---------------------------- MODULE MCSplitter ----------------------------
(***************************************************************************)
(* Small instances of the contract, a scene each: every scene starts from  *)
(* a fresh deployment and lets one group of entry points interleave with   *)
(* the ones it interacts with.  ControlSpec holds the scenes about who     *)
(* decides (the split, the admins, the royalty rate), MoneySpec the scenes *)
(* about what is paid; the .cfg files choose the constants.                *)
(***************************************************************************)
EXTENDS RoyaltySplitter

CONSTANTS a, b, c,  \* accounts
          t, u      \* tokens

VARIABLE scene

mcVars == <<vars, scene>>

Entry(address, share) == [address |-> address, share |-> share]

\* initialize, once, with the scene's split.
Start(people, shares) == Initialize({people[1]}, people, shares)

\* c never signs with another, so an admin list that needs both waits for ever.
Signers == {{a}, {b}, {c}, {a, b}}
Payers == {{a}, {b}, {a, b}}

-----------------------------------------------------------------------------
\* Setting up and changing the split; some of the inputs must be refused.
SetupInputs ==
    {<<<<a, b>>, <<5000, 5000>>>>, <<<<b>>, <<10000>>>>,
     <<<<a, a>>, <<5000, 5000>>>>, <<<<a, b>>, <<10000, 0>>>>}
SetupLists ==
    {<<Entry(a, 5000), Entry(b, 5000)>>, <<Entry(c, 4000), Entry(a, 6000)>>,
     <<Entry(b, 10000)>>, <<Entry(a, 10000), Entry(c, 0)>>,
     <<Entry(b, 5000), Entry(b, 5000)>>, <<Entry(a, 5000), Entry(c, 4999)>>}
SetupScene == CloseLedger \/ InitializeNext \/ RecipientsNext

\* Upgrading before and after the contract is initialized.
UpgradeScene == (CloseLedger /\ ledger < 3) \/ InitializeNext \/ UpgradeNext

\* Handing the administration over.
SmallAdminLists == {<<a>>, <<a, b>>, <<b, c>>, <<c, b>>, <<b, b>>}
AdminScene == CloseLedger \/ Start(<<a>>, <<10000>>) \/ AdminNext \/ EmergencyNext

\* The royalty rate: of two halves one is not a majority.  The one who proposes is
\* not the admin, so that the history tells the two paths apart, and proposes one
\* rate first and another then.
GovernanceScene ==
    /\ (CloseLedger /\ ledger < 3) \/ Start(<<a, b>>, <<5000, 5000>>) \/ GovernanceNext
    /\ \A id \in DOMAIN proposals' : proposals'[id].proposer = b /\ proposals'[id].new_rate = <<10000, 300>>[id]

ControlInit ==
    /\ Init
    /\ scene \in {"setup", "upgrade", "admin", "governance"}
    /\ scene # "upgrade" => wasm = 1

ControlNext ==
    /\ UNCHANGED scene
    /\ \/ scene = "setup" /\ SetupScene
       \/ scene = "upgrade" /\ UpgradeScene
       \/ scene = "admin" /\ AdminScene
       \/ scene = "governance" /\ GovernanceScene

ControlSpec == ControlInit /\ [][ControlNext]_mcVars

\* The rate is voted on while the split changes.
ReshuffleNext == UNCHANGED scene /\ scene = "governance" /\ (GovernanceScene \/ RecipientsNext)

ReshuffleSpec == ControlInit /\ [][ReshuffleNext]_mcVars

-----------------------------------------------------------------------------
\* Payments.
Unequal == Start(<<a, b>>, <<3333, 6667>>)
OverrideLists == {<<Entry(b, 9999), Entry(a, 1)>>, <<Entry(b, 5000), Entry(b, 5000)>>}
SmallBatches == {<<t>>, <<t, u>>, <<u, t>>, <<t, t>>}
LateJoiners == {<<Entry(c, 2), Entry(a, 9998)>>, <<Entry(b, 4001), Entry(a, 3333), Entry(c, 2666)>>}
SmallClawbacks ==
    {<<<<b>>, <<1>>>>, <<<<b, c>>, <<1, 1>>>>, <<<<b, b>>, <<1, 2>>>>, <<<<b>>, <<0>>>>}

\* Two tokens, every payment path, no switches: two accounts have the tokens.
PoolScene ==
    /\ Unequal \/ DepositNext \/ PaymentsNext
    /\ secondaryPool' <= 3
    /\ \A x \in DOMAIN activity' : x = b

\* One token, every payment path under every switch.
SwitchScene ==
    /\ Unequal \/ DepositNext \/ PaymentsNext \/ EmergencyNext \/ SwitchNext
    /\ secondaryToken' # u /\ secondaryPool' <= 3 /\ u \notin approvedTokens'
    /\ \A x \in DOMAIN activity' : x # c /\ activity'[x] <= 1

\* Incentives: activity and time move the shares.
IncentiveScene ==
    /\ \/ CloseLedger \/ Unequal
       \/ \E signers \in AuthSets :
             \/ \E enabled \in BOOLEAN : SetIncentivesEnabled(signers, enabled)
             \/ \E recipients \in LateJoiners : SetRecipients(signers, recipients)
             \/ DistributeWithIncentives(signers, t)
       \/ \E from \in Address : RecordSecondaryRoyalty({from}, t, from, 1)
    /\ distributeHistory' <= 1

\* Disputes and the money they pull back.
DisputeScene ==
    /\ \/ (CloseLedger /\ ledger < 2) \/ Start(<<a>>, <<10000>>) \/ DepositNext \/ DisputesNext
       \/ \E signers \in AuthSets, amount \in Amounts : Withdraw(signers, t, amount)
       \/ \E signers \in AuthSets : DistributeWithOverride(signers, t, <<>>)
    /\ distributeHistory' <= 1

\* The accounts that start with tokens, and the tokens they have.
Funded == [pool      |-> {<<a, t>>, <<b, t>>, <<b, u>>},
           switches  |-> {b} \X {t},
           incentive |-> {a, b, c} \X {t},
           disputes  |-> {a, b, c} \X {t}]

MoneyInit ==
    /\ scene \in {"pool", "switches", "incentive", "disputes"}
    /\ Deployed
    /\ balance = [token \in Token |-> [h \in Holder |-> IF <<h, token>> \in Funded[scene] THEN Supply ELSE 0]]
    /\ wasm = 1 /\ contractVersion = None

MoneyNext ==
    /\ UNCHANGED scene
    /\ \/ scene = "pool" /\ PoolScene
       \/ scene = "switches" /\ SwitchScene
       \/ scene = "incentive" /\ IncentiveScene
       \/ scene = "disputes" /\ DisputeScene

MoneySpec == MoneyInit /\ [][MoneyNext]_mcVars

\* Two tokens in one batch under an anomaly threshold.
TripNext == UNCHANGED scene /\ scene = "pool" /\ (Unequal \/ DepositNext \/ PaymentsNext \/ SwitchNext)

TripSpec == MoneyInit /\ [][TripNext]_mcVars

=============================================================================
