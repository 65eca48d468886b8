----------------------------- MODULE BackOffice -----------------------------
(***************************************************************************)
(* The back office beside the traffic of webhooks: accounts, CLI tokens,   *)
(* billing, the catalog of endpoints, the inbox, the waitlist, the walks   *)
(* over pages of rows and the scans of stored requests. They share the way *)
(* in which rows are loaded and flushed, and no row that one of them       *)
(* writes and another reads but two, which the reader takes for anything   *)
(* at any time: the plan of a user in the catalog, and rows in a walk. So  *)
(* a behaviour moves one of them, the one in focus: whatever the others do *)
(* beside it changes nothing it can see.                                   *)
(***************************************************************************)
EXTENDS Accounts, CliTokens, Billing, EndpointCatalog, Inbox, Waitlist, PagedWalk, WebhookScan

VARIABLE focus  (* the component that moves                                *)

Component == {"accounts", "tokens", "billing", "catalog", "inbox", "waitlist", "walk", "scan"}

backOfficeVars == <<accountsVars, cliVars, billingVars, catalogVars, inboxVars,
                    waitlistVars, walkVars, scanVars, focus>>

(* Where components may start differently, one out of focus starts in one  *)
(* way.                                                                    *)
BackOfficeInit ==
    /\ AccountsInit /\ CliTokensInit /\ BillingInit /\ CatalogInit /\ InboxInit
    /\ WaitlistInit /\ WalkInit /\ ScanInit
    /\ focus \in Component
    /\ focus # "accounts" => \A i, j \in Member : user[i].token = Null /\ user[i].email = user[j].email
    /\ focus # "tokens" => \A u \in Owner : token[u] = NoToken
    /\ focus # "catalog" => stamped = {} /\ \A u, v \in Tenant : plan[u] = Null
    /\ focus # "walk" => created = 0
    /\ focus # "scan" => chain = <<>>

Still(name, vars) == focus # name => UNCHANGED vars

BackOfficeNext ==
    /\ UNCHANGED focus
    /\ \/ focus = "accounts" /\ AccountsNext
       \/ focus = "tokens" /\ CliTokensNext
       \/ focus = "billing" /\ BillingNext
       \/ focus = "catalog" /\ CatalogNext
       \/ focus = "inbox" /\ InboxNext
       \/ focus = "waitlist" /\ WaitlistNext
       \/ focus = "walk" /\ WalkNext
       \/ focus = "scan" /\ ScanNext
    /\ Still("accounts", accountsVars) /\ Still("tokens", cliVars)
    /\ Still("billing", billingVars) /\ Still("catalog", catalogVars)
    /\ Still("inbox", inboxVars) /\ Still("waitlist", waitlistVars)
    /\ Still("walk", walkVars) /\ Still("scan", scanVars)

BackOfficeSpec == BackOfficeInit /\ [][BackOfficeNext]_backOfficeVars

(* What billing assumes: Stripe sends an event until it is answered.       *)
BackOfficeFairSpec == BackOfficeSpec /\ BillingFairness

(* Each component keeps the shape of its state.                            *)
BackOfficeTypeOK ==
    /\ AccountsTypeOK /\ CliTokensTypeOK /\ BillingTypeOK /\ CatalogTypeOK /\ InboxTypeOK
    /\ WaitlistTypeOK /\ WalkTypeOK /\ ScanTypeOK
=============================================================================
