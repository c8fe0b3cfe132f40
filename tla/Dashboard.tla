------------------------------- MODULE Dashboard -------------------------------
(***************************************************************************)
(* The events of maxim_protocol, and what somebody who reads all of them   *)
(* and nothing else knows: the dashboard, whose indexer is outside the     *)
(* repository.  Each instruction of MaximProtocol is joined by the event   *)
(* it emits, or by none.                                                   *)
(*                                                                         *)
(* Of an event the model keeps what can be compared with the accounts:     *)
(* not the endpoint and memo hashes, and not the time of changes that no   *)
(* account dates.                                                          *)
(***************************************************************************)
EXTENDS MaximSafety

VARIABLES
  view,      \* what the events said of each agent id
  arrived    \* tokens that reached each wallet from outside: not an event, but SPL history

dashboardVars == <<vars, view, arrived>>

\* The dashboard knows of no registration: it assumes what register_agent sets.
NothingSeen ==
  [seen |-> FALSE, is_active |-> TRUE, is_frozen |-> FALSE, owner |-> {}, policy |-> {},
   settled |-> {}, refused |-> {}, withdrawn |-> 0]

-----------------------------------------------------------------------------
(* Events: the fields of the view that they change *)

\* Mutant: the sequence is read after it has been advanced
PaymentSettledNext(v, sequence, payee, params) ==
  [v EXCEPT !.settled = @ \cup
     {[sequence |-> sequence + 1, payee |-> payee, amount_usdc |-> params.amount_usdc,
       protocol |-> params.protocol, settled_at |-> now,
       parent_payment |-> params.parent_payment]}]

PaymentSettled(v, sequence, payee, params) ==
  [v EXCEPT !.settled = @ \cup
     {[sequence |-> sequence, payee |-> payee, amount_usdc |-> params.amount_usdc,
       protocol |-> params.protocol, settled_at |-> now,
       parent_payment |-> params.parent_payment]}]

PolicyViolationRecorded(v, sequence, params) ==
  [v EXCEPT !.refused = @ \cup {[sequence |-> sequence, amount_usdc |-> params.amount_usdc]}]

\* Mutant: deactivate_agent emits what reactivate_agent does
AgentStatusCopied(v, is_active) == [v EXCEPT !.is_active = TRUE]

AgentStatusChanged(v, is_active) == [v EXCEPT !.is_active = is_active]
AgentFreezeChanged(v, is_frozen) == [v EXCEPT !.is_frozen = is_frozen]

FundsWithdrawn(v, amount) == [v EXCEPT !.withdrawn = @ + amount]

\* Mutant: the amount is read after the transfer
RestOf(from) == token_account'[from]

\* The amount that withdraw_all emits is read before the transfer.
AllOf(from) == token_account[from]

OwnershipTransferred(v, new_owner) == [v EXCEPT !.owner = {new_owner}]

\* The rate limit and the domain lists are not in the event.
SpendPolicyUpdated(v, params) ==
  [v EXCEPT !.policy = {[budget |-> params.budget, per_call_limit |-> params.per_call_limit,
                         high_value_threshold |-> params.high_value_threshold]}]

Emits(a, v) ==
  /\ view' = [view EXCEPT ![a] = [v EXCEPT !.seen = TRUE]]
  /\ UNCHANGED arrived

EmitsNothing == UNCHANGED <<view, arrived>>

-----------------------------------------------------------------------------

SeenAdminister ==
  \/ /\ \/ \E admin \in Pubkeys : InitProtocol(admin)
        \/ \E admin \in Keys :
             \/ \E new_admin \in Pubkeys : RotateProtocolAdmin(admin, new_admin)
             \/ \E cap \in Caps : UpdateProtocolConfig(admin, cap)
     /\ EmitsNothing
  \/ \E admin \in Keys, a \in AgentIds :
       \/ FreezeAgent(admin, a)   /\ Emits(a, AgentFreezeChanged(view[a], TRUE))
       \/ UnfreezeAgent(admin, a) /\ Emits(a, AgentFreezeChanged(view[a], FALSE))

SeenManage ==
  \E owner \in Keys, a \in AgentIds :
    \/ \E mint \in Mints : RegisterAgent(owner, a, mint) /\ EmitsNothing
    \/ \E mint \in Mints : CloseAgent(owner, a, mint) /\ EmitsNothing
    \/ DeactivateAgent(owner, a) /\ Emits(a, AgentStatusChanged(view[a], FALSE))
    \/ ReactivateAgent(owner, a) /\ Emits(a, AgentStatusChanged(view[a], TRUE))
    \/ \E new_owner \in Pubkeys :
         /\ TransferOwnership(owner, a, new_owner)
         /\ Emits(a, OwnershipTransferred(view[a], new_owner))
    \/ \E params \in PolicyParams :
         /\ SetSpendPolicy(owner, a, params)
         /\ Emits(a, SpendPolicyUpdated(view[a], params))

SeenPay ==
  \E owner \in Keys, a \in AgentIds :
    \/ \E sequence \in U64, params \in PaymentParams :
         \/ \E mint \in Mints, payee \in Holders :
              /\ SettlePayment(owner, a, mint, payee, sequence, params)
              /\ Emits(a, PaymentSettled(view[a], sequence, payee, params))
         \/ /\ RecordPolicyViolation(owner, a, sequence, params)
            /\ Emits(a, PolicyViolationRecorded(view[a], sequence, params))
    \/ \E mint \in Mints :
         \/ \E amount \in Amounts :
              /\ WithdrawFunds(owner, a, mint, amount)
              /\ Emits(a, FundsWithdrawn(view[a], amount))
         \/ /\ WithdrawAll(owner, a, mint)
            /\ Emits(a, FundsWithdrawn(view[a], AllOf(<<a, mint>>)))

SeenEnvironment ==
  \/ \E holder \in Holders, mint \in Mints :
       \/ CreateTokenAccount(holder, mint) /\ EmitsNothing
       \/ \E amount \in Amounts :
            /\ Fund(holder, mint, amount)
            /\ arrived' = [arrived EXCEPT ![holder] = @ + amount]
            /\ UNCHANGED view
  \/ Tick /\ EmitsNothing

DashboardInit ==
  /\ Init
  /\ view = [a \in AgentIds |-> NothingSeen]
  /\ arrived = [h \in Holders |-> 0]

DashboardNext == SeenAdminister \/ SeenManage \/ SeenPay \/ SeenEnvironment

DashboardSpec == DashboardInit /\ [][DashboardNext]_dashboardVars /\ OwnersKeepAsking

-----------------------------------------------------------------------------
\* The ledger in the form of the events
SettledOf(a) ==
  {[sequence |-> r[2], payee |-> payment_record[r].payee,
    amount_usdc |-> payment_record[r].amount_usdc,
    protocol |-> IF payment_record[r].protocol = "X402" THEN 0 ELSE 1,
    settled_at |-> payment_record[r].settled_at,
    parent_payment |-> payment_record[r].parent_payment] : r \in PassedOf(a)}

RefusedOf(a) ==
  {[sequence |-> r[2], amount_usdc |-> payment_record[r].amount_usdc] :
     r \in RecordsOf(a) \ PassedOf(a)}

(***************************************************************************)
(* The dashboard is right in what it shows: its ledger is the ledger, also *)
(* of closed wallets, and of a wallet that exists it shows the flags, the  *)
(* owner once ownership has moved, and the budgets in force, though it     *)
(* started from a guess and registration and closing are not announced.    *)
(* Of the flags this holds when one mint is in use: a second one lets a    *)
(* closed id be registered again, with new flags and no event.             *)
(***************************************************************************)
ViewMatchesAccounts ==
  \A a \in AgentIds :
    /\ view[a].settled = SettledOf(a)
    /\ view[a].refused = RefusedOf(a)
    /\ a \in DOMAIN agent_wallet =>
         /\ view[a].is_active = agent_wallet[a].is_active
         /\ view[a].is_frozen = agent_wallet[a].is_frozen
         /\ view[a].owner \subseteq {agent_wallet[a].owner}
    /\ a \in DOMAIN spend_policy =>
         view[a].policy = {[budget               |-> spend_policy[a].budget,
                            per_call_limit       |-> spend_policy[a].per_call_limit,
                            high_value_threshold |-> spend_policy[a].high_value_threshold]}

(***************************************************************************)
(* close_agent emits no event.  Still the dashboard never shows a wallet   *)
(* as active that is not there: closing takes a deactivation first, which  *)
(* was announced.                                                          *)
(***************************************************************************)
ShownActiveExists ==
  \A a \in AgentIds : view[a].seen /\ view[a].is_active => a \in DOMAIN agent_wallet

\* Tokens that all settlements the dashboard has seen brought to a
Received(a) ==
  SumFunction([b \in AgentIds |->
      SumFunction([s \in {e \in view[b].settled : e.payee = a} |-> s.amount_usdc])])

PaidBy(a) == SumFunction([s \in view[a].settled |-> s.amount_usdc])

(***************************************************************************)
(* The books balance: what a wallet holds is what arrived from outside     *)
(* plus what settlements brought, less what it paid and what its owners    *)
(* withdrew according to the events, across changes of owner, payments of  *)
(* a wallet to itself and its closing.  Holds when one mint is in use: no  *)
(* event names the mint.                                                   *)
(***************************************************************************)
BooksBalance ==
  \A a \in AgentIds, m \in Mints :
    Balance(a, m) = arrived[a] + Received(a) - PaidBy(a) - view[a].withdrawn
=============================================================================
