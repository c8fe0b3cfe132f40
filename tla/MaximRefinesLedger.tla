-------------------------- MODULE MaximRefinesLedger --------------------------
(***************************************************************************)
(* maxim_protocol implements PaymentLedger when one token mint is in use.  *)
(***************************************************************************)
EXTENDS MaximSafety, Sequences

\* AgentWallet::is_operational
IsOperational(a) == agent_wallet[a].is_active /\ ~agent_wallet[a].is_frozen

\* A wallet is given up for good when its token account outlives it.
StatusOf(a) ==
  IF a \in DOMAIN agent_wallet
  THEN IF IsOperational(a) THEN "open" ELSE "suspended"
  ELSE IF Retired(a) THEN "gone" ELSE "vacant"

\* The entry number i of a's ledger is the account at sequence i - 1.
LedgerOf(a) ==
  [i \in 1..Cardinality(RecordsOf(a)) |->
     LET record == payment_record[<<a, i - 1>>]
     IN  [payee |-> record.payee, amount |-> record.amount_usdc, passed |-> record.policy_passed]]

Promise == INSTANCE PaymentLedger WITH
  Wallets <- AgentIds,
  Payees  <- Holders,
  NoPayee <- DefaultKey,
  status  <- [a \in AgentIds |-> StatusOf(a)],
  ledger  <- [a \in AgentIds |-> LedgerOf(a)],
  funds   <- [a \in AgentIds |-> Balance(a, CHOOSE m \in Mints : TRUE)]

(***************************************************************************)
(* Every instruction, seen from outside, is one step of PaymentLedger or   *)
(* changes nothing there: freezing a deactivated wallet, say, or rotating  *)
(* the admin.                                                              *)
(***************************************************************************)
ImplementsLedger == Promise!LedgerSpec
=============================================================================
