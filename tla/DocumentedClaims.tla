--------------------------- MODULE DocumentedClaims ---------------------------
(***************************************************************************)
(* Sentences of the source's comments that the program does not live up    *)
(* to.  Each has a run of its own, whose counterexample shows how.         *)
(***************************************************************************)
EXTENDS MaximSafety

(***************************************************************************)
(* errors.rs, AgentIdTooLong: "Agent ID must be between 1 and 64           *)
(* characters"; MAX_AGENT_ID_LEN is 64.  Somebody could register any such  *)
(* id whose addresses are free.                                            *)
(***************************************************************************)
DocumentedIdsRegister ==
  \A a \in PlainIds, owner \in Keys, mint \in Mints :
    IdBytes[a] \in 1..MaxAgentIdLen /\ AddressesFree(a, mint) =>
      ENABLED RegisterAgent(owner, a, mint)

(***************************************************************************)
(* spend_policy.rs, daily_budget: "Maximum USDC the agent may spend in any *)
(* 24-hour window", taken for policies that enforce every payment.         *)
(***************************************************************************)
AnyDayWithinBudget ==
  \A a \in DOMAIN spend_policy, t \in 1..now :
    spend_policy[a].budget["daily"] > 0 /\ spend_policy[a].high_value_threshold = 1 =>
      SpentFrom(a, "daily", t) <= spend_policy[a].budget["daily"]

(***************************************************************************)
(* close_agent: the token account "must be fully drained (via              *)
(* withdraw_funds or withdraw_all) before calling this instruction".  The  *)
(* account is the one registered with the wallet, which no one but the     *)
(* wallet can sign for: what is left there stays there, at least until the *)
(* id is registered again under another mint.                              *)
(***************************************************************************)
CloseLeavesNothing ==
  [][\A a \in DOMAIN agent_wallet \ DOMAIN agent_wallet' :
       token_account[agent_wallet[a].usdc_token_account] = 0]_agent_wallet

(***************************************************************************)
(* payment_record.rs: "Starting from any root PaymentRecord, the complete  *)
(* cost of a multi-agent workflow can be reconstructed by following the    *)
(* parent_payment links".  So every record lies below a root, that is, no  *)
(* set of records has its parents missing or inside the set only.          *)
(***************************************************************************)
ChainsReachRoot ==
  \A records \in (SUBSET DOMAIN payment_record) \ {{}} :
    \E r \in records :
      LET parent == payment_record[r].parent_payment IN
      parent = {} \/ \E p \in parent : p \in DOMAIN payment_record \ records
=============================================================================
