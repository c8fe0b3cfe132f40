---------------------------- MODULE DashboardProofs ----------------------------
(***************************************************************************)
(* What the dashboard shows is what the accounts hold.  The dashboard      *)
(* reads events and nothing else, and two instructions that matter to it,  *)
(* register_agent and close_agent, emit none: the invariant says what it   *)
(* shows of a wallet that is not there yet, and of one that is gone.       *)
(* From the amounts in the events it can keep each wallet's books.         *)
(***************************************************************************)
EXTENDS Dashboard, MaximProofs

-----------------------------------------------------------------------------
(* Events *)

Entry ==
  [sequence: U64, payee: Holders, amount_usdc: Nat, protocol: {0, 1}, settled_at: Nat,
   parent_payment: ParentRefs]

Refusal == [sequence: U64, amount_usdc: Amounts]

Limits == [budget: [Windows -> U64], per_call_limit: U64, high_value_threshold: U64]

View ==
  [seen: BOOLEAN, is_active: BOOLEAN, is_frozen: BOOLEAN, owner: SUBSET Pubkeys,
   policy: SUBSET Limits, settled: SUBSET Entry, refused: SUBSET Refusal, withdrawn: Nat]

ViewTypeOK == view \in [AgentIds -> View] /\ arrived \in [Holders -> Nat]

\* The fields of a view but seen
SameFields(u, v) ==
  /\ u.is_active = v.is_active /\ u.is_frozen = v.is_frozen
  /\ u.owner = v.owner /\ u.policy = v.policy
  /\ u.settled = v.settled /\ u.refused = v.refused /\ u.withdrawn = v.withdrawn

\* The step is seen as an event of a, and nothing arrives.
Touches(a) ==
  /\ ViewTypeOK'
  /\ view'[a].seen
  /\ \A b \in AgentIds : b # a => view'[b] = view[b]
  /\ arrived' = arrived

(***************************************************************************)
(* An event changes the view of its agent to what the event makes of it,   *)
(* and no other.                                                           *)
(***************************************************************************)
LEMMA EventSeen ==
  ASSUME ViewTypeOK, NEW a \in AgentIds, NEW v \in View, Emits(a, v)
  PROVE  Touches(a) /\ SameFields(view'[a], v)
<1>1. PICK u : u = [v EXCEPT !.seen = TRUE]
  OBVIOUS
<1>2. u \in View /\ u.seen /\ SameFields(u, v)
  BY <1>1 DEF View, SameFields
<1>3. view' = [view EXCEPT ![a] = u] /\ arrived' = arrived
  BY <1>1 DEF Emits
<1>4. view'[a] = u
  BY <1>3 DEF ViewTypeOK
<1>5. QED
  BY <1>2, <1>3, <1>4 DEF ViewTypeOK, Touches

LEMMA NothingHappened ==
  ASSUME ViewTypeOK, EmitsNothing
  PROVE  ViewTypeOK' /\ arrived' = arrived /\ \A b \in AgentIds : view'[b] = view[b]
BY DEF ViewTypeOK, EmitsNothing

(***************************************************************************)
(* What each event changes in its agent's view, and what it leaves         *)
(***************************************************************************)
KeepsFlags(a) ==
  /\ view'[a].is_active = view[a].is_active /\ view'[a].is_frozen = view[a].is_frozen
  /\ view'[a].owner = view[a].owner /\ view'[a].policy = view[a].policy

KeepsReports(a) == view'[a].settled = view[a].settled /\ view'[a].refused = view[a].refused

LEMMA StatusEvent ==
  ASSUME ViewTypeOK, NEW a \in AgentIds, NEW flag \in BOOLEAN,
         Emits(a, AgentStatusChanged(view[a], flag))
  PROVE  /\ Touches(a)
         /\ view'[a].is_active = flag
         /\ view'[a].is_frozen = view[a].is_frozen
         /\ view'[a].owner = view[a].owner
         /\ view'[a].policy = view[a].policy
         /\ KeepsReports(a) /\ view'[a].withdrawn = view[a].withdrawn
<1>1. view[a] \in View
  BY DEF ViewTypeOK
<1>2. PICK v : v = AgentStatusChanged(view[a], flag)
  OBVIOUS
<1>3. /\ v \in View
      /\ v.is_active = flag
      /\ v.is_frozen = view[a].is_frozen
      /\ v.owner = view[a].owner
      /\ v.policy = view[a].policy
      /\ v.settled = view[a].settled
      /\ v.refused = view[a].refused
      /\ v.withdrawn = view[a].withdrawn
  BY <1>1, <1>2 DEF AgentStatusChanged, View
<1>4. QED
  BY <1>2, <1>3, EventSeen DEF SameFields, KeepsFlags, KeepsReports

LEMMA FreezeEvent ==
  ASSUME ViewTypeOK, NEW a \in AgentIds, NEW flag \in BOOLEAN,
         Emits(a, AgentFreezeChanged(view[a], flag))
  PROVE  /\ Touches(a)
         /\ view'[a].is_active = view[a].is_active
         /\ view'[a].is_frozen = flag
         /\ view'[a].owner = view[a].owner
         /\ view'[a].policy = view[a].policy
         /\ KeepsReports(a) /\ view'[a].withdrawn = view[a].withdrawn
<1>1. view[a] \in View
  BY DEF ViewTypeOK
<1>2. PICK v : v = AgentFreezeChanged(view[a], flag)
  OBVIOUS
<1>3. /\ v \in View
      /\ v.is_frozen = flag
      /\ v.is_active = view[a].is_active
      /\ v.owner = view[a].owner
      /\ v.policy = view[a].policy
      /\ v.settled = view[a].settled
      /\ v.refused = view[a].refused
      /\ v.withdrawn = view[a].withdrawn
  BY <1>1, <1>2 DEF AgentFreezeChanged, View
<1>4. QED
  BY <1>2, <1>3, EventSeen DEF SameFields, KeepsFlags, KeepsReports

LEMMA OwnerEvent ==
  ASSUME ViewTypeOK, NEW a \in AgentIds, NEW new_owner \in Pubkeys,
         Emits(a, OwnershipTransferred(view[a], new_owner))
  PROVE  /\ Touches(a)
         /\ view'[a].is_active = view[a].is_active
         /\ view'[a].is_frozen = view[a].is_frozen
         /\ view'[a].owner = {new_owner}
         /\ view'[a].policy = view[a].policy
         /\ KeepsReports(a) /\ view'[a].withdrawn = view[a].withdrawn
<1>1. view[a] \in View
  BY DEF ViewTypeOK
<1>2. PICK v : v = OwnershipTransferred(view[a], new_owner)
  OBVIOUS
<1>3. /\ v \in View
      /\ v.owner = {new_owner}
      /\ v.is_active = view[a].is_active
      /\ v.is_frozen = view[a].is_frozen
      /\ v.policy = view[a].policy
      /\ v.settled = view[a].settled
      /\ v.refused = view[a].refused
      /\ v.withdrawn = view[a].withdrawn
  BY <1>1, <1>2 DEF OwnershipTransferred, View
<1>4. QED
  BY <1>2, <1>3, EventSeen DEF SameFields, KeepsFlags, KeepsReports

\* The part of a policy, or of its parameters, that the event announces
Announced(p) ==
  [budget |-> p.budget, per_call_limit |-> p.per_call_limit,
   high_value_threshold |-> p.high_value_threshold]

LEMMA PolicyEvent ==
  ASSUME ViewTypeOK, NEW a \in AgentIds, NEW params \in PolicyParams,
         Emits(a, SpendPolicyUpdated(view[a], params))
  PROVE  /\ Touches(a)
         /\ view'[a].is_active = view[a].is_active
         /\ view'[a].is_frozen = view[a].is_frozen
         /\ view'[a].owner = view[a].owner
         /\ view'[a].policy = {Announced(params)}
         /\ KeepsReports(a) /\ view'[a].withdrawn = view[a].withdrawn
<1>1. view[a] \in View
  BY DEF ViewTypeOK
<1>2. PICK p : p = Announced(params)
  OBVIOUS
<1>3. p \in Limits
  BY <1>2, InputsAssumption DEF Announced, Limits
<1>4. PICK v : v = SpendPolicyUpdated(view[a], params)
  OBVIOUS
<1>5. v = [view[a] EXCEPT !.policy = {p}]
  BY <1>2, <1>4 DEF SpendPolicyUpdated, Announced
<1>6. /\ v \in View
      /\ v.policy = {p}
      /\ v.is_active = view[a].is_active
      /\ v.is_frozen = view[a].is_frozen
      /\ v.owner = view[a].owner
      /\ v.settled = view[a].settled
      /\ v.refused = view[a].refused
      /\ v.withdrawn = view[a].withdrawn
  BY <1>1, <1>3, <1>5 DEF View
<1>7. QED
  BY <1>2, <1>4, <1>6, EventSeen DEF SameFields, KeepsReports

LEMMA WithdrawalEvent ==
  ASSUME ViewTypeOK, NEW a \in AgentIds, NEW amount \in Nat,
         Emits(a, FundsWithdrawn(view[a], amount))
  PROVE  /\ Touches(a)
         /\ KeepsFlags(a) /\ KeepsReports(a)
         /\ view'[a].withdrawn = view[a].withdrawn + amount
<1>1. view[a] \in View
  BY DEF ViewTypeOK
<1>2. PICK v : v = FundsWithdrawn(view[a], amount)
  OBVIOUS
<1>3. /\ v \in View
      /\ v.withdrawn = view[a].withdrawn + amount
      /\ v.is_active = view[a].is_active
      /\ v.is_frozen = view[a].is_frozen
      /\ v.owner = view[a].owner
      /\ v.policy = view[a].policy
      /\ v.settled = view[a].settled
      /\ v.refused = view[a].refused
  BY <1>1, <1>2 DEF FundsWithdrawn, View
<1>4. QED
  BY <1>2, <1>3, EventSeen DEF SameFields, KeepsFlags, KeepsReports

\* The entry of a settlement in the dashboard's ledger
SettledAs(sequence, payee, params) ==
  [sequence |-> sequence, payee |-> payee, amount_usdc |-> params.amount_usdc,
   protocol |-> params.protocol, settled_at |-> now, parent_payment |-> params.parent_payment]

LEMMA SettlementEvent ==
  ASSUME ViewTypeOK, NEW a \in AgentIds, NEW sequence \in U64, NEW payee \in Holders,
         NEW params \in PaymentParams, ValidProtocol(params.protocol), now \in Nat,
         Emits(a, PaymentSettled(view[a], sequence, payee, params))
  PROVE  /\ Touches(a)
         /\ KeepsFlags(a)
         /\ SettledAs(sequence, payee, params) \in Entry
         /\ view'[a].settled = view[a].settled \cup {SettledAs(sequence, payee, params)}
         /\ view'[a].refused = view[a].refused
         /\ view'[a].withdrawn = view[a].withdrawn
<1>1. view[a] \in View
  BY DEF ViewTypeOK
<1>2. PICK e : e = SettledAs(sequence, payee, params)
  OBVIOUS
<1>3. e \in Entry
  <2>1. params.amount_usdc \in Nat
    <3>1. \A x \in Amounts : x \in Nat
      BY InputsAssumption, WidthAssumption DEF U64
    <3>2. QED
      BY <3>1 DEF PaymentParams
  <2>2. QED
    BY <1>2, <2>1 DEF SettledAs, Entry, PaymentParams, ValidProtocol
<1>4. PICK v : v = PaymentSettled(view[a], sequence, payee, params)
  OBVIOUS
<1>5. v = [view[a] EXCEPT !.settled = @ \cup {e}]
  BY <1>2, <1>4 DEF PaymentSettled, SettledAs
<1>6. /\ v \in View
      /\ v.settled = view[a].settled \cup {e}
      /\ v.is_active = view[a].is_active
      /\ v.is_frozen = view[a].is_frozen
      /\ v.owner = view[a].owner
      /\ v.policy = view[a].policy
      /\ v.refused = view[a].refused
      /\ v.withdrawn = view[a].withdrawn
  BY <1>1, <1>3, <1>5 DEF View
<1>7. QED
  BY <1>2, <1>3, <1>4, <1>6, EventSeen DEF SameFields, KeepsFlags

LEMMA RefusalEvent ==
  ASSUME ViewTypeOK, NEW a \in AgentIds, NEW sequence \in U64, NEW params \in PaymentParams,
         Emits(a, PolicyViolationRecorded(view[a], sequence, params))
  PROVE  /\ Touches(a)
         /\ KeepsFlags(a)
         /\ view'[a].settled = view[a].settled
         /\ view'[a].refused =
              view[a].refused \cup {[sequence |-> sequence, amount_usdc |-> params.amount_usdc]}
         /\ view'[a].withdrawn = view[a].withdrawn
<1>1. view[a] \in View
  BY DEF ViewTypeOK
<1>2. PICK e : e = [sequence |-> sequence, amount_usdc |-> params.amount_usdc]
  OBVIOUS
<1>3. e \in Refusal
  BY <1>2 DEF Refusal, PaymentParams
<1>4. PICK v : v = PolicyViolationRecorded(view[a], sequence, params)
  OBVIOUS
<1>5. v = [view[a] EXCEPT !.refused = @ \cup {e}]
  BY <1>2, <1>4 DEF PolicyViolationRecorded
<1>6. /\ v \in View
      /\ v.refused = view[a].refused \cup {e}
      /\ v.is_active = view[a].is_active
      /\ v.is_frozen = view[a].is_frozen
      /\ v.owner = view[a].owner
      /\ v.policy = view[a].policy
      /\ v.settled = view[a].settled
      /\ v.withdrawn = view[a].withdrawn
  BY <1>1, <1>3, <1>5 DEF View
<1>7. QED
  BY <1>2, <1>4, <1>6, EventSeen DEF SameFields, KeepsFlags

-----------------------------------------------------------------------------
(* Flags, owners and policies *)

PolicyShown(a) == view[a].policy = {Announced(spend_policy[a])}

(***************************************************************************)
(* Whatever mints callers name, the dashboard shows the policy in force,   *)
(* shows nobody active who is not, and shows a wallet that it has seen and *)
(* that is gone as deactivated.  With one mint, it shows the truth of a    *)
(* wallet that exists, and of one that was never registered it has heard   *)
(* nothing, so that its first guess is what register_agent will set.       *)
(***************************************************************************)
FlagsShown(a) ==
  /\ a \in DOMAIN spend_policy => PolicyShown(a)
  /\ a \in DOMAIN agent_wallet /\ view[a].is_active => agent_wallet[a].is_active
  /\ a \notin DOMAIN agent_wallet => ~(view[a].seen /\ view[a].is_active)
  /\ SingleMint =>
       /\ a \in DOMAIN agent_wallet =>
            /\ view[a].is_active = agent_wallet[a].is_active
            /\ view[a].is_frozen = agent_wallet[a].is_frozen
            /\ view[a].owner \subseteq {agent_wallet[a].owner}
       /\ ~HasAccount(a) => view[a].is_active /\ ~view[a].is_frozen /\ view[a].owner = {}

\* The step leaves what the dashboard shows of a as it was, in the accounts and in the view.
SameFlags(a) ==
  /\ a \in DOMAIN agent_wallet' <=> a \in DOMAIN agent_wallet
  /\ a \in DOMAIN agent_wallet =>
       /\ agent_wallet'[a].is_active = agent_wallet[a].is_active
       /\ agent_wallet'[a].is_frozen = agent_wallet[a].is_frozen
       /\ agent_wallet'[a].owner = agent_wallet[a].owner
  /\ a \in DOMAIN spend_policy' =>
       a \in DOMAIN spend_policy /\ Announced(spend_policy'[a]) = Announced(spend_policy[a])
  /\ KeepsFlags(a)
  /\ view'[a].seen = view[a].seen \/ a \in DOMAIN agent_wallet

LEMMA SameFlagsShown ==
  ASSUME NEW a, SameFlags(a), FlagsShown(a), DOMAIN token_account \subseteq DOMAIN token_account'
  PROVE  FlagsShown(a)'
<1>1. HasAccount(a) => HasAccount(a)'
  BY DEF HasAccount
<1>2. a \in DOMAIN spend_policy' => PolicyShown(a)'
  <2> SUFFICES ASSUME a \in DOMAIN spend_policy'
               PROVE  view'[a].policy = {Announced(spend_policy'[a])}
    BY DEF PolicyShown, Announced
  <2>1. QED
    BY DEF SameFlags, KeepsFlags, FlagsShown, PolicyShown
<1>3. QED
  BY <1>1, <1>2 DEF SameFlags, KeepsFlags, FlagsShown

\* The step is about a: view, wallet and policy of every other agent are as they were.
About(a) ==
  \A b \in AgentIds : b # a =>
    /\ view'[b] = view[b]
    /\ b \in DOMAIN agent_wallet' <=> b \in DOMAIN agent_wallet
    /\ b \in DOMAIN agent_wallet => agent_wallet'[b] = agent_wallet[b]
    /\ b \in DOMAIN spend_policy' <=> b \in DOMAIN spend_policy
    /\ b \in DOMAIN spend_policy => spend_policy'[b] = spend_policy[b]

LEMMA OthersFlagsShown ==
  ASSUME NEW a, About(a), DOMAIN token_account \subseteq DOMAIN token_account',
         \A b \in AgentIds : FlagsShown(b), FlagsShown(a)'
  PROVE  \A b \in AgentIds : FlagsShown(b)'
<1> SUFFICES ASSUME NEW b \in AgentIds, b # a
             PROVE  FlagsShown(b)'
  OBVIOUS
<1>1. SameFlags(b)
  BY DEF About, SameFlags, KeepsFlags
<1>2. QED
  BY <1>1, SameFlagsShown

FlagsInv == \A a \in AgentIds : Accounted(a) /\ FlagsShown(a)

LEMMA RegisterAgentFlags ==
  ASSUME TypeOK, ViewTypeOK, FlagsInv, NEW owner \in Keys, NEW a \in AgentIds,
         NEW mint \in Mints, RegisterAgent(owner, a, mint), EmitsNothing
  PROVE  \A b \in AgentIds : FlagsShown(b)'
<1>1. /\ a \notin DOMAIN agent_wallet /\ <<a, mint>> \notin DOMAIN token_account
      /\ view' = view /\ spend_policy' = spend_policy
      /\ DOMAIN agent_wallet' = DOMAIN agent_wallet \cup {a}
      /\ \A b \in DOMAIN agent_wallet : agent_wallet'[b] = agent_wallet[b]
      /\ agent_wallet'[a].is_active = TRUE /\ agent_wallet'[a].is_frozen = FALSE
      /\ token_account' = Stored(token_account, <<a, mint>>, 0)
  BY DEF RegisterAgent, AddressesFree, EmitsNothing, Stored
<1>2. HasAccount(a)' /\ (SingleMint => ~HasAccount(a))
  BY <1>1 DEF HasAccount, SingleMint, Stored
<1>3. a \notin DOMAIN spend_policy
  BY <1>1 DEF TypeOK
<1>4. FlagsShown(a)'
  <2>1. SingleMint => view[a].is_active /\ ~view[a].is_frozen /\ view[a].owner = {}
    BY <1>2 DEF FlagsInv, FlagsShown
  <2>2. view[a].is_active \in BOOLEAN /\ view[a].is_frozen \in BOOLEAN
    BY DEF ViewTypeOK, View
  <2>3. SingleMint => view[a].is_active = TRUE /\ view[a].is_frozen = FALSE
    BY <2>1, <2>2
  <2>4. QED
    BY <1>1, <1>2, <1>3, <2>1, <2>3 DEF FlagsShown
<1>5. About(a) /\ DOMAIN token_account \subseteq DOMAIN token_account'
  BY <1>1 DEF About, Stored
<1>6. QED
  BY <1>4, <1>5, OthersFlagsShown DEF FlagsInv

LEMMA CloseAgentFlags ==
  ASSUME TypeOK, FlagsInv, NEW owner \in Keys, NEW a \in AgentIds, NEW mint \in Mints,
         CloseAgent(owner, a, mint), EmitsNothing
  PROVE  \A b \in AgentIds : FlagsShown(b)'
<1>1. /\ a \in DOMAIN agent_wallet /\ ~agent_wallet[a].is_active
      /\ <<a, mint>> \in DOMAIN token_account
      /\ view' = view /\ token_account' = token_account
      /\ DOMAIN agent_wallet' = DOMAIN agent_wallet \ {a}
      /\ DOMAIN spend_policy' = DOMAIN spend_policy \ {a}
      /\ \A b \in DOMAIN agent_wallet' : agent_wallet'[b] = agent_wallet[b]
      /\ \A b \in DOMAIN spend_policy' : spend_policy'[b] = spend_policy[b]
  BY DEF CloseAgent, SignedByOwner, Drained, EmitsNothing, Closed, Restrict
<1>2. ~view[a].is_active
  BY <1>1 DEF FlagsInv, FlagsShown
<1>3. FlagsShown(a)'
  BY <1>1, <1>2 DEF FlagsShown, HasAccount
<1>4. About(a)
  BY <1>1 DEF About
<1>5. QED
  BY <1>1, <1>3, <1>4, OthersFlagsShown DEF FlagsInv

LEMMA SetActiveFlags ==
  ASSUME TypeOK, ViewTypeOK, FlagsInv, NEW owner \in Keys, NEW a \in AgentIds, NEW flag \in BOOLEAN,
         SetActive(owner, a, flag), Emits(a, AgentStatusChanged(view[a], flag))
  PROVE  \A b \in AgentIds : FlagsShown(b)'
<1>1. /\ a \in DOMAIN agent_wallet
      /\ agent_wallet' = [agent_wallet EXCEPT ![a].is_active = flag]
      /\ UNCHANGED <<spend_policy, token_account>>
  BY DEF SetActive, SignedByOwner
<1>2. agent_wallet'[a].is_active = flag /\ agent_wallet'[a].is_frozen = agent_wallet[a].is_frozen
      /\ agent_wallet'[a].owner = agent_wallet[a].owner
  BY <1>1 DEF TypeOK, AgentWallet
<1>3. /\ Touches(a) /\ view'[a].is_active = flag /\ view'[a].is_frozen = view[a].is_frozen
      /\ view'[a].owner = view[a].owner /\ view'[a].policy = view[a].policy
  BY StatusEvent
<1>4. HasAccount(a) /\ HasAccount(a)'
  BY <1>1 DEF FlagsInv, Accounted, HasAccount
<1>5. a \in DOMAIN spend_policy' => PolicyShown(a)'
  BY <1>1, <1>3 DEF FlagsInv, FlagsShown, PolicyShown, Announced
<1>6. FlagsShown(a)'
  BY <1>1, <1>2, <1>3, <1>4, <1>5 DEF FlagsInv, FlagsShown
<1>7. About(a)
  BY <1>1, <1>3 DEF About, Touches
<1>8. QED
  BY <1>1, <1>6, <1>7, OthersFlagsShown DEF FlagsInv

LEMMA SetFrozenFlags ==
  ASSUME TypeOK, ViewTypeOK, FlagsInv, NEW admin \in Keys, NEW a \in AgentIds, NEW flag \in BOOLEAN,
         SetFrozen(admin, a, flag), Emits(a, AgentFreezeChanged(view[a], flag))
  PROVE  \A b \in AgentIds : FlagsShown(b)'
<1>1. /\ a \in DOMAIN agent_wallet
      /\ agent_wallet' = [agent_wallet EXCEPT ![a].is_frozen = flag]
      /\ UNCHANGED <<spend_policy, token_account>>
  BY DEF SetFrozen
<1>2. agent_wallet'[a].is_frozen = flag /\ agent_wallet'[a].is_active = agent_wallet[a].is_active
      /\ agent_wallet'[a].owner = agent_wallet[a].owner
  BY <1>1 DEF TypeOK, AgentWallet
<1>3. /\ Touches(a) /\ view'[a].is_frozen = flag /\ view'[a].is_active = view[a].is_active
      /\ view'[a].owner = view[a].owner /\ view'[a].policy = view[a].policy
  BY FreezeEvent
<1>4. HasAccount(a) /\ HasAccount(a)'
  BY <1>1 DEF FlagsInv, Accounted, HasAccount
<1>5. a \in DOMAIN spend_policy' => PolicyShown(a)'
  BY <1>1, <1>3 DEF FlagsInv, FlagsShown, PolicyShown, Announced
<1>6. FlagsShown(a)'
  BY <1>1, <1>2, <1>3, <1>4, <1>5 DEF FlagsInv, FlagsShown
<1>7. About(a)
  BY <1>1, <1>3 DEF About, Touches
<1>8. QED
  BY <1>1, <1>6, <1>7, OthersFlagsShown DEF FlagsInv

LEMMA TransferOwnershipFlags ==
  ASSUME TypeOK, ViewTypeOK, FlagsInv, NEW owner \in Keys, NEW a \in AgentIds,
         NEW new_owner \in Pubkeys, TransferOwnership(owner, a, new_owner),
         Emits(a, OwnershipTransferred(view[a], new_owner))
  PROVE  \A b \in AgentIds : FlagsShown(b)'
<1>1. /\ a \in DOMAIN agent_wallet
      /\ agent_wallet' = [agent_wallet EXCEPT ![a].owner = new_owner]
      /\ UNCHANGED <<spend_policy, token_account>>
  BY DEF TransferOwnership, SignedByOwner
<1>2. agent_wallet'[a].owner = new_owner /\ agent_wallet'[a].is_active = agent_wallet[a].is_active
      /\ agent_wallet'[a].is_frozen = agent_wallet[a].is_frozen
  BY <1>1 DEF TypeOK, AgentWallet
<1>3. /\ Touches(a) /\ view'[a].owner = {new_owner} /\ view'[a].is_active = view[a].is_active
      /\ view'[a].is_frozen = view[a].is_frozen /\ view'[a].policy = view[a].policy
  BY OwnerEvent
<1>4. HasAccount(a) /\ HasAccount(a)'
  BY <1>1 DEF FlagsInv, Accounted, HasAccount
<1>5. a \in DOMAIN spend_policy' => PolicyShown(a)'
  BY <1>1, <1>3 DEF FlagsInv, FlagsShown, PolicyShown, Announced
<1>6. FlagsShown(a)'
  BY <1>1, <1>2, <1>3, <1>4, <1>5 DEF FlagsInv, FlagsShown
<1>7. About(a)
  BY <1>1, <1>3 DEF About, Touches
<1>8. QED
  BY <1>1, <1>6, <1>7, OthersFlagsShown DEF FlagsInv

LEMMA SetSpendPolicyFlags ==
  ASSUME TypeOK, ViewTypeOK, FlagsInv, NEW owner \in Keys, NEW a \in AgentIds,
         NEW params \in PolicyParams, SetSpendPolicy(owner, a, params),
         Emits(a, SpendPolicyUpdated(view[a], params))
  PROVE  \A b \in AgentIds : FlagsShown(b)'
<1>1. /\ a \in DOMAIN agent_wallet
      /\ UNCHANGED <<agent_wallet, token_account>>
      /\ DOMAIN spend_policy' = DOMAIN spend_policy \cup {a}
      /\ \A b \in DOMAIN spend_policy : b # a => spend_policy'[b] = spend_policy[b]
      /\ Announced(spend_policy'[a]) = Announced(params)
  BY DEF SetSpendPolicy, SignedByOwner, Stored, Announced
<1>2. /\ Touches(a) /\ view'[a].owner = view[a].owner /\ view'[a].is_active = view[a].is_active
      /\ view'[a].is_frozen = view[a].is_frozen /\ view'[a].policy = {Announced(params)}
  BY PolicyEvent
<1>3. HasAccount(a) /\ HasAccount(a)'
  BY <1>1 DEF FlagsInv, Accounted, HasAccount
<1>4. PolicyShown(a)'
  <2>1. view'[a].policy = {Announced(spend_policy'[a])}
    BY <1>1, <1>2
  <2>2. QED
    BY <2>1 DEF PolicyShown, Announced
<1>5. FlagsShown(a)'
  BY <1>1, <1>2, <1>3, <1>4 DEF FlagsInv, FlagsShown
<1>6. About(a)
  BY <1>1, <1>2 DEF About, Touches
<1>7. QED
  BY <1>1, <1>5, <1>6, OthersFlagsShown DEF FlagsInv

(***************************************************************************)
(* Settlements, violations and withdrawals leave flags, owner and the      *)
(* announced part of the policy alone.                                     *)
(***************************************************************************)
LEMMA RecordSpendFlags ==
  ASSUME NEW wallet \in AgentWallet, NEW time \in Nat, NEW amount \in U64
  PROVE  LET spent == RecordSpend(ResetWindowsIfElapsed(wallet, time), amount, time)
         IN  /\ spent.is_active = wallet.is_active /\ spent.is_frozen = wallet.is_frozen
             /\ spent.owner = wallet.owner
<1> DEFINE reset == ResetWindowsIfElapsed(wallet, time)
<1>1. reset \in AgentWallet
  BY ResetWallet
<1>2. /\ reset.is_active = wallet.is_active /\ reset.is_frozen = wallet.is_frozen
      /\ reset.owner = wallet.owner
  BY DEF ResetWindowsIfElapsed, AgentWallet
<1> HIDE DEF reset
<1>3. QED
  BY <1>1, <1>2 DEF RecordSpend, CountEntry, AgentWallet, reset

LEMMA CountCallAnnounced ==
  ASSUME NEW policy \in SpendPolicy, NEW time
  PROVE  Announced(CountCall(policy, time)) = Announced(policy)
BY DEF CountCall, ResetRateWindowIfElapsed, SpendPolicy, Announced

\* What flags need of an event of a that is not about them
LEMMA EventKeepsFlags ==
  ASSUME FlagsInv, NEW a \in AgentIds, Touches(a), KeepsFlags(a), a \in DOMAIN agent_wallet,
         DOMAIN agent_wallet' = DOMAIN agent_wallet, DOMAIN spend_policy' = DOMAIN spend_policy,
         \A b \in DOMAIN agent_wallet : b # a => agent_wallet'[b] = agent_wallet[b],
         \A b \in DOMAIN spend_policy : b # a => spend_policy'[b] = spend_policy[b],
         agent_wallet'[a].is_active = agent_wallet[a].is_active,
         agent_wallet'[a].is_frozen = agent_wallet[a].is_frozen,
         agent_wallet'[a].owner = agent_wallet[a].owner,
         a \in DOMAIN spend_policy => Announced(spend_policy'[a]) = Announced(spend_policy[a]),
         DOMAIN token_account \subseteq DOMAIN token_account'
  PROVE  \A b \in AgentIds : FlagsShown(b)'
<1>1. SameFlags(a)
  BY DEF SameFlags
<1>2. FlagsShown(a)'
  BY <1>1, SameFlagsShown DEF FlagsInv
<1>3. About(a)
  BY DEF About, Touches
<1>4. QED
  BY <1>2, <1>3, OthersFlagsShown DEF FlagsInv

LEMMA SettlePaymentFlags ==
  ASSUME TypeOK, ViewTypeOK, FlagsInv, NEW owner \in Keys, NEW a \in AgentIds, NEW mint \in Mints,
         NEW payee \in Holders, NEW sequence \in U64, NEW params \in PaymentParams,
         SettlePayment(owner, a, mint, payee, sequence, params),
         Emits(a, PaymentSettled(view[a], sequence, payee, params)),
         DOMAIN token_account \subseteq DOMAIN token_account'
  PROVE  \A b \in AgentIds : FlagsShown(b)'
<1>1. PICK wallet : wallet = RecordSpend(ResetWindowsIfElapsed(agent_wallet[a], now),
                                         params.amount_usdc, now)
  OBVIOUS
<1>2. /\ a \in DOMAIN agent_wallet /\ a \in DOMAIN spend_policy
      /\ agent_wallet' = [agent_wallet EXCEPT ![a] = wallet]
      /\ \/ spend_policy' = [spend_policy EXCEPT ![a] = CountCall(spend_policy[a], now)]
         \/ spend_policy' = spend_policy
      /\ ValidProtocol(params.protocol)
  BY <1>1 DEF SettlePayment, AdmitsPayment, SignedByOwner
<1>3. /\ wallet.is_active = agent_wallet[a].is_active
      /\ wallet.is_frozen = agent_wallet[a].is_frozen
      /\ wallet.owner = agent_wallet[a].owner
  <2>1. agent_wallet[a] \in AgentWallet /\ now \in Nat /\ params.amount_usdc \in U64
    BY <1>2, InputsAssumption DEF TypeOK, PaymentParams
  <2>2. QED
    BY <1>1, <2>1, RecordSpendFlags
<1>4. Announced(spend_policy'[a]) = Announced(spend_policy[a])
  <2>1. spend_policy[a] \in SpendPolicy
    BY <1>2 DEF TypeOK
  <2>2. PICK policy : policy = CountCall(spend_policy[a], now)
    OBVIOUS
  <2>3. Announced(policy) = Announced(spend_policy[a])
    BY <2>1, <2>2, CountCallAnnounced
  <2>4. spend_policy'[a] = policy \/ spend_policy'[a] = spend_policy[a]
    BY <1>2, <2>2
  <2>5. QED
    BY <2>3, <2>4
<1>5. /\ DOMAIN agent_wallet' = DOMAIN agent_wallet /\ agent_wallet'[a] = wallet
      /\ DOMAIN spend_policy' = DOMAIN spend_policy
      /\ \A b \in DOMAIN agent_wallet : b # a => agent_wallet'[b] = agent_wallet[b]
      /\ \A b \in DOMAIN spend_policy : b # a => spend_policy'[b] = spend_policy[b]
  BY <1>2
<1>6. Touches(a) /\ KeepsFlags(a)
  <2>1. now \in Nat
    BY DEF TypeOK
  <2>2. QED
    BY <1>2, <2>1, SettlementEvent
<1>7. QED
  BY <1>2, <1>3, <1>4, <1>5, <1>6, EventKeepsFlags

LEMMA RecordPolicyViolationFlags ==
  ASSUME TypeOK, ViewTypeOK, FlagsInv, NEW owner \in Keys, NEW a \in AgentIds,
         NEW sequence \in U64, NEW params \in PaymentParams,
         RecordPolicyViolation(owner, a, sequence, params),
         Emits(a, PolicyViolationRecorded(view[a], sequence, params))
  PROVE  \A b \in AgentIds : FlagsShown(b)'
<1>1. PICK wallet : wallet = CountEntry(agent_wallet[a])
  OBVIOUS
<1>2. /\ a \in DOMAIN agent_wallet
      /\ agent_wallet' = [agent_wallet EXCEPT ![a] = wallet]
      /\ UNCHANGED <<spend_policy, token_account>>
  BY <1>1 DEF RecordPolicyViolation, SignedByOwner
<1>3. /\ wallet.is_active = agent_wallet[a].is_active
      /\ wallet.is_frozen = agent_wallet[a].is_frozen
      /\ wallet.owner = agent_wallet[a].owner
  BY <1>1, <1>2 DEF CountEntry, TypeOK, AgentWallet
<1>4. /\ DOMAIN agent_wallet' = DOMAIN agent_wallet /\ agent_wallet'[a] = wallet
      /\ \A b \in DOMAIN agent_wallet : b # a => agent_wallet'[b] = agent_wallet[b]
  BY <1>2
<1>5. Touches(a) /\ KeepsFlags(a)
  BY RefusalEvent
<1>6. QED
  BY <1>2, <1>3, <1>4, <1>5, EventKeepsFlags

LEMMA WithdrawFundsFlags ==
  ASSUME TypeOK, ViewTypeOK, FlagsInv, NEW owner \in Keys, NEW a \in AgentIds, NEW mint \in Mints,
         NEW amount \in Nat, WithdrawFunds(owner, a, mint, amount),
         Emits(a, FundsWithdrawn(view[a], amount)),
         DOMAIN token_account \subseteq DOMAIN token_account'
  PROVE  \A b \in AgentIds : FlagsShown(b)'
<1>1. a \in DOMAIN agent_wallet /\ UNCHANGED <<agent_wallet, spend_policy>>
  BY DEF WithdrawFunds, SignedByOwner
<1>2. Touches(a) /\ KeepsFlags(a)
  BY WithdrawalEvent
<1>3. QED
  BY <1>1, <1>2, EventKeepsFlags

LEMMA QuietFlags ==
  ASSUME FlagsInv, UNCHANGED <<view, agent_wallet, spend_policy>>,
         DOMAIN token_account \subseteq DOMAIN token_account'
  PROVE  \A b \in AgentIds : FlagsShown(b)'
<1>1. \A b \in AgentIds : SameFlags(b)
  BY DEF SameFlags, KeepsFlags
<1>2. QED
  BY <1>1, SameFlagsShown DEF FlagsInv

-----------------------------------------------------------------------------
(* Settlements and refusals *)

LedgerShown(a) == view[a].settled = SettledOf(a) /\ view[a].refused = RefusedOf(a)

LedgerSeen == \A a \in AgentIds : LedgerShown(a)

\* SettledOf and RefusedOf, of records in a table
SettledIn(table, S) ==
  {[sequence |-> r[2], payee |-> table[r].payee, amount_usdc |-> table[r].amount_usdc,
    protocol |-> IF table[r].protocol = "X402" THEN 0 ELSE 1,
    settled_at |-> table[r].settled_at, parent_payment |-> table[r].parent_payment] : r \in S}

RefusedIn(table, S) == {[sequence |-> r[2], amount_usdc |-> table[r].amount_usdc] : r \in S}

LEMMA ShownIn ==
  ASSUME NEW a
  PROVE  /\ SettledOf(a) = SettledIn(payment_record, PassedOf(a))
         /\ SettledOf(a)' = SettledIn(payment_record', PassedOf(a)')
         /\ RefusedOf(a) = RefusedIn(payment_record, RecordsOf(a) \ PassedOf(a))
         /\ RefusedOf(a)' = RefusedIn(payment_record', RecordsOf(a)' \ PassedOf(a)')
BY DEF SettledOf, RefusedOf, SettledIn, RefusedIn

LEMMA SameRecordsShown ==
  ASSUME NEW table, NEW later, NEW S, \A r \in S : later[r] = table[r]
  PROVE  SettledIn(later, S) = SettledIn(table, S) /\ RefusedIn(later, S) = RefusedIn(table, S)
BY DEF SettledIn, RefusedIn

LEMMA LedgerSeenKept ==
  ASSUME LedgerSeen, UNCHANGED payment_record, \A a \in AgentIds : KeepsReports(a)
  PROVE  LedgerSeen'
<1> SUFFICES ASSUME NEW a \in AgentIds
             PROVE  LedgerShown(a)'
  BY DEF LedgerSeen
<1>1. SettledOf(a)' = SettledOf(a) /\ RefusedOf(a)' = RefusedOf(a)
  BY DEF SettledOf, RefusedOf, PassedOf, RecordsOf
<1>2. QED
  BY <1>1 DEF LedgerSeen, LedgerShown, KeepsReports

(***************************************************************************)
(* The entry that an instruction stores is the one its event announces.    *)
(***************************************************************************)
LEMMA EntryShown ==
  ASSUME NEW a, NEW sequence, <<a, sequence>> \notin DOMAIN payment_record, NEW record,
         payment_record' = Stored(payment_record, <<a, sequence>>, record), record.settled_at = now
  PROVE  /\ \A b : b # a => SettledOf(b)' = SettledOf(b) /\ RefusedOf(b)' = RefusedOf(b)
         /\ record.policy_passed =>
              /\ RefusedOf(a)' = RefusedOf(a)
              /\ SettledOf(a)' = SettledOf(a) \cup
                   {[sequence |-> sequence, payee |-> record.payee,
                     amount_usdc |-> record.amount_usdc,
                     protocol |-> IF record.protocol = "X402" THEN 0 ELSE 1,
                     settled_at |-> record.settled_at, parent_payment |-> record.parent_payment]}
         /\ ~record.policy_passed =>
              /\ SettledOf(a)' = SettledOf(a)
              /\ RefusedOf(a)' = RefusedOf(a) \cup
                   {[sequence |-> sequence, amount_usdc |-> record.amount_usdc]}
<1> DEFINE new == <<a, sequence>>
<1>1. /\ \A b : b # a => PassedOf(b)' = PassedOf(b)
      /\ PassedOf(a)' = IF record.policy_passed THEN PassedOf(a) \cup {new} ELSE PassedOf(a)
      /\ \A r \in DOMAIN payment_record : payment_record'[r] = payment_record[r]
      /\ payment_record'[new] = record
  BY EntryStored
<1>2. /\ \A b : b # a => RecordsOf(b)' = RecordsOf(b)
      /\ RecordsOf(a)' = RecordsOf(a) \cup {new}
  BY DEF RecordsOf, Stored
<1>3. \A b : /\ RecordsOf(b) \subseteq DOMAIN payment_record /\ PassedOf(b) \subseteq RecordsOf(b)
  BY DEF RecordsOf, PassedOf
<1>4. \A S \in SUBSET DOMAIN payment_record :
        /\ SettledIn(payment_record', S) = SettledIn(payment_record, S)
        /\ RefusedIn(payment_record', S) = RefusedIn(payment_record, S)
  BY <1>1, SameRecordsShown
<1>5. ASSUME NEW b, b # a
      PROVE  SettledOf(b)' = SettledOf(b) /\ RefusedOf(b)' = RefusedOf(b)
  <2>1. /\ PassedOf(b) \in SUBSET DOMAIN payment_record
        /\ (RecordsOf(b) \ PassedOf(b)) \in SUBSET DOMAIN payment_record
    BY <1>3
  <2>2. PassedOf(b)' = PassedOf(b) /\ RecordsOf(b)' = RecordsOf(b)
    BY <1>1, <1>2, <1>5
  <2>3. QED
    BY <1>4, <2>1, <2>2, ShownIn
<1>6. PICK S, T : S = PassedOf(a) /\ T = RecordsOf(a) \ PassedOf(a)
  OBVIOUS
<1>7. /\ S \in SUBSET DOMAIN payment_record /\ T \in SUBSET DOMAIN payment_record
      /\ SettledOf(a) = SettledIn(payment_record, S) /\ RefusedOf(a) = RefusedIn(payment_record, T)
  BY <1>3, <1>6, ShownIn
<1>8. new[2] = sequence /\ new \notin RecordsOf(a)
  BY <1>3
<1> HIDE DEF new
<1>9. ASSUME record.policy_passed
      PROVE  /\ RefusedOf(a)' = RefusedOf(a)
             /\ SettledOf(a)' = SettledOf(a) \cup
                  {[sequence |-> sequence, payee |-> record.payee,
                    amount_usdc |-> record.amount_usdc,
                    protocol |-> IF record.protocol = "X402" THEN 0 ELSE 1,
                    settled_at |-> record.settled_at, parent_payment |-> record.parent_payment]}
  <2>1. PassedOf(a)' = S \cup {new} /\ RecordsOf(a)' \ PassedOf(a)' = T
    BY <1>1, <1>2, <1>6, <1>8, <1>9
  <2>2. RefusedOf(a)' = RefusedOf(a)
    BY <1>4, <1>7, <2>1, ShownIn
  <2>3. SettledOf(a)' = SettledIn(payment_record', S \cup {new})
    BY <2>1, ShownIn
  <2>4. SettledIn(payment_record', S \cup {new}) = SettledIn(payment_record', S) \cup
          {[sequence |-> sequence, payee |-> record.payee, amount_usdc |-> record.amount_usdc,
            protocol |-> IF record.protocol = "X402" THEN 0 ELSE 1,
            settled_at |-> record.settled_at, parent_payment |-> record.parent_payment]}
    BY <1>1, <1>8 DEF SettledIn
  <2>5. SettledIn(payment_record', S) = SettledOf(a)
    BY <1>4, <1>7
  <2>6. QED
    BY <2>2, <2>3, <2>4, <2>5
<1>10. ASSUME ~record.policy_passed
       PROVE  /\ SettledOf(a)' = SettledOf(a)
              /\ RefusedOf(a)' = RefusedOf(a) \cup
                   {[sequence |-> sequence, amount_usdc |-> record.amount_usdc]}
  <2>1. PassedOf(a)' = S /\ RecordsOf(a)' \ PassedOf(a)' = T \cup {new}
    <3>1. new \notin PassedOf(a)
      BY <1>3, <1>8
    <3>2. QED
      BY <1>1, <1>2, <1>6, <1>10, <3>1
  <2>2. SettledOf(a)' = SettledOf(a)
    BY <1>4, <1>7, <2>1, ShownIn
  <2>3. RefusedOf(a)' = RefusedIn(payment_record', T \cup {new})
    BY <2>1, ShownIn
  <2>4. RefusedIn(payment_record', T \cup {new}) = RefusedIn(payment_record', T) \cup
          {[sequence |-> sequence, amount_usdc |-> record.amount_usdc]}
    BY <1>1, <1>8 DEF RefusedIn
  <2>5. RefusedIn(payment_record', T) = RefusedOf(a)
    BY <1>4, <1>7
  <2>6. QED
    BY <2>2, <2>3, <2>4, <2>5
<1>11. QED
  BY <1>5, <1>9, <1>10

LEMMA SettlePaymentSeen ==
  ASSUME TypeOK, ViewTypeOK, LedgerSeen, NEW owner \in Keys, NEW a \in AgentIds,
         NEW mint \in Mints, NEW payee \in Holders, NEW sequence \in U64,
         NEW params \in PaymentParams, SettlePayment(owner, a, mint, payee, sequence, params),
         Emits(a, PaymentSettled(view[a], sequence, payee, params))
  PROVE  LedgerSeen'
<1>1. PICK record :
        record = [payee |-> payee, amount_usdc |-> params.amount_usdc,
                  protocol |-> ProtocolOf(params.protocol),
                  settled_at |-> now, policy_passed |-> TRUE,
                  parent_payment |-> params.parent_payment]
  OBVIOUS
<1>2. /\ <<a, sequence>> \notin DOMAIN payment_record
      /\ payment_record' = Stored(payment_record, <<a, sequence>>, record)
      /\ ValidProtocol(params.protocol)
  BY <1>1 DEF SettlePayment, AdmitsPayment, RecordFree
<1>3. /\ record.payee = payee /\ record.amount_usdc = params.amount_usdc
      /\ record.protocol = ProtocolOf(params.protocol) /\ record.settled_at = now
      /\ record.policy_passed = TRUE /\ record.parent_payment = params.parent_payment
  BY <1>1
<1>4. (IF record.protocol = "X402" THEN 0 ELSE 1) = params.protocol
  BY <1>2, <1>3 DEF ValidProtocol, ProtocolOf
<1>5. /\ \A b : b # a => SettledOf(b)' = SettledOf(b) /\ RefusedOf(b)' = RefusedOf(b)
      /\ RefusedOf(a)' = RefusedOf(a)
      /\ SettledOf(a)' = SettledOf(a) \cup {SettledAs(sequence, payee, params)}
  BY <1>2, <1>3, <1>4, EntryShown DEF SettledAs
<1>6. /\ Touches(a) /\ view'[a].refused = view[a].refused
      /\ view'[a].settled = view[a].settled \cup {SettledAs(sequence, payee, params)}
  <2>1. now \in Nat
    BY DEF TypeOK
  <2>2. QED
    BY <1>2, <2>1, SettlementEvent
<1>7. QED
  BY <1>5, <1>6 DEF LedgerSeen, LedgerShown, Touches

LEMMA RecordPolicyViolationSeen ==
  ASSUME ViewTypeOK, LedgerSeen, NEW owner \in Keys, NEW a \in AgentIds, NEW sequence \in U64,
         NEW params \in PaymentParams, RecordPolicyViolation(owner, a, sequence, params),
         Emits(a, PolicyViolationRecorded(view[a], sequence, params))
  PROVE  LedgerSeen'
<1>1. PICK record :
        record = [payee |-> DefaultKey, amount_usdc |-> params.amount_usdc,
                  protocol |-> ProtocolOf(params.protocol), settled_at |-> now,
                  policy_passed |-> FALSE, parent_payment |-> {}]
  OBVIOUS
<1>2. /\ <<a, sequence>> \notin DOMAIN payment_record
      /\ payment_record' = Stored(payment_record, <<a, sequence>>, record)
  BY <1>1 DEF RecordPolicyViolation, RecordFree
<1>3. /\ record.amount_usdc = params.amount_usdc /\ record.settled_at = now
      /\ record.policy_passed = FALSE
  BY <1>1
<1>4. /\ \A b : b # a => SettledOf(b)' = SettledOf(b) /\ RefusedOf(b)' = RefusedOf(b)
      /\ SettledOf(a)' = SettledOf(a)
      /\ RefusedOf(a)' = RefusedOf(a) \cup
           {[sequence |-> sequence, amount_usdc |-> params.amount_usdc]}
  BY <1>2, <1>3, EntryShown
<1>5. /\ Touches(a) /\ view'[a].settled = view[a].settled
      /\ view'[a].refused =
           view[a].refused \cup {[sequence |-> sequence, amount_usdc |-> params.amount_usdc]}
  BY RefusalEvent
<1>6. QED
  BY <1>4, <1>5 DEF LedgerSeen, LedgerShown, Touches

-----------------------------------------------------------------------------
(* The invariant *)

(***************************************************************************)
(* Whoever reads the events adds nothing to what the program does.         *)
(***************************************************************************)
LEMMA DashboardStep ==
  ASSUME [DashboardNext]_dashboardVars
  PROVE  [Next]_vars
<1>1. SeenAdminister => Administer
  BY DEF SeenAdminister, Administer
<1>2. SeenManage => Manage
  BY DEF SeenManage, Manage
<1>3. SeenPay => Pay
  BY DEF SeenPay, Pay
<1>4. SeenEnvironment => Environment
  BY DEF SeenEnvironment, Environment
<1>5. QED
  BY <1>1, <1>2, <1>3, <1>4 DEF DashboardNext, Next, dashboardVars

ViewInv == ViewTypeOK /\ LedgerSeen /\ FlagsInv

\* What a step keeps; FlagsInv needs Accounted besides.
ViewKept == ViewTypeOK' /\ LedgerSeen' /\ \A b \in AgentIds : FlagsShown(b)'

LEMMA AdministerKeepsView ==
  ASSUME TypeOK, ViewInv, SeenAdminister
  PROVE  ViewKept
<1>1. ASSUME UNCHANGED <<agent_wallet, spend_policy, payment_record, token_account>>, EmitsNothing
      PROVE  ViewKept
  <2>1. ViewTypeOK' /\ \A b \in AgentIds : KeepsReports(b)
    BY <1>1, NothingHappened DEF ViewInv, KeepsReports
  <2>2. QED
    BY <1>1, <2>1, LedgerSeenKept, QuietFlags DEF ViewInv, ViewKept, EmitsNothing
<1>2. ASSUME NEW admin \in Keys, NEW a \in AgentIds, NEW flag \in BOOLEAN,
             SetFrozen(admin, a, flag), Emits(a, AgentFreezeChanged(view[a], flag))
      PROVE  ViewKept
  <2>1. ViewTypeOK' /\ \A b \in AgentIds : KeepsReports(b)
    BY <1>2, FreezeEvent DEF ViewInv, KeepsReports, Touches
  <2>2. LedgerSeen'
    BY <1>2, <2>1, LedgerSeenKept DEF ViewInv, SetFrozen
  <2>3. QED
    BY <1>2, <2>1, <2>2, SetFrozenFlags DEF ViewInv, ViewKept
<1>3. QED
  BY <1>1, <1>2 DEF SeenAdminister, InitProtocol, RotateProtocolAdmin, UpdateProtocolConfig,
                    FreezeAgent, UnfreezeAgent

LEMMA ManageKeepsView ==
  ASSUME TypeOK, ViewInv, SeenManage
  PROVE  ViewKept
<1>1. ASSUME NEW owner \in Keys, NEW a \in AgentIds, NEW mint \in Mints, EmitsNothing,
             RegisterAgent(owner, a, mint) \/ CloseAgent(owner, a, mint)
      PROVE  ViewKept
  <2>1. ViewTypeOK' /\ \A b \in AgentIds : KeepsReports(b)
    BY <1>1, NothingHappened DEF ViewInv, KeepsReports
  <2>2. LedgerSeen'
    BY <1>1, <2>1, LedgerSeenKept DEF ViewInv, RegisterAgent, CloseAgent
  <2>3. QED
    BY <1>1, <2>1, <2>2, RegisterAgentFlags, CloseAgentFlags DEF ViewInv, ViewKept
<1>2. ASSUME NEW owner \in Keys, NEW a \in AgentIds, NEW flag \in BOOLEAN,
             SetActive(owner, a, flag), Emits(a, AgentStatusChanged(view[a], flag))
      PROVE  ViewKept
  <2>1. ViewTypeOK' /\ \A b \in AgentIds : KeepsReports(b)
    BY <1>2, StatusEvent DEF ViewInv, KeepsReports, Touches
  <2>2. LedgerSeen'
    BY <1>2, <2>1, LedgerSeenKept DEF ViewInv, SetActive
  <2>3. QED
    BY <1>2, <2>1, <2>2, SetActiveFlags DEF ViewInv, ViewKept
<1>3. ASSUME NEW owner \in Keys, NEW a \in AgentIds, NEW new_owner \in Pubkeys,
             TransferOwnership(owner, a, new_owner),
             Emits(a, OwnershipTransferred(view[a], new_owner))
      PROVE  ViewKept
  <2>1. ViewTypeOK' /\ \A b \in AgentIds : KeepsReports(b)
    BY <1>3, OwnerEvent DEF ViewInv, KeepsReports, Touches
  <2>2. LedgerSeen'
    BY <1>3, <2>1, LedgerSeenKept DEF ViewInv, TransferOwnership
  <2>3. QED
    BY <1>3, <2>1, <2>2, TransferOwnershipFlags DEF ViewInv, ViewKept
<1>4. ASSUME NEW owner \in Keys, NEW a \in AgentIds, NEW params \in PolicyParams,
             SetSpendPolicy(owner, a, params), Emits(a, SpendPolicyUpdated(view[a], params))
      PROVE  ViewKept
  <2>1. ViewTypeOK' /\ \A b \in AgentIds : KeepsReports(b)
    BY <1>4, PolicyEvent DEF ViewInv, KeepsReports, Touches
  <2>2. LedgerSeen'
    BY <1>4, <2>1, LedgerSeenKept DEF ViewInv, SetSpendPolicy
  <2>3. QED
    BY <1>4, <2>1, <2>2, SetSpendPolicyFlags DEF ViewInv, ViewKept
<1>5. QED
  BY <1>1, <1>2, <1>3, <1>4 DEF SeenManage, DeactivateAgent, ReactivateAgent

LEMMA PayKeepsView ==
  ASSUME TypeOK, ViewInv, SeenPay, DOMAIN token_account \subseteq DOMAIN token_account'
  PROVE  ViewKept
<1>1. ASSUME NEW owner \in Keys, NEW a \in AgentIds, NEW mint \in Mints, NEW payee \in Holders,
             NEW sequence \in U64, NEW params \in PaymentParams,
             SettlePayment(owner, a, mint, payee, sequence, params),
             Emits(a, PaymentSettled(view[a], sequence, payee, params))
      PROVE  ViewKept
  <2>1. ViewTypeOK'
    BY <1>1, SettlementEvent DEF ViewInv, SettlePayment, AdmitsPayment, Touches, TypeOK
  <2>2. QED
    BY <1>1, <2>1, SettlePaymentSeen, SettlePaymentFlags DEF ViewInv, ViewKept
<1>2. ASSUME NEW owner \in Keys, NEW a \in AgentIds, NEW sequence \in U64,
             NEW params \in PaymentParams, RecordPolicyViolation(owner, a, sequence, params),
             Emits(a, PolicyViolationRecorded(view[a], sequence, params))
      PROVE  ViewKept
  <2>1. ViewTypeOK'
    BY <1>2, RefusalEvent DEF ViewInv, Touches
  <2>2. QED
    BY <1>2, <2>1, RecordPolicyViolationSeen, RecordPolicyViolationFlags DEF ViewInv, ViewKept
<1>3. ASSUME NEW owner \in Keys, NEW a \in AgentIds, NEW mint \in Mints, NEW amount \in Nat,
             WithdrawFunds(owner, a, mint, amount), Emits(a, FundsWithdrawn(view[a], amount))
      PROVE  ViewKept
  <2>1. ViewTypeOK' /\ \A b \in AgentIds : KeepsReports(b)
    BY <1>3, WithdrawalEvent DEF ViewInv, KeepsReports, Touches
  <2>2. LedgerSeen'
    BY <1>3, <2>1, LedgerSeenKept DEF ViewInv, WithdrawFunds
  <2>3. QED
    BY <1>3, <2>1, <2>2, WithdrawFundsFlags DEF ViewInv, ViewKept
<1>4. \A amount \in Amounts : amount \in Nat
  BY InputsAssumption, WidthAssumption DEF U64
<1>5. \A t \in DOMAIN token_account : token_account[t] \in Nat
  BY DEF TypeOK
<1>6. QED
  BY <1>1, <1>2, <1>3, <1>4, <1>5 DEF SeenPay, WithdrawAll, AllOf

LEMMA EnvironmentKeepsView ==
  ASSUME TypeOK, ViewInv, SeenEnvironment, DOMAIN token_account \subseteq DOMAIN token_account'
  PROVE  ViewKept
<1>1. /\ UNCHANGED <<view, agent_wallet, spend_policy, payment_record>>
      /\ \/ arrived' = arrived
         \/ \E holder \in Holders, amount \in Amounts :
              arrived' = [arrived EXCEPT ![holder] = @ + amount]
  BY DEF SeenEnvironment, CreateTokenAccount, Fund, Tick, EmitsNothing
<1>2. ViewTypeOK'
  <2>1. \A amount \in Amounts : amount \in Nat
    BY InputsAssumption, WidthAssumption DEF U64
  <2>2. QED
    BY <1>1, <2>1 DEF ViewInv, ViewTypeOK
<1>3. LedgerSeen'
  BY <1>1, LedgerSeenKept DEF ViewInv, KeepsReports
<1>4. QED
  BY <1>1, <1>2, <1>3, QuietFlags DEF ViewInv, ViewKept

LEMMA ViewInvPreserved ==
  ASSUME TypeOK, ViewInv, [DashboardNext]_dashboardVars
  PROVE  ViewInv'
<1>1. [Next]_vars
  BY DashboardStep
<1>2. DOMAIN token_account \subseteq DOMAIN token_account'
  BY <1>1, TokenAccountsStay
<1>3. ViewKept
  <2>1. ASSUME UNCHANGED dashboardVars
        PROVE  ViewKept
    <3>1. UNCHANGED <<view, arrived, agent_wallet, spend_policy, payment_record>>
      BY <2>1 DEF dashboardVars, vars
    <3>2. ViewTypeOK'
      BY <3>1 DEF ViewInv, ViewTypeOK
    <3>3. LedgerSeen'
      BY <3>1, LedgerSeenKept DEF ViewInv, KeepsReports
    <3>4. QED
      BY <1>2, <3>1, <3>2, <3>3, QuietFlags DEF ViewInv, ViewKept
  <2>2. QED
    BY <1>2, <2>1, AdministerKeepsView, ManageKeepsView, PayKeepsView, EnvironmentKeepsView
       DEF DashboardNext
<1>4. \A a \in AgentIds : Accounted(a)'
  BY <1>1, AccountedAfter DEF ViewInv, FlagsInv
<1>5. QED
  BY <1>3, <1>4 DEF ViewInv, ViewKept, FlagsInv

LEMMA ViewInvariant == DashboardSpec => [](TypeOK /\ ViewInv)
<1>1. DashboardInit => ViewInv
  <2> SUFFICES ASSUME DashboardInit
               PROVE  ViewInv
    OBVIOUS
  <2>1. /\ view = [a \in AgentIds |-> NothingSeen] /\ arrived = [h \in Holders |-> 0]
        /\ DOMAIN agent_wallet = {} /\ DOMAIN spend_policy = {} /\ DOMAIN payment_record = {}
    BY DEF DashboardInit, Init, NoAccounts
  <2>2. NothingSeen \in View
    BY DEF NothingSeen, View
  <2>3. ViewTypeOK
    BY <2>1, <2>2 DEF ViewTypeOK
  <2>4. \A a \in AgentIds : RecordsOf(a) = {} /\ PassedOf(a) = {}
    BY <2>1 DEF RecordsOf, PassedOf
  <2>5. LedgerSeen
    BY <2>1, <2>4 DEF LedgerSeen, LedgerShown, SettledOf, RefusedOf, NothingSeen
  <2>6. FlagsInv
    BY <2>1, <2>4 DEF FlagsInv, Accounted, FlagsShown, NothingSeen
  <2>7. QED
    BY <2>3, <2>5, <2>6 DEF ViewInv
<1>2. TypeOK /\ ViewInv /\ [DashboardNext]_dashboardVars => ViewInv'
  BY ViewInvPreserved
<1>3. [DashboardNext]_dashboardVars => [Next]_vars
  BY DashboardStep
<1>4. DashboardInit => Init
  BY DEF DashboardInit
<1>5. QED
  BY <1>1, <1>2, <1>3, <1>4, TypeCorrect, PTL DEF Spec, DashboardSpec

(***************************************************************************)
(* The events are an addition to what the instructions do: with them the   *)
(* program runs as it runs without, and what is proved of it holds.        *)
(***************************************************************************)
THEOREM EventsChangeNothing == DashboardSpec => Spec
<1>1. [DashboardNext]_dashboardVars => [Next]_vars
  BY DashboardStep
<1>2. DashboardInit => Init
  BY DEF DashboardInit
<1>3. QED
  BY <1>1, <1>2, PTL DEF Spec, DashboardSpec

(***************************************************************************)
(* Reading events alone the dashboard has the ledger of every agent, also  *)
(* of a closed one, and the flags, the owner and the announced limits of   *)
(* every wallet, whatever happened between two of its events.              *)
(***************************************************************************)
THEOREM DashboardIsRight ==
  ASSUME SingleMint
  PROVE  DashboardSpec => []ViewMatchesAccounts
<1>1. ViewInv => ViewMatchesAccounts
  BY DEF ViewInv, LedgerSeen, LedgerShown, FlagsInv, FlagsShown, PolicyShown, Announced,
         ViewMatchesAccounts
<1>2. QED
  BY <1>1, ViewInvariant, PTL

(***************************************************************************)
(* What a second mint leaves of it: the ledger of every agent and the      *)
(* limits in force are right when closed ids are registered again, and     *)
(* only the flags and the owner may be those of the earlier wallet.        *)
(***************************************************************************)
THEOREM LedgerAndLimitsAreRight ==
  DashboardSpec => [](LedgerSeen /\ \A a \in DOMAIN spend_policy : PolicyShown(a))
<1>1. TypeOK /\ ViewInv => LedgerSeen /\ \A a \in DOMAIN spend_policy : PolicyShown(a)
  BY DEF TypeOK, ViewInv, FlagsInv, FlagsShown
<1>2. QED
  BY <1>1, ViewInvariant, PTL

(***************************************************************************)
(* close_agent is silent, and yet no wallet that is gone is shown active:  *)
(* neither of an id that stays closed nor, with a second mint, of one that *)
(* is registered again and keeps its old flags in the dashboard.           *)
(***************************************************************************)
THEOREM ActiveWalletsAreThere == DashboardSpec => []ShownActiveExists
<1>1. ViewInv => ShownActiveExists
  BY DEF ViewInv, FlagsInv, FlagsShown, ShownActiveExists
<1>2. QED
  BY <1>1, ViewInvariant, PTL

-----------------------------------------------------------------------------
(* The books *)

\* Sums over the dashboard's ledger: what entries amount to, and those of b that paid a
Worth(S) == SumFunction([s \in S |-> s.amount_usdc])

PaidTo(b, a) == {e \in view[b].settled : e.payee = a}

Brought(a) == [b \in AgentIds |-> Worth(PaidTo(b, a))]

LEMMA InWorth ==
  ASSUME NEW a
  PROVE  /\ Received(a) = SumFunction(Brought(a)) /\ PaidBy(a) = Worth(view[a].settled)
         /\ Received(a)' = SumFunction(Brought(a)') /\ PaidBy(a)' = Worth(view'[a].settled)
BY DEF Received, Brought, Worth, PaidTo, PaidBy

LEMMA WorthIsNat ==
  ASSUME NEW S \in SUBSET Entry, IsFiniteSet(S)
  PROVE  Worth(S) \in Nat
<1> DEFINE f == [s \in S |-> s.amount_usdc]
<1>1. DOMAIN f = S /\ \A s \in S : f[s] \in Nat
  BY DEF Entry
<1>2. Worth(S) = SumFunctionOnSet(f, S)
  BY <1>1 DEF Worth, SumFunction
<1> HIDE DEF f
<1>3. QED
  BY <1>1, <1>2, SumByElement

LEMMA WorthOfOneMore ==
  ASSUME NEW S \in SUBSET Entry, IsFiniteSet(S), NEW e \in Entry, e \notin S
  PROVE  IsFiniteSet(S \cup {e}) /\ Worth(S \cup {e}) = Worth(S) + e.amount_usdc
<1> DEFINE f == [s \in S |-> s.amount_usdc]
           g == [s \in S \cup {e} |-> s.amount_usdc]
<1>1. /\ DOMAIN f = S /\ DOMAIN g = S \cup {e}
      /\ \A s \in S : g[s] = f[s]
      /\ g[e] = e.amount_usdc
      /\ \A s \in S \cup {e} : g[s] \in Nat
  BY DEF Entry
<1>2. Worth(S) = SumFunctionOnSet(f, S) /\ Worth(S \cup {e}) = SumFunctionOnSet(g, S \cup {e})
  BY <1>1 DEF Worth, SumFunction
<1> HIDE DEF f, g
<1>3. SumFunctionOnSet(g, S) = SumFunctionOnSet(f, S)
  BY <1>1, SumOfSameValues
<1>4. /\ SumFunctionOnSet(g, S) \in Nat
      /\ SumFunctionOnSet(g, S \cup {e}) = g[e] + SumFunctionOnSet(g, S)
  BY <1>1, SumWithElement
<1>5. QED
  BY <1>1, <1>2, <1>3, <1>4, FS_AddElement

SettledFinite == \A a \in AgentIds : IsFiniteSet(view[a].settled)

LEMMA PaidToTyped ==
  ASSUME ViewTypeOK, SettledFinite, NEW b \in AgentIds, NEW a
  PROVE  PaidTo(b, a) \in SUBSET Entry /\ IsFiniteSet(PaidTo(b, a))
<1>1. view[b].settled \in SUBSET Entry /\ PaidTo(b, a) \subseteq view[b].settled
  BY DEF ViewTypeOK, View, PaidTo
<1>2. QED
  BY <1>1, FS_Subset DEF SettledFinite

LEMMA BroughtTyped ==
  ASSUME ViewTypeOK, SettledFinite, NEW a
  PROVE  Brought(a) \in [AgentIds -> Nat]
BY PaidToTyped, WorthIsNat DEF Brought

(***************************************************************************)
(* A settlement seen: the payer has paid its amount, its payee, when that  *)
(* is an agent, has received it, and no other total moves.                 *)
(***************************************************************************)
LEMMA SettlementBooked ==
  ASSUME IsFiniteSet(AgentIds), ViewTypeOK, ViewTypeOK', SettledFinite, NEW a \in AgentIds,
         NEW e \in Entry, e \notin view[a].settled, view'[a].settled = view[a].settled \cup {e},
         \A b \in AgentIds : b # a => view'[b] = view[b]
  PROVE  /\ SettledFinite'
         /\ PaidBy(a)' = PaidBy(a) + e.amount_usdc
         /\ \A b \in AgentIds : b # a => PaidBy(b)' = PaidBy(b)
         /\ \A b \in AgentIds : Received(b)' = Received(b) + (IF b = e.payee THEN e.amount_usdc ELSE 0)
<1>1. view[a].settled \in SUBSET Entry /\ IsFiniteSet(view[a].settled) /\ e.amount_usdc \in Nat
  BY DEF ViewTypeOK, View, SettledFinite, Entry
<1>2. IsFiniteSet(view'[a].settled)
  BY <1>1, FS_AddElement
<1>3. SettledFinite'
  BY <1>2 DEF SettledFinite
<1>4. PaidBy(a)' = PaidBy(a) + e.amount_usdc
  BY <1>1, WorthOfOneMore, InWorth
<1>5. \A b \in AgentIds : b # a => PaidBy(b)' = PaidBy(b)
  BY InWorth
<1>6. ASSUME NEW b \in AgentIds
      PROVE  Received(b)' = Received(b) + (IF b = e.payee THEN e.amount_usdc ELSE 0)
  <2>1. PICK f, g : f = Brought(b) /\ g = Brought(b)'
    OBVIOUS
  <2>2. f \in [AgentIds -> Nat] /\ g \in [AgentIds -> Nat]
    <3>1. ASSUME NEW c \in AgentIds
          PROVE  Worth(PaidTo(c, b)') \in Nat
      <4>1. view'[c].settled \in SUBSET Entry /\ IsFiniteSet(view'[c].settled)
        BY <1>3 DEF ViewTypeOK, View, SettledFinite
      <4>2. PaidTo(c, b)' \in SUBSET Entry /\ IsFiniteSet(PaidTo(c, b)')
        BY <4>1, FS_Subset DEF PaidTo
      <4>3. QED
        BY <4>2, WorthIsNat
    <3>2. g = [c \in AgentIds |-> Worth(PaidTo(c, b)')]
      BY <2>1 DEF Brought, Worth
    <3>3. QED
      BY <2>1, <3>1, <3>2, BroughtTyped
  <2>3. \A c \in AgentIds \ {a} : g[c] = f[c]
    BY <2>1 DEF Brought, PaidTo
  <2>4. g[a] = f[a] + (IF b = e.payee THEN e.amount_usdc ELSE 0)
    <3>1. f[a] = Worth(PaidTo(a, b)) /\ g[a] = Worth(PaidTo(a, b)')
      BY <2>1 DEF Brought, Worth
    <3>2. CASE b = e.payee
      <4>1. PaidTo(a, b)' = PaidTo(a, b) \cup {e} /\ e \notin PaidTo(a, b)
        BY <3>2 DEF PaidTo
      <4>2. QED
        BY <3>1, <3>2, <4>1, PaidToTyped, WorthOfOneMore
    <3>3. CASE b # e.payee
      <4>1. PaidTo(a, b)' = PaidTo(a, b)
        BY <3>3 DEF PaidTo
      <4>2. QED
        BY <2>2, <3>1, <3>3, <4>1
    <3>4. QED
      BY <3>2, <3>3
  <2>5. SumFunction(f) \in Nat /\ SumFunction(g) = SumFunction(f) - f[a] + g[a]
    BY <2>2, <2>3, SumWithOneChanged
  <2>6. Received(b) = SumFunction(f) /\ Received(b)' = SumFunction(g)
    BY <2>1, InWorth
  <2>7. f[a] \in Nat
    BY <2>2
  <2>8. QED
    BY <1>1, <2>4, <2>5, <2>6, <2>7
<1>7. QED
  BY <1>3, <1>4, <1>5, <1>6

LEMMA BooksTyped ==
  ASSUME IsFiniteSet(AgentIds), TypeOK, ViewTypeOK, SettledFinite, NEW b \in AgentIds
  PROVE  /\ Received(b) \in Nat /\ PaidBy(b) \in Nat
         /\ view[b].withdrawn \in Nat /\ arrived[b] \in Nat
         /\ \A m : Balance(b, m) \in Nat
<1>1. Received(b) \in Nat
  <2>1. PICK f : f = Brought(b)
    OBVIOUS
  <2>2. f \in [AgentIds -> Nat] /\ Received(b) = SumFunction(f)
    BY <2>1, BroughtTyped, InWorth
  <2>3. SumFunction(f) = SumFunctionOnSet(f, AgentIds) /\ \A x \in AgentIds : f[x] \in Nat
    BY <2>2 DEF SumFunction
  <2>4. QED
    BY <2>2, <2>3, SumByElement
<1>2. view[b] \in View /\ arrived[b] \in Nat
  BY DEF ViewTypeOK, Holders
<1>3. PaidBy(b) \in Nat
  BY <1>2, WorthIsNat, InWorth DEF SettledFinite, View
<1>4. \A m : Balance(b, m) \in Nat
  BY DEF TypeOK, Balance
<1>5. QED
  BY <1>1, <1>2, <1>3, <1>4 DEF View

BooksKept == BooksBalance' /\ SettledFinite'

LEMMA BooksUntouched ==
  ASSUME BooksBalance, SettledFinite, arrived' = arrived,
         \A b \in AgentIds : /\ view'[b].settled = view[b].settled
                             /\ view'[b].withdrawn = view[b].withdrawn,
         \A b \in AgentIds, m \in Mints : Balance(b, m)' = Balance(b, m)
  PROVE  BooksKept
<1>1. ASSUME NEW b \in AgentIds
      PROVE  PaidBy(b)' = PaidBy(b) /\ Received(b)' = Received(b)
  <2>1. Brought(b)' = Brought(b)
    BY DEF Brought, PaidTo
  <2>2. QED
    BY <2>1, InWorth
<1>2. BooksBalance'
  BY <1>1 DEF BooksBalance
<1>3. QED
  BY <1>2 DEF BooksKept, SettledFinite

LEMMA SettlePaymentBooks ==
  ASSUME SingleMint, IsFiniteSet(AgentIds), TypeOK, ViewTypeOK, LedgerSeen, BooksBalance,
         SettledFinite, ViewTypeOK',
         NEW owner \in Keys, NEW a \in AgentIds, NEW mint \in Mints, NEW payee \in Holders,
         NEW sequence \in U64, NEW params \in PaymentParams,
         SettlePayment(owner, a, mint, payee, sequence, params),
         Emits(a, PaymentSettled(view[a], sequence, payee, params))
  PROVE  BooksKept
<1>1. PICK e : e = SettledAs(sequence, payee, params)
  OBVIOUS
<1>2. PICK amount : amount = params.amount_usdc
  OBVIOUS
<1>3. /\ <<a, sequence>> \notin DOMAIN payment_record
      /\ <<a, mint>> \in DOMAIN token_account /\ <<payee, mint>> \in DOMAIN token_account
      /\ token_account' = Transferred(token_account, <<a, mint>>, <<payee, mint>>, amount)
      /\ ValidProtocol(params.protocol)
  BY <1>2 DEF SettlePayment, AdmitsPayment, RecordFree
<1>4. e.sequence = sequence /\ e.payee = payee /\ e.amount_usdc = amount
  BY <1>1, <1>2 DEF SettledAs
<1>5. /\ Touches(a) /\ e \in Entry
      /\ view'[a].settled = view[a].settled \cup {e}
      /\ view'[a].withdrawn = view[a].withdrawn
  BY <1>1, <1>3, SettlementEvent DEF TypeOK
<1>6. e \notin view[a].settled
  <2>1. ASSUME e \in SettledOf(a)
        PROVE  FALSE
    <3>1. PICK r \in PassedOf(a) : e.sequence = r[2]
      BY <2>1 DEF SettledOf
    <3>2. r \in Records /\ r \in DOMAIN payment_record /\ r[1] = a
      BY <3>1 DEF PassedOf, RecordsOf, TypeOK
    <3>3. r = <<a, sequence>>
      BY <1>4, <3>1, <3>2 DEF Records
    <3>4. QED
      BY <1>3, <3>2, <3>3
  <2>2. QED
    BY <2>1 DEF LedgerSeen, LedgerShown
<1>7. /\ SettledFinite'
      /\ PaidBy(a)' = PaidBy(a) + amount
      /\ \A b \in AgentIds : b # a => PaidBy(b)' = PaidBy(b)
      /\ \A b \in AgentIds : Received(b)' = Received(b) + Gain(b, payee, amount)
  <2>1. \A b \in AgentIds : b # a => view'[b] = view[b]
    BY <1>5 DEF Touches
  <2>2. QED
    BY <1>4, <1>5, <1>6, <2>1, SettlementBooked DEF Gain
<1>8. ASSUME NEW b \in AgentIds, NEW m \in Mints
      PROVE  Balance(b, m)' = arrived'[b] + Received(b)' - PaidBy(b)' - view'[b].withdrawn
  <2>1. amount \in Nat
    BY <1>4, <1>5 DEF Entry
  <2>2. Balance(b, m)' = Balance(b, m) - Gain(b, a, amount) + Gain(b, payee, amount)
    BY <1>3, <2>1, TransferBalances
  <2>3. Balance(b, m) = arrived[b] + Received(b) - PaidBy(b) - view[b].withdrawn
    BY DEF BooksBalance
  <2>4. PaidBy(b)' = PaidBy(b) + Gain(b, a, amount)
    BY <1>7, BooksTyped DEF Gain
  <2>5. view'[b].withdrawn = view[b].withdrawn /\ arrived'[b] = arrived[b]
    BY <1>5 DEF Touches
  <2>6. Gain(b, a, amount) \in Nat /\ Gain(b, payee, amount) \in Nat
    BY <2>1 DEF Gain
  <2>7. Received(b)' = Received(b) + Gain(b, payee, amount)
    BY <1>7
  <2>8. QED
    BY <2>2, <2>3, <2>4, <2>5, <2>6, <2>7, BooksTyped
<1>9. QED
  BY <1>7, <1>8 DEF BooksKept, BooksBalance

LEMMA WithdrawFundsBooks ==
  ASSUME SingleMint, IsFiniteSet(AgentIds), TypeOK, ViewTypeOK, BooksBalance, SettledFinite,
         NEW owner \in Keys, NEW a \in AgentIds, NEW mint \in Mints, NEW amount \in Nat,
         WithdrawFunds(owner, a, mint, amount), Emits(a, FundsWithdrawn(view[a], amount))
  PROVE  BooksKept
<1>1. /\ <<a, mint>> \in DOMAIN token_account /\ <<owner, mint>> \in DOMAIN token_account
      /\ token_account' = Transferred(token_account, <<a, mint>>, <<owner, mint>>, amount)
  BY DEF WithdrawFunds
<1>2. /\ Touches(a) /\ KeepsReports(a) /\ view'[a].withdrawn = view[a].withdrawn + amount
  BY WithdrawalEvent
<1>3. \A b \in AgentIds : view'[b].settled = view[b].settled
  BY <1>2 DEF Touches, KeepsReports
<1>4. ASSUME NEW b \in AgentIds
      PROVE  PaidBy(b)' = PaidBy(b) /\ Received(b)' = Received(b)
  <2>1. Brought(b)' = Brought(b)
    BY <1>3 DEF Brought, PaidTo
  <2>2. QED
    BY <1>3, <2>1, InWorth
<1>5. ASSUME NEW b \in AgentIds, NEW m \in Mints
      PROVE  Balance(b, m)' = arrived'[b] + Received(b)' - PaidBy(b)' - view'[b].withdrawn
  <2>1. Balance(b, m)' = Balance(b, m) - Gain(b, a, amount)
    <3>1. Gain(b, owner, amount) = 0
      BY NamesAssumption DEF Gain
    <3>2. Gain(b, a, amount) \in Nat
      BY DEF Gain
    <3>3. QED
      BY <1>1, <3>1, <3>2, TransferBalances, BooksTyped
  <2>2. Balance(b, m) = arrived[b] + Received(b) - PaidBy(b) - view[b].withdrawn
    BY DEF BooksBalance
  <2>3. view'[b].withdrawn = view[b].withdrawn + Gain(b, a, amount) /\ arrived'[b] = arrived[b]
    BY <1>2, BooksTyped DEF Touches, Gain
  <2>4. Gain(b, a, amount) \in Nat
    BY DEF Gain
  <2>5. QED
    BY <1>4, <2>1, <2>2, <2>3, <2>4, BooksTyped
<1>6. QED
  BY <1>3, <1>5 DEF BooksKept, BooksBalance, SettledFinite

LEMMA FundBooks ==
  ASSUME SingleMint, IsFiniteSet(AgentIds), TypeOK, ViewTypeOK, BooksBalance, SettledFinite,
         NEW holder \in Holders, NEW mint \in Mints, NEW amount \in Amounts,
         Fund(holder, mint, amount), arrived' = [arrived EXCEPT ![holder] = @ + amount],
         UNCHANGED view
  PROVE  BooksKept
<1>1. amount \in Nat
  BY InputsAssumption, WidthAssumption DEF U64
<1>2. /\ <<holder, mint>> \in DOMAIN token_account
      /\ token_account' = [token_account EXCEPT ![<<holder, mint>>] = @ + amount]
  BY DEF Fund
<1>3. ASSUME NEW b \in AgentIds
      PROVE  PaidBy(b)' = PaidBy(b) /\ Received(b)' = Received(b)
  BY InWorth DEF Brought, PaidTo
<1>4. ASSUME NEW b \in AgentIds, NEW m \in Mints
      PROVE  Balance(b, m)' = arrived'[b] + Received(b)' - PaidBy(b)' - view'[b].withdrawn
  <2>1. m = mint
    BY DEF SingleMint
  <2>2. Balance(b, m)' = Balance(b, m) + Gain(b, holder, amount)
    <3>1. \A t \in DOMAIN token_account : token_account[t] \in Nat
      BY DEF TypeOK
    <3>2. CASE b = holder
      BY <1>1, <1>2, <2>1, <3>1, <3>2 DEF Balance, Gain
    <3>3. CASE b # holder
      BY <1>2, <2>1, <3>1, <3>3 DEF Balance, Gain
    <3>4. QED
      BY <3>2, <3>3
  <2>3. arrived'[b] = arrived[b] + Gain(b, holder, amount)
    BY <1>1 DEF ViewTypeOK, Holders, Gain
  <2>4. Balance(b, m) = arrived[b] + Received(b) - PaidBy(b) - view[b].withdrawn
    BY DEF BooksBalance
  <2>5. Gain(b, holder, amount) \in Nat
    BY <1>1 DEF Gain
  <2>6. QED
    BY <1>3, <2>2, <2>3, <2>4, <2>5, BooksTyped
<1>5. QED
  BY <1>4 DEF BooksKept, BooksBalance, SettledFinite

Booked == BooksBalance /\ SettledFinite

LEMMA BookedPreserved ==
  ASSUME SingleMint, IsFiniteSet(AgentIds), TypeOK, ViewInv, ViewTypeOK', Booked,
         [DashboardNext]_dashboardVars
  PROVE  Booked'
<1> USE DEF ViewInv, Booked
<1>1. ASSUME UNCHANGED token_account, arrived' = arrived,
             \A b \in AgentIds : /\ view'[b].settled = view[b].settled
                                 /\ view'[b].withdrawn = view[b].withdrawn
      PROVE  BooksKept
  <2>1. \A b \in AgentIds, m \in Mints : Balance(b, m)' = Balance(b, m)
    BY <1>1 DEF Balance
  <2>2. QED
    BY <1>1, <2>1, BooksUntouched
<1>2. ASSUME NEW t, t \notin DOMAIN token_account, token_account' = Stored(token_account, t, 0),
             EmitsNothing
      PROVE  BooksKept
  <2>1. \A b \in AgentIds, m \in Mints : Balance(b, m)' = Balance(b, m)
    BY <1>2, NewAccountBalances
  <2>2. view' = view /\ arrived' = arrived
    BY <1>2 DEF EmitsNothing
  <2>3. QED
    BY <2>1, <2>2, BooksUntouched
<1>3. ASSUME UNCHANGED token_account, NEW a \in AgentIds, Touches(a), KeepsReports(a),
             view'[a].withdrawn = view[a].withdrawn
      PROVE  BooksKept
  BY <1>1, <1>3 DEF Touches, KeepsReports
<1>4. ASSUME SeenAdminister
      PROVE  BooksKept
  <2>1. ASSUME UNCHANGED token_account, EmitsNothing
        PROVE  BooksKept
    BY <1>1, <2>1 DEF EmitsNothing
  <2>2. ASSUME NEW admin \in Keys, NEW a \in AgentIds, NEW flag \in BOOLEAN,
               SetFrozen(admin, a, flag), Emits(a, AgentFreezeChanged(view[a], flag))
        PROVE  BooksKept
    BY <1>3, <2>2, FreezeEvent DEF SetFrozen
  <2>3. QED
    BY <1>4, <2>1, <2>2 DEF SeenAdminister, InitProtocol, RotateProtocolAdmin,
                            UpdateProtocolConfig, FreezeAgent, UnfreezeAgent
<1>5. ASSUME SeenManage
      PROVE  BooksKept
  <2>1. ASSUME NEW owner \in Keys, NEW a \in AgentIds, NEW mint \in Mints,
               RegisterAgent(owner, a, mint), EmitsNothing
        PROVE  BooksKept
    BY <1>2, <2>1 DEF RegisterAgent, AddressesFree
  <2>2. ASSUME NEW owner \in Keys, NEW a \in AgentIds, NEW mint \in Mints,
               CloseAgent(owner, a, mint), EmitsNothing
        PROVE  BooksKept
    BY <1>1, <2>2 DEF CloseAgent, EmitsNothing
  <2>3. ASSUME NEW owner \in Keys, NEW a \in AgentIds, NEW flag \in BOOLEAN,
               SetActive(owner, a, flag), Emits(a, AgentStatusChanged(view[a], flag))
        PROVE  BooksKept
    BY <1>3, <2>3, StatusEvent DEF SetActive
  <2>4. ASSUME NEW owner \in Keys, NEW a \in AgentIds, NEW new_owner \in Pubkeys,
               TransferOwnership(owner, a, new_owner),
               Emits(a, OwnershipTransferred(view[a], new_owner))
        PROVE  BooksKept
    BY <1>3, <2>4, OwnerEvent DEF TransferOwnership
  <2>5. ASSUME NEW owner \in Keys, NEW a \in AgentIds, NEW params \in PolicyParams,
               SetSpendPolicy(owner, a, params), Emits(a, SpendPolicyUpdated(view[a], params))
        PROVE  BooksKept
    BY <1>3, <2>5, PolicyEvent DEF SetSpendPolicy
  <2>6. QED
    BY <1>5, <2>1, <2>2, <2>3, <2>4, <2>5 DEF SeenManage, DeactivateAgent, ReactivateAgent
<1>6. ASSUME SeenPay
      PROVE  BooksKept
  <2>1. ASSUME NEW owner \in Keys, NEW a \in AgentIds, NEW mint \in Mints, NEW payee \in Holders,
               NEW sequence \in U64, NEW params \in PaymentParams,
               SettlePayment(owner, a, mint, payee, sequence, params),
               Emits(a, PaymentSettled(view[a], sequence, payee, params))
        PROVE  BooksKept
    BY <2>1, SettlePaymentBooks
  <2>2. ASSUME NEW owner \in Keys, NEW a \in AgentIds, NEW sequence \in U64,
               NEW params \in PaymentParams, RecordPolicyViolation(owner, a, sequence, params),
               Emits(a, PolicyViolationRecorded(view[a], sequence, params))
        PROVE  BooksKept
    <3>1. UNCHANGED token_account
      BY <2>2 DEF RecordPolicyViolation
    <3>2. /\ Touches(a) /\ view'[a].settled = view[a].settled
          /\ view'[a].withdrawn = view[a].withdrawn
      BY <2>2, RefusalEvent
    <3>3. QED
      BY <1>1, <3>1, <3>2 DEF Touches
  <2>3. ASSUME NEW owner \in Keys, NEW a \in AgentIds, NEW mint \in Mints, NEW amount \in Nat,
               WithdrawFunds(owner, a, mint, amount), Emits(a, FundsWithdrawn(view[a], amount))
        PROVE  BooksKept
    BY <2>3, WithdrawFundsBooks
  <2>4. \A amount \in Amounts : amount \in Nat
    BY InputsAssumption, WidthAssumption DEF U64
  <2>5. \A t \in DOMAIN token_account : token_account[t] \in Nat
    BY DEF TypeOK
  <2>6. QED
    BY <1>6, <2>1, <2>2, <2>3, <2>4, <2>5 DEF SeenPay, WithdrawAll, AllOf
<1>7. ASSUME SeenEnvironment
      PROVE  BooksKept
  <2>1. ASSUME NEW holder \in Holders, NEW mint \in Mints, CreateTokenAccount(holder, mint),
               EmitsNothing
        PROVE  BooksKept
    BY <1>2, <2>1 DEF CreateTokenAccount
  <2>2. ASSUME NEW holder \in Holders, NEW mint \in Mints, NEW amount \in Amounts,
               Fund(holder, mint, amount), arrived' = [arrived EXCEPT ![holder] = @ + amount],
               UNCHANGED view
        PROVE  BooksKept
    BY <2>2, FundBooks
  <2>3. ASSUME Tick, EmitsNothing
        PROVE  BooksKept
    BY <1>1, <2>3 DEF Tick, EmitsNothing
  <2>4. QED
    BY <1>7, <2>1, <2>2, <2>3 DEF SeenEnvironment
<1>8. ASSUME UNCHANGED dashboardVars
      PROVE  BooksKept
  BY <1>1, <1>8 DEF dashboardVars, vars
<1>9. QED
  BY <1>4, <1>5, <1>6, <1>7, <1>8 DEF DashboardNext, BooksKept

(***************************************************************************)
(* The books balance: from the events, and from what came in from outside, *)
(* the balance of every wallet follows, though close_agent and             *)
(* register_agent are silent and the balances are the SPL Token program's. *)
(* The ids are finitely many: an id is at most 64 bytes long.              *)
(***************************************************************************)
THEOREM BooksOfTheDashboard ==
  ASSUME SingleMint, IsFiniteSet(AgentIds)
  PROVE  DashboardSpec => []BooksBalance
<1>1. DashboardInit => Booked
  <2> SUFFICES ASSUME DashboardInit
               PROVE  Booked
    OBVIOUS
  <2>1. /\ view = [a \in AgentIds |-> NothingSeen] /\ \A a \in AgentIds : arrived[a] = 0
        /\ DOMAIN token_account = {}
    BY DEF DashboardInit, Init, NoAccounts, Holders
  <2>2. \A a \in AgentIds : view[a].settled = {} /\ view[a].withdrawn = 0
    BY <2>1 DEF NothingSeen
  <2>3. SettledFinite
    BY <2>2, FS_EmptySet DEF SettledFinite
  <2>4. Worth({}) = 0
    <3>1. DOMAIN [s \in {} |-> s.amount_usdc] = {}
      OBVIOUS
    <3>2. QED
      BY <3>1, SumOfNone DEF Worth, SumFunction
  <2>5. ASSUME NEW a \in AgentIds
        PROVE  PaidBy(a) = 0 /\ Received(a) = 0
    <3>1. \A b \in AgentIds : PaidTo(b, a) = {}
      BY <2>2 DEF PaidTo
    <3>2. PICK f : f = Brought(a)
      OBVIOUS
    <3>3. f = [b \in AgentIds |-> 0]
      BY <2>4, <3>1, <3>2 DEF Brought
    <3>4. SumFunction(f) = 0
      BY <3>3, SumOfZeros
    <3>5. QED
      BY <2>2, <2>4, <3>2, <3>4, InWorth
  <2>6. BooksBalance
    BY <2>1, <2>2, <2>5 DEF BooksBalance, Balance
  <2>7. QED
    BY <2>3, <2>6 DEF Booked
<1>2. TypeOK /\ ViewInv /\ ViewInv' /\ Booked /\ [DashboardNext]_dashboardVars => Booked'
  BY BookedPreserved DEF ViewInv
<1>3. Booked => BooksBalance
  BY DEF Booked
<1>4. QED
  BY <1>1, <1>2, <1>3, ViewInvariant, PTL DEF DashboardSpec
=============================================================================
