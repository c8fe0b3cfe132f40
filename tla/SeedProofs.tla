------------------------------ MODULE SeedProofs ------------------------------
(***************************************************************************)
(* The seed script against the program, on a network that loses and delays *)
(* transactions and with a stranger at work.  Its one invariant says, for  *)
(* each transaction the script is at, what the program's accounts hold if  *)
(* it has landed and what if it has not, and which of the two the script   *)
(* may assume.  That is proved of the control flow, SeedSpec; the script   *)
(* as it stands, WireSpec, is one of its cases, and stops early.           *)
(***************************************************************************)
EXTENDS SeedScript, MaximProofs

Agents == {Agent1, Agent2}

(***************************************************************************)
(* The transactions, one by one                                            *)
(***************************************************************************)
LEMMA EntriesAre ==
  /\ Len(Entries) = 4 /\ DOMAIN Entries = 1..4
  /\ Entries[1] = [ix |-> "settle_payment", a |-> Agent1, amount_usdc |-> 12, protocol |-> 0]
  /\ Entries[2] = [ix |-> "settle_payment", a |-> Agent1, amount_usdc |-> 7,  protocol |-> 1]
  /\ Entries[3] = [ix |-> "settle_payment", a |-> Agent2, amount_usdc |-> 18, protocol |-> 0]
  /\ Entries[4] =
       [ix |-> "record_policy_violation", a |-> Agent2, amount_usdc |-> 120, protocol |-> 0]
BY DEF Entries, PAYMENTS, VIOLATIONS

LEMMA PreparationIs ==
  /\ Len(Preparation) = 8
  /\ Preparation[1] = [ix |-> "create_account"]
  /\ Preparation[2] = [ix |-> "init_protocol"]
  /\ Preparation[3] = [ix |-> "register_agent", a |-> Agent1]
  /\ Preparation[4] = [ix |-> "set_spend_policy", a |-> Agent1]
  /\ Preparation[5] = [ix |-> "mint_to", a |-> Agent1, amount_usdc |-> 60]
  /\ Preparation[6] = [ix |-> "register_agent", a |-> Agent2]
  /\ Preparation[7] = [ix |-> "set_spend_policy", a |-> Agent2]
  /\ Preparation[8] = [ix |-> "mint_to", a |-> Agent2, amount_usdc |-> 60]
BY DEF Preparation, Setup

(***************************************************************************)
(* The list is the preparation, and then the entries.                      *)
(***************************************************************************)
LEMMA TransactionsAre ==
  /\ Len(Transactions) = 12
  /\ \A p \in 1..8 : Transactions[p] = Preparation[p]
  /\ \A i \in 1..4 : Transactions[8 + i] = Entries[i]
<1>1. Len(Transactions) = 12
  BY DEF Transactions, Preparation, Setup, Entries, PAYMENTS, VIOLATIONS
<1>2. /\ Transactions[1] = Preparation[1] /\ Transactions[2] = Preparation[2]
      /\ Transactions[3] = Preparation[3] /\ Transactions[4] = Preparation[4]
      /\ Transactions[5] = Preparation[5] /\ Transactions[6] = Preparation[6]
      /\ Transactions[7] = Preparation[7] /\ Transactions[8] = Preparation[8]
  BY PreparationIs DEF Transactions, Preparation, Setup, Entries, PAYMENTS, VIOLATIONS
<1>3. /\ Transactions[8 + 1] = Entries[1] /\ Transactions[8 + 2] = Entries[2]
      /\ Transactions[8 + 3] = Entries[3] /\ Transactions[8 + 4] = Entries[4]
  BY EntriesAre DEF Transactions, Preparation, Setup, Entries, PAYMENTS, VIOLATIONS
<1>4. \A i \in 1..4 : i = 1 \/ i = 2 \/ i = 3 \/ i = 4
  OBVIOUS
<1>5. \A p \in 1..8 : p \in 1..4 \/ p = 5 \/ p = 6 \/ p = 7 \/ p = 8
  OBVIOUS
<1>6. QED
  BY <1>1, <1>2, <1>3, <1>4, <1>5

LEMMA PlacesAre ==
  PlaceOf(1) = 0 /\ PlaceOf(2) = 1 /\ PlaceOf(3) = 0 /\ PlaceOf(4) = 1
<1>1. {j \in 1..(1 - 1) : Entries[j].a = Entries[1].a} = {}
  OBVIOUS
<1>2. {j \in 1..(2 - 1) : Entries[j].a = Entries[2].a} = {1}
  BY EntriesAre
<1>3. {j \in 1..(3 - 1) : Entries[j].a = Entries[3].a} = {}
  BY EntriesAre, SeedAssumption
<1>4. {j \in 1..(4 - 1) : Entries[j].a = Entries[4].a} = {3}
  <2>1. 1..(4 - 1) = {1, 2, 3}
    OBVIOUS
  <2>2. Entries[1].a # Entries[4].a /\ Entries[2].a # Entries[4].a /\ Entries[3].a = Entries[4].a
    BY EntriesAre, SeedAssumption
  <2>3. QED
    BY <2>1, <2>2
<1>5. Cardinality({}) = 0 /\ Cardinality({1}) = 1 /\ Cardinality({3}) = 1
  BY FS_EmptySet, FS_Singleton
<1>6. QED
  BY <1>1, <1>2, <1>3, <1>4, <1>5 DEF PlaceOf

-----------------------------------------------------------------------------
(* The invariant *)

\* With the first l transactions executed: the entries of a, what a and the deployer have
Count(l, a) ==
  IF a = Agent1 THEN (IF l < 9 THEN 0 ELSE IF l = 9 THEN 1 ELSE 2)
  ELSE (IF l < 11 THEN 0 ELSE IF l = 11 THEN 1 ELSE 2)

Left(l, a) ==
  IF a = Agent1 THEN (IF l < 5 THEN 0 ELSE IF l < 9 THEN 60 ELSE IF l = 9 THEN 48 ELSE 41)
  ELSE (IF l < 8 THEN 0 ELSE IF l < 11 THEN 60 ELSE 42)

Earned(l) == IF l < 9 THEN 0 ELSE IF l = 9 THEN 12 ELSE IF l = 10 THEN 19 ELSE 37

Counted(l) ==
  \A a \in Agents \cap DOMAIN agent_wallet : Sequence(a) = Count(l, a)

Listed(l) ==
  /\ RecordsOf(Agent1) \cup RecordsOf(Agent2) = {AddressOf(i) : i \in 1..(l - 8)}
  /\ \A i \in 1..(l - 8) : EntryOf(AddressOf(i)) = Entries[i]

Held(l) ==
  /\ \A a \in Agents : Balance(a, UsdcMint) = Left(l, a)
  /\ Balance(Deployer, UsdcMint) = Earned(l)

Executed(l) == Counted(l) /\ Listed(l) /\ Held(l)

\* What the script has sent when it waits for its transaction p
Sent(p) ==
  LET tx == Transactions[p] IN
  IF Sequenced(tx.ix) THEN Numbered(tx, Count(p - 1, tx.a)) ELSE tx

InStep ==
  \/ /\ status = "ready" /\ position \in 1..13
     /\ in_flight = {} /\ Executed(position - 1)
  \/ /\ status \in {"waiting", "failed"} /\ position \in 1..12
     /\ in_flight \subseteq {Sent(position)} /\ Executed(position - 1)
  \/ /\ status \in {"landed", "failed"} /\ position \in 1..12
     /\ in_flight = {} /\ Executed(position)
  \/ /\ status = "done" /\ position = 13
     /\ in_flight = {} /\ Executed(12)

SeedInv == InStep /\ seq_map = [a \in Agents |-> Count(position - 1, a)]

(***************************************************************************)
(* What the script sends at each of its places                             *)
(***************************************************************************)
LEMMA SentPreparation ==
  ASSUME NEW p \in 1..8
  PROVE  Sent(p) = Preparation[p]
<1>1. ~Sequenced(Preparation[p].ix)
  <2>1. p \in 1..4 \/ p = 5 \/ p = 6 \/ p = 7 \/ p = 8
    OBVIOUS
  <2>2. QED
    BY <2>1, PreparationIs DEF Sequenced
<1>2. QED
  BY <1>1, TransactionsAre DEF Sent

LEMMA SentEntry ==
  ASSUME NEW i \in 1..4
  PROVE  /\ Sent(8 + i) = Numbered(Entries[i], PlaceOf(i))
         /\ Entries[i].a \in Agents
         /\ \A a \in Agents : Count(8 + i, a) = Count(7 + i, a) + (IF a = Entries[i].a THEN 1 ELSE 0)
<1>1. i = 1 \/ i = 2 \/ i = 3 \/ i = 4
  OBVIOUS
<1>2. Entries[i].a \in Agents /\ Sequenced(Entries[i].ix)
  BY <1>1, EntriesAre DEF Agents, Sequenced
<1>3. Count(7 + i, Entries[i].a) = PlaceOf(i)
  BY <1>1, EntriesAre, PlacesAre, SeedAssumption DEF Count
<1>4. \A a \in Agents : Count(8 + i, a) = Count(7 + i, a) + (IF a = Entries[i].a THEN 1 ELSE 0)
  BY <1>1, EntriesAre, SeedAssumption DEF Count, Agents
<1>5. Sent(8 + i) = Numbered(Entries[i], PlaceOf(i))
  <2>1. (8 + i) - 1 = 7 + i /\ Transactions[8 + i] = Entries[i]
    BY TransactionsAre
  <2>2. QED
    BY <1>2, <1>3, <2>1 DEF Sent
<1>6. QED
  BY <1>2, <1>4, <1>5

LEMMA ExecutesPreparation ==
  ASSUME NEW p \in 1..8, Executes(Sent(p))
  PROVE  \/ p = 1 /\ CreateTokenAccount(Deployer, UsdcMint)
         \/ p = 2 /\ InitProtocol(Deployer)
         \/ p = 3 /\ RegisterAgent(Deployer, Agent1, UsdcMint)
         \/ p = 4 /\ SetSpendPolicy(Deployer, Agent1, SeededPolicy)
         \/ p = 5 /\ Fund(Agent1, UsdcMint, 60)
         \/ p = 6 /\ RegisterAgent(Deployer, Agent2, UsdcMint)
         \/ p = 7 /\ SetSpendPolicy(Deployer, Agent2, SeededPolicy)
         \/ p = 8 /\ Fund(Agent2, UsdcMint, 60)
<1>1. p = 1 \/ p = 2 \/ p = 3 \/ p = 4 \/ p = 5 \/ p = 6 \/ p = 7 \/ p = 8
  OBVIOUS
<1>2. Sent(p) = Preparation[p]
  BY SentPreparation
<1>3. QED
  BY <1>1, <1>2, PreparationIs DEF Executes

\* Entry i, executed by the program
Entered(i) ==
  \/ /\ Entries[i].ix = "settle_payment"
     /\ SettlePayment(Deployer, Entries[i].a, UsdcMint, Deployer, PlaceOf(i), ParamsOf(Entries[i]))
  \/ /\ Entries[i].ix = "record_policy_violation"
     /\ RecordPolicyViolation(Deployer, Entries[i].a, PlaceOf(i), ParamsOf(Entries[i]))

LEMMA ExecutesEntry ==
  ASSUME NEW i \in 1..4, Executes(Sent(8 + i))
  PROVE  Entered(i)
<1> DEFINE tx == Numbered(Entries[i], PlaceOf(i))
<1>1. Sent(8 + i) = tx
  BY SentEntry
<1>2. /\ tx.ix = Entries[i].ix /\ tx.a = Entries[i].a /\ tx.sequence = PlaceOf(i)
      /\ ParamsOf(tx) = ParamsOf(Entries[i])
  BY DEF Numbered, ParamsOf
<1>3. Entries[i].ix \in {"settle_payment", "record_policy_violation"}
  <2>1. i = 1 \/ i = 2 \/ i = 3 \/ i = 4
    OBVIOUS
  <2>2. QED
    BY <2>1, EntriesAre
<1> HIDE DEF tx
<1>4. QED
  BY <1>1, <1>2, <1>3 DEF Executes, Entered

(***************************************************************************)
(* The script is a client like any other: what it sends are instructions   *)
(* that the program takes.                                                 *)
(***************************************************************************)
LEMMA EntryParams ==
  ASSUME NEW i \in 1..4
  PROVE  /\ Entries[i].a \in AgentIds /\ PlaceOf(i) \in U64
         /\ ParamsOf(Entries[i]) \in PaymentParams
<1>1. i = 1 \/ i = 2 \/ i = 3 \/ i = 4
  OBVIOUS
<1>2. Entries[i].a \in AgentIds
  BY <1>1, EntriesAre, SeedAssumption
<1>3. 0 \in U64 /\ 1 \in U64
  BY WidthAssumption DEF U64
<1>4. PlaceOf(i) \in U64
  BY <1>1, <1>3, PlacesAre
<1>5. Entries[i].amount_usdc \in Amounts /\ Entries[i].protocol \in Protocols
  BY <1>1, EntriesAre, ScriptAssumption
<1>6. ParamsOf(Entries[i]) \in PaymentParams
  BY <1>5, ScriptAssumption, InputsAssumption DEF ParamsOf, PaymentParams
<1>7. QED
  BY <1>2, <1>4, <1>6

LEMMA ExecutesInstruction ==
  ASSUME NEW p \in 1..12, Executes(Sent(p))
  PROVE  Next
<1>1. Deployer \in Keys /\ Deployer \in Pubkeys /\ Deployer \in Holders /\ UsdcMint \in Mints
      /\ Agent1 \in AgentIds /\ Agent2 \in AgentIds /\ Agent1 \in Holders /\ Agent2 \in Holders
  BY SeedAssumption DEF Pubkeys, Holders
<1>2. CASE p \in 1..8
  <2>1. \/ CreateTokenAccount(Deployer, UsdcMint)
        \/ InitProtocol(Deployer)
        \/ \E a \in AgentIds : \/ RegisterAgent(Deployer, a, UsdcMint)
                               \/ SetSpendPolicy(Deployer, a, SeededPolicy)
                               \/ Fund(a, UsdcMint, 60)
    BY <1>1, <1>2, ExecutesPreparation
  <2>2. CASE CreateTokenAccount(Deployer, UsdcMint)
    BY <1>1, <2>2 DEF Next, Environment
  <2>3. CASE InitProtocol(Deployer)
    BY <1>1, <2>3 DEF Next, Administer
  <2>4. ASSUME NEW a \in AgentIds, RegisterAgent(Deployer, a, UsdcMint)
        PROVE  Next
    BY <1>1, <2>4 DEF Next, Manage
  <2>5. ASSUME NEW a \in AgentIds, SetSpendPolicy(Deployer, a, SeededPolicy)
        PROVE  Next
    BY <1>1, <2>5, ScriptAssumption DEF Next, Manage
  <2>6. ASSUME NEW a \in AgentIds, Fund(a, UsdcMint, 60)
        PROVE  Next
    BY <1>1, <2>6, ScriptAssumption DEF Next, Environment, Holders
  <2>7. QED
    BY <2>1, <2>2, <2>3, <2>4, <2>5, <2>6
<1>3. CASE p \notin 1..8
  <2>1. PICK i \in 1..4 : p = 8 + i
    <3>1. p - 8 \in 1..4 /\ p = 8 + (p - 8)
      BY <1>3
    <3>2. QED
      BY <3>1
  <2>2. Entered(i)
    BY <2>1, ExecutesEntry
  <2>3. Pay
    BY <1>1, <2>2, EntryParams DEF Entered, Pay
  <2>4. QED
    BY <2>3 DEF Next
<1>4. QED
  BY <1>2, <1>3

-----------------------------------------------------------------------------
(* What the transactions do *)

KeepsCounts == \A a \in DOMAIN agent_wallet' : SameCounters(a)

LEMMA CountedKept ==
  ASSUME NEW l, Counted(l), KeepsCounts
  PROVE  Counted(l)'
BY DEF Counted, KeepsCounts, SameCounters, Sequence

LEMMA ListedKept ==
  ASSUME NEW l, Listed(l), UNCHANGED payment_record
  PROVE  Listed(l)'
BY DEF Listed, RecordsOf, EntryOf

LEMMA HeldKept ==
  ASSUME NEW l, Held(l), UNCHANGED token_account
  PROVE  Held(l)'
BY DEF Held, Balance

LEMMA ExecutedKept ==
  ASSUME NEW l, Executed(l), KeepsCounts, UNCHANGED <<payment_record, token_account>>
  PROVE  Executed(l)'
BY CountedKept, ListedKept, HeldKept DEF Executed

(***************************************************************************)
(* The preparation counts and records nothing; two of its transactions     *)
(* bring money.                                                            *)
(***************************************************************************)
LEMMA PreparationCounts ==
  ASSUME NEW p \in 1..8
  PROVE  /\ \A a \in Agents : Count(p - 1, a) = 0 /\ Count(p, a) = 0
         /\ 1..((p - 1) - 8) = {} /\ 1..(p - 8) = {}
         /\ Earned(p - 1) = 0 /\ Earned(p) = 0
         /\ p # 5 => Left(p, Agent1) = Left(p - 1, Agent1)
         /\ p # 8 => Left(p, Agent2) = Left(p - 1, Agent2)
         /\ Left(4, Agent1) = 0 /\ Left(5, Agent1) = 60
         /\ Left(7, Agent2) = 0 /\ Left(8, Agent2) = 60
<1>1. \A a \in Agents : Count(p - 1, a) = 0 /\ Count(p, a) = 0
  BY DEF Count
<1>2. 1..((p - 1) - 8) = {} /\ 1..(p - 8) = {}
  OBVIOUS
<1>3. Earned(p - 1) = 0 /\ Earned(p) = 0
  BY DEF Earned
<1>4. /\ p # 5 => Left(p, Agent1) = Left(p - 1, Agent1)
      /\ p # 8 => Left(p, Agent2) = Left(p - 1, Agent2)
      /\ Left(4, Agent1) = 0 /\ Left(5, Agent1) = 60
      /\ Left(7, Agent2) = 0 /\ Left(8, Agent2) = 60
  BY SeedAssumption DEF Left
<1>5. QED
  BY <1>1, <1>2, <1>3, <1>4

LEMMA PreparationLists ==
  ASSUME NEW p \in 1..8
  PROVE  Listed(p - 1) <=> Listed(p)
BY PreparationCounts DEF Listed

\* A registered wallet starts to count at 0.
LEMMA RegistrationCounts ==
  ASSUME NEW a, NEW l, \A b \in Agents : Count(l, b) = 0, Counted(l),
         RegisterAgent(Deployer, a, UsdcMint)
  PROVE  Counted(l)'
<1>1. /\ DOMAIN agent_wallet' = DOMAIN agent_wallet \cup {a}
      /\ agent_wallet'[a].payment_sequence = 0
      /\ \A b \in DOMAIN agent_wallet : b # a => agent_wallet'[b] = agent_wallet[b]
  BY DEF RegisterAgent, Stored
<1>2. QED
  BY <1>1 DEF Counted, Sequence

LEMMA FundingBalances ==
  ASSUME TypeOK, NEW a, NEW amount \in Nat, Fund(a, UsdcMint, amount)
  PROVE  /\ Balance(a, UsdcMint)' = Balance(a, UsdcMint) + amount
         /\ \A h : h # a => Balance(h, UsdcMint)' = Balance(h, UsdcMint)
<1>1. /\ <<a, UsdcMint>> \in DOMAIN token_account
      /\ token_account' = [token_account EXCEPT ![<<a, UsdcMint>>] = @ + amount]
  BY DEF Fund
<1>2. QED
  BY <1>1 DEF Balance

LEMMA ApartFromAgents ==
  /\ Agent1 # Agent2 /\ Deployer # Agent1 /\ Deployer # Agent2
  /\ Agents = {Agent1, Agent2}
BY SeedAssumption, NamesAssumption DEF Agents

LEMMA PreparationExecuted ==
  ASSUME TypeOK, NEW p \in 1..8, Executed(p - 1), Executes(Sent(p))
  PROVE  Executed(p)'
<1>1. Counted(p - 1) /\ Listed(p - 1) /\ Held(p - 1)
  BY DEF Executed
<1>2. CASE p \in {1, 2, 4, 7}
  <2>1. /\ KeepsCounts /\ UNCHANGED payment_record
        /\ \A h : Balance(h, UsdcMint)' = Balance(h, UsdcMint)
    <3>1. CASE CreateTokenAccount(Deployer, UsdcMint)
      <4>1. \A h : Balance(h, UsdcMint)' = Balance(h, UsdcMint)
        BY <3>1, NewAccountBalances DEF CreateTokenAccount
      <4>2. QED
        BY <3>1, <4>1 DEF CreateTokenAccount, KeepsCounts, SameCounters, Sequence, Total
    <3>2. CASE InitProtocol(Deployer)
      BY <3>2 DEF InitProtocol, KeepsCounts, SameCounters, Sequence, Total, Balance
    <3>3. ASSUME NEW a, SetSpendPolicy(Deployer, a, SeededPolicy)
          PROVE  /\ KeepsCounts /\ UNCHANGED payment_record
                 /\ \A h : Balance(h, UsdcMint)' = Balance(h, UsdcMint)
      BY <3>3 DEF SetSpendPolicy, KeepsCounts, SameCounters, Sequence, Total, Balance
    <3>4. QED
      BY <1>2, <3>1, <3>2, <3>3, ExecutesPreparation
  <2>2. Counted(p)'
    <3>1. Counted(p - 1)'
      BY <1>1, <2>1, CountedKept
    <3>2. QED
      BY <3>1, PreparationCounts DEF Counted
  <2>3. Held(p)'
    BY <1>1, <1>2, <2>1, PreparationCounts, ApartFromAgents DEF Held
  <2>4. QED
    BY <1>1, <2>1, <2>2, <2>3, PreparationLists, ListedKept DEF Executed
<1>3. CASE p \in {3, 6}
  <2>1. PICK a \in Agents : RegisterAgent(Deployer, a, UsdcMint)
    BY <1>3, ExecutesPreparation, ApartFromAgents
  <2>2. \A h : Balance(h, UsdcMint)' = Balance(h, UsdcMint)
    BY <2>1, NewAccountBalances DEF RegisterAgent, AddressesFree
  <2>3. UNCHANGED payment_record
    BY <2>1 DEF RegisterAgent
  <2>4. Counted(p)'
    <3>1. Counted(p)
      BY <1>1, PreparationCounts DEF Counted
    <3>2. QED
      BY <2>1, <3>1, PreparationCounts, RegistrationCounts
  <2>5. Held(p)'
    BY <1>1, <1>3, <2>2, PreparationCounts, ApartFromAgents DEF Held
  <2>6. QED
    BY <1>1, <2>3, <2>4, <2>5, PreparationLists, ListedKept DEF Executed
<1>4. CASE p \in {5, 8}
  <2>1. PICK a \in Agents : a = (IF p = 5 THEN Agent1 ELSE Agent2) /\ Fund(a, UsdcMint, 60)
    BY <1>4, ExecutesPreparation, ApartFromAgents
  <2>2. KeepsCounts /\ UNCHANGED payment_record
    BY <2>1 DEF Fund, KeepsCounts, SameCounters, Sequence, Total
  <2>3. Counted(p)'
    <3>1. Counted(p - 1)'
      BY <1>1, <2>2, CountedKept
    <3>2. QED
      BY <3>1, PreparationCounts DEF Counted
  <2>4. Held(p)'
    <3>1. /\ Balance(a, UsdcMint)' = Balance(a, UsdcMint) + 60
          /\ \A h : h # a => Balance(h, UsdcMint)' = Balance(h, UsdcMint)
      BY <2>1, FundingBalances
    <3>2. QED
      BY <1>1, <1>4, <2>1, <3>1, PreparationCounts, ApartFromAgents DEF Held
  <2>5. QED
    BY <1>1, <2>2, <2>3, <2>4, PreparationLists, ListedKept DEF Executed
<1>5. QED
  BY <1>2, <1>3, <1>4

(***************************************************************************)
(* An entry: its agent's wallet counts it, the ledger takes it at its      *)
(* place, and a settlement moves its amount to the deployer.               *)
(***************************************************************************)
\* What the program records of entry i
RecordOf(i) ==
  payment_record'[AddressOf(i)].amount_usdc = Entries[i].amount_usdc
  /\ payment_record'[AddressOf(i)].protocol = ProtocolOf(Entries[i].protocol)
  /\ payment_record'[AddressOf(i)].policy_passed = (Entries[i].ix = "settle_payment")

LEMMA EntryRecorded ==
  ASSUME TypeOK, NEW i \in 1..4, Entered(i)
  PROVE  /\ AppendsEntry(Entries[i].a)
         /\ DOMAIN payment_record' = DOMAIN payment_record \cup {AddressOf(i)}
         /\ \A r \in DOMAIN payment_record : payment_record'[r] = payment_record[r]
         /\ RecordOf(i)
<1> DEFINE a == Entries[i].a
           s == PlaceOf(i)
           params == ParamsOf(Entries[i])
<1>1. /\ Deployer \in Keys /\ Deployer \in Holders /\ UsdcMint \in Mints
      /\ a \in AgentIds /\ s \in U64 /\ params \in PaymentParams
  BY SeedAssumption, EntryParams DEF Holders
<1>2. /\ params.amount_usdc = Entries[i].amount_usdc /\ params.protocol = Entries[i].protocol
      /\ AddressOf(i) = <<a, s>>
  BY DEF ParamsOf, AddressOf
<1> HIDE DEF a, s, params
<1>3. CASE /\ Entries[i].ix = "settle_payment"
           /\ SettlePayment(Deployer, a, UsdcMint, Deployer, s, params)
  <2>1. AppendsEntry(a)
    BY <1>1, <1>3, SettlePaymentAppends
  <2>2. PICK record : /\ payment_record' = Stored(payment_record, <<a, s>>, record)
                      /\ record.amount_usdc = params.amount_usdc
                      /\ record.protocol = ProtocolOf(params.protocol)
                      /\ record.policy_passed = TRUE
    BY <1>3 DEF SettlePayment, AdmitsPayment
  <2>3. <<a, s>> \notin DOMAIN payment_record
    BY <1>3 DEF SettlePayment, AdmitsPayment, RecordFree
  <2>4. /\ DOMAIN payment_record' = DOMAIN payment_record \cup {<<a, s>>}
        /\ \A r \in DOMAIN payment_record : payment_record'[r] = payment_record[r]
        /\ payment_record'[<<a, s>>] = record
    BY <2>2, <2>3 DEF Stored
  <2>5. QED
    BY <1>2, <1>3, <2>1, <2>2, <2>4 DEF RecordOf, a
<1>4. CASE /\ Entries[i].ix = "record_policy_violation"
           /\ RecordPolicyViolation(Deployer, a, s, params)
  <2>1. AppendsEntry(a)
    BY <1>1, <1>4, RecordPolicyViolationAppends
  <2>2. PICK record : /\ payment_record' = Stored(payment_record, <<a, s>>, record)
                      /\ record.amount_usdc = params.amount_usdc
                      /\ record.protocol = ProtocolOf(params.protocol)
                      /\ record.policy_passed = FALSE
    BY <1>4 DEF RecordPolicyViolation
  <2>3. <<a, s>> \notin DOMAIN payment_record
    BY <1>4 DEF RecordPolicyViolation, RecordFree
  <2>4. /\ DOMAIN payment_record' = DOMAIN payment_record \cup {<<a, s>>}
        /\ \A r \in DOMAIN payment_record : payment_record'[r] = payment_record[r]
        /\ payment_record'[<<a, s>>] = record
    BY <2>2, <2>3 DEF Stored
  <2>5. QED
    BY <1>2, <1>4, <2>1, <2>2, <2>4 DEF RecordOf, a
<1>5. QED
  BY <1>3, <1>4 DEF Entered, a, s, params

LEMMA EntryCounted ==
  ASSUME NEW i \in 1..4, Counted(7 + i), AppendsEntry(Entries[i].a)
  PROVE  Counted(8 + i)'
<1> DEFINE a == Entries[i].a
<1>1. a \in Agents /\ \A b \in Agents : Count(8 + i, b) = Count(7 + i, b) + (IF b = a THEN 1 ELSE 0)
  BY SentEntry
<1>2. \A b \in Agents : Count(7 + i, b) \in {0, 1, 2}
  BY DEF Count
<1>3. \A n \in {0, 1, 2} : SaturatingAdd(n, 1, MaxU64) = n + 1
  <2>1. 120 \in U64
    BY ScriptAssumption, InputsAssumption
  <2>2. QED
    BY <2>1, WidthAssumption DEF SaturatingAdd, U64
<1> HIDE DEF a
<1>4. /\ DOMAIN agent_wallet' = DOMAIN agent_wallet /\ a \in DOMAIN agent_wallet
      /\ Sequence(a)' = SaturatingAdd(Sequence(a), 1, MaxU64)
      /\ \A b \in DOMAIN agent_wallet : b # a => Sequence(b)' = Sequence(b)
  BY DEF AppendsEntry, SameCounters, a
<1>5. ASSUME NEW b \in Agents, b \in DOMAIN agent_wallet'
      PROVE  Sequence(b)' = Count(8 + i, b)
  <2>1. Sequence(b) = Count(7 + i, b)
    BY <1>4, <1>5 DEF Counted
  <2>2. QED
    BY <1>1, <1>2, <1>3, <1>4, <1>5, <2>1
<1>6. QED
  BY <1>5 DEF Counted, Sequence

LEMMA EntryListed ==
  ASSUME NEW i \in 1..4, Listed(7 + i),
         DOMAIN payment_record' = DOMAIN payment_record \cup {AddressOf(i)},
         \A r \in DOMAIN payment_record : payment_record'[r] = payment_record[r],
         RecordOf(i)
  PROVE  Listed(8 + i)'
<1>1. (8 + i) - 8 = i /\ (7 + i) - 8 = i - 1 /\ 1..i = (1..(i - 1)) \cup {i} /\ i \in 1..i
  OBVIOUS
<1>2. RecordsOf(Agent1) \cup RecordsOf(Agent2) = {r \in DOMAIN payment_record : r[1] \in Agents}
  BY DEF RecordsOf, Agents
<1>3. RecordsOf(Agent1)' \cup RecordsOf(Agent2)' = {r \in DOMAIN payment_record' : r[1] \in Agents}
  BY DEF RecordsOf, Agents
<1>4. AddressOf(i)[1] \in Agents
  BY SentEntry DEF AddressOf
<1>5. RecordsOf(Agent1)' \cup RecordsOf(Agent2)' = {AddressOf(j) : j \in 1..i}
  <2>1. {r \in DOMAIN payment_record : r[1] \in Agents} = {AddressOf(j) : j \in 1..(i - 1)}
    BY <1>1, <1>2 DEF Listed
  <2>2. {r \in DOMAIN payment_record' : r[1] \in Agents}
          = {r \in DOMAIN payment_record : r[1] \in Agents} \cup {AddressOf(i)}
    BY <1>4
  <2>3. QED
    BY <1>1, <1>3, <2>1, <2>2
<1>6. ASSUME NEW j \in 1..i
      PROVE  EntryOf(AddressOf(j))' = Entries[j]
  <2>1. CASE j # i
    <3>1. j \in 1..(i - 1)
      BY <2>1
    <3>2. AddressOf(j) \in DOMAIN payment_record /\ EntryOf(AddressOf(j)) = Entries[j]
      BY <1>1, <1>2, <3>1 DEF Listed
    <3>3. payment_record'[AddressOf(j)] = payment_record[AddressOf(j)]
      BY <3>2
    <3>4. QED
      BY <3>2, <3>3 DEF EntryOf
  <2>2. CASE j = i
    <3>1. AddressOf(i)[1] = Entries[i].a
      BY DEF AddressOf
    <3>2. EntryOf(AddressOf(i))' =
            [ix |-> IF Entries[i].ix = "settle_payment" THEN "settle_payment"
                    ELSE "record_policy_violation",
             a |-> Entries[i].a, amount_usdc |-> Entries[i].amount_usdc,
             protocol |-> IF ProtocolOf(Entries[i].protocol) = "X402" THEN 0 ELSE 1]
      BY <3>1 DEF EntryOf, RecordOf
    <3>3. i = 1 \/ i = 2 \/ i = 3 \/ i = 4
      OBVIOUS
    <3>4. QED
      BY <2>2, <3>2, <3>3, EntriesAre DEF ProtocolOf
  <2>3. QED
    BY <2>1, <2>2
<1>7. QED
  BY <1>1, <1>5, <1>6 DEF Listed

LEMMA EntryPaid ==
  ASSUME TypeOK, NEW i \in 1..4, Held(7 + i), Entered(i)
  PROVE  Held(8 + i)'
<1>1. i = 1 \/ i = 2 \/ i = 3 \/ i = 4
  OBVIOUS
<1>2. CASE i = 4
  <2>1. UNCHANGED token_account
    BY <1>2, EntriesAre DEF Entered, RecordPolicyViolation
  <2>2. /\ \A a \in Agents : Left(8 + i, a) = Left(7 + i, a)
        /\ Earned(8 + i) = Earned(7 + i)
    BY <1>2 DEF Left, Earned
  <2>3. Held(7 + i)'
    BY <2>1, HeldKept
  <2>4. QED
    BY <2>2, <2>3 DEF Held
<1>3. CASE i # 4
  <2> DEFINE a == Entries[i].a
             amount == Entries[i].amount_usdc
  <2>1. SettlePayment(Deployer, a, UsdcMint, Deployer, PlaceOf(i), ParamsOf(Entries[i]))
    BY <1>1, <1>3, EntriesAre DEF Entered
  <2>2. a \in Agents /\ amount \in Nat
    BY <1>1, EntriesAre DEF Agents
  <2>3. /\ \A b \in Agents : Left(8 + i, b) = Left(7 + i, b) - (IF b = a THEN amount ELSE 0)
        /\ Earned(8 + i) = Earned(7 + i) + amount
    BY <1>1, <1>3, EntriesAre, ApartFromAgents DEF Left, Earned
  <2>4. /\ \A b \in Agents : Left(7 + i, b) \in Nat
        /\ Earned(7 + i) \in Nat
    BY DEF Left, Earned
  <2>5. ParamsOf(Entries[i]).amount_usdc = amount
    BY DEF ParamsOf
  <2> HIDE DEF a, amount
  <2>6. /\ <<a, UsdcMint>> \in DOMAIN token_account /\ <<Deployer, UsdcMint>> \in DOMAIN token_account
        /\ token_account' =
             Transferred(token_account, <<a, UsdcMint>>, <<Deployer, UsdcMint>>, amount)
    BY <2>1, <2>5 DEF SettlePayment, AdmitsPayment
  <2>7. \A h : Balance(h, UsdcMint)' =
                 Balance(h, UsdcMint) - Gain(h, a, amount) + Gain(h, Deployer, amount)
    BY <2>2, <2>6, TransferAtMint
  <2>8. ASSUME NEW b \in Agents
        PROVE  Balance(b, UsdcMint)' = Left(8 + i, b)
    <3>1. Gain(b, a, amount) = (IF b = a THEN amount ELSE 0) /\ Gain(b, Deployer, amount) = 0
      BY <2>8, ApartFromAgents DEF Gain
    <3>2. Balance(b, UsdcMint) = Left(7 + i, b)
      BY <2>8 DEF Held
    <3>3. QED
      BY <2>2, <2>3, <2>4, <2>7, <2>8, <3>1, <3>2
  <2>9. Balance(Deployer, UsdcMint)' = Earned(8 + i)
    <3>1. Gain(Deployer, a, amount) = 0 /\ Gain(Deployer, Deployer, amount) = amount
      BY <2>2, ApartFromAgents DEF Gain
    <3>2. Balance(Deployer, UsdcMint) = Earned(7 + i)
      BY DEF Held
    <3>3. QED
      BY <2>2, <2>3, <2>4, <2>7, <3>1, <3>2
  <2>10. QED
    BY <2>8, <2>9 DEF Held
<1>4. QED
  BY <1>2, <1>3

(***************************************************************************)
(* A transaction that lands takes the accounts to the next of the states   *)
(* that the script's list describes.                                       *)
(***************************************************************************)
LEMMA LandingExecuted ==
  ASSUME TypeOK, NEW p \in 1..12, Executed(p - 1), Executes(Sent(p))
  PROVE  Executed(p)'
<1>1. CASE p \in 1..8
  BY <1>1, PreparationExecuted
<1>2. CASE p \notin 1..8
  <2>1. PICK i \in 1..4 : p = 8 + i
    <3>1. p - 8 \in 1..4 /\ p = 8 + (p - 8)
      BY <1>2
    <3>2. QED
      BY <3>1
  <2>2. p - 1 = 7 + i
    BY <2>1
  <2>3. Entered(i)
    BY <2>1, ExecutesEntry
  <2>4. Counted(7 + i) /\ Listed(7 + i) /\ Held(7 + i)
    BY <2>2 DEF Executed
  <2>5. Counted(8 + i)' /\ Listed(8 + i)' /\ Held(8 + i)'
    BY <2>3, <2>4, EntryRecorded, EntryCounted, EntryListed, EntryPaid
  <2>6. QED
    BY <2>1, <2>5 DEF Executed
<1>3. QED
  BY <1>1, <1>2

-----------------------------------------------------------------------------
(* The script, the network and the stranger *)

InvKept == SeedInv' /\ [Next]_vars

LEMMA VarsKept ==
  ASSUME NEW l, Executed(l), UNCHANGED vars
  PROVE  Executed(l)'
BY ExecutedKept DEF vars, KeepsCounts, SameCounters, Sequence, Total

LEMMA SkipInitKeepsInv ==
  ASSUME SeedInv, SkipInit
  PROVE  InvKept
<1>1. PICK p : p = position
  OBVIOUS
<1>2. p \in 1..12 /\ Executed(p - 1) /\ in_flight = {}
  BY <1>1, TransactionsAre DEF SeedInv, InStep, SkipInit
<1>3. p = 2
  <2>1. ASSUME p \notin 1..8
        PROVE  FALSE
    <3>1. PICK i \in 1..4 : p = 8 + i
      <4>1. p - 8 \in 1..4 /\ p = 8 + (p - 8)
        BY <1>2, <2>1
      <4>2. QED
        BY <4>1
    <3>2. i = 1 \/ i = 2 \/ i = 3 \/ i = 4
      OBVIOUS
    <3>3. Entries[i].ix = "init_protocol"
      BY <1>1, <3>1, TransactionsAre DEF SkipInit
    <3>4. QED
      BY <3>2, <3>3, EntriesAre
  <2>2. Preparation[p].ix = "init_protocol"
    BY <1>1, <2>1, TransactionsAre DEF SkipInit
  <2>3. p = 1 \/ p = 2 \/ p = 3 \/ p = 4 \/ p = 5 \/ p = 6 \/ p = 7 \/ p = 8
    BY <2>1
  <2>4. QED
    BY <2>2, <2>3, PreparationIs
<1>4. Executed(1) => Executed(2)
  <2>1. \A a \in Agents : Count(1, a) = Count(2, a) /\ Left(1, a) = Left(2, a)
    BY DEF Count, Left
  <2>2. Earned(1) = Earned(2) /\ 1..(1 - 8) = {} /\ 1..(2 - 8) = {}
    BY DEF Earned
  <2>3. QED
    BY <2>1, <2>2 DEF Executed, Counted, Held, Listed
<1>5. Executed(2)'
  BY <1>2, <1>3, <1>4, VarsKept DEF SkipInit
<1>6. position' = 3 /\ position' - 1 = 2 /\ status' = "ready" /\ in_flight' = {} /\ seq_map' = seq_map
      /\ UNCHANGED vars
  BY <1>1, <1>2, <1>3 DEF SkipInit
<1>7. \A a \in Agents : Count(position - 1, a) = Count(2, a)
  BY <1>1, <1>3 DEF Count
<1>8. seq_map' = [a \in Agents |-> Count(2, a)]
  BY <1>6, <1>7 DEF SeedInv
<1>9. QED
  BY <1>5, <1>6, <1>8 DEF SeedInv, InStep, InvKept

LEMMA SendKeepsInv ==
  ASSUME SeedInv, Send
  PROVE  InvKept
<1>1. PICK p : p = position
  OBVIOUS
<1>2. p \in 1..12 /\ Executed(p - 1)
  BY <1>1, TransactionsAre DEF SeedInv, InStep, Send
<1>3. in_flight' = {Sent(p)}
  <2>1. Sequenced(Transactions[p].ix) => Transactions[p].a \in Agents
    <3>1. CASE p \in 1..8
      <4>1. p = 1 \/ p = 2 \/ p = 3 \/ p = 4 \/ p = 5 \/ p = 6 \/ p = 7 \/ p = 8
        BY <3>1
      <4>2. QED
        BY <3>1, <4>1, TransactionsAre, PreparationIs DEF Sequenced
    <3>2. CASE p \notin 1..8
      <4>1. p - 8 \in 1..4 /\ p = 8 + (p - 8)
        BY <1>2, <3>2
      <4>2. QED
        BY <4>1, TransactionsAre, SentEntry
    <3>3. QED
      BY <3>1, <3>2
  <2>2. Sequenced(Transactions[p].ix) => seq_map[Transactions[p].a] = Count(p - 1, Transactions[p].a)
    BY <1>1, <2>1 DEF SeedInv
  <2>3. QED
    BY <1>1, <2>2 DEF Send, Sent
<1>4. Executed(p - 1)'
  BY <1>2, VarsKept DEF Send
<1>5. position' = p /\ status' = "waiting" /\ seq_map' = seq_map /\ UNCHANGED vars
  BY <1>1 DEF Send
<1>6. seq_map' = [a \in Agents |-> Count(p - 1, a)]
  BY <1>1, <1>5 DEF SeedInv
<1>7. QED
  BY <1>2, <1>3, <1>4, <1>5, <1>6 DEF SeedInv, InStep, InvKept

LEMMA ConfirmKeepsInv ==
  ASSUME SeedInv, Confirm
  PROVE  InvKept
<1>1. PICK p : p = position
  OBVIOUS
<1>2. p \in 1..12 /\ Executed(p) /\ in_flight = {}
  BY <1>1 DEF SeedInv, InStep, Confirm
<1>3. /\ position' = p + 1 /\ position' - 1 = p /\ position' \in 1..13
      /\ status' = "ready" /\ in_flight' = {} /\ UNCHANGED vars
      /\ seq_map' = IF Sequenced(Transactions[p].ix)
                    THEN [seq_map EXCEPT ![Transactions[p].a] = @ + 1] ELSE seq_map
  BY <1>1, <1>2 DEF Confirm
<1>4. seq_map' = [a \in Agents |-> Count(p, a)]
  <2>1. seq_map = [a \in Agents |-> Count(p - 1, a)]
    BY <1>1 DEF SeedInv
  <2>2. CASE p \in 1..8
    <3>1. p = 1 \/ p = 2 \/ p = 3 \/ p = 4 \/ p = 5 \/ p = 6 \/ p = 7 \/ p = 8
      BY <2>2
    <3>2. ~Sequenced(Transactions[p].ix)
      BY <2>2, <3>1, TransactionsAre, PreparationIs DEF Sequenced
    <3>3. QED
      BY <1>3, <2>1, <2>2, <3>2, PreparationCounts
  <2>3. CASE p \notin 1..8
    <3>1. PICK i \in 1..4 : p = 8 + i /\ p - 1 = 7 + i
      <4>1. p - 8 \in 1..4 /\ p = 8 + (p - 8) /\ p - 1 = 7 + (p - 8)
        BY <1>2, <2>3
      <4>2. QED
        BY <4>1
    <3>2. i = 1 \/ i = 2 \/ i = 3 \/ i = 4
      OBVIOUS
    <3>3. Transactions[p] = Entries[i] /\ Sequenced(Entries[i].ix)
      BY <3>1, <3>2, TransactionsAre, EntriesAre DEF Sequenced
    <3>4. seq_map' = [seq_map EXCEPT ![Entries[i].a] = @ + 1]
      BY <1>3, <3>3
    <3>5. \A a \in Agents : Count(p - 1, a) \in Nat
      BY DEF Count
    <3>6. QED
      BY <2>1, <3>1, <3>4, <3>5, SentEntry
  <2>4. QED
    BY <2>2, <2>3
<1>5. Executed(p)'
  BY <1>2, <1>3, VarsKept
<1>6. QED
  BY <1>2, <1>3, <1>4, <1>5 DEF SeedInv, InStep, InvKept

LEMMA ThrowKeepsInv ==
  ASSUME SeedInv, Throw
  PROVE  InvKept
<1>1. PICK p : p = position
  OBVIOUS
<1>2. /\ position' = p /\ status' = "failed" /\ in_flight' = in_flight /\ seq_map' = seq_map
      /\ UNCHANGED vars /\ status \in {"waiting", "landed"}
  BY <1>1 DEF Throw
<1>3. seq_map' = [a \in Agents |-> Count(p - 1, a)] /\ p \in 1..12
  BY <1>1, <1>2 DEF SeedInv, InStep
<1>4. CASE status = "waiting"
  <2>1. in_flight \subseteq {Sent(p)} /\ Executed(p - 1)
    BY <1>1, <1>4 DEF SeedInv, InStep
  <2>2. Executed(p - 1)'
    BY <1>2, <2>1, VarsKept
  <2>3. QED
    BY <1>2, <1>3, <2>1, <2>2 DEF SeedInv, InStep, InvKept
<1>5. CASE status = "landed"
  <2>1. in_flight = {} /\ Executed(p)
    BY <1>1, <1>5 DEF SeedInv, InStep
  <2>2. Executed(p)'
    BY <1>2, <2>1, VarsKept
  <2>3. QED
    BY <1>2, <1>3, <2>1, <2>2 DEF SeedInv, InStep, InvKept
<1>6. QED
  BY <1>2, <1>4, <1>5

LEMMA FinishKeepsInv ==
  ASSUME SeedInv, Finish
  PROVE  InvKept
<1>1. position = 13 /\ position - 1 = 12 /\ Executed(12) /\ in_flight = {}
  BY TransactionsAre DEF SeedInv, InStep, Finish
<1>2. /\ position' = 13 /\ position' - 1 = 12 /\ status' = "done" /\ in_flight' = {}
      /\ seq_map' = seq_map /\ UNCHANGED vars
  BY <1>1 DEF Finish
<1>3. Executed(12)'
  BY <1>1, <1>2, VarsKept
<1>4. seq_map' = [a \in Agents |-> Count(12, a)]
  BY <1>1, <1>2 DEF SeedInv
<1>5. QED
  BY <1>2, <1>3, <1>4 DEF SeedInv, InStep, InvKept

(***************************************************************************)
(* A transaction in flight is the one the script is at, and has not been   *)
(* executed, whether the script waits for it or has given up.              *)
(***************************************************************************)
LEMMA InFlight ==
  ASSUME SeedInv, NEW tx \in in_flight
  PROVE  /\ position \in 1..12 /\ tx = Sent(position) /\ in_flight \ {tx} = {}
         /\ status \in {"waiting", "failed"} /\ Executed(position - 1)
BY DEF SeedInv, InStep

LEMMA LandKeepsInv ==
  ASSUME TypeOK, SeedInv, NEW tx \in in_flight, Land(tx)
  PROVE  InvKept
<1>1. PICK p : p = position
  OBVIOUS
<1>2. p \in 1..12 /\ Executed(p - 1) /\ Executes(Sent(p)) /\ status \in {"waiting", "failed"}
  BY <1>1, InFlight DEF Land
<1>3. Executed(p)' /\ Next
  BY <1>2, LandingExecuted, ExecutesInstruction
<1>4. /\ position' = p /\ in_flight' = {} /\ seq_map' = seq_map
      /\ status' \in {"landed", "failed"}
  BY <1>1, <1>2, InFlight DEF Land
<1>5. seq_map' = [a \in Agents |-> Count(p - 1, a)]
  BY <1>1, <1>4 DEF SeedInv
<1>6. QED
  BY <1>2, <1>3, <1>4, <1>5 DEF SeedInv, InStep, InvKept

LEMMA LostKeepsInv ==
  ASSUME SeedInv, NEW tx \in in_flight, Reject(tx) \/ Expire(tx)
  PROVE  InvKept
<1>1. PICK p : p = position
  OBVIOUS
<1>2. p \in 1..12 /\ Executed(p - 1) /\ status \in {"waiting", "failed"}
  BY <1>1, InFlight
<1>3. /\ UNCHANGED vars /\ position' = p /\ in_flight' = {} /\ seq_map' = seq_map
      /\ status' \in {"waiting", "failed"}
  <2>1. CASE Reject(tx)
    BY <1>1, <1>2, <2>1, InFlight DEF Reject
  <2>2. CASE Expire(tx)
    BY <1>1, <1>2, <2>2, InFlight DEF Expire
  <2>3. QED
    BY <2>1, <2>2
<1>4. Executed(p - 1)'
  BY <1>2, <1>3, VarsKept
<1>5. seq_map' = [a \in Agents |-> Count(p - 1, a)]
  BY <1>1, <1>3 DEF SeedInv
<1>6. QED
  BY <1>2, <1>3, <1>4, <1>5 DEF SeedInv, InStep, InvKept

LEMMA StandingKept ==
  ASSUME SeedInv, UNCHANGED <<position, status, seq_map, in_flight>>,
         \A l \in 0..12 : Executed(l) => Executed(l)'
  PROVE  SeedInv'
<1>1. PICK p : p = position
  OBVIOUS
<1>2. position' = p /\ status' = status /\ seq_map' = seq_map /\ in_flight' = in_flight
  BY <1>1
<1>3. p \in 1..13 /\ p - 1 \in 0..12 /\ (p # 13 => p \in 0..12) /\ 12 \in 0..12
  BY <1>1 DEF SeedInv, InStep
<1>4. seq_map' = [a \in Agents |-> Count(p - 1, a)]
  BY <1>1, <1>2 DEF SeedInv
<1>5. /\ Executed(p - 1) => Executed(p - 1)'
      /\ p # 13 /\ Executed(p) => Executed(p)'
      /\ Executed(12) => Executed(12)'
  BY <1>3
<1>6. InStep'
  BY <1>1, <1>2, <1>3, <1>5 DEF SeedInv, InStep
<1>7. QED
  BY <1>2, <1>4, <1>6 DEF SeedInv

LEMMA StrangerKeepsInv ==
  ASSUME SeedInv, Stranger
  PROVE  InvKept
<1>1. PICK k \in Keys \ {Deployer} : \/ InitProtocol(k)
                                     \/ \E cap \in Caps : UpdateProtocolConfig(k, cap)
                                     \/ \E a \in AgentIds : FreezeAgent(k, a)
  BY DEF Stranger
<1>2. Next
  BY <1>1 DEF Next, Administer, Pubkeys
<1>3. KeepsCounts /\ UNCHANGED <<payment_record, token_account>>
  <2>1. CASE InitProtocol(k)
    BY <2>1 DEF InitProtocol, KeepsCounts, SameCounters, Sequence, Total
  <2>2. ASSUME NEW cap \in Caps, UpdateProtocolConfig(k, cap)
        PROVE  KeepsCounts /\ UNCHANGED <<payment_record, token_account>>
    BY <2>2 DEF UpdateProtocolConfig, KeepsCounts, SameCounters, Sequence, Total
  <2>3. ASSUME NEW a \in AgentIds, FreezeAgent(k, a)
        PROVE  KeepsCounts /\ UNCHANGED <<payment_record, token_account>>
    <3>1. \A b \in DOMAIN agent_wallet' :
            /\ b \in DOMAIN agent_wallet
            /\ agent_wallet'[b].payment_sequence = agent_wallet[b].payment_sequence
            /\ agent_wallet'[b].total_payments = agent_wallet[b].total_payments
      BY <2>3 DEF FreezeAgent, SetFrozen
    <3>2. QED
      BY <2>3, <3>1 DEF FreezeAgent, SetFrozen, KeepsCounts, SameCounters, Sequence, Total
  <2>4. QED
    BY <1>1, <2>1, <2>2, <2>3
<1>4. \A l \in 0..12 : Executed(l) => Executed(l)'
  BY <1>3, ExecutedKept
<1>5. SeedInv'
  BY <1>4, StandingKept DEF Stranger
<1>6. QED
  BY <1>2, <1>5 DEF InvKept

LEMMA SeedStep ==
  ASSUME TypeOK, SeedInv, [SeedNext]_seedVars
  PROVE  InvKept
<1>1. CASE UNCHANGED seedVars
  <2>1. UNCHANGED vars /\ UNCHANGED <<position, status, seq_map, in_flight>>
    BY <1>1 DEF seedVars, scriptVars
  <2>2. SeedInv'
    BY <2>1, VarsKept, StandingKept
  <2>3. QED
    BY <2>1, <2>2 DEF InvKept
<1>2. CASE Script
  BY <1>2, SkipInitKeepsInv, SendKeepsInv, ConfirmKeepsInv, ThrowKeepsInv, FinishKeepsInv DEF Script
<1>3. CASE Network
  BY <1>3, LandKeepsInv, LostKeepsInv DEF Network
<1>4. CASE Stranger
  BY <1>4, StrangerKeepsInv
<1>5. QED
  BY <1>1, <1>2, <1>3, <1>4 DEF SeedNext

LEMMA SeedInitially ==
  SeedInit => TypeOK /\ SeedInv
<1> SUFFICES ASSUME SeedInit
             PROVE  TypeOK /\ SeedInv
  OBVIOUS
<1>1. TypeOK
  BY InitType DEF SeedInit
<1>2. /\ DOMAIN agent_wallet = {} /\ DOMAIN payment_record = {} /\ DOMAIN token_account = {}
      /\ position = 1 /\ status = "ready" /\ in_flight = {} /\ seq_map = [a \in Agents |-> 0]
  BY DEF SeedInit, Init, NoAccounts, Agents
<1>3. /\ \A a \in Agents : Count(0, a) = 0 /\ Left(0, a) = 0
      /\ Earned(0) = 0 /\ 1..(0 - 8) = {}
  BY DEF Count, Left, Earned
<1>4. Executed(0)
  BY <1>2, <1>3 DEF Executed, Counted, Listed, Held, RecordsOf, Balance
<1>5. SeedInv
  <2>1. position - 1 = 0
    BY <1>2
  <2>2. QED
    BY <1>2, <1>3, <1>4, <2>1 DEF SeedInv, InStep
<1>6. QED
  BY <1>1, <1>5

(***************************************************************************)
(* The inductive invariant: types, and the accounts, the count and the     *)
(* transaction in flight where the list says they are.                     *)
(***************************************************************************)
LEMMA SeedInvariant == SeedSpec => Spec /\ []TypeOK /\ []SeedInv
<1>1. SeedInit => Init /\ TypeOK /\ SeedInv
  BY SeedInitially DEF SeedInit
<1>2. TypeOK /\ SeedInv /\ [SeedNext]_seedVars => SeedInv' /\ [Next]_vars
  BY SeedStep DEF InvKept
<1>3. TypeOK /\ [Next]_vars => TypeOK'
  BY StepKeepsType
<1>4. QED
  BY <1>1, <1>2, <1>3, PTL DEF SeedSpec, Spec

-----------------------------------------------------------------------------

(***************************************************************************)
(* The script, the network and the stranger do to the accounts only what   *)
(* the program's instructions do, under every loss and delay: whatever is  *)
(* proved of Spec is true of a run of seed.ts.                             *)
(***************************************************************************)
THEOREM ScriptIsAClient == SeedSpec => Spec
BY SeedInvariant

(***************************************************************************)
(* seqMap is the wallets' payment_sequence when the script sends, and one  *)
(* behind at most, whatever is lost or lands after the script gave up.     *)
(***************************************************************************)
THEOREM CounterStaysInStep == SeedSpec => []CounterInStep
<1>1. SeedInv => CounterInStep
  <2> SUFFICES ASSUME SeedInv, NEW a \in Agents, a \in DOMAIN agent_wallet
               PROVE  /\ Sequence(a) - seq_map[a] \in {0, 1}
                      /\ status = "ready" => Sequence(a) - seq_map[a] = 0
    BY DEF CounterInStep, Sequence, Agents
  <2>1. PICK p : p = position
    OBVIOUS
  <2>2. p \in 1..13 /\ seq_map[a] = Count(p - 1, a)
    BY <2>1 DEF SeedInv, InStep
  <2>3. \/ Executed(p - 1)
        \/ status # "ready" /\ Executed(p)
    <3>1. p = 13 => p - 1 = 12
      OBVIOUS
    <3>2. QED
      BY <2>1, <3>1 DEF SeedInv, InStep
  <2>4. \/ Sequence(a) = Count(p - 1, a)
        \/ status # "ready" /\ Sequence(a) = Count(p, a)
    BY <2>3 DEF Executed, Counted
  <2>5. Count(p - 1, a) \in Nat /\ Count(p, a) - Count(p - 1, a) \in {0, 1}
    BY <2>2 DEF Count
  <2>6. QED
    BY <2>2, <2>4, <2>5
<1>2. QED
  BY <1>1, SeedInvariant, PTL

(***************************************************************************)
(* What a run of seed.ts has left on the ledger at any time is the first   *)
(* so many entries of its list, each once and in its place.                *)
(***************************************************************************)
THEOREM ScriptLeavesPrefix == SeedSpec => []LedgerFollowsScript
<1>1. ASSUME NEW l \in 0..12, Listed(l)
      PROVE  LedgerFollowsScript
  <2> DEFINE n == IF l <= 8 THEN 0 ELSE l - 8
  <2>1. n \in 0..Len(Entries) /\ 1..(l - 8) = 1..n
    BY EntriesAre
  <2> HIDE DEF n
  <2>2. QED
    BY <1>1, <2>1 DEF Listed, LedgerFollowsScript
<1>2. SeedInv => LedgerFollowsScript
  <2> SUFFICES ASSUME SeedInv
               PROVE  LedgerFollowsScript
    OBVIOUS
  <2>1. PICK l \in 0..12 : Executed(l)
    <3>1. \/ position \in 1..13 /\ Executed(position - 1)
          \/ position \in 1..12 /\ Executed(position)
          \/ Executed(12)
      BY DEF SeedInv, InStep
    <3>2. PICK p : p = position
      OBVIOUS
    <3>3. p \in 1..13 => p - 1 \in 0..12
      OBVIOUS
    <3>4. QED
      BY <3>1, <3>2, <3>3
  <2>2. QED
    BY <1>1, <2>1 DEF Executed
<1>3. QED
  BY <1>2, SeedInvariant, PTL

-----------------------------------------------------------------------------
(* The script as it stands: the program cannot read set_spend_policy *)

(***************************************************************************)
(* What the wire lets through is among what SeedSpec allows.               *)
(***************************************************************************)
THEOREM WireIsASeed == WireSpec => SeedSpec
<1>1. [WireNext]_seedVars => [SeedNext]_seedVars
  BY DEF WireNext, Wire, SeedNext, Network
<1>2. QED
  BY <1>1, PTL DEF WireSpec, SeedSpec

Stopped ==
  /\ StopsAtFirstPolicy
  /\ status = "landed" => position <= 3
  /\ status = "landed" /\ position = 3 => Agent1 \in DOMAIN agent_wallet

LEMMA PolicyNotUnderstood ==
  /\ ~Understood(Preparation[4])
  /\ Preparation[1].ix # "init_protocol" /\ Preparation[3].ix # "init_protocol"
  /\ Preparation[4].ix # "init_protocol"
<1>1. ScriptSends("set_spend_policy") # ProgramExpects("set_spend_policy")
  <2>1. Len(ScriptSends("set_spend_policy")) = 2 /\ Len(ProgramExpects("set_spend_policy")) = 3
    BY DEF ScriptSends, ProgramExpects
  <2>2. QED
    BY <2>1
<1>2. QED
  BY <1>1, PreparationIs DEF Understood

\* Where the script can be, and what that leaves the accounts to hold
LEMMA PositionStopped ==
  ASSUME SeedInv, Stopped
  PROVE  position \in 1..4
BY DEF SeedInv, InStep, Stopped, StopsAtFirstPolicy

LEMMA ScriptStopped ==
  ASSUME SeedInv, Stopped, Script
  PROVE  Stopped'
<1>1. PICK p \in 1..4 : p = position
  BY PositionStopped
<1>2. UNCHANGED vars
  BY DEF Script, SkipInit, Send, Confirm, Throw, Finish
<1>3. \A holder \in Holders : Balance(holder, UsdcMint)' = Balance(holder, UsdcMint)
  BY <1>2 DEF vars, Balance
<1>4. CASE SkipInit
  <2>1. p = 2
    <3>1. Preparation[p].ix = "init_protocol"
      BY <1>1, <1>4, TransactionsAre DEF SkipInit
    <3>2. p = 1 \/ p = 2 \/ p = 3 \/ p = 4
      OBVIOUS
    <3>3. QED
      BY <3>1, <3>2, PolicyNotUnderstood
  <2>2. position' = 3 /\ status' = "ready"
    BY <1>1, <1>4, <2>1 DEF SkipInit
  <2>3. QED
    BY <1>1, <1>2, <1>3, <2>1, <2>2 DEF Stopped, StopsAtFirstPolicy, vars
<1>5. CASE Send \/ Throw
  <2>1. position' = p /\ status' \in {"waiting", "failed"}
    BY <1>1, <1>5 DEF Send, Throw
  <2>2. QED
    BY <1>1, <1>2, <1>3, <2>1 DEF Stopped, StopsAtFirstPolicy, vars
<1>6. CASE Confirm
  <2>1. p \in 1..3 /\ position' = p + 1 /\ status' = "ready"
    BY <1>1, <1>6 DEF Confirm, Stopped
  <2>2. p = 3 => Agent1 \in DOMAIN agent_wallet
    BY <1>1, <1>6 DEF Confirm, Stopped
  <2>3. p + 1 <= 4 /\ (p = 3 => p + 1 \in {3, 4}) /\ (p + 1 = 4 => p = 3)
    BY <2>1
  <2>4. QED
    BY <1>1, <1>2, <1>3, <2>1, <2>2, <2>3 DEF Stopped, StopsAtFirstPolicy, vars
<1>7. CASE Finish
  BY <1>1, <1>7, TransactionsAre DEF Finish
<1>8. QED
  BY <1>4, <1>5, <1>6, <1>7 DEF Script

LEMMA LandStopped ==
  ASSUME TypeOK, SeedInv, Stopped, NEW tx \in in_flight, Understood(tx), Land(tx)
  PROVE  Stopped'
<1>1. PICK p \in 1..4 : p = position
  BY PositionStopped
<1>2. tx = Preparation[p] /\ status \in {"waiting", "failed"} /\ Executes(Sent(p))
  BY <1>1, InFlight, SentPreparation DEF Land
<1>3. p \in 1..3
  BY <1>2, PolicyNotUnderstood
<1>4. position' = p /\ status' \in {"landed", "failed"}
  BY <1>1, <1>2 DEF Land
<1>5. CASE p \in {1, 2}
  <2>1. CreateTokenAccount(Deployer, UsdcMint) \/ InitProtocol(Deployer)
    BY <1>2, <1>5, ExecutesPreparation
  <2>2. /\ UNCHANGED <<agent_wallet, spend_policy, payment_record>>
        /\ \A holder \in Holders : Balance(holder, UsdcMint)' = Balance(holder, UsdcMint)
    <3>1. CASE CreateTokenAccount(Deployer, UsdcMint)
      BY <3>1, NewAccountBalances DEF CreateTokenAccount
    <3>2. CASE InitProtocol(Deployer)
      BY <3>2 DEF InitProtocol, Balance
    <3>3. QED
      BY <2>1, <3>1, <3>2
  <2>3. QED
    BY <1>1, <1>4, <1>5, <2>2 DEF Stopped, StopsAtFirstPolicy
<1>6. CASE p = 3
  <2>1. RegisterAgent(Deployer, Agent1, UsdcMint)
    BY <1>2, <1>6, ExecutesPreparation
  <2>2. \A holder \in Holders : Balance(holder, UsdcMint)' = Balance(holder, UsdcMint)
    BY <2>1, NewAccountBalances DEF RegisterAgent, AddressesFree
  <2>3. DOMAIN agent_wallet = {}
    BY <1>1, <1>6, <2>1 DEF Stopped, StopsAtFirstPolicy, RegisterAgent, AddressesFree
  <2>4. DOMAIN agent_wallet' = {Agent1} /\ UNCHANGED <<spend_policy, payment_record>>
    BY <2>1, <2>3 DEF RegisterAgent, Stored
  <2>5. QED
    BY <1>1, <1>4, <1>6, <2>2, <2>4 DEF Stopped, StopsAtFirstPolicy
<1>7. QED
  BY <1>3, <1>5, <1>6

LEMMA LostStopped ==
  ASSUME SeedInv, Stopped, NEW tx \in in_flight, Reject(tx) \/ Expire(tx)
  PROVE  Stopped'
<1>1. status # "landed"
  BY InFlight
<1>2. /\ UNCHANGED <<agent_wallet, spend_policy, payment_record, token_account, position>>
      /\ status' \in {status, "failed"}
  BY DEF Reject, Expire, vars
<1>3. \A holder \in Holders : Balance(holder, UsdcMint)' = Balance(holder, UsdcMint)
  BY <1>2 DEF Balance
<1>4. QED
  BY <1>1, <1>2, <1>3 DEF Stopped, StopsAtFirstPolicy

LEMMA StrangerStopped ==
  ASSUME Stopped, Stranger
  PROVE  Stopped'
<1>1. /\ DOMAIN agent_wallet' = DOMAIN agent_wallet
      /\ UNCHANGED <<spend_policy, payment_record, token_account, position, status>>
  BY DEF Stranger, InitProtocol, UpdateProtocolConfig, FreezeAgent, SetFrozen
<1>2. \A holder \in Holders : Balance(holder, UsdcMint)' = Balance(holder, UsdcMint)
  BY <1>1 DEF Balance
<1>3. QED
  BY <1>1, <1>2 DEF Stopped, StopsAtFirstPolicy

(***************************************************************************)
(* Every run of seed.ts as it stands ends before the second agent: at its  *)
(* first set_spend_policy at the latest, with one wallet and no policy, no *)
(* tokens and no entry, whatever the network and the admin do.             *)
(***************************************************************************)
THEOREM ScriptStopsShort == WireSpec => []StopsAtFirstPolicy
<1>1. SeedInit => Stopped
  BY DEF SeedInit, Init, NoAccounts, Stopped, StopsAtFirstPolicy, Balance
<1>2. TypeOK /\ SeedInv /\ Stopped /\ [WireNext]_seedVars => Stopped'
  <2> SUFFICES ASSUME TypeOK, SeedInv, Stopped, [WireNext]_seedVars
               PROVE  Stopped'
    OBVIOUS
  <2>1. CASE UNCHANGED seedVars
    BY <2>1 DEF seedVars, scriptVars, vars, Stopped, StopsAtFirstPolicy, Balance
  <2>2. CASE Script
    BY <2>2, ScriptStopped
  <2>3. CASE Wire
    BY <2>3, LandStopped, LostStopped DEF Wire
  <2>4. CASE Stranger
    BY <2>4, StrangerStopped
  <2>5. QED
    BY <2>1, <2>2, <2>3, <2>4 DEF WireNext
<1>3. Stopped => StopsAtFirstPolicy
  BY DEF Stopped
<1>4. WireSpec => []TypeOK /\ []SeedInv
  BY WireIsASeed, SeedInvariant
<1>5. QED
  BY <1>1, <1>2, <1>3, <1>4, PTL DEF WireSpec
=============================================================================
