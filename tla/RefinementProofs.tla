--------------------------- MODULE RefinementProofs ---------------------------
(***************************************************************************)
(* maxim_protocol implements PaymentLedger: every instruction, and every   *)
(* step of the token program and the clock, is one step of the promise or  *)
(* changes nothing in it.  The refinement needs the counters' invariant:   *)
(* an entry is appended at the end of the list only because the wallet's   *)
(* sequence is the number of its records.                                  *)
(***************************************************************************)
EXTENDS MaximRefinesLedger, MaximProofs, SequenceTheorems

-----------------------------------------------------------------------------
(* What an outsider sees of a, and which of it a step leaves *)

TheMint  == CHOOSE m \in Mints : TRUE
Funds(a) == Balance(a, TheMint)

SameStatus(a) == StatusOf(a)' = StatusOf(a)
SameLedger(a) == LedgerOf(a)' = LedgerOf(a)
SameFunds(a)  == Funds(a)' = Funds(a)

LEMMA PromiseVars ==
  /\ Promise!ledgerVars = <<[a \in AgentIds |-> StatusOf(a)], [a \in AgentIds |-> LedgerOf(a)],
                            [a \in AgentIds |-> Funds(a)]>>
  /\ Promise!ledgerVars' = <<[a \in AgentIds |-> StatusOf(a)'], [a \in AgentIds |-> LedgerOf(a)'],
                             [a \in AgentIds |-> Funds(a)']>>
BY DEF Promise!ledgerVars, Funds, TheMint

(***************************************************************************)
(* Most steps are, for the promise, a change of one wallet's status, or    *)
(* nothing.                                                                *)
(***************************************************************************)
LEMMA NothingSeen ==
  ASSUME \A a \in AgentIds : SameStatus(a) /\ SameLedger(a) /\ SameFunds(a)
  PROVE  UNCHANGED Promise!ledgerVars
BY PromiseVars DEF SameStatus, SameLedger, SameFunds

LEMMA StatusBecomes ==
  ASSUME NEW a \in AgentIds, NEW from, NEW to, StatusOf(a) = from, StatusOf(a)' = to,
         \A b \in AgentIds \ {a} : SameStatus(b),
         \A b \in AgentIds : SameLedger(b) /\ SameFunds(b)
  PROVE  Promise!Becomes(a, from, to)
<1>1. [b \in AgentIds |-> StatusOf(b)'] = [[b \in AgentIds |-> StatusOf(b)] EXCEPT ![a] = to]
  <2>1. \A b \in AgentIds : StatusOf(b)' = IF b = a THEN to ELSE StatusOf(b)
    BY DEF SameStatus
  <2>2. QED
    BY <2>1
<1>2. /\ [b \in AgentIds |-> LedgerOf(b)'] = [b \in AgentIds |-> LedgerOf(b)]
      /\ [b \in AgentIds |-> Funds(b)'] = [b \in AgentIds |-> Funds(b)]
  BY DEF SameLedger, SameFunds
<1>3. QED
  BY <1>1, <1>2 DEF Promise!Becomes, Funds, TheMint

LEMMA LedgerKept ==
  ASSUME UNCHANGED payment_record
  PROVE  \A a : SameLedger(a)
BY DEF SameLedger, LedgerOf, RecordsOf

LEMMA FundsKept ==
  ASSUME UNCHANGED token_account
  PROVE  \A a : SameFunds(a)
BY DEF SameFunds, Funds, Balance

LEMMA FundsKeptByNewAccount ==
  ASSUME NEW t, t \notin DOMAIN token_account, token_account' = Stored(token_account, t, 0)
  PROVE  \A a : SameFunds(a)
BY NewAccountBalances DEF SameFunds, Funds

\* The wallet at a and its token accounts are there or not as before, and it may pay or not.
LEMMA StatusKept ==
  ASSUME NEW a,
         a \in DOMAIN agent_wallet' <=> a \in DOMAIN agent_wallet,
         a \in DOMAIN agent_wallet => (IsOperational(a)' <=> IsOperational(a)),
         a \notin DOMAIN agent_wallet => (HasAccount(a)' <=> HasAccount(a))
  PROVE  SameStatus(a)
BY DEF SameStatus, StatusOf, Retired, HasAccount

-----------------------------------------------------------------------------
(* Steps without an entry *)

\* A step that the promise has, or that it does not see
Promised == Promise!LedgerNext \/ UNCHANGED Promise!ledgerVars

\* Nothing moves but a's flags or owner.
LEMMA FlagsPromised ==
  ASSUME NEW a \in DOMAIN agent_wallet, a \in AgentIds,
         UNCHANGED <<payment_record, token_account>>,
         DOMAIN agent_wallet' = DOMAIN agent_wallet,
         \A b \in DOMAIN agent_wallet : b # a => agent_wallet'[b] = agent_wallet[b]
  PROVE  Promised
<1>1. \A b \in AgentIds : SameLedger(b) /\ SameFunds(b)
  BY LedgerKept, FundsKept
<1>2. \A b \in AgentIds \ {a} : SameStatus(b)
  BY StatusKept DEF IsOperational, HasAccount
<1>3. /\ StatusOf(a) = IF IsOperational(a) THEN "open" ELSE "suspended"
      /\ StatusOf(a)' = IF IsOperational(a)' THEN "open" ELSE "suspended"
  BY DEF StatusOf
<1>4. CASE IsOperational(a)' <=> IsOperational(a)
  BY <1>1, <1>2, <1>3, <1>4, NothingSeen DEF SameStatus, Promised
<1>5. CASE IsOperational(a) /\ ~IsOperational(a)'
  <2>1. Promise!Suspend(a)
    BY <1>1, <1>2, <1>3, <1>5, StatusBecomes DEF Promise!Suspend
  <2>2. QED
    BY <2>1 DEF Promised, Promise!LedgerNext
<1>6. CASE ~IsOperational(a) /\ IsOperational(a)'
  <2>1. Promise!Resume(a)
    BY <1>1, <1>2, <1>3, <1>6, StatusBecomes DEF Promise!Resume
  <2>2. QED
    BY <2>1 DEF Promised, Promise!LedgerNext
<1>7. QED
  BY <1>4, <1>5, <1>6

\* Nothing moves that the promise is about.
LEMMA QuietPromised ==
  ASSUME UNCHANGED <<agent_wallet, payment_record, token_account>>
  PROVE  Promised
<1>1. \A b \in AgentIds : SameStatus(b)
  BY StatusKept DEF IsOperational, HasAccount
<1>2. QED
  BY <1>1, LedgerKept, FundsKept, NothingSeen DEF Promised

LEMMA RegisterAgentPromised ==
  ASSUME SingleMint, TypeOK, NEW owner \in Keys, NEW a \in AgentIds, NEW mint \in Mints,
         RegisterAgent(owner, a, mint)
  PROVE  Promised
<1>1. /\ a \notin DOMAIN agent_wallet /\ <<a, mint>> \notin DOMAIN token_account
      /\ DOMAIN agent_wallet' = DOMAIN agent_wallet \cup {a}
      /\ \A b \in DOMAIN agent_wallet : agent_wallet'[b] = agent_wallet[b]
      /\ agent_wallet'[a].is_active = TRUE /\ agent_wallet'[a].is_frozen = FALSE
      /\ token_account' = Stored(token_account, <<a, mint>>, 0)
      /\ payment_record' = payment_record
  BY DEF RegisterAgent, AddressesFree, Stored
<1>2. \A b \in AgentIds : SameLedger(b) /\ SameFunds(b)
  BY <1>1, LedgerKept, FundsKeptByNewAccount
<1>3. \A b \in AgentIds \ {a} : SameStatus(b)
  <2>1. \A b \in AgentIds \ {a} : HasAccount(b)' <=> HasAccount(b)
    BY <1>1 DEF HasAccount, Stored
  <2>2. QED
    BY <1>1, <2>1, StatusKept DEF IsOperational
<1>4. StatusOf(a) = "vacant" /\ StatusOf(a)' = "open"
  BY <1>1 DEF StatusOf, Retired, SingleMint, IsOperational
<1>5. Promise!Open(a)
  BY <1>2, <1>3, <1>4, StatusBecomes DEF Promise!Open
<1>6. QED
  BY <1>5 DEF Promised, Promise!LedgerNext

LEMMA CloseAgentPromised ==
  ASSUME SingleMint, TypeOK, NEW owner \in Keys, NEW a \in AgentIds, NEW mint \in Mints,
         CloseAgent(owner, a, mint)
  PROVE  Promised
<1>1. /\ a \in DOMAIN agent_wallet /\ ~agent_wallet[a].is_active
      /\ <<a, mint>> \in DOMAIN token_account /\ token_account[<<a, mint>>] = 0
      /\ DOMAIN agent_wallet' = DOMAIN agent_wallet \ {a}
      /\ \A b \in DOMAIN agent_wallet' : agent_wallet'[b] = agent_wallet[b]
      /\ UNCHANGED <<payment_record, token_account>>
  BY DEF CloseAgent, SignedByOwner, Drained, Closed, Restrict
<1>2. \A b \in AgentIds : SameLedger(b) /\ SameFunds(b)
  BY <1>1, LedgerKept, FundsKept
<1>3. \A b \in AgentIds \ {a} : SameStatus(b)
  BY <1>1, StatusKept DEF IsOperational, HasAccount
<1>4. StatusOf(a) = "suspended" /\ StatusOf(a)' = "gone"
  BY <1>1 DEF StatusOf, Retired, IsOperational
<1>5. Funds(a) = 0
  <2>1. TheMint = mint
    BY DEF TheMint, SingleMint
  <2>2. QED
    BY <1>1, <2>1 DEF Funds, Balance
<1>6. Promise!Retire(a)
  BY <1>2, <1>3, <1>4, <1>5, StatusBecomes DEF Promise!Retire, Funds, TheMint
<1>7. QED
  BY <1>6 DEF Promised, Promise!LedgerNext

LEMMA CreateTokenAccountPromised ==
  ASSUME SingleMint, TypeOK, \A b \in AgentIds : Accounted(b),
         NEW holder \in Holders, NEW mint \in Mints, CreateTokenAccount(holder, mint)
  PROVE  Promised
<1>1. /\ <<holder, mint>> \notin DOMAIN token_account
      /\ token_account' = Stored(token_account, <<holder, mint>>, 0)
      /\ UNCHANGED <<agent_wallet, payment_record>>
  BY DEF CreateTokenAccount
<1>2. \A b \in AgentIds : SameLedger(b) /\ SameFunds(b)
  BY <1>1, LedgerKept, FundsKeptByNewAccount
<1>3. \A b \in AgentIds \ {holder} : SameStatus(b)
  <2>1. \A b \in AgentIds \ {holder} : HasAccount(b)' <=> HasAccount(b)
    BY <1>1 DEF HasAccount, Stored
  <2>2. QED
    BY <1>1, <2>1, StatusKept DEF IsOperational
<1>4. CASE holder \in AgentIds
  <2>1. ~HasAccount(holder) /\ HasAccount(holder)'
    BY <1>1 DEF HasAccount, SingleMint, Stored
  <2>2. holder \notin DOMAIN agent_wallet
    BY <1>4, <2>1 DEF Accounted
  <2>3. StatusOf(holder) = "vacant" /\ StatusOf(holder)' = "gone"
    BY <1>1, <2>1, <2>2 DEF StatusOf, Retired, HasAccount
  <2>4. Promise!Block(holder)
    BY <1>2, <1>3, <1>4, <2>3, StatusBecomes DEF Promise!Block
  <2>5. QED
    BY <1>4, <2>4 DEF Promised, Promise!LedgerNext
<1>5. CASE holder \notin AgentIds
  BY <1>2, <1>3, <1>5, NothingSeen DEF Promised
<1>6. QED
  BY <1>4, <1>5

-----------------------------------------------------------------------------
(* Money *)

LEMMA FundsTyped ==
  ASSUME TypeOK, NEW a
  PROVE  Funds(a) \in Nat
BY DEF Funds, Balance, TypeOK

\* A step that changes balances and no wallet and no ledger
LEMMA MoneyOnly ==
  ASSUME UNCHANGED <<agent_wallet, payment_record>>,
         DOMAIN token_account' = DOMAIN token_account
  PROVE  \A b \in AgentIds : SameStatus(b) /\ SameLedger(b)
BY LedgerKept, StatusKept DEF IsOperational, HasAccount

\* The funds of the promise, where only those of a change
LEMMA OnlyFundsOf ==
  ASSUME NEW a \in AgentIds, \A b \in AgentIds \ {a} : SameFunds(b)
  PROVE  [b \in AgentIds |-> Funds(b)'] = [[b \in AgentIds |-> Funds(b)] EXCEPT ![a] = Funds(a)']
<1>1. \A b \in AgentIds : Funds(b)' = IF b = a THEN Funds(a)' ELSE Funds(b)
  BY DEF SameFunds
<1>2. QED
  BY <1>1

LEMMA FundPromised ==
  ASSUME SingleMint, TypeOK, NEW holder \in Holders, NEW mint \in Mints, NEW amount \in Amounts,
         Fund(holder, mint, amount)
  PROVE  Promised
<1>1. /\ <<holder, mint>> \in DOMAIN token_account /\ amount > 0
      /\ token_account' = [token_account EXCEPT ![<<holder, mint>>] = @ + amount]
      /\ UNCHANGED <<agent_wallet, payment_record>>
  BY DEF Fund
<1>2. amount \in Nat
  BY InputsAssumption, WidthAssumption DEF U64
<1>3. TheMint = mint
  BY DEF TheMint, SingleMint
<1>4. \A b \in AgentIds : SameStatus(b) /\ SameLedger(b)
  BY <1>1, MoneyOnly
<1>5. \A b \in AgentIds \ {holder} : SameFunds(b)
  BY <1>1, <1>3 DEF SameFunds, Funds, Balance
<1>6. CASE holder \in AgentIds
  <2>1. Funds(holder)' = Funds(holder) + amount /\ Funds(holder) \in Nat
    BY <1>1, <1>2, <1>3, FundsTyped DEF Funds, Balance, TypeOK
  <2>2. StatusOf(holder) # "vacant"
    BY <1>1 DEF StatusOf, Retired
  <2>3. Promise!Credit(holder)
    <3>1. Funds(holder)' > Funds(holder)
      BY <1>1, <1>2, <2>1
    <3>2. /\ [b \in AgentIds |-> StatusOf(b)'] = [b \in AgentIds |-> StatusOf(b)]
          /\ [b \in AgentIds |-> LedgerOf(b)'] = [b \in AgentIds |-> LedgerOf(b)]
      BY <1>4 DEF SameStatus, SameLedger
    <3>3. [b \in AgentIds |-> Funds(b)'] =
            [[b \in AgentIds |-> Funds(b)] EXCEPT ![holder] = Funds(holder)']
      BY <1>5, <1>6, OnlyFundsOf
    <3>4. QED
      BY <1>6, <2>2, <3>1, <3>2, <3>3 DEF Promise!Credit, Funds, TheMint
  <2>4. QED
    BY <1>6, <2>3 DEF Promised, Promise!LedgerNext
<1>7. CASE holder \notin AgentIds
  BY <1>4, <1>5, <1>7, NothingSeen DEF Promised
<1>8. QED
  BY <1>6, <1>7

LEMMA WithdrawFundsPromised ==
  ASSUME SingleMint, TypeOK, NEW owner \in Keys, NEW a \in AgentIds, NEW mint \in Mints,
         NEW amount \in Nat, WithdrawFunds(owner, a, mint, amount)
  PROVE  Promised
<1>1. /\ a \in DOMAIN agent_wallet /\ amount > 0
      /\ <<a, mint>> \in DOMAIN token_account /\ <<owner, mint>> \in DOMAIN token_account
      /\ amount <= token_account[<<a, mint>>]
      /\ token_account' = Transferred(token_account, <<a, mint>>, <<owner, mint>>, amount)
      /\ UNCHANGED <<agent_wallet, payment_record>>
  BY DEF WithdrawFunds, SignedByOwner
<1>2. TheMint = mint /\ TheMint \in Mints
  BY DEF TheMint, SingleMint
<1>3. ASSUME NEW b \in AgentIds
      PROVE  Funds(b)' = Funds(b) - Gain(b, a, amount)
  <2>1. Gain(b, owner, amount) = 0 /\ Gain(b, a, amount) \in Nat
    BY NamesAssumption DEF Gain
  <2>2. Balance(b, TheMint)' = Balance(b, TheMint) - Gain(b, a, amount) + Gain(b, owner, amount)
    BY <1>1, <1>2, TransferBalances
  <2>3. QED
    BY <2>1, <2>2, FundsTyped DEF Funds
<1>4. Funds(a) = token_account[<<a, mint>>] /\ Funds(a) \in Nat
  BY <1>1, <1>2, FundsTyped DEF Funds, Balance
<1>5. Funds(a)' \in 0..(Funds(a) - 1)
  BY <1>1, <1>3, <1>4 DEF Gain
<1>6. \A b \in AgentIds \ {a} : SameFunds(b)
  BY <1>3, FundsTyped DEF Gain, SameFunds
<1>7. \A b \in AgentIds : SameStatus(b) /\ SameLedger(b)
  <2>1. DOMAIN token_account' = DOMAIN token_account
    BY <1>1 DEF Transferred
  <2>2. QED
    BY <1>1, <2>1, MoneyOnly
<1>8. Promise!Withdraw(a)
  <2>1. StatusOf(a) \in {"open", "suspended"}
    BY <1>1 DEF StatusOf
  <2>2. /\ [b \in AgentIds |-> StatusOf(b)'] = [b \in AgentIds |-> StatusOf(b)]
        /\ [b \in AgentIds |-> LedgerOf(b)'] = [b \in AgentIds |-> LedgerOf(b)]
    BY <1>7 DEF SameStatus, SameLedger
  <2>3. [b \in AgentIds |-> Funds(b)'] = [[b \in AgentIds |-> Funds(b)] EXCEPT ![a] = Funds(a)']
    BY <1>6, OnlyFundsOf
  <2>4. QED
    BY <1>5, <2>1, <2>2, <2>3 DEF Promise!Withdraw, Promise!Held, Funds, TheMint
<1>9. QED
  BY <1>8 DEF Promised, Promise!LedgerNext

-----------------------------------------------------------------------------
(* Entries *)

LEMMA FirstCardinality ==
  ASSUME NEW a, NEW n \in Nat
  PROVE  Cardinality(First(a, n)) = n
<1> DEFINE f == [i \in 0..(n - 1) |-> <<a, i>>]
<1>1. f \in Bijection(0..(n - 1), First(a, n))
  <2>1. f \in [0..(n - 1) -> First(a, n)]
    BY DEF First
  <2>2. \A i, j \in 0..(n - 1) : f[i] = f[j] => i = j
    OBVIOUS
  <2>3. \A r \in First(a, n) : r[2] \in 0..(n - 1) /\ f[r[2]] = r
    BY DEF First
  <2> HIDE DEF f
  <2>4. QED
    BY <2>1, <2>2, <2>3 DEF Bijection, Injection, Surjection, IsInjective
<1>2. IsFiniteSet(0..(n - 1)) /\ Cardinality(0..(n - 1)) = n
  <2>1. CASE n = 0
    <3>1. 0..(n - 1) = {}
      BY <2>1
    <3>2. QED
      BY <2>1, <3>1, FS_EmptySet
  <2>2. CASE n # 0
    <3>1. 0 \in Int /\ n - 1 \in Int /\ 0 <= n - 1
      BY <2>2
    <3>2. IsFiniteSet(0..(n - 1)) /\ Cardinality(0..(n - 1)) = (n - 1) - 0 + 1
      BY <3>1, FS_Interval
    <3>3. QED
      BY <3>2
  <2>3. QED
    BY <2>1, <2>2
<1>3. QED
  BY <1>1, <1>2, FS_Bijection DEF ExistsBijection

\* A record as an entry of the promise
EntryAt(table, a, i) ==
  [payee |-> table[<<a, i>>].payee, amount |-> table[<<a, i>>].amount_usdc,
   passed |-> table[<<a, i>>].policy_passed]

LEMMA LedgerOfNumbered ==
  ASSUME NEW a, NEW n \in Nat
  PROVE  /\ NumberedTo(a, n) => LedgerOf(a) = [i \in 1..n |-> EntryAt(payment_record, a, i - 1)]
         /\ NumberedTo(a, n)' => LedgerOf(a)' = [i \in 1..n |-> EntryAt(payment_record', a, i - 1)]
<1>1. Cardinality(First(a, n)) = n
  BY FirstCardinality
<1>2. QED
  BY <1>1 DEF NumberedTo, First, LedgerOf, EntryAt

LEMMA LedgerAppended ==
  ASSUME NEW a \in AgentIds, NEW n \in Nat, NumberedTo(a, n), NEW record,
         payment_record' = Stored(payment_record, <<a, n>>, record),
         \A b \in AgentIds : \E m \in Nat : NumberedTo(b, m)
  PROVE  /\ \A b \in AgentIds \ {a} : SameLedger(b)
         /\ LedgerOf(a)' = Append(LedgerOf(a), [payee |-> record.payee,
                             amount |-> record.amount_usdc, passed |-> record.policy_passed])
<1>1. /\ DOMAIN payment_record' = DOMAIN payment_record \cup {<<a, n>>}
      /\ \A r \in DOMAIN payment_record : r # <<a, n>> => payment_record'[r] = payment_record[r]
      /\ payment_record'[<<a, n>>] = record
  BY DEF Stored
<1>2. ASSUME NEW b \in AgentIds \ {a}
      PROVE  SameLedger(b)
  <2>1. PICK m \in Nat : NumberedTo(b, m)
    BY <1>2
  <2>2. NumberedTo(b, m)'
    BY <1>1, <1>2, <2>1 DEF NumberedTo, RecordsOf, First
  <2>3. ASSUME NEW i \in 1..m
        PROVE  EntryAt(payment_record', b, i - 1) = EntryAt(payment_record, b, i - 1)
    <3>1. <<b, i - 1>> \in First(b, m)
      BY <2>3 DEF First
    <3>2. <<b, i - 1>> \in DOMAIN payment_record /\ <<b, i - 1>> # <<a, n>>
      BY <1>2, <2>1, <3>1 DEF NumberedTo, RecordsOf
    <3>3. QED
      BY <1>1, <3>2 DEF EntryAt
  <2>4. /\ LedgerOf(b) = [i \in 1..m |-> EntryAt(payment_record, b, i - 1)]
        /\ LedgerOf(b)' = [i \in 1..m |-> EntryAt(payment_record', b, i - 1)]
    BY <2>1, <2>2, LedgerOfNumbered
  <2>5. QED
    BY <2>3, <2>4 DEF SameLedger
<1>3. NumberedTo(a, n + 1)'
  <2>1. RecordsOf(a)' = RecordsOf(a) \cup {<<a, n>>}
    BY <1>1 DEF RecordsOf
  <2>2. QED
    BY <2>1, FirstGrows DEF NumberedTo, First
<1>4. ASSUME NEW i \in 1..n
      PROVE  EntryAt(payment_record', a, i - 1) = EntryAt(payment_record, a, i - 1)
  <2>1. <<a, i - 1>> \in First(a, n) /\ <<a, i - 1>> # <<a, n>>
    BY <1>4 DEF First
  <2>2. <<a, i - 1>> \in DOMAIN payment_record
    BY <2>1 DEF NumberedTo, RecordsOf
  <2>3. QED
    BY <1>1, <2>1, <2>2 DEF EntryAt
<1>5. PICK s, t, e : /\ s = LedgerOf(a) /\ t = LedgerOf(a)'
                     /\ e = [payee |-> record.payee, amount |-> record.amount_usdc,
                             passed |-> record.policy_passed]
  OBVIOUS
<1>6. /\ s = [i \in 1..n |-> EntryAt(payment_record, a, i - 1)]
      /\ t = [i \in 1..(n + 1) |-> EntryAt(payment_record', a, i - 1)]
  <2>1. n + 1 \in Nat
    OBVIOUS
  <2>2. QED
    BY <1>3, <1>5, <2>1, LedgerOfNumbered
<1>7. t[n + 1] = e /\ \A i \in 1..n : t[i] = s[i]
  <2>1. EntryAt(payment_record', a, n) = e
    BY <1>1, <1>5 DEF EntryAt
  <2>2. t[n + 1] = EntryAt(payment_record', a, (n + 1) - 1) /\ (n + 1) - 1 = n
    BY <1>6
  <2>3. \A i \in 1..n : i \in 1..(n + 1)
    OBVIOUS
  <2>4. QED
    BY <1>4, <1>6, <2>1, <2>2, <2>3
<1>8. t = Append(s, e)
  <2>1. PICK S : S = {s[i] : i \in 1..n} \cup {e}
    OBVIOUS
  <2>2. DOMAIN s = 1..n /\ s = [i \in 1..n |-> s[i]]
    BY <1>6
  <2>3. s \in Seq(S) /\ Len(s) = n
    <3>1. s \in [1..n -> S]
      BY <2>1, <2>2
    <3>2. QED
      BY <3>1, <2>2
  <2>4. t \in Seq(S) /\ Len(t) = n + 1
    <3>1. DOMAIN t = 1..(n + 1) /\ t = [i \in 1..(n + 1) |-> t[i]]
      BY <1>6
    <3>2. \A i \in 1..(n + 1) : i = n + 1 \/ i \in 1..n
      OBVIOUS
    <3>3. t \in [1..(n + 1) -> S]
      BY <1>7, <2>1, <3>1, <3>2
    <3>4. QED
      BY <3>1, <3>3
  <2>5. Append(s, e) \in Seq(S) /\ Len(Append(s, e)) = n + 1
        /\ \A i \in 1..(n + 1) : Append(s, e)[i] = IF i = n + 1 THEN e ELSE s[i]
    BY <2>1, <2>3, AppendProperties
  <2>6. \A i \in 1..(n + 1) : t[i] = Append(s, e)[i]
    BY <1>7, <2>5
  <2>7. QED
    BY <2>4, <2>5, <2>6, SeqEqual
<1>9. QED
  BY <1>2, <1>5, <1>8

EveryLedgerNumbered == \A b \in AgentIds : \E m \in Nat : NumberedTo(b, m)

\* A free address at the wallet's sequence is the one after the last record.
LEMMA NextNumber ==
  ASSUME TypeOK, LedgerInv, NEW a \in AgentIds, a \in DOMAIN agent_wallet,
         <<a, Sequence(a)>> \notin DOMAIN payment_record
  PROVE  Sequence(a) \in Nat /\ NumberedTo(a, Sequence(a))
<1>1. Sequence(a) \in Nat
  BY WidthAssumption DEF TypeOK, AgentWallet, Sequence, U64
<1>2. ~NumberedTo(a, MaxU64 + 1) \/ Sequence(a) # MaxU64
  <2>1. <<a, MaxU64>> \in First(a, MaxU64 + 1)
    BY WidthAssumption DEF First
  <2>2. QED
    BY <2>1 DEF NumberedTo, RecordsOf
<1>3. QED
  BY <1>1, <1>2 DEF LedgerInv, Matches

LEMMA RecordPolicyViolationPromised ==
  ASSUME TypeOK, LedgerInv, EveryLedgerNumbered, NEW owner \in Keys, NEW a \in AgentIds,
         NEW sequence \in U64, NEW params \in PaymentParams,
         RecordPolicyViolation(owner, a, sequence, params)
  PROVE  Promised
<1>1. PICK record :
        record = [payee |-> DefaultKey, amount_usdc |-> params.amount_usdc,
                  protocol |-> ProtocolOf(params.protocol), settled_at |-> now,
                  policy_passed |-> FALSE, parent_payment |-> {}]
  OBVIOUS
<1>2. PICK wallet : wallet = CountEntry(agent_wallet[a])
  OBVIOUS
<1>3. /\ a \in DOMAIN agent_wallet /\ sequence = Sequence(a)
      /\ <<a, sequence>> \notin DOMAIN payment_record
      /\ agent_wallet' = [agent_wallet EXCEPT ![a] = wallet]
      /\ payment_record' = Stored(payment_record, <<a, sequence>>, record)
      /\ UNCHANGED token_account
  BY <1>1, <1>2 DEF RecordPolicyViolation, SignedByOwner, RecordFree, SequenceNext, Sequence
<1>4. wallet.is_active = agent_wallet[a].is_active /\ wallet.is_frozen = agent_wallet[a].is_frozen
  BY <1>2, <1>3 DEF CountEntry, TypeOK, AgentWallet
<1>5. \A b \in AgentIds : SameStatus(b) /\ SameFunds(b)
  BY <1>3, <1>4, StatusKept, FundsKept DEF IsOperational, HasAccount
<1>6. PICK e : e = [payee |-> DefaultKey, amount |-> params.amount_usdc, passed |-> FALSE]
  OBVIOUS
<1>7. /\ \A b \in AgentIds \ {a} : SameLedger(b)
      /\ LedgerOf(a)' = Append(LedgerOf(a), e)
  <2>1. sequence \in Nat /\ NumberedTo(a, sequence)
    BY <1>3, NextNumber
  <2>2. e = [payee |-> record.payee, amount |-> record.amount_usdc, passed |-> record.policy_passed]
    BY <1>1, <1>6
  <2>3. QED
    BY <1>3, <2>1, <2>2, LedgerAppended DEF EveryLedgerNumbered
<1>8. Promise!Note(a, params.amount_usdc)
  <2>1. StatusOf(a) \in {"open", "suspended"}
    BY <1>3 DEF StatusOf
  <2>2. /\ [b \in AgentIds |-> StatusOf(b)'] = [b \in AgentIds |-> StatusOf(b)]
        /\ [b \in AgentIds |-> Funds(b)'] = [b \in AgentIds |-> Funds(b)]
    BY <1>5 DEF SameStatus, SameFunds
  <2>3. [b \in AgentIds |-> LedgerOf(b)'] =
          [[b \in AgentIds |-> LedgerOf(b)] EXCEPT ![a] = Append(@, e)]
    <3>1. \A b \in AgentIds :
            LedgerOf(b)' = IF b = a THEN Append(LedgerOf(a), e) ELSE LedgerOf(b)
      BY <1>7 DEF SameLedger
    <3>2. QED
      BY <3>1
  <2>4. QED
    BY <1>6, <2>1, <2>2, <2>3 DEF Promise!Note, Promise!Held, Promise!Append1, Funds, TheMint
<1>9. params.amount_usdc \in Amounts
  BY DEF PaymentParams
<1>10. QED
  BY <1>8, <1>9 DEF Promised, Promise!LedgerNext

LEMMA SettlePaymentPromised ==
  ASSUME SingleMint, TypeOK, LedgerInv, EveryLedgerNumbered, NEW owner \in Keys,
         NEW a \in AgentIds, NEW mint \in Mints, NEW payee \in Holders, NEW sequence \in U64,
         NEW params \in PaymentParams,
         SettlePayment(owner, a, mint, payee, sequence, params)
  PROVE  Promised
<1>1. PICK record :
        record = [payee |-> payee, amount_usdc |-> params.amount_usdc,
                  protocol |-> ProtocolOf(params.protocol),
                  settled_at |-> now, policy_passed |-> TRUE,
                  parent_payment |-> params.parent_payment]
  OBVIOUS
<1>2. PICK reset : reset = ResetWindowsIfElapsed(agent_wallet[a], now)
  OBVIOUS
<1>3. PICK wallet : wallet = RecordSpend(reset, params.amount_usdc, now)
  OBVIOUS
<1>4. PICK amount : amount = params.amount_usdc
  OBVIOUS
<1>5. /\ a \in DOMAIN agent_wallet /\ sequence = Sequence(a)
      /\ <<a, sequence>> \notin DOMAIN payment_record
      /\ <<a, mint>> \in DOMAIN token_account /\ <<payee, mint>> \in DOMAIN token_account
      /\ amount > 0 /\ amount <= token_account[<<a, mint>>]
      /\ AcceptsPayments(reset)
      /\ token_account' = Transferred(token_account, <<a, mint>>, <<payee, mint>>, amount)
      /\ agent_wallet' = [agent_wallet EXCEPT ![a] = wallet]
      /\ payment_record' = Stored(payment_record, <<a, sequence>>, record)
  BY <1>1, <1>2, <1>3, <1>4
     DEF SettlePayment, AdmitsPayment, SignedByOwner, RecordFree, SequenceNext, Sequence
<1>6. amount \in Nat /\ amount \in U64 /\ amount \in Amounts
  <2>1. \A x \in Amounts : x \in Nat
    BY InputsAssumption, WidthAssumption DEF U64
  <2>2. QED
    BY <1>4, <2>1, InputsAssumption DEF PaymentParams
<1>7. /\ reset.is_active = agent_wallet[a].is_active /\ reset.is_frozen = agent_wallet[a].is_frozen
      /\ wallet.is_active = reset.is_active /\ wallet.is_frozen = reset.is_frozen
  <2>1. agent_wallet[a] \in AgentWallet /\ now \in Nat
    BY <1>5 DEF TypeOK
  <2>2. reset \in AgentWallet
    BY <1>2, <2>1, ResetWallet
  <2>3. reset.is_active = agent_wallet[a].is_active /\ reset.is_frozen = agent_wallet[a].is_frozen
    BY <1>2, <2>1 DEF ResetWindowsIfElapsed, AgentWallet
  <2>4. wallet.is_active = reset.is_active /\ wallet.is_frozen = reset.is_frozen
    BY <1>3, <2>2 DEF RecordSpend, CountEntry, AgentWallet
  <2>5. QED
    BY <2>3, <2>4
<1>8. \A b \in AgentIds : SameStatus(b)
  <2>1. DOMAIN token_account' = DOMAIN token_account
    BY <1>5 DEF Transferred
  <2>2. QED
    BY <1>5, <1>7, <2>1, StatusKept DEF IsOperational, HasAccount
<1>9. PICK e : e = [payee |-> payee, amount |-> amount, passed |-> TRUE]
  OBVIOUS
<1>10. /\ \A b \in AgentIds \ {a} : SameLedger(b)
       /\ LedgerOf(a)' = Append(LedgerOf(a), e)
  <2>1. sequence \in Nat /\ NumberedTo(a, sequence)
    BY <1>5, NextNumber
  <2>2. e = [payee |-> record.payee, amount |-> record.amount_usdc, passed |-> record.policy_passed]
    BY <1>1, <1>4, <1>9
  <2>3. QED
    BY <1>5, <2>1, <2>2, LedgerAppended DEF EveryLedgerNumbered
<1>11. TheMint = mint /\ TheMint \in Mints
  BY DEF TheMint, SingleMint
<1>12. ASSUME NEW b \in AgentIds
       PROVE  Funds(b)' = Funds(b) + (IF b = payee THEN amount ELSE 0)
                                   - (IF b = a THEN amount ELSE 0)
  <2>1. Balance(b, TheMint)' = Balance(b, TheMint) - Gain(b, a, amount) + Gain(b, payee, amount)
    BY <1>5, <1>6, <1>11, TransferBalances
  <2>2. Funds(b) \in Nat
    BY FundsTyped
  <2>3. QED
    BY <1>6, <2>1, <2>2 DEF Funds, Gain
<1>13. Promise!Pay(a, payee, amount)
  <2>1. StatusOf(a) = "open"
    BY <1>5, <1>7 DEF StatusOf, IsOperational, AcceptsPayments
  <2>2. amount \in 1..Funds(a)
    <3>1. Funds(a) = token_account[<<a, mint>>] /\ Funds(a) \in Nat
      BY <1>5, <1>11, FundsTyped DEF Funds, Balance
    <3>2. QED
      BY <1>5, <1>6, <3>1
  <2>3. payee \in AgentIds => StatusOf(payee) # "vacant"
    BY <1>5 DEF StatusOf, Retired
  <2>4. [b \in AgentIds |-> LedgerOf(b)'] =
          [[b \in AgentIds |-> LedgerOf(b)] EXCEPT ![a] = Append(@, e)]
    <3>1. \A b \in AgentIds :
            LedgerOf(b)' = IF b = a THEN Append(LedgerOf(a), e) ELSE LedgerOf(b)
      BY <1>10 DEF SameLedger
    <3>2. QED
      BY <3>1
  <2>5. [b \in AgentIds |-> Funds(b)'] =
          [b \in AgentIds |-> [c \in AgentIds |-> Funds(c)][b]
             + (IF b = payee THEN amount ELSE 0) - (IF b = a THEN amount ELSE 0)]
    BY <1>12
  <2>6. [b \in AgentIds |-> StatusOf(b)'] = [b \in AgentIds |-> StatusOf(b)]
    BY <1>8 DEF SameStatus
  <2>7. QED
    BY <1>9, <2>1, <2>2, <2>3, <2>4, <2>5, <2>6 DEF Promise!Pay, Promise!Append1, Funds, TheMint
<1>14. QED
  BY <1>6, <1>13 DEF Promised, Promise!LedgerNext

-----------------------------------------------------------------------------
(* The refinement *)

LEMMA StepPromised ==
  ASSUME SingleMint, TypeOK, LedgerInv, LedgerGapless, [Next]_vars
  PROVE  Promised
<1>1. EveryLedgerNumbered
  BY WidthAssumption DEF LedgerGapless, EveryLedgerNumbered, NumberedTo, First
<1>2. \A b \in AgentIds : Accounted(b)
  BY DEF LedgerInv
<1>3. CASE Administer
  <2>1. ASSUME NEW admin \in Keys, NEW a \in AgentIds, NEW flag \in BOOLEAN,
               SetFrozen(admin, a, flag)
        PROVE  Promised
    BY <2>1, FlagsPromised DEF SetFrozen
  <2>2. QED
    BY <1>3, <2>1, QuietPromised DEF Administer, InitProtocol, RotateProtocolAdmin,
       UpdateProtocolConfig, FreezeAgent, UnfreezeAgent
<1>4. CASE Manage
  <2>1. ASSUME NEW owner \in Keys, NEW a \in AgentIds, NEW flag \in BOOLEAN,
               SetActive(owner, a, flag)
        PROVE  Promised
    BY <2>1, FlagsPromised DEF SetActive, SignedByOwner
  <2>2. ASSUME NEW owner \in Keys, NEW a \in AgentIds, NEW new_owner \in Pubkeys,
               TransferOwnership(owner, a, new_owner)
        PROVE  Promised
    BY <2>2, FlagsPromised DEF TransferOwnership, SignedByOwner
  <2>3. ASSUME NEW owner \in Keys, NEW a \in AgentIds, NEW params \in PolicyParams,
               SetSpendPolicy(owner, a, params)
        PROVE  Promised
    BY <2>3, QuietPromised DEF SetSpendPolicy
  <2>4. QED
    BY <1>4, <2>1, <2>2, <2>3, RegisterAgentPromised, CloseAgentPromised
       DEF Manage, DeactivateAgent, ReactivateAgent
<1>5. CASE Pay
  <2>1. \A amount \in Amounts : amount \in Nat
    BY InputsAssumption, WidthAssumption DEF U64
  <2>2. \A t \in DOMAIN token_account : token_account[t] \in Nat
    BY DEF TypeOK
  <2>3. QED
    BY <1>1, <1>5, <2>1, <2>2, SettlePaymentPromised, RecordPolicyViolationPromised,
       WithdrawFundsPromised DEF Pay, WithdrawAll
<1>6. CASE Environment
  <2>1. Tick => Promised
    BY QuietPromised DEF Tick
  <2>2. QED
    BY <1>2, <1>6, <2>1, CreateTokenAccountPromised, FundPromised DEF Environment
<1>7. CASE UNCHANGED vars
  BY <1>7, QuietPromised DEF vars
<1>8. QED
  BY <1>3, <1>4, <1>5, <1>6, <1>7 DEF Next

LEMMA InitPromised ==
  ASSUME Init
  PROVE  Promise!LedgerInit
<1>1. DOMAIN agent_wallet = {} /\ DOMAIN token_account = {} /\ DOMAIN payment_record = {}
  BY DEF Init, NoAccounts
<1>2. \A a \in AgentIds : StatusOf(a) = "vacant" /\ Funds(a) = 0
  BY <1>1 DEF StatusOf, Retired, Funds, Balance
<1>3. ASSUME NEW a \in AgentIds
      PROVE  LedgerOf(a) = <<>>
  <2>1. NumberedTo(a, 0)
    BY <1>1 DEF NumberedTo, RecordsOf, First
  <2>2. LedgerOf(a) = [i \in 1..0 |-> EntryAt(payment_record, a, i - 1)]
    BY <2>1, LedgerOfNumbered
  <2>3. QED
    BY <2>2
<1>4. QED
  BY <1>2, <1>3 DEF Promise!LedgerInit, Funds, TheMint

(***************************************************************************)
(* What the program promises to somebody outside it keeps: with one mint,  *)
(* every behaviour of maxim_protocol is one of PaymentLedger, where a      *)
(* wallet is a status, a list of entries and its funds.                    *)
(***************************************************************************)
THEOREM ProgramKeepsPromise ==
  ASSUME SingleMint
  PROVE  Spec => ImplementsLedger
<1>1. TypeOK /\ LedgerInv /\ LedgerGapless /\ [Next]_vars
        => [Promise!LedgerNext]_(Promise!ledgerVars)
  BY StepPromised DEF Promised
<1>2. Init => Promise!LedgerInit
  BY InitPromised
<1>3. QED
  BY <1>1, <1>2, TypeCorrect, LedgerInvariant, LedgerHasNoGaps, PTL
     DEF Spec, ImplementsLedger, Promise!LedgerSpec
=============================================================================
