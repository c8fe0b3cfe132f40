------------------------------ MODULE WindowProofs ------------------------------
(***************************************************************************)
(* The spend windows: a day never shows more spend than the week or the    *)
(* month around it, and each window shows what the ledger dates in it.     *)
(*                                                                         *)
(* The first is not inductive by itself: a week could restart in the       *)
(* middle of a day.  It cannot, because both starts lie on one grid of     *)
(* days, begun at registration, and that is the invariant.  The second     *)
(* needs that no window begins after the clock and no record is dated      *)
(* after it: a window that restarts now holds the new payment only.        *)
(***************************************************************************)
EXTENDS MaximProofs

\* The current day of a wallet is one of the days of its window w.
Aligned(wallet, w) ==
  \E i \in Nat : i < DaysIn(w) /\ wallet.window_start["daily"]
                                    = wallet.window_start[w] + i * SecondsPerDay

Nested(wallet, time) ==
  \A w \in Windows :
    /\ wallet.window_start[w] <= time
    /\ Aligned(wallet, w)
    /\ wallet.spend["daily"] <= wallet.spend[w]

WindowInv == \A a \in DOMAIN agent_wallet : Nested(agent_wallet[a], now)

-----------------------------------------------------------------------------
(* The grid *)

LEMMA MultiplesOrdered ==
  ASSUME NEW d \in Nat \ {0}, NEW x \in Nat, NEW y \in Nat, x * d < y * d + d
  PROVE  x <= y
<1>1. CASE y + 1 <= x
  <2>1. PICK z \in Nat : x = y + 1 + z
    <3>1. x - (y + 1) \in Nat /\ x = y + 1 + (x - (y + 1))
      BY <1>1
    <3>2. QED
      BY <3>1
  <2>2. x * d = y * d + d + z * d /\ z * d >= 0
    BY <2>1
  <2>3. QED
    BY <2>2
<1>2. QED
  BY <1>1

(***************************************************************************)
(* A start whose period has elapsed moves by a period at least.            *)
(***************************************************************************)
LEMMA AdvancedStartMoves ==
  ASSUME NEW start \in Nat, NEW p \in Nat \ {0}, NEW time \in Nat, start + p <= time
  PROVE  start + p <= AdvancedStart(start, p, time)
<1> DEFINE k == (time - start) \div p
<1>1. k \in Nat /\ time - start < k * p + p
  OBVIOUS
<1>2. AdvancedStart(start, p, time) = start + k * p
  BY DEF AdvancedStart
<1> HIDE DEF k
<1>3. k # 0
  BY <1>1
<1>4. PICK m \in Nat : k = m + 1
  <2>1. k - 1 \in Nat /\ k = (k - 1) + 1
    BY <1>1, <1>3
  <2>2. QED
    BY <2>1
<1>5. k * p = m * p + p /\ m * p >= 0
  BY <1>4
<1>6. QED
  BY <1>2, <1>5

(***************************************************************************)
(* When the day at t is day i of the n days that begin at s, then the day  *)
(* that contains a later time is one of the n days around that time; and   *)
(* the n days are over only when the day is.                               *)
(***************************************************************************)
LEMMA GridAdvances ==
  ASSUME NEW d \in Nat \ {0}, NEW n \in Nat \ {0}, NEW s \in Nat, NEW i \in Nat, i < n,
         NEW t \in Nat, t = s + i * d, NEW time \in Nat, t <= time
  PROVE  /\ \E j \in Nat : j < n /\ AdvancedStart(t, d, time)
                                      = AdvancedStart(s, n * d, time) + j * d
         /\ time >= s + n * d => time >= t + d
<1> DEFINE t2 == AdvancedStart(t, d, time)
           s2 == AdvancedStart(s, n * d, time)
<1>1. n * d \in Nat \ {0} /\ i * d \in Nat /\ s <= t
  <2>1. n * d \in Nat \ {0} /\ i * d \in Nat
    OBVIOUS
  <2>2. QED
    BY <2>1
<1> DEFINE Contains(start, p, u) ==
             /\ u <= time /\ time < u + p
             /\ \E k \in Nat : u = start + k * p
<1>2. \A start \in Nat, p \in Nat \ {0} :
        start <= time => Contains(start, p, AdvancedStart(start, p, time))
  <2> SUFFICES ASSUME NEW start \in Nat, NEW p \in Nat \ {0}, start <= time
               PROVE  Contains(start, p, AdvancedStart(start, p, time))
    OBVIOUS
  <2>1. AdvancedStart(start, p, time) <= time
    BY AdvancedStartContains
  <2>2. time < AdvancedStart(start, p, time) + p
    BY AdvancedStartContains
  <2>3. \E k \in Nat : AdvancedStart(start, p, time) = start + k * p
    BY AdvancedStartContains
  <2>4. QED
    BY <2>1, <2>2, <2>3
<1>3. Contains(t, d, t2) /\ Contains(s, n * d, s2)
  <2> HIDE DEF Contains
  <2>1. Contains(t, d, t2)
    BY <1>2
  <2>2. s <= time
    BY <1>1
  <2>3. Contains(s, n * d, s2)
    BY <1>1, <1>2, <2>2
  <2>4. QED
    BY <2>1, <2>3
<1>4. t2 <= time /\ time < t2 + d /\ s2 <= time /\ time < s2 + n * d
  BY <1>3
<1> HIDE DEF t2, s2
<1>K. PICK k \in Nat : t2 = t + k * d
  BY <1>3
<1>M. PICK m \in Nat : s2 = s + m * (n * d)
  BY <1>3
<1> DEFINE x == i + k
           y == m * n
<1>5. x \in Nat /\ y \in Nat
  OBVIOUS
<1>6. t2 = s + x * d
  BY <1>K
<1>7. s2 = s + y * d
  BY <1>M
<1> HIDE DEF x, y
<1>8. x * d \in Nat /\ y * d \in Nat
  BY <1>5
<1>9. y <= x
  <2>1. y * d < x * d + d
    BY <1>4, <1>6, <1>7, <1>8
  <2>2. QED
    BY <1>5, <2>1, MultiplesOrdered
<1>10. x < y + n
  <2>1. PICK n1 \in Nat : n = n1 + 1
    <3>1. n - 1 \in Nat /\ n = (n - 1) + 1
      OBVIOUS
    <3>2. QED
      BY <3>1
  <2>2. x * d < (y + n1) * d + d
    <3>1. y * d + n * d = (y + n1) * d + d
      BY <1>5, <2>1
    <3>2. x * d < y * d + n * d
      BY <1>1, <1>4, <1>6, <1>7, <1>8
    <3>3. QED
      BY <3>1, <3>2
  <2>3. x <= y + n1
    BY <1>5, <2>2, MultiplesOrdered
  <2>4. QED
    BY <1>5, <2>1, <2>3
<1>11. x - y \in Nat /\ x - y < n /\ t2 = s2 + (x - y) * d
  BY <1>5, <1>6, <1>7, <1>9, <1>10
<1>12. time >= s + n * d => time >= t + d
  <2>1. i * d + d <= n * d
    <3>1. PICK z \in Nat : n = i + 1 + z
      <4>1. n - (i + 1) \in Nat /\ n = i + 1 + (n - (i + 1))
        OBVIOUS
      <4>2. QED
        BY <4>1
    <3>2. n * d = i * d + d + z * d /\ z * d >= 0
      BY <3>1
    <3>3. QED
      BY <1>1, <3>2
  <2>2. QED
    BY <1>1, <2>1
<1>13. QED
  BY <1>11, <1>12 DEF t2, s2

-----------------------------------------------------------------------------
(* The accounting of a settlement *)

(***************************************************************************)
(* Resetting the windows keeps them nested.                                *)
(***************************************************************************)
LEMMA ResetNested ==
  ASSUME NEW wallet \in AgentWallet, NEW time \in Nat, Nested(wallet, time)
  PROVE  Nested(ResetWindowsIfElapsed(wallet, time), time)
<1> DEFINE reset == ResetWindowsIfElapsed(wallet, time)
           start == wallet.window_start
<1>1. /\ "daily" \in Windows
      /\ \A w \in Windows : start[w] \in Nat /\ wallet.spend[w] \in Nat /\ start[w] <= time
      /\ \A w \in Windows : DaysIn(w) \in Nat \ {0} /\ Period(w) \in Nat \ {0}
      /\ SecondsPerDay \in Nat \ {0}
      /\ Period("daily") = SecondsPerDay
  BY WidthAssumption, PeriodAssumption, PeriodPositive
     DEF Nested, AgentWallet, U64, Windows, Period, DaysIn
<1>2. \A w \in Windows :
        /\ reset.spend[w] = IF WindowElapsed(wallet, w, time) THEN 0 ELSE wallet.spend[w]
        /\ reset.window_start[w] = IF WindowElapsed(wallet, w, time)
                                   THEN AdvancedStart(start[w], Period(w), time) ELSE start[w]
  BY DEF ResetWindowsIfElapsed, AgentWallet
<1>3. ASSUME NEW w \in Windows
      PROVE  /\ reset.window_start[w] = AdvancedStart(start[w], Period(w), time)
             /\ reset.window_start[w] <= time
  <2>1. start[w] \in Nat /\ Period(w) \in Nat \ {0} /\ start[w] <= time
    BY <1>1
  <2>2. AdvancedStart(start[w], Period(w), time) <= time
    BY <2>1, AdvancedStartContains
  <2>3. time < start[w] + Period(w) => AdvancedStart(start[w], Period(w), time) = start[w]
    BY <2>1, AdvancedStartContains
  <2>4. WindowElapsed(wallet, w, time) <=> ~(time < start[w] + Period(w))
    BY <2>1 DEF WindowElapsed
  <2>5. QED
    BY <1>2, <2>2, <2>3, <2>4
<1>4. ASSUME NEW w \in Windows
      PROVE  /\ Aligned(reset, w)
             /\ WindowElapsed(wallet, w, time) => WindowElapsed(wallet, "daily", time)
  <2>1. PICK i \in Nat : i < DaysIn(w) /\ start["daily"] = start[w] + i * SecondsPerDay
    BY DEF Nested, Aligned
  <2>2. /\ \E j \in Nat : j < DaysIn(w) /\
             AdvancedStart(start["daily"], SecondsPerDay, time)
               = AdvancedStart(start[w], DaysIn(w) * SecondsPerDay, time) + j * SecondsPerDay
        /\ time >= start[w] + DaysIn(w) * SecondsPerDay => time >= start["daily"] + SecondsPerDay
    <3>1. /\ DaysIn(w) \in Nat \ {0} /\ SecondsPerDay \in Nat \ {0}
          /\ start[w] \in Nat /\ start["daily"] \in Nat /\ start["daily"] <= time
      BY <1>1
    <3> HIDE DEF start
    <3>2. QED
      BY <2>1, <3>1, GridAdvances
  <2>3. /\ reset.window_start["daily"] = AdvancedStart(start["daily"], SecondsPerDay, time)
        /\ reset.window_start[w] = AdvancedStart(start[w], DaysIn(w) * SecondsPerDay, time)
    BY <1>1, <1>3 DEF Period
  <2>4. Aligned(reset, w)
    BY <2>2, <2>3 DEF Aligned
  <2>5. WindowElapsed(wallet, w, time) => WindowElapsed(wallet, "daily", time)
    BY <1>1, <2>2 DEF WindowElapsed, Period
  <2>6. QED
    BY <2>4, <2>5
<1>5. ASSUME NEW w \in Windows
      PROVE  reset.spend["daily"] <= reset.spend[w]
  <2>1. wallet.spend["daily"] <= wallet.spend[w]
    BY DEF Nested
  <2>2. QED
    BY <1>1, <1>2, <1>4, <2>1
<1> HIDE DEF reset
<1>6. QED
  BY <1>3, <1>4, <1>5 DEF Nested, reset

(***************************************************************************)
(* A payment adds the same amount to every window.                         *)
(***************************************************************************)
LEMMA RecordSpendNested ==
  ASSUME NEW wallet \in AgentWallet, NEW amount \in U64, NEW time \in Nat, Nested(wallet, time)
  PROVE  Nested(RecordSpend(wallet, amount, time), time)
<1> DEFINE spent == RecordSpend(wallet, amount, time)
<1>1. /\ spent.window_start = wallet.window_start
      /\ \A w \in Windows : spent.spend[w] = SaturatingAdd(wallet.spend[w], amount, MaxU64)
  BY DEF RecordSpend, CountEntry, AgentWallet
<1>2. \A w \in Windows : wallet.spend[w] \in 0..MaxU64
  BY DEF AgentWallet, U64
<1>3. "daily" \in Windows /\ amount \in 0..MaxU64 /\ MaxU64 \in Nat
  BY WidthAssumption DEF Windows, U64
<1> HIDE DEF spent
<1>4. ASSUME NEW w \in Windows
      PROVE  spent.spend["daily"] <= spent.spend[w]
  <2>1. wallet.spend["daily"] <= wallet.spend[w]
    BY DEF Nested
  <2>2. QED
    BY <1>1, <1>2, <1>3, <2>1 DEF SaturatingAdd
<1>5. QED
  BY <1>1, <1>4 DEF Nested, Aligned, spent

-----------------------------------------------------------------------------
(* What a step does to a wallet's accumulators and to its settlements *)

KeepsBooks(a) ==
  /\ a \in DOMAIN agent_wallet
  /\ agent_wallet'[a].spend = agent_wallet[a].spend
  /\ agent_wallet'[a].window_start = agent_wallet[a].window_start
  /\ agent_wallet'[a].total_volume = agent_wallet[a].total_volume
  /\ agent_wallet'[a].last_payment_at = agent_wallet[a].last_payment_at
  /\ PassedOf(a)' = PassedOf(a)

StartsBooks(a) ==
  /\ StartsCounters(a)
  /\ \A w \in Windows : agent_wallet'[a].spend[w] = 0 /\ agent_wallet'[a].window_start[w] = now
  /\ agent_wallet'[a].total_volume = 0
  /\ agent_wallet'[a].last_payment_at = 0
  /\ UNCHANGED payment_record

\* The wallet's current windows have room in their budgets, if the policy checks the amount.
HasRoom(a, amount) ==
  EnforcedOnChain(spend_policy[a], amount) =>
    \A w \in Windows :
      WithinBudget(spend_policy[a], w, ResetWindowsIfElapsed(agent_wallet[a], now).spend[w], amount)

Settles(a) ==
  /\ a \in DOMAIN agent_wallet
  /\ a \in DOMAIN spend_policy
  /\ \E r \in DOMAIN payment_record' \ DOMAIN payment_record :
       /\ PassedOf(a)' = PassedOf(a) \cup {r}
       /\ payment_record'[r].amount_usdc > 0
       /\ HasRoom(a, payment_record'[r].amount_usdc)
       /\ agent_wallet'[a] = RecordSpend(ResetWindowsIfElapsed(agent_wallet[a], now),
                                         payment_record'[r].amount_usdc, now)

BooksStep ==
  /\ LedgerGrows
  /\ now <= now'
  /\ \A a \in DOMAIN agent_wallet' :
       KeepsBooks(a) \/ (now' = now /\ (StartsBooks(a) \/ Settles(a)))

(***************************************************************************)
(* A step that writes no record keeps the books of the wallets it does not *)
(* write.                                                                  *)
(***************************************************************************)
LEMMA UnwrittenBooksKept ==
  ASSUME UNCHANGED payment_record
  PROVE  /\ LedgerGrows
         /\ \A a \in DOMAIN agent_wallet : agent_wallet'[a] = agent_wallet[a] => KeepsBooks(a)
BY DEF LedgerGrows, IsRestriction, KeepsBooks, PassedOf, RecordsOf

LEMMA FlagsKeepBooks ==
  ASSUME TypeOK, NEW a \in DOMAIN agent_wallet, NEW x, UNCHANGED <<payment_record, now>>,
         \/ agent_wallet' = [agent_wallet EXCEPT ![a].is_active = x]
         \/ agent_wallet' = [agent_wallet EXCEPT ![a].is_frozen = x]
         \/ agent_wallet' = [agent_wallet EXCEPT ![a].owner = x]
  PROVE  BooksStep
<1>1. agent_wallet[a] \in AgentWallet /\ now \in Nat
  BY DEF TypeOK
<1>2. DOMAIN agent_wallet' = DOMAIN agent_wallet
  OBVIOUS
<1>3. KeepsBooks(a)
  BY <1>1 DEF AgentWallet, KeepsBooks, PassedOf, RecordsOf
<1>4. \A b \in DOMAIN agent_wallet : b # a => agent_wallet'[b] = agent_wallet[b]
  OBVIOUS
<1>5. QED
  BY <1>1, <1>2, <1>3, <1>4, UnwrittenBooksKept DEF BooksStep

LEMMA SettlePaymentBooks ==
  ASSUME TypeOK, NEW owner \in Keys, NEW a \in AgentIds, NEW mint \in Mints,
         NEW payee \in Holders, NEW sequence \in U64, NEW params \in PaymentParams,
         SettlePayment(owner, a, mint, payee, sequence, params)
  PROVE  BooksStep
<1> DEFINE reset  == ResetWindowsIfElapsed(agent_wallet[a], now)
           wallet == RecordSpend(reset, params.amount_usdc, now)
           record == [payee |-> payee, amount_usdc |-> params.amount_usdc,
                      protocol |-> ProtocolOf(params.protocol),
                      settled_at |-> now, policy_passed |-> TRUE,
                      parent_payment |-> params.parent_payment]
           new    == <<a, sequence>>
<1>1. /\ a \in DOMAIN agent_wallet
      /\ new \notin DOMAIN payment_record
      /\ agent_wallet' = [agent_wallet EXCEPT ![a] = wallet]
      /\ payment_record' = Stored(payment_record, new, record)
      /\ now' = now
      /\ a \in DOMAIN spend_policy
      /\ params.amount_usdc > 0
      /\ HasRoom(a, params.amount_usdc)
  BY DEF SettlePayment, AdmitsPayment, SignedByOwner, RecordFree, PolicyAdmits, HasRoom
<1>2. /\ LedgerGrows
      /\ \A b : b # a => PassedOf(b)' = PassedOf(b)
      /\ PassedOf(a)' = PassedOf(a) \cup {new}
      /\ payment_record'[new].amount_usdc = params.amount_usdc
  <2>1. record.settled_at = now /\ record.policy_passed /\ record.amount_usdc = params.amount_usdc
    OBVIOUS
  <2> HIDE DEF record
  <2>2. QED
    BY <1>1, <2>1, EntryStored
<1>3. new \in DOMAIN payment_record' \ DOMAIN payment_record
  BY <1>1 DEF Stored
<1>4. \A b \in DOMAIN agent_wallet' : b # a => KeepsBooks(b)
  BY <1>1, <1>2 DEF KeepsBooks
<1>5. Settles(a)
  BY <1>1, <1>2, <1>3 DEF Settles
<1>6. QED
  BY <1>1, <1>2, <1>4, <1>5 DEF BooksStep, TypeOK

LEMMA RecordPolicyViolationBooks ==
  ASSUME TypeOK, NEW owner \in Keys, NEW a \in AgentIds, NEW sequence \in U64,
         NEW params \in PaymentParams, RecordPolicyViolation(owner, a, sequence, params)
  PROVE  BooksStep
<1> DEFINE wallet == CountEntry(agent_wallet[a])
           record == [payee |-> DefaultKey, amount_usdc |-> params.amount_usdc,
                      protocol |-> ProtocolOf(params.protocol), settled_at |-> now,
                      policy_passed |-> FALSE, parent_payment |-> {}]
<1>1. /\ a \in DOMAIN agent_wallet
      /\ <<a, sequence>> \notin DOMAIN payment_record
      /\ agent_wallet' = [agent_wallet EXCEPT ![a] = wallet]
      /\ payment_record' = Stored(payment_record, <<a, sequence>>, record)
      /\ now' = now
  BY DEF RecordPolicyViolation, SignedByOwner, RecordFree
<1>2. record.settled_at = now /\ ~record.policy_passed
  OBVIOUS
<1>3. /\ wallet.spend = agent_wallet[a].spend
      /\ wallet.window_start = agent_wallet[a].window_start
      /\ wallet.total_volume = agent_wallet[a].total_volume
      /\ wallet.last_payment_at = agent_wallet[a].last_payment_at
  BY <1>1 DEF CountEntry, TypeOK, AgentWallet
<1> HIDE DEF record, wallet
<1>4. LedgerGrows /\ \A b : PassedOf(b)' = PassedOf(b)
  BY <1>1, <1>2, EntryStored
<1>5. \A b \in DOMAIN agent_wallet' : KeepsBooks(b)
  BY <1>1, <1>3, <1>4 DEF KeepsBooks
<1>6. QED
  BY <1>1, <1>4, <1>5 DEF BooksStep, TypeOK

LEMMA StepOnBooks ==
  ASSUME TypeOK, [Next]_vars
  PROVE  BooksStep
<1>1. now \in Nat
  BY DEF TypeOK
<1>2. ASSUME UNCHANGED <<agent_wallet, payment_record>>, now <= now'
      PROVE  BooksStep
  BY <1>2, UnwrittenBooksKept DEF BooksStep
<1>3. now <= now
  BY <1>1
<1>4. ASSUME NEW owner \in Keys, NEW a \in AgentIds, NEW mint \in Mints,
             RegisterAgent(owner, a, mint)
      PROVE  BooksStep
  <2>1. UNCHANGED <<payment_record, now>>
    BY <1>4 DEF RegisterAgent
  <2>2. StartsBooks(a)
    BY <1>4 DEF RegisterAgent, AddressesFree, Stored, StartsBooks, StartsCounters, Sequence, Total
  <2>3. \A b \in DOMAIN agent_wallet' :
          b # a => b \in DOMAIN agent_wallet /\ agent_wallet'[b] = agent_wallet[b]
    BY <1>4 DEF RegisterAgent, Stored
  <2>4. QED
    BY <1>3, <2>1, <2>2, <2>3, UnwrittenBooksKept DEF BooksStep
<1>5. ASSUME NEW owner \in Keys, NEW a \in AgentIds, NEW mint \in Mints,
             CloseAgent(owner, a, mint)
      PROVE  BooksStep
  <2>1. UNCHANGED <<payment_record, now>>
    BY <1>5 DEF CloseAgent
  <2>2. \A b \in DOMAIN agent_wallet' :
          b \in DOMAIN agent_wallet /\ agent_wallet'[b] = agent_wallet[b]
    BY <1>5 DEF CloseAgent, Closed, Restrict
  <2>3. QED
    BY <1>3, <2>1, <2>2, UnwrittenBooksKept DEF BooksStep
<1>6. ASSUME NEW owner \in Keys, NEW a \in AgentIds,
             \/ DeactivateAgent(owner, a) \/ ReactivateAgent(owner, a)
             \/ \E new_owner \in Pubkeys : TransferOwnership(owner, a, new_owner)
             \/ \E params \in PolicyParams : SetSpendPolicy(owner, a, params)
      PROVE  BooksStep
  <2>1. CASE \E params \in PolicyParams : SetSpendPolicy(owner, a, params)
    BY <1>2, <1>3, <2>1 DEF SetSpendPolicy
  <2>2. CASE DeactivateAgent(owner, a) \/ ReactivateAgent(owner, a)
    BY <2>2, FlagsKeepBooks DEF DeactivateAgent, ReactivateAgent, SetActive, SignedByOwner
  <2>3. CASE \E new_owner \in Pubkeys : TransferOwnership(owner, a, new_owner)
    BY <2>3, FlagsKeepBooks DEF TransferOwnership, SignedByOwner
  <2>4. QED
    BY <1>6, <2>1, <2>2, <2>3
<1>7. ASSUME Manage
      PROVE  BooksStep
  BY <1>4, <1>5, <1>6, <1>7 DEF Manage
<1>8. ASSUME Pay
      PROVE  BooksStep
  <2>1. ASSUME NEW owner \in Keys, NEW a \in AgentIds, NEW mint \in Mints, NEW amount,
               WithdrawFunds(owner, a, mint, amount)
        PROVE  BooksStep
    BY <1>2, <1>3, <2>1 DEF WithdrawFunds
  <2>2. QED
    BY <1>8, <2>1, SettlePaymentBooks, RecordPolicyViolationBooks DEF Pay, WithdrawAll
<1>9. ASSUME Environment
      PROVE  BooksStep
  <2>1. UNCHANGED <<agent_wallet, payment_record>> /\ (now' = now \/ now' = now + 1)
    BY <1>9 DEF Environment, CreateTokenAccount, Fund, Tick
  <2>2. now <= now'
    BY <1>1, <2>1
  <2>3. QED
    BY <1>2, <2>1, <2>2
<1>10. ASSUME Administer
       PROVE  BooksStep
  <2>1. CASE \E admin \in Keys, a \in AgentIds : FreezeAgent(admin, a) \/ UnfreezeAgent(admin, a)
    BY <2>1, FlagsKeepBooks DEF FreezeAgent, UnfreezeAgent, SetFrozen
  <2>2. CASE ~\E admin \in Keys, a \in AgentIds : FreezeAgent(admin, a) \/ UnfreezeAgent(admin, a)
    BY <1>2, <1>3, <1>10, <2>2 DEF Administer, InitProtocol, RotateProtocolAdmin,
                                  UpdateProtocolConfig
  <2>3. QED
    BY <2>1, <2>2
<1>11. ASSUME UNCHANGED vars
       PROVE  BooksStep
  BY <1>2, <1>3, <1>11 DEF vars
<1>12. QED
  BY <1>7, <1>8, <1>9, <1>10, <1>11 DEF Next

-----------------------------------------------------------------------------
(* Days nest in weeks and months *)

(***************************************************************************)
(* Every step keeps the windows nested.                                    *)
(***************************************************************************)
LEMMA WindowInvPreserved ==
  ASSUME TypeOK, TypeOK', WindowInv, BooksStep
  PROVE  WindowInv'
<1> SUFFICES ASSUME NEW a \in DOMAIN agent_wallet'
             PROVE  Nested(agent_wallet'[a], now')
  BY DEF WindowInv
<1>1. now \in Nat /\ now' \in Nat /\ now <= now'
  BY DEF TypeOK, BooksStep
<1>2. CASE KeepsBooks(a)
  <2>1. /\ agent_wallet[a] \in AgentWallet
        /\ Nested(agent_wallet[a], now)
    BY <1>2 DEF KeepsBooks, TypeOK, WindowInv
  <2>2. \A w \in Windows : agent_wallet[a].window_start[w] \in Nat
    BY <2>1 DEF AgentWallet
  <2>3. QED
    BY <1>1, <1>2, <2>1, <2>2 DEF KeepsBooks, Nested, Aligned
<1>3. CASE now' = now /\ StartsBooks(a)
  <2>1. \A w \in Windows : DaysIn(w) \in Nat \ {0}
    BY PeriodPositive
  <2>2. "daily" \in Windows /\ SecondsPerDay \in Nat
    BY PeriodAssumption DEF Windows
  <2>3. ASSUME NEW w \in Windows
        PROVE  Aligned(agent_wallet'[a], w)
    <3>1. 0 < DaysIn(w) /\ 0 \in Nat /\ now + 0 * SecondsPerDay = now
      BY <1>1, <2>1, <2>2
    <3>2. agent_wallet'[a].window_start["daily"] = now /\ agent_wallet'[a].window_start[w] = now
      BY <1>3, <2>2 DEF StartsBooks
    <3>3. QED
      BY <3>1, <3>2 DEF Aligned
  <2>4. QED
    BY <1>1, <1>3, <2>2, <2>3 DEF StartsBooks, Nested
<1>4. CASE now' = now /\ Settles(a)
  <2>1. /\ agent_wallet[a] \in AgentWallet
        /\ Nested(agent_wallet[a], now)
    BY <1>4 DEF Settles, TypeOK, WindowInv
  <2> DEFINE reset == ResetWindowsIfElapsed(agent_wallet[a], now)
  <2>2. reset \in AgentWallet /\ Nested(reset, now)
    BY <1>1, <2>1, ResetWallet, ResetNested
  <2>3. PICK amount \in U64 : agent_wallet'[a] = RecordSpend(reset, amount, now)
    <3>1. PICK r \in DOMAIN payment_record' :
            agent_wallet'[a] = RecordSpend(reset, payment_record'[r].amount_usdc, now)
      BY <1>4 DEF Settles
    <3>2. payment_record'[r].amount_usdc \in U64
      BY InputsAssumption DEF TypeOK, PaymentRecord
    <3>3. QED
      BY <3>1, <3>2
  <2> HIDE DEF reset
  <2>4. QED
    BY <1>1, <1>4, <2>2, <2>3, RecordSpendNested
<1>5. QED
  BY <1>2, <1>3, <1>4 DEF BooksStep

(***************************************************************************)
(* settle_payment's three independent window resets never leave a day with *)
(* more spend than the week or the month it lies in, however late they     *)
(* run.                                                                    *)
(***************************************************************************)
THEOREM DaysNestInWindows == Spec => []NestedWindows
<1>1. Init => WindowInv
  BY DEF Init, NoAccounts, WindowInv
<1>2. TypeOK /\ TypeOK' /\ WindowInv /\ [Next]_vars => WindowInv'
  BY StepOnBooks, WindowInvPreserved
<1>3. WindowInv => NestedWindows
  BY DEF WindowInv, Nested, NestedWindows, Windows
<1>4. QED
  BY <1>1, <1>2, <1>3, TypeCorrect, PTL DEF Spec

-----------------------------------------------------------------------------
(* Totals of sets of records *)

\* Volume, of the records in a table
VolumeIn(table, S) ==
  SaturatingAdd(0, MapThenSumSet(LAMBDA r : table[r].amount_usdc, S), MaxU64)

Amounting(table, S) == IsFiniteSet(S) /\ \A r \in S : table[r].amount_usdc \in Nat

AmountsIn(table, S) == [r \in S |-> table[r].amount_usdc]

LEMMA VolumeBySum ==
  ASSUME NEW table, NEW S, Amounting(table, S), NEW T \in SUBSET S
  PROVE  /\ VolumeIn(table, T) = SaturatingAdd(0, SumFunctionOnSet(AmountsIn(table, S), T), MaxU64)
         /\ SumFunctionOnSet(AmountsIn(table, S), T) \in Nat
         /\ \A r \in S : AmountsIn(table, S)[r] = table[r].amount_usdc /\ AmountsIn(table, S)[r] \in Nat
<1> DEFINE f == AmountsIn(table, S)
<1>1. \A r \in S : f[r] = table[r].amount_usdc /\ f[r] \in Nat
  BY DEF AmountsIn, Amounting
<1>2. IsFiniteSet(T)
  BY FS_Subset DEF Amounting
<1> HIDE DEF f
<1>3. MapThenSumSet(LAMBDA r : table[r].amount_usdc, T) = SumFunctionOnSet(f, T)
  BY <1>1, <1>2, AmountsAreSum
<1>4. SumFunctionOnSet(f, T) \in Nat
  BY <1>1, <1>2, SumByElement
<1>5. QED
  BY <1>1, <1>3, <1>4 DEF VolumeIn, f

LEMMA VolumeOfNone ==
  ASSUME NEW table
  PROVE  VolumeIn(table, {}) = 0
<1>1. Amounting(table, {})
  BY FS_EmptySet DEF Amounting
<1>2. VolumeIn(table, {}) = SaturatingAdd(0, 0, MaxU64)
  BY <1>1, VolumeBySum, SumOfNone
<1>3. QED
  BY <1>2, WidthAssumption DEF SaturatingAdd

(***************************************************************************)
(* What happens to other records does not change a total.                  *)
(***************************************************************************)
LEMMA VolumeKept ==
  ASSUME NEW table, NEW later, NEW S, Amounting(table, S), \A r \in S : later[r] = table[r]
  PROVE  Amounting(later, S) /\ VolumeIn(later, S) = VolumeIn(table, S)
<1>1. Amounting(later, S)
  BY DEF Amounting
<1>2. AmountsIn(later, S) = AmountsIn(table, S)
  BY DEF AmountsIn
<1>3. QED
  BY <1>1, <1>2, VolumeBySum

(***************************************************************************)
(* A saturating accumulator that takes in the entries one by one holds     *)
(* their saturated total.                                                  *)
(***************************************************************************)
LEMMA VolumeWithEntry ==
  ASSUME NEW table, NEW S, NEW r, r \notin S, Amounting(table, S \cup {r}), IsFiniteSet(S)
  PROVE  VolumeIn(table, S \cup {r}) = SaturatingAdd(VolumeIn(table, S), table[r].amount_usdc, MaxU64)
<1> DEFINE f == AmountsIn(table, S \cup {r})
           amount == table[r].amount_usdc
           before == SumFunctionOnSet(f, S)
<1>1. /\ VolumeIn(table, S) = SaturatingAdd(0, before, MaxU64)
      /\ before \in Nat
      /\ VolumeIn(table, S \cup {r}) = SaturatingAdd(0, SumFunctionOnSet(f, S \cup {r}), MaxU64)
      /\ \A x \in S \cup {r} : f[x] = table[x].amount_usdc /\ f[x] \in Nat
  <2>1. S \in SUBSET (S \cup {r}) /\ (S \cup {r}) \in SUBSET (S \cup {r})
    OBVIOUS
  <2>2. QED
    BY <2>1, VolumeBySum
<1>2. f[r] = amount /\ amount \in Nat
  BY <1>1
<1> HIDE DEF f
<1>3. SumFunctionOnSet(f, S \cup {r}) = amount + before
  BY <1>1, <1>2, SumWithElement
<1> HIDE DEF amount, before
<1>4. SaturatingAdd(0, amount + before, MaxU64)
        = SaturatingAdd(SaturatingAdd(0, before, MaxU64), amount, MaxU64)
  BY <1>1, <1>2, WidthAssumption DEF SaturatingAdd
<1>5. QED
  BY <1>1, <1>3, <1>4 DEF amount

(***************************************************************************)
(* Saturation loses, so the parts of a set add up to no less than it.      *)
(***************************************************************************)
LEMMA VolumeOfParts ==
  ASSUME NEW table, NEW S, Amounting(table, S), NEW T \in SUBSET S
  PROVE  /\ VolumeIn(table, T) \in U64
         /\ VolumeIn(table, T) <= VolumeIn(table, S)
         /\ VolumeIn(table, S) <= VolumeIn(table, T) + VolumeIn(table, S \ T)
<1> DEFINE f == AmountsIn(table, S)
           part  == SumFunctionOnSet(f, T)
           other == SumFunctionOnSet(f, S \ T)
           whole == SumFunctionOnSet(f, S)
<1>1. /\ VolumeIn(table, T) = SaturatingAdd(0, part, MaxU64) /\ part \in Nat
      /\ \A r \in S : f[r] \in Nat
  BY VolumeBySum
<1>2. VolumeIn(table, S \ T) = SaturatingAdd(0, other, MaxU64) /\ other \in Nat
  <2>1. S \ T \in SUBSET S
    OBVIOUS
  <2>2. QED
    BY <2>1, VolumeBySum
<1>3. VolumeIn(table, S) = SaturatingAdd(0, whole, MaxU64) /\ whole \in Nat
  <2>1. S \in SUBSET S
    OBVIOUS
  <2>2. QED
    BY <2>1, VolumeBySum
<1>4. whole = part + other
  <2>1. /\ IsFiniteSet(T) /\ IsFiniteSet(S \ T)
        /\ T \cap (S \ T) = {} /\ T \cup (S \ T) = S
    BY FS_Subset DEF Amounting
  <2> HIDE DEF f
  <2>2. SumFunctionOnSet(f, T \cup (S \ T)) = part + other
    BY <1>1, <2>1, SumOfUnion
  <2>3. QED
    BY <2>1, <2>2
<1> HIDE DEF part, other, whole
<1>5. QED
  BY <1>1, <1>2, <1>3, <1>4, WidthAssumption DEF SaturatingAdd, U64

-----------------------------------------------------------------------------
(* A wallet's accumulators are those of its ledger *)

(***************************************************************************)
(* What strengthens VolumeMatchesLedger and SpendMatchesLedger: no         *)
(* settlement of the wallet is dated after the end of one of its windows,  *)
(* so a window that starts anew starts with none.                          *)
(***************************************************************************)
Booked(a) ==
  a \in DOMAIN agent_wallet =>
    /\ agent_wallet[a].total_volume = Volume(PassedOf(a))
    /\ agent_wallet[a].last_payment_at \in {0} \cup {payment_record[r].settled_at : r \in PassedOf(a)}
    /\ \A r \in PassedOf(a) : payment_record[r].settled_at <= agent_wallet[a].last_payment_at
    /\ \A w \in Windows :
         /\ agent_wallet[a].spend[w] = LedgerSpend(a, w)
         /\ agent_wallet[a].window_start[w] <= now
         /\ \A r \in PassedOf(a) :
              payment_record[r].settled_at < agent_wallet[a].window_start[w] + Period(w)

BooksInv == LedgerDated /\ \A a \in AgentIds : Accounted(a) /\ Booked(a)

LEMMA VolumeIsVolumeIn ==
  ASSUME NEW S
  PROVE  Volume(S) = VolumeIn(payment_record, S)
BY DEF Volume, VolumeIn

LEMMA PassedRecords ==
  ASSUME TypeOK, LedgerDated, NEW a
  PROVE  /\ PassedOf(a) \subseteq DOMAIN payment_record
         /\ Amounting(payment_record, PassedOf(a))
         /\ \A r \in PassedOf(a) :
              /\ payment_record[r].settled_at \in Nat /\ payment_record[r].settled_at <= now
              /\ payment_record[r].amount_usdc \in U64
<1>1. PassedOf(a) \subseteq DOMAIN payment_record
  BY DEF PassedOf, RecordsOf
<1>2. \A r \in DOMAIN payment_record :
        /\ payment_record[r].settled_at \in Nat /\ payment_record[r].amount_usdc \in U64
        /\ payment_record[r].amount_usdc \in Nat
  BY InputsAssumption, WidthAssumption DEF TypeOK, PaymentRecord, U64
<1>3. QED
  BY <1>1, <1>2, FS_Subset DEF LedgerDated, Amounting

(***************************************************************************)
(* One window of a settlement: the accumulator of the window that contains *)
(* now holds the settlements since its start.                              *)
(***************************************************************************)
Restarted(reset, wallet, time, w, table, S) ==
  /\ reset.window_start[w] \in Nat
  /\ reset.window_start[w] <= time
  /\ time < reset.window_start[w] + Period(w)
  /\ wallet.window_start[w] <= reset.window_start[w]
  /\ reset.spend[w] = VolumeIn(table, {r \in S : table[r].settled_at >= reset.window_start[w]})

LEMMA WindowAfterReset ==
  ASSUME NEW wallet \in AgentWallet, NEW time \in Nat, NEW w \in Windows,
         wallet.window_start[w] <= time,
         NEW table, NEW S, Amounting(table, S),
         \A r \in S : table[r].settled_at \in Nat /\ table[r].settled_at < wallet.window_start[w] + Period(w),
         wallet.spend[w] = VolumeIn(table, {r \in S : table[r].settled_at >= wallet.window_start[w]})
  PROVE  Restarted(ResetWindowsIfElapsed(wallet, time), wallet, time, w, table, S)
<1> DEFINE start == wallet.window_start[w]
           reset == ResetWindowsIfElapsed(wallet, time)
<1>1. start \in Nat /\ start <= time /\ Period(w) \in Nat \ {0}
  BY PeriodPositive DEF AgentWallet
<1>2. /\ reset.spend[w] = IF WindowElapsed(wallet, w, time) THEN 0 ELSE wallet.spend[w]
      /\ reset.window_start[w] = IF WindowElapsed(wallet, w, time)
                                 THEN AdvancedStart(start, Period(w), time) ELSE start
  BY DEF ResetWindowsIfElapsed, AgentWallet
<1>3. CASE ~WindowElapsed(wallet, w, time)
  BY <1>1, <1>2, <1>3 DEF WindowElapsed, Restarted
<1>4. CASE WindowElapsed(wallet, w, time)
  <2> DEFINE begin == AdvancedStart(start, Period(w), time)
  <2>1. begin \in Nat /\ begin <= time /\ time < begin + Period(w)
    <3> HIDE DEF start
    <3>1. QED
      BY <1>1, AdvancedStartContains
  <2>2. start + Period(w) <= time
    BY <1>1, <1>4 DEF WindowElapsed
  <2>3. start + Period(w) <= begin
    <3> HIDE DEF start
    <3>1. QED
      BY <1>1, <2>2, AdvancedStartMoves
  <2> HIDE DEF begin
  <2>4. {r \in S : table[r].settled_at >= begin} = {}
    <3>1. \A r \in S : table[r].settled_at \in Nat /\ table[r].settled_at < start + Period(w)
      OBVIOUS
    <3> HIDE DEF start
    <3>2. QED
      BY <1>1, <2>1, <2>3, <3>1
  <2>5. reset.window_start[w] = begin /\ reset.spend[w] = 0
    BY <1>2, <1>4 DEF begin
  <2> HIDE DEF reset, start
  <2>6. start <= begin
    BY <1>1, <2>1, <2>3
  <2>7. QED
    BY <2>1, <2>4, <2>5, <2>6, VolumeOfNone DEF reset, start, Restarted
<1>5. QED
  BY <1>3, <1>4

(***************************************************************************)
(* What a settlement leaves in the wallet                                  *)
(***************************************************************************)
LEMMA SpentWallet ==
  ASSUME NEW wallet \in AgentWallet, NEW time \in Nat, NEW amount \in U64
  PROVE  LET reset == ResetWindowsIfElapsed(wallet, time)
             spent == RecordSpend(reset, amount, time)
         IN  /\ \A w \in Windows : spent.spend[w] = SaturatingAdd(reset.spend[w], amount, MaxU64)
             /\ spent.window_start = reset.window_start
             /\ spent.total_volume = SaturatingAdd(wallet.total_volume, amount, MaxU64)
             /\ spent.last_payment_at = time
<1> DEFINE reset == ResetWindowsIfElapsed(wallet, time)
<1>1. reset \in AgentWallet
  BY ResetWallet
<1>2. reset.total_volume = wallet.total_volume
  BY DEF ResetWindowsIfElapsed, AgentWallet
<1> HIDE DEF reset
<1>3. QED
  BY <1>1, <1>2 DEF RecordSpend, CountEntry, AgentWallet, reset

LEMMA BookedAfterSettlement ==
  ASSUME TypeOK, TypeOK', LedgerDated, LedgerGrows, now' = now,
         NEW a \in AgentIds, Booked(a), Settles(a)
  PROVE  Booked(a)'
<1>1. /\ now \in Nat /\ a \in DOMAIN agent_wallet /\ agent_wallet[a] \in AgentWallet
      /\ Booked(a) /\ LedgerDated
  BY DEF TypeOK, Settles
<1>2. PICK r \in DOMAIN payment_record' \ DOMAIN payment_record :
        /\ PassedOf(a)' = PassedOf(a) \cup {r}
        /\ agent_wallet'[a] = RecordSpend(ResetWindowsIfElapsed(agent_wallet[a], now),
                                          payment_record'[r].amount_usdc, now)
  BY DEF Settles
<1>3. PICK S : S = PassedOf(a)
  OBVIOUS
<1>4. PICK before : before = agent_wallet[a]
  OBVIOUS
<1>5. PICK amount : amount = payment_record'[r].amount_usdc
  OBVIOUS
<1> DEFINE reset == ResetWindowsIfElapsed(before, now)
           after == agent_wallet'[a]
<1>6. /\ amount \in U64 /\ amount \in Nat
      /\ payment_record'[r].settled_at = now
  <2>1. payment_record'[r].amount_usdc \in U64
    BY InputsAssumption DEF TypeOK, PaymentRecord
  <2>2. amount \in U64 /\ amount \in Nat
    BY <1>5, <2>1, WidthAssumption DEF U64
  <2>3. QED
    BY <2>2 DEF LedgerGrows
<1>7. /\ r \notin S /\ IsFiniteSet(S)
      /\ Amounting(payment_record, S)
      /\ Amounting(payment_record', S \cup {r})
      /\ \A x \in S : /\ payment_record'[x] = payment_record[x]
                      /\ payment_record[x].settled_at \in Nat
                      /\ payment_record[x].settled_at <= now
  <2>1. /\ S \subseteq DOMAIN payment_record
        /\ Amounting(payment_record, S)
        /\ \A x \in S : payment_record[x].settled_at \in Nat /\ payment_record[x].settled_at <= now
    BY <1>1, <1>3, PassedRecords
  <2>2. \A x \in S : payment_record'[x] = payment_record[x]
    BY <2>1 DEF LedgerGrows, IsRestriction
  <2>3. r \notin S
    BY <2>1
  <2>4. IsFiniteSet(S) /\ IsFiniteSet(S \cup {r})
    BY <2>1, FS_AddElement DEF Amounting
  <2>5. \A x \in S \cup {r} : payment_record'[x].amount_usdc \in Nat
    BY <1>5, <1>6, <2>1, <2>2 DEF Amounting
  <2>6. QED
    BY <2>1, <2>2, <2>3, <2>4, <2>5 DEF Amounting
<1>8. ASSUME NEW T \in SUBSET S
      PROVE  VolumeIn(payment_record', T \cup {r}) =
               SaturatingAdd(VolumeIn(payment_record, T), amount, MaxU64)
  <2>1. Amounting(payment_record, T) /\ Amounting(payment_record', T \cup {r})
    BY <1>7, FS_Subset, FS_AddElement DEF Amounting
  <2>2. VolumeIn(payment_record', T) = VolumeIn(payment_record, T)
    BY <1>7, <2>1, VolumeKept
  <2>3. r \notin T /\ IsFiniteSet(T)
    BY <1>7, <2>1 DEF Amounting
  <2>4. VolumeIn(payment_record', T \cup {r}) =
          SaturatingAdd(VolumeIn(payment_record', T), payment_record'[r].amount_usdc, MaxU64)
    BY <2>1, <2>3, VolumeWithEntry
  <2>5. QED
    BY <1>5, <2>2, <2>4
<1>9. /\ \A w \in Windows : after.spend[w] = SaturatingAdd(reset.spend[w], amount, MaxU64)
      /\ after.window_start = reset.window_start
      /\ after.total_volume = SaturatingAdd(before.total_volume, amount, MaxU64)
      /\ after.last_payment_at = now
  <2>1. before \in AgentWallet
    BY <1>1, <1>4
  <2>2. after = RecordSpend(reset, amount, now)
    BY <1>2, <1>4, <1>5
  <2> HIDE DEF after
  <2>3. QED
    BY <1>1, <1>6, <2>1, <2>2, SpentWallet
<1>10. after.total_volume = Volume(PassedOf(a))'
  <2>1. before.total_volume = VolumeIn(payment_record, S)
    BY <1>1, <1>3, <1>4, VolumeIsVolumeIn DEF Booked
  <2>2. Volume(PassedOf(a))' = VolumeIn(payment_record', S \cup {r})
    <3>1. Volume(PassedOf(a))' = VolumeIn(payment_record', PassedOf(a)')
      BY DEF Volume, VolumeIn, MapThenSumSet, MapThenFoldSet
    <3>2. QED
      BY <1>2, <1>3, <3>1
  <2>3. QED
    BY <1>8, <1>9, <2>1, <2>2
<1>11. /\ now \in {0} \cup {payment_record'[x].settled_at : x \in S \cup {r}}
       /\ \A x \in S \cup {r} : payment_record'[x].settled_at <= now
  BY <1>1, <1>6, <1>7
<1>12. ASSUME NEW w \in Windows
       PROVE  /\ after.spend[w] = VolumeIn(payment_record', {x \in S \cup {r} :
                                    payment_record'[x].settled_at >= after.window_start[w]})
              /\ after.window_start[w] <= now
              /\ \A x \in S \cup {r} :
                   payment_record'[x].settled_at < after.window_start[w] + Period(w)
  <2> DEFINE begin == reset.window_start[w]
             Since == {x \in S : payment_record[x].settled_at >= begin}
  <2>1. /\ before.window_start[w] \in Nat /\ before.window_start[w] <= now
        /\ \A x \in S : payment_record[x].settled_at < before.window_start[w] + Period(w)
        /\ before.spend[w] =
             VolumeIn(payment_record, {x \in S : payment_record[x].settled_at >= before.window_start[w]})
    <3>1. /\ agent_wallet[a].window_start[w] \in Nat /\ agent_wallet[a].window_start[w] <= now
          /\ \A x \in PassedOf(a) :
               payment_record[x].settled_at < agent_wallet[a].window_start[w] + Period(w)
          /\ agent_wallet[a].spend[w] = LedgerSpend(a, w)
      BY <1>1 DEF Booked, AgentWallet
    <3>2. LedgerSpend(a, w) =
            VolumeIn(payment_record, {x \in PassedOf(a) :
                       payment_record[x].settled_at >= agent_wallet[a].window_start[w]})
      BY DEF LedgerSpend, PassedSince, Volume, VolumeIn
    <3>3. QED
      BY <1>3, <1>4, <3>1, <3>2
  <2>2. /\ begin \in Nat
        /\ begin <= now
        /\ now < begin + Period(w)
        /\ before.window_start[w] <= begin
        /\ reset.spend[w] = VolumeIn(payment_record, Since)
    <3>1. before \in AgentWallet /\ now \in Nat /\ Amounting(payment_record, S)
      BY <1>1, <1>4, <1>7
    <3>2. \A x \in S : /\ payment_record[x].settled_at \in Nat
                        /\ payment_record[x].settled_at < before.window_start[w] + Period(w)
      BY <1>7, <2>1
    <3>3. /\ before.window_start[w] <= now
          /\ before.spend[w] = VolumeIn(payment_record,
               {x \in S : payment_record[x].settled_at >= before.window_start[w]})
      BY <2>1
    <3>4. QED
      BY <3>1, <3>2, <3>3, WindowAfterReset DEF Restarted
  <2>3. {x \in S \cup {r} : payment_record'[x].settled_at >= begin} = Since \cup {r}
    <3> HIDE DEF reset
    <3>1. now >= begin
      BY <1>1, <2>2
    <3>2. QED
      BY <1>6, <1>7, <3>1
  <2>4. after.window_start[w] = begin
    BY <1>9
  <2>5. \A x \in S \cup {r} : payment_record'[x].settled_at < begin + Period(w)
    <3>1. Period(w) \in Nat
      BY PeriodPositive
    <3> DEFINE start == before.window_start[w]
    <3>2. \A x \in S : payment_record[x].settled_at < start + Period(w)
      BY <2>1
    <3>3. start \in Nat /\ start <= begin
      BY <2>1, <2>2
    <3> HIDE DEF begin, start
    <3>4. \A x \in S : payment_record'[x].settled_at < begin + Period(w)
      BY <1>7, <2>2, <3>1, <3>2, <3>3
    <3>5. QED
      BY <1>6, <2>2, <3>4
  <2>6. after.spend[w] = VolumeIn(payment_record', Since \cup {r})
    <3>1. Since \in SUBSET S
      OBVIOUS
    <3> HIDE DEF Since, after, reset
    <3>2. QED
      BY <1>8, <1>9, <2>2, <3>1
  <2> HIDE DEF after, reset
  <2>7. QED
    BY <2>2, <2>3, <2>4, <2>5, <2>6
<1>13. ASSUME NEW w \in Windows
       PROVE  after.spend[w] = LedgerSpend(a, w)'
  <2>1. LedgerSpend(a, w)' =
          VolumeIn(payment_record', {x \in PassedOf(a)' :
                     payment_record'[x].settled_at >= after.window_start[w]})
    <3>1. LedgerSpend(a, w)' =
            VolumeIn(payment_record', PassedSince(a, agent_wallet[a].window_start[w])')
      BY DEF LedgerSpend, Volume, VolumeIn, MapThenSumSet, MapThenFoldSet
    <3>2. PassedSince(a, agent_wallet[a].window_start[w])' =
            {x \in PassedOf(a)' : payment_record'[x].settled_at >= after.window_start[w]}
      BY DEF PassedSince
    <3>3. QED
      BY <3>1, <3>2
  <2>2. PassedOf(a)' = S \cup {r}
    BY <1>2, <1>3
  <2> HIDE DEF after
  <2>3. QED
    BY <1>12, <2>1, <2>2
<1>14. PassedOf(a)' = S \cup {r}
  BY <1>2, <1>3
<1> DEFINE Dates == {payment_record'[x].settled_at : x \in PassedOf(a)'}
<1>15. /\ after.last_payment_at \in {0} \cup Dates
       /\ \A x \in PassedOf(a)' : payment_record'[x].settled_at <= after.last_payment_at
  <2> HIDE DEF after
  <2>1. QED
    BY <1>9, <1>11, <1>14
<1>16. \A w \in Windows :
         /\ after.spend[w] = LedgerSpend(a, w)'
         /\ after.window_start[w] <= now'
         /\ \A x \in PassedOf(a)' :
              payment_record'[x].settled_at < after.window_start[w] + Period(w)
  <2> HIDE DEF after
  <2>1. QED
    BY <1>12, <1>13, <1>14
<1>17. QED
  BY <1>10, <1>15, <1>16 DEF Booked

LEMMA BookedWhenKept ==
  ASSUME TypeOK, TypeOK', LedgerDated, LedgerGrows, now <= now',
         NEW a \in AgentIds, Booked(a), KeepsBooks(a)
  PROVE  Booked(a)'
<1>1. /\ Booked(a) /\ LedgerDated
      /\ a \in DOMAIN agent_wallet /\ agent_wallet[a] \in AgentWallet
      /\ now \in Nat /\ now' \in Nat
  BY DEF KeepsBooks, TypeOK
<1>2. PICK S : S = PassedOf(a)
  OBVIOUS
<1>3. /\ PassedOf(a)' = S
      /\ Amounting(payment_record, S)
      /\ \A x \in S : payment_record'[x] = payment_record[x]
  <2>1. S \subseteq DOMAIN payment_record /\ Amounting(payment_record, S)
    BY <1>1, <1>2, PassedRecords
  <2>2. QED
    BY <1>2, <2>1 DEF KeepsBooks, LedgerGrows, IsRestriction
<1>4. ASSUME NEW T \in SUBSET S
      PROVE  VolumeIn(payment_record', T) = VolumeIn(payment_record, T)
  <2>1. Amounting(payment_record, T)
    BY <1>3, FS_Subset DEF Amounting
  <2>2. QED
    BY <1>3, <2>1, VolumeKept
<1>5. Volume(PassedOf(a))' = Volume(PassedOf(a))
  <2>1. Volume(PassedOf(a))' = VolumeIn(payment_record', PassedOf(a)')
    BY DEF Volume, VolumeIn, MapThenSumSet, MapThenFoldSet
  <2>2. Volume(PassedOf(a)) = VolumeIn(payment_record, S)
    BY <1>2, VolumeIsVolumeIn
  <2>3. QED
    BY <1>3, <1>4, <2>1, <2>2
<1>6. ASSUME NEW w \in Windows
      PROVE  LedgerSpend(a, w)' = LedgerSpend(a, w)
  <2>1. LedgerSpend(a, w)' =
          VolumeIn(payment_record', PassedSince(a, agent_wallet[a].window_start[w])')
    BY DEF LedgerSpend, Volume, VolumeIn, MapThenSumSet, MapThenFoldSet
  <2>2. LedgerSpend(a, w) =
          VolumeIn(payment_record, PassedSince(a, agent_wallet[a].window_start[w]))
    BY VolumeIsVolumeIn DEF LedgerSpend
  <2>3. PassedSince(a, agent_wallet[a].window_start[w])' =
          PassedSince(a, agent_wallet[a].window_start[w])
    BY <1>2, <1>3 DEF PassedSince, KeepsBooks
  <2>4. PICK T : T = PassedSince(a, agent_wallet[a].window_start[w])
    OBVIOUS
  <2>5. T \in SUBSET S
    BY <1>2, <2>4 DEF PassedSince
  <2>6. QED
    BY <1>4, <2>1, <2>2, <2>3, <2>4, <2>5
<1>7. \A w \in Windows : agent_wallet[a].window_start[w] \in Nat
  BY <1>1 DEF AgentWallet
<1> DEFINE Dates == {payment_record[r].settled_at : r \in PassedOf(a)}
<1>8. Dates' = Dates
  BY <1>2, <1>3
<1>9. /\ agent_wallet'[a].total_volume = Volume(PassedOf(a))'
      /\ agent_wallet'[a].last_payment_at \in {0} \cup Dates'
      /\ \A r \in PassedOf(a)' : payment_record'[r].settled_at <= agent_wallet'[a].last_payment_at
  BY <1>1, <1>2, <1>3, <1>5, <1>8 DEF Booked, KeepsBooks
<1>10. \A w \in Windows :
         /\ agent_wallet'[a].spend[w] = LedgerSpend(a, w)'
         /\ agent_wallet'[a].window_start[w] <= now'
         /\ \A r \in PassedOf(a)' :
              payment_record'[r].settled_at < agent_wallet'[a].window_start[w] + Period(w)
  BY <1>1, <1>2, <1>3, <1>6, <1>7 DEF Booked, KeepsBooks
<1>11. QED
  BY <1>9, <1>10 DEF Booked

LEMMA BookedWhenStarted ==
  ASSUME TypeOK, now' = now, NEW a \in AgentIds, RecordsOf(a) = {}, StartsBooks(a)
  PROVE  Booked(a)'
<1>1. PassedOf(a)' = {}
  BY DEF StartsBooks, PassedOf, RecordsOf
<1>2. Volume(PassedOf(a))' = 0
  <2>1. Volume(PassedOf(a))' = VolumeIn(payment_record', PassedOf(a)')
    BY DEF Volume, VolumeIn, MapThenSumSet, MapThenFoldSet
  <2>2. QED
    BY <1>1, <2>1, VolumeOfNone
<1>3. ASSUME NEW w \in Windows
      PROVE  LedgerSpend(a, w)' = 0
  <2>1. LedgerSpend(a, w)' =
          VolumeIn(payment_record', PassedSince(a, agent_wallet[a].window_start[w])')
    BY DEF LedgerSpend, Volume, VolumeIn, MapThenSumSet, MapThenFoldSet
  <2>2. PassedSince(a, agent_wallet[a].window_start[w])' = {}
    BY <1>1 DEF PassedSince
  <2>3. QED
    BY <2>1, <2>2, VolumeOfNone
<1>4. now \in Nat
  BY DEF TypeOK
<1>5. QED
  BY <1>1, <1>2, <1>3, <1>4 DEF StartsBooks, Booked

(***************************************************************************)
(* Whatever mints callers name, the books are right for the wallets that   *)
(* can still append.  A wallet registered again restarts its sequence at   *)
(* 0, whose address is taken unless the earlier wallet paid nothing.       *)
(***************************************************************************)
CanAppend(a) == a \in DOMAIN agent_wallet /\ <<a, Sequence(a)>> \notin DOMAIN payment_record

OpenBooksInv ==
  LedgerDated /\ LedgerGapless /\ \A a \in AgentIds : CanAppend(a) => Booked(a)

\* A wallet that can append after a step it did not append in could before it, or begins then.
LEMMA CouldAppend ==
  ASSUME TypeOK, LedgerStep, NEW a \in AgentIds, CanAppend(a)'
  PROVE  CanAppend(a) \/ StartsCounters(a)
<1>1. CASE AppendsEntry(a)
  BY <1>1 DEF AppendsEntry, CanAppend
<1>2. CASE ~AppendsEntry(a)
  <2>1. SameCounters(a) \/ StartsCounters(a)
    BY <1>2 DEF LedgerStep, LeavesLedger, AppendsEntry, CanAppend
  <2>2. DOMAIN payment_record \subseteq DOMAIN payment_record'
    BY DEF LedgerStep, LeavesLedger, AppendsEntry
  <2>3. QED
    BY <2>1, <2>2 DEF SameCounters, CanAppend
<1>3. QED
  BY <1>1, <1>2

LEMMA SettlerCanAppend ==
  ASSUME TypeOK, LedgerStep, NEW a \in AgentIds, Settles(a)
  PROVE  CanAppend(a)
<1>1. RecordsOf(a)' # RecordsOf(a)
  <2>1. PICK r \in DOMAIN payment_record' \ DOMAIN payment_record : PassedOf(a)' = PassedOf(a) \cup {r}
    BY DEF Settles
  <2>2. r \in RecordsOf(a)' /\ r \notin RecordsOf(a)
    BY <2>1 DEF PassedOf, RecordsOf
  <2>3. QED
    BY <2>2
<1>2. AppendsEntry(a)
  BY <1>1, RecordsOfAfter
<1>3. QED
  BY <1>2 DEF AppendsEntry, CanAppend

LEMMA NothingBeforeStart ==
  ASSUME TypeOK, LedgerGapless, LedgerStep, NEW a \in AgentIds, StartsBooks(a), CanAppend(a)'
  PROVE  RecordsOf(a) = {}
<1>1. PICK n \in 0..(MaxU64 + 1) : RecordsOf(a) = {a} \X (0..(n - 1))
  BY DEF LedgerGapless
<1>2. <<a, 0>> \notin RecordsOf(a)
  BY DEF StartsBooks, StartsCounters, CanAppend, RecordsOf
<1>3. n = 0
  <2>1. n \in Nat
    BY WidthAssumption
  <2>2. n # 0 => 0 \in 0..(n - 1)
    BY <2>1
  <2>3. QED
    BY <1>1, <1>2, <2>2
<1>4. QED
  BY <1>1, <1>3

LEMMA OpenBooksPreserved ==
  ASSUME TypeOK, TypeOK', OpenBooksInv, LedgerGapless', [Next]_vars
  PROVE  OpenBooksInv'
<1>1. BooksStep /\ LedgerStep
  BY StepOnBooks, StepOnLedger
<1>2. LedgerDated'
  BY <1>1, LedgerStaysDated DEF BooksStep, OpenBooksInv
<1>3. ASSUME NEW a \in AgentIds, CanAppend(a)'
      PROVE  Booked(a)'
  <2>1. a \in DOMAIN agent_wallet'
    BY <1>3 DEF CanAppend
  <2>2. CASE StartsBooks(a) /\ now' = now
    BY <1>1, <1>3, <2>2, NothingBeforeStart, BookedWhenStarted DEF OpenBooksInv
  <2>3. CASE KeepsBooks(a) \/ (Settles(a) /\ now' = now)
    <3>1. a \in DOMAIN agent_wallet
      BY <2>3 DEF KeepsBooks, Settles
    <3>2. Booked(a)
      BY <1>1, <1>3, <3>1, CouldAppend DEF StartsCounters, OpenBooksInv
    <3>3. QED
      BY <1>1, <2>3, <3>2, BookedWhenKept, BookedAfterSettlement DEF BooksStep, OpenBooksInv
  <2>4. QED
    BY <1>1, <2>1, <2>2, <2>3 DEF BooksStep
<1>4. QED
  BY <1>2, <1>3 DEF OpenBooksInv

LEMMA OpenBooksInvariant == Spec => [](TypeOK /\ OpenBooksInv)
<1>1. Init => LedgerDated /\ \A a \in AgentIds : CanAppend(a) => Booked(a)
  BY FS_EmptySet DEF Init, NoAccounts, LedgerDated, CanAppend
<1>2. LedgerDated /\ (\A a \in AgentIds : CanAppend(a) => Booked(a)) /\ LedgerGapless => OpenBooksInv
  BY DEF OpenBooksInv
<1>3. TypeOK /\ TypeOK' /\ OpenBooksInv /\ LedgerGapless' /\ [Next]_vars => OpenBooksInv'
  BY OpenBooksPreserved
<1>4. QED
  BY <1>1, <1>2, <1>3, TypeCorrect, LedgerHasNoGaps, PTL DEF Spec

TrueBooks(a) ==
  /\ NumberedTo(a, Sequence(a))
  /\ agent_wallet[a].total_volume = Volume(PassedOf(a))
  /\ \A w \in Windows : agent_wallet[a].spend[w] = LedgerSpend(a, w)

(***************************************************************************)
(* Whoever can still pay has true books, with any mints: the wallet's      *)
(* records are those below its sequence, and its volume and accumulators   *)
(* are theirs.  A wallet registered again over records, and a saturated    *)
(* one, may have lost count, and then its next address is taken.           *)
(***************************************************************************)
THEOREM PayersBooksAreRight ==
  Spec => [](\A a \in AgentIds : CanAppend(a) => TrueBooks(a))
<1>1. ASSUME TypeOK, OpenBooksInv, NEW a \in AgentIds, CanAppend(a)
      PROVE  TrueBooks(a)
  <2>1. Booked(a) /\ a \in DOMAIN agent_wallet
    BY <1>1 DEF OpenBooksInv, CanAppend
  <2>2. PICK n \in 0..(MaxU64 + 1) : Gapless(a, n)
    BY <1>1 DEF OpenBooksInv, LedgerGapless, Gapless, NumberedTo, First, Sequence
  <2>3. <<a, Sequence(a)>> \notin First(a, n)
    BY <1>1, <2>2 DEF CanAppend, Gapless, NumberedTo, RecordsOf
  <2>4. Sequence(a) = n
    <3>1. Sequence(a) \in Nat /\ n \in Nat
      BY <1>1, <2>1, WidthAssumption DEF TypeOK, AgentWallet, Sequence, U64
    <3>2. n <= Sequence(a)
      BY <2>3, <3>1, FirstGrows
    <3>3. QED
      BY <2>1, <2>2, <3>1, <3>2, WidthAssumption DEF Gapless
  <2>5. QED
    BY <2>1, <2>2, <2>4 DEF Booked, Gapless, TrueBooks
<1>2. TypeOK /\ OpenBooksInv => \A a \in AgentIds : CanAppend(a) => TrueBooks(a)
  BY <1>1
<1>3. QED
  BY <1>2, OpenBooksInvariant, PTL

(***************************************************************************)
(* With one mint nobody registers a wallet again, and every wallet's books *)
(* are right.                                                              *)
(***************************************************************************)
LEMMA BooksInvPreserved ==
  ASSUME SingleMint, TypeOK, TypeOK', BooksInv, [Next]_vars
  PROVE  BooksInv'
<1>1. BooksStep
  BY StepOnBooks
<1>2. LedgerDated'
  BY <1>1, LedgerStaysDated DEF BooksStep, BooksInv
<1>3. ASSUME NEW a \in AgentIds
      PROVE  Accounted(a)' /\ Booked(a)'
  <2>1. Accounted(a)'
    BY AccountedAfter DEF BooksInv
  <2>2. ASSUME a \in DOMAIN agent_wallet'
        PROVE  Booked(a)'
    <3>1. StartsBooks(a) => RecordsOf(a) = {}
      BY NoSecondStart DEF StartsBooks, BooksInv, Accounted
    <3>2. QED
      BY <1>1, <2>2, <3>1, BookedWhenKept, BookedWhenStarted, BookedAfterSettlement
         DEF BooksStep, BooksInv
  <2>3. ASSUME a \notin DOMAIN agent_wallet'
        PROVE  Booked(a)'
    BY <2>3 DEF Booked
  <2>4. QED
    BY <2>1, <2>2, <2>3
<1>4. QED
  BY <1>2, <1>3 DEF BooksInv

LEMMA BooksInvariant ==
  ASSUME SingleMint
  PROVE  Spec => [](TypeOK /\ BooksInv)
<1>1. Init => BooksInv
  BY FS_EmptySet DEF Init, NoAccounts, BooksInv, LedgerDated, Accounted, Booked, RecordsOf
<1>2. TypeOK /\ TypeOK' /\ BooksInv /\ [Next]_vars => BooksInv'
  BY BooksInvPreserved
<1>3. QED
  BY <1>1, <1>2, TypeCorrect, PTL DEF Spec

(***************************************************************************)
(* Each spend accumulator is the ledger's total of the settlements since   *)
(* its window began, for any amounts, policies, periods and gaps between   *)
(* the payments, and up to the saturation of u64.                          *)
(***************************************************************************)
THEOREM SpendIsOnLedger ==
  ASSUME SingleMint
  PROVE  Spec => []SpendMatchesLedger
<1>1. TypeOK /\ BooksInv => SpendMatchesLedger
  BY DEF TypeOK, BooksInv, Booked, SpendMatchesLedger
<1>2. QED
  BY <1>1, BooksInvariant, PTL

(***************************************************************************)
(* total_volume is the total of all settlements on the ledger, and         *)
(* last_payment_at the date of the latest.                                 *)
(***************************************************************************)
THEOREM VolumeIsOnLedger ==
  ASSUME SingleMint
  PROVE  Spec => []VolumeMatchesLedger
<1>1. TypeOK /\ BooksInv => VolumeMatchesLedger
  <2> SUFFICES ASSUME TypeOK, BooksInv, NEW a \in DOMAIN agent_wallet
               PROVE  /\ agent_wallet[a].total_volume = Volume(PassedOf(a))
                      /\ agent_wallet[a].last_payment_at =
                           Max({0} \cup {payment_record[r].settled_at : r \in PassedOf(a)})
    BY DEF VolumeMatchesLedger
  <2> DEFINE Dates == {0} \cup {payment_record[r].settled_at : r \in PassedOf(a)}
             last  == agent_wallet[a].last_payment_at
  <2>1. a \in AgentIds /\ Booked(a)
    BY DEF TypeOK, BooksInv
  <2>2. \A x \in Dates : x \in Nat
    BY PassedRecords DEF BooksInv
  <2>3. last \in Dates /\ \A x \in Dates : last >= x
    <3>1. last \in Dates
      BY <2>1 DEF Booked
    <3>2. \A r \in PassedOf(a) : payment_record[r].settled_at <= last
      BY <2>1 DEF Booked
    <3>3. last \in Nat
      BY <2>2, <3>1
    <3> HIDE DEF last
    <3>4. \A x \in Dates : last >= x
      BY <2>2, <3>2, <3>3
    <3>5. QED
      BY <3>1, <3>4
  <2>4. last = Max(Dates)
    <3> HIDE DEF Dates, last
    <3>1. \A x \in Dates : (\A y \in Dates : x >= y) => x = last
      BY <2>2, <2>3
    <3>2. QED
      BY <2>3, <3>1 DEF Max
  <2>5. QED
    BY <2>1, <2>4 DEF Booked
<1>2. QED
  BY <1>1, BooksInvariant, PTL
=============================================================================
