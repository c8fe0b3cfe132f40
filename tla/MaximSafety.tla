----------------------------- MODULE MaximSafety -----------------------------
(***************************************************************************)
(* What the maxim_protocol program promises.  The ledger, that is the      *)
(* payment_record table, is the reference: counters and limits kept in     *)
(* other accounts are compared with what the ledger says happened.         *)
(***************************************************************************)
EXTENDS MaximProtocol, FiniteSetsExt

-----------------------------------------------------------------------------
(* Reading the ledger *)

RecordsOf(a) == {r \in DOMAIN payment_record : r[1] = a}
PassedOf(a)  == {r \in RecordsOf(a) : payment_record[r].policy_passed}

\* Total of a set of records, as a saturating u64 accumulator holds it
Volume(records) ==
  SaturatingAdd(0, MapThenSumSet(LAMBDA r : payment_record[r].amount_usdc, records), MaxU64)

PassedSince(a, start) == {r \in PassedOf(a) : payment_record[r].settled_at >= start}

\* What the ledger says a has spent in its current window w
LedgerSpend(a, w) == Volume(PassedSince(a, agent_wallet[a].window_start[w]))

\* Settlements a's current policy enforces
EnforcedOf(a) ==
  {r \in PassedOf(a) : EnforcedOnChain(spend_policy[a], payment_record[r].amount_usdc)}

Balance(holder, mint) ==
  IF <<holder, mint>> \in DOMAIN token_account THEN token_account[<<holder, mint>>] ELSE 0

SingleMint == \A m1, m2 \in Mints : m1 = m2

-----------------------------------------------------------------------------
(* The ledger *)

(***************************************************************************)
(* payment_record.rs: accounts "are never mutated after creation, making   *)
(* the on-chain ledger append-only".  No step changes or removes a record: *)
(* not a saturated sequence, not closing the wallet, not registering the   *)
(* id again under another mint.                                            *)
(***************************************************************************)
LedgerAppendOnly == [][IsRestriction(payment_record, payment_record')]_payment_record

(***************************************************************************)
(* Whatever mints callers use, an agent's records are numbered from 0      *)
(* without a gap, and its wallet, while it exists, points either past the  *)
(* last record or, registered a second time, at record 0.                  *)
(***************************************************************************)
LedgerGapless ==
  \A a \in AgentIds :
    \E n \in 0..(MaxU64 + 1) :
      /\ RecordsOf(a) = {a} \X (0..(n - 1))
      /\ a \in DOMAIN agent_wallet =>
           LET seq == agent_wallet[a].payment_sequence
           IN  seq = n \/ seq = 0 \/ (seq = MaxU64 /\ n = MaxU64 + 1)

(***************************************************************************)
(* lib.rs, SettlePayment: "the full ledger is independently derivable from *)
(* agent wallet + sequence".  The records of a registered agent are those  *)
(* below its payment_sequence, so the next payment finds its address free; *)
(* only at u64::MAX, where the sequence stays put, may the last address be *)
(* taken already.  total_payments agrees.  Holds when one mint is in use.  *)
(***************************************************************************)
SequenceMatchesLedger ==
  \A a \in DOMAIN agent_wallet :
    LET seq == agent_wallet[a].payment_sequence IN
    /\ \/ RecordsOf(a) = {a} \X (0..(seq - 1))
       \/ seq = MaxU64 /\ RecordsOf(a) = {a} \X (0..MaxU64)
    /\ agent_wallet[a].total_payments = seq

(***************************************************************************)
(* close_agent: "permanently close an agent wallet".  The token account it *)
(* leaves behind makes register_agent's init fail, so an id that lost its  *)
(* wallet never gets a new one, with fresh counters, a cleared freeze flag *)
(* or another owner.  Holds when one mint is in use.                       *)
(***************************************************************************)
Retired(a) == a \notin DOMAIN agent_wallet /\ \E m \in Mints : <<a, m>> \in DOMAIN token_account

RetiredForever == [][\A a \in AgentIds : Retired(a) => Retired(a)']_vars

\* a has records, and no wallet that could have made them: none, or one registered since
Sealed(a) ==
  /\ RecordsOf(a) # {}
  /\ a \in DOMAIN agent_wallet => agent_wallet[a].payment_sequence = 0

(***************************************************************************)
(* close_agent: "permanently close an agent wallet".  Whatever mints       *)
(* callers name: an id that was closed with entries on the ledger can be   *)
(* registered again, but its wallet never settles or records anything.     *)
(* It counts from 0, and the record of 0 is taken.                         *)
(***************************************************************************)
SealedForever ==
  [][\A a \in AgentIds : Sealed(a) => Sealed(a)' /\ RecordsOf(a)' = RecordsOf(a)]_vars

-----------------------------------------------------------------------------
(* Money *)

\* spent tokens of the step go to payee, from a wallet that may pay them, and on the ledger.
PaysOut(a, mint, spent) ==
  LET seq   == <<a, agent_wallet[a].payment_sequence>>
      payee == <<payment_record'[seq].payee, mint>>
  IN
  /\ seq \in DOMAIN payment_record' \ DOMAIN payment_record
  /\ payment_record'[seq].policy_passed
  /\ payment_record'[seq].amount_usdc = spent
  /\ payee \in DOMAIN token_account
  /\ token_account'[payee] = token_account[payee] + spent
  /\ agent_wallet[a].is_active /\ ~agent_wallet[a].is_frozen
  /\ UnderGlobalCap(spent)

\* spent tokens of the step go to the owner, and nothing else happens to wallets or ledger.
TakesHome(a, mint, spent) ==
  LET home == <<agent_wallet[a].owner, mint>> IN
  /\ home \in DOMAIN token_account
  /\ token_account'[home] = token_account[home] + spent
  /\ UNCHANGED <<agent_wallet, payment_record>>

AuthorisedStep ==
  \A a \in AgentIds, mint \in Mints :
    LET t     == <<a, mint>>
        spent == token_account[t] - token_account'[t]
    IN  t \in DOMAIN token_account /\ spent > 0 =>
          a \in DOMAIN agent_wallet /\ (PaysOut(a, mint, spent) \/ TakesHome(a, mint, spent))

(***************************************************************************)
(* The wallet is non-custodial: tokens leave an agent's account only as a  *)
(* settlement of an active, unfrozen wallet within the global cap that the *)
(* same step puts on the ledger for that very amount and payee, or to the  *)
(* token account of the owner registered before the step.                  *)
(***************************************************************************)
OutflowAuthorised == [][AuthorisedStep]_vars

(***************************************************************************)
(* withdraw_funds and withdraw_all: "the registered owner can always       *)
(* recover their USDC", regardless of is_active or is_frozen, whoever      *)
(* freezes, pays, tops up or transfers ownership in between.               *)
(***************************************************************************)
FundsRecoverable ==
  \A a \in AgentIds, m \in Mints :
    (a \in DOMAIN agent_wallet /\ Balance(a, m) > 0) ~> (Balance(a, m) = 0)

(***************************************************************************)
(* The program schedules nothing; the promise is about an owner that keeps *)
(* asking.  So: whoever is the owner keeps submitting withdraw_all, and    *)
(* keypairs get themselves a token account to receive into.                *)
(***************************************************************************)
OwnersKeepAsking ==
  \A m \in Mints :
    /\ \A a \in AgentIds : WF_vars(\E owner \in Keys : WithdrawAll(owner, a, m))
    /\ \A k \in Keys : WF_vars(CreateTokenAccount(k, m))

-----------------------------------------------------------------------------
(* Accounting *)

(***************************************************************************)
(* Each spend accumulator is the sum of the settlements the ledger dates   *)
(* inside the window, also when several whole windows passed unnoticed,    *)
(* when small unenforced payments were made and when violations were       *)
(* recorded in between.                                                    *)
(***************************************************************************)
SpendMatchesLedger ==
  \A a \in DOMAIN agent_wallet, w \in Windows :
    agent_wallet[a].spend[w] = LedgerSpend(a, w)

(***************************************************************************)
(* agent_wallet.rs: total_volume "reflects successfully settled payments   *)
(* only" and last_payment_at dates "the most recent successful payment":   *)
(* recorded violations move neither.                                       *)
(***************************************************************************)
VolumeMatchesLedger ==
  \A a \in DOMAIN agent_wallet :
    /\ agent_wallet[a].total_volume = Volume(PassedOf(a))
    /\ agent_wallet[a].last_payment_at =
         Max({0} \cup {payment_record[r].settled_at : r \in PassedOf(a)})

(***************************************************************************)
(* The three windows reset independently, from separate starts, yet the    *)
(* day's spend never exceeds the week's or the month's: every week or      *)
(* month boundary is a day boundary of the same wallet.                    *)
(***************************************************************************)
NestedWindows ==
  \A a \in DOMAIN agent_wallet :
    agent_wallet[a].spend["daily"] <= agent_wallet[a].spend["weekly"] /\
    agent_wallet[a].spend["daily"] <= agent_wallet[a].spend["monthly"]

-----------------------------------------------------------------------------
(* Policy *)

(***************************************************************************)
(* A settlement the policy enforces leaves the ledger's total for the      *)
(* current day, week and month within the budgets, counting the payments   *)
(* below the threshold that were not checked, and current means that the   *)
(* window contains the clock's time.                                       *)
(***************************************************************************)
EnforcedWithinBudget ==
  [][\A a \in DOMAIN agent_wallet \cap DOMAIN spend_policy :
       \A r \in PassedOf(a)' \ PassedOf(a) :
         EnforcedOnChain(spend_policy[a], payment_record'[r].amount_usdc) =>
           \A w \in Windows :
             /\ agent_wallet'[a].window_start[w] \in (now - Period(w) + 1)..now
             /\ spend_policy[a].budget[w] > 0 => LedgerSpend(a, w)' <= spend_policy[a].budget[w]
    ]_payment_record

\* What a paid in the period that begins at second t
SpentFrom(a, w, t) ==
  Volume({r \in PassedSince(a, t) : payment_record[r].settled_at < t + Period(w)})

(***************************************************************************)
(* Windows lie on a fixed grid, so a period that straddles two of them can *)
(* hold more than a budget.  It never holds more than two, when every      *)
(* payment is enforced and the policy is not replaced.                     *)
(***************************************************************************)
AnyPeriodWithinTwoBudgets ==
  \A a \in DOMAIN spend_policy, w \in Windows, t \in 1..now :
    spend_policy[a].budget[w] > 0 /\ spend_policy[a].high_value_threshold = 1 =>
      SpentFrom(a, w, t) <= 2 * spend_policy[a].budget[w]

(***************************************************************************)
(* The rate counter brackets the ledger: every enforced settlement after   *)
(* the window's first second is counted, nothing else is, and the count    *)
(* stays within rate_limit_calls, however policy updates, window resets    *)
(* and unenforced payments interleave.                                     *)
(***************************************************************************)
RateCounterMatchesLedger ==
  \A a \in DOMAIN spend_policy :
    LET policy   == spend_policy[a]
        count    == policy.rate_limit_call_count
        After(s) == {r \in EnforcedOf(a) : payment_record[r].settled_at >= s}
    IN
    /\ SaturatingAdd(0, Cardinality(After(policy.rate_limit_window_start + 1)), MaxU32) <= count
    /\ count <= Cardinality(After(policy.rate_limit_window_start))
    /\ policy.rate_limit_calls > 0 => count <= policy.rate_limit_calls
=============================================================================
