------------------------------ MODULE PolicyProofs ------------------------------
(***************************************************************************)
(* Spend policies against the ledger, for every width, policy and number   *)
(* of records: the rate counter brackets the ledger's enforced payments,   *)
(* an enforced payment leaves the ledger within the budgets, and no period *)
(* of a budget's length sees more than two budgets.                        *)
(*                                                                         *)
(* The ledger says when a settlement was made, the policy when its rate    *)
(* window began; neither is after the clock.  That is what strengthens the *)
(* rate counter: a window that begins now has no settlement after its      *)
(* first second yet.  For periods, the invariant bounds every past window  *)
(* of the grid, and a period touches at most two of them.                  *)
(***************************************************************************)
EXTENDS WindowProofs

-----------------------------------------------------------------------------
(* What a step does to policies and to the settlements they enforce *)

Calls(a)  == spend_policy[a].rate_limit_call_count
Opened(a) == spend_policy[a].rate_limit_window_start

\* Enforced settlements of a since second s
EnforcedSince(a, s) == {r \in EnforcedOf(a) : payment_record[r].settled_at >= s}

StartsPolicy(a) ==
  /\ Calls(a)' = 0 /\ Opened(a)' = now /\ now' = now
  /\ UNCHANGED payment_record

KeepsPolicy(a) ==
  /\ a \in DOMAIN spend_policy
  /\ spend_policy'[a] = spend_policy[a]
  /\ EnforcedOf(a)' = EnforcedOf(a)

CallsPolicy(a) ==
  /\ a \in DOMAIN spend_policy
  /\ spend_policy'[a] = CountCall(spend_policy[a], now)
  /\ WithinRateLimit(ResetRateWindowIfElapsed(spend_policy[a], now))
  /\ now' = now
  /\ \E r \in DOMAIN payment_record' \ DOMAIN payment_record :
       EnforcedOf(a)' = EnforcedOf(a) \cup {r}

PolicyStep ==
  /\ LedgerGrows
  /\ now <= now'
  /\ \A a \in DOMAIN spend_policy' : StartsPolicy(a) \/ KeepsPolicy(a) \/ CallsPolicy(a)

LEMMA EnforcedStays ==
  ASSUME NEW a, PassedOf(a)' = PassedOf(a),
         spend_policy'[a].high_value_threshold = spend_policy[a].high_value_threshold,
         \A r \in DOMAIN payment_record : payment_record'[r] = payment_record[r]
  PROVE  EnforcedOf(a)' = EnforcedOf(a)
<1>1. \A r \in PassedOf(a) : r \in DOMAIN payment_record
  BY DEF PassedOf, RecordsOf
<1>2. \A r \in PassedOf(a) :
        EnforcedOnChain(spend_policy'[a], payment_record'[r].amount_usdc)
          <=> EnforcedOnChain(spend_policy[a], payment_record[r].amount_usdc)
  BY <1>1 DEF EnforcedOnChain
<1>3. QED
  BY <1>2 DEF EnforcedOf

LEMMA CountCallKeepsThreshold ==
  ASSUME NEW policy \in SpendPolicy, NEW time
  PROVE  CountCall(policy, time).high_value_threshold = policy.high_value_threshold
BY DEF CountCall, ResetRateWindowIfElapsed, SpendPolicy

LEMMA SettlePaymentOnPolicies ==
  ASSUME TypeOK, NEW owner \in Keys, NEW b \in AgentIds, NEW mint \in Mints,
         NEW payee \in Holders, NEW sequence \in U64, NEW params \in PaymentParams,
         SettlePayment(owner, b, mint, payee, sequence, params)
  PROVE  PolicyStep
<1> DEFINE amount   == params.amount_usdc
           policy   == spend_policy[b]
           enforced == EnforcedOnChain(policy, amount)
           record   == [payee |-> payee, amount_usdc |-> amount,
                        protocol |-> ProtocolOf(params.protocol),
                        settled_at |-> now, policy_passed |-> TRUE,
                        parent_payment |-> params.parent_payment]
           new      == <<b, sequence>>
<1>1. /\ new \notin DOMAIN payment_record
      /\ b \in DOMAIN spend_policy
      /\ enforced => WithinRateLimit(ResetRateWindowIfElapsed(policy, now))
      /\ spend_policy' = IF enforced THEN [spend_policy EXCEPT ![b] = CountCall(policy, now)]
                         ELSE spend_policy
      /\ payment_record' = Stored(payment_record, new, record)
      /\ now' = now
  BY DEF SettlePayment, AdmitsPayment, RecordFree, PolicyAdmits
<1>2. /\ LedgerGrows
      /\ \A a : a # b => PassedOf(a)' = PassedOf(a)
      /\ PassedOf(b)' = PassedOf(b) \cup {new}
      /\ \A r \in DOMAIN payment_record : payment_record'[r] = payment_record[r]
      /\ payment_record'[new] = record
  <2>1. record.settled_at = now /\ record.policy_passed
    OBVIOUS
  <2> HIDE DEF record
  <2>2. QED
    BY <1>1, <2>1, EntryStored
<1>3. DOMAIN spend_policy' = DOMAIN spend_policy
  BY <1>1
<1>4. ASSUME NEW a \in DOMAIN spend_policy, a # b
      PROVE  KeepsPolicy(a)
  <2>1. spend_policy'[a] = spend_policy[a]
    BY <1>1, <1>4
  <2>2. QED
    BY <1>2, <1>4, <2>1, EnforcedStays DEF KeepsPolicy
<1>5. EnforcedOf(b)' = IF enforced THEN EnforcedOf(b) \cup {new} ELSE EnforcedOf(b)
  <2>1. spend_policy'[b].high_value_threshold = policy.high_value_threshold
    BY <1>1, CountCallKeepsThreshold DEF TypeOK
  <2>2. \A x : EnforcedOnChain(spend_policy'[b], x) <=> EnforcedOnChain(policy, x)
    BY <2>1 DEF EnforcedOnChain
  <2>3. \A r \in PassedOf(b) : payment_record'[r] = payment_record[r] /\ r # new
    BY <1>1, <1>2 DEF PassedOf, RecordsOf
  <2>4. payment_record'[new].amount_usdc = amount
    BY <1>2
  <2> HIDE DEF record, amount, policy, new
  <2>5. EnforcedOf(b)' =
          {r \in PassedOf(b) \cup {new} :
             EnforcedOnChain(policy, payment_record'[r].amount_usdc)}
    BY <1>2, <2>2 DEF EnforcedOf
  <2>6. EnforcedOf(b) = {r \in PassedOf(b) :
                           EnforcedOnChain(policy, payment_record[r].amount_usdc)}
    BY DEF EnforcedOf, policy
  <2>7. QED
    BY <2>3, <2>4, <2>5, <2>6
<1>6. KeepsPolicy(b) \/ CallsPolicy(b)
  <2>1. CASE enforced
    <3>1. new \in DOMAIN payment_record' \ DOMAIN payment_record
      BY <1>1 DEF Stored
    <3>2. spend_policy'[b] = CountCall(policy, now)
      BY <1>1, <2>1
    <3>3. QED
      BY <1>1, <1>5, <2>1, <3>1, <3>2 DEF CallsPolicy
  <2>2. CASE ~enforced
    BY <1>1, <1>5, <2>2 DEF KeepsPolicy
  <2>3. QED
    BY <2>1, <2>2
<1>7. now <= now'
  BY <1>1 DEF TypeOK
<1>8. QED
  BY <1>2, <1>3, <1>4, <1>6, <1>7 DEF PolicyStep

LEMMA RecordPolicyViolationOnPolicies ==
  ASSUME TypeOK, NEW owner \in Keys, NEW b \in AgentIds, NEW sequence \in U64,
         NEW params \in PaymentParams, RecordPolicyViolation(owner, b, sequence, params)
  PROVE  PolicyStep
<1> DEFINE record == [payee |-> DefaultKey, amount_usdc |-> params.amount_usdc,
                      protocol |-> ProtocolOf(params.protocol), settled_at |-> now,
                      policy_passed |-> FALSE, parent_payment |-> {}]
<1>1. /\ <<b, sequence>> \notin DOMAIN payment_record
      /\ payment_record' = Stored(payment_record, <<b, sequence>>, record)
      /\ UNCHANGED <<spend_policy, now>>
  BY DEF RecordPolicyViolation, RecordFree
<1>2. record.settled_at = now /\ ~record.policy_passed
  OBVIOUS
<1> HIDE DEF record
<1>3. /\ LedgerGrows
      /\ \A a : PassedOf(a)' = PassedOf(a)
      /\ \A r \in DOMAIN payment_record : payment_record'[r] = payment_record[r]
  BY <1>1, <1>2, EntryStored
<1>4. \A a \in DOMAIN spend_policy : KeepsPolicy(a)
  BY <1>1, <1>3, EnforcedStays DEF KeepsPolicy
<1>5. QED
  BY <1>1, <1>3, <1>4 DEF PolicyStep, TypeOK

(***************************************************************************)
(* A step that writes no record keeps the policies it does not write.      *)
(***************************************************************************)
LEMMA UnwrittenPolicyKept ==
  ASSUME UNCHANGED payment_record, NEW a \in DOMAIN spend_policy,
         spend_policy'[a] = spend_policy[a]
  PROVE  KeepsPolicy(a)
<1>1. PassedOf(a)' = PassedOf(a)
  BY DEF PassedOf, RecordsOf
<1>2. QED
  BY <1>1, EnforcedStays DEF KeepsPolicy

LEMMA StepOnPolicies ==
  ASSUME TypeOK, [Next]_vars
  PROVE  PolicyStep
<1>1. ASSUME UNCHANGED payment_record
      PROVE  LedgerGrows
  BY <1>1 DEF LedgerGrows, IsRestriction
<1>2. ASSUME UNCHANGED <<spend_policy, payment_record>>, now <= now'
      PROVE  PolicyStep
  BY <1>1, <1>2, UnwrittenPolicyKept DEF PolicyStep
<1>3. now <= now
  BY DEF TypeOK
<1>4. CASE UNCHANGED vars
  BY <1>2, <1>3, <1>4 DEF vars
<1>5. CASE Administer
  BY <1>2, <1>3, <1>5 DEF Administer, InitProtocol, RotateProtocolAdmin, UpdateProtocolConfig,
                         FreezeAgent, UnfreezeAgent, SetFrozen
<1>6. CASE Manage
  <2>1. ASSUME NEW owner \in Keys, NEW b \in AgentIds, NEW mint \in Mints,
               CloseAgent(owner, b, mint)
        PROVE  PolicyStep
    <3>1. UNCHANGED <<payment_record, now>> /\ spend_policy' = Closed(spend_policy, b)
      BY <2>1 DEF CloseAgent
    <3>2. \A a \in DOMAIN spend_policy' :
            a \in DOMAIN spend_policy /\ spend_policy'[a] = spend_policy[a]
      BY <3>1 DEF Closed, Restrict
    <3>3. QED
      BY <1>1, <1>3, <3>1, <3>2, UnwrittenPolicyKept DEF PolicyStep
  <2>2. ASSUME NEW owner \in Keys, NEW b \in AgentIds, NEW params \in PolicyParams,
               SetSpendPolicy(owner, b, params)
        PROVE  PolicyStep
    <3>1. /\ UNCHANGED <<payment_record, now>>
          /\ DOMAIN spend_policy' = DOMAIN spend_policy \cup {b}
          /\ \A a \in DOMAIN spend_policy : a # b => spend_policy'[a] = spend_policy[a]
          /\ Calls(b)' = 0 /\ Opened(b)' = now
      BY <2>2 DEF SetSpendPolicy, Stored, Calls, Opened
    <3>2. StartsPolicy(b)
      BY <3>1 DEF StartsPolicy
    <3>3. QED
      BY <1>1, <1>3, <3>1, <3>2, UnwrittenPolicyKept DEF PolicyStep
  <2>3. QED
    BY <1>2, <1>3, <1>6, <2>1, <2>2
       DEF Manage, RegisterAgent, DeactivateAgent, ReactivateAgent, SetActive, TransferOwnership
<1>7. CASE Pay
  BY <1>2, <1>3, <1>7, SettlePaymentOnPolicies, RecordPolicyViolationOnPolicies
     DEF Pay, WithdrawFunds, WithdrawAll
<1>8. CASE Environment
  <2>1. /\ UNCHANGED <<spend_policy, payment_record>>
        /\ now' = now \/ now' = now + 1
    BY <1>8 DEF Environment, CreateTokenAccount, Fund, Tick
  <2>2. now <= now'
    BY <2>1 DEF TypeOK
  <2>3. QED
    BY <1>2, <2>1, <2>2
<1>9. QED
  BY <1>4, <1>5, <1>6, <1>7, <1>8 DEF Next

-----------------------------------------------------------------------------
(* The invariant *)

\* No rate window began after the clock.
Begun == \A a \in DOMAIN spend_policy : Opened(a) <= now

Bracketed(a) ==
  /\ SaturatingAdd(0, Cardinality(EnforcedSince(a, Opened(a) + 1)), MaxU32) <= Calls(a)
  /\ Calls(a) <= Cardinality(EnforcedSince(a, Opened(a)))
  /\ spend_policy[a].rate_limit_calls > 0 => Calls(a) <= spend_policy[a].rate_limit_calls

RateInv ==
  /\ TypeOK
  /\ LedgerDated
  /\ Begun
  /\ \A a \in DOMAIN spend_policy : Bracketed(a)

LEMMA FiniteSince ==
  ASSUME IsFiniteSet(DOMAIN payment_record), NEW a, NEW s
  PROVE  IsFiniteSet(EnforcedSince(a, s)) /\ Cardinality(EnforcedSince(a, s)) \in Nat
<1>1. EnforcedSince(a, s) \subseteq DOMAIN payment_record
  BY DEF EnforcedSince, EnforcedOf, PassedOf, RecordsOf
<1>2. IsFiniteSet(EnforcedSince(a, s))
  BY <1>1, FS_Subset
<1>3. QED
  BY <1>2, FS_CardinalityType

(***************************************************************************)
(* A settlement the policy counts enters both sides of the bracket, or the *)
(* right side only when it is made in the window's first second.           *)
(***************************************************************************)
LEMMA BracketAfterCall ==
  ASSUME RateInv, PolicyStep, NEW a \in DOMAIN spend_policy, CallsPolicy(a)
  PROVE  Bracketed(a)'
<1> DEFINE policy == spend_policy[a]
           start  == Opened(a)
           count  == Calls(a)
<1>1. /\ policy \in SpendPolicy /\ now \in Nat /\ start \in Nat /\ start <= now
      /\ count \in Nat /\ count <= MaxU32 /\ MaxU32 \in Nat \ {0}
      /\ policy.rate_limit_calls \in Nat
  BY WidthAssumption DEF RateInv, Begun, TypeOK, SpendPolicy, Opened, Calls, U32
<1>2. PICK r \in DOMAIN payment_record' \ DOMAIN payment_record :
        EnforcedOf(a)' = EnforcedOf(a) \cup {r}
  BY DEF CallsPolicy
<1>3. payment_record'[r].settled_at = now
  BY DEF PolicyStep, LedgerGrows
<1>4. \A x \in EnforcedOf(a) : x \in DOMAIN payment_record /\ payment_record'[x] = payment_record[x]
  BY DEF EnforcedOf, PassedOf, RecordsOf, PolicyStep, LedgerGrows, IsRestriction
<1>5. \A s : {x \in EnforcedOf(a)' : payment_record'[x].settled_at >= s} =
               EnforcedSince(a, s) \cup (IF now >= s THEN {r} ELSE {})
  BY <1>2, <1>3, <1>4 DEF EnforcedSince
<1>6. \A s : r \notin EnforcedSince(a, s)
  BY <1>2, <1>4 DEF EnforcedSince
<1>7. ASSUME NEW s
      PROVE  /\ IsFiniteSet(EnforcedSince(a, s) \cup {r})
             /\ Cardinality(EnforcedSince(a, s)) \in Nat
             /\ Cardinality(EnforcedSince(a, s) \cup {r}) = Cardinality(EnforcedSince(a, s)) + 1
  BY <1>6, FiniteSince, FS_AddElement DEF RateInv, LedgerDated
<1>8. spend_policy'[a] = CountCall(policy, now)
  BY DEF CallsPolicy
<1>9. WithinRateLimit(ResetRateWindowIfElapsed(policy, now))
  BY DEF CallsPolicy
<1>10. CASE /\ policy.rate_limit_window_secs > 0
            /\ now >= policy.rate_limit_window_start + policy.rate_limit_window_secs
  <2>1. /\ Calls(a)' = 1 /\ Opened(a)' = now
        /\ spend_policy'[a].rate_limit_calls = policy.rate_limit_calls
    BY <1>1, <1>8, <1>10
       DEF CountCall, ResetRateWindowIfElapsed, SaturatingAdd, SpendPolicy, Calls, Opened
  <2>2. policy.rate_limit_calls > 0 => 1 <= policy.rate_limit_calls
    BY <1>1
  <2>3. \A x \in EnforcedOf(a) : payment_record[x].settled_at <= now
    BY <1>4 DEF RateInv, LedgerDated
  <2>4. EnforcedSince(a, now + 1) = {}
    <3>1. \A x \in DOMAIN payment_record : payment_record[x].settled_at \in Nat
      BY DEF RateInv, TypeOK, PaymentRecord
    <3>2. QED
      BY <1>1, <1>4, <2>3, <3>1 DEF EnforcedSince
  <2>5. EnforcedSince(a, Opened(a) + 1)' = {}
    BY <1>1, <1>5, <2>1, <2>4 DEF EnforcedSince
  <2>6. EnforcedSince(a, Opened(a))' = EnforcedSince(a, now) \cup {r}
    BY <1>1, <1>5, <2>1 DEF EnforcedSince
  <2>7. SaturatingAdd(0, Cardinality(EnforcedSince(a, Opened(a) + 1)'), MaxU32) <= 1
    BY <1>1, <2>5, FS_EmptySet DEF SaturatingAdd
  <2>8. 1 <= Cardinality(EnforcedSince(a, Opened(a))')
    <3>1. /\ Cardinality(EnforcedSince(a, now)) \in Nat
          /\ Cardinality(EnforcedSince(a, now) \cup {r}) =
               Cardinality(EnforcedSince(a, now)) + 1
      BY <1>7
    <3>2. QED
      BY <2>6, <3>1
  <2>9. QED
    BY <2>1, <2>2, <2>7, <2>8 DEF Bracketed
<1>11. CASE ~ /\ policy.rate_limit_window_secs > 0
              /\ now >= policy.rate_limit_window_start + policy.rate_limit_window_secs
  <2>1. /\ Calls(a)' = SaturatingAdd(count, 1, MaxU32) /\ Opened(a)' = start
        /\ spend_policy'[a].rate_limit_calls = policy.rate_limit_calls
    BY <1>1, <1>8, <1>11 DEF CountCall, ResetRateWindowIfElapsed, SpendPolicy, Calls, Opened
  <2>2. policy.rate_limit_calls > 0 => count < policy.rate_limit_calls
    BY <1>1, <1>9, <1>11 DEF WithinRateLimit, ResetRateWindowIfElapsed, Calls
  <2>3. EnforcedSince(a, Opened(a))' = EnforcedSince(a, start) \cup {r}
    BY <1>1, <1>5, <2>1 DEF EnforcedSince
  <2>4. EnforcedSince(a, Opened(a) + 1)' =
          EnforcedSince(a, start + 1) \cup (IF now >= start + 1 THEN {r} ELSE {})
    BY <1>1, <1>5, <2>1 DEF EnforcedSince
  <2> DEFINE low  == Cardinality(EnforcedSince(a, start + 1))
             high == Cardinality(EnforcedSince(a, start))
  <2>5. /\ low \in Nat /\ high \in Nat
        /\ SaturatingAdd(0, low, MaxU32) <= count /\ count <= high
    BY <1>7 DEF RateInv, Bracketed
  <2>6. Cardinality(EnforcedSince(a, Opened(a))') = high + 1
    BY <1>7, <2>3
  <2>7. \/ Cardinality(EnforcedSince(a, Opened(a) + 1)') = low + 1
        \/ Cardinality(EnforcedSince(a, Opened(a) + 1)') = low
    BY <1>7, <2>4
  <2> HIDE DEF low, high
  <2>8. SaturatingAdd(0, Cardinality(EnforcedSince(a, Opened(a) + 1)'), MaxU32) <= Calls(a)'
    BY <1>1, <2>1, <2>5, <2>7 DEF SaturatingAdd
  <2>9. Calls(a)' <= Cardinality(EnforcedSince(a, Opened(a))')
    BY <1>1, <2>1, <2>5, <2>6 DEF SaturatingAdd
  <2>10. policy.rate_limit_calls > 0 => Calls(a)' <= policy.rate_limit_calls
    BY <1>1, <2>1, <2>2 DEF SaturatingAdd
  <2>11. QED
    BY <2>1, <2>8, <2>9, <2>10 DEF Bracketed
<1>12. QED
  BY <1>10, <1>11

LEMMA BracketAfterStep ==
  ASSUME RateInv, TypeOK', PolicyStep, NEW a \in DOMAIN spend_policy'
  PROVE  Bracketed(a)'
<1>1. CASE StartsPolicy(a)
  <2>1. \A x \in EnforcedOf(a)' : x \in DOMAIN payment_record /\ payment_record'[x].settled_at <= now
    BY <1>1 DEF StartsPolicy, EnforcedOf, PassedOf, RecordsOf, RateInv, LedgerDated
  <2>2. \A x \in DOMAIN payment_record : payment_record[x].settled_at \in Nat
    BY DEF RateInv, TypeOK, PaymentRecord
  <2>3. EnforcedSince(a, Opened(a) + 1)' = {}
    BY <1>1, <2>1, <2>2 DEF StartsPolicy, EnforcedSince, RateInv, TypeOK
  <2>4. IsFiniteSet(DOMAIN payment_record)'
    BY <1>1 DEF StartsPolicy, RateInv, LedgerDated
  <2>5. Cardinality(EnforcedSince(a, Opened(a)))' \in Nat
    <3>1. EnforcedSince(a, Opened(a))' \subseteq DOMAIN payment_record'
      BY DEF EnforcedSince, EnforcedOf, PassedOf, RecordsOf
    <3>2. QED
      BY <2>4, <3>1, FS_Subset, FS_CardinalityType
  <2>6. SaturatingAdd(0, Cardinality(EnforcedSince(a, Opened(a) + 1))', MaxU32) = 0
    BY <2>3, FS_EmptySet, WidthAssumption DEF SaturatingAdd
  <2>7. Calls(a)' = 0
    BY <1>1 DEF StartsPolicy
  <2>8. spend_policy'[a].rate_limit_calls > 0 => 0 <= spend_policy'[a].rate_limit_calls
    <3>1. spend_policy'[a].rate_limit_calls \in Nat
      BY WidthAssumption DEF TypeOK, SpendPolicy, U32
    <3>2. QED
      BY <3>1
  <2>9. QED
    BY <2>5, <2>6, <2>7, <2>8 DEF Bracketed
<1>2. CASE KeepsPolicy(a)
  <2>1. a \in DOMAIN spend_policy /\ spend_policy'[a] = spend_policy[a] /\ EnforcedOf(a)' = EnforcedOf(a)
    BY <1>2 DEF KeepsPolicy
  <2>2. \A x \in EnforcedOf(a) : payment_record'[x] = payment_record[x]
    BY DEF EnforcedOf, PassedOf, RecordsOf, PolicyStep, LedgerGrows, IsRestriction
  <2>3. /\ Calls(a)' = Calls(a) /\ Opened(a)' = Opened(a)
        /\ \A s : {x \in EnforcedOf(a)' : payment_record'[x].settled_at >= s} = EnforcedSince(a, s)
    BY <2>1, <2>2 DEF Calls, Opened, EnforcedSince
  <2>4. /\ EnforcedSince(a, Opened(a))' = EnforcedSince(a, Opened(a))
        /\ EnforcedSince(a, Opened(a) + 1)' = EnforcedSince(a, Opened(a) + 1)
    BY <2>3 DEF EnforcedSince
  <2>5. Bracketed(a)
    BY <2>1 DEF RateInv
  <2>6. QED
    BY <2>1, <2>3, <2>4, <2>5 DEF Bracketed
<1>3. CASE CallsPolicy(a)
  <2>1. a \in DOMAIN spend_policy
    BY <1>3 DEF CallsPolicy
  <2>2. QED
    BY <1>3, <2>1, BracketAfterCall
<1>4. QED
  BY <1>1, <1>2, <1>3 DEF PolicyStep

LEMMA BegunAfterStep ==
  ASSUME RateInv, TypeOK', PolicyStep
  PROVE  Begun'
<1>1. now \in Nat /\ now' \in Nat /\ now <= now'
  BY DEF RateInv, TypeOK, PolicyStep
<1>2. ASSUME NEW a \in DOMAIN spend_policy'
      PROVE  Opened(a)' <= now'
  <2>1. CASE StartsPolicy(a)
    BY <1>1, <2>1 DEF StartsPolicy
  <2>2. CASE KeepsPolicy(a) \/ CallsPolicy(a)
    <3>1. /\ a \in DOMAIN spend_policy /\ spend_policy[a] \in SpendPolicy
          /\ Opened(a) \in Nat /\ Opened(a) <= now
      BY <2>2 DEF KeepsPolicy, CallsPolicy, RateInv, Begun, TypeOK, SpendPolicy, Opened
    <3>2. Opened(a)' = Opened(a) \/ Opened(a)' = now
      BY <2>2, <3>1 DEF KeepsPolicy, CallsPolicy, CountCall, ResetRateWindowIfElapsed,
                        SpendPolicy, Opened
    <3>3. QED
      BY <1>1, <3>1, <3>2
  <2>3. QED
    BY <2>1, <2>2 DEF PolicyStep
<1>3. QED
  BY <1>2 DEF Begun

(***************************************************************************)
(* However policy updates, window resets, enforced and unenforced payments *)
(* interleave, the counter is between the enforced settlements after the   *)
(* window's first second and those since it began, and within the limit.   *)
(***************************************************************************)
THEOREM RateCounterBracketsLedger == Spec => []RateCounterMatchesLedger
<1>1. Init => RateInv
  <2>1. Init => DOMAIN payment_record = {} /\ DOMAIN spend_policy = {}
    BY DEF Init, NoAccounts
  <2>2. QED
    BY <2>1, InitType, FS_EmptySet DEF RateInv, LedgerDated, Begun
<1>2. RateInv /\ TypeOK' /\ [Next]_vars => RateInv'
  <2> SUFFICES ASSUME RateInv, TypeOK', [Next]_vars
               PROVE  RateInv'
    OBVIOUS
  <2>1. PolicyStep
    BY StepOnPolicies DEF RateInv
  <2>2. LedgerDated'
    BY <2>1, LedgerStaysDated DEF PolicyStep, RateInv
  <2>3. QED
    BY <2>1, <2>2, BegunAfterStep, BracketAfterStep DEF RateInv
<1>3. RateInv => RateCounterMatchesLedger
  BY DEF RateInv, Bracketed, RateCounterMatchesLedger, EnforcedSince, Calls, Opened
<1>4. QED
  BY <1>1, <1>2, <1>3, TypeCorrect, PTL DEF Spec

-----------------------------------------------------------------------------
(* Budgets *)

(***************************************************************************)
(* A payment that the policy enforces leaves the ledger's total for each   *)
(* current window within its budget, for any budgets, any payments made    *)
(* unchecked before, any mints callers name, and up to the saturation of   *)
(* u64.  A wallet whose books are wrong (OpenBooksInv) settles nothing.    *)
(***************************************************************************)
THEOREM BudgetsHold == Spec => EnforcedWithinBudget
<1> DEFINE Obeyed(a) ==
      \A r \in PassedOf(a)' \ PassedOf(a) :
        EnforcedOnChain(spend_policy[a], payment_record'[r].amount_usdc) =>
          \A w \in Windows :
            /\ agent_wallet'[a].window_start[w] \in (now - Period(w) + 1)..now
            /\ spend_policy[a].budget[w] > 0 => LedgerSpend(a, w)' <= spend_policy[a].budget[w]
<1>1. TypeOK /\ TypeOK' /\ OpenBooksInv /\ [Next]_vars =>
        [\A a \in DOMAIN agent_wallet \cap DOMAIN spend_policy : Obeyed(a)]_payment_record
  <2> SUFFICES ASSUME TypeOK, TypeOK', OpenBooksInv, [Next]_vars,
                      NEW a \in DOMAIN agent_wallet \cap DOMAIN spend_policy,
                      NEW r \in PassedOf(a)' \ PassedOf(a),
                      EnforcedOnChain(spend_policy[a], payment_record'[r].amount_usdc),
                      NEW w \in Windows
               PROVE  /\ agent_wallet'[a].window_start[w] \in (now - Period(w) + 1)..now
                      /\ spend_policy[a].budget[w] > 0 =>
                           LedgerSpend(a, w)' <= spend_policy[a].budget[w]
    OBVIOUS
  <2>1. a \in AgentIds /\ agent_wallet[a] \in AgentWallet /\ now \in Nat
    BY DEF TypeOK
  <2>2. a \in DOMAIN agent_wallet'
    <3>1. payment_record' # payment_record
      BY DEF PassedOf, RecordsOf
    <3>2. DOMAIN agent_wallet' = DOMAIN agent_wallet
      BY <3>1, StepOnLedger DEF LedgerStep, LeavesLedger, AppendsEntry
    <3>3. QED
      BY <3>2
  <2>3. Settles(a) /\ now' = now
    BY <2>2, StepOnBooks DEF BooksStep, KeepsBooks, StartsBooks, StartsCounters
  <2>4. PICK amount :
          /\ amount = payment_record'[r].amount_usdc
          /\ HasRoom(a, amount)
          /\ agent_wallet'[a] = RecordSpend(ResetWindowsIfElapsed(agent_wallet[a], now), amount, now)
    BY <2>3 DEF Settles
  <2>5. /\ payment_record'[r].settled_at = now /\ amount \in U64
    <3>1. r \in DOMAIN payment_record' \ DOMAIN payment_record
      BY <2>3 DEF Settles, PassedOf, RecordsOf
    <3>2. payment_record'[r].amount_usdc \in U64
      BY <3>1, InputsAssumption DEF TypeOK, PaymentRecord
    <3>3. QED
      BY <2>4, <3>1, <3>2, StepOnBooks DEF BooksStep, LedgerGrows
  <2>6. Booked(a)'
    <3>1. Booked(a)
      BY <2>1, <2>3, StepOnLedger, SettlerCanAppend DEF OpenBooksInv
    <3>2. QED
      BY <2>1, <2>3, <3>1, StepOnBooks, BookedAfterSettlement DEF BooksStep, OpenBooksInv
  <2>7. /\ agent_wallet'[a].window_start[w] \in Nat
        /\ agent_wallet'[a].window_start[w] <= now
        /\ now < agent_wallet'[a].window_start[w] + Period(w)
        /\ agent_wallet'[a].spend[w] = LedgerSpend(a, w)'
    BY <2>2, <2>3, <2>5, <2>6 DEF Booked, TypeOK, AgentWallet
  <2>8. agent_wallet'[a].spend[w] =
          SaturatingAdd(ResetWindowsIfElapsed(agent_wallet[a], now).spend[w], amount, MaxU64)
    <3> DEFINE after == agent_wallet'[a]
    <3>1. after = RecordSpend(ResetWindowsIfElapsed(agent_wallet[a], now), amount, now)
      BY <2>4
    <3> HIDE DEF after
    <3>2. after.spend[w] = SaturatingAdd(ResetWindowsIfElapsed(agent_wallet[a], now).spend[w], amount, MaxU64)
      BY <2>1, <2>5, <3>1, SpentWallet
    <3>3. QED
      BY <3>2 DEF after
  <2>9. spend_policy[a].budget[w] > 0 => agent_wallet'[a].spend[w] <= spend_policy[a].budget[w]
    <3>1. WithinBudget(spend_policy[a], w, ResetWindowsIfElapsed(agent_wallet[a], now).spend[w], amount)
      BY <2>4 DEF HasRoom
    <3>2. QED
      BY <2>8, <3>1 DEF WithinBudget
  <2>10. QED
    BY <2>1, <2>7, <2>9, PeriodPositive
<1>2. QED
  BY <1>1, OpenBooksInvariant, TypeCorrect, PTL DEF Spec, EnforcedWithinBudget

-----------------------------------------------------------------------------
(* Any period, not only the windows of the grid *)

\* What the records of S that fall in the period p from second s amount to
PaidIn(table, S, s, p) ==
  VolumeIn(table, {r \in S : table[r].settled_at >= s /\ table[r].settled_at < s + p})

PaidFrom(table, S, s) == VolumeIn(table, {r \in S : table[r].settled_at >= s})

Dated(table, S) == Amounting(table, S) /\ \A r \in S : table[r].settled_at \in Nat

LEMMA PaidInNone ==
  ASSUME NEW table, NEW S, Dated(table, S), NEW s \in Int, NEW p \in Int,
         \A r \in S : table[r].settled_at < s
  PROVE  PaidIn(table, S, s, p) = 0
<1>1. {r \in S : table[r].settled_at >= s /\ table[r].settled_at < s + p} = {}
  BY DEF Dated
<1>2. QED
  BY <1>1, VolumeOfNone DEF PaidIn

(***************************************************************************)
(* A record that comes after the period does not add to it.                *)
(***************************************************************************)
LEMMA PaidInBefore ==
  ASSUME NEW table, NEW later, NEW S, Dated(table, S), \A x \in S : later[x] = table[x],
         NEW s \in Int, NEW p \in Int, NEW T, S \subseteq T,
         \A x \in T \ S : later[x].settled_at \in Nat /\ s + p <= later[x].settled_at
  PROVE  PaidIn(later, T, s, p) = PaidIn(table, S, s, p)
<1> DEFINE In == {r \in S : table[r].settled_at >= s /\ table[r].settled_at < s + p}
<1>1. {r \in T : later[r].settled_at >= s /\ later[r].settled_at < s + p} = In
  BY DEF Dated
<1>2. In \in SUBSET S /\ Amounting(table, In)
  BY FS_Subset DEF Dated, Amounting
<1>3. VolumeIn(later, In) = VolumeIn(table, In)
  BY <1>2, VolumeKept
<1>4. QED
  BY <1>1, <1>3 DEF PaidIn

(***************************************************************************)
(* A period lies in two adjacent windows of its length.                    *)
(***************************************************************************)
LEMMA PaidInTwoWindows ==
  ASSUME NEW table, NEW S, Dated(table, S), NEW p \in Nat, NEW s \in Int, NEW t \in Int,
         s <= t, t < s + p
  PROVE  PaidIn(table, S, t, p) <= PaidIn(table, S, s, p) + PaidIn(table, S, s + p, p)
<1> DEFINE In(b)  == {r \in S : table[r].settled_at >= b /\ table[r].settled_at < b + p}
           period == In(t)
           first  == {r \in period : table[r].settled_at < s + p}
<1>1. /\ period \in SUBSET S /\ first \in SUBSET period
      /\ In(s) \in SUBSET S /\ In(s + p) \in SUBSET S
      /\ first \in SUBSET In(s) /\ (period \ first) \in SUBSET In(s + p)
  BY DEF Dated
<1>2. Amounting(table, period) /\ Amounting(table, In(s)) /\ Amounting(table, In(s + p))
  BY <1>1, FS_Subset DEF Dated, Amounting
<1> HIDE DEF In, first
<1>3. VolumeIn(table, period) <= VolumeIn(table, first) + VolumeIn(table, period \ first)
  BY <1>1, <1>2, VolumeOfParts
<1>4. /\ VolumeIn(table, first) <= VolumeIn(table, In(s))
      /\ VolumeIn(table, first) \in U64 /\ VolumeIn(table, In(s)) \in U64
  <2>1. In(s) \in SUBSET In(s)
    OBVIOUS
  <2>2. QED
    BY <1>1, <1>2, <2>1, VolumeOfParts
<1>5. /\ VolumeIn(table, period \ first) <= VolumeIn(table, In(s + p))
      /\ VolumeIn(table, period \ first) \in U64 /\ VolumeIn(table, In(s + p)) \in U64
  <2>1. In(s + p) \in SUBSET In(s + p)
    OBVIOUS
  <2>2. QED
    BY <1>1, <1>2, <2>1, VolumeOfParts
<1>6. VolumeIn(table, period) \in U64
  <2>1. period \in SUBSET period
    OBVIOUS
  <2>2. QED
    BY <1>2, <2>1, VolumeOfParts
<1>7. VolumeIn(table, period) <= VolumeIn(table, In(s)) + VolumeIn(table, In(s + p))
  <2>1. \A x \in U64 : x \in Int
    BY WidthAssumption DEF U64
  <2>2. QED
    BY <1>3, <1>4, <1>5, <1>6, <2>1
<1>8. QED
  BY <1>7 DEF PaidIn, In

(***************************************************************************)
(* A time before the end of a window lies in it or in one before it.       *)
(***************************************************************************)
LEMMA WindowOf ==
  ASSUME NEW start \in Nat, NEW p \in Nat \ {0}, NEW t \in Nat, t < start + p
  PROVE  \E k \in Nat : start - k * p <= t /\ t < (start - k * p) + p
<1> DEFINE d == start + p - 1 - t
           k == d \div p
<1>1. d \in Nat
  OBVIOUS
<1> HIDE DEF d
<1>2. k \in Nat /\ k * p <= d /\ d < k * p + p
  BY <1>1
<1> HIDE DEF k
<1>3. k * p \in Nat
  BY <1>2
<1>4. start - k * p <= t /\ t < (start - k * p) + p
  BY <1>2, <1>3 DEF d
<1>5. QED
  BY <1>2, <1>4

(***************************************************************************)
(* A payment into the window at begin leaves every window of the grid      *)
(* within the limit when it leaves that one so: the windows before it are  *)
(* as they were, and those it skipped are empty.                           *)
(***************************************************************************)
LEMMA GridAfterPayment ==
  ASSUME NEW table, NEW later, NEW S, Dated(table, S), \A x \in S : later[x] = table[x],
         NEW r, NEW time \in Nat, later[r].settled_at = time,
         NEW start \in Nat, NEW p \in Nat \ {0}, \A x \in S : table[x].settled_at < start + p,
         NEW begin \in Nat, NEW j \in Nat, begin = start + j * p,
         begin <= time, time < begin + p,
         NEW limit \in Nat,
         PaidFrom(later, S \cup {r}, begin) <= limit,
         \A k \in Nat : PaidIn(table, S, start - k * p, p) <= limit
  PROVE  \A k \in Nat : PaidIn(later, S \cup {r}, begin - k * p, p) <= limit
<1> SUFFICES ASSUME NEW k \in Nat
             PROVE  PaidIn(later, S \cup {r}, begin - k * p, p) <= limit
  OBVIOUS
<1>1. j * p \in Nat /\ k * p \in Nat
  OBVIOUS
<1>2. CASE k = 0
  <2>1. begin - k * p = begin
    BY <1>2
  <2>2. \A x \in S \cup {r} : later[x].settled_at < begin + p
    BY <1>1 DEF Dated
  <2>3. {x \in S \cup {r} : later[x].settled_at >= begin /\ later[x].settled_at < begin + p}
          = {x \in S \cup {r} : later[x].settled_at >= begin}
    BY <2>2
  <2>4. QED
    BY <2>1, <2>3 DEF PaidIn, PaidFrom
<1>3. CASE k # 0
  <2>1. PICK m \in Nat : k = m + 1
    <3>1. k - 1 \in Nat /\ k = (k - 1) + 1
      BY <1>3
    <3>2. QED
      BY <3>1
  <2>2. PICK s \in Int : s = begin - k * p
    BY <1>1
  <2>3. s + p <= begin
    <3>1. k * p = m * p + p /\ m * p >= 0
      BY <2>1
    <3>2. QED
      BY <1>1, <2>2, <3>1
  <2>4. PaidIn(later, S \cup {r}, s, p) = PaidIn(table, S, s, p)
    <3>1. \A x \in (S \cup {r}) \ S : later[x].settled_at \in Nat /\ s + p <= later[x].settled_at
      BY <2>2, <2>3
    <3>2. S \subseteq S \cup {r}
      OBVIOUS
    <3>3. QED
      BY <2>2, <3>1, <3>2, PaidInBefore
  <2>5. CASE j <= k
    <3>1. PICK i \in Nat : k = j + i
      <4>1. k - j \in Nat /\ k = j + (k - j)
        BY <2>5
      <4>2. QED
        BY <4>1
    <3>2. k * p = j * p + i * p
      BY <3>1
    <3>3. s = start - i * p
      BY <1>1, <2>2, <3>2
    <3>4. QED
      BY <2>2, <2>4, <3>3
  <2>6. CASE j > k
    <3>1. PICK i \in Nat : j = k + i + 1
      <4>1. j - k - 1 \in Nat /\ j = k + (j - k - 1) + 1
        BY <2>6
      <4>2. QED
        BY <4>1
    <3>2. j * p = k * p + i * p + p /\ i * p >= 0
      BY <3>1
    <3>3. start + p <= s
      BY <1>1, <2>2, <3>2
    <3>4. \A x \in S : table[x].settled_at < s
      BY <2>2, <3>3 DEF Dated
    <3>5. PaidIn(table, S, s, p) = 0
      BY <3>4, PaidInNone
    <3>6. QED
      BY <2>2, <2>4, <3>5
  <2>7. QED
    BY <2>5, <2>6
<1>4. QED
  BY <1>2, <1>3

(***************************************************************************)
(* Until the policy is replaced, no window of the grid, past or current,   *)
(* holds more than its budget; and without a policy nothing is paid.       *)
(***************************************************************************)
Limits(a, w) ==
  /\ a \in DOMAIN spend_policy
  /\ spend_policy[a].high_value_threshold = 1
  /\ spend_policy[a].budget[w] > 0

WithinGrid(a) ==
  /\ a \in DOMAIN agent_wallet \ DOMAIN spend_policy => PassedOf(a) = {}
  /\ \A w \in Windows :
       Limits(a, w) =>
         \A k \in Nat :
           PaidIn(payment_record, PassedOf(a), agent_wallet[a].window_start[w] - k * Period(w),
                  Period(w)) <= spend_policy[a].budget[w]

GridInv == BooksInv /\ \A a \in AgentIds : WithinGrid(a)

\* Budgets and threshold of a policy stay what they were first set to.
PoliciesStand ==
  \A a \in DOMAIN spend_policy \cap DOMAIN spend_policy' :
    /\ spend_policy'[a].budget = spend_policy[a].budget
    /\ spend_policy'[a].high_value_threshold = spend_policy[a].high_value_threshold

(***************************************************************************)
(* A policy goes only with its wallet.                                     *)
(***************************************************************************)
LEMMA PoliciesLast ==
  ASSUME [Next]_vars
  PROVE  \A a \in DOMAIN spend_policy : a \in DOMAIN agent_wallet' => a \in DOMAIN spend_policy'
<1>1. ASSUME Administer
      PROVE  UNCHANGED spend_policy
  BY <1>1 DEF Administer, InitProtocol, RotateProtocolAdmin, UpdateProtocolConfig, FreezeAgent,
              UnfreezeAgent, SetFrozen
<1>2. ASSUME Manage
      PROVE  \A a \in DOMAIN spend_policy : a \in DOMAIN agent_wallet' => a \in DOMAIN spend_policy'
  BY <1>2 DEF Manage, RegisterAgent, CloseAgent, Closed, Restrict, DeactivateAgent,
              ReactivateAgent, SetActive, TransferOwnership, SetSpendPolicy, Stored
<1>3. ASSUME Pay
      PROVE  DOMAIN spend_policy \subseteq DOMAIN spend_policy'
  <2>1. ASSUME NEW owner \in Keys, NEW a \in AgentIds, NEW mint \in Mints, NEW payee \in Holders,
               NEW sequence \in U64, NEW params \in PaymentParams,
               SettlePayment(owner, a, mint, payee, sequence, params)
        PROVE  DOMAIN spend_policy' = DOMAIN spend_policy
    BY <2>1 DEF SettlePayment, AdmitsPayment
  <2>2. ASSUME NEW owner \in Keys, NEW a \in AgentIds, NEW sequence \in U64,
               NEW params \in PaymentParams, RecordPolicyViolation(owner, a, sequence, params)
        PROVE  UNCHANGED spend_policy
    BY <2>2 DEF RecordPolicyViolation
  <2>3. ASSUME NEW owner \in Keys, NEW a \in AgentIds, NEW mint \in Mints, NEW amount,
               WithdrawFunds(owner, a, mint, amount)
        PROVE  UNCHANGED spend_policy
    BY <2>3 DEF WithdrawFunds
  <2>4. QED
    BY <1>3, <2>1, <2>2, <2>3 DEF Pay, WithdrawAll
<1>4. ASSUME Environment
      PROVE  UNCHANGED spend_policy
  BY <1>4 DEF Environment, CreateTokenAccount, Fund, Tick
<1>5. QED
  BY <1>1, <1>2, <1>3, <1>4 DEF Next, vars

LEMMA WithinGridWhenUnpaid ==
  ASSUME TypeOK', NEW a \in AgentIds, PassedOf(a)' = {}
  PROVE  WithinGrid(a)'
<1> SUFFICES ASSUME NEW w \in Windows, Limits(a, w)', NEW k \in Nat
             PROVE  PaidIn(payment_record', PassedOf(a)',
                           agent_wallet'[a].window_start[w] - k * Period(w), Period(w))
                      <= spend_policy'[a].budget[w]
  BY DEF WithinGrid
<1>1. PaidIn(payment_record', {}, agent_wallet'[a].window_start[w] - k * Period(w), Period(w)) = 0
  BY VolumeOfNone DEF PaidIn
<1>2. spend_policy'[a].budget[w] \in Nat
  BY WidthAssumption DEF Limits, TypeOK, SpendPolicy, U64
<1>3. QED
  BY <1>1, <1>2

(***************************************************************************)
(* What GridAfterPayment asks of the wallet before and after a settlement  *)
(***************************************************************************)
LEMMA StartOnGrid ==
  ASSUME NEW wallet \in AgentWallet, NEW time \in Nat, NEW w \in Windows,
         wallet.window_start[w] <= time
  PROVE  LET begin == ResetWindowsIfElapsed(wallet, time).window_start[w]
         IN  \E j \in Nat : begin = wallet.window_start[w] + j * Period(w)
<1> DEFINE start == wallet.window_start[w]
           begin == ResetWindowsIfElapsed(wallet, time).window_start[w]
<1>1. /\ start \in Nat /\ Period(w) \in Nat \ {0} /\ start <= time
      /\ begin = IF WindowElapsed(wallet, w, time)
                 THEN AdvancedStart(start, Period(w), time) ELSE start
  BY PeriodPositive DEF AgentWallet, ResetWindowsIfElapsed
<1> HIDE DEF start, begin
<1>2. \A p \in Nat \ {0} : \E j \in Nat : AdvancedStart(start, p, time) = start + j * p
  BY <1>1, AdvancedStartContains
<1>3. start = start + 0 * Period(w)
  BY <1>1
<1>4. QED
  BY <1>1, <1>2, <1>3 DEF start, begin

LEMMA WithinGridAfterSettlement ==
  ASSUME TypeOK, TypeOK', BooksInv, BooksInv', [Next]_vars, PoliciesStand,
         NEW a \in AgentIds, Settles(a), now' = now, a \in DOMAIN agent_wallet', WithinGrid(a)
  PROVE  WithinGrid(a)'
<1>1. a \in DOMAIN spend_policy /\ a \in DOMAIN spend_policy' /\ a \in DOMAIN agent_wallet
  BY PoliciesLast DEF Settles
<1>2. /\ agent_wallet[a] \in AgentWallet /\ agent_wallet'[a] \in AgentWallet /\ now \in Nat
      /\ spend_policy[a] \in SpendPolicy
  BY <1>1 DEF TypeOK
<1> SUFFICES ASSUME NEW w \in Windows, Limits(a, w)'
             PROVE  \A k \in Nat :
                      PaidIn(payment_record', PassedOf(a)',
                             agent_wallet'[a].window_start[w] - k * Period(w), Period(w))
                        <= spend_policy'[a].budget[w]
  BY <1>1 DEF WithinGrid
<1>3. PICK S, table, later, start, begin, p, limit :
        /\ S = PassedOf(a) /\ table = payment_record /\ later = payment_record'
        /\ start = agent_wallet[a].window_start[w] /\ begin = agent_wallet'[a].window_start[w]
        /\ p = Period(w) /\ limit = spend_policy[a].budget[w]
  OBVIOUS
<1>4. /\ Limits(a, w) /\ spend_policy'[a].budget[w] = limit
      /\ limit \in Nat
  BY <1>1, <1>2, <1>3, WidthAssumption DEF Limits, PoliciesStand, SpendPolicy, U64
<1>5. PICK r \in DOMAIN payment_record' \ DOMAIN payment_record :
        /\ PassedOf(a)' = S \cup {r}
        /\ payment_record'[r].amount_usdc > 0
        /\ HasRoom(a, payment_record'[r].amount_usdc)
        /\ agent_wallet'[a] = RecordSpend(ResetWindowsIfElapsed(agent_wallet[a], now),
                                          payment_record'[r].amount_usdc, now)
  BY <1>3 DEF Settles
<1>6. later[r].settled_at = now /\ payment_record'[r].amount_usdc \in U64
  <2>1. payment_record'[r].amount_usdc \in U64
    BY <1>5, InputsAssumption DEF TypeOK, PaymentRecord
  <2>2. QED
    BY <1>3, <2>1, StepOnBooks DEF BooksStep, LedgerGrows
<1>7. Dated(table, S) /\ \A x \in S : later[x] = table[x]
  <2>1. /\ S \subseteq DOMAIN payment_record /\ Amounting(table, S)
        /\ \A x \in S : table[x].settled_at \in Nat
    BY <1>3, PassedRecords DEF BooksInv
  <2>2. QED
    BY <1>3, <2>1, StepOnBooks DEF BooksStep, LedgerGrows, IsRestriction, Dated
<1>8. /\ start \in Nat /\ start <= now /\ p \in Nat \ {0}
      /\ \A x \in S : table[x].settled_at < start + p
  BY <1>1, <1>2, <1>3, PeriodPositive DEF BooksInv, Booked, AgentWallet
<1>9. /\ begin = ResetWindowsIfElapsed(agent_wallet[a], now).window_start[w]
      /\ agent_wallet'[a].spend[w] =
           SaturatingAdd(ResetWindowsIfElapsed(agent_wallet[a], now).spend[w],
                         payment_record'[r].amount_usdc, MaxU64)
  <2>1. PICK amount, after : amount = payment_record'[r].amount_usdc /\ after = agent_wallet'[a]
    OBVIOUS
  <2>2. after = RecordSpend(ResetWindowsIfElapsed(agent_wallet[a], now), amount, now)
    BY <1>5, <2>1
  <2>3. /\ after.window_start = ResetWindowsIfElapsed(agent_wallet[a], now).window_start
        /\ after.spend[w] = SaturatingAdd(ResetWindowsIfElapsed(agent_wallet[a], now).spend[w],
                                          amount, MaxU64)
    BY <1>2, <1>6, <2>1, <2>2, SpentWallet
  <2>4. QED
    BY <1>3, <2>1, <2>3
<1>10. begin \in Nat /\ \E j \in Nat : begin = start + j * p
  <2>1. agent_wallet'[a].window_start[w] \in Nat
    BY <1>2 DEF AgentWallet
  <2>2. QED
    BY <1>2, <1>3, <1>8, <1>9, <2>1, StartOnGrid
<1>11. /\ begin <= now /\ now < begin + p
       /\ agent_wallet'[a].spend[w] = PaidFrom(later, S \cup {r}, begin)
  <2>1. Booked(a)'
    BY DEF BooksInv
  <2>2. /\ begin <= now
        /\ \A x \in S \cup {r} : later[x].settled_at < begin + p
        /\ agent_wallet'[a].spend[w] = LedgerSpend(a, w)'
    BY <1>3, <1>5, <2>1 DEF Booked
  <2>3. LedgerSpend(a, w)' = VolumeIn(payment_record', PassedSince(a, agent_wallet[a].window_start[w])')
    BY DEF LedgerSpend, Volume, VolumeIn, MapThenSumSet, MapThenFoldSet
  <2>4. PassedSince(a, agent_wallet[a].window_start[w])' =
          {x \in S \cup {r} : later[x].settled_at >= begin}
    BY <1>3, <1>5 DEF PassedSince
  <2>5. QED
    BY <1>3, <1>6, <2>2, <2>3, <2>4 DEF PaidFrom
<1>12. agent_wallet'[a].spend[w] <= limit
  <2>1. EnforcedOnChain(spend_policy[a], payment_record'[r].amount_usdc)
    BY <1>4, <1>5, <1>6, WidthAssumption DEF EnforcedOnChain, Limits, U64
  <2>2. WithinBudget(spend_policy[a], w, ResetWindowsIfElapsed(agent_wallet[a], now).spend[w],
                     payment_record'[r].amount_usdc)
    BY <1>5, <2>1 DEF HasRoom
  <2>3. QED
    BY <1>3, <1>4, <1>9, <2>2 DEF WithinBudget, Limits
<1>13. \A k \in Nat : PaidIn(table, S, start - k * p, p) <= limit
  BY <1>3, <1>4 DEF WithinGrid
<1>14. \A k \in Nat : PaidIn(later, S \cup {r}, begin - k * p, p) <= limit
  <2>1. PaidFrom(later, S \cup {r}, begin) <= limit
    BY <1>11, <1>12
  <2>2. PICK j \in Nat : begin = start + j * p
    BY <1>10
  <2>3. PICK time \in Nat : /\ later[r].settled_at = time
                            /\ begin <= time /\ time < begin + p
    BY <1>2, <1>6, <1>11
  <2>4. /\ begin \in Nat /\ p \in Nat \ {0} /\ start \in Nat /\ limit \in Nat
        /\ \A x \in S : table[x].settled_at < start + p
    BY <1>4, <1>8, <1>10
  <2>5. QED
    BY <1>7, <1>13, <2>1, <2>2, <2>3, <2>4, GridAfterPayment
<1>15. QED
  BY <1>3, <1>4, <1>5, <1>14

LEMMA GridInvPreserved ==
  ASSUME SingleMint, TypeOK, TypeOK', GridInv, BooksInv', [Next]_vars, PoliciesStand
  PROVE  GridInv'
<1> SUFFICES ASSUME NEW a \in AgentIds
             PROVE  WithinGrid(a)'
  BY DEF GridInv
<1>1. BooksInv /\ WithinGrid(a)
  BY DEF GridInv
<1>2. CASE a \notin DOMAIN agent_wallet'
  BY <1>2 DEF TypeOK, WithinGrid, Limits
<1>3. CASE a \in DOMAIN agent_wallet' /\ StartsBooks(a)
  <2>1. RecordsOf(a) = {}
    BY <1>1, <1>3, NoSecondStart DEF StartsBooks, BooksInv, Accounted
  <2>2. PassedOf(a)' = {}
    BY <1>3, <2>1 DEF StartsBooks, PassedOf, RecordsOf
  <2>3. QED
    BY <2>2, WithinGridWhenUnpaid
<1>4. CASE a \in DOMAIN agent_wallet' /\ Settles(a) /\ now' = now
  BY <1>1, <1>4, WithinGridAfterSettlement
<1>5. CASE a \in DOMAIN agent_wallet' /\ KeepsBooks(a)
  <2>1. CASE a \notin DOMAIN spend_policy
    BY <1>1, <1>5, <2>1, WithinGridWhenUnpaid DEF KeepsBooks, WithinGrid
  <2>2. CASE a \in DOMAIN spend_policy
    <3>1. a \in DOMAIN spend_policy'
      BY <1>5, <2>2, PoliciesLast
    <3>2. \A w \in Windows : Limits(a, w)' => Limits(a, w)
      BY <2>2, <3>1 DEF Limits, PoliciesStand
    <3>3. PICK S : S = PassedOf(a)
      OBVIOUS
    <3>4. /\ PassedOf(a)' = S
          /\ Dated(payment_record, S)
          /\ \A x \in S : payment_record'[x] = payment_record[x]
      <4>1. S \subseteq DOMAIN payment_record /\ Dated(payment_record, S)
        BY <1>1, <3>3, PassedRecords DEF BooksInv, Dated
      <4>2. QED
        BY <1>5, <3>3, <4>1, StepOnBooks DEF KeepsBooks, BooksStep, LedgerGrows, IsRestriction
    <3>5. ASSUME NEW w \in Windows, Limits(a, w)', NEW k \in Nat
          PROVE  PaidIn(payment_record', S, agent_wallet'[a].window_start[w] - k * Period(w), Period(w))
                   <= spend_policy'[a].budget[w]
      <4>1. PICK s \in Int, p \in Nat :
              s = agent_wallet[a].window_start[w] - k * Period(w) /\ p = Period(w)
        <5>1. agent_wallet[a].window_start[w] \in Nat /\ Period(w) \in Nat
          BY <1>5, PeriodPositive DEF KeepsBooks, TypeOK, AgentWallet
        <5>2. k * Period(w) \in Nat
          BY <5>1
        <5>3. QED
          BY <5>1, <5>2
      <4>2. PaidIn(payment_record', S, s, p) = PaidIn(payment_record, S, s, p)
        <5>1. S \subseteq S /\ S \ S = {}
          OBVIOUS
        <5>2. QED
          BY <3>4, <5>1, PaidInBefore
      <4>3. PaidIn(payment_record, S, s, p) <= spend_policy[a].budget[w]
        BY <1>1, <3>2, <3>3, <3>5, <4>1 DEF WithinGrid
      <4>4. agent_wallet'[a].window_start[w] = agent_wallet[a].window_start[w]
        BY <1>5 DEF KeepsBooks
      <4>5. spend_policy'[a].budget[w] = spend_policy[a].budget[w]
        BY <2>2, <3>1 DEF PoliciesStand
      <4>6. QED
        BY <4>1, <4>2, <4>3, <4>4, <4>5
    <3>6. QED
      BY <3>1, <3>4, <3>5 DEF WithinGrid
  <2>3. QED
    BY <2>1, <2>2
<1>6. QED
  BY <1>2, <1>3, <1>4, <1>5, StepOnBooks DEF BooksStep

LEMMA GridWithinTwoBudgets ==
  ASSUME TypeOK, GridInv
  PROVE  AnyPeriodWithinTwoBudgets
<1> SUFFICES ASSUME NEW a \in DOMAIN spend_policy, NEW w \in Windows, NEW t \in 1..now,
                    spend_policy[a].budget[w] > 0, spend_policy[a].high_value_threshold = 1
             PROVE  SpentFrom(a, w, t) <= 2 * spend_policy[a].budget[w]
  BY DEF AnyPeriodWithinTwoBudgets
<1>1. /\ a \in AgentIds /\ a \in DOMAIN agent_wallet
      /\ agent_wallet[a] \in AgentWallet /\ spend_policy[a] \in SpendPolicy
  BY DEF TypeOK
<1>2. PICK S, table, start, p, limit :
        /\ S = PassedOf(a) /\ table = payment_record
        /\ start = agent_wallet[a].window_start[w] /\ p = Period(w)
        /\ limit = spend_policy[a].budget[w]
  OBVIOUS
<1>3. /\ start \in Nat /\ p \in Nat \ {0} /\ limit \in Nat /\ t \in Nat
      /\ Dated(table, S)
      /\ \A x \in S : table[x].settled_at < start + p
  <2>1. start \in Nat /\ p \in Nat \ {0} /\ limit \in Nat /\ t \in Nat
    BY <1>1, <1>2, PeriodPositive, WidthAssumption DEF AgentWallet, SpendPolicy, U64, TypeOK
  <2>2. Dated(table, S)
    BY <1>2, PassedRecords DEF GridInv, BooksInv, Dated
  <2>3. \A x \in S : table[x].settled_at < start + p
    BY <1>1, <1>2 DEF GridInv, BooksInv, Booked
  <2>4. QED
    BY <2>1, <2>2, <2>3
<1>4. \A k \in Nat : PaidIn(table, S, start - k * p, p) <= limit
  BY <1>1, <1>2 DEF GridInv, WithinGrid, Limits
<1>5. SpentFrom(a, w, t) = PaidIn(table, S, t, p)
  <2>1. {r \in PassedSince(a, t) : payment_record[r].settled_at < t + Period(w)}
          = {r \in S : table[r].settled_at >= t /\ table[r].settled_at < t + p}
    BY <1>2 DEF PassedSince
  <2>2. QED
    BY <1>2, <2>1, VolumeIsVolumeIn DEF SpentFrom, PaidIn
<1>6. \A s \in Int : PaidIn(table, S, s, p) \in Nat
  <2>1. ASSUME NEW s \in Int
        PROVE  PaidIn(table, S, s, p) \in U64
    <3> DEFINE In == {r \in S : table[r].settled_at >= s /\ table[r].settled_at < s + p}
    <3>1. In \in SUBSET S
      OBVIOUS
    <3> HIDE DEF In
    <3>2. VolumeIn(table, In) \in U64
      BY <1>3, <3>1, VolumeOfParts DEF Dated
    <3>3. QED
      BY <3>2 DEF In, PaidIn
  <2>2. QED
    BY <2>1, WidthAssumption DEF U64
<1>7. CASE t >= start + p
  <2>1. \A x \in S : table[x].settled_at < t
    BY <1>3, <1>7 DEF Dated
  <2>2. PaidIn(table, S, t, p) = 0
    BY <1>3, <2>1, PaidInNone
  <2>3. QED
    BY <1>2, <1>3, <1>5, <2>2
<1>8. CASE t < start + p
  <2>1. PICK k \in Nat : start - k * p <= t /\ t < (start - k * p) + p
    BY <1>3, <1>8, WindowOf
  <2>2. k * p \in Nat
    BY <1>3
  <2>3. PICK s \in Int : s = start - k * p
    BY <1>3, <2>2
  <2>4. PaidIn(table, S, t, p) <= PaidIn(table, S, s, p) + PaidIn(table, S, s + p, p)
    BY <1>3, <2>1, <2>3, PaidInTwoWindows
  <2>5. PaidIn(table, S, s, p) <= limit
    BY <1>4, <2>3
  <2>6. PaidIn(table, S, s + p, p) <= limit
    <3>1. CASE k = 0
      <4>1. \A x \in S : table[x].settled_at < s + p
        BY <1>3, <2>3, <3>1
      <4>2. PaidIn(table, S, s + p, p) = 0
        BY <1>3, <4>1, PaidInNone
      <4>3. QED
        BY <1>3, <4>2
    <3>2. CASE k # 0
      <4>1. PICK m \in Nat : k = m + 1
        <5>1. k - 1 \in Nat /\ k = (k - 1) + 1
          BY <3>2
        <5>2. QED
          BY <5>1
      <4>2. k * p = m * p + p /\ m * p \in Nat
        BY <1>3, <4>1
      <4>3. s + p = start - m * p
        BY <1>3, <2>2, <2>3, <4>2
      <4>4. QED
        BY <1>4, <4>3
    <3>3. QED
      BY <3>1, <3>2
  <2>7. PaidIn(table, S, t, p) \in Nat /\ PaidIn(table, S, s, p) \in Nat /\ PaidIn(table, S, s + p, p) \in Nat
    BY <1>3, <1>6
  <2>8. QED
    BY <1>2, <1>3, <1>5, <2>4, <2>5, <2>6, <2>7
<1>9. QED
  BY <1>3, <1>7, <1>8

(***************************************************************************)
(* While owners leave the budgets and the threshold of the policies they   *)
(* set as they are, and the threshold is such that every payment is        *)
(* enforced, no day, week or month, wherever it begins, sees more than two *)
(* budgets paid, although nothing in the program looks across a window.    *)
(***************************************************************************)
THEOREM PeriodsWithinTwoBudgets ==
  ASSUME SingleMint
  PROVE  Spec /\ [][PoliciesStand]_spend_policy => []AnyPeriodWithinTwoBudgets
<1>1. Init => GridInv
  <2>1. Init => BooksInv
    BY FS_EmptySet DEF Init, NoAccounts, BooksInv, LedgerDated, Accounted, Booked, RecordsOf
  <2>2. QED
    BY <2>1 DEF Init, NoAccounts, GridInv, WithinGrid, Limits
<1>2. TypeOK /\ TypeOK' /\ BooksInv' /\ GridInv /\ [Next]_vars /\ [PoliciesStand]_spend_policy
        => GridInv'
  <2>1. UNCHANGED spend_policy => PoliciesStand
    BY DEF PoliciesStand
  <2>2. QED
    BY <2>1, GridInvPreserved
<1>3. TypeOK /\ GridInv => AnyPeriodWithinTwoBudgets
  BY GridWithinTwoBudgets
<1>4. QED
  BY <1>1, <1>2, <1>3, BooksInvariant, TypeCorrect, PTL DEF Spec
=============================================================================
