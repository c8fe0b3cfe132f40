---------------------------- MODULE ExecutionProofs ----------------------------
(***************************************************************************)
(* Parallel execution is atomic, for any number of threads and any         *)
(* requests: what the threads do together is a behaviour of MaximProtocol, *)
(* a settlement that ends has done all of SettlePayment or nothing, and    *)
(* one that is refused is refused for the reason its error gives.          *)
(*                                                                         *)
(* The account locks keep everything an execution has read as it was, so   *)
(* its copies are at every statement what the statements before it make of *)
(* the stored accounts, and its checks hold of the stored accounts still.  *)
(* That is the inductive invariant.  When the last statement stores the    *)
(* copies, they are what SettlePayment writes; and as long as a refused    *)
(* execution holds its locks, the check that failed fails still.           *)
(***************************************************************************)
EXTENDS SettleExecution, MaximProofs, WindowProofs

-----------------------------------------------------------------------------
(* Where an execution stands *)

Paid(q) == q.params.amount_usdc
From(q) == <<q.a, q.mint>>
To(q)   == <<q.payee, q.mint>>

BeforeReset    == {"arguments", "cap", "wallet"}
BeforeCount    == BeforeReset \cup {"policy"}
BeforeTransfer == BeforeCount \cup {"transfer"}
Steps          == BeforeTransfer \cup {"accounting", "commit"}

ResetNow(q) == ResetWindowsIfElapsed(agent_wallet[q.a], now)
Enforced(q) == EnforcedOnChain(spend_policy[q.a], Paid(q))
Touched(q)  == Restrict(token_account, {From(q), To(q)})

\* The copies that the statements before step make of the stored accounts
WalletAt(q, step) ==
  IF step \in BeforeReset THEN agent_wallet[q.a]
  ELSE IF step = "commit" THEN RecordSpend(ResetNow(q), Paid(q), now)
  ELSE ResetNow(q)

PolicyAt(q, step) ==
  IF step \notin BeforeCount /\ Enforced(q)
  THEN CountCall(spend_policy[q.a], now) ELSE spend_policy[q.a]

TokensAt(q, step) ==
  IF step \in BeforeTransfer THEN Touched(q)
  ELSE Transferred(Touched(q), From(q), To(q), Paid(q))

Picture(q, step) ==
  [request |-> q, step |-> step, wallet |-> WalletAt(q, step),
   policy |-> PolicyAt(q, step), tokens |-> TokensAt(q, step)]

\* What the checks before step have found of the stored accounts
Present(q) ==
  /\ q.a \in DOMAIN agent_wallet /\ q.a \in DOMAIN spend_policy
  /\ From(q) \in DOMAIN token_account /\ To(q) \in DOMAIN token_account
  /\ protocol_config.initialised
  /\ RecordFree(q.a, q.sequence)

Resolved(q) == Present(q) /\ SignedByOwner(q.owner, q.a)

Passed(q, step) ==
  /\ Resolved(q)
  /\ step # "arguments" =>
       Paid(q) > 0 /\ ValidProtocol(q.params.protocol) /\ SequenceNext(q.a, q.sequence)
  /\ step \notin {"arguments", "cap"} => UnderGlobalCap(Paid(q))
  /\ step \notin BeforeReset => AcceptsPayments(agent_wallet[q.a])
  /\ step \notin BeforeCount /\ Enforced(q) =>
       PolicyAdmits(spend_policy[q.a], ResetNow(q), Paid(q), q.params.domain_hash, now)
  /\ step \notin BeforeTransfer => Paid(q) <= token_account[From(q)]

\* The requirements of each statement, of the stored accounts
ArgumentChecks(q) ==
  <<Check(Paid(q) > 0, "ZeroPaymentAmount"),
    Check(ValidProtocol(q.params.protocol), "InvalidProtocol"),
    Check(q.sequence = agent_wallet[q.a].payment_sequence, "SequenceMismatch")>>
CapChecks(q) == <<Check(UnderGlobalCap(Paid(q)), "GlobalPaymentCapExceeded")>>
WalletChecks(q) ==
  <<Check(agent_wallet[q.a].is_active, "AgentNotActive"),
    Check(~agent_wallet[q.a].is_frozen, "AgentFrozen")>>
EnforcedChecks(q) ==
  PolicyChecks(spend_policy[q.a], ResetNow(q), Paid(q), q.params.domain_hash)
TransferChecks(q) == <<Check(Paid(q) <= token_account[From(q)], "InsufficientFunds")>>

ChecksAt(q, step) ==
  CASE step = "arguments" -> ArgumentChecks(q)
    [] step = "cap"       -> CapChecks(q)
    [] step = "wallet"    -> WalletChecks(q)
    [] step = "policy"    -> IF Enforced(q) THEN EnforcedChecks(q) ELSE <<>>
    [] step = "transfer"  -> TransferChecks(q)

Checked == {"arguments", "cap", "wallet", "policy", "transfer"}

\* The error is the first there is to find in the stored accounts.
Refused(q, error) ==
  \/ error = "Account" /\ ~Present(q)
  \/ error = "Unauthorized" /\ Present(q) /\ ~SignedByOwner(q.owner, q.a)
  \/ /\ error # "none"
     /\ \E step \in Checked : Passed(q, step) /\ error = FirstError(ChecksAt(q, step))

Underway(e) ==
  /\ e.request \in Requests
  /\ \/ e.step = "failed" /\ Refused(e.request, e.error)
     \/ /\ e.step \in Steps
        /\ e = Picture(e.request, e.step)
        /\ Passed(e.request, e.step)

Exclusive ==
  \A x, y \in DOMAIN executing :
    LET p == executing[x].request
        q == executing[y].request
    IN  x # y => Writes(p) \cap (Writes(q) \cup Reads(q)) = {}

CopiesInStep == \A x \in DOMAIN executing : Underway(executing[x])

ExecutionInv == TypeOK /\ CopiesInStep /\ Exclusive

-----------------------------------------------------------------------------
(* Checks *)

(***************************************************************************)
(* Of checks made one after another the first that fails gives the error.  *)
(***************************************************************************)
LEMMA FirstErrorDecides ==
  ASSUME NEW n \in 0..7, NEW checks, DOMAIN checks = 1..n,
         \E i \in 1..n : ~checks[i].holds
  PROVE  \E i \in 1..n : /\ ~checks[i].holds
                        /\ FirstError(checks) = checks[i].error
                        /\ \A j \in 1..(i - 1) : checks[j].holds
<1> DEFINE failing == {i \in DOMAIN checks : ~checks[i].holds}
<1>1. failing \subseteq 1..7 /\ failing # {}
  OBVIOUS
<1>2. \E i \in failing : \A j \in failing : i =< j
  <2> HIDE DEF failing
  <2>1. \A k \in 1..7 : k \in failing /\ (\A j \in 1..(k - 1) : j \notin failing)
                         => \A j \in failing : k =< j
    BY <1>1
  <2>2. \A k \in 1..7 : \/ \A j \in 1..(k - 1) : j \notin failing
                        \/ \E i \in failing : \A j \in failing : i =< j
    <3> DEFINE none(k) == \A j \in 1..(k - 1) : j \notin failing
               least   == \E i \in failing : \A j \in failing : i =< j
    <3>1. none(1)
      OBVIOUS
    <3>2. \A k \in 1..7 : none(k) => least \/ none(k + 1)
      BY <2>1
    <3> HIDE DEF none, least
    <3>3. \A k \in 1..7 : none(k) \/ least
      BY <3>1, <3>2
    <3>4. QED
      BY <3>3 DEF none, least
  <2>3. PICK k : k \in failing /\ k \in 1..7
    BY <1>1
  <2>4. QED
    BY <2>1, <2>2, <2>3
<1>3. Min(failing) \in failing
  BY <1>2 DEF Min
<1>4. \A j \in failing : Min(failing) =< j
  BY <1>2 DEF Min
<1>5. FirstError(checks) = checks[Min(failing)].error
  BY DEF FirstError
<1>6. PICK i : i = Min(failing)
  OBVIOUS
<1>7. i \in 1..n /\ ~checks[i].holds /\ FirstError(checks) = checks[i].error
  BY <1>3, <1>5, <1>6
<1>8. \A j \in 1..(i - 1) : j \in 1..n /\ j \notin failing
  <2> HIDE DEF failing
  <2>1. QED
    BY <1>4, <1>6, <1>7
<1>9. QED
  BY <1>7, <1>8

(***************************************************************************)
(* So a statement goes on only when each of its checks holds.              *)
(***************************************************************************)
LEMMA NoErrorHolds ==
  ASSUME NEW n \in 0..7, NEW checks, DOMAIN checks = 1..n,
         \A i \in 1..n : checks[i].error # "none",
         FirstError(checks) = "none"
  PROVE  \A i \in 1..n : checks[i].holds
BY FirstErrorDecides

-----------------------------------------------------------------------------
(* Locks *)

\* A step leaves all that an execution of q has read as it was.
Untouched(q) ==
  /\ q.a \in DOMAIN agent_wallet' /\ agent_wallet'[q.a] = agent_wallet[q.a]
  /\ q.a \in DOMAIN spend_policy' /\ spend_policy'[q.a] = spend_policy[q.a]
  /\ \A t \in {From(q), To(q)} :
       t \in DOMAIN token_account' /\ token_account'[t] = token_account[t]
  /\ RecordFree(q.a, q.sequence)'
  /\ UNCHANGED <<protocol_config, now>>

\* And when an account was missing, or the record there already, that stays so.
Spares(q) == IF Present(q) THEN Untouched(q) ELSE ~Present(q)'

(***************************************************************************)
(* Then its copies stay in step with the accounts, and what its checks     *)
(* found holds still.                                                      *)
(***************************************************************************)
LEMMA UntouchedPicture ==
  ASSUME NEW q, NEW step, Untouched(q)
  PROVE  Picture(q, step)' = Picture(q, step) /\ (Passed(q, step) => Passed(q, step)')
<1>1. Touched(q)' = Touched(q)
  BY DEF Untouched, Touched, Restrict
<1>2. ResetNow(q)' = ResetNow(q) /\ Enforced(q)' = Enforced(q)
  BY DEF Untouched, ResetNow, Enforced
<1>3. Picture(q, step)' = Picture(q, step)
  BY <1>1, <1>2 DEF Untouched, Picture, WalletAt, PolicyAt, TokensAt
<1>4. Resolved(q) => Resolved(q)'
  BY DEF Untouched, Resolved, Present, SignedByOwner
<1>5. Passed(q, step) => Passed(q, step)'
  BY <1>2, <1>4 DEF Untouched, Passed, SequenceNext, UnderGlobalCap
<1>6. QED
  BY <1>3, <1>5

LEMMA UntouchedRefused ==
  ASSUME NEW q, NEW error, Refused(q, error), Spares(q)
  PROVE  Refused(q, error)'
<1>1. CASE error = "Account" /\ ~Present(q)
  BY <1>1 DEF Spares, Refused
<1>2. CASE error = "Unauthorized" /\ Present(q) /\ ~SignedByOwner(q.owner, q.a)
  BY <1>2 DEF Spares, Untouched, Refused, Present, SignedByOwner
<1>3. ASSUME NEW step \in Checked, Passed(q, step)
      PROVE  Passed(q, step)' /\ ChecksAt(q, step)' = ChecksAt(q, step)
  <2>1. Untouched(q)
    BY <1>3 DEF Passed, Resolved, Spares
  <2>2. /\ ResetNow(q)' = ResetNow(q) /\ Enforced(q)' = Enforced(q)
        /\ agent_wallet'[q.a] = agent_wallet[q.a]
        /\ spend_policy'[q.a] = spend_policy[q.a]
        /\ token_account'[From(q)] = token_account[From(q)]
        /\ UNCHANGED <<protocol_config, now>>
    BY <2>1 DEF Untouched, ResetNow, Enforced
  <2>3. ChecksAt(q, step)' = ChecksAt(q, step)
    <3>1. /\ ArgumentChecks(q)' = ArgumentChecks(q) /\ CapChecks(q)' = CapChecks(q)
          /\ WalletChecks(q)' = WalletChecks(q) /\ TransferChecks(q)' = TransferChecks(q)
      BY <2>2 DEF ArgumentChecks, CapChecks, WalletChecks, TransferChecks, UnderGlobalCap
    <3>2. EnforcedChecks(q)' = EnforcedChecks(q)
      BY <2>2 DEF EnforcedChecks, PolicyChecks, RateCheck
    <3>3. QED
      BY <2>2, <3>1, <3>2 DEF ChecksAt
  <2>4. QED
    BY <1>3, <2>1, <2>3, UntouchedPicture
<1>4. ASSUME NEW step \in Checked, Passed(q, step), error # "none",
             error = FirstError(ChecksAt(q, step))
      PROVE  Refused(q, error)'
  <2>1. PICK checks : checks = ChecksAt(q, step)
    OBVIOUS
  <2>2. Passed(q, step)' /\ checks = ChecksAt(q, step)'
    BY <1>3, <1>4, <2>1
  <2>3. error = FirstError(checks)
    BY <1>4, <2>1
  <2>4. QED
    BY <1>4, <2>2, <2>3 DEF Refused
<1>5. QED
  BY <1>1, <1>2, <1>4 DEF Refused

LEMMA SparedUnderway ==
  ASSUME NEW e, Underway(e), Spares(e.request)
  PROVE  Underway(e)'
<1>1. PICK q : q = e.request
  OBVIOUS
<1>2. PICK step, error : step = e.step /\ error = e.error
  OBVIOUS
<1>3. CASE step = "failed"
  <2>1. q \in Requests /\ e.step = "failed" /\ (Refused(q, error) \/ Passed(q, step))
    BY <1>1, <1>2, <1>3 DEF Underway
  <2>2. step \notin Steps
    BY <1>3 DEF Steps, BeforeTransfer, BeforeCount, BeforeReset
  <2>3. Refused(q, error)
    BY <1>1, <1>2, <1>3, <2>2 DEF Underway
  <2>4. Refused(q, error)'
    BY <1>1, <2>3, UntouchedRefused
  <2>5. QED
    BY <1>1, <1>2, <2>1, <2>4 DEF Underway
<1>4. CASE step # "failed"
  <2>1. step \in Steps /\ e = Picture(q, step) /\ Passed(q, step) /\ q \in Requests
    BY <1>1, <1>2, <1>4 DEF Underway
  <2>2. Untouched(q)
    BY <1>1, <2>1 DEF Passed, Resolved, Spares
  <2>3. e = Picture(q, step)' /\ Passed(q, step)'
    BY <2>1, <2>2, UntouchedPicture
  <2>4. QED
    BY <1>1, <1>2, <2>1, <2>3 DEF Underway
<1>5. QED
  BY <1>3, <1>4

(***************************************************************************)
(* Accounts that are unlocked are none of those an execution holds.        *)
(***************************************************************************)
LEMMA UnlockedApart ==
  ASSUME NEW x \in DOMAIN executing, NEW q, q = executing[x].request,
         NEW writes, NEW reads, Unlocked(writes, reads)
  PROVE  /\ ConfigKey \notin writes
         /\ \A a : WalletKey(a) \in writes => a # q.a
         /\ \A a : PolicyKey(a) \in writes => a # q.a
         /\ \A a, seq : RecordKey(a, seq) \in writes => <<a, seq>> # <<q.a, q.sequence>>
         /\ \A h, mint : TokenKey(h, mint) \in writes =>
              <<h, mint>> # From(q) /\ <<h, mint>> # To(q)
<1>1. writes \cap (Writes(q) \cup Reads(q)) = {}
  BY DEF Unlocked
<1>2. ConfigKey \notin writes
  BY <1>1 DEF Reads
<1>3. \A a : WalletKey(a) \in writes => a # q.a
  BY <1>1 DEF Writes
<1>4. \A a : PolicyKey(a) \in writes => a # q.a
  BY <1>1 DEF Writes
<1>5. \A a, seq : RecordKey(a, seq) \in writes => <<a, seq>> # <<q.a, q.sequence>>
  BY <1>1 DEF Writes
<1>6. \A h, mint : TokenKey(h, mint) \in writes => <<h, mint>> # From(q) /\ <<h, mint>> # To(q)
  BY <1>1 DEF Writes, From, To
<1>7. QED
  BY <1>2, <1>3, <1>4, <1>5, <1>6

(***************************************************************************)
(* So the other instructions spare it.                                     *)
(***************************************************************************)
LEMMA AdministerSpares ==
  ASSUME NEW x \in DOMAIN executing, NEW q, q = executing[x].request, AdministerUnlocked
  PROVE  Spares(q)
<1>1. ~Unlocked({ConfigKey}, {})
  BY UnlockedApart
<1>2. PICK a \in AgentIds, admin \in Keys :
        Unlocked({WalletKey(a)}, {ConfigKey}) /\ (FreezeAgent(admin, a) \/ UnfreezeAgent(admin, a))
  BY <1>1 DEF AdministerUnlocked
<1>3. a # q.a
  BY <1>2, UnlockedApart
<1>4. QED
  BY <1>2, <1>3
     DEF FreezeAgent, UnfreezeAgent, SetFrozen, Spares, Untouched, Present, RecordFree

LEMMA ManageSpares ==
  ASSUME TypeOK, NEW x \in DOMAIN executing, NEW q, q = executing[x].request, ManageUnlocked
  PROVE  Spares(q)
<1> USE DEF Spares, Untouched, Present, RecordFree
<1>1. PICK owner \in Keys, a \in AgentIds :
        \/ \E mint \in Mints :
             \/ /\ Unlocked({WalletKey(a), TokenKey(a, mint), SignerKey(owner)}, {})
                /\ RegisterAgent(owner, a, mint)
             \/ /\ Unlocked({WalletKey(a), PolicyKey(a), SignerKey(owner)}, {TokenKey(a, mint)})
                /\ CloseAgent(owner, a, mint)
        \/ /\ Unlocked({WalletKey(a)}, {SignerKey(owner)})
           /\ \/ DeactivateAgent(owner, a)
              \/ ReactivateAgent(owner, a)
              \/ \E new_owner \in Pubkeys : TransferOwnership(owner, a, new_owner)
        \/ /\ Unlocked({PolicyKey(a), SignerKey(owner)}, {WalletKey(a)})
           /\ \E params \in PolicyParams : SetSpendPolicy(owner, a, params)
  BY DEF ManageUnlocked
<1>2. ASSUME NEW mint \in Mints,
             Unlocked({WalletKey(a), TokenKey(a, mint), SignerKey(owner)}, {}),
             RegisterAgent(owner, a, mint)
      PROVE  Spares(q)
  <2>1. a # q.a /\ <<a, mint>> # From(q) /\ <<a, mint>> # To(q)
    BY <1>2, UnlockedApart
  <2>2. QED
    BY <1>2, <2>1 DEF RegisterAgent, AddressesFree, Stored
<1>3. ASSUME NEW mint \in Mints, NEW reads,
             Unlocked({WalletKey(a), PolicyKey(a), SignerKey(owner)}, reads),
             CloseAgent(owner, a, mint)
      PROVE  Spares(q)
  <2>1. a # q.a
    BY <1>3, UnlockedApart
  <2>2. QED
    BY <1>3, <2>1 DEF CloseAgent, Closed, Restrict
<1>4. ASSUME NEW reads, Unlocked({WalletKey(a)}, reads),
             \/ DeactivateAgent(owner, a)
             \/ ReactivateAgent(owner, a)
             \/ \E new_owner \in Pubkeys : TransferOwnership(owner, a, new_owner)
      PROVE  Spares(q)
  <2>1. a # q.a
    BY <1>4, UnlockedApart
  <2>2. QED
    BY <1>4, <2>1 DEF DeactivateAgent, ReactivateAgent, SetActive, TransferOwnership
<1>5. ASSUME NEW reads, Unlocked({PolicyKey(a), SignerKey(owner)}, reads),
             NEW params \in PolicyParams, SetSpendPolicy(owner, a, params)
      PROVE  Spares(q)
  <2>1. a # q.a
    BY <1>5, UnlockedApart
  <2>2. QED
    BY <1>5, <2>1 DEF SetSpendPolicy, Stored
<1>6. QED
  BY <1>1, <1>2, <1>3, <1>4, <1>5

LEMMA PaySpares ==
  ASSUME NEW x \in DOMAIN executing, NEW q, q = executing[x].request, PayUnlocked
  PROVE  Spares(q)
<1> USE DEF Spares, Untouched, Present, RecordFree
<1>1. PICK owner \in Keys, a \in AgentIds :
        \/ \E sequence \in U64, params \in PaymentParams :
             /\ Unlocked({RecordKey(a, sequence), WalletKey(a), SignerKey(owner)}, {})
             /\ RecordPolicyViolation(owner, a, sequence, params)
        \/ \E mint \in Mints :
             /\ Unlocked({TokenKey(a, mint), TokenKey(owner, mint)},
                         {WalletKey(a), SignerKey(owner)})
             /\ \/ \E amount \in Amounts : WithdrawFunds(owner, a, mint, amount)
                \/ WithdrawAll(owner, a, mint)
  BY DEF PayUnlocked
<1>2. ASSUME NEW sequence \in U64, NEW params \in PaymentParams,
             Unlocked({RecordKey(a, sequence), WalletKey(a), SignerKey(owner)}, {}),
             RecordPolicyViolation(owner, a, sequence, params)
      PROVE  Spares(q)
  <2>1. a # q.a
    BY <1>2, UnlockedApart
  <2>2. QED
    BY <1>2, <2>1 DEF RecordPolicyViolation, Stored
<1>3. ASSUME NEW mint \in Mints, NEW reads,
             Unlocked({TokenKey(a, mint), TokenKey(owner, mint)}, reads),
             NEW amount, WithdrawFunds(owner, a, mint, amount)
      PROVE  Spares(q)
  <2>1. {From(q), To(q)} \cap {<<a, mint>>, <<owner, mint>>} = {}
    BY <1>3, UnlockedApart
  <2>2. QED
    BY <1>3, <2>1 DEF WithdrawFunds, Transferred
<1>4. QED
  BY <1>1, <1>2, <1>3 DEF WithdrawAll

LEMMA EnvironmentSpares ==
  ASSUME NEW x \in DOMAIN executing, NEW q, q = executing[x].request, EnvironmentUnlocked
  PROVE  Spares(q)
<1> USE DEF Spares, Untouched, Present, RecordFree
<1>1. PICK holder \in Holders, mint \in Mints :
        /\ Unlocked({TokenKey(holder, mint)}, {})
        /\ \/ CreateTokenAccount(holder, mint)
           \/ \E amount \in Amounts : Fund(holder, mint, amount)
  BY DEF EnvironmentUnlocked
<1>2. <<holder, mint>> \notin {From(q), To(q)}
  BY <1>1, UnlockedApart
<1>3. QED
  BY <1>1, <1>2 DEF CreateTokenAccount, Fund, Stored

-----------------------------------------------------------------------------
(* Statements *)

\* The execution of thread x is next, and is what the stored accounts make of it.
Advances(x, next) ==
  /\ UNCHANGED vars
  /\ executing' = [executing EXCEPT ![x] = next]
  /\ next.request = executing[x].request
  /\ Underway(next)

(***************************************************************************)
(* A statement with requirements fails or, when all of them hold, goes on. *)
(***************************************************************************)
LEMMA RequireAdvances ==
  ASSUME NEW x, NEW q \in Requests, q = executing[x].request,
         NEW step \in Checked, Passed(q, step),
         NEW checks, checks = ChecksAt(q, step),
         NEW next, next.request = q, FirstError(checks) = "none" => Underway(next),
         Require(x, checks, next)
  PROVE  \E n : Advances(x, n)
<1> DEFINE failed == Failed(executing[x].request, FirstError(checks))
<1>1. /\ failed.request = executing[x].request
      /\ FirstError(checks) # "none" => Underway(failed)
  BY DEF Failed, Underway, Refused
<1>2. UNCHANGED vars
  BY DEF Require
<1>3. CASE FirstError(checks) = "none"
  <2>1. executing' = [executing EXCEPT ![x] = next]
    BY <1>3 DEF Require
  <2>2. QED
    BY <1>2, <1>3, <2>1 DEF Advances
<1>4. CASE FirstError(checks) # "none"
  <2>1. executing' = [executing EXCEPT ![x] = failed]
    BY <1>4 DEF Require
  <2>2. QED
    BY <1>1, <1>2, <1>4, <2>1 DEF Advances
<1>5. QED
  BY <1>3, <1>4

(***************************************************************************)
(* The execution at a statement, named by its request.                     *)
(***************************************************************************)
LEMMA AtPicture ==
  ASSUME NEW x, NEW step \in Steps, At(x, step), Underway(executing[x])
  PROVE  \E q \in Requests :
           /\ q = executing[x].request
           /\ executing[x] = Picture(q, step)
           /\ Passed(q, step)
BY DEF At, Underway, Steps, BeforeTransfer, BeforeCount, BeforeReset

LEMMA CheckArgumentsAdvances ==
  ASSUME NEW x, Underway(executing[x]), CheckArguments(x)
  PROVE  \E n : Advances(x, n)
<1> DEFINE checks == <<Check(executing[x].request.params.amount_usdc > 0, "ZeroPaymentAmount"),
                       Check(ValidProtocol(executing[x].request.params.protocol), "InvalidProtocol"),
                       Check(executing[x].request.sequence = executing[x].wallet.payment_sequence,
                             "SequenceMismatch")>>
           next == [executing[x] EXCEPT !.step = "cap"]
<1>1. At(x, "arguments") /\ Require(x, checks, next)
  BY DEF CheckArguments
<1>2. PICK q \in Requests : /\ q = executing[x].request
                            /\ executing[x] = Picture(q, "arguments")
                            /\ Passed(q, "arguments")
  BY <1>1, AtPicture DEF Steps, BeforeTransfer, BeforeCount, BeforeReset
<1>3. next = Picture(q, "cap")
  BY <1>2 DEF Picture, WalletAt, PolicyAt, TokensAt, BeforeTransfer, BeforeCount, BeforeReset
<1>4. ASSUME FirstError(checks) = "none"
      PROVE  Passed(q, "cap")
  <2>1. \A i \in 1..3 : checks[i].holds
    <3>1. DOMAIN checks = 1..3 /\ \A i \in 1..3 : checks[i].error # "none"
      BY DEF Check
    <3> HIDE DEF checks
    <3>2. QED
      BY <1>4, <3>1, NoErrorHolds
  <2>2. checks[1].holds /\ checks[2].holds /\ checks[3].holds
    BY <2>1
  <2>3. /\ Paid(q) > 0 /\ ValidProtocol(q.params.protocol)
        /\ q.sequence = Picture(q, "arguments").wallet.payment_sequence
    BY <1>2, <2>2 DEF Check, Paid
  <2>4. SequenceNext(q.a, q.sequence)
    BY <2>3 DEF Picture, WalletAt, BeforeReset, SequenceNext
  <2>5. QED
    BY <1>2, <2>3, <2>4 DEF Passed, BeforeTransfer, BeforeCount, BeforeReset
<1>5. FirstError(checks) = "none" => Underway(next)
  BY <1>3, <1>4 DEF Underway, Picture, Steps, BeforeTransfer, BeforeCount, BeforeReset
<1>6. next.request = q
  BY <1>2, <1>3 DEF Picture
<1>7. checks = ChecksAt(q, "arguments")
  <2>1. executing[x].request = q /\ executing[x].wallet = agent_wallet[q.a]
    BY <1>2 DEF Picture, WalletAt, BeforeReset
  <2>2. QED
    BY <2>1 DEF ChecksAt, ArgumentChecks, Paid
<1> HIDE DEF checks, next
<1>8. QED
  BY <1>1, <1>2, <1>5, <1>6, <1>7, RequireAdvances DEF Checked

LEMMA CheckCapAdvances ==
  ASSUME NEW x, Underway(executing[x]), CheckCap(x)
  PROVE  \E n : Advances(x, n)
<1> USE DEF BeforeTransfer, BeforeCount, BeforeReset
<1> DEFINE checks == <<Check(UnderGlobalCap(executing[x].request.params.amount_usdc),
                             "GlobalPaymentCapExceeded")>>
           next == [executing[x] EXCEPT !.step = "wallet"]
<1>1. At(x, "cap") /\ Require(x, checks, next)
  BY DEF CheckCap
<1>2. PICK q \in Requests : /\ q = executing[x].request
                            /\ executing[x] = Picture(q, "cap")
                            /\ Passed(q, "cap")
  BY <1>1, AtPicture DEF Steps
<1>3. next = Picture(q, "wallet")
  BY <1>2 DEF Picture, WalletAt, PolicyAt, TokensAt
<1>4. ASSUME FirstError(checks) = "none"
      PROVE  Passed(q, "wallet")
  <2>1. \A i \in 1..1 : checks[i].holds
    <3>1. DOMAIN checks = 1..1 /\ \A i \in 1..1 : checks[i].error # "none"
      BY DEF Check
    <3> HIDE DEF checks
    <3>2. QED
      BY <1>4, <3>1, NoErrorHolds
  <2>2. UnderGlobalCap(Paid(q))
    BY <1>2, <2>1 DEF Check, Paid
  <2>3. QED
    BY <1>2, <2>2 DEF Passed
<1>5. FirstError(checks) = "none" => Underway(next)
  BY <1>3, <1>4 DEF Underway, Picture, Steps
<1>6. next.request = q
  BY <1>2, <1>3 DEF Picture
<1>7. checks = ChecksAt(q, "cap")
  <2>1. executing[x].request = q
    BY <1>2
  <2>2. QED
    BY <2>1 DEF ChecksAt, CapChecks, Paid
<1> HIDE DEF checks, next
<1>8. QED
  BY <1>1, <1>2, <1>5, <1>6, <1>7, RequireAdvances DEF Checked

LEMMA GuardWalletAdvances ==
  ASSUME NEW x, Underway(executing[x]), GuardWallet(x)
  PROVE  \E n : Advances(x, n)
<1> USE DEF BeforeTransfer, BeforeCount, BeforeReset
<1> DEFINE checks == <<Check(executing[x].wallet.is_active, "AgentNotActive"),
                       Check(~executing[x].wallet.is_frozen, "AgentFrozen")>>
           next == [executing[x] EXCEPT !.wallet = ResetWindowsIfElapsed(@, now),
                                        !.step = "policy"]
<1>1. At(x, "wallet") /\ Require(x, checks, next)
  BY DEF GuardWallet
<1>2. PICK q \in Requests : /\ q = executing[x].request
                            /\ executing[x] = Picture(q, "wallet")
                            /\ Passed(q, "wallet")
  BY <1>1, AtPicture DEF Steps
<1>3. next = Picture(q, "policy")
  <2>1. executing[x] = [request |-> q, step |-> "wallet", wallet |-> agent_wallet[q.a],
                        policy |-> spend_policy[q.a], tokens |-> Touched(q)]
    BY <1>2 DEF Picture, WalletAt, PolicyAt, TokensAt
  <2>2. ResetWindowsIfElapsed(executing[x].wallet, now) = ResetNow(q)
    BY <2>1 DEF ResetNow
  <2>3. PICK mid : mid = [executing[x] EXCEPT !.wallet = ResetNow(q)]
    OBVIOUS
  <2>4. mid = [request |-> q, step |-> "wallet", wallet |-> ResetNow(q),
               policy |-> spend_policy[q.a], tokens |-> Touched(q)]
    BY <2>1, <2>3
  <2>5. next = [mid EXCEPT !.step = "policy"]
    BY <2>2, <2>3
  <2>6. next = [request |-> q, step |-> "policy", wallet |-> ResetNow(q),
                policy |-> spend_policy[q.a], tokens |-> Touched(q)]
    <3> HIDE DEF next
    <3>1. QED
      BY <2>4, <2>5
  <2>7. QED
    BY <2>6 DEF Picture, WalletAt, PolicyAt, TokensAt
<1>4. ASSUME FirstError(checks) = "none"
      PROVE  Passed(q, "policy")
  <2>1. \A i \in 1..2 : checks[i].holds
    <3>1. DOMAIN checks = 1..2 /\ \A i \in 1..2 : checks[i].error # "none"
      BY DEF Check
    <3> HIDE DEF checks
    <3>2. QED
      BY <1>4, <3>1, NoErrorHolds
  <2>2. checks[1].holds /\ checks[2].holds
    BY <2>1
  <2>3. executing[x].wallet = agent_wallet[q.a]
    BY <1>2 DEF Picture, WalletAt
  <2>4. AcceptsPayments(agent_wallet[q.a])
    BY <2>2, <2>3 DEF Check, AcceptsPayments
  <2>5. QED
    BY <1>2, <2>4 DEF Passed
<1>5. FirstError(checks) = "none" => Underway(next)
  BY <1>3, <1>4 DEF Underway, Picture, Steps
<1>6. next.request = q
  BY <1>2, <1>3 DEF Picture
<1>7. checks = ChecksAt(q, "wallet")
  <2>1. executing[x].wallet = agent_wallet[q.a]
    BY <1>2 DEF Picture, WalletAt
  <2>2. QED
    BY <2>1 DEF ChecksAt, WalletChecks
<1> HIDE DEF checks, next
<1>8. QED
  BY <1>1, <1>2, <1>5, <1>6, <1>7, RequireAdvances DEF Checked

(***************************************************************************)
(* The checks of the enforced branch, made one after another, are together *)
(* what PolicyAdmits says.                                                 *)
(***************************************************************************)
LEMMA ChecksAdmit ==
  ASSUME NEW policy, NEW wallet, NEW amount, NEW domain,
         FirstError(PolicyChecks(policy, wallet, amount, domain)) = "none"
  PROVE  PolicyAdmits(policy, wallet, amount, domain, now)
<1> DEFINE checks == PolicyChecks(policy, wallet, amount, domain)
<1>1. DOMAIN checks = 1..7 /\ \A i \in 1..7 : checks[i].error # "none"
  BY DEF PolicyChecks, RateCheck, Check
<1>2. \A i \in 1..7 : checks[i].holds
  <2> HIDE DEF checks
  <2>1. FirstError(checks) = "none"
    BY DEF checks
  <2>2. QED
    BY <1>1, <2>1, NoErrorHolds
<1>3. /\ checks[1].holds /\ checks[2].holds /\ checks[3].holds /\ checks[4].holds
      /\ checks[5].holds /\ checks[6].holds /\ checks[7].holds
  BY <1>2
<1>4. /\ WithinPerCallLimit(policy, amount)
      /\ WithinRateLimit(ResetRateWindowIfElapsed(policy, now))
      /\ DomainPermitted(policy, domain)
  BY <1>3 DEF PolicyChecks, RateCheck, Check, DomainPermitted
<1>5. \A w \in Windows : WithinBudget(policy, w, wallet.spend[w], amount)
  BY <1>3 DEF PolicyChecks, RateCheck, Check, Windows
<1>6. QED
  BY <1>4, <1>5 DEF PolicyAdmits

LEMMA EnforcePolicyAdvances ==
  ASSUME NEW x, Underway(executing[x]), EnforcePolicy(x)
  PROVE  \E n : Advances(x, n)
<1> USE DEF BeforeTransfer, BeforeCount, BeforeReset
<1> DEFINE params   == executing[x].request.params
           enforced == EnforcedOnChain(executing[x].policy, params.amount_usdc)
           checks == IF enforced
                     THEN PolicyChecks(executing[x].policy, executing[x].wallet,
                                       params.amount_usdc, params.domain_hash)
                     ELSE <<>>
           next == [executing[x] EXCEPT !.policy = IF enforced THEN CountCall(@, now) ELSE @,
                                        !.step = "transfer"]
<1>1. At(x, "policy") /\ Require(x, checks, next)
  BY DEF EnforcePolicy
<1>2. PICK q \in Requests : /\ q = executing[x].request
                            /\ executing[x] = Picture(q, "policy")
                            /\ Passed(q, "policy")
  BY <1>1, AtPicture DEF Steps
<1>3. /\ executing[x].policy = spend_policy[q.a]
      /\ executing[x].wallet = ResetNow(q)
      /\ enforced <=> Enforced(q)
  BY <1>2 DEF Picture, PolicyAt, WalletAt, Enforced, Paid
<1>4. next = Picture(q, "transfer")
  <2> DEFINE policy == IF Enforced(q) THEN CountCall(spend_policy[q.a], now)
                       ELSE spend_policy[q.a]
  <2>1. executing[x] = [request |-> q, step |-> "policy", wallet |-> ResetNow(q),
                        policy |-> spend_policy[q.a], tokens |-> Touched(q)]
    BY <1>2 DEF Picture, WalletAt, PolicyAt, TokensAt
  <2>2. (IF enforced THEN CountCall(executing[x].policy, now) ELSE executing[x].policy) = policy
    BY <1>3
  <2>3. PICK mid : mid = [executing[x] EXCEPT !.policy = policy]
    OBVIOUS
  <2>4. mid = [request |-> q, step |-> "policy", wallet |-> ResetNow(q),
               policy |-> policy, tokens |-> Touched(q)]
    <3> HIDE DEF policy
    <3>1. QED
      BY <2>1, <2>3
  <2>5. next = [mid EXCEPT !.step = "transfer"]
    BY <2>2, <2>3
  <2>6. next = [request |-> q, step |-> "transfer", wallet |-> ResetNow(q),
                policy |-> policy, tokens |-> Touched(q)]
    <3> HIDE DEF next, policy
    <3>1. QED
      BY <2>4, <2>5
  <2>7. QED
    BY <2>6 DEF Picture, WalletAt, PolicyAt, TokensAt
<1>5. ASSUME FirstError(checks) = "none"
      PROVE  Passed(q, "transfer")
  <2>1. ASSUME Enforced(q)
        PROVE  PolicyAdmits(spend_policy[q.a], ResetNow(q), Paid(q), q.params.domain_hash, now)
    <3>1. FirstError(PolicyChecks(spend_policy[q.a], ResetNow(q), Paid(q),
                                  q.params.domain_hash)) = "none"
      BY <1>2, <1>3, <1>5, <2>1 DEF Paid
    <3>2. QED
      BY <3>1, ChecksAdmit
  <2>2. QED
    BY <1>2, <2>1 DEF Passed
<1>6. FirstError(checks) = "none" => Underway(next)
  BY <1>4, <1>5 DEF Underway, Picture, Steps
<1>7. next.request = q
  BY <1>2, <1>4 DEF Picture
<1>8. checks = ChecksAt(q, "policy")
  <2>1. params = q.params
    BY <1>2
  <2>2. QED
    BY <1>3, <2>1 DEF ChecksAt, EnforcedChecks, Paid
<1> HIDE DEF checks, next
<1>9. QED
  BY <1>1, <1>2, <1>6, <1>7, <1>8, RequireAdvances DEF Checked

LEMMA TransferTokensAdvances ==
  ASSUME NEW x, Underway(executing[x]), TransferTokens(x)
  PROVE  \E n : Advances(x, n)
<1> USE DEF BeforeTransfer, BeforeCount, BeforeReset
<1> DEFINE r == executing[x].request
           covered == r.params.amount_usdc <= executing[x].tokens[<<r.a, r.mint>>]
           checks  == <<Check(covered, "InsufficientFunds")>>
           next == [executing[x] EXCEPT
                      !.tokens = Transferred(@, <<r.a, r.mint>>, <<r.payee, r.mint>>,
                                             r.params.amount_usdc),
                      !.step = "accounting"]
<1>1. At(x, "transfer") /\ Require(x, checks, next)
  BY DEF TransferTokens
<1>2. PICK q \in Requests : /\ q = executing[x].request
                            /\ executing[x] = Picture(q, "transfer")
                            /\ Passed(q, "transfer")
  BY <1>1, AtPicture DEF Steps
<1>3. PICK policy : policy = PolicyAt(q, "transfer")
  OBVIOUS
<1>4. executing[x] = [request |-> q, step |-> "transfer", wallet |-> ResetNow(q),
                      policy |-> policy, tokens |-> Touched(q)]
  BY <1>2, <1>3 DEF Picture, WalletAt, TokensAt
<1>5. next = Picture(q, "accounting")
  <2> DEFINE tokens == Transferred(Touched(q), From(q), To(q), Paid(q))
  <2>1. Transferred(executing[x].tokens, <<r.a, r.mint>>, <<r.payee, r.mint>>,
                    r.params.amount_usdc) = tokens
    BY <1>2, <1>4 DEF From, To, Paid
  <2>2. PICK mid : mid = [executing[x] EXCEPT !.tokens = tokens]
    OBVIOUS
  <2>3. mid = [request |-> q, step |-> "transfer", wallet |-> ResetNow(q),
               policy |-> policy, tokens |-> tokens]
    <3> HIDE DEF tokens
    <3>1. QED
      BY <1>4, <2>2
  <2>4. next = [mid EXCEPT !.step = "accounting"]
    BY <2>1, <2>2
  <2>5. next = [request |-> q, step |-> "accounting", wallet |-> ResetNow(q),
                policy |-> policy, tokens |-> tokens]
    <3> HIDE DEF next, tokens
    <3>1. QED
      BY <2>3, <2>4
  <2>6. PolicyAt(q, "accounting") = policy
    BY <1>3 DEF PolicyAt
  <2>7. QED
    BY <2>5, <2>6 DEF Picture, WalletAt, TokensAt
<1>6. ASSUME FirstError(checks) = "none"
      PROVE  Passed(q, "accounting")
  <2>1. \A i \in 1..1 : checks[i].holds
    <3>1. DOMAIN checks = 1..1 /\ \A i \in 1..1 : checks[i].error # "none"
      BY DEF Check
    <3> HIDE DEF checks
    <3>2. QED
      BY <1>6, <3>1, NoErrorHolds
  <2>2. covered
    <3> HIDE DEF covered
    <3>1. QED
      BY <2>1 DEF Check
  <2>3. r = q /\ executing[x].tokens = Touched(q)
    BY <1>2, <1>4
  <2>4. Paid(q) <= Touched(q)[From(q)]
    <3> HIDE DEF r
    <3>1. QED
      BY <2>2, <2>3 DEF Paid, From
  <2>5. Paid(q) <= token_account[From(q)]
    BY <2>4 DEF Touched, Restrict
  <2>6. QED
    BY <1>2, <2>5 DEF Passed
<1>7. FirstError(checks) = "none" => Underway(next)
  BY <1>5, <1>6 DEF Underway, Picture, Steps
<1>8. next.request = q
  BY <1>2, <1>5 DEF Picture
<1>9. checks = ChecksAt(q, "transfer")
  <2>1. r = q /\ executing[x].tokens = Touched(q)
    BY <1>2, <1>4
  <2>2. executing[x].tokens[<<r.a, r.mint>>] = token_account[From(q)]
    <3> HIDE DEF r
    <3>1. QED
      BY <1>2, <2>1 DEF Touched, Restrict, From
  <2>3. r.params.amount_usdc = Paid(q)
    BY <1>2 DEF Paid
  <2> HIDE DEF r
  <2>4. QED
    BY <2>2, <2>3 DEF ChecksAt, TransferChecks
<1> HIDE DEF checks, next
<1>10. QED
  BY <1>1, <1>2, <1>7, <1>8, <1>9, RequireAdvances DEF Checked

LEMMA UpdateAccountingAdvances ==
  ASSUME NEW x, Underway(executing[x]), UpdateAccounting(x)
  PROVE  \E n : Advances(x, n)
<1> USE DEF BeforeTransfer, BeforeCount, BeforeReset
<1> DEFINE next == [executing[x] EXCEPT
                      !.wallet = RecordSpend(@, executing[x].request.params.amount_usdc, now),
                      !.step = "commit"]
<1>1. /\ At(x, "accounting")
      /\ executing' = [executing EXCEPT ![x] = next]
      /\ UNCHANGED vars
  BY DEF UpdateAccounting
<1>2. PICK q \in Requests : /\ q = executing[x].request
                            /\ executing[x] = Picture(q, "accounting")
                            /\ Passed(q, "accounting")
  BY <1>1, AtPicture DEF Steps
<1>3. PICK policy, tokens : /\ policy = PolicyAt(q, "accounting")
                            /\ tokens = TokensAt(q, "accounting")
  OBVIOUS
<1>4. executing[x] = [request |-> q, step |-> "accounting", wallet |-> ResetNow(q),
                      policy |-> policy, tokens |-> tokens]
  BY <1>2, <1>3 DEF Picture, WalletAt
<1>5. next = Picture(q, "commit")
  <2> DEFINE wallet == RecordSpend(ResetNow(q), Paid(q), now)
  <2>1. RecordSpend(executing[x].wallet, executing[x].request.params.amount_usdc, now) = wallet
    BY <1>2, <1>4 DEF Paid
  <2>2. PICK mid : mid = [executing[x] EXCEPT !.wallet = wallet]
    OBVIOUS
  <2>3. mid = [request |-> q, step |-> "accounting", wallet |-> wallet,
               policy |-> policy, tokens |-> tokens]
    <3> HIDE DEF wallet
    <3>1. QED
      BY <1>4, <2>2
  <2>4. next = [mid EXCEPT !.step = "commit"]
    BY <2>1, <2>2
  <2>5. next = [request |-> q, step |-> "commit", wallet |-> wallet,
                policy |-> policy, tokens |-> tokens]
    <3> HIDE DEF next, wallet
    <3>1. QED
      BY <2>3, <2>4
  <2>6. PolicyAt(q, "commit") = policy /\ TokensAt(q, "commit") = tokens
    BY <1>3 DEF PolicyAt, TokensAt
  <2>7. QED
    BY <2>5, <2>6 DEF Picture, WalletAt
<1>6. Passed(q, "commit")
  BY <1>2 DEF Passed
<1>7. Underway(next) /\ next.request = executing[x].request
  BY <1>2, <1>5, <1>6 DEF Underway, Picture, Steps
<1> HIDE DEF next
<1>8. QED
  BY <1>1, <1>7 DEF Advances

LEMMA StatementAdvances ==
  ASSUME NEW x, Underway(executing[x]), Execute(x), ~Commit(x), ~Rollback(x)
  PROVE  \E n : Advances(x, n)
BY CheckArgumentsAdvances, CheckCapAdvances, GuardWalletAdvances, EnforcePolicyAdvances,
   TransferTokensAdvances, UpdateAccountingAdvances
   DEF Execute

(***************************************************************************)
(* An execution starts with copies of the accounts it resolved.            *)
(***************************************************************************)
LEMMA StartUnderway ==
  ASSUME NEW x, NEW q \in Requests, Start(x, q)
  PROVE  /\ UNCHANGED vars
         /\ \E e : e.request = q /\ Underway(e) /\ executing' = Stored(executing, x, e)
<1> DEFINE accounts_exist == /\ {q.a} \subseteq DOMAIN agent_wallet \cap DOMAIN spend_policy
                             /\ {From(q), To(q)} \subseteq DOMAIN token_account
                             /\ protocol_config.initialised
           error == IF ~accounts_exist \/ ~RecordFree(q.a, q.sequence) THEN "Account"
                    ELSE IF ~SignedByOwner(q.owner, q.a) THEN "Unauthorized" ELSE "none"
           copies == [request |-> q, step |-> "arguments", wallet |-> agent_wallet[q.a],
                      policy |-> spend_policy[q.a], tokens |-> Touched(q)]
           e == IF error # "none" THEN Failed(q, error) ELSE copies
<1>1. /\ UNCHANGED vars
      /\ executing' = Stored(executing, x, e)
  BY DEF Start, From, To, Touched
<1>2. CASE error # "none"
  <2>1. Refused(q, error)
    BY <1>2 DEF Refused, Present
  <2>2. e.request = q /\ Underway(e)
    BY <1>2, <2>1 DEF Failed, Underway
  <2>3. QED
    BY <1>1, <2>2
<1>3. CASE error = "none"
  <2>1. copies = Picture(q, "arguments")
    BY DEF Picture, WalletAt, PolicyAt, TokensAt, BeforeTransfer, BeforeCount, BeforeReset
  <2>2. accounts_exist /\ RecordFree(q.a, q.sequence) /\ SignedByOwner(q.owner, q.a)
    BY <1>3
  <2>3. Passed(q, "arguments")
    BY <2>2 DEF Passed, Resolved, Present, BeforeTransfer, BeforeCount, BeforeReset
  <2>4. copies.request = q /\ Underway(copies)
    BY <2>1, <2>3 DEF Underway, Steps, BeforeTransfer, BeforeCount, BeforeReset
  <2>5. e = copies
    BY <1>3
  <2>6. QED
    BY <1>1, <2>4, <2>5
<1>4. QED
  BY <1>2, <1>3

-----------------------------------------------------------------------------
(* Commit *)

(***************************************************************************)
(* What the last statement stores is what SettlePayment writes.            *)
(***************************************************************************)
LEMMA CommitSettles ==
  ASSUME TypeOK, NEW x, Underway(executing[x]), Commit(x),
         NEW q, q = executing[x].request
  PROVE  SettlePayment(q.owner, q.a, q.mint, q.payee, q.sequence, q.params)
<1>1. /\ executing[x] = Picture(q, "commit")
      /\ Passed(q, "commit")
  BY AtPicture DEF Commit, Steps
<1>2. /\ executing[x].wallet = RecordSpend(ResetNow(q), Paid(q), now)
      /\ executing[x].policy = IF Enforced(q) THEN CountCall(spend_policy[q.a], now)
                               ELSE spend_policy[q.a]
      /\ executing[x].tokens = Transferred(Touched(q), From(q), To(q), Paid(q))
  BY <1>1 DEF Picture, WalletAt, PolicyAt, TokensAt, BeforeTransfer, BeforeCount, BeforeReset
<1>3. /\ Resolved(q)
      /\ Paid(q) > 0 /\ ValidProtocol(q.params.protocol) /\ SequenceNext(q.a, q.sequence)
      /\ UnderGlobalCap(Paid(q))
      /\ AcceptsPayments(agent_wallet[q.a])
      /\ Enforced(q) => PolicyAdmits(spend_policy[q.a], ResetNow(q), Paid(q),
                                     q.params.domain_hash, now)
      /\ Paid(q) <= token_account[From(q)]
  BY <1>1 DEF Passed, BeforeTransfer, BeforeCount, BeforeReset
<1>4. AcceptsPayments(ResetNow(q))
  <2>1. agent_wallet[q.a] \in AgentWallet
    BY <1>3 DEF TypeOK, Resolved, Present
  <2>2. /\ ResetNow(q).is_active = agent_wallet[q.a].is_active
        /\ ResetNow(q).is_frozen = agent_wallet[q.a].is_frozen
    BY <2>1 DEF ResetNow, ResetWindowsIfElapsed, AgentWallet
  <2>3. QED
    BY <1>3, <2>2 DEF AcceptsPayments
<1>5. spend_policy' = IF Enforced(q)
                      THEN [spend_policy EXCEPT ![q.a] = CountCall(spend_policy[q.a], now)]
                      ELSE spend_policy
  <2>1. spend_policy' = [spend_policy EXCEPT ![q.a] = executing[x].policy]
    BY DEF Commit
  <2>2. spend_policy = [spend_policy EXCEPT ![q.a] = spend_policy[q.a]]
    BY DEF TypeOK
  <2>3. QED
    BY <1>2, <2>1, <2>2
<1>6. token_account' = Transferred(token_account, From(q), To(q), Paid(q))
  <2> DEFINE tokens == Transferred(Touched(q), From(q), To(q), Paid(q))
  <2>1. token_account' = [t \in DOMAIN token_account |->
                            IF t \in DOMAIN tokens THEN tokens[t] ELSE token_account[t]]
    BY <1>2 DEF Commit
  <2>2. /\ token_account \in [DOMAIN token_account -> Nat]
        /\ From(q) \in DOMAIN token_account /\ To(q) \in DOMAIN token_account
    BY <1>3 DEF TypeOK, Resolved, Present
  <2>3. DOMAIN tokens = {From(q), To(q)}
    BY DEF Transferred, Touched, Restrict
  <2>4. From(q) = To(q) => tokens = Touched(q)
    BY DEF Transferred
  <2>5. From(q) # To(q) => /\ tokens[From(q)] = token_account[From(q)] - Paid(q)
                           /\ tokens[To(q)] = token_account[To(q)] + Paid(q)
    BY DEF Transferred, Touched, Restrict
  <2> HIDE DEF tokens
  <2>6. CASE From(q) = To(q)
    BY <2>1, <2>2, <2>3, <2>4, <2>6 DEF Transferred, Touched, Restrict
  <2>7. CASE From(q) # To(q)
    BY <2>1, <2>2, <2>3, <2>5, <2>7 DEF Transferred
  <2>8. QED
    BY <2>6, <2>7
<1>7. /\ agent_wallet' = [agent_wallet EXCEPT ![q.a] = RecordSpend(ResetNow(q), Paid(q), now)]
      /\ payment_record' = Stored(payment_record, <<q.a, q.sequence>>,
           [payee |-> q.payee, amount_usdc |-> Paid(q),
            protocol |-> ProtocolOf(q.params.protocol), settled_at |-> now,
            policy_passed |-> TRUE, parent_payment |-> q.params.parent_payment])
      /\ UNCHANGED <<protocol_config, now>>
  BY <1>2 DEF Commit, Paid
<1>8. QED
  BY <1>3, <1>4, <1>5, <1>6, <1>7
     DEF SettlePayment, AdmitsPayment, Resolved, Present, Paid, From, To, Enforced, ResetNow

(* A commit leaves the accounts of the other executions alone. *)
LEMMA CommitSpares ==
  ASSUME TypeOK, Exclusive, NEW x \in DOMAIN executing, Underway(executing[x]), Commit(x),
         NEW y \in DOMAIN executing, y # x, NEW p, p = executing[y].request
  PROVE  Spares(p)
<1>1. PICK q : q = executing[x].request
  OBVIOUS
<1>2. SettlePayment(q.owner, q.a, q.mint, q.payee, q.sequence, q.params)
  BY <1>1, CommitSettles
<1>3. Writes(q) \cap Writes(p) = {}
  BY <1>1 DEF Exclusive
<1>4. /\ q.a # p.a
      /\ {From(q), To(q)} \cap {From(p), To(p)} = {}
  <2>1. q.a # p.a
    BY <1>3 DEF Writes
  <2>2. \A h, k, m, n : <<h, m>> = <<k, n>> => TokenKey(h, m) = TokenKey(k, n)
    BY DEF TokenKey
  <2>3. From(q) # From(p) /\ From(q) # To(p)
    BY <1>3, <2>2 DEF Writes, From, To
  <2>4. To(q) # From(p) /\ To(q) # To(p)
    BY <1>3, <2>2 DEF Writes, From, To
  <2>5. QED
    BY <2>1, <2>3, <2>4
<1>5. /\ agent_wallet' = [agent_wallet EXCEPT ![q.a] =
                            RecordSpend(ResetNow(q), Paid(q), now)]
      /\ \/ spend_policy' = spend_policy
         \/ spend_policy' = [spend_policy EXCEPT ![q.a] = CountCall(spend_policy[q.a], now)]
      /\ token_account' = Transferred(token_account, From(q), To(q), Paid(q))
      /\ DOMAIN payment_record' = DOMAIN payment_record \cup {<<q.a, q.sequence>>}
      /\ UNCHANGED <<protocol_config, now>>
  BY <1>2 DEF SettlePayment, AdmitsPayment, Stored, ResetNow, Paid, From, To
<1>6. QED
  BY <1>4, <1>5 DEF Spares, Untouched, Present, RecordFree, Transferred

-----------------------------------------------------------------------------
(* Every step *)

LEMMA OthersSpare ==
  ASSUME TypeOK, OtherInstruction, NEW x \in DOMAIN executing,
         NEW q, q = executing[x].request
  PROVE  Spares(q)
BY AdministerSpares, ManageSpares, PaySpares, EnvironmentSpares DEF OtherInstruction

(***************************************************************************)
(* A step of the threads is a step of MaximProtocol, or changes no account.*)
(***************************************************************************)
LEMMA StepIsAtomic ==
  ASSUME ExecutionInv, [ExecutionNext]_executionVars
  PROVE  [Next]_vars
<1>1. CASE UNCHANGED executionVars
  BY <1>1 DEF executionVars
<1>2. ASSUME NEW x \in Threads, Execute(x)
      PROVE  [Next]_vars
  <2>1. x \in DOMAIN executing /\ Underway(executing[x])
    <3>1. x \in DOMAIN executing
      BY <1>2 DEF Execute, CheckArguments, CheckCap, GuardWallet, EnforcePolicy,
                  TransferTokens, UpdateAccounting, Commit, Rollback, At
    <3>2. QED
      BY <3>1 DEF ExecutionInv, CopiesInStep
  <2>2. CASE Commit(x)
    <3>1. PICK q \in Requests : q = executing[x].request
      BY <2>1 DEF Underway
    <3>2. SettlePayment(q.owner, q.a, q.mint, q.payee, q.sequence, q.params)
      BY <2>1, <2>2, <3>1, CommitSettles DEF ExecutionInv
    <3>3. /\ q.owner \in Keys /\ q.a \in AgentIds /\ q.mint \in Mints
          /\ q.payee \in Holders /\ q.sequence \in U64 /\ q.params \in PaymentParams
      BY RequestsAssumption
    <3>4. Pay
      BY <3>2, <3>3 DEF Pay
    <3>5. QED
      BY <3>4 DEF Next
  <2>3. CASE Rollback(x)
    BY <2>3 DEF Rollback
  <2>4. QED
    BY <1>2, <2>1, <2>2, <2>3, StatementAdvances DEF Advances
<1>3. ASSUME NEW x \in Threads, NEW q \in Requests, Start(x, q)
      PROVE  [Next]_vars
  BY <1>3, StartUnderway
<1>4. CASE OtherInstruction
  <2>1. AdministerUnlocked => Administer
    BY DEF AdministerUnlocked, Administer
  <2>2. ManageUnlocked => Manage
    BY DEF ManageUnlocked, Manage
  <2>3. PayUnlocked => Pay
    BY DEF PayUnlocked, Pay
  <2>4. EnvironmentUnlocked => Environment
    BY DEF EnvironmentUnlocked, Environment
  <2>5. QED
    BY <1>4, <2>1, <2>2, <2>3, <2>4 DEF OtherInstruction, Next
<1>5. CASE NextBlock
  BY <1>5 DEF NextBlock, Next, Environment
<1>6. QED
  BY <1>1, <1>2, <1>3, <1>4, <1>5 DEF ExecutionNext, SettleStep

(***************************************************************************)
(* An execution that a step leaves as it is stays in step with the         *)
(* accounts when the step spares what it has read.                         *)
(***************************************************************************)
LEMMA StaysInStep ==
  ASSUME CopiesInStep, NEW y \in DOMAIN executing, executing'[y] = executing[y],
         \A q : q = executing[y].request => Spares(q)
  PROVE  Underway(executing[y])'
<1>1. PICK e : e = executing[y]
  OBVIOUS
<1>2. Underway(e)
  BY <1>1 DEF CopiesInStep
<1>3. Spares(e.request)
  <2>1. PICK q : q = e.request
    OBVIOUS
  <2>2. QED
    BY <1>1, <2>1
<1>4. Underway(e)'
  BY <1>2, <1>3, SparedUnderway
<1>5. e = executing'[y]
  BY <1>1
<1>6. QED
  BY <1>4, <1>5

LEMMA UnchangedSpares ==
  ASSUME NEW q, UNCHANGED vars
  PROVE  Spares(q)
BY DEF vars, Present, RecordFree, Spares, Untouched

LEMMA UnchangedUnderway ==
  ASSUME NEW e, Underway(e), UNCHANGED vars
  PROVE  Underway(e)'
BY UnchangedSpares, SparedUnderway

LEMMA CopiesStayInStep ==
  ASSUME ExecutionInv, [ExecutionNext]_executionVars
  PROVE  CopiesInStep'
<1> USE DEF ExecutionInv
<1>1. ASSUME UNCHANGED <<vars, executing>>
      PROVE  CopiesInStep'
  BY <1>1, StaysInStep, UnchangedSpares DEF CopiesInStep
<1>2. ASSUME NEW x \in Threads, NEW n, Advances(x, n)
      PROVE  CopiesInStep'
  <2>1. /\ UNCHANGED vars /\ Underway(n)
        /\ executing' = [executing EXCEPT ![x] = n]
    BY <1>2 DEF Advances
  <2>2. Underway(n)'
    BY <2>1, UnchangedUnderway
  <2>3. ASSUME NEW y \in DOMAIN executing'
        PROVE  Underway(executing[y])'
    <3>1. CASE y = x
      BY <2>1, <2>2, <3>1
    <3>2. CASE y # x
      BY <2>1, <3>2, StaysInStep, UnchangedSpares
    <3>3. QED
      BY <3>1, <3>2
  <2>4. QED
    BY <2>3 DEF CopiesInStep
<1>3. ASSUME NEW x \in Threads, Commit(x)
      PROVE  CopiesInStep'
  <2>1. /\ x \in DOMAIN executing /\ Underway(executing[x])
        /\ executing' = Closed(executing, x)
    BY <1>3 DEF Commit, At, CopiesInStep
  <2>2. ASSUME NEW y \in DOMAIN executing'
        PROVE  Underway(executing[y])'
    <3>1. y \in DOMAIN executing /\ y # x /\ executing'[y] = executing[y]
      BY <2>1 DEF Closed, Restrict
    <3>2. \A q : q = executing[y].request => Spares(q)
      BY <1>3, <2>1, <3>1, CommitSpares
    <3>3. QED
      BY <3>1, <3>2, StaysInStep
  <2>3. QED
    BY <2>2 DEF CopiesInStep
<1>4. ASSUME NEW x \in Threads, Rollback(x)
      PROVE  CopiesInStep'
  <2>1. UNCHANGED vars /\ executing' = Closed(executing, x)
    BY <1>4 DEF Rollback
  <2>2. QED
    BY <2>1, StaysInStep, UnchangedSpares DEF Closed, Restrict, CopiesInStep
<1>5. ASSUME NEW x \in Threads, NEW q \in Requests, Start(x, q)
      PROVE  CopiesInStep'
  <2>1. PICK e : Underway(e) /\ executing' = Stored(executing, x, e) /\ UNCHANGED vars
    BY <1>5, StartUnderway
  <2>2. Underway(e)'
    BY <2>1, UnchangedUnderway
  <2>3. ASSUME NEW y \in DOMAIN executing'
        PROVE  Underway(executing[y])'
    <3>1. CASE y = x
      BY <2>1, <2>2, <3>1 DEF Stored
    <3>2. CASE y # x
      <4>1. y \in DOMAIN executing /\ executing'[y] = executing[y]
        BY <2>1, <3>2 DEF Stored
      <4>2. QED
        BY <2>1, <4>1, StaysInStep, UnchangedSpares
    <3>3. QED
      BY <3>1, <3>2
  <2>4. QED
    BY <2>3 DEF CopiesInStep
<1>6. ASSUME OtherInstruction
      PROVE  CopiesInStep'
  <2>1. executing' = executing
    BY <1>6 DEF OtherInstruction
  <2>2. QED
    BY <1>6, <2>1, OthersSpare, StaysInStep DEF CopiesInStep
<1>7. ASSUME NextBlock
      PROVE  CopiesInStep'
  BY <1>7 DEF NextBlock, NoAccounts, CopiesInStep
<1>8. ASSUME NEW x \in Threads, Execute(x), ~Commit(x), ~Rollback(x)
      PROVE  CopiesInStep'
  <2>1. x \in DOMAIN executing
    BY <1>8 DEF Execute, CheckArguments, CheckCap, GuardWallet, EnforcePolicy,
                TransferTokens, UpdateAccounting, At
  <2>2. Underway(executing[x])
    BY <2>1 DEF CopiesInStep
  <2>3. QED
    BY <1>2, <1>8, <2>2, StatementAdvances
<1>9. CASE UNCHANGED executionVars
  BY <1>1, <1>9 DEF executionVars
<1>10. QED
  BY <1>3, <1>4, <1>5, <1>6, <1>7, <1>8, <1>9 DEF ExecutionNext, SettleStep

(***************************************************************************)
(* No two executions come to hold an account that one of them writes.      *)
(***************************************************************************)
LEMMA StaysExclusive ==
  ASSUME ExecutionInv, [ExecutionNext]_executionVars
  PROVE  Exclusive'
<1> USE DEF ExecutionInv
<1>1. ASSUME \A y \in DOMAIN executing' :
               y \in DOMAIN executing /\ executing'[y].request = executing[y].request
      PROVE  Exclusive'
  BY <1>1 DEF Exclusive, Writes, Reads
<1>2. ASSUME NEW x \in Threads, NEW n, Advances(x, n)
      PROVE  Exclusive'
  <2>1. executing' = [executing EXCEPT ![x] = n] /\ n.request = executing[x].request
    BY <1>2 DEF Advances
  <2>2. QED
    BY <1>1, <2>1
<1>3. ASSUME NEW x \in Threads, Commit(x) \/ Rollback(x)
      PROVE  Exclusive'
  <2>1. executing' = Closed(executing, x)
    BY <1>3 DEF Commit, Rollback
  <2>2. QED
    BY <1>1, <2>1 DEF Closed, Restrict
<1>4. ASSUME NEW x \in Threads, NEW q \in Requests, Start(x, q)
      PROVE  Exclusive'
  <2>1. PICK e : e.request = q /\ executing' = Stored(executing, x, e)
    BY <1>4, StartUnderway
  <2>2. \A y \in DOMAIN executing :
          LET p == executing[y].request
          IN  Writes(q) \cap (Writes(p) \cup Reads(p)) = {} /\ Reads(q) \cap Writes(p) = {}
    BY <1>4 DEF Start, Unlocked
  <2>3. /\ DOMAIN executing' = DOMAIN executing \cup {x}
        /\ executing'[x].request = q
        /\ \A y \in DOMAIN executing : y # x => executing'[y] = executing[y]
    BY <2>1 DEF Stored
  <2>4. ASSUME NEW y \in DOMAIN executing', NEW z \in DOMAIN executing', y # z
        PROVE  Writes(executing'[y].request) \cap
                 (Writes(executing'[z].request) \cup Reads(executing'[z].request)) = {}
    <3>1. CASE y = x
      BY <2>2, <2>3, <2>4, <3>1
    <3>2. CASE z = x
      BY <2>2, <2>3, <2>4, <3>2
    <3>3. CASE y # x /\ z # x
      BY <2>3, <2>4, <3>3 DEF Exclusive
    <3>4. QED
      BY <3>1, <3>2, <3>3
  <2>5. QED
    BY <2>4 DEF Exclusive, Writes, Reads
<1>5. CASE UNCHANGED executing
  BY <1>1, <1>5
<1>6. ASSUME NEW x \in Threads, Execute(x), ~Commit(x), ~Rollback(x)
      PROVE  Exclusive'
  <2>1. x \in DOMAIN executing
    BY <1>6 DEF Execute, CheckArguments, CheckCap, GuardWallet, EnforcePolicy,
                TransferTokens, UpdateAccounting, At
  <2>2. Underway(executing[x])
    BY <2>1 DEF CopiesInStep
  <2>3. QED
    BY <1>2, <1>6, <2>2, StatementAdvances
<1>7. QED
  BY <1>3, <1>4, <1>5, <1>6
     DEF ExecutionNext, SettleStep, OtherInstruction, NextBlock, executionVars

(***************************************************************************)
(* The inductive invariant: types, copies in step, locks apart.            *)
(***************************************************************************)
LEMMA ExecutionInvariant == ExecutionSpec => []ExecutionInv
<1>1. Init /\ executing = NoAccounts => ExecutionInv
  BY InitType DEF NoAccounts, ExecutionInv, CopiesInStep, Exclusive
<1>2. ExecutionInv /\ [ExecutionNext]_executionVars => ExecutionInv'
  <2> SUFFICES ASSUME ExecutionInv, [ExecutionNext]_executionVars
               PROVE  ExecutionInv'
    OBVIOUS
  <2>1. TypeOK /\ [Next]_vars
    BY StepIsAtomic DEF ExecutionInv
  <2>2. TypeOK'
    BY <2>1, StepKeepsType
  <2>3. QED
    BY <2>2, CopiesStayInStep, StaysExclusive DEF ExecutionInv
<1>3. QED
  BY <1>1, <1>2, PTL DEF ExecutionSpec

-----------------------------------------------------------------------------

(***************************************************************************)
(* What the threads of a validator do together, statement by statement, is *)
(* to the accounts a behaviour of MaximProtocol, where instructions are    *)
(* single steps: whatever is proved of Spec is true of the execution.      *)
(***************************************************************************)
THEOREM ExecutionImplementsInstructions == ExecutionSpec => Spec
<1>1. ExecutionInv /\ [ExecutionNext]_executionVars => [Next]_vars
  BY StepIsAtomic
<1>2. QED
  BY <1>1, ExecutionInvariant, PTL DEF ExecutionSpec, Spec

(***************************************************************************)
(* A settlement that ends has done all of SettlePayment in the state it    *)
(* ends in, or nothing, for any number of threads and requests.            *)
(***************************************************************************)
THEOREM SettlementsAreAtomic == ExecutionSpec => SettlesAtomically
<1>1. ASSUME ExecutionInv, [ExecutionNext]_executionVars
      PROVE  [\A x \in DOMAIN executing \ DOMAIN executing' :
                LET q == executing[x].request IN
                \/ executing[x].step = "failed" /\ UNCHANGED vars
                \/ SettlePayment(q.owner, q.a, q.mint, q.payee, q.sequence, q.params)
             ]_executionVars
  <2> USE DEF ExecutionInv
  <2> SUFFICES ASSUME ExecutionNext, NEW x \in DOMAIN executing \ DOMAIN executing',
                      NEW q, q = executing[x].request
               PROVE  \/ executing[x].step = "failed" /\ UNCHANGED vars
                      \/ SettlePayment(q.owner, q.a, q.mint, q.payee, q.sequence, q.params)
    BY <1>1 DEF executionVars
  <2>1. Underway(executing[x])
    BY <1>1 DEF CopiesInStep
  <2>2. Commit(x) \/ Rollback(x)
    <3>1. ASSUME NEW y \in Threads, NEW n, Advances(y, n)
          PROVE  FALSE
      BY <3>1 DEF Advances
    <3>2. ASSUME NEW y \in Threads, NEW r \in Requests, Start(y, r)
          PROVE  FALSE
      BY <3>2, StartUnderway DEF Stored
    <3>3. ASSUME NEW y \in Threads, Commit(y) \/ Rollback(y)
          PROVE  y = x
      BY <3>3 DEF Commit, Rollback, Closed, Restrict
    <3>4. ASSUME NEW y \in Threads, Execute(y), ~Commit(y), ~Rollback(y)
          PROVE  FALSE
      <4>1. y \in DOMAIN executing
        BY <3>4 DEF Execute, CheckArguments, CheckCap, GuardWallet, EnforcePolicy,
                    TransferTokens, UpdateAccounting, At
      <4>2. Underway(executing[y])
        BY <1>1, <4>1 DEF CopiesInStep
      <4>3. QED
        BY <3>1, <3>4, <4>2, StatementAdvances
    <3>5. OtherInstruction \/ NextBlock => FALSE
      BY DEF OtherInstruction, NextBlock
    <3>6. QED
      BY <3>2, <3>3, <3>4, <3>5 DEF ExecutionNext, SettleStep
  <2>3. CASE Commit(x)
    BY <1>1, <2>1, <2>3, CommitSettles
  <2>4. CASE Rollback(x)
    BY <2>4 DEF Rollback, At
  <2>5. QED
    BY <2>2, <2>3, <2>4
<1>2. QED
  BY <1>1, ExecutionInvariant, PTL DEF ExecutionSpec, SettlesAtomically

(***************************************************************************)
(* What the proofs about single instructions promise of money, ledger and  *)
(* windows, they promise of the parallel execution.                        *)
(***************************************************************************)
COROLLARY ExecutionKeepsPromises ==
  ExecutionSpec => OutflowAuthorised /\ LedgerAppendOnly /\ []LedgerGapless /\ []NestedWindows
BY ExecutionImplementsInstructions, OutflowIsAuthorised, LedgerIsAppendOnly, LedgerHasNoGaps,
   DaysNestInWindows
-----------------------------------------------------------------------------
(* What an error says *)

(***************************************************************************)
(* The accumulator that a settlement compares with a budget is what the    *)
(* ledger says was spent in the window that contains now.                  *)
(***************************************************************************)
LEMMA SpentNowIsSpend ==
  ASSUME TypeOK, OpenBooksInv, NEW a \in AgentIds, CanAppend(a), NEW w \in Windows
  PROVE  /\ SpentNow(a, w) = ResetWindowsIfElapsed(agent_wallet[a], now).spend[w]
         /\ SpentNow(a, w) \in Nat
<1> DEFINE wallet == agent_wallet[a]
           reset  == ResetWindowsIfElapsed(wallet, now)
           begin  == AdvancedStart(wallet.window_start[w], Period(w), now)
           passed == PassedOf(a)
<1>1. wallet \in AgentWallet /\ now \in Nat /\ Booked(a) /\ a \in DOMAIN agent_wallet
  BY DEF OpenBooksInv, CanAppend, TypeOK
<1>2. /\ wallet.window_start[w] \in Nat /\ wallet.window_start[w] <= now
      /\ wallet.spend[w] \in Nat
      /\ \A r \in passed : payment_record[r].settled_at < wallet.window_start[w] + Period(w)
      /\ wallet.spend[w] = LedgerSpend(a, w)
  BY <1>1, WidthAssumption DEF Booked, AgentWallet, U64
<1>3. /\ Amounting(payment_record, passed)
      /\ \A r \in passed : payment_record[r].settled_at \in Nat
  BY PassedRecords DEF OpenBooksInv
<1>4. wallet.spend[w] = VolumeIn(payment_record,
        {r \in passed : payment_record[r].settled_at >= wallet.window_start[w]})
  BY <1>2, VolumeIsVolumeIn DEF LedgerSpend, PassedSince
<1>5. Restarted(reset, wallet, now, w, payment_record, passed)
  <2> HIDE DEF wallet, passed
  <2>1. QED
    BY <1>1, <1>2, <1>3, <1>4, WindowAfterReset
<1>6. /\ reset.window_start[w] = IF WindowElapsed(wallet, w, now) THEN begin
                                 ELSE wallet.window_start[w]
      /\ reset.spend[w] \in {0, wallet.spend[w]}
  BY <1>1 DEF ResetWindowsIfElapsed, AgentWallet
<1>7. reset.window_start[w] = begin
  <2>1. PICK start, p : start = wallet.window_start[w] /\ p = Period(w)
    OBVIOUS
  <2>2. start \in Nat /\ p \in Nat \ {0} /\ start <= now
    BY <1>2, <2>1, PeriodPositive
  <2>3. ASSUME now < start + p
        PROVE  AdvancedStart(start, p, now) = start
    <3>1. (now - start) \div p = 0
      BY <1>1, <2>2, <2>3
    <3>2. QED
      BY <2>2, <3>1 DEF AdvancedStart
  <2>4. ~WindowElapsed(wallet, w, now) => now < start + p
    BY <1>1, <2>1, <2>2 DEF WindowElapsed
  <2>5. QED
    BY <1>6, <2>1, <2>3, <2>4
<1>8. SpentNow(a, w) = VolumeIn(payment_record, {r \in passed : payment_record[r].settled_at >= begin})
  BY VolumeIsVolumeIn DEF SpentNow, PassedSince
<1>9. QED
  BY <1>2, <1>5, <1>6, <1>7, <1>8 DEF Restarted

(***************************************************************************)
(* The checks of each statement, one by one.                               *)
(***************************************************************************)
LEMMA ArgumentChecksSay ==
  ASSUME NEW q, NEW checks, checks = ArgumentChecks(q)
  PROVE  /\ DOMAIN checks = 1..3
         /\ checks[1].error = "ZeroPaymentAmount"
         /\ checks[1].holds = (Paid(q) > 0)
         /\ checks[2].error = "InvalidProtocol"
         /\ checks[2].holds = ValidProtocol(q.params.protocol)
         /\ checks[3].error = "SequenceMismatch"
         /\ checks[3].holds = SequenceNext(q.a, q.sequence)
BY SMT DEF ArgumentChecks, Check, SequenceNext

LEMMA CapChecksSay ==
  ASSUME NEW q, NEW checks, checks = CapChecks(q)
  PROVE  /\ DOMAIN checks = 1..1
         /\ checks[1].error = "GlobalPaymentCapExceeded"
         /\ checks[1].holds = UnderGlobalCap(Paid(q))
BY SMT DEF CapChecks, Check

LEMMA WalletChecksSay ==
  ASSUME NEW q, NEW checks, checks = WalletChecks(q)
  PROVE  /\ DOMAIN checks = 1..2
         /\ checks[1].error = "AgentNotActive"
         /\ checks[1].holds = agent_wallet[q.a].is_active
         /\ checks[2].error = "AgentFrozen"
         /\ checks[2].holds = ~agent_wallet[q.a].is_frozen
BY SMT DEF WalletChecks, Check

LEMMA EnforcedChecksSay ==
  ASSUME NEW q, NEW checks, checks = EnforcedChecks(q),
         NEW policy, policy = spend_policy[q.a], NEW spend, spend = ResetNow(q).spend
  PROVE  /\ DOMAIN checks = 1..7
         /\ checks[1].error = "PerCallLimitExceeded"
         /\ checks[1].holds = WithinPerCallLimit(policy, Paid(q))
         /\ checks[2].error = "DailyBudgetExceeded"
         /\ checks[2].holds = WithinBudget(policy, "daily", spend["daily"], Paid(q))
         /\ checks[3].error = "WeeklyBudgetExceeded"
         /\ checks[3].holds = WithinBudget(policy, "weekly", spend["weekly"], Paid(q))
         /\ checks[4].error = "MonthlyBudgetExceeded"
         /\ checks[4].holds = WithinBudget(policy, "monthly", spend["monthly"], Paid(q))
         /\ checks[5].error = "RateLimitExceeded"
         /\ checks[5].holds = WithinRateLimit(ResetRateWindowIfElapsed(policy, now))
         /\ checks[6].error = "DomainBlocked"
         /\ checks[6].holds = (q.params.domain_hash \notin policy.blocked_domain_hashes)
         /\ checks[7].error = "DomainNotAllowed"
         /\ checks[7].holds = (policy.allowed_domain_hashes # {} =>
                                 q.params.domain_hash \in policy.allowed_domain_hashes)
BY SMT DEF EnforcedChecks, PolicyChecks, RateCheck, Check

LEMMA TransferChecksSay ==
  ASSUME NEW q, NEW checks, checks = TransferChecks(q)
  PROVE  /\ DOMAIN checks = 1..1
         /\ checks[1].error = "InsufficientFunds"
         /\ checks[1].holds = (Paid(q) <= token_account[From(q)])
BY SMT DEF TransferChecks, Check

(***************************************************************************)
(* What SettlePayment admits passes every check.                           *)
(***************************************************************************)
Admitted(q) == AdmitsPayment(q.owner, q.a, q.mint, q.payee, q.sequence, q.params)

LEMMA AdmittedPasses ==
  ASSUME TypeOK, NEW q, Admitted(q), NEW step \in Checked
  PROVE  FirstError(ChecksAt(q, step)) = "none"
<1>1. /\ Present(q) /\ Paid(q) > 0 /\ ValidProtocol(q.params.protocol)
      /\ SequenceNext(q.a, q.sequence) /\ UnderGlobalCap(Paid(q))
      /\ AcceptsPayments(ResetNow(q))
      /\ Enforced(q) =>
           PolicyAdmits(spend_policy[q.a], ResetNow(q), Paid(q), q.params.domain_hash, now)
      /\ Paid(q) <= token_account[From(q)]
  BY DEF Admitted, AdmitsPayment, SignedByOwner, Present, Paid, From, To, ResetNow, Enforced
<1>2. ASSUME NEW checks, NEW n \in 0..7, DOMAIN checks = 1..n, \A i \in 1..n : checks[i].holds
      PROVE  FirstError(checks) = "none"
  BY <1>2 DEF FirstError
<1>3. CASE step = "arguments"
  <2>1. PICK checks : checks = ArgumentChecks(q)
    OBVIOUS
  <2>2. checks[1].holds /\ checks[2].holds /\ checks[3].holds /\ DOMAIN checks = 1..3
    BY Zenon, <1>1, <2>1, ArgumentChecksSay
  <2>3. FirstError(checks) = "none"
    BY <1>2, <2>2
  <2>4. QED
    BY <1>3, <2>1, <2>3 DEF ChecksAt
<1>4. CASE step = "cap"
  <2>1. PICK checks : checks = CapChecks(q)
    OBVIOUS
  <2>2. checks[1].holds /\ DOMAIN checks = 1..1
    BY Zenon, <1>1, <2>1, CapChecksSay
  <2>3. FirstError(checks) = "none"
    BY <1>2, <2>2
  <2>4. QED
    BY <1>4, <2>1, <2>3 DEF ChecksAt
<1>5. CASE step = "wallet"
  <2>1. PICK checks : checks = WalletChecks(q)
    OBVIOUS
  <2>2. agent_wallet[q.a] \in AgentWallet
    BY <1>1 DEF TypeOK, Present
  <2>3. agent_wallet[q.a].is_active /\ ~agent_wallet[q.a].is_frozen
    BY <1>1, <2>2 DEF ResetNow, ResetWindowsIfElapsed, AgentWallet, AcceptsPayments
  <2>4. checks[1].holds /\ checks[2].holds /\ DOMAIN checks = 1..2
    BY Zenon, <2>1, <2>3, WalletChecksSay
  <2>5. FirstError(checks) = "none"
    BY <1>2, <2>4
  <2>6. QED
    BY <1>5, <2>1, <2>5 DEF ChecksAt
<1>6. CASE step = "policy" /\ ~Enforced(q)
  BY <1>6 DEF ChecksAt, FirstError
<1>7. CASE step = "policy" /\ Enforced(q)
  <2>1. PICK checks, policy, spend :
          checks = EnforcedChecks(q) /\ policy = spend_policy[q.a] /\ spend = ResetNow(q).spend
    OBVIOUS
  <2>2. /\ WithinPerCallLimit(policy, Paid(q))
        /\ WithinBudget(policy, "daily", spend["daily"], Paid(q))
        /\ WithinBudget(policy, "weekly", spend["weekly"], Paid(q))
        /\ WithinBudget(policy, "monthly", spend["monthly"], Paid(q))
        /\ WithinRateLimit(ResetRateWindowIfElapsed(policy, now))
        /\ q.params.domain_hash \notin policy.blocked_domain_hashes
        /\ policy.allowed_domain_hashes # {} =>
             q.params.domain_hash \in policy.allowed_domain_hashes
    BY <1>1, <1>7, <2>1 DEF PolicyAdmits, DomainPermitted, Windows
  <2>3. /\ checks[1].holds = WithinPerCallLimit(policy, Paid(q))
        /\ checks[2].holds = WithinBudget(policy, "daily", spend["daily"], Paid(q))
        /\ checks[3].holds = WithinBudget(policy, "weekly", spend["weekly"], Paid(q))
        /\ checks[4].holds = WithinBudget(policy, "monthly", spend["monthly"], Paid(q))
    BY SMT, <2>1, EnforcedChecksSay
  <2>4. checks[1].holds /\ checks[2].holds /\ checks[3].holds /\ checks[4].holds
    BY Zenon, <2>2, <2>3
  <2>5. checks[5].holds /\ checks[6].holds /\ checks[7].holds /\ DOMAIN checks = 1..7
    BY Zenon, <2>1, <2>2, EnforcedChecksSay
  <2>6. FirstError(checks) = "none"
    BY <1>2, <2>4, <2>5
  <2>7. QED
    BY <1>7, <2>1, <2>6 DEF ChecksAt
<1>8. CASE step = "transfer"
  <2>1. PICK checks : checks = TransferChecks(q)
    OBVIOUS
  <2>2. checks[1].holds /\ DOMAIN checks = 1..1
    BY Zenon, <1>1, <2>1, TransferChecksSay
  <2>3. FirstError(checks) = "none"
    BY <1>2, <2>2
  <2>4. QED
    BY <1>8, <2>1, <2>3 DEF ChecksAt
<1>9. QED
  BY <1>3, <1>4, <1>5, <1>6, <1>7, <1>8 DEF Checked

(***************************************************************************)
(* The check that fails gives its error the meaning errors.rs gives it.    *)
(***************************************************************************)
LEMMA FirstFailing ==
  ASSUME NEW n \in 0..7, NEW checks, DOMAIN checks = 1..n, FirstError(checks) # "none"
  PROVE  \E i \in 1..n : /\ ~checks[i].holds
                        /\ FirstError(checks) = checks[i].error
                        /\ \A j \in 1..(i - 1) : checks[j].holds
<1>1. \E i \in 1..n : ~checks[i].holds
  BY DEF FirstError
<1>2. QED
  BY <1>1, FirstErrorDecides

LEMMA AmountsPaid ==
  ASSUME NEW q \in Requests
  PROVE  Paid(q) \in U64 /\ Paid(q) \in Nat /\ q.a \in AgentIds
<1>1. q.params \in PaymentParams /\ q.a \in AgentIds
  BY RequestsAssumption
<1>2. Paid(q) \in Amounts
  BY <1>1 DEF PaymentParams, Paid
<1>3. Paid(q) \in U64
  BY <1>2, InputsAssumption
<1>4. QED
  BY <1>1, <1>3, WidthAssumption DEF U64

LEMMA ArgumentErrorsMean ==
  ASSUME NEW q \in Requests, NEW error, error = FirstError(ArgumentChecks(q)), error # "none"
  PROVE  Means(error, q)
<1>1. PICK checks : checks = ArgumentChecks(q)
  OBVIOUS
<1>2. DOMAIN checks = 1..3
  BY <1>1, ArgumentChecksSay
<1>3. PICK i \in 1..3 : ~checks[i].holds /\ error = checks[i].error
  BY <1>1, <1>2, FirstFailing
<1>4. CASE i = 1
  <2>1. ~(Paid(q) > 0) /\ error = "ZeroPaymentAmount"
    BY Zenon, <1>1, <1>3, <1>4, ArgumentChecksSay
  <2>2. QED
    BY <2>1, AmountsPaid DEF Means, Paid
<1>5. CASE i = 2
  <2>1. ~ValidProtocol(q.params.protocol) /\ error = "InvalidProtocol"
    BY Zenon, <1>1, <1>3, <1>5, ArgumentChecksSay
  <2>2. QED
    BY <2>1 DEF Means, ValidProtocol
<1>6. CASE i = 3
  <2>1. ~SequenceNext(q.a, q.sequence) /\ error = "SequenceMismatch"
    BY Zenon, <1>1, <1>3, <1>6, ArgumentChecksSay
  <2>2. QED
    BY <2>1 DEF Means, SequenceNext
<1>7. QED
  BY <1>4, <1>5, <1>6

LEMMA CapErrorMeans ==
  ASSUME TypeOK, NEW q \in Requests,
         NEW error, error = FirstError(CapChecks(q)), error # "none"
  PROVE  Means(error, q)
<1>1. PICK checks : checks = CapChecks(q)
  OBVIOUS
<1>2. DOMAIN checks = 1..1
  BY <1>1, CapChecksSay
<1>3. PICK i \in 1..1 : ~checks[i].holds /\ error = checks[i].error
  BY <1>1, <1>2, FirstFailing
<1>4. i = 1
  OBVIOUS
<1>5. ~UnderGlobalCap(Paid(q)) /\ error = "GlobalPaymentCapExceeded"
  BY Zenon, <1>1, <1>3, <1>4, CapChecksSay
<1>6. protocol_config.max_single_payment_usdc \in Nat
  BY WidthAssumption DEF TypeOK, Config, U64
<1>7. protocol_config.max_single_payment_usdc \in 1..(Paid(q) - 1)
  BY <1>5, <1>6, AmountsPaid DEF UnderGlobalCap
<1>8. QED
  BY <1>5, <1>7 DEF Means, Paid

LEMMA WalletErrorsMean ==
  ASSUME NEW q \in Requests, NEW error, error = FirstError(WalletChecks(q)), error # "none"
  PROVE  Means(error, q)
<1>1. PICK checks : checks = WalletChecks(q)
  OBVIOUS
<1>2. DOMAIN checks = 1..2
  BY <1>1, WalletChecksSay
<1>3. PICK i \in 1..2 : ~checks[i].holds /\ error = checks[i].error
  BY <1>1, <1>2, FirstFailing
<1>4. CASE i = 1
  <2>1. ~agent_wallet[q.a].is_active /\ error = "AgentNotActive"
    BY Zenon, <1>1, <1>3, <1>4, WalletChecksSay
  <2>2. QED
    BY <2>1 DEF Means
<1>5. CASE i = 2
  <2>1. agent_wallet[q.a].is_frozen /\ error = "AgentFrozen"
    BY Zenon, <1>1, <1>3, <1>5, WalletChecksSay
  <2>2. QED
    BY <2>1 DEF Means
<1>6. QED
  BY <1>4, <1>5

LEMMA TransferErrorMeans ==
  ASSUME TypeOK, NEW q \in Requests, Present(q),
         NEW error, error = FirstError(TransferChecks(q)), error # "none"
  PROVE  Means(error, q)
<1>1. PICK checks : checks = TransferChecks(q)
  OBVIOUS
<1>2. DOMAIN checks = 1..1
  BY <1>1, TransferChecksSay
<1>3. PICK i \in 1..1 : ~checks[i].holds /\ error = checks[i].error
  BY <1>1, <1>2, FirstFailing
<1>4. i = 1
  OBVIOUS
<1>5. ~(Paid(q) <= token_account[From(q)]) /\ error = "InsufficientFunds"
  BY Zenon, <1>1, <1>3, <1>4, TransferChecksSay
<1>6. token_account[From(q)] \in Nat
  BY DEF TypeOK, Present
<1>7. Paid(q) > token_account[From(q)]
  BY <1>5, <1>6, AmountsPaid
<1>8. QED
  BY <1>5, <1>7 DEF Means, Paid, From

(***************************************************************************)
(* A payment that the accumulator does not leave room for is one that the  *)
(* ledger leaves no room for.                                              *)
(***************************************************************************)
LEMMA BudgetErrorMeans ==
  ASSUME TypeOK, OpenBooksInv, NEW q \in Requests, CanAppend(q.a), q.a \in DOMAIN spend_policy,
         NEW w \in Windows,
         ~WithinBudget(spend_policy[q.a], w, ResetNow(q).spend[w], Paid(q))
  PROVE  OverBudget(q.a, w, Paid(q))
<1>1. PICK spent, budget, amount :
        spent = ResetNow(q).spend[w] /\ budget = spend_policy[q.a].budget[w] /\ amount = Paid(q)
  OBVIOUS
<1>2. SpentNow(q.a, w) = spent /\ spent \in Nat
  BY <1>1, AmountsPaid, SpentNowIsSpend DEF ResetNow
<1>3. budget \in Nat /\ amount \in Nat
  <2>1. spend_policy[q.a] \in SpendPolicy
    BY DEF TypeOK
  <2>2. QED
    BY <1>1, <2>1, AmountsPaid, WidthAssumption DEF SpendPolicy, U64
<1>4. ~(budget = 0 \/ SaturatingAdd(spent, amount, MaxU64) <= budget)
  BY <1>1 DEF WithinBudget
<1>5. budget \in 1..(spent + amount - 1)
  BY <1>2, <1>3, <1>4, WidthAssumption DEF SaturatingAdd
<1>6. QED
  BY <1>1, <1>2, <1>5 DEF OverBudget

LEMMA EnforcedErrorsMean ==
  ASSUME TypeOK, OpenBooksInv, NEW q \in Requests, Passed(q, "policy"),
         NEW error, error = FirstError(EnforcedChecks(q)), error # "none"
  PROVE  Means(error, q)
<1>1. q.a \in DOMAIN spend_policy /\ spend_policy[q.a] \in SpendPolicy
  BY DEF TypeOK, Passed, Resolved, Present
<1>2. CanAppend(q.a)
  BY DEF Passed, Resolved, Present, RecordFree, SequenceNext, CanAppend, Sequence
<1>3. PICK checks, policy, spend :
        checks = EnforcedChecks(q) /\ policy = spend_policy[q.a] /\ spend = ResetNow(q).spend
  OBVIOUS
<1>4. DOMAIN checks = 1..7
  BY <1>3, EnforcedChecksSay
<1>5. PICK i \in 1..7 : /\ ~checks[i].holds
                       /\ error = checks[i].error
                       /\ \A j \in 1..(i - 1) : checks[j].holds
  BY <1>3, <1>4, FirstFailing
<1>6. policy \in SpendPolicy /\ Paid(q) \in Nat
  BY <1>1, <1>3, AmountsPaid
<1>7. /\ checks[1].holds = WithinPerCallLimit(policy, Paid(q))
      /\ checks[2].holds = WithinBudget(policy, "daily", spend["daily"], Paid(q))
      /\ checks[3].holds = WithinBudget(policy, "weekly", spend["weekly"], Paid(q))
      /\ checks[4].holds = WithinBudget(policy, "monthly", spend["monthly"], Paid(q))
      /\ checks[1].error = "PerCallLimitExceeded"
      /\ checks[2].error = "DailyBudgetExceeded"
      /\ checks[3].error = "WeeklyBudgetExceeded"
      /\ checks[4].error = "MonthlyBudgetExceeded"
  BY SMT, <1>3, EnforcedChecksSay
<1>8. CASE i = 1
  <2>1. ~WithinPerCallLimit(policy, Paid(q)) /\ error = "PerCallLimitExceeded"
    BY Zenon, <1>5, <1>7, <1>8
  <2>2. policy.per_call_limit \in Nat
    BY <1>6, WidthAssumption DEF SpendPolicy, U64
  <2>3. policy.per_call_limit \in 1..(Paid(q) - 1)
    BY <1>6, <2>1, <2>2 DEF WithinPerCallLimit
  <2>4. QED
    BY <1>3, <2>1, <2>3 DEF Means, Paid
<1>9. CASE i = 2
  <2>1. ~WithinBudget(policy, "daily", spend["daily"], Paid(q)) /\ error = "DailyBudgetExceeded"
    BY Zenon, <1>5, <1>7, <1>9
  <2>2. OverBudget(q.a, "daily", Paid(q))
    BY <1>1, <1>2, <1>3, <2>1, BudgetErrorMeans DEF Windows
  <2>3. QED
    BY <2>1, <2>2 DEF Means, Paid
<1>10. CASE i = 3
  <2>1. ~WithinBudget(policy, "weekly", spend["weekly"], Paid(q)) /\ error = "WeeklyBudgetExceeded"
    BY Zenon, <1>5, <1>7, <1>10
  <2>2. OverBudget(q.a, "weekly", Paid(q))
    BY <1>1, <1>2, <1>3, <2>1, BudgetErrorMeans DEF Windows
  <2>3. QED
    BY <2>1, <2>2 DEF Means, Paid
<1>11. CASE i = 4
  <2>1. ~WithinBudget(policy, "monthly", spend["monthly"], Paid(q)) /\ error = "MonthlyBudgetExceeded"
    BY Zenon, <1>5, <1>7, <1>11
  <2>2. OverBudget(q.a, "monthly", Paid(q))
    BY <1>1, <1>2, <1>3, <2>1, BudgetErrorMeans DEF Windows
  <2>3. QED
    BY <2>1, <2>2 DEF Means, Paid
<1>12. CASE i = 5
  <2>1. PICK reset : reset = ResetRateWindowIfElapsed(policy, now)
    OBVIOUS
  <2>2. ~WithinRateLimit(reset) /\ error = "RateLimitExceeded"
    BY Zenon, <1>3, <1>5, <1>12, <2>1, EnforcedChecksSay
  <2>3. policy.rate_limit_calls \in Nat /\ policy.rate_limit_call_count \in Nat
    BY <1>6, WidthAssumption DEF SpendPolicy, U32
  <2>4. /\ reset.rate_limit_calls = policy.rate_limit_calls
        /\ reset.rate_limit_call_count \in {0, policy.rate_limit_call_count}
    BY <1>6, <2>1 DEF ResetRateWindowIfElapsed, SpendPolicy
  <2>5. policy.rate_limit_calls \in 1..policy.rate_limit_call_count
    BY <2>2, <2>3, <2>4 DEF WithinRateLimit
  <2>6. QED
    BY <1>3, <2>2, <2>5 DEF Means
<1>13. CASE i = 6
  <2>1. q.params.domain_hash \in policy.blocked_domain_hashes /\ error = "DomainBlocked"
    BY Zenon, <1>3, <1>5, <1>13, EnforcedChecksSay
  <2>2. QED
    BY <1>3, <2>1 DEF Means
<1>14. CASE i = 7
  <2>1. /\ ~(policy.allowed_domain_hashes # {} =>
               q.params.domain_hash \in policy.allowed_domain_hashes)
        /\ error = "DomainNotAllowed"
    BY Zenon, <1>3, <1>5, <1>14, EnforcedChecksSay
  <2>2. checks[6].holds
    BY <1>5, <1>14
  <2>3. q.params.domain_hash \notin policy.blocked_domain_hashes
    BY Zenon, <1>3, <2>2, EnforcedChecksSay
  <2>4. QED
    BY <1>3, <2>1, <2>3 DEF Means
<1>15. QED
  BY <1>5, <1>8, <1>9, <1>10, <1>11, <1>12, <1>13, <1>14

(***************************************************************************)
(* So whatever refuses a settlement is true of the accounts and the        *)
(* ledger, and is what keeps SettlePayment from admitting it.              *)
(***************************************************************************)
LEMMA RefusedIsJustified ==
  ASSUME TypeOK, OpenBooksInv, NEW q \in Requests, NEW error, Refused(q, error)
  PROVE  Means(error, q) /\ ~Admitted(q)
<1>1. CASE error = "Account" /\ ~Present(q)
  <2>1. Means(error, q)
    BY <1>1 DEF Means, Present, HasTokenAccount, From, To
  <2>2. ~Admitted(q)
    BY <1>1 DEF Present, Admitted, AdmitsPayment, HasTokenAccount, From, To, SignedByOwner
  <2>3. QED
    BY <2>1, <2>2
<1>2. CASE error = "Unauthorized" /\ Present(q) /\ ~SignedByOwner(q.owner, q.a)
  <2>1. agent_wallet[q.a].owner # q.owner
    BY <1>2 DEF Present, SignedByOwner
  <2>2. QED
    BY <1>2, <2>1 DEF Means, Admitted, AdmitsPayment
<1>3. ASSUME error # "none", NEW step \in Checked,
             Passed(q, step), error = FirstError(ChecksAt(q, step))
      PROVE  Means(error, q) /\ ~Admitted(q)
  <2>1. ~Admitted(q)
    BY <1>3, AdmittedPasses
  <2>2. CASE step = "arguments"
    BY <1>3, <2>1, <2>2, ArgumentErrorsMean DEF ChecksAt
  <2>3. CASE step = "cap"
    BY <1>3, <2>1, <2>3, CapErrorMeans DEF ChecksAt
  <2>4. CASE step = "wallet"
    BY <1>3, <2>1, <2>4, WalletErrorsMean DEF ChecksAt
  <2>5. CASE step = "policy"
    <3>1. Enforced(q)
      BY <1>3, <2>5 DEF ChecksAt, FirstError
    <3>2. QED
      BY <1>3, <2>1, <2>5, <3>1, EnforcedErrorsMean DEF ChecksAt
  <2>6. CASE step = "transfer"
    <3>1. Present(q)
      BY <1>3 DEF Passed, Resolved
    <3>2. QED
      BY <1>3, <2>1, <2>6, <3>1, TransferErrorMeans DEF ChecksAt
  <2>7. QED
    BY <2>2, <2>3, <2>4, <2>5, <2>6 DEF Checked
<1>4. QED
  BY <1>1, <1>2, <1>3 DEF Refused

(***************************************************************************)
(* The error a refused settlement ends with, which the gateway makes       *)
(* permanent in a violation record, tells the truth: whatever the other    *)
(* threads do between the statement that failed and the end of the         *)
(* transaction, and about budgets by the ledger, not by the accumulators.  *)
(* And only what SettlePayment would not admit is refused.                 *)
(***************************************************************************)
THEOREM RefusalsAreJustified == ExecutionSpec => []RefusalsJustified
<1>1. TypeOK /\ OpenBooksInv /\ ExecutionInv => RefusalsJustified
  <2> SUFFICES ASSUME TypeOK, OpenBooksInv, ExecutionInv,
                      NEW x \in DOMAIN executing, executing[x].step = "failed"
               PROVE  /\ Means(executing[x].error, executing[x].request)
                      /\ ~Admitted(executing[x].request)
    BY DEF RefusalsJustified, Admitted
  <2>1. PICK e : e = executing[x] /\ Underway(e) /\ e.step \notin Steps
    BY DEF ExecutionInv, CopiesInStep, Steps, BeforeTransfer, BeforeCount, BeforeReset
  <2>2. PICK q, error : q = e.request /\ error = e.error
    OBVIOUS
  <2>3. q \in Requests /\ Refused(q, error)
    BY Zenon, <2>1, <2>2 DEF Underway
  <2>4. Means(error, q) /\ ~Admitted(q)
    BY <2>3, RefusedIsJustified
  <2>5. QED
    BY <2>1, <2>2, <2>4
<1>2. ExecutionSpec => [](TypeOK /\ OpenBooksInv)
  BY ExecutionImplementsInstructions, OpenBooksInvariant
<1>3. QED
  BY <1>1, <1>2, ExecutionInvariant, PTL
=============================================================================
