------------------------------- MODULE SeedScript -------------------------------
(***************************************************************************)
(* scripts/seed.ts, the one client in the repository, composed with the    *)
(* program.  It sends one transaction after the other, waits for each to   *)
(* be confirmed, counts the sequence numbers of its agents itself, and     *)
(* gives up at the first error.                                            *)
(*                                                                         *)
(* The network may lose a transaction, or deliver it after the script has  *)
(* stopped waiting for it.  Devnet is shared: somebody else may be the     *)
(* protocol's admin.  The agent ids and the mint are new in every run.     *)
(*                                                                         *)
(* There are two specifications.  SeedSpec is about the script's control   *)
(* flow: it leaves open which transactions the program can read, so that   *)
(* the cluster may refuse any of them.  WireSpec adds what the script's    *)
(* encoders write and the program reads: it is the script as it stands.    *)
(***************************************************************************)
EXTENDS MaximSafety, Sequences

CONSTANTS
  Agent1, Agent2,   \* AGENT_1 and AGENT_2
  Deployer,         \* owner, payer and payee
  UsdcMint,         \* the mock mint
  Endpoint          \* the domain hash of the payments: no list names it

ASSUME SeedAssumption ==
  /\ {Agent1, Agent2} \subseteq AgentIds
  /\ Agent1 # Agent2
  /\ Deployer \in Keys
  /\ UsdcMint \in Mints

VARIABLES
  position,    \* the transaction the script is at
  status,      \* "ready" to send, "waiting", "landed" unconfirmed, "done" or "failed"
  seq_map,     \* the script's own count of sequences
  in_flight,   \* transactions the network holds
  disturbed    \* something outside the script and the program went wrong or interfered

scriptVars == <<position, status, seq_map, in_flight, disturbed>>
seedVars   == <<vars, scriptVars>>

-----------------------------------------------------------------------------
(* What is sent.  Amounts are in units of half a dollar. *)

Setup(a) ==
  <<[ix |-> "register_agent", a |-> a], [ix |-> "set_spend_policy", a |-> a],
    [ix |-> "mint_to", a |-> a, amount_usdc |-> 60]>>

PAYMENTS ==
  <<[ix |-> "settle_payment", a |-> Agent1, amount_usdc |-> 12, protocol |-> 0],
    [ix |-> "settle_payment", a |-> Agent1, amount_usdc |-> 7,  protocol |-> 1],
    [ix |-> "settle_payment", a |-> Agent2, amount_usdc |-> 18, protocol |-> 0]>>

VIOLATIONS ==
  <<[ix |-> "record_policy_violation", a |-> Agent2, amount_usdc |-> 120, protocol |-> 0]>>

Entries == PAYMENTS \o VIOLATIONS

Preparation ==
  <<[ix |-> "create_account"], [ix |-> "init_protocol"]>> \o Setup(Agent1) \o Setup(Agent2)

Transactions == Preparation \o Entries

\* set_spend_policy(agentId), without a monthly budget: the script knows of none
SeededPolicy ==
  [budget |-> [daily |-> 100, weekly |-> 400, monthly |-> 0], per_call_limit |-> 100,
   rate_limit_calls |-> 100, rate_limit_window_secs |-> 3600, high_value_threshold |-> 20,
   allowed_domain_hashes |-> {}, blocked_domain_hashes |-> {}]

\* What the script passes is among what callers of the program may pass.
ASSUME ScriptAssumption ==
  /\ {7, 12, 18, 60, 120} \subseteq Amounts
  /\ {0, 1} \subseteq Protocols
  /\ Endpoint \in Domains
  /\ SeededPolicy \in PolicyParams

\* What a transaction does when it is executed
ParamsOf(tx) ==
  [amount_usdc |-> tx.amount_usdc, protocol |-> tx.protocol, domain_hash |-> Endpoint,
   parent_payment |-> {}]

Executes(tx) ==
  \/ tx.ix = "create_account" /\ CreateTokenAccount(Deployer, UsdcMint)
  \/ tx.ix = "init_protocol" /\ InitProtocol(Deployer)
  \/ tx.ix = "register_agent" /\ RegisterAgent(Deployer, tx.a, UsdcMint)
  \/ tx.ix = "set_spend_policy" /\ SetSpendPolicy(Deployer, tx.a, SeededPolicy)
  \/ tx.ix = "mint_to" /\ Fund(tx.a, UsdcMint, tx.amount_usdc)
  \/ /\ tx.ix = "settle_payment"
     /\ SettlePayment(Deployer, tx.a, UsdcMint, Deployer, tx.sequence, ParamsOf(tx))
  \/ /\ tx.ix = "record_policy_violation"
     /\ RecordPolicyViolation(Deployer, tx.a, tx.sequence, ParamsOf(tx))

-----------------------------------------------------------------------------
(* The script *)

Sequenced(ix) == ix \in {"settle_payment", "record_policy_violation"}

Numbered(entry, sequence) ==
  [ix |-> entry.ix, a |-> entry.a, amount_usdc |-> entry.amount_usdc,
   protocol |-> entry.protocol, sequence |-> sequence]

\* init_protocol is sent only if the configuration is not found; looking is not sending.
SkipInit ==
  /\ status = "ready"
  /\ position <= Len(Transactions)
  /\ Transactions[position].ix = "init_protocol"
  /\ protocol_config.initialised
  /\ position' = position + 1
  /\ UNCHANGED <<vars, status, seq_map, in_flight, disturbed>>

Send ==
  /\ status = "ready"
  /\ position <= Len(Transactions)
  /\ LET tx == Transactions[position] IN
     /\ tx.ix = "init_protocol" => ~protocol_config.initialised
     /\ in_flight' = {IF Sequenced(tx.ix) THEN Numbered(tx, seq_map[tx.a]) ELSE tx}
  /\ status' = "waiting"
  /\ UNCHANGED <<vars, position, seq_map, disturbed>>

\* Mutant: the sequence is not counted
ConfirmUncounted ==
  /\ status = "landed"
  /\ status' = "ready"
  /\ position' = position + 1
  /\ UNCHANGED <<vars, seq_map, in_flight, disturbed>>

\* sendAndConfirmTransaction returns, and seqMap[agentId]++ follows.
Confirm ==
  /\ status = "landed"
  /\ status' = "ready"
  /\ position' = position + 1
  /\ LET tx == Transactions[position] IN
     seq_map' = IF Sequenced(tx.ix) THEN [seq_map EXCEPT ![tx.a] = @ + 1] ELSE seq_map
  /\ UNCHANGED <<vars, in_flight, disturbed>>

\* Mutants: an error is caught and the script goes on; and waiting has no end
ThrowCaught ==
  /\ status \in {"waiting", "landed"}
  /\ status' = "ready"
  /\ position' = position + 1
  /\ disturbed' = TRUE
  /\ UNCHANGED <<vars, seq_map, in_flight>>
WaitOn == status = "waiting" /\ UNCHANGED seedVars

\* The connection breaks or the wait ends, whatever has become of the transaction.
\* getOrCreateAssociatedTokenAccount swallows the error and reads the account: if it is
\* there the script goes on, which is Confirm, and if it is not this throws.
Throw ==
  /\ status \in {"waiting", "landed"}
  /\ status' = "failed"
  /\ disturbed' = TRUE
  /\ UNCHANGED <<vars, position, seq_map, in_flight>>

Finish ==
  /\ status = "ready"
  /\ position = Len(Transactions) + 1
  /\ status' = "done"
  /\ UNCHANGED <<vars, position, seq_map, in_flight, disturbed>>

Script == SkipInit \/ Send \/ Confirm \/ Throw \/ Finish

-----------------------------------------------------------------------------
(* The network and the others on it *)

\* A transaction may land after the script has given up on it.
Land(tx) ==
  /\ Executes(tx)
  /\ in_flight' = in_flight \ {tx}
  /\ status' = IF status = "waiting" THEN "landed" ELSE status
  /\ UNCHANGED <<position, seq_map, disturbed>>

\* The cluster's answer is an error, which the script throws.
Reject(tx) ==
  /\ in_flight' = in_flight \ {tx}
  /\ status' = IF status = "waiting" THEN "failed" ELSE status
  /\ UNCHANGED <<vars, position, seq_map, disturbed>>

\* Lost, or its blockhash is too old
Expire(tx) ==
  /\ in_flight' = in_flight \ {tx}
  /\ disturbed' = TRUE
  /\ UNCHANGED <<vars, position, status, seq_map>>

Network == \E tx \in in_flight : Land(tx) \/ Reject(tx) \/ Expire(tx)

Stranger ==
  /\ \E k \in Keys \ {Deployer} :
       \/ InitProtocol(k)
       \/ \E cap \in Caps : UpdateProtocolConfig(k, cap)
       \/ \E a \in AgentIds : FreezeAgent(k, a)
  /\ disturbed' = TRUE
  /\ UNCHANGED <<position, status, seq_map, in_flight>>

SeedInit ==
  /\ Init
  /\ position = 1
  /\ status = "ready"
  /\ seq_map = [a \in {Agent1, Agent2} |-> 0]
  /\ in_flight = {}
  /\ disturbed = FALSE

SeedNext == Script \/ Network \/ Stranger

\* The script runs on, and its library gives up waiting at some time.
SeedSpec == SeedInit /\ [][SeedNext]_seedVars /\ WF_seedVars(Script)

-----------------------------------------------------------------------------
(* The wire *)

(***************************************************************************)
(* Borsh carries no field names: what one side writes the other must read  *)
(* in the same order, to the last byte, and an instruction needs all its   *)
(* accounts.  Fields and accounts the two sides agree on are left out.     *)
(***************************************************************************)
ProgramExpects(ix) ==
  CASE ix = "set_spend_policy" -> <<"high_value_threshold", "monthly_budget", "domain_hashes">>
    [] ix = "settle_payment"   -> <<"parent_payment", "memo", "protocol_config">>
    [] ix = "record_policy_violation" -> <<"parent_payment", "memo", "violation_reason">>
    [] OTHER -> <<>>

ScriptSends(ix) ==
  CASE ix = "set_spend_policy" -> <<"high_value_threshold", "domain_hashes">>
    [] ix = "settle_payment"   -> <<"parent_payment">>
    [] ix = "record_policy_violation" -> <<"parent_payment", "violation_reason">>
    [] OTHER -> <<>>

Understood(tx) == ScriptSends(tx.ix) = ProgramExpects(tx.ix)

\* The program executes what it can read and its accounts admit, and refuses the rest.
Wire ==
  \E tx \in in_flight :
    \/ Understood(tx) /\ Land(tx)
    \/ (~Understood(tx) \/ ~ENABLED Executes(tx)) /\ Reject(tx)
    \/ Expire(tx)

WireNext == Script \/ Wire \/ Stranger

WireSpec == SeedInit /\ [][WireNext]_seedVars /\ WF_seedVars(Script)

-----------------------------------------------------------------------------
EntryOf(r) ==
  [ix |-> IF payment_record[r].policy_passed THEN "settle_payment" ELSE "record_policy_violation",
   a |-> r[1], amount_usdc |-> payment_record[r].amount_usdc,
   protocol |-> IF payment_record[r].protocol = "X402" THEN 0 ELSE 1]

\* The number of the script's entry i among the entries of its agent, counted from 0
PlaceOf(i) == Cardinality({j \in 1..(i - 1) : Entries[j].a = Entries[i].a})

AddressOf(i) == <<Entries[i].a, PlaceOf(i)>>

(***************************************************************************)
(* What is on the ledger is the first so many entries of the script's      *)
(* list, each once, under the number of its place among the agent's        *)
(* entries: also when transactions are lost, land late, or the admin       *)
(* intervenes.                                                             *)
(***************************************************************************)
LedgerFollowsScript ==
  \E n \in 0..Len(Entries) :
    /\ RecordsOf(Agent1) \cup RecordsOf(Agent2) = {AddressOf(i) : i \in 1..n}
    /\ \A i \in 1..n : EntryOf(AddressOf(i)) = Entries[i]

(***************************************************************************)
(* The script's count of an agent's sequence is the program's when it      *)
(* sends, and at most one behind it at any time, when a transaction has    *)
(* landed that the script has not seen confirmed, or never will.           *)
(***************************************************************************)
CounterInStep ==
  \A a \in {Agent1, Agent2} \cap DOMAIN agent_wallet :
    LET ahead == agent_wallet[a].payment_sequence - seq_map[a] IN
    /\ ahead \in {0, 1}
    /\ status = "ready" => ahead = 0

(***************************************************************************)
(* main ends, with "Done!" or with an error, whatever the network does.    *)
(***************************************************************************)
ScriptEnds == <>(status \in {"done", "failed"})

(***************************************************************************)
(* Each agent is set up in three transactions: wallet, policy, tokens.  As *)
(* the program cannot read the second, every run stops between them, and   *)
(* never reaches "Done!".  What it leaves is at most one wallet, without a *)
(* policy or tokens and with nothing on the ledger.                        *)
(***************************************************************************)
StopsAtFirstPolicy ==
  /\ status # "done" /\ position <= 4
  /\ DOMAIN agent_wallet = {} \/ (position \in {3, 4} /\ DOMAIN agent_wallet = {Agent1})
  /\ position = 4 => Agent1 \in DOMAIN agent_wallet
  /\ DOMAIN spend_policy = {} /\ DOMAIN payment_record = {}
  /\ \A holder \in Holders : Balance(holder, UsdcMint) = 0

(***************************************************************************)
(* seed.ts, "What it does": unless the network fails it or somebody        *)
(* interferes, the script registers, sets policies, settles and records.   *)
(***************************************************************************)
SeedsUndisturbed == status = "failed" => disturbed
=============================================================================
