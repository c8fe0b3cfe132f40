---------------------------- MODULE PaymentLedger ----------------------------
(***************************************************************************)
(* What maxim_protocol promises to somebody who looks at wallets from      *)
(* outside: each wallet holds funds, keeps a numbered ledger to which      *)
(* entries are only appended, pays only while it is open, can always be    *)
(* drained by its owner, and once retired stays retired.                   *)
(*                                                                         *)
(* There are no account addresses, sequences, counters, keys, policies,    *)
(* caps or clocks here: those are how the program keeps the promise.       *)
(***************************************************************************)
EXTENDS Integers, Sequences

CONSTANTS
  Wallets,    \* wallets that may be opened
  Payees,     \* who may be paid; Wallets among them
  NoPayee,    \* the payee of an entry that paid nobody
  Amounts     \* sizes of payments and of attempts

VARIABLES
  status,     \* "vacant", "open", "suspended" or "gone", for each wallet
  ledger,     \* the entries of each wallet, oldest first
  funds       \* the tokens each wallet holds

ledgerVars == <<status, ledger, funds>>

Entry == [payee: Payees \cup {NoPayee}, amount: Amounts, passed: BOOLEAN]

LedgerTypeOK ==
  /\ status \in [Wallets -> {"vacant", "open", "suspended", "gone"}]
  /\ ledger \in [Wallets -> Seq(Entry)]
  /\ funds \in [Wallets -> Nat]

LedgerInit ==
  /\ status = [a \in Wallets |-> "vacant"]
  /\ ledger = [a \in Wallets |-> <<>>]
  /\ funds  = [a \in Wallets |-> 0]

Held(a) == status[a] \in {"open", "suspended"}

Becomes(a, from, to) ==
  /\ status[a] = from
  /\ status' = [status EXCEPT ![a] = to]
  /\ UNCHANGED <<ledger, funds>>

Open(a)    == Becomes(a, "vacant", "open")
Suspend(a) == Becomes(a, "open", "suspended")
Resume(a)  == Becomes(a, "suspended", "open")

\* A wallet that somebody made unusable before it was ever opened
Block(a)   == Becomes(a, "vacant", "gone")

\* Nothing is left behind in a wallet that is given up.
Retire(a)  == funds[a] = 0 /\ Becomes(a, "suspended", "gone")

Append1(a, entry) == ledger' = [ledger EXCEPT ![a] = Append(@, entry)]

\* An open wallet pays what it has, and the entry says whom and how much.
Pay(a, payee, amount) ==
  /\ status[a] = "open"
  /\ amount \in 1..funds[a]
  /\ payee \in Wallets => status[payee] # "vacant"
  /\ Append1(a, [payee |-> payee, amount |-> amount, passed |-> TRUE])
  /\ funds' = [w \in Wallets |-> funds[w] + (IF w = payee THEN amount ELSE 0)
                                          - (IF w = a THEN amount ELSE 0)]
  /\ UNCHANGED status

\* A refused payment is noted, open or suspended, and moves nothing.
Note(a, amount) ==
  /\ Held(a)
  /\ Append1(a, [payee |-> NoPayee, amount |-> amount, passed |-> FALSE])
  /\ UNCHANGED <<status, funds>>

Withdraw(a) ==
  /\ Held(a)
  /\ funds'[a] \in 0..(funds[a] - 1)
  /\ funds' = [funds EXCEPT ![a] = funds'[a]]
  /\ UNCHANGED <<status, ledger>>

Credit(a) ==
  /\ status[a] # "vacant"
  /\ funds'[a] > funds[a]
  /\ funds' = [funds EXCEPT ![a] = funds'[a]]
  /\ UNCHANGED <<status, ledger>>

LedgerNext ==
  \E a \in Wallets :
    \/ Open(a) \/ Suspend(a) \/ Resume(a) \/ Block(a) \/ Retire(a)
    \/ \E amount \in Amounts : Note(a, amount) \/ \E payee \in Payees : Pay(a, payee, amount)
    \/ Withdraw(a) \/ Credit(a)

LedgerSpec == LedgerInit /\ [][LedgerNext]_ledgerVars
=============================================================================
