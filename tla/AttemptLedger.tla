--------------------------- MODULE AttemptLedger ---------------------------
(***************************************************************************)
(* What the queue promises about executions, with no cycle, row status or  *)
(* request left: every item is entitled to a fixed number of attempts, and *)
(* may be granted more, which users ask for by a retry, and cycles take    *)
(* when they fetch an item that another has; an execution needs an attempt *)
(* of its own that was recorded before it.                                 *)
(***************************************************************************)
EXTENDS Naturals

CONSTANTS Item, Entitlement

VARIABLES spent, granted, executed

ledgerVars == <<spent, granted, executed>>

LedgerInit == /\ spent = [i \in Item |-> 0]
              /\ granted = [i \in Item |-> 0]
              /\ executed = [i \in Item |-> 0]

(* An attempt begins; it must be within the entitlement. *)
Spend(i) == /\ spent[i] < Entitlement + granted[i]
            /\ spent' = [spent EXCEPT ![i] = @ + 1]
            /\ UNCHANGED <<granted, executed>>

(* The attempt's actions run, at most once. *)
Run(i) == /\ executed[i] < spent[i]
          /\ executed' = [executed EXCEPT ![i] = @ + 1]
          /\ UNCHANGED <<spent, granted>>

(* One more attempt for an item, or for each of those fetched at once. *)
Grant(S) == /\ granted' = [i \in Item |-> granted[i] + IF i \in S THEN 1 ELSE 0]
            /\ UNCHANGED <<spent, executed>>

LedgerNext == (\E i \in Item : Spend(i) \/ Run(i)) \/ \E S \in SUBSET Item : Grant(S)

LedgerSpec == LedgerInit /\ [][LedgerNext]_ledgerVars
=============================================================================
