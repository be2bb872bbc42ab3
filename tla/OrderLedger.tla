---------------------------- MODULE OrderLedger ----------------------------
(***************************************************************************)
(* What the entry pipeline promises to the rest of the system, with none   *)
(* of its locks, checks and retries: every order is preceded by a row of   *)
(* trading_signals that names its trade and its account, and no trade is   *)
(* ordered twice on an account.                                            *)
(***************************************************************************)
CONSTANTS Keys,     \* trade keys
          Accounts, \* broker profiles
          Orders    \* identities the broker may give to an order

VARIABLES recorded, \* the <<key, account>> pairs that have a row
          placed    \* the <<key, account, order>> triples the broker holds

lvars == <<recorded, placed>>

Init == recorded = {} /\ placed = {}

\* A row is written for some trades on some accounts.
Record == /\ \E S \in SUBSET (Keys \X Accounts) : recorded' = recorded \cup S
          /\ UNCHANGED placed

\* The broker takes an order for a recorded trade that it holds no order for.
Place == /\ \E k \in Keys, a \in Accounts, o \in Orders :
               /\ <<k, a>> \in recorded
               /\ \A p \in placed : <<p[1], p[2]>> # <<k, a>>
               /\ placed' = placed \cup {<<k, a, o>>}
         /\ UNCHANGED recorded

Next == Record \/ Place

Spec == Init /\ [][Next]_lvars
=============================================================================
