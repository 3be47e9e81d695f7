----------------------------- MODULE MCHashChain ------------------------------
(***************************************************************************)
(* Instances of HashChain, with the verification of its tables, for TLC.   *)
(***************************************************************************)
EXTENDS ChainVerification, TLC

CONSTANTS w1, w2, w3, t1, t2, t3

\* Everything validates except the sale of t2.
AllButOne == (Kinds \X Txns) \ {<<"vente", t2>>}

\* Every control validates, and one sale.
OneSale == {<<"controle", t>> : t \in Txns} \cup {<<"vente", t1>>}

\* Threads are interchangeable; transactions are not (Valid tells t2 apart).
ThreadSymmetry == Permutations(Workers)
===============================================================================
