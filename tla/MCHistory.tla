------------------------------ MODULE MCHistory ------------------------------
EXTENDS ReadAPI
TwoOwners(i) == IF i % 2 = 1 THEN "odd" ELSE "even"
OneOwner(i) == "one"
\* the first batch makes the accounts that the other two use
Few(n) ==
  CASE n = 1 -> {[l1 |-> FALSE, coord |-> 2, exits |-> <<1>>], [l1 |-> TRUE, coord |-> 1, exits |-> <<>>]}
    [] n = 2 -> {[l1 |-> TRUE, coord |-> 0, exits |-> <<>>], [l1 |-> TRUE, coord |-> 1, exits |-> <<1>>],
                 [l1 |-> FALSE, coord |-> 1, exits |-> <<2>>]}
    [] OTHER -> {[l1 |-> TRUE, coord |-> 0, exits |-> <<>>]}
=============================================================================
