----------------------------- MODULE MCAccounts -----------------------------
EXTENDS Accounts, TLC

CONSTANTS c1, c2, e1

\* Both calls register the same e-mail.
MCEmail == c1 :> e1 @@ c2 :> e1

=============================================================================
