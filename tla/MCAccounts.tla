----------------------------- MODULE MCAccounts -----------------------------
EXTENDS Accounts, TLC

Symmetry == Permutations(Requests) \cup Permutations(Emails)

\* Registration and verification; change of the address and erasure; accounts
\* with Google.
MCScenes == {
  [kinds |-> {"register", "resend", "verifyEmail", "google"}, requests |-> 5],
  [kinds |-> {"register", "requestChange", "confirmChange", "erase"}, requests |-> 5],
  [kinds |-> {"google", "setPassword", "unlink", "erase"}, requests |-> 5]}
=============================================================================
