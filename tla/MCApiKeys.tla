----------------------------- MODULE MCApiKeys -----------------------------
(* The TLC instance of ApiKeys: identities, addresses, rows, logins and      *)
(* requests are interchangeable.                                             *)
EXTENDS ApiKeys, TLC

MCSymmetry ==
  Permutations(Identities) \cup Permutations(Emails) \cup Permutations(Users)
    \cup Permutations(Logins) \cup Permutations(Requests)
=============================================================================
