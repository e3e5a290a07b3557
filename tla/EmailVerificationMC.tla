------------------------ MODULE EmailVerificationMC ------------------------
EXTENDS EmailVerification, TLC

(* New users, addresses and secrets are interchangeable. *)
Symmetry == Permutations(Users \ Legacy) \cup Permutations(Emails) \cup Permutations(Secrets)

===========================================================================
