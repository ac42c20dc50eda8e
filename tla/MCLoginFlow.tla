------------------------------ MODULE MCLoginFlow ------------------------------
(***************************************************************************)
(* Small instances of LoginFlow.  Browsers, tabs and codes are             *)
(* interchangeable; the symmetry is left out of the liveness runs.         *)
(***************************************************************************)
EXTENDS LoginFlow, TLC

Symmetry == Permutations(Browsers) \cup Permutations(Tabs) \cup Permutations(Codes)

AllKinds == {"login", "callback", "logout", "clear"}
LoginKinds == {"login", "callback"}
LogoutKinds == {"login", "callback", "logout"}

=============================================================================
