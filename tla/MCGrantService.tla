---------------------------- MODULE MCGrantService ----------------------------
(***************************************************************************)
(* Small instances of GrantService: the session is ann's, the bearer       *)
(* header bob's.                                                           *)
(***************************************************************************)
EXTENDS GrantService, TLC

CONSTANTS ann, bob

Symmetry == Permutations(Services) \cup Permutations(Calls)

AllOps == {"getGrant", "forceGrant", "getUserInfo", "forceUserInfo",
           "login", "loginUnsaved", "clientCredentials", "refreshTokenGrant", "logout"}
GrantOps == {"getGrant", "forceGrant"}
ParallelOps == {"getGrant", "forceGrant", "refreshTokenGrant", "logout"}

\* rotation, faults, and whether express-session is installed
Rough == {<<TRUE, TRUE, TRUE>>, <<TRUE, TRUE, FALSE>>}
Ideal == {<<FALSE, FALSE, TRUE>>}
RoughOrIdeal == Rough \cup Ideal

=============================================================================
