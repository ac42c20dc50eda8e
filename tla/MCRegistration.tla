---------------------------- MODULE MCRegistration ----------------------------
(***************************************************************************)
(* Small instances of Registration: a rolling update, in which a release   *)
(* that guards with one role meets one that guards with two, and single    *)
(* replicas whose applications declare resources in all the ways there are.*)
(***************************************************************************)
EXTENDS Registration

CONSTANTS admin, user, cats, dogs, read, write

On(authorized, permitted) == [authorized |-> authorized, scopes |-> permitted]
Bare == On({}, {})

Controller(x, class, methods) ==
    [found |-> TRUE, resource |-> x, class |-> class, methods |-> methods]

App(classes) == [classes |-> classes, roles |-> {}, resources |-> {}]

Everywhere(app) == [r \in Replicas |-> app]

\* A controller of cats whose methods need the roles
CatsWith(rs) == App({Controller({cats}, Bare, {On({rs}, {read})})})

\* One release at all replicas, or a new one at some and the old at the others
RollingUpdate ==
    {[r \in Replicas |-> CatsWith(IF r \in new THEN {admin, user} ELSE {admin})] :
        new \in SUBSET Replicas}

\* Two resources that share two scopes
Shared == App({Controller({x}, Bare, {On({{admin}, {user}}, {read, write})}) : x \in Resources})

\* Decorators of the class, and of a handler that adds to them
OnTheClass ==
    App({Controller({cats}, On({{admin, user}}, {write}), {Bare, On({{user}}, {read})})})

\* Two controllers of one resource, and one of none
Divided ==
    App({Controller({cats}, Bare, {On({}, {read})}), Controller({cats}, On({}, {write}), {Bare}),
         Controller({}, On({{admin}}, {write}), {On({{user}}, {})})})

\* The options declare dogs; the guards of a provider that is not found do not count.
InOptions ==
    [classes |-> {[Controller({cats}, Bare, {On({{user}}, {read})}) EXCEPT !.found = FALSE],
                  Controller({dogs}, Bare, {On({}, {write})})},
     roles |-> {admin}, resources |-> {[name |-> dogs, scopes |-> {read}]}]

Solo == {Everywhere(app) : app \in {Shared, OnTheClass, Divided, InOptions}}

JustCats == {Everywhere(CatsWith({admin}))}

=============================================================================
