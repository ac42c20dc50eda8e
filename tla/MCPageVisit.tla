------------------------------ MODULE MCPageVisit ------------------------------
(***************************************************************************)
(* Small instances of PageVisit.  One tab: all role metadata over two      *)
(* roles, all combinations of the other decorators over one, owner checks, *)
(* and pages with several kinds of symbols in their urls.  Two tabs: a     *)
(* page that offers a login beside itself and others.                      *)
(***************************************************************************)
EXTENDS PageVisit, TLC

CONSTANTS t1, t2, admin, user, read, write

Url(symbols) == <<Literal("slash"), Literal("letter")>> \o symbols

Plain == [public |-> FALSE, class |-> {}, handler |-> {}, resource |-> FALSE,
          classScopes |-> {}, handlerScopes |-> {}, owner |-> {}, render |-> FALSE,
          redirect |-> "none", originalUrl |-> Url(<<Literal("delimiter")>>)]

ForAdmin == [Plain EXCEPT !.handler = {{{admin}}}]
Rendered == [ForAdmin EXCEPT !.render = TRUE]

\* Every pair of @Authorized decorators
RoleRoutes ==
    {[Plain EXCEPT !.class = c, !.handler = h] : c \in Metadata, h \in Metadata}

\* Combinations of the others with one simple @Authorized on the handler
Scoped ==
    {Plain} \cup {[Plain EXCEPT !.resource = TRUE, !.classScopes = c, !.handlerScopes = h] :
                    c \in {{}, {read}}, h \in {{}, {write}, {read, write}}}

PageRoutes ==
    {[s EXCEPT !.handler = {{{admin}}}, !.render = r, !.redirect = u] :
        s \in Scoped, r \in BOOLEAN, u \in {"url", "off", "none"}}
    \cup {[s EXCEPT !.handler = h, !.public = p, !.render = TRUE] :
            s \in Scoped, h \in {{}, {{{admin}}}}, p \in BOOLEAN}

OwnerRoutes ==
    {[r EXCEPT !.owner = {x}] : r \in {Plain, [Rendered EXCEPT !.handler = {{{user}}}]},
        x \in [skip: {{}, {{}}, {{admin}}, {{admin, user}}}, path: BOOLEAN]}

\* Marks, and encoded spaces, slashes and delimiters
UrlRoutes ==
    {[Rendered EXCEPT !.originalUrl = Url(<<s>>)] :
        s \in {Literal("letter"), Literal("mark"), Encoded("space"), Encoded("slash"),
               Encoded("delimiter")}}

Callback == [default |-> FALSE, manual |-> FALSE, persistSession |-> TRUE,
             destinationUriFromQuery |-> TRUE, destinationUri |-> FALSE]

\* None, a plain one, and one behind others that logins must not come back to
Callbacks ==
    {<<>>, <<Callback>>,
     <<[Callback EXCEPT !.manual = TRUE],
       [Callback EXCEPT !.default = TRUE, !.destinationUriFromQuery = FALSE, !.destinationUri = TRUE],
       [Callback EXCEPT !.destinationUri = TRUE]>>}

Visiting(routes, declared) ==
    {[routes |-> (t1 :> r), callbacks |-> d] : r \in routes, d \in declared}

Pairs ==
    {(t1 :> Rendered @@ t2 :> r) :
        r \in {Rendered, [Rendered EXCEPT !.redirect = "url"], [Plain EXCEPT !.render = TRUE]}}

AllVisits ==
    Visiting(RoleRoutes \cup PageRoutes \cup OwnerRoutes, {<<Callback>>})
    \cup Visiting(UrlRoutes, Callbacks)
    \cup {[routes |-> pair, callbacks |-> <<Callback>>] : pair \in Pairs}

UrlVisits == Visiting(UrlRoutes, {<<Callback>>})

=============================================================================
