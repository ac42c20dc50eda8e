------------------------------- MODULE ReturnUrl -------------------------------
(***************************************************************************)
(* The urls of a login.  The filter puts the address of the page into the  *)
(* redirect_uri it sends the browser to Keycloak with; the callback builds *)
(* the redirect_uri again from its own query, to redeem the code, and      *)
(* takes from it where to send the browser.                                *)
(*                                                                         *)
(* A url is a sequence of symbols, each percent-encoded some times.  The   *)
(* redirect_uri is its destination_uri: the callback endpoint before it,   *)
(* and the encoding it travels in, come and go unchanged.                  *)
(***************************************************************************)
EXTENDS Naturals, Sequences, SequencesExt

\* own, allowed, other: origins; mark: one of ! ~ ' ( ); delimiter: one of ? & = +
Char == {"own", "allowed", "other", "letter", "slash", "delimiter", "mark", "space", "backslash"}

Literal(char) == [char |-> char, encoded |-> 0]
Encoded(char) == [char |-> char, encoded |-> 1]

AuthorizationCallback ==
    [default: BOOLEAN, manual: BOOLEAN, persistSession: BOOLEAN,
     destinationUriFromQuery: BOOLEAN, destinationUri: BOOLEAN]

\* Encoding leaves some literal symbols alone; a percent sign is always encoded.
Encode(url, spared) ==
    [i \in DOMAIN url |-> IF url[i].encoded = 0 /\ url[i].char \in spared THEN url[i]
                          ELSE [url[i] EXCEPT !.encoded = @ + 1]]

EncodeURIComponent(url) == Encode(url, {"letter", "mark"})

\* URLSearchParams writes a query as a form.
FormEncode(url) == Encode(url, {"letter"})

Decode(url) ==
    [i \in DOMAIN url |-> [url[i] EXCEPT !.encoded = IF @ > 0 THEN @ - 1 ELSE 0]]

-----------------------------------------------------------------------------

\* isSafeRedirect
IsSafeRedirect(url) ==
    /\ url # <<>>
    /\ \A i \in DOMAIN url : url[i] \notin {Literal("space"), Literal("backslash")}
    /\ IF url[1] = Literal("slash") THEN ~IsPrefix(<<Literal("slash"), Literal("slash")>>, url)
       ELSE url[1] \in {Literal("own"), Literal("allowed")}

\* UnauthorizedFilter: the page of this original url, and the login from it
PageUri(originalUrl) == <<Literal("own")>> \o originalUrl
RedirectUri(originalUrl) == EncodeURIComponent(PageUri(originalUrl))

\* handleAuthorizationCallback: the redirect_uri it redeems the code with
RebuiltRedirectUri(redirectUri) == FormEncode(Decode(redirectUri))

\* resolveDestinationUri, but for the fallback: reading the query decodes once,
\* and what was read is decoded again.
DestinationFromQuery(redirectUri) == Decode(Decode(redirectUri))

-----------------------------------------------------------------------------

Eligible(callback) ==
    ~callback.manual /\ callback.persistSession /\ callback.destinationUriFromQuery

\* The positions of those a login may come back to, and of those marked as default
Usable(callbacks) == {i \in DOMAIN callbacks : Eligible(callbacks[i])}
Marked(callbacks) == {i \in DOMAIN callbacks : callbacks[i].default}

\* {}, or the callback at the first of these positions
First(callbacks, found) == {callbacks[i] : i \in {i \in found : \A j \in found : i <= j}}

\* mutant: the one marked as default is taken as it is
DefaultAsMarked(callbacks) ==
    First(callbacks, IF Marked(callbacks) # {} THEN Marked(callbacks) ELSE Usable(callbacks))

\* defaultAuthorizationCallback: {}, or the one logins come back to
DefaultAuthorizationCallback(callbacks) ==
    LET marked == Usable(callbacks) \cap Marked(callbacks)
    IN  First(callbacks, IF marked # {} THEN marked ELSE Usable(callbacks))

=============================================================================
