---------------------------- MODULE MCExchanges -----------------------------
(***************************************************************************)
(* Instances of Exchanges for TLC.                                         *)
(***************************************************************************)
EXTENDS Exchanges

idToken  == <<"i", "T">>
id_token == <<"i", "_", "t">>

\* The default, camel case, snake case, and an initial upper case.
SomeProperties == {<<>>, idToken, id_token, <<"T">>}

\* A reply with both tokens in snake_case, one that also has the camel-case
\* spelling, and one without the ID token.
SomeTokenNames == {{access_token, id_token}, {access_token, id_token, idToken}, {access_token}}

Standard  == [Object EXCEPT !.code = "CODE", !.message = "message"]
Framework == [Object EXCEPT !.error = "error", !.message = "message"]
OAuth     == [Object EXCEPT !.error = "error"]
Mistyped  == [Standard EXCEPT !.form = "mistyped"]
Contradicting(status) == [OAuth EXCEPT !.status_code = status]

SomeAPIErrors   == {Standard, Framework, Mistyped, Text}
SomeTokenErrors == {OAuth, Contradicting(500)}
Overriding      == {OAuth, Contradicting(400)}

\* One method of each kind that do() and newRequest tell apart.
SomeMethods == {GetKey, ImportKey, SetKeyState, CryptoOther}
OnlyDelete  == {DeleteKey}

WithId        == {"mine"}
ErrorStatuses == {400, 500}
EveryStatus   == {260, 302, 400, 401, 500}
JustAccess    == {{access_token}}
OnlyKeycloak  == {Keycloak}
OnlyDefault   == {<<>>}
OnlyStandard  == {Standard}
=============================================================================
