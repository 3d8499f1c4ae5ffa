------------------------------ MODULE Decoding ------------------------------
(***************************************************************************)
(* What the SDK reads out of a response: an APIError (errors.go), the      *)
(* result of an operation (client.go), or a token (selfmanaged.go,         *)
(* oauth2.go, oidc.go).                                                    *)
(*                                                                         *)
(* A body is a record of the fields the decoders look at.  Texts are       *)
(* reduced to whether they are empty and where they come from, and the     *)
(* JSON around them to its form:                                           *)
(*   "json"      an object whose fields have the expected types            *)
(*   "mistyped"  an object with a field of another type: Unmarshal fills   *)
(*               in the other fields and returns an error                  *)
(*   "text"      anything else, an empty body included                     *)
(* The name of a token property is a sequence of runes.                    *)
(***************************************************************************)
EXTENDS Naturals, Sequences

LOCAL INSTANCE SequencesExt

Text == [form |-> "text", code |-> "", message |-> "", error |-> "", status_code |-> 0,
         result |-> FALSE, tokens |-> {}, refresh |-> FALSE]

Object == [Text EXCEPT !.form = "json"]

\* A response has status 0 when the exchange ended in an error instead.
NoResponse == [status |-> 0, correlation |-> "", body |-> Text]

-----------------------------------------------------------------------------
(* APIError, and the other ways in which a call returns.                   *)

statusKeyAttributesDifferent == 260

ErrCodeInternalKeyAttributesDiffer == "INTERNAL_KEY_ATTRIBUTES_DIFFERENT"

\* The statuses from 200 on that http.StatusText knows; 260 is not one.
NamedStatuses ==
  (200 .. 208) \cup {226} \cup ((300 .. 308) \ {306}) \cup (400 .. 418) \cup (421 .. 426)
    \cup {428, 429, 431, 451} \cup (500 .. 508) \cup {510, 511}

StatusText(status) == IF status \in NamedStatuses THEN "statusText" ELSE ""

\* An outcome that is not an APIError: "ok", or the kind of error.
Plain(kind) == [kind |-> kind, StatusCode |-> 0, Code |-> "", Message |-> "", CorrelationID |-> ""]

\* Unmarshal into the APIError itself: status_code replaces the HTTP status.
DecodedStatus(resp) ==
  IF resp.body.status_code = 0 THEN resp.status ELSE resp.body.status_code

DecodedMessage(body) ==
  IF body.message # "" THEN body.message
  ELSE IF body.error # "" THEN "errorAndDescription" ELSE ""

APIErrorOf(resp, code, message) ==
  [kind |-> "api", StatusCode |-> DecodedStatus(resp), Code |-> code,
   Message |-> message, CorrelationID |-> resp.correlation]

\* The code sent, else the text of the status.
CodeOf(resp) ==
  IF resp.body.form = "json" /\ resp.body.code # ""
    THEN resp.body.code ELSE StatusText(resp.status)

Or(text, fallback) == IF text = "" THEN fallback ELSE text

newAPIErrorWithCode(resp, fallback, code) ==
  APIErrorOf(resp, code,
             IF resp.body.form = "json"
               THEN Or(DecodedMessage(resp.body), fallback) ELSE "statusLine")

\* (wrong variant) A 260 without a code in its body has none.
newAPIErrorNoDefault(resp, fallback) == newAPIErrorWithCode(resp, fallback, CodeOf(resp))

newAPIError(resp, fallback) ==
  newAPIErrorWithCode(resp, fallback,
    IF resp.status = statusKeyAttributesDifferent
      THEN Or(CodeOf(resp), ErrCodeInternalKeyAttributesDiffer) ELSE CodeOf(resp))

-----------------------------------------------------------------------------
(* The token property of a generic OIDC provider.                          *)

LowerOf == [A |-> "a", I |-> "i", T |-> "t"]
IsUpper(rune) == rune \in DOMAIN LowerOf

accessToken  == <<"a", "T">>
access_token == <<"a", "_", "t">>

\* Each upper-case rune becomes its lower case, after a "_" unless it is the
\* first rune.
camelToSnake(s) ==
  FlattenSeq([i \in DOMAIN s |->
    IF IsUpper(s[i])
      THEN (IF i > 1 THEN <<"_">> ELSE <<>>) \o <<LowerOf[s[i]]>>
      ELSE <<s[i]>>])

Named(property) == IF property = <<>> THEN accessToken ELSE property

\* (wrong variant) The snake_case form first.
SnakeCaseFirst(property) ==
  LET name == Named(property) IN <<camelToSnake(name), name>>

\* The literal spelling first, then the snake_case form, when it differs.
tokenPropertyCandidates(property) ==
  LET name == Named(property)
  IN  IF camelToSnake(name) = name THEN <<name>> ELSE <<name, camelToSnake(name)>>

\* The first candidate that is a non-empty string of the reply, <<>> if none.
PropertyPicked(property, body) ==
  LET names == tokenPropertyCandidates(property)
      found == {i \in DOMAIN names : names[i] \in body.tokens}
  IN  IF found = {} THEN <<>> ELSE names[CHOOSE i \in found : \A j \in found : i <= j]
=============================================================================
