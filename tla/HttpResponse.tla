---------------------------- MODULE HttpResponse ----------------------------
(***************************************************************************)
(* Responses, core/src/http/response.rs.  The header fields are a function  *)
(* on the names present; the first of two fields of one name is the one a   *)
(* lookup finds, and Joined keeps it.  No field of this program holds a CR, *)
(* an LF or a NUL, so the filter for them has nothing to drop.              *)
(***************************************************************************)
EXTENDS Integers, Sequences, TLC

\* One field, and the fields f followed by the fields g.
Field(name, value) == [n \in {name} |-> value]
Joined(f, g) == [n \in DOMAIN f \cup DOMAIN g |-> IF n \in DOMAIN f THEN f[n] ELSE g[n]]

Response(status) == [status |-> status, headers |-> <<>>, body |-> <<>>]

WithHeader(response, name, value) ==
    [response EXCEPT !.headers = Joined(@, Field(name, value))]

Has(message, name) == name \in DOMAIN message.headers

\* The fields of the given names, those of them that are present.
Only(headers, names) == [n \in names \cap DOMAIN headers |-> headers[n]]

\* The body of a text or JSON response is one symbol.
Typed(status, type) ==
    [status |-> status, headers |-> Field("Content-Type", type), body |-> <<[text |-> status]>>]
Text(status) == Typed(status, "text/plain")
Json(status) == Typed(status, "application/json")

IsEmptyBody(status) == status \in 100..199 \cup {204, 304}

Serialize(response, headOnly) ==
    [status |-> response.status,
     headers |-> IF IsEmptyBody(response.status) THEN response.headers
                 ELSE Joined(Field("Content-Length", Len(response.body)), response.headers),
     body |-> IF headOnly \/ IsEmptyBody(response.status) THEN <<>> ELSE response.body]
=============================================================================
