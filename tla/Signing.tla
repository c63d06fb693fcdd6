-------------------------------- MODULE Signing --------------------------------
(***************************************************************************)
(* How an event's payload and signature travel: EventService.Create signs  *)
(* the bytes of the request (internal/service/event.go), INSERT puts them  *)
(* into a JSONB column (migrations/003), and every attempt POSTs what a    *)
(* SELECT makes of that column with the signature of the row               *)
(* (internal/service/dispatcher.go).  The receiver parses the header and   *)
(* verifies the body it got, as internal/delivery/signer.go does it.       *)
(*                                                                         *)
(* The text of a payload is the JSON value it denotes and how it is        *)
(* spelled.  A JSONB column keeps the value only, and PostgreSQL prints it *)
(* in a spelling of its own: {"a":1} comes back as {"a": 1}.               *)
(***************************************************************************)
EXTENDS Naturals, Sequences

CONSTANTS
    Events,     \* the ids of the events
    Contents,   \* JSON values
    Secret,     \* the secret of the events' endpoint
    MaxTime     \* bound: timestamps are 1..MaxTime

VARIABLES
    row,        \* the payload and signature columns of the events
    posts       \* what the endpoint was sent, as <<body, header>>

vars == <<row, posts>>

Spellings == {"compact", "jsonb"}
Texts     == [content : Contents, spelling : Spellings]

\* The text a SELECT gives for a text that was INSERTed into a JSONB column.
Jsonb(text) == [text EXCEPT !.spelling = "jsonb"]

\* Sign: an HMAC is taken to tell any two inputs apart.
Hmac(timestamp, text) == [mac |-> <<timestamp, text, Secret>>]
Sign(text, timestamp) == [timestamp |-> timestamp, v1 |-> Hmac(timestamp, text)]

\* Signature.String: the parts of "t=...,v1=...".
Header(sig) == << <<"t", sig.timestamp>>, <<"v1", sig.v1>> >>

\* ParseSignature: the last part of each key counts, others are skipped, and both must
\* be there.
Parts(header, key)  == {i \in 1..Len(header) : header[i][1] = key}
LastOf(header, key) == LET i == CHOOSE j \in Parts(header, key) :
                                   \A k \in Parts(header, key) : k <= j
                       IN header[i][2]
Parses(header)         == Parts(header, "t") # {} /\ Parts(header, "v1") # {}
ParseSignature(header) == [timestamp |-> LastOf(header, "t"), v1 |-> LastOf(header, "v1")]

\* Verify.
Verify(text, sig) == Sign(text, sig.timestamp).v1 = sig.v1

Accepted == DOMAIN row

Init ==
    /\ row = [e \in {} |-> e]
    /\ posts = {}

\* EventService.Create: sign the request's bytes and insert the event.
Create(e) ==
    /\ e \notin Accepted
    /\ \E text \in Texts : \E timestamp \in 1..MaxTime :
          row' = [f \in Accepted \cup {e} |->
                    IF f = e THEN [payload |-> Jsonb(text),
                                   signature |-> Header(Sign(text, timestamp))]
                             ELSE row[f]]
    /\ UNCHANGED posts

\* processMessage: the event is read and POSTed, as often as it takes.
Deliver(e) ==
    /\ e \in Accepted
    /\ posts' = posts \cup {<<row[e].payload, row[e].signature>>}
    /\ UNCHANGED row

Next == \E e \in Events : Create(e) \/ Deliver(e)

Spec == Init /\ [][Next]_vars

\* Whatever is POSTed verifies under the signature that comes with it and the secret the
\* tenant was given, as TestSignAndVerify_RoundTrip and TestVerify_Valid
\* (internal/delivery/signer_test.go) have it of the two halves.
ReceiversCanVerify ==
    \A post \in posts : Parses(post[2]) /\ Verify(post[1], ParseSignature(post[2]))
==============================================================================
