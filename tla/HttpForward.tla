---------------------------- MODULE HttpForward ----------------------------
(***************************************************************************)
(* One plain HTTP request through HttpProxy (pkg/http_proxy): discovery,   *)
(* the request that CreateUpstreamRequest makes of it, and the response    *)
(* that is copied back (nio2/http_proxy.go), with net/http's rules for how *)
(* a response that was cut short ends.                                     *)
(*                                                                         *)
(* A header is a function from names to "absent", "empty" (there, with an  *)
(* empty value) or "set".                                                  *)
(***************************************************************************)
EXTENDS Integers, Sequences, Functions

CONSTANTS
  Hop,        \* hopHeaders, in order; "Connection" is one of them
  EndToEnd,   \* the names of other headers
  MaxListed,  \* bound on the names that a Connection header lists
  MaxBody     \* bound on the length of a response

ASSUME HttpForwardAssumption ==
  /\ MaxListed \in Nat /\ MaxBody \in Nat
  /\ Hop \in Seq(STRING) /\ "Connection" \in Range(Hop)
  /\ EndToEnd \cap Range(Hop) = {}

Names == Range(Hop) \cup EndToEnd

VARIABLES
  reqHdr,   \* r.Header; fixed
  listed,   \* the names in the value of its Connection header, in order; fixed
  known,    \* the upstream response has a Content-Length; fixed
  fpc,      \* where the request is
  upHdr,    \* the header of the request sent upstream, once there is one
  body,     \* the response: [len, read]
  client    \* what the client has: [status, length (a Content-Length came), got, end]

fwdVars == <<fpc, upHdr, body, client>>
fwdAll  == <<reqHdr, listed, known, fwdVars>>

Vals == {"absent", "empty", "set"}
Empty(status, end) == [status |-> status, length |-> FALSE, got |-> 0, end |-> end]
NoHdr == [n \in Names |-> "absent"]

InitForward ==
  /\ reqHdr \in [Names -> Vals]
  /\ listed \in UNION {[1..k -> Names] : k \in 0..MaxListed}
  /\ reqHdr["Connection"] # "set" => listed = <<>>
  /\ known \in BOOLEAN
  /\ fpc = "discover"
  /\ upHdr = NoHdr
  /\ body = [len |-> 0, read |-> 0]
  /\ client = Empty("none", "none")

-----------------------------------------------------------------------------
(***************************************************************************)
(* CreateUpstreamRequest.  The header is copied once, before the first     *)
(* name is deleted from it.                                                *)
(***************************************************************************)

\* Mutant: copiedHeaders is not set, so every deletion starts from r.Header.
DelRecopies(acc, n) == [hdr |-> [reqHdr EXCEPT ![n] = "absent"], copied |-> FALSE]

\* Del on the copy, made now if it was not made before.
Del(acc, n) ==
  [hdr |-> [(IF acc.copied THEN acc.hdr ELSE reqHdr) EXCEPT ![n] = "absent"], copied |-> TRUE]

DelIfSet(acc, n) == IF acc.hdr[n] = "set" THEN Del(acc, n) ELSE acc

\* The names that the Connection header lists, up to the k-th, then those of hopHeaders.
Unlisted[k \in 0..Len(listed)] ==
  IF k = 0 THEN [hdr |-> reqHdr, copied |-> FALSE] ELSE Del(Unlisted[k - 1], listed[k])

Stripped[k \in 0..Len(Hop)] ==
  IF k = 0 THEN Unlisted[Len(listed)] ELSE DelIfSet(Stripped[k - 1], Hop[k])

CreateUpstreamRequest == Stripped[Len(Hop)].hdr

-----------------------------------------------------------------------------
(***************************************************************************)
(* The handler.                                                            *)
(***************************************************************************)

\* The implicit answer of a handler that returns without writing: 200, no body.
Nothing == Empty("200", "clean")

\* proxy: a host without an address is taken as handled; one that cannot be
\* found goes out as it came.
Discover ==
  /\ fpc = "discover"
  /\ \/ fpc' = "forward" /\ upHdr' = CreateUpstreamRequest /\ UNCHANGED client
     \/ fpc' = "direct" /\ upHdr' = reqHdr /\ UNCHANGED client
     \/ fpc' = "done" /\ client' = Nothing /\ UNCHANGED upHdr
  /\ UNCHANGED body

\* RoundTrip fails: ForwardHTTP returns the error, which its caller drops.
RoundTripFails ==
  /\ fpc \in {"forward", "direct"}
  /\ client' = IF fpc = "forward" THEN Nothing
               ELSE Empty("500", "clean")
  /\ fpc' = "done"
  /\ UNCHANGED <<upHdr, body>>

\* Mutant: the headers are copied after WriteHeader, too late to be sent.
SendBackResponseLate ==
  /\ fpc \in {"forward", "direct"}
  /\ \E n \in 0..MaxBody : body' = [body EXCEPT !.len = n]
  /\ client' = [client EXCEPT !.status = "upstream"]
  /\ fpc' = "body"
  /\ UNCHANGED upHdr

\* The headers of the response, its length among them if it has one, and the status.
SendBackResponse ==
  /\ fpc \in {"forward", "direct"}
  /\ \E n \in 0..MaxBody : body' = [body EXCEPT !.len = n]
  /\ client' = [client EXCEPT !.status = "upstream", !.length = known]
  /\ fpc' = "body"
  /\ UNCHANGED upHdr

CopyBody ==
  /\ fpc = "body" /\ body.read < body.len
  /\ body' = [body EXCEPT !.read = @ + 1]
  /\ client' = [client EXCEPT !.got = @ + 1]
  /\ UNCHANGED <<fpc, upHdr>>

\* The read of the upstream body, or the write to the client, fails: the copy ends.
CopyFails ==
  /\ fpc = "body"
  /\ fpc' = "return"
  /\ UNCHANGED <<upHdr, body, client>>

CopyEnds ==
  /\ fpc = "body" /\ body.read = body.len
  /\ fpc' = "return"
  /\ UNCHANGED <<upHdr, body, client>>

\* The handler returns.  A response that is shorter than its Content-Length is
\* ended by closing the connection; one without is ended by its last chunk.
HandlerReturns ==
  /\ fpc = "return" /\ fpc' = "done"
  /\ client' = [client EXCEPT !.end = IF client.length /\ client.got < body.len THEN "cut" ELSE "clean"]
  /\ UNCHANGED <<upHdr, body>>

NextForward ==
  /\ \/ Discover \/ RoundTripFails \/ SendBackResponse
     \/ CopyBody \/ CopyFails \/ CopyEnds \/ HandlerReturns
  /\ UNCHANGED <<reqHdr, listed, known>>

SpecForward == InitForward /\ [][NextForward]_fwdAll

-----------------------------------------------------------------------------
ForwardTypeOK ==
  /\ fpc \in {"discover", "forward", "direct", "body", "return", "done"}
  /\ upHdr \in [Names -> Vals]
  /\ client.end \in {"none", "clean", "cut"}

\* CreateUpstreamRequest: the request that goes upstream has lost the hop-by-hop
\* headers that carry a value and the ones the client's Connection header lists,
\* in whatever order they were deleted, and nothing else.
UpstreamHeaders ==
  fpc = "forward" =>
    \A n \in Names :
      upHdr[n] = IF n \in Range(listed) \/ (n \in Range(Hop) /\ reqHdr[n] = "set")
                 THEN "absent" ELSE reqHdr[n]

\* A client that sees a response with a Content-Length end cleanly has all of it,
\* though the error of the copy is only logged (nio2/http_proxy.go:187).
CleanMeansComplete ==
  client.end = "clean" /\ client.status = "upstream" /\ known => client.got = body.len
=============================================================================
