------------------------------ MODULE MCReactor ------------------------------
(* Instances of Reactor for TLC. *)
EXTENDS Reactor, TLC

CONSTANTS c1, c2

Get == [what |-> "get", lengths |-> <<>>, body |-> <<>>]
\* Its body would begin a request by itself.
Post == [what |-> "post", lengths |-> <<1>>, body |-> <<Line("body")>>]

\* c1 may send a request and another behind it, c2 one request.
TwoGets == (c1 :> <<Get, Get>>) @@ (c2 :> <<Get>>)
TwoAndOne == (c1 :> <<Get, Post>>) @@ (c2 :> <<Get>>)
=============================================================================
