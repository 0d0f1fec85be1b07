------------------------------- MODULE MCProxy -------------------------------
(* Small instances of Proxy for TLC.                                        *)
EXTENDS Proxy

World(cln, org, fails) == [cln |-> cln, org |-> org, bp_fails |-> fails]

\* Two requests at once, with and without something that isn't HTTP after them; a
\* request in two parts and something that isn't HTTP.
TwoRequests == <<"req", "req">>
TwoAndBad   == <<"req", "req", "bad">>
BadRequest  == <<"part", "req", "bad">>

\* A body in several reads with bytes nobody asked for after it; responses that
\* are not cached: too small, without a length, with headers so long that there
\* is no body to compare.
TooLong     == <<"get2", "body", "body", "body">>
NotCached   == <<"small", "body", "body", "no_len">>
LongHeaders == <<"part", "part", "get2", "body">>

McWorlds == { World(TwoAndBad, TooLong, {}), World(BadRequest, TooLong, {}),
              World(TwoRequests, NotCached, {}), World(BadRequest, LongHeaders, {"len"}) }

\* The entry for the connection can't be added before it is connected.
McNoEntry == { World(TwoRequests, TooLong, {"add"}) }
=============================================================================
