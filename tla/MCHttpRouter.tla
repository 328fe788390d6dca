---------------------------- MODULE MCHttpRouter ----------------------------
(* Two workers; requests for a file, for a directory and for what is       *)
(* outside of both; bodies shorter and longer than what the file holds.    *)
EXTENDS HttpRouter

Ask(method, url, body) == [method |-> method, url |-> url, body |-> body]

MCRequest == {Ask("GET", "/", <<>>), Ask("HEAD", "/big.txt", <<>>),
              Ask("GET", "/../a", <<>>), Ask("POST", "/", <<"p">>),
              Ask("PUT", "/big.txt", <<"a", "b">>), Ask("PUT", "/big.txt", <<"c">>),
              Ask("PUT", "/", <<"c">>)}

MCPattern == {{"/big.txt", "/"}, {"/"}, {"/../a", "/index.html"}}

MCSymbol == {"a", "b", "c", "f", "g", "p"}

MCInitial == {<<"f", "g">>}
=============================================================================
