------------------------------ MODULE MCRedirect ------------------------------
(***************************************************************************)
(* Redirect on a small instance: every host, path and header that takes a  *)
(* branch of the router or of the address reading, once.                   *)
(***************************************************************************)
EXTENDS Redirect

MCDomain == <<"posta", "link">>
MCEncoded == [t \in {"%61", "%2f"} |-> IF t = "%61" THEN "a" ELSE "/"]

Hosts == { <<"alice">> \o MCDomain, <<"alice">> \o MCDomain \o <<"">>,
           <<"alice">> \o MCDomain \o <<"", "">>, <<"www">> \o MCDomain,
           <<"app">> \o MCDomain, <<"no_label">> \o MCDomain,
           <<"alice", "alice">> \o MCDomain, MCDomain, <<"alice", "evil", "example">>, <<>> }

Paths == { <<>>, <<"/">>, <<"/", "/">>, <<"/", "a">>, <<"/", "a", "a">>, <<"/", "a", "/">>,
           <<"/", "a", "/", "a">>, <<"/", "-">>, <<"/", "a", "-">>, <<"/", "a", "-", "a">>,
           <<"/", "a", "a", "a">>, <<"/", "%61", "%61">>, <<"/", "%61", "%61", "%61">>,
           <<"/", "a", "%2f", "a">>, <<"/", "%2f">>, <<"/", "a", "%">>, <<"a">>, <<"/", "A">>,
           <<"/", "favicon.ico">>, <<"/", "favicon.ico", "/">>, <<"/", ".well-known">>,
           <<"/", ".well-known", "/", "a">>, <<"/", ".well-known", "a">> }

Headers == { [cf |-> "ip1", xff |-> <<"ip2">>], [cf |-> "", xff |-> <<"ip1", "ip2">>],
             [cf |-> "no-address", xff |-> <<"", "ip1">>],
             [cf |-> "no-address", xff |-> <<"ip1">>] }

Visit(labels, path, headers) ==
    [host |-> [labels |-> labels, port |-> ""], path |-> path, headers |-> headers]

MCVisits ==
    {Visit(h, p, [cf |-> "ip1", xff |-> <<>>]) : h \in Hosts, p \in {<<"/", "a">>, <<"/">>}}
    \cup {Visit(<<"alice">> \o MCDomain, p, [cf |-> "ip1", xff |-> <<>>]) : p \in Paths}
    \cup {Visit(<<"alice">> \o MCDomain, <<"/", "a">>, x) : x \in Headers}
=============================================================================
