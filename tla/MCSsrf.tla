------------------------------- MODULE MCSsrf -------------------------------
(***************************************************************************)
(* Four hosts: an ordinary one, one the operator trusts to be internal,    *)
(* one that may not be submitted, and an IP literal.  The addresses are    *)
(* one of each kind the checks tell apart, the shared address space        *)
(* (neither private nor global) included; an answer may mix a public       *)
(* address with an internal one.                                           *)
(***************************************************************************)
EXTENDS Ssrf

MCHosts == {"shop", "trusted", "other", "literal"}
MCAddresses == {"public", "private", "shared", "metadata"}
MCTraits ==
    [ip \in MCAddresses |->
        CASE ip = "public" -> {"global"}
          [] ip = "private" -> {"private"}
          [] ip = "shared" -> {}
          [] ip = "metadata" -> {"metadata", "link_local", "private"}]

MCAnswers == {<< >>, <<"public">>, <<"private">>, <<"shared">>, <<"metadata">>,
              <<"public", "private">>}

U(s, h) == [scheme |-> s, host |-> h]

MCSubmitted ==
    {[url |-> U("https", "shop"), webhook |-> U("http", "shop")],
     [url |-> U("http", "shop"), webhook |-> NoUrl],
     [url |-> U("https", "trusted"), webhook |-> U("https", "trusted")],
     [url |-> U("http", "literal"), webhook |-> U("file", "shop")],
     [url |-> U("http", "other"), webhook |-> NoUrl],
     [url |-> U("http", NoHost), webhook |-> NoUrl],
     [url |-> U("http", "shop"), webhook |-> U("https", NoHost)]}

\* Absolute, scheme-relative and relative locations, and a scheme to refuse.
MCLocations ==
    {U("http", "shop"), U("https", "other"), U("http", "literal"), U("file", "shop"),
     U("none", "trusted"), NoUrl}
=============================================================================
