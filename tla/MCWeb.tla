------------------------------- MODULE MCWeb --------------------------------
(***************************************************************************)
(* HttpClient, ReverseProxy and HttpParser, and what serves connections,   *)
(* Listener, Prefork and Discovery, on small instances: each behaviour is  *)
(* one of one of them, the others stay as they begin.                      *)
(***************************************************************************)
EXTENDS HttpClient, ReverseProxy, HttpParser, Listener, Prefork, Discovery

\* requests and responses of every framing
Plain(line) == [line |-> line, length |-> -1, chunks |-> <<>>, size |-> 0]
MCRequests ==
    {Plain("get"), [Plain("put") EXCEPT !.length = 2],
     [Plain("post") EXCEPT !.chunks = <<2, 1, 0>>],
     [Plain("bad") EXCEPT !.chunks = <<1, 0>>, !.length = 1]}
MCResponses ==
    {Plain("204"), [Plain("200") EXCEPT !.length = 2],
     [Plain("206") EXCEPT !.chunks = <<1, 0>>],
     [Plain("404") EXCEPT !.size = 2]}

\* services of which aliases move, the instances change, or the port is that
\* of the tag; of two suffixes, and a host with two values
Service(service, instances) ==
    [service |-> service, name |-> <<>>, domain |-> <<>>, enabled |-> TRUE,
     address |-> "", protocol |-> "http", ports |-> <<>>, alias |-> {},
     redirect |-> <<>>, password |-> "", errorUrl |-> "", regex |-> <<>>,
     instances |-> instances]
Instance(address, port) == [address |-> address, node |-> "node", port |-> port]
AppServices ==
    <<[Service("app", <<Instance("i", 1), Instance("j", 1)>>) EXCEPT
          !.redirect = <<<<"app">>, "https">>, !.alias = {<<"www">>, <<"api">>},
          !.password = "p", !.regex = <<"r">>],
      [Service("app", <<Instance("j", 1)>>) EXCEPT !.errorUrl = "e"],
      [Service("app", <<>>) EXCEPT !.ports = <<1>>]>>
BlogService ==
    [Service("b", <<Instance("", 0), Instance("k", 0)>>) EXCEPT
        !.name = <<"blog">>, !.ports = <<2, 3>>, !.alias = {<<"www">>},
        !.redirect = <<<<"other">>>>, !.protocol = "https", !.regex = <<"q">>]
MCCatalogues ==
    {<<AppServices[1]>>, <<AppServices[2], BlogService>>,
     <<[BlogService EXCEPT !.alias = {}, !.regex = <<>>], AppServices[1]>>,
     <<[BlogService EXCEPT !.enabled = FALSE], AppServices[3]>>}
MCHostsSet == <<"h">> :> <<<<"http", "x", 80>>, <<"http", "y", 80>>>>
MCHostSuffixes == <<"net", "org">>
MCAnswers == {<<"1", "2">>}

VARIABLE part
webVars == <<part, clientVars, proxyVars, parserVars, listenerVars, preforkVars,
             discoveryVars>>

Init ==
    /\ part \in {"client", "proxy", "parser", "listener", "prefork", "discovery"}
    /\ ClientInit /\ ProxyInit /\ ParserInit /\ ListenerInit /\ PreforkInit
    /\ DiscoveryInit /\ catalogue = <<AppServices[1]>>
    /\ part # "parser" => ~Response /\ ~Store
    /\ part # "listener" => ~edges /\ fate = [q \in Peers |-> "good"]
    /\ part # "prefork" => ~races

Next ==
    /\ UNCHANGED part
    /\ \/ /\ part = "client" /\ ClientNext
          /\ UNCHANGED <<proxyVars, parserVars, listenerVars, preforkVars, discoveryVars>>
       \/ /\ part = "proxy" /\ ProxyNext
          /\ UNCHANGED <<clientVars, parserVars, listenerVars, preforkVars, discoveryVars>>
       \/ /\ part = "parser" /\ ParserNext
          /\ UNCHANGED <<clientVars, proxyVars, listenerVars, preforkVars, discoveryVars>>
       \/ /\ part = "listener" /\ ListenerNext
          /\ UNCHANGED <<clientVars, proxyVars, parserVars, preforkVars, discoveryVars>>
       \/ /\ part = "prefork" /\ PreforkNext
          /\ UNCHANGED <<clientVars, proxyVars, parserVars, listenerVars, discoveryVars>>
       \/ /\ part = "discovery" /\ DiscoveryNext
          /\ UNCHANGED <<clientVars, proxyVars, parserVars, listenerVars, preforkVars>>

\* the loop goes on, and so do those it waits for, each in its own component
ClientFair ==
    /\ WF_clientVars(part = "client" /\ Return)
    /\ \A c \in Protocols : WF_clientVars(part = "client" /\ LoopStep(c))
ProxyFair == \A u \in Upstreams : WF_proxyVars(part = "proxy" /\ ProxyGoes(u))
ServersFair ==
    /\ \A s \in Servers : WF_listenerVars(part = "listener" /\ ServerStep(s))
    /\ WF_preforkVars(part = "prefork" /\ ParentGoes)
    /\ WF_discoveryVars(part = "discovery" /\ DiscoveryGoes)

Spec == Init /\ [][Next]_webVars /\ ClientFair /\ ProxyFair /\ ServersFair

\* method() of the client returns, whatever the servers do, no request to the
\* proxy waits for ever, those who connect to any process are accepted, a
\* server of several processes that is told to stop ends with all of them, and
\* the proxy catches up with Consul
Owed ==
    \/ Running \/ Relays
    \/ part = "listener" /\ Waits
    \/ part = "discovery" /\ Stale
EventuallyAnswered ==
    Owed \/ (part = "prefork" /\ Stops) ~> ~Owed /\ (part = "prefork" => AllJoined)
=============================================================================
