----------------------------- MODULE Discovery -----------------------------
(***************************************************************************)
(* The hosts of the reverse proxy: those Consul announces                  *)
(* (extra/proxy_c.py), fetched by threads and applied by the loop, those   *)
(* of the configuration, which DNS resolves (dns_start() of                *)
(* extra/proxy_r.py), and the rules that take a request to one of them.    *)
(*                                                                         *)
(* A name is the sequence of its labels, a url its protocol, address and   *)
(* port, a redirect the host and, where it is set, the protocol.           *)
(***************************************************************************)
EXTENDS Integers, FiniteSets, Sequences, TLC
LOCAL INSTANCE SequencesExt

CONSTANTS Catalogues,  \* what Consul may hold: services, in its order
          HostsSet,    \* the hosts of the configuration, each with its urls
          HostSuffixes,  \* host_suffixes
          Answers,     \* the addresses a DNS response may have
          MaxEvents    \* bound: what comes from outside, all in all

VARIABLES
    catalogue,  \* what Consul holds
    table,      \* hosts, alias, redirect, auth and error_urls; of Consul: which
    applied,    \* the entries of the last rebuild
    jobs,       \* the fetch that repeats and the one a signal asked for
    delayed,    \* the jobs whose _apply() waits for the loop
    resolved,   \* of each host, the urls found for each of its values
    queries,    \* the DNS queries under way
    robin,      \* the position each tuple of urls is at
    used,       \* how many more requests each url of a tuple was given than
                \* the one that was given fewest
    spent       \* counts, for the bound, what came from outside

discoveryVars == <<catalogue, table, applied, jobs, delayed, resolved, queries,
                   robin, used, spent>>

Jobs == {"periodic", "config"}

-----------------------------------------------------------------------------
(* What a service asks for. *)

\* _resolve_domain(): proxy.name before proxy.domain before the service
Domain(s) == IF s.name # <<>> THEN s.name
             ELSE IF s.domain # <<>> THEN s.domain ELSE <<s.service>>

\* _build_urls(), the ports of the tag in order: on the node's own network
\* the port of Consul is not used
UrlsOf(s, i) ==
    LET address == IF s.address # "" THEN s.address
                   ELSE IF i.address # "" THEN i.address ELSE i.node
        port == IF address = i.node /\ s.ports # <<>> THEN 0 ELSE i.port
        Url(p) == <<s.protocol, address, p>>
    IN  IF address = "" THEN <<>>
        ELSE CASE Len(s.ports) > 1 -> [k \in DOMAIN s.ports |-> Url(s.ports[k])]
               [] Len(s.ports) = 1 -> IF port = s.ports[1] THEN <<Url(port)>> ELSE <<>>
               [] Len(s.ports) = 0 -> IF port # 0 THEN <<Url(port)>> ELSE <<>>

BuildUrls(s, instances) == FlattenSeq([k \in DOMAIN instances |->
                                       UrlsOf(s, instances[k])])

\* the health endpoint: nothing of a service that is gone
Health(service, services) ==
    LET here == SelectSeq(services, LAMBDA s : s.service = service)
    IN  IF here = <<>> THEN <<>> ELSE here[1].instances

\* _consul_fetch(), whose requests are made one after the other: services
\* seen before, the instances of now, and those whose request failed
Entries(seen, services, failed) ==
    LET Entry(s) == [domain |-> Domain(s), tags |-> s,
                     urls |-> BuildUrls(s, Health(s.service, services))]
    IN  SelectSeq([k \in DOMAIN seen |-> Entry(seen[k])],
                  LAMBDA e : e.tags.enabled /\ e.tags.service \notin failed
                             /\ e.urls # <<>>)

-----------------------------------------------------------------------------
(* The rebuild. *)

Drop(f, names) == [n \in DOMAIN f \ names |-> f[n]]

\* mutant of Cleaned: the redirects stay
CleanedHosts(t) ==
    [t EXCEPT !.hosts = Drop(@, t.consulHosts), !.auth = Drop(@, t.consulHosts),
              !.errorUrls = Drop(@, t.consulHosts),
              !.regex = SelectSeq(@, LAMBDA r : r \notin t.consulRegex),
              !.consulHosts = {}, !.tagAliases = {}, !.consulRegex = {}]

\* what the last rebuild registered goes, its aliases until the suffixes
Cleaned(t) ==
    [t EXCEPT !.hosts = Drop(@, t.consulHosts), !.auth = Drop(@, t.consulHosts),
              !.redirect = Drop(@, t.consulHosts \cup t.consulAliases),
              !.errorUrls = Drop(@, t.consulHosts),
              !.regex = SelectSeq(@, LAMBDA r : r \notin t.consulRegex),
              !.consulHosts = {}, !.tagAliases = {}, !.consulRegex = {}]

\* _apply_tags(): a redirect of the domain is that of its aliases
ApplyTags(t, d, s) ==
    LET alias == [a \in s.alias |-> d] @@ t.alias
        tags == t.tagAliases \cup s.alias
        here == IF s.redirect = <<>> THEN t.redirect ELSE (d :> s.redirect) @@ t.redirect
        ssl == d \in DOMAIN here /\ here[d] = <<d, "https">>
    IN  [t EXCEPT
            !.alias = alias, !.tagAliases = tags, !.consulAliases = @ \cup s.alias,
            !.auth = IF s.password = "" THEN @ ELSE (d :> s.password) @@ @,
            !.errorUrls = IF s.errorUrl = "" THEN @ ELSE (d :> s.errorUrl) @@ @,
            !.redirect =
                IF d \notin DOMAIN here THEN @
                ELSE [a \in {b \in tags : alias[b] = d} |->
                         IF ssl THEN <<a, "https">> ELSE here[d]] @@ here,
            !.regex = @ \o s.regex, !.consulRegex = @ \cup {s.regex[k] : k \in DOMAIN s.regex}]

\* one round of _build_hosts()
WithEntry(t, e) ==
    LET done == ApplyTags([t EXCEPT !.hosts = (e.domain :> e.urls) @@ @], e.domain, e.tags)
    IN  [done EXCEPT !.consulHosts = @ \cup {e.domain}]

BuildHosts(t, entries) ==
    LET Upto[k \in 0 .. Len(entries)] ==
            IF k = 0 THEN {Cleaned(t)} ELSE {WithEntry(u, entries[k]) : u \in Upto[k - 1]}
    IN  Upto[Len(entries)]

\* one round of _build_suffixes(): every alias and host under the suffix too,
\* and a redirect to a host and protocol becomes one to the new name
WithSuffix(t, suffix) ==
    LET Fqn(n) == Append(n, suffix)
        Short(n) == SubSeq(n, 1, Len(n) - 1)
        known == DOMAIN t.alias \cup DOMAIN t.hosts
        moved == {Fqn(n) : n \in known \cap DOMAIN t.redirect}
        Moved(n) == LET r == t.redirect[Short(n)]
                    IN  IF Len(r) = 2 THEN <<n, r[2]>> ELSE r
    IN  [t EXCEPT
            !.alias = [n \in {Fqn(m) : m \in DOMAIN t.hosts} |-> Short(n)]
                      @@ [n \in {Fqn(m) : m \in DOMAIN t.alias} |-> t.alias[Short(n)]]
                      @@ @,
            !.redirect = [n \in moved |-> Moved(n)] @@ @,
            !.consulAliases = @ \cup {Fqn(n) : n \in known}]

BuildSuffixes(t) ==
    LET old == t.consulAliases \ t.tagAliases
        Upto[k \in 0 .. Len(HostSuffixes)] ==
            IF k = 0 THEN {[t EXCEPT !.alias = Drop(@, old), !.hosts = Drop(@, old),
                                     !.consulAliases = t.tagAliases]}
            ELSE {WithSuffix(u, HostSuffixes[k]) : u \in Upto[k - 1]}
    IN  Upto[Len(HostSuffixes)]

\* the one table it leads to, as a set
BuildConsul(t, entries) == UNION {BuildSuffixes(u) : u \in BuildHosts(t, entries)}

-----------------------------------------------------------------------------
(* The rules of a request for a name, its port left out. *)

At(f, n, default) == IF n \in DOMAIN f THEN f[n] ELSE default

\* alias, and what that is an alias of
Aliased(n) == LET once == At(table.alias, n, n) IN At(table.alias, once, once)

\* what is set for the name itself comes before what is set for its alias
Rule(f, n, default) == At(f, n, At(f, Aliased(n), default))

RulesHost(n) == Rule(table.hosts, n, <<>>)

\* where on_headers() sends the client instead, <<>> for nowhere: a request
\* that is already there is not sent again
RedirectOf(n, protocol) ==
    LET r == Rule(table.redirect, n, <<>>)
        to == IF Len(r) = 1 THEN Append(r, protocol) ELSE r
    IN  IF r = <<>> \/ (to[1] \in {n, Aliased(n)} /\ to[2] = protocol) THEN <<>> ELSE to

-----------------------------------------------------------------------------
Idle == [stage |-> "none", seen |-> <<>>, entries |-> <<>>]

DiscoveryInit ==
    /\ catalogue \in Catalogues
    /\ table = [hosts |-> HostsSet, alias |-> <<>>, redirect |-> <<>>, auth |-> <<>>,
                errorUrls |-> <<>>, regex |-> <<>>, consulHosts |-> {},
                consulAliases |-> {}, tagAliases |-> {}, consulRegex |-> {}]
    /\ applied = <<>>
    \* on_serve() starts the fetches, on_start() the DNS queries
    /\ jobs = [j \in Jobs |-> IF j = "periodic" THEN [Idle EXCEPT !.stage = "fetch"] ELSE Idle]
    /\ delayed = <<>>
    /\ resolved = [h \in DOMAIN HostsSet |-> [k \in DOMAIN HostsSet[h] |-> <<HostsSet[h][k]>>]]
    /\ queries = {}
    /\ robin = <<>> /\ used = <<>>
    /\ spent = 0

\* services come, go and change in Consul
CatalogueChanges ==
    /\ spent < MaxEvents /\ spent' = spent + 1
    /\ catalogue' \in Catalogues \ {catalogue}
    /\ UNCHANGED <<table, applied, jobs, delayed, resolved, queries, robin, used>>

\* on_config(), of a signal: a fetch that is not repeated
OnConfig ==
    /\ spent < MaxEvents /\ spent' = spent + 1
    /\ jobs["config"] = Idle
    /\ jobs' = [jobs EXCEPT !["config"].stage = "fetch"]
    /\ UNCHANGED <<catalogue, table, applied, delayed, resolved, queries, robin, used>>

\* a thread has the services, none of them if the request failed
ConsulServices(j) ==
    /\ jobs[j].stage = "fetch"
    /\ \/ /\ jobs' = [jobs EXCEPT ![j].stage = "health", ![j].seen = catalogue]
          /\ UNCHANGED spent
       \/ /\ spent < MaxEvents /\ spent' = spent + 1
          /\ jobs' = [jobs EXCEPT ![j].stage = "health"]
    /\ UNCHANGED <<catalogue, table, applied, delayed, resolved, queries, robin, used>>

\* it has their instances too, and leaves the rest to the loop
ConsulHealth(j) ==
    /\ jobs[j].stage = "health"
    /\ \E failed \in SUBSET {jobs[j].seen[k].service : k \in DOMAIN jobs[j].seen} :
          /\ spent + Cardinality(failed) <= MaxEvents
          /\ jobs' = [jobs EXCEPT ![j] = [stage |-> "delayed", seen |-> <<>>,
                          entries |-> Entries(@.seen, catalogue, failed)]]
          /\ spent' = spent + Cardinality(failed)
    /\ delayed' = Append(delayed, j)
    /\ UNCHANGED <<catalogue, table, applied, resolved, queries, robin, used>>

\* _apply(): no entries at all keep the table; the periodic one starts again
\* after its interval
Apply ==
    /\ delayed # <<>>
    /\ LET j == Head(delayed)
           entries == jobs[j].entries
       IN  /\ IF entries = <<>> THEN UNCHANGED <<table, applied>>
              ELSE /\ table' \in BuildConsul(table, entries)
                   /\ applied' = entries
           /\ jobs' = [jobs EXCEPT ![j] = IF j = "periodic" THEN [Idle EXCEPT !.stage = "timer"]
                                          ELSE Idle]
    /\ delayed' = Tail(delayed)
    /\ UNCHANGED <<catalogue, resolved, queries, robin, used, spent>>

ConsulTick ==
    /\ jobs["periodic"].stage = "timer"
    /\ jobs' = [jobs EXCEPT !["periodic"].stage = "fetch"]
    /\ UNCHANGED <<catalogue, table, applied, delayed, resolved, queries, robin, used, spent>>

\* dns_tick(): every value of every host there was at the start
DnsTick ==
    /\ spent < MaxEvents /\ spent' = spent + 1
    /\ queries' = UNION {{h} \X DOMAIN HostsSet[h] : h \in DOMAIN HostsSet}
    /\ UNCHANGED <<catalogue, table, applied, jobs, delayed, resolved, robin, used>>

\* dns_callback(): an answer takes the place of the value's last
DnsCallback(h, k) ==
    /\ <<h, k>> \in queries
    /\ queries' = queries \ {<<h, k>>}
    /\ \E answer \in Answers \cup {<<>>} :
          IF answer = <<>> THEN UNCHANGED <<table, resolved>>
          ELSE LET url == HostsSet[h][k]
                   target == [i \in DOMAIN answer |-> <<url[1], answer[i], url[3]>>]
               IN  /\ resolved' = [resolved EXCEPT ![h][k] = target]
                   /\ table' = [table EXCEPT !.hosts = (h :> FlattenSeq(resolved'[h])) @@ @]
    /\ UNCHANGED <<catalogue, applied, jobs, delayed, robin, used, spent>>

\* balancer_robin(): each tuple of urls has a position of its own
BalancerRobin(n) ==
    LET values == RulesHost(n)
        index == At(robin, values, 1)
        now == [At(used, values, [k \in DOMAIN values |-> 0]) EXCEPT ![index] = @ + 1]
    IN  /\ spent < MaxEvents /\ spent' = spent + 1
        /\ Len(values) > 1
        /\ robin' = (values :> IF index = Len(values) THEN 1 ELSE index + 1) @@ robin
        /\ used' = (values :> IF \E k \in DOMAIN now : now[k] = 0 THEN now
                              ELSE [k \in DOMAIN now |-> now[k] - 1]) @@ used
        /\ UNCHANGED <<catalogue, table, applied, jobs, delayed, resolved, queries>>

DiscoveryNext ==
    \/ CatalogueChanges \/ OnConfig \/ Apply \/ ConsulTick \/ DnsTick
    \/ \E j \in Jobs : ConsulServices(j) \/ ConsulHealth(j)
    \/ \E h \in DOMAIN HostsSet : \E k \in DOMAIN HostsSet[h] : DnsCallback(h, k)
    \/ \E n \in DOMAIN table.hosts \cup DOMAIN table.alias : BalancerRobin(n)
\* a fetch ends, what it found is applied, and the timer calls
DiscoveryGoes ==
    Apply \/ ConsulTick \/ \E j \in Jobs : ConsulServices(j) \/ ConsulHealth(j)

-----------------------------------------------------------------------------
\* the names a set of names has with the suffixes
Tails ==
    LET Upto[k \in 0 .. Len(HostSuffixes)] ==
            IF k = 0 THEN {<<>>}
            ELSE Upto[k - 1] \cup {Append(t, HostSuffixes[k]) : t \in Upto[k - 1]}
    IN  Upto[Len(HostSuffixes)]
Under(names) == {n \o t : n \in names, t \in Tails}

Promised(e) == Under({e.domain} \cup e.tags.alias)

\* Whatever came and went in Consul before, the domain of each service of the
\* last rebuild, its aliases and all of them with the suffixes are taken to
\* the instances of that service, protected as it asks; a redirect to TLS is
\* to the name that was asked for, and only once.
AsAnnounced ==
    \A k \in DOMAIN applied : LET e == applied[k] IN \A n \in Promised(e) :
        /\ RulesHost(n) = e.urls
        /\ Rule(table.auth, n, "") = e.tags.password
        /\ Rule(table.errorUrls, n, "") = e.tags.errorUrl
        /\ e.tags.redirect = <<>> => RedirectOf(n, "http") = <<>>
        /\ Len(e.tags.redirect) = 1 =>
              RedirectOf(n, "http") = <<e.tags.redirect[1], "http">>
        /\ e.tags.redirect = <<e.domain, "https">> =>
              RedirectOf(n, "http") = <<n, "https">> /\ RedirectOf(n, "https") = <<>>

\* Nothing is left of services that are gone (_build_hosts, _build_suffixes),
\* and the hosts of the configuration stay, taken to what DNS answered last.
NothingElse ==
    LET own == DOMAIN HostsSet
        known == IF applied = <<>> THEN own ELSE Under(own)
        here == known \cup UNION {Promised(applied[k]) : k \in DOMAIN applied}
        rules == [k \in DOMAIN applied |-> applied[k].tags.regex]
    IN  /\ DOMAIN table.hosts \cup DOMAIN table.alias \cup DOMAIN table.redirect \subseteq here
        /\ DOMAIN table.auth \cup DOMAIN table.errorUrls
              \subseteq {applied[k].domain : k \in DOMAIN applied}
        /\ table.regex = FlattenSeq(rules)
        /\ \A h \in own : \A n \in known \cap Under({h}) :
              RulesHost(n) = FlattenSeq(resolved[h]) /\ RulesHost(n) # <<>>

\* However the tuple of a host changes and comes back, no url of it is given
\* two requests more than another (balancer_robin).
Balanced == \A v \in DOMAIN used : \A k \in DOMAIN v : used[v][k] \in {0, 1}

\* A name is taken to the instances Consul announced for it, and only those, in
\* turn (_build_hosts(), _build_suffixes(), balancer_robin()).
DiscoverySafety == AsAnnounced /\ NothingElse /\ Balanced

\* what Consul holds and what the proxy was given differ
Stale ==
    LET now == Entries(catalogue, catalogue, {}) IN now # <<>> /\ applied # now
=============================================================================
