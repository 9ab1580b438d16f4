----------------------------- MODULE MCSessions -----------------------------
(***************************************************************************)
(* Torrent, the two sides of Mail and Wsgi on small instances: each        *)
(* behaviour is one of one of them, the others stay as they begin.         *)
(***************************************************************************)
EXTENDS Torrent, Mail, Wsgi

CONSTANTS p1, p2, d1, d2

MCHolds == [p \in Peers |-> IF p = p1 THEN {0, 1} ELSE {1}]
MCTos == [d \in Domains |-> IF d = d1 THEN {1, 2} ELSE {3}]

\* each way of a session with each way to order the sessions
Job(mode, dedup, sequential, stls, method) ==
    [mode |-> mode, dedup |-> dedup, sequential |-> sequential,
     stls |-> stls, method |-> method]
MCJobs ==
    {Job("direct", FALSE, FALSE, stls, method) :
        stls \in BOOLEAN, method \in {"none", "plain", "login"}} \cup
    {Job("mx", TRUE, TRUE, TRUE, "login"), Job("mx", TRUE, FALSE, FALSE, "plain"),
     Job("mx", FALSE, TRUE, FALSE, "none"), Job("mx", FALSE, FALSE, TRUE, "plain"),
     Job("mx", FALSE, FALSE, FALSE, "login")}
MCRaceJobs == {Job("direct", FALSE, TRUE, FALSE, "none"),
               Job("mx", FALSE, TRUE, FALSE, "none")}

\* a request is alone, or keeps its connection; an application answers at
\* once, in parts, in parts that come later, and fails
MCHttpRequests ==
    {[keep |-> TRUE, v11 |-> TRUE, gzip |-> TRUE],
     [keep |-> TRUE, v11 |-> TRUE, gzip |-> FALSE],
     [keep |-> TRUE, v11 |-> FALSE, gzip |-> FALSE],
     [keep |-> FALSE, v11 |-> TRUE, gzip |-> TRUE]}

Part(what) == [kind |-> what]
Later(values) == [kind |-> "future", values |-> values]
Answer(length, whole, parts) ==
    [length |-> length, whole |-> whole, parts |-> parts]
MCHttpResponses ==
    {Answer(0, FALSE, <<>>),
     Answer(2, FALSE, <<Part("data"), Part("data")>>),
     Answer(2, TRUE, <<Later(<<"wait">>), Later(<<"value", "value">>)>>),
     Answer(-1, FALSE, <<Part("data"), Part("raise")>>),
     Answer(-1, FALSE, <<Later(<<"value", "raise">>)>>),
     Answer(-1, FALSE, <<Later(<<"value", "wait", "value", "value">>),
                         Part("return")>>)}

VARIABLE part
sessionVars == <<part, torrentVars, smtpVars, serverVars, wsgiVars>>

Init ==
    /\ part \in {"torrent", "client", "server", "wsgi"}
    /\ TorrentInit /\ SmtpInit /\ ServerInit /\ WsgiInit
    /\ part # "wsgi" => serverEncoding = "plain"

Next ==
    /\ UNCHANGED part
    /\ \/ /\ part = "torrent" /\ TorrentNext
          /\ UNCHANGED <<smtpVars, serverVars, wsgiVars>>
       \/ /\ part = "client" /\ SmtpNext
          /\ UNCHANGED <<torrentVars, serverVars, wsgiVars>>
       \/ /\ part = "server" /\ ServerNext
          /\ UNCHANGED <<torrentVars, smtpVars, wsgiVars>>
       \/ /\ part = "wsgi" /\ WsgiNext
          /\ UNCHANGED <<torrentVars, smtpVars, serverVars>>

\* the loop goes on, and polls between two times it serves; the client reads
\* what it is sent, and what coroutines wait for ends
WsgiFair ==
    /\ WF_wsgiVars(/\ part = "wsgi"
                   /\ ServeCalls \/ (\E k \in 0 .. 3 : CallNext(k)))
    /\ SF_wsgiVars(part = "wsgi" /\ \E k \in 1 .. 3 : OnWrite(k))
    /\ SF_wsgiVars(/\ part = "wsgi"
                   /\ \E n \in DOMAIN asked : ChildEnds(n, "done"))

\* nothing fair is enabled in the components that stay
Spec ==
    Init /\ [][Next]_sessionVars /\ TorrentFairness /\ SmtpFairness /\ WsgiFair
=============================================================================
