----------------------------- MODULE SmtpClient -----------------------------
(***************************************************************************)
(* SMTPClient.message() of netius.clients.smtp: the MX resolution of the   *)
(* domains, the sessions with their hosts, one at a time or together, and  *)
(* the states of SMTPConnection in each.  message() and the answers of the *)
(* DNS run in the thread of the caller, the sessions in that of the        *)
(* client.  The remote servers answer each command in turn, as they like,  *)
(* or end the connection.                                                  *)
(***************************************************************************)
EXTENDS Integers, FiniteSets, Sequences, SequencesExt

CONSTANTS Domains, Hosts,  \* of the recipients, and of the servers
          Tos,         \* the recipients of each domain
          None,
          Jobs,        \* calls of message(): [mode, mx_dedup, sequential, stls,
                       \* best_auth(), "none" without credentials]
          Race         \* the client runs between connect() and bind()

ASSUME SmtpClientAssumption ==
    /\ Domains \cap Hosts = {} /\ None \notin Hosts
    /\ "pending" \notin Hosts \cup {None}
    /\ IsFiniteSet(Domains \cup Hosts)
    /\ IsFiniteSet(UNION {Tos[d] : d \in Domains})
    /\ \A d, e \in Domains : Tos[d] # {} /\ (d # e => Tos[d] \cap Tos[e] = {})
    /\ Jobs \subseteq [mode : {"direct", "mx"}, dedup : BOOLEAN,
                        sequential : BOOLEAN, stls : BOOLEAN,
                        method : {"none", "plain", "login"}]
    /\ Race \in BOOLEAN

Keys == Domains \cup Hosts  \* of tos_map and mx_map

VARIABLES
    job,       \* the arguments of message() and how far it is
    resolved,  \* mx_resolved
    tosMap,    \* the keys of tos_map, or <<>> in direct mode
    connects,  \* the keys the thread of the caller has to connect
    later,     \* those the close of a session connects
    sess,      \* the connection of each key, see NoSession
    heard,     \* what the remote knows of each session, see Deaf
    callbacks, errors, captured  \* calls of callback, of callback_error by
                                 \* key, the keys in `sessions`

smtpVars == <<job, resolved, tosMap, connects, later, sess, heard, callbacks,
              errors, captured>>

\* _sequence of set_message_seq() and of set_message_stls_seq()
Plain == <<"EHLO", "CAPA", "AUTH", "USERNAME", "PASSWORD", "FROM", "TO", "DATA",
           "CONTENTS", "QUIT", "FINAL">>
WithStls == <<"EHLO", "CAPA", "STLS", "UPGRADE">> \o Plain

NoSession == [status |-> "none", bound |-> FALSE, sequence |-> Plain,
              sindex |-> 1, toIndex |-> 0, awaits |-> "none", sent |-> <<>>]
\* starttls: it says so in its answers to EHLO before and after the upgrade
Deaf == [starttls |-> FALSE, still |-> FALSE, tls |-> FALSE, accepted |-> FALSE]

NoJob == [mode |-> "none", dedup |-> FALSE, sequential |-> FALSE,
          stls |-> FALSE, method |-> "none"]

SmtpInit ==
    /\ job = NoJob
    /\ resolved = [d \in Domains |-> "pending"]
    /\ tosMap = {} /\ connects = <<>> /\ later = <<>>
    /\ sess = [k \in Keys |-> NoSession] /\ heard = [k \in Keys |-> Deaf]
    /\ callbacks = 0 /\ errors = {} /\ captured = {}

KeyOf(d) == IF job.dedup THEN resolved[d] ELSE d
Group(k) == {d \in Domains : resolved[d] \notin {"pending", None} /\ KeyOf(d) = k}
Recipients(k) ==
    IF job.mode = "direct" THEN 1
    ELSE Cardinality(UNION {Tos[d] : d \in Group(k)})

Live(k) == sess[k].status \in {"pending", "open"}
-----------------------------------------------------------------------------
(* message(): the thread of the caller.                                    *)

Message(arguments) ==
    /\ job.mode = "none"
    /\ job' = arguments
    /\ IF arguments.mode = "direct"
       THEN \E h \in Hosts : connects' = <<h>>
       ELSE UNCHANGED connects
    /\ UNCHANGED <<resolved, tosMap, later, sess, heard, callbacks, errors,
                   captured>>

\* the sequences of the elements of S, which dict() has in the order of tos
Orders(S) == {q \in [1 .. Cardinality(S) -> S] :
                 \A i, j \in DOMAIN q : i # j => q[i] # q[j]}

\* initiate_mx(), with the keys of mx_map and the domains of mx_failed
InitiateMx(keys, failed) ==
    /\ tosMap' = keys /\ errors' = errors \cup failed
    /\ callbacks' = IF keys = {} THEN callbacks + 1 ELSE callbacks
    /\ \E q \in Orders(keys) :
          IF job.sequential /\ q # <<>>
          THEN connects' = <<Head(q)>> /\ later' = Tail(q)
          ELSE connects' = q /\ UNCHANGED later

\* on_mx_resolved(): the last one begins the sessions
Resolved(d, answer) ==
    /\ job.mode = "mx" /\ resolved[d] = "pending"
    /\ resolved' = [resolved EXCEPT ![d] = answer]
    /\ IF \E e \in Domains \ {d} : resolved[e] = "pending"
       THEN UNCHANGED <<tosMap, connects, later, callbacks, errors>>
       ELSE LET failed == {e \in Domains : resolved'[e] = None}
                keys == {IF job.dedup THEN resolved'[e] ELSE e :
                            e \in Domains \ failed}
            IN  InitiateMx(keys, failed)
    /\ UNCHANGED <<job, sess, heard, captured>>

\* connect(), and the sequence of commands that the session begins with
Connected(k, bound) ==
    [NoSession EXCEPT !.status = "pending", !.bound = bound,
                      !.sequence = IF job.stls THEN WithStls ELSE Plain]

\* connect_mx() of the thread of the caller
ConnectMx ==
    /\ connects # <<>>
    /\ \A k \in Keys : Live(k) => sess[k].bound
    /\ sess' = [sess EXCEPT ![Head(connects)] =
                   Connected(Head(connects), ~Race)]
    /\ connects' = Tail(connects)
    /\ UNCHANGED <<job, resolved, tosMap, later, heard, callbacks, errors,
                   captured>>

\* its bind() of the two handlers
Bind(k) ==
    /\ sess[k].status # "none" /\ ~sess[k].bound
    /\ sess' = [sess EXCEPT ![k].bound = TRUE]
    /\ UNCHANGED <<job, resolved, tosMap, connects, later, heard, callbacks,
                   errors, captured>>
-----------------------------------------------------------------------------
(* The states of the connection.  Each sends its command and goes to the   *)
(* next state; capa_t() and auth_t() go on with it at once.                *)

Next1(c) == [c EXCEPT !.sindex = @ + 1]
State(c) == c.sequence[c.sindex]
To(c, state) ==
    [c EXCEPT !.sindex = CHOOSE i \in DOMAIN c.sequence :
                            c.sequence[i] = state]
Sends(c, command) ==
    [c EXCEPT !.awaits = command, !.sent = Append(@, command)]

\* auth_t(): plain has no other step; without credentials there is none
AuthT(c) ==
    CASE job.method = "none" -> Next1(Sends(To(c, "FROM"), "mail"))
      [] job.method = "plain" -> To(Sends(c, "auth"), "FROM")
      [] OTHER -> Next1(Sends(c, "auth"))

\* capa_t(): a server that has starttls has the sequence with it begin again,
\* unless it is that already; then EHLO is taken as done
CapaT(c, starttls) ==
    LET restart == starttls /\ c.sequence # WithStls
        t == IF restart THEN [c EXCEPT !.sequence = WithStls, !.sindex = 2] ELSE c
        u == Next1(t)
    IN  IF State(u) = "STLS" THEN Next1(Sends(u, "starttls")) ELSE AuthT(u)

\* mutant of RcptT: it goes on with the first of the recipients
RcptTFirst(c, n) == Next1([Sends(c, "rcpt") EXCEPT !.toIndex = @ + 1])

\* rcpt_t()
RcptT(c, n) ==
    LET t == [Sends(c, "rcpt") EXCEPT !.toIndex = @ + 1]
    IN  IF c.toIndex = n - 1 THEN Next1(t) ELSE t

\* call(), for an answer of which `starttls` is told
Call(c, n, starttls) ==
    CASE State(c) = "EHLO" -> Next1(Sends(c, "ehlo"))
      [] State(c) = "CAPA" -> CapaT(c, starttls)
      [] State(c) = "UPGRADE" -> [Next1(c) EXCEPT !.awaits = "upgrade"]
      [] State(c) = "USERNAME" -> Next1(Sends(c, "username"))
      [] State(c) = "PASSWORD" -> Next1(Sends(c, "password"))
      [] State(c) = "FROM" -> Next1(Sends(c, "mail"))
      [] State(c) = "TO" -> RcptT(c, n)
      [] State(c) = "DATA" -> Next1(Sends(c, "data"))
      [] State(c) = "CONTENTS" -> Next1(Sends(c, "contents"))
      [] State(c) = "QUIT" -> Next1(Sends(c, "quit"))
      [] OTHER -> c
-----------------------------------------------------------------------------
(* The thread of the client.                                               *)

\* on_close(), the handler
OnClose(k) ==
    /\ tosMap' = tosMap \ {k}
    /\ callbacks' = IF tosMap \ {k} = {} THEN callbacks + 1 ELSE callbacks

\* mutant of NextMx: a session that fails is the last one
NextMxStops(k, failed) ==
    IF later = <<>> \/ failed
    THEN sess' = [sess EXCEPT ![k].status = "closed"] /\ UNCHANGED later
    ELSE /\ sess' = [sess EXCEPT ![k].status = "closed",
                                 ![Head(later)] = Connected(Head(later), TRUE)]
         /\ later' = Tail(later)

\* _connect_next_mx(), the other handler of the close
NextMx(k, failed) ==
    IF later = <<>>
    THEN sess' = [sess EXCEPT ![k].status = "closed"] /\ UNCHANGED later
    ELSE /\ sess' = [sess EXCEPT ![k].status = "closed",
                                 ![Head(later)] = Connected(Head(later), TRUE)]
         /\ later' = Tail(later)

\* close() of the connection, after on_exception() if `failed`; nothing hears of
\* a close before bind()
Ends(k, failed) ==
    /\ IF sess[k].bound
       THEN /\ OnClose(k) /\ NextMx(k, failed)
            /\ captured' = captured \cup {k}
            /\ errors' = IF failed THEN errors \cup {k} ELSE errors
       ELSE /\ sess' = [sess EXCEPT ![k].status = "closed"]
            /\ UNCHANGED <<tosMap, callbacks, later, captured, errors>>
    /\ UNCHANGED <<job, resolved, connects, heard>>

\* The connection is made; the remote has its capabilities.
Established(k) ==
    /\ sess[k].status = "pending" /\ sess[k].bound
    /\ sess' = [sess EXCEPT ![k].status = "open", ![k].awaits = "greeting"]
    /\ \E starttls, still \in BOOLEAN :
          heard' = [heard EXCEPT ![k].starttls = starttls, ![k].still = still]
    /\ UNCHANGED <<job, resolved, tosMap, connects, later, callbacks, errors,
                   captured>>

\* it is not made: connect() fails at once, or later
Refused(k) == sess[k].status = "pending" /\ Ends(k, FALSE)

Offers(k) == IF heard[k].tls THEN heard[k].still ELSE heard[k].starttls

\* on_line() of the last line of an answer of the code that is expected; no
\* code is expected of the greeting
Replies(k) ==
    LET c == sess[k]
    IN  /\ c.status = "open" /\ c.awaits \notin {"none", "upgrade", "quit"}
        /\ heard' = [heard EXCEPT ![k].accepted = @ \/ c.awaits = "contents"]
        /\ sess' = [sess EXCEPT ![k] = Call(c, Recipients(k), Offers(k))]
        /\ UNCHANGED <<job, resolved, tosMap, connects, later, callbacks,
                       errors, captured>>

\* close_t(), when "quit" is answered
Quits(k) == /\ sess[k].status = "open" /\ sess[k].awaits = "quit"
            /\ Ends(k, FALSE)

\* assert_c() raises for another code, and on_exception() closes
Refuses(k) ==
    /\ sess[k].status = "open" /\ sess[k].awaits \notin {"none", "greeting"}
    /\ Ends(k, TRUE)

\* on_upgrade(), when the handshake is done
Upgraded(k) ==
    /\ sess[k].status = "open" /\ sess[k].awaits = "upgrade"
    /\ heard' = [heard EXCEPT ![k].tls = TRUE]
    /\ sess' = [sess EXCEPT ![k] = Call([@ EXCEPT !.sent = <<>>], Recipients(k),
                                       FALSE)]
    /\ UNCHANGED <<job, resolved, tosMap, connects, later, callbacks, errors,
                   captured>>

\* the remote ends the connection
Eof(k) == sess[k].status = "open" /\ Ends(k, FALSE)

Answers(k) == \/ Established(k) \/ Refused(k) \/ Replies(k) \/ Quits(k)
              \/ Refuses(k) \/ Upgraded(k) \/ Eof(k)

SmtpNext ==
    \/ \E arguments \in Jobs : Message(arguments)
    \/ \E d \in Domains, answer \in Hosts \cup {None} : Resolved(d, answer)
    \/ ConnectMx
    \/ \E k \in Keys : Bind(k) \/ Answers(k)

\* DNS queries have a timeout; the remotes answer or end the connection
SmtpFairness ==
    /\ WF_smtpVars(ConnectMx)
    /\ \A d \in Domains : WF_smtpVars(\E a \in Hosts \cup {None} : Resolved(d, a))
    /\ \A k \in Keys : WF_smtpVars(Bind(k)) /\ WF_smtpVars(Answers(k))
-----------------------------------------------------------------------------
(* Properties.                                                             *)

\* "The callback is invoked once all SMTP sessions have completed": once, with
\* every domain in a session that ended and was captured, or in an error.
CalledOnce ==
    /\ callbacks <= 1
    /\ callbacks = 1 =>
          /\ \A k \in Keys : ~Live(k)
          /\ job.mode = "mx" => \A d \in Domains :
                resolved[d] # "pending" /\
                (IF resolved[d] = None THEN d \in errors ELSE KeyOf(d) \in captured)

Repeat(s, n) == [i \in 1 .. n |-> s]
Legal(k) ==
    {<<"ehlo">> \o auth \o <<"mail">> \o Repeat("rcpt", Recipients(k))
         \o <<"data", "contents", "quit">> :
        auth \in {<<>>, <<"auth">>, <<"auth", "username", "password">>}}
    \cup {<<"ehlo", "starttls">>}

InSequence(k) ==
    sess[k].status # "none" =>
        \E s \in Legal(k) : /\ Len(sess[k].sent) <= Len(s)
                            /\ SubSeq(s, 1, Len(sess[k].sent)) = sess[k].sent
UpgradedFirst(k) ==
    heard[k].starttls /\ ~heard[k].tls =>
        ToSet(sess[k].sent) \subseteq {"ehlo", "starttls"}
OneAtATime == job.sequential => Cardinality({k \in Keys : Live(k)}) <= 1

\* The commands of a session, since its upgrade if there was one, are those of
\* one message to all of its recipients, in the order of the protocol; "When the
\* remote server advertises starttls in its EHLO capabilities the connection is
\* automatically upgraded": nothing but EHLO is sent before; and sessions that
\* are to be one at a time are.
InTurn == (\A k \in Keys : InSequence(k) /\ UpgradedFirst(k)) /\ OneAtATime

\* However the sessions end, the callback is called.
EventuallyCalled == job.mode # "none" ~> callbacks > 0

\* The sessions of a message are right, and what is told of them too.
DeliverySafety == CalledOnce /\ InTurn
=============================================================================
