---------------------------- MODULE TunnelProofs ----------------------------
(***************************************************************************)
(* Proofs about Protocol and Tunnel: whatever the marks, the messages and  *)
(* their sizes, and however deep writes, resumes and flushes call one      *)
(* another, what is sent enters the connection once and in order, a paused *)
(* protocol has its resume to come, and an end that is not read has a      *)
(* callback to come that looks again.                                      *)
(*                                                                         *)
(* The invariant relates the two sides of the flow control at every step   *)
(* of the calls inside calls, not only when the stack is empty: the flag   *)
(* of the protocol is the negation of that of the transport, which tells   *)
(* on which side of the marks the bytes are, and what is kept while there  *)
(* is no pause has a flush under way that will come to it (Flows).  What   *)
(* the counters count needs no recursion: Totals says that there are       *)
(* partial sums that end in them.                                          *)
(***************************************************************************)
EXTENDS Tunnel, SequenceTheorems, TLAPS

Calls == {"ready", "opened", "send", "flush"} \cup Messages

\* the first n of q make up total
Totals(q, n, total) ==
    \E after \in [1 .. n + 1 -> Nat] :
        /\ after[n + 1] = 0 /\ total = after[1]
        /\ \A i \in 1 .. n : q[i] \in Nat /\ after[i] = q[i] + after[i + 1]

-----------------------------------------------------------------------------
(* Sequences and sums.                                                      *)

LEMMA PushedFacts ==
    ASSUME NEW S, NEW s \in Seq(S), NEW x \in S
    PROVE  /\ Append(s, x) \in Seq(S) /\ Len(Append(s, x)) = Len(s) + 1
           /\ \A i \in 1 .. Len(s) : Append(s, x)[i] = s[i]
           /\ Append(s, x)[Len(s) + 1] = x
           /\ Last(Append(s, x)) = x /\ Append(s, x) # <<>>
           /\ Len(s) \in Nat
<1>1. Len(s) \in Nat
  BY LenProperties
<1> QED BY <1>1, AppendProperties DEF Last

LEMMA PoppedFacts ==
    ASSUME NEW S, NEW s \in Seq(S), s # <<>>
    PROVE  /\ Front(s) \in Seq(S) /\ Len(Front(s)) = Len(s) - 1
           /\ \A i \in 1 .. Len(s) - 1 : Front(s)[i] = s[i]
           /\ Last(s) = s[Len(s)] /\ Last(s) \in S
           /\ Len(s) \in Nat /\ Len(s) \in 1 .. Len(s)
<1>1. Len(s) \in Nat \ {0} /\ \A i \in 1 .. Len(s) : s[i] \in S
  BY EmptySeq, ElementOfSeq
<1> DEFINE n == Len(s) - 1
<1>2. n \in Int /\ 1 \in Int /\ n >= 0 /\ \A i \in 1 .. n : s[i] \in S
  BY <1>1
<1>3. Front(s) = SubSeq(s, 1, n)
  BY DEF Front
<1> HIDE DEF n
<1>4. /\ SubSeq(s, 1, n) \in Seq(S)
      /\ Len(SubSeq(s, 1, n)) = IF 1 <= n THEN n - 1 + 1 ELSE 0
      /\ \A i \in 1 .. n - 1 + 1 : SubSeq(s, 1, n)[i] = s[1 + i - 1]
  BY <1>2, SubSeqProperties
<1>5. Len(SubSeq(s, 1, n)) = n /\ \A i \in 1 .. n : SubSeq(s, 1, n)[i] = s[i]
  BY <1>2, <1>4
<1> QED BY <1>1, <1>3, <1>4, <1>5 DEF n, Last

LEMMA TailFacts ==
    ASSUME NEW S, NEW s \in Seq(S), s # <<>>
    PROVE  /\ Head(s) \in S /\ Head(s) = s[1] /\ Tail(s) \in Seq(S)
           /\ Len(Tail(s)) = Len(s) - 1 /\ Len(s) \in Nat \ {0}
           /\ \A i \in 1 .. Len(s) - 1 : Tail(s)[i] = s[i + 1]
           /\ <<Head(s)>> \o Tail(s) = s
<1>1. Len(s) \in Nat \ {0}
  BY EmptySeq
<1>2. /\ Head(s) \in S /\ Tail(s) \in Seq(S) /\ Len(Tail(s)) = Len(s) - 1
      /\ \A i \in 1 .. Len(Tail(s)) : Tail(s)[i] = s[i + 1]
      /\ Head(s) = s[1]
  BY HeadTailProperties
<1> DEFINE h == Head(s)
           one == <<h>>
<1> HIDE DEF h
<1>3. one \in Seq(S) /\ Len(one) = 1 /\ one[1] = h
  BY <1>2 DEF h
<1> HIDE DEF one
<1>4. /\ one \o Tail(s) \in Seq(S) /\ Len(one \o Tail(s)) = 1 + Len(Tail(s))
      /\ \A i \in 1 .. 1 + Len(Tail(s)) :
             (one \o Tail(s))[i] = IF i <= 1 THEN one[i] ELSE Tail(s)[i - 1]
  BY SMTT(30), <1>2, <1>3, ConcatProperties
<1>5. \A i \in 1 .. Len(s) : (one \o Tail(s))[i] = s[i]
  BY <1>1, <1>2, <1>3, <1>4 DEF h
<1>6. one \o Tail(s) = s
  BY <1>1, <1>2, <1>4, <1>5, SeqEqual
<1> QED BY <1>1, <1>2, <1>6 DEF one, h

LEMMA PrefixIs ==
    ASSUME NEW S, NEW s \in Seq(S), NEW t \in Seq(S)
    PROVE  IsPrefix(s, t) <=> /\ Len(s) <= Len(t)
                              /\ \A i \in 1 .. Len(s) : s[i] = t[i]
<1>1. SubSeq(s, 1, Len(s)) = s /\ Len(s) \in Nat /\ Len(t) \in Nat
  BY SubSeqFull, LenProperties
<1>2. ASSUME Len(s) <= Len(t)
      PROVE  /\ SubSeq(t, 1, Len(s)) \in Seq(S) /\ Len(SubSeq(t, 1, Len(s))) = Len(s)
             /\ \A i \in 1 .. Len(s) : SubSeq(t, 1, Len(s))[i] = t[i]
  <2>1. \A i \in 1 .. Len(s) : t[i] \in S
    BY <1>1, <1>2, ElementOfSeq
  <2> QED BY <1>1, <2>1, SubSeqProperties
<1>3. ASSUME Len(s) <= Len(t), \A i \in 1 .. Len(s) : s[i] = t[i]
      PROVE  s = SubSeq(t, 1, Len(s))
  BY <1>2, <1>3, SeqEqual
<1> QED BY <1>1, <1>2, <1>3 DEF IsPrefix

LEMMA PrefixFrom ==
    ASSUME NEW S, NEW s \in Seq(S), NEW t \in Seq(S),
           Len(s) <= Len(t), \A i \in 1 .. Len(s) : s[i] = t[i]
    PROVE  IsPrefix(s, t)
BY PrefixIs

LEMMA PrefixConcat ==
    ASSUME NEW S, NEW s \in Seq(S), NEW t \in Seq(S)
    PROVE  IsPrefix(s, s \o t)
<1> DEFINE c == s \o t
<1>1. Len(s) \in Nat /\ Len(t) \in Nat
  BY LenProperties
<1>2. /\ c \in Seq(S) /\ Len(c) = Len(s) + Len(t)
      /\ \A i \in 1 .. Len(s) + Len(t) :
             c[i] = IF i <= Len(s) THEN s[i] ELSE t[i - Len(s)]
  BY ConcatProperties
<1> HIDE DEF c
<1>3. Len(s) <= Len(c) /\ \A i \in 1 .. Len(s) : s[i] = c[i]
  BY <1>1, <1>2
<1>4. IsPrefix(s, c)
  BY <1>2, <1>3, PrefixFrom
<1> QED BY <1>4 DEF c

LEMMA PrefixAppend ==
    ASSUME NEW S, NEW s \in Seq(S), NEW t \in Seq(S), NEW x \in S,
           IsPrefix(s, t)
    PROVE  IsPrefix(s, Append(t, x))
<1> DEFINE c == Append(t, x)
<1>1. Len(s) \in Nat /\ Len(t) \in Nat
  BY LenProperties
<1>2. Len(s) <= Len(t) /\ \A i \in 1 .. Len(s) : s[i] = t[i]
  BY PrefixIs
<1>3. c \in Seq(S) /\ Len(c) = Len(t) + 1 /\ \A i \in 1 .. Len(t) : c[i] = t[i]
  BY AppendProperties
<1> HIDE DEF c
<1>4. Len(s) <= Len(c) /\ \A i \in 1 .. Len(s) : s[i] = c[i]
  BY <1>1, <1>2, <1>3
<1>5. IsPrefix(s, c)
  BY <1>3, <1>4, PrefixFrom
<1> QED BY <1>5 DEF c

LEMMA PrefixEmpty == ASSUME NEW S, NEW t \in Seq(S) PROVE IsPrefix(<<>>, t)
<1>1. Len(t) \in Nat
  BY LenProperties
<1> DEFINE e == <<>>
<1>2. e \in Seq(S) /\ Len(e) = 0
  BY EmptySeq
<1> HIDE DEF e
<1>3. Len(e) <= Len(t) /\ \A i \in 1 .. Len(e) : e[i] = t[i]
  BY <1>1, <1>2
<1>4. IsPrefix(e, t)
  BY <1>2, <1>3, PrefixFrom
<1> QED BY <1>4 DEF e

LEMMA TotalsFrom ==
    ASSUME NEW q, NEW n \in Nat, NEW t, NEW after \in [1 .. n + 1 -> Nat],
           after[n + 1] = 0, t = after[1],
           \A i \in 1 .. n : q[i] \in Nat /\ after[i] = q[i] + after[i + 1]
    PROVE  Totals(q, n, t)
BY DEF Totals

LEMMA TotalsEmpty == ASSUME NEW q PROVE Totals(q, 0, 0)
<1> DEFINE after == [i \in 1 .. 0 + 1 |-> 0]
<1>1. after \in [1 .. 0 + 1 -> Nat]
  <2>1. 0 \in Nat
    OBVIOUS
  <2> QED BY <2>1, Zenon
<1>2. after[0 + 1] = 0 /\ after[1] = 0
  OBVIOUS
<1>3. \A i \in 1 .. 0 : q[i] \in Nat /\ after[i] = q[i] + after[i + 1]
  OBVIOUS
<1> HIDE DEF after
<1> QED BY <1>1, <1>2, <1>3, TotalsFrom

LEMMA TotalsNat ==
    ASSUME NEW q, NEW n \in Nat, NEW t, Totals(q, n, t)
    PROVE  t \in Nat /\ (t > 0 => n > 0)
BY DEF Totals

LEMMA TotalsAppend ==
    ASSUME NEW q, NEW n \in Nat, NEW t, Totals(q, n, t),
           NEW x \in Nat, NEW r, \A i \in 1 .. n : r[i] = q[i], r[n + 1] = x
    PROVE  Totals(r, n + 1, t + x)
<1>1. PICK after \in [1 .. n + 1 -> Nat] :
          /\ after[n + 1] = 0 /\ t = after[1]
          /\ \A i \in 1 .. n : q[i] \in Nat /\ after[i] = q[i] + after[i + 1]
  BY Zenon DEF Totals
<1> DEFINE next == [i \in 1 .. n + 1 + 1 |-> IF i = n + 2 THEN 0 ELSE after[i] + x]
<1>2. next \in [1 .. n + 1 + 1 -> Nat]
  OBVIOUS
<1>3. next[n + 1 + 1] = 0 /\ t + x = next[1]
  <2>1. 1 \in 1 .. n + 1 + 1 /\ 1 # n + 2 /\ n + 1 + 1 \in 1 .. n + 1 + 1
    OBVIOUS
  <2> QED BY <1>1, <2>1
<1>4. \A i \in 1 .. n + 1 : r[i] \in Nat /\ next[i] = r[i] + next[i + 1]
  <2> SUFFICES ASSUME NEW i \in 1 .. n + 1
               PROVE  r[i] \in Nat /\ next[i] = r[i] + next[i + 1]
    OBVIOUS
  <2>1. CASE i = n + 1
    BY <1>1, <2>1
  <2>2. CASE i \in 1 .. n
    <3>1. next[i] = after[i] + x /\ next[i + 1] = after[i + 1] + x
      BY <2>2
    <3>2. /\ after[i] = r[i] + after[i + 1] /\ after[i] \in Nat
          /\ after[i + 1] \in Nat /\ r[i] \in Nat
      BY <1>1, <2>2
    <3> HIDE DEF next
    <3> QED BY <3>1, <3>2
  <2> QED BY <2>1, <2>2
<1> HIDE DEF next
<1> DEFINE m == n + 1
           u == t + x
<1>5. /\ m \in Nat /\ next \in [1 .. m + 1 -> Nat] /\ next[m + 1] = 0 /\ u = next[1]
      /\ \A i \in 1 .. m : r[i] \in Nat /\ next[i] = r[i] + next[i + 1]
  BY <1>2, <1>3, <1>4
<1> HIDE DEF m, u
<1>6. Totals(r, m, u)
  BY <1>5, TotalsFrom
<1> QED BY <1>6 DEF m, u

LEMMA TotalsTail ==
    ASSUME NEW q, NEW n \in Nat \ {0}, NEW t, Totals(q, n, t),
           NEW r, \A i \in 1 .. n - 1 : r[i] = q[i + 1]
    PROVE  q[1] \in Nat /\ q[1] <= t /\ Totals(r, n - 1, t - q[1])
<1>1. PICK after \in [1 .. n + 1 -> Nat] :
          /\ after[n + 1] = 0 /\ t = after[1]
          /\ \A i \in 1 .. n : q[i] \in Nat /\ after[i] = q[i] + after[i + 1]
  BY Zenon DEF Totals
<1>2. q[1] \in Nat /\ t = q[1] + after[2] /\ after[2] \in Nat
  BY <1>1
<1> DEFINE m == n - 1
           u == t - q[1]
           next == [i \in 1 .. m + 1 |-> after[i + 1]]
<1>3. m \in Nat /\ u = after[2] /\ m + 1 = n
  BY <1>2
<1> HIDE DEF m, u
<1>4. next \in [1 .. m + 1 -> Nat]
  BY <1>3
<1>5. next[m + 1] = 0 /\ u = next[1]
  BY <1>1, <1>3
<1>6. \A i \in 1 .. m : r[i] \in Nat /\ next[i] = r[i] + next[i + 1]
  <2> SUFFICES ASSUME NEW i \in 1 .. m
               PROVE  r[i] \in Nat /\ next[i] = r[i] + next[i + 1]
    OBVIOUS
  <2>1. next[i] = after[i + 1] /\ next[i + 1] = after[i + 1 + 1]
    BY <1>3
  <2>2. i \in 1 .. n - 1 /\ i + 1 \in 1 .. n
    BY <1>3
  <2> HIDE DEF next
  <2> QED BY <1>1, <2>1, <2>2
<1> HIDE DEF next, m, u
<1>7. Totals(r, m, u)
  BY <1>3, <1>4, <1>5, <1>6, TotalsFrom
<1> QED BY <1>2, <1>7 DEF m, u

LEMMA TotalsTake ==
    ASSUME NEW q, NEW n \in Nat \ {0}, NEW t, Totals(q, n, t),
           NEW k \in Nat, NEW r, r[1] \in Nat, q[1] = r[1] + k,
           \A i \in 2 .. n : r[i] = q[i]
    PROVE  k <= t /\ Totals(r, n, t - k)
<1>1. PICK after \in [1 .. n + 1 -> Nat] :
          /\ after[n + 1] = 0 /\ t = after[1]
          /\ \A i \in 1 .. n : q[i] \in Nat /\ after[i] = q[i] + after[i + 1]
  BY Zenon DEF Totals
<1>2. q[1] \in Nat /\ t = q[1] + after[2] /\ after[2] \in Nat
  BY <1>1
<1> DEFINE u == t - k
           next == [i \in 1 .. n + 1 |-> IF i = 1 THEN u ELSE after[i]]
<1>3. u \in Nat /\ u = r[1] + after[2]
  <2>1. ASSUME NEW a \in Nat, NEW b \in Nat, NEW c \in Nat
        PROVE  a + c + b - c \in Nat /\ a + c + b - c = a + b
    OBVIOUS
  <2>2. t = r[1] + k + after[2]
    BY <1>2
  <2>3. t - k = r[1] + k + after[2] - k
    BY <2>2
  <2>4. r[1] + k + after[2] - k \in Nat /\ r[1] + k + after[2] - k = r[1] + after[2]
    BY <1>2, <2>1
  <2> QED BY <2>3, <2>4, Zenon
<1> HIDE DEF u
<1>4. next \in [1 .. n + 1 -> Nat]
  BY <1>3
<1>5. next[n + 1] = 0 /\ u = next[1]
  <2>1. 1 \in 1 .. n + 1 /\ n + 1 # 1 /\ n + 1 \in 1 .. n + 1
    OBVIOUS
  <2> QED BY <1>1, <2>1
<1>6. \A i \in 1 .. n : r[i] \in Nat /\ next[i] = r[i] + next[i + 1]
  <2> SUFFICES ASSUME NEW i \in 1 .. n
               PROVE  r[i] \in Nat /\ next[i] = r[i] + next[i + 1]
    OBVIOUS
  <2>1. CASE i = 1
    <3>1. next[1] = u /\ next[2] = after[2]
      OBVIOUS
    <3> HIDE DEF next
    <3> QED BY <1>3, <2>1, <3>1
  <2>2. CASE i \in 2 .. n
    <3>1. next[i] = after[i] /\ next[i + 1] = after[i + 1]
      BY <2>2
    <3> HIDE DEF next
    <3> QED BY <1>1, <2>2, <3>1
  <2> QED BY <2>1, <2>2
<1> HIDE DEF next
<1>7. Totals(r, n, u)
  BY <1>3, <1>4, <1>5, <1>6, TotalsFrom
<1>8. k <= t
  BY <1>2
<1> QED BY <1>7, <1>8 DEF u
-----------------------------------------------------------------------------
(* The invariant.                                                           *)

In(x, s) == \E i \in 1 .. Len(s) : s[i] = x

\* the opening is called by the connect alone
Opens(s) == \A i \in 1 .. Len(s) : s[i] = "opened" => i = 2

\* nothing has happened to a connection that is not made yet
Unmade ==
    /\ stack = <<>> /\ entered = <<>> /\ queue = <<>> /\ pendingS = 0
    /\ ~exhausted /\ writing /\ phase # "open"
    /\ phase = "pending" => /\ keptSends = submitted
                            /\ keptSends # <<>> => kind = "http"

Stage ==
    /\ conn = "open" => phase = "open"
    /\ conn = "pending" => Unmade
    /\ conn = "closed" => \A i \in 1 .. Len(stack) : stack[i] \in Messages
    /\ lost => conn = "closed"

\* both sides agree, and what is kept without a pause has a flush to come
Flows ==
    conn = "open" =>
        /\ writing <=> ~exhausted
        /\ exhausted => pendingS > Low
        /\ ~exhausted => pendingS <= High
        /\ writing /\ keptSends # <<>> =>
               In("flush", stack) \/ (In("opened", stack) /\ kind = "http")

Sums == Totals(queue, Len(queue), pendingS)

ProtocolInv ==
    /\ ProtocolTypeOK /\ Opens(stack) /\ Stage /\ Flows /\ Sums
    /\ InOrder /\ Bounded

Raw == "raw" \notin Early

-----------------------------------------------------------------------------
(* The stack.                                                               *)

LEMMA CallNames ==
    /\ {"ready", "opened", "send", "flush"} \cup Messages = Calls
    /\ \A x \in Messages : x # "opened" /\ x # "flush" /\ x # "send" /\ x # "ready"
    /\ "send" # "opened" /\ "send" # "flush" /\ "flush" # "opened" /\ "ready" # "opened"
    /\ "ready" # "flush"
BY NamesAssumption DEF Calls

LEMMA Pushes ==
    ASSUME NEW s \in Seq(Calls), NEW x \in Calls, x # "opened"
    PROVE  /\ Append(s, x) \in Seq(Calls)
           /\ Opens(s) => Opens(Append(s, x))
           /\ \A y : In(y, Append(s, x)) <=> In(y, s) \/ y = x
<1> DEFINE t == Append(s, x)
<1>1. /\ t \in Seq(Calls) /\ Len(t) = Len(s) + 1 /\ Len(s) \in Nat
      /\ \A i \in 1 .. Len(s) : t[i] = s[i]
      /\ t[Len(s) + 1] = x
  BY PushedFacts
<1> HIDE DEF t
<1>2. \A i \in 1 .. Len(t) : i \in 1 .. Len(s) \/ i = Len(s) + 1
  BY <1>1
<1>3. 1 .. Len(s) \subseteq 1 .. Len(t) /\ Len(s) + 1 \in 1 .. Len(t)
  BY <1>1
<1>4. Opens(s) => Opens(t)
  BY <1>1, <1>2 DEF Opens
<1>5. \A y : In(y, t) <=> In(y, s) \/ y = x
  BY <1>1, <1>2, <1>3, Zenon DEF In
<1> QED BY <1>1, <1>4, <1>5 DEF t

LEMMA Pops ==
    ASSUME NEW s \in Seq(Calls), s # <<>>
    PROVE  /\ Front(s) \in Seq(Calls) /\ Last(s) \in Calls
           /\ Opens(s) => Opens(Front(s))
           /\ \A y : In(y, Front(s)) => In(y, s)
           /\ \A y : In(y, s) => In(y, Front(s)) \/ y = Last(s)
           /\ In(Last(s), s)
           /\ Opens(s) /\ Last(s) = "opened" => ~In("opened", Front(s))
           /\ \A P : (\A i \in 1 .. Len(s) : s[i] \in P)
                         => \A i \in 1 .. Len(Front(s)) : Front(s)[i] \in P
<1> DEFINE t == Front(s)
           n == Len(s)
<1>1. /\ t \in Seq(Calls) /\ Len(t) = n - 1 /\ n \in Nat /\ n \in 1 .. n
      /\ \A i \in 1 .. n - 1 : t[i] = s[i]
      /\ Last(s) = s[n] /\ Last(s) \in Calls
  BY PoppedFacts
<1> HIDE DEF t
<1>2. \A i \in 1 .. n : i \in 1 .. Len(t) \/ i = n
  BY <1>1
<1>3. \A i \in 1 .. Len(t) : i \in 1 .. n /\ i # n /\ t[i] = s[i]
  BY <1>1
<1>4. Opens(s) => Opens(t)
  BY <1>3 DEF Opens
<1>5. \A y : In(y, t) => In(y, s)
  BY <1>3, Zenon DEF In
<1>6. \A y : In(y, s) => In(y, t) \/ y = Last(s)
  BY <1>1, <1>2, <1>3, Zenon DEF In
<1>7. In(Last(s), s)
  BY <1>1, Zenon DEF In
<1>8. ASSUME Opens(s), Last(s) = "opened"
      PROVE  ~In("opened", t)
  <2>1. n = 2
    BY <1>1, <1>8 DEF Opens
  <2>2. \A i \in 1 .. Len(t) : t[i] # "opened"
    BY <1>3, <1>8, <2>1 DEF Opens
  <2> QED BY <2>2 DEF In
<1>9. \A P : (\A i \in 1 .. n : s[i] \in P) => \A i \in 1 .. Len(t) : t[i] \in P
  BY <1>3
<1> QED BY <1>1, <1>4, <1>5, <1>6, <1>7, <1>8, <1>9 DEF t

LEMMA TwoPushed ==
    ASSUME NEW s \in Seq(Calls), NEW m \in Messages, NEW b \in BOOLEAN
    PROVE  s \o (IF b THEN <<m, "send">> ELSE <<m>>) =
               IF b THEN Append(Append(s, m), "send") ELSE Append(s, m)
<1>1. m \in Calls /\ "send" \in Calls
  BY DEF Calls
<1>2. Append(s, m) = s \o <<m>> /\ Append(s, m) \in Seq(Calls)
  BY <1>1, AppendIsConcat, AppendProperties
<1>3. Append(Append(s, m), "send") = (s \o <<m>>) \o <<"send">>
  BY <1>1, <1>2, AppendIsConcat
<1>4. <<m>> \in Seq(Calls) /\ <<"send">> \in Seq(Calls)
  BY <1>1
<1>5. (s \o <<m>>) \o <<"send">> = s \o (<<m>> \o <<"send">>)
  BY <1>4, ConcatAssociative
<1>6. <<m>> \o <<"send">> = <<m, "send">>
  <2> DEFINE one == <<m>>
             two == <<"send">>
             both == <<m, "send">>
  <2>1. one \in Seq(Calls) /\ Len(one) = 1 /\ one[1] = m
    BY <1>1
  <2>2. two \in Seq(Calls) /\ Len(two) = 1 /\ two[1] = "send"
    BY <1>1
  <2>3. both \in Seq(Calls) /\ Len(both) = 2 /\ both[1] = m /\ both[2] = "send"
    BY <1>1
  <2> HIDE DEF one, two, both
  <2>4. /\ one \o two \in Seq(Calls) /\ Len(one \o two) = Len(one) + Len(two)
        /\ \A i \in 1 .. Len(one) + Len(two) :
               (one \o two)[i] = IF i <= Len(one) THEN one[i] ELSE two[i - Len(one)]
    BY <2>1, <2>2, ConcatProperties
  <2>5. Len(one \o two) = 2 /\ (one \o two)[1] = m /\ (one \o two)[2] = "send"
    BY <2>1, <2>2, <2>4
  <2>6. \A i \in 1 .. Len(one \o two) : (one \o two)[i] = both[i]
    BY <2>3, <2>5
  <2>7. one \o two = both
    BY <2>3, <2>4, <2>5, <2>6, SeqEqual
  <2> QED BY <2>7 DEF one, two, both
<1> QED BY <1>2, <1>3, <1>5, <1>6
-----------------------------------------------------------------------------
(* The transport.                                                           *)

LEMMA Types ==
    ProtocolTypeOK <=>
        /\ kind \in Kinds
        /\ phase \in {"pending", "open", "closing", "closed"}
        /\ writing \in BOOLEAN
        /\ keptSends \in Seq(Messages) /\ callbacks \in Seq(Messages)
        /\ calls \in Seq(Messages)
        /\ lost \in BOOLEAN /\ finishing \in BOOLEAN
        /\ conn \in {"pending", "open", "closed"}
        /\ exhausted \in BOOLEAN
        /\ queue \in Seq(Nat \ {0}) /\ pendingS \in Nat /\ wready \in BOOLEAN
        /\ stack \in Seq(Calls)
        /\ submitted \in Seq(Messages) /\ entered \in Seq(Messages)
        /\ called \in Seq(Messages)
BY DEF ProtocolTypeOK, Calls

LEMMA DeferredType ==
    ASSUME callbacks \in Seq(Messages), calls \in Seq(Messages)
    PROVE  calls \o Deferred \in Seq(Messages)
<1>1. Len(callbacks) \in Nat /\ DOMAIN callbacks = 1 .. Len(callbacks)
  BY LenProperties
<1>2. Deferred \in Seq(Messages)
  <2>1. CASE callbacks = <<>>
    <3>1. Len(callbacks) = 0
      BY <2>1, EmptySeq
    <3> DEFINE n == Len(callbacks)
               x == Last(callbacks)
    <3>2. Deferred = [i \in 1 .. n |-> x]
      BY <1>1 DEF Deferred
    <3> HIDE DEF n, x
    <3>3. \A i \in 1 .. n : x \in Messages
      BY <3>1 DEF n
    <3>4. [i \in 1 .. n |-> x] \in Seq(Messages)
      BY <1>1, <3>3, IsASeq DEF n
    <3> QED BY <3>2, <3>4
  <2>2. CASE callbacks # <<>>
    <3>1. Last(callbacks) \in Messages
      BY <2>2, PoppedFacts
    <3> DEFINE n == Len(callbacks)
               x == Last(callbacks)
    <3>2. Deferred = [i \in 1 .. n |-> x]
      BY <1>1 DEF Deferred
    <3> HIDE DEF n, x
    <3>4. [i \in 1 .. n |-> x] \in Seq(Messages)
      BY <1>1, <3>1, IsASeq DEF n, x
    <3> QED BY <3>2, <3>4
  <2> QED BY <2>1, <2>2
<1> QED BY <1>2, ConcatProperties

\* what _handle_flow() leaves, over the stack of what called it
LEMMA FlowFacts ==
    ASSUME exhausted \in BOOLEAN, writing \in BOOLEAN, writing <=> ~exhausted,
           callbacks \in Seq(Messages), calls \in Seq(Messages),
           NEW p \in Nat, NEW calling, HandleFlow(p, calling)
    PROVE  /\ exhausted' \in BOOLEAN /\ writing' \in BOOLEAN
           /\ writing' <=> ~exhausted'
           /\ exhausted' => p > Low
           /\ ~exhausted' => p <= High
           /\ calls' \in Seq(Messages) /\ callbacks' \in Seq(Messages)
           /\ stack' = calling \/ stack' = Append(calling, "flush")
           /\ writing' /\ ~writing => stack' = Append(calling, "flush")
           /\ ~exhausted => stack' = calling
           /\ exhausted' => callbacks' = callbacks
           /\ exhausted' /\ ~exhausted => p > High
<1>1. High \in Nat /\ Low \in Nat /\ Low <= High
  BY MarksAssumption
<1>2. CASE Restores(p)
  <2>1. /\ exhausted /\ p <= Low /\ exhausted' = FALSE /\ writing' = TRUE
        /\ calls' = calls \o Deferred /\ callbacks' = <<>>
        /\ stack' = Append(calling, "flush")
    BY <1>2 DEF HandleFlow, Restores
  <2>2. calls' \in Seq(Messages) /\ callbacks' \in Seq(Messages)
    BY <2>1, DeferredType, EmptySeq
  <2>3. p <= High
    BY <1>1, <2>1
  <2> QED BY <2>1, <2>2, <2>3
<1>3. CASE ~Restores(p)
  <2>1. /\ exhausted' = (exhausted \/ Exhausts(p))
        /\ writing' = (writing /\ ~Exhausts(p))
        /\ stack' = calling
        /\ calls' = calls /\ callbacks' = callbacks
    BY <1>3 DEF HandleFlow
  <2>2. Exhausts(p) <=> ~exhausted /\ p > High
    BY DEF Exhausts
  <2>3. /\ exhausted' <=> exhausted \/ Exhausts(p)
        /\ writing' <=> writing /\ ~Exhausts(p)
        /\ exhausted' \in BOOLEAN /\ writing' \in BOOLEAN
    BY <2>1, Zenon
  <2>4. exhausted => ~(p <= Low)
    BY <1>3 DEF Restores
  <2>5. ~(p <= Low) => p > Low
    BY <1>1
  <2>6. p > High => p > Low
    BY <1>1
  <2>7. ~(p > High) => p <= High
    BY <1>1
  <2> QED BY <2>1, <2>2, <2>3, <2>4, <2>5, <2>6, <2>7, Zenon
<1> QED BY <1>2, <1>3

\* write() of the transport, of a connection that is open and not exhausted
LEMMA TransportFacts ==
    ASSUME ProtocolTypeOK, Opens(stack), Flows, Sums, conn = "open", writing,
           NEW m \in Messages, TransportWrite(m, stack)
    PROVE  /\ queue' \in Seq(Nat \ {0}) /\ pendingS' \in Nat /\ Sums'
           /\ pendingS' > High => \E x \in Messages : pendingS' <= High + Size[x]
           /\ entered' = Append(entered, m) /\ entered' \in Seq(Messages)
           /\ exhausted' \in BOOLEAN /\ writing' \in BOOLEAN
           /\ writing' <=> ~exhausted'
           /\ exhausted' => pendingS' > Low
           /\ ~exhausted' => pendingS' <= High
           /\ calls' \in Seq(Messages) /\ callbacks' \in Seq(Messages)
           /\ exhausted' => callbacks' = callbacks
           /\ stack' \in Seq(Calls) /\ Opens(stack)'
           /\ \A x : In(x, stack) \/ x = m => In(x, stack')
           /\ In("opened", stack') => In("opened", stack)
<1> USE Types
<1>1. Size[m] \in Nat \ {0} /\ m \in Calls /\ "send" \in Calls
      /\ m # "opened" /\ "send" # "opened"
  BY SizeAssumption, CallNames DEF Calls
<1>2. High \in Nat /\ Low \in Nat /\ pendingS \in Nat /\ pendingS <= High /\ ~exhausted
  BY MarksAssumption DEF Flows
<1> DEFINE p == pendingS + Size[m]
           calling == stack \o (IF wready THEN <<m, "send">> ELSE <<m>>)
<1>3. /\ queue' = Append(queue, Size[m]) /\ pendingS' = p
      /\ entered' = Append(entered, m) /\ HandleFlow(p, calling)
  BY DEF TransportWrite
<1>4. p \in Nat /\ p <= High + Size[m]
  BY SMTT(30), <1>1, <1>2
<1>5. /\ queue' \in Seq(Nat \ {0}) /\ Len(queue') = Len(queue) + 1
      /\ \A i \in 1 .. Len(queue) : queue'[i] = queue[i]
      /\ queue'[Len(queue) + 1] = Size[m] /\ Len(queue) \in Nat
  BY <1>1, <1>3, PushedFacts
<1>6. Totals(queue', Len(queue'), pendingS')
  <2>1. Size[m] \in Nat
    BY <1>1
  <2>2. Totals(queue, Len(queue), pendingS)
    BY DEF Sums
  <2>3. Totals(queue', Len(queue) + 1, pendingS + Size[m])
    BY <1>5, <2>1, <2>2, TotalsAppend
  <2> QED BY <1>3, <1>5, <2>3
<1>7. entered' \in Seq(Messages)
  BY <1>3, PushedFacts
<1> HIDE DEF p
<1>8. calling = IF wready THEN Append(Append(stack, m), "send") ELSE Append(stack, m)
  BY TwoPushed
<1> HIDE DEF calling
<1>9. /\ exhausted' \in BOOLEAN /\ writing' \in BOOLEAN
      /\ writing' <=> ~exhausted'
      /\ exhausted' => p > Low
      /\ ~exhausted' => p <= High
      /\ calls' \in Seq(Messages) /\ callbacks' \in Seq(Messages)
      /\ exhausted' => callbacks' = callbacks
      /\ stack' = calling
  BY <1>2, <1>3, <1>4, FlowFacts
<1>10. /\ calling \in Seq(Calls) /\ Opens(calling)
       /\ \A x : In(x, stack) \/ x = m => In(x, calling)
       /\ In("opened", calling) => In("opened", stack)
  <2> DEFINE a == Append(stack, m)
  <2>1. /\ a \in Seq(Calls) /\ Opens(a)
        /\ \A x : In(x, a) <=> In(x, stack) \/ x = m
    BY <1>1, Pushes
  <2> HIDE DEF a
  <2> DEFINE b == Append(a, "send")
  <2>2. /\ b \in Seq(Calls) /\ Opens(b)
        /\ \A x : In(x, b) <=> In(x, a) \/ x = "send"
    BY <1>1, <2>1, Pushes
  <2>3. calling = b \/ calling = a
    BY <1>8 DEF a
  <2> HIDE DEF b
  <2> QED BY <1>1, <2>1, <2>2, <2>3, Zenon
<1>11. p > High => \E x \in Messages : p <= High + Size[x]
  BY <1>4
<1>12. Sums' /\ Opens(stack)'
  BY <1>6, <1>9, <1>10 DEF Sums, Opens
<1> QED BY <1>3, <1>4, <1>5, <1>7, <1>9, <1>10, <1>11, <1>12
-----------------------------------------------------------------------------
(* The steps of the protocol.                                               *)

LEMMA EmptyHas == ASSUME NEW s, s = <<>> PROVE \A x : ~In(x, s)
<1>1. Len(s) = 0
  BY EmptySeq
<1> QED BY <1>1 DEF In

LEMMA AppendConcat ==
    ASSUME NEW S, NEW s \in Seq(S), NEW t \in Seq(S), NEW x \in S
    PROVE  s \o Append(t, x) = Append(s \o t, x)
<1>1. Append(t, x) = t \o <<x>> /\ <<x>> \in Seq(S)
  BY AppendIsConcat
<1>2. s \o t \in Seq(S)
  BY ConcatProperties
<1>3. Append(s \o t, x) = (s \o t) \o <<x>>
  BY <1>2, AppendIsConcat
<1>4. (s \o t) \o <<x>> = s \o (t \o <<x>>)
  BY <1>1, ConcatAssociative
<1> QED BY <1>1, <1>3, <1>4

\* a call begins or ends, and nothing is given or taken
LEMMA Moved ==
    ASSUME ProtocolInv,
           UNCHANGED <<kind, phase, writing, keptSends, conn, exhausted, queue,
                       pendingS, submitted, entered>>,
           stack' \in Seq(Calls), Opens(stack'), calls' \in Seq(Messages),
           callbacks' \in Seq(Messages), called' \in Seq(Messages),
           lost' \in BOOLEAN, lost' => lost, finishing' \in BOOLEAN,
           wready' \in BOOLEAN,
           conn = "pending" => stack' = stack,
           conn = "closed" => \A i \in 1 .. Len(stack') : stack'[i] \in Messages,
           conn = "open" /\ writing /\ keptSends # <<>> =>
               \/ In("flush", stack')
               \/ In("opened", stack') /\ kind = "http"
    PROVE  ProtocolInv'
<1>1. ProtocolTypeOK'
  BY Types DEF ProtocolInv, ProtocolTypeOK, Calls
<1>2. Opens(stack)'
  BY DEF Opens
<1>3. Stage'
  BY DEF ProtocolInv, Stage, Unmade
<1>4. Flows'
  <2>1. Flows
    BY DEF ProtocolInv
  <2>2. In("flush", stack') \/ (In("opened", stack') /\ kind = "http") =>
        (In("flush", stack) \/ (In("opened", stack) /\ kind = "http"))'
    BY DEF In
  <2> QED BY <2>1, <2>2 DEF Flows
<1>5. Sums' /\ InOrder' /\ Bounded'
  BY DEF ProtocolInv, Sums, InOrder, Bounded
<1> QED BY <1>1, <1>2, <1>3, <1>4, <1>5 DEF ProtocolInv

\* the connection is closed, or it was, or it never was
LEMMA Shut ==
    ASSUME ProtocolInv,
           UNCHANGED <<kind, writing, callbacks, calls, stack, submitted, entered,
                       called>>,
           keptSends' \in Seq(Messages),
           phase' \in {"closing", "closed", phase},
           conn' # "open", conn' = "pending" => conn = "pending",
           phase' = "pending" => keptSends' = keptSends,
           phase' = "open" => conn' # "pending",
           conn' \in {"closed", conn}, conn = "open" => stack = <<>>,
           \/ UNCHANGED <<queue, pendingS, exhausted, wready>>
           \/ /\ queue' = <<>> /\ pendingS' = 0
              /\ exhausted' = FALSE /\ wready' = FALSE,
           lost' \in BOOLEAN, lost' => conn' = "closed", finishing' \in BOOLEAN
    PROVE  ProtocolInv'
<1>1. /\ queue' \in Seq(Nat \ {0}) /\ pendingS' \in Nat
      /\ exhausted' \in BOOLEAN /\ wready' \in BOOLEAN
  <2>1. CASE UNCHANGED <<queue, pendingS, exhausted, wready>>
    BY <2>1, Types DEF ProtocolInv
  <2>2. CASE /\ queue' = <<>> /\ pendingS' = 0
             /\ exhausted' = FALSE /\ wready' = FALSE
    <3>1. <<>> \in Seq(Nat \ {0})
      BY EmptySeq
    <3> QED BY <2>2, <3>1
  <2> QED BY <2>1, <2>2
<1>2. ProtocolTypeOK'
  BY <1>1, Types DEF ProtocolInv, ProtocolTypeOK, Calls
<1>3. Opens(stack)'
  BY DEF ProtocolInv, Opens
<1>4. Stage'
  <2>1. conn' = "pending" => Unmade'
    <3> SUFFICES ASSUME conn' = "pending"
                 PROVE  Unmade'
      OBVIOUS
    <3>1. conn = "pending" /\ Unmade
      BY DEF ProtocolInv, Stage
    <3> QED BY <3>1 DEF Unmade
  <2>2. conn' = "closed" => (\A i \in 1 .. Len(stack) : stack[i] \in Messages)'
    <3>1. CASE conn = "closed"
      BY <3>1 DEF ProtocolInv, Stage
    <3>2. CASE conn # "closed"
      <4>1. stack = <<>>
        BY <3>2, Types DEF ProtocolInv, Stage, Unmade
      <4>2. Len(stack) = 0
        BY <4>1, EmptySeq
      <4> QED BY <4>2
    <3> QED BY <3>1, <3>2
  <2> QED BY <2>1, <2>2 DEF Stage
<1>5. Flows'
  BY DEF Flows
<1>6. Sums' /\ Bounded'
  <2>1. CASE UNCHANGED <<queue, pendingS, exhausted, wready>>
    BY <2>1 DEF ProtocolInv, Sums, Bounded
  <2>2. CASE queue' = <<>> /\ pendingS' = 0
    <3>1. Len(queue') = 0 /\ ~(pendingS' > High)
      BY <2>2, EmptySeq, MarksAssumption
    <3>2. Totals(queue', 0, 0)
      BY TotalsEmpty
    <3> QED BY <2>2, <3>1, <3>2 DEF Sums, Bounded
  <2> QED BY <2>1, <2>2
<1>7. InOrder'
  <2>1. IsPrefix(entered, submitted)
    <3>1. CASE conn = "open"
      <4>1. entered \o keptSends = submitted
        BY <3>1 DEF ProtocolInv, InOrder
      <4> QED BY <4>1, Types, PrefixConcat DEF ProtocolInv
    <3>2. CASE conn # "open"
      BY <3>2 DEF ProtocolInv, InOrder
    <3> QED BY <3>1, <3>2
  <2> QED BY <2>1 DEF InOrder
<1> QED BY <1>2, <1>3, <1>4, <1>5, <1>6, <1>7 DEF ProtocolInv

\* the connection is made
LEMMA MadeStep == ASSUME ProtocolInv, ConnectionMade PROVE ProtocolInv'
<1>1. /\ conn = "pending" /\ Unmade
      /\ UNCHANGED <<writing, keptSends, callbacks, calls, lost, finishing, queue,
                     pendingS, wready, exhausted, submitted, entered, called, kind>>
  BY DEF ConnectionMade, ProtocolInv, Stage, loop, history
<1>2. CASE phase = "pending"
  <2>1. phase' = "open" /\ conn' = "open" /\ stack' = <<"ready", "opened">>
    BY <1>2 DEF ConnectionMade
  <2> DEFINE s == <<"ready", "opened">>
  <2>2. /\ s \in Seq(Calls) /\ Len(s) = 2 /\ s[1] = "ready" /\ s[2] = "opened"
    BY DEF Calls
  <2> HIDE DEF s
  <2>3. stack' = s
    BY <2>1 DEF s
  <2>4. In("opened", s)
    <3>1. 2 \in 1 .. Len(s)
      BY <2>2
    <3> QED BY <2>2, <3>1 DEF In
  <2>5. Opens(stack)'
    <3>1. \A i \in 1 .. Len(s) : i = 1 \/ i = 2
      BY <2>2
    <3>2. "ready" # "opened"
      OBVIOUS
    <3>3. Opens(s)
      BY <2>2, <3>1, <3>2, Zenon DEF Opens
    <3> QED BY <2>3, <3>3 DEF Opens
  <2>6. ProtocolTypeOK'
    <3>1. /\ phase' \in {"pending", "open", "closing", "closed"}
          /\ conn' \in {"pending", "open", "closed"} /\ stack' \in Seq(Calls)
      BY <2>1, <2>2, <2>3
    <3> QED BY <1>1, <3>1, Types DEF ProtocolInv, ProtocolTypeOK, Calls
  <2>7. Stage'
    BY <1>1, <2>1 DEF ProtocolInv, Stage
  <2>8. Flows'
    <3>1. /\ writing' /\ ~exhausted' /\ pendingS' <= High
          /\ keptSends' # <<>> => kind' = "http"
      BY <1>1, <1>2, MarksAssumption DEF Unmade
    <3>2. In("opened", stack)'
      BY <2>3, <2>4 DEF In
    <3> QED BY <3>1, <3>2 DEF Flows
  <2>9. InOrder'
    <3>1. entered = <<>> /\ keptSends = submitted /\ keptSends \in Seq(Messages)
      BY <1>1, <1>2, Types DEF Unmade, ProtocolInv
    <3>2. <<>> \o keptSends = keptSends
      BY <3>1, ConcatEmptySeq
    <3> QED BY <1>1, <2>1, <3>1, <3>2 DEF InOrder
  <2>10. Sums' /\ Bounded'
    BY <1>1 DEF ProtocolInv, Sums, Bounded
  <2> QED BY <2>5, <2>6, <2>7, <2>8, <2>9, <2>10 DEF ProtocolInv
<1>3. CASE phase # "pending"
  <2>1. conn' = "closed" /\ UNCHANGED <<phase, stack>>
    BY <1>3 DEF ConnectionMade
  <2>2. keptSends' \in Seq(Messages) /\ lost' \in BOOLEAN /\ finishing' \in BOOLEAN
    BY <1>1, Types DEF ProtocolInv
  <2> QED BY <1>1, <1>3, <2>1, <2>2, Shut
<1> QED BY <1>2, <1>3
\* what is said of the calls when the connection is closed
LEMMA Tops ==
    ASSUME ProtocolInv, stack # <<>>
    PROVE  /\ conn # "pending"
           /\ Last(stack) \notin Messages => conn = "open"
           /\ Front(stack) \in Seq(Calls) /\ Opens(Front(stack))
           /\ conn = "closed" =>
                  \A i \in 1 .. Len(Front(stack)) : Front(stack)[i] \in Messages
<1>1. stack \in Seq(Calls) /\ Opens(stack) /\ Stage
      /\ conn \in {"pending", "open", "closed"}
  BY Types DEF ProtocolInv
<1>2. Last(stack) = stack[Len(stack)] /\ Len(stack) \in 1 .. Len(stack)
  BY <1>1, PoppedFacts
<1>3. conn # "pending"
  BY <1>1 DEF Stage, Unmade
<1>4. Last(stack) \notin Messages => conn = "open"
  BY <1>1, <1>2, <1>3 DEF Stage
<1>5. /\ Front(stack) \in Seq(Calls)
      /\ Opens(stack) => Opens(Front(stack))
      /\ \A P : (\A i \in 1 .. Len(stack) : stack[i] \in P)
                    => \A i \in 1 .. Len(Front(stack)) : Front(stack)[i] \in P
  BY <1>1, Pops
<1> QED BY <1>1, <1>3, <1>4, <1>5 DEF Stage

LEMMA SendEndStep == ASSUME ProtocolInv, SendEnd PROVE ProtocolInv'
<1>1. /\ stack # <<>> /\ Last(stack) \in Messages /\ stack' = Front(stack)
      /\ UNCHANGED <<phase, writing, keptSends, lost, finishing, conn, queue,
                     pendingS, wready, exhausted, submitted, entered, called, kind>>
      /\ calls' = IF Last(stack) \notin Silent /\ writing
                  THEN Append(calls, Last(stack)) ELSE calls
      /\ callbacks' = IF Last(stack) \in Silent \/ writing THEN callbacks
                      ELSE Append(callbacks, Last(stack))
  BY DEF SendEnd, connection, history, Top
<1>2. calls' \in Seq(Messages) /\ callbacks' \in Seq(Messages)
  <2>1. calls \in Seq(Messages) /\ callbacks \in Seq(Messages)
    BY Types DEF ProtocolInv
  <2>2. /\ Append(calls, Last(stack)) \in Seq(Messages)
        /\ Append(callbacks, Last(stack)) \in Seq(Messages)
    BY <1>1, <2>1, PushedFacts
  <2> QED BY <1>1, <2>1, <2>2
<1>3. /\ stack' \in Seq(Calls) /\ Opens(stack') /\ conn # "pending"
      /\ conn = "closed" => \A i \in 1 .. Len(stack') : stack'[i] \in Messages
  BY <1>1, Tops
<1>4. \A x : In(x, stack) => In(x, stack') \/ x = Last(stack)
  BY <1>1, Types, Pops DEF ProtocolInv
<1>5. Last(stack) # "flush" /\ Last(stack) # "opened"
  BY <1>1, CallNames
<1>6. conn = "open" /\ writing /\ keptSends # <<>> =>
          In("flush", stack') \/ (In("opened", stack') /\ kind = "http")
  BY <1>4, <1>5 DEF ProtocolInv, Flows
<1>7. called' \in Seq(Messages) /\ lost' \in BOOLEAN /\ (lost' => lost)
      /\ finishing' \in BOOLEAN /\ wready' \in BOOLEAN
  BY <1>1, Types DEF ProtocolInv
<1> QED BY <1>1, <1>2, <1>3, <1>6, <1>7, Moved

LEMMA SendStopsStep == ASSUME ProtocolInv, SendStops PROVE ProtocolInv'
<1>1. /\ stack # <<>> /\ Last(stack) = "send" /\ stack' = Front(stack)
      /\ wready' = (queue = <<>>)
      /\ UNCHANGED <<phase, writing, keptSends, callbacks, calls, lost, finishing,
                     conn, queue, pendingS, exhausted, submitted, entered, called,
                     kind>>
  BY DEF SendStops, protocol, loop, history, Runs, Top
<1>2. /\ stack' \in Seq(Calls) /\ Opens(stack') /\ conn # "pending"
      /\ conn = "closed" => \A i \in 1 .. Len(stack') : stack'[i] \in Messages
  BY <1>1, Tops
<1>3. \A x : In(x, stack) => In(x, stack') \/ x = Last(stack)
  BY <1>1, Types, Pops DEF ProtocolInv
<1>4. Last(stack) # "flush" /\ Last(stack) # "opened"
  BY <1>1, CallNames
<1>5. conn = "open" /\ writing /\ keptSends # <<>> =>
          In("flush", stack') \/ (In("opened", stack') /\ kind = "http")
  BY <1>3, <1>4 DEF ProtocolInv, Flows
<1>6. /\ called' \in Seq(Messages) /\ lost' \in BOOLEAN /\ (lost' => lost)
      /\ finishing' \in BOOLEAN /\ wready' \in BOOLEAN
      /\ calls' \in Seq(Messages) /\ callbacks' \in Seq(Messages)
  BY <1>1, Types DEF ProtocolInv
<1> QED BY <1>1, <1>2, <1>5, <1>6, Moved

LEMMA OpenedStep == ASSUME ProtocolInv, Opened PROVE ProtocolInv'
<1> DEFINE rest == Front(stack)
           next == Append(rest, "flush")
<1>1. /\ stack # <<>> /\ Last(stack) = "opened"
      /\ stack' = IF kind = "http" THEN next ELSE rest
      /\ UNCHANGED <<phase, writing, keptSends, callbacks, calls, lost, finishing,
                     conn, queue, pendingS, wready, exhausted, submitted, entered,
                     called, kind>>
  BY DEF Opened, protocol, loop, connection, history, Runs, Top
<1>2. rest \in Seq(Calls) /\ Opens(rest) /\ conn = "open"
  BY <1>1, Tops, CallNames
<1>3. \A x : In(x, stack) => In(x, rest) \/ x = Last(stack)
  BY <1>1, Types, Pops DEF ProtocolInv
<1> HIDE DEF rest
<1>4. /\ next \in Seq(Calls) /\ Opens(next)
      /\ \A x : In(x, next) <=> In(x, rest) \/ x = "flush"
  <2>1. "flush" \in Calls /\ "flush" # "opened"
    BY DEF Calls
  <2> QED BY <1>2, <2>1, Pushes
<1> HIDE DEF next
<1>5. conn = "open" /\ writing /\ keptSends # <<>> =>
          In("flush", stack') \/ (In("opened", stack') /\ kind = "http")
  <2>1. CASE kind = "http"
    BY <1>1, <1>4, <2>1
  <2>2. CASE kind # "http"
    <3>1. "flush" # "opened"
      OBVIOUS
    <3> QED BY <1>1, <1>3, <2>2, <3>1 DEF ProtocolInv, Flows
  <2> QED BY <2>1, <2>2
<1>6. stack' \in Seq(Calls) /\ Opens(stack')
  BY <1>1, <1>2, <1>4
<1>7. /\ called' \in Seq(Messages) /\ lost' \in BOOLEAN /\ (lost' => lost)
      /\ finishing' \in BOOLEAN /\ wready' \in BOOLEAN
      /\ calls' \in Seq(Messages) /\ callbacks' \in Seq(Messages)
  BY <1>1, Types DEF ProtocolInv
<1>8. conn # "pending" /\ conn # "closed"
  BY <1>2
<1> QED BY <1>1, <1>5, <1>6, <1>7, <1>8, Moved

LEMMA WriteEventStep == ASSUME ProtocolInv, WriteEvent PROVE ProtocolInv'
<1>1. /\ conn = "open" /\ wready' = TRUE
      /\ UNCHANGED <<phase, writing, keptSends, callbacks, calls, lost, finishing,
                     conn, queue, pendingS, exhausted, submitted, entered, called,
                     kind>>
  BY DEF WriteEvent, protocol, loop, history
<1>2. "send" \in Calls /\ "send" # "opened" /\ "send" # "flush"
      /\ "ready" # "opened" /\ "ready" # "flush"
  BY DEF Calls
<1>3. /\ stack' \in Seq(Calls) /\ Opens(stack')
      /\ \A x : In(x, stack) => In(x, stack') \/ x = "ready"
  <2>1. CASE stack = <<>> /\ stack' = <<"send">>
    <3> DEFINE s == <<"send">>
    <3>1. s \in Seq(Calls) /\ Len(s) = 1 /\ s[1] = "send"
      BY <1>2
    <3> HIDE DEF s
    <3>2. Opens(s)
      <4>1. \A i \in 1 .. Len(s) : i = 1
        BY <3>1
      <4> QED BY <1>2, <3>1, <4>1 DEF Opens
    <3>3. stack' = s
      BY <2>1 DEF s
    <3> QED BY <2>1, <3>1, <3>2, <3>3, EmptyHas
  <2>2. CASE /\ stack # <<>> /\ Last(stack) = "ready"
             /\ stack' = Append(Front(stack), "send")
    <3> DEFINE rest == Front(stack)
    <3>1. rest \in Seq(Calls) /\ Opens(rest)
      BY <2>2, Tops
    <3>2. \A x : In(x, stack) => In(x, rest) \/ x = Last(stack)
      BY <2>2, Types, Pops DEF ProtocolInv
    <3>3. stack' = Append(rest, "send")
      BY <2>2
    <3> HIDE DEF rest
    <3>4. /\ Append(rest, "send") \in Seq(Calls) /\ Opens(Append(rest, "send"))
          /\ \A x : In(x, Append(rest, "send")) <=> In(x, rest) \/ x = "send"
      BY <1>2, <3>1, Pushes
    <3> QED BY <2>2, <3>2, <3>3, <3>4
  <2> QED BY <2>1, <2>2 DEF WriteEvent, Idle, Runs, Top
<1>4. writing /\ keptSends # <<>> =>
          In("flush", stack') \/ (In("opened", stack') /\ kind = "http")
  BY <1>1, <1>2, <1>3 DEF ProtocolInv, Flows
<1>5. /\ called' \in Seq(Messages) /\ lost' \in BOOLEAN /\ (lost' => lost)
      /\ finishing' \in BOOLEAN /\ wready' \in BOOLEAN
      /\ calls' \in Seq(Messages) /\ callbacks' \in Seq(Messages)
  BY <1>1, Types DEF ProtocolInv
<1>6. conn # "pending" /\ conn # "closed"
  BY <1>1
<1> QED BY <1>1, <1>3, <1>4, <1>5, <1>6, Moved
LEMMA RemoveAtType ==
    ASSUME NEW S, NEW s \in Seq(S), NEW i \in 1 .. Len(s)
    PROVE  RemoveAt(s, i) \in Seq(S)
<1>1. Len(s) \in Nat /\ \A j \in 1 .. Len(s) : s[j] \in S
  BY LenProperties, ElementOfSeq
<1> DEFINE n == Len(s)
           before == i - 1
           after == i + 1
<1>2. /\ n \in Int /\ before \in Int /\ after \in Int /\ 1 \in Int
      /\ \A j \in 1 .. before : s[j] \in S
      /\ \A j \in after .. n : s[j] \in S
  BY <1>1
<1>3. RemoveAt(s, i) = SubSeq(s, 1, before) \o SubSeq(s, after, n)
  BY DEF RemoveAt
<1> HIDE DEF n, before, after
<1>4. SubSeq(s, 1, before) \in Seq(S) /\ SubSeq(s, after, n) \in Seq(S)
  BY <1>2, SubSeqProperties
<1> QED BY <1>3, <1>4, ConcatProperties

LEMMA CallStep ==
    ASSUME ProtocolInv, NEW i \in DOMAIN calls, Call(i)
    PROVE  ProtocolInv'
<1>1. /\ called' = Append(called, calls[i]) /\ calls' = RemoveAt(calls, i)
      /\ UNCHANGED <<phase, writing, keptSends, callbacks, lost, finishing, conn,
                     queue, pendingS, wready, exhausted, stack, submitted, entered,
                     kind>>
  BY DEF Call, protocol, connection
<1>2. /\ calls \in Seq(Messages) /\ called \in Seq(Messages) /\ i \in 1 .. Len(calls)
  BY Types, LenProperties DEF ProtocolInv
<1>3. calls[i] \in Messages
  BY <1>2, ElementOfSeq
<1>4. calls' \in Seq(Messages) /\ called' \in Seq(Messages)
  BY <1>1, <1>2, <1>3, RemoveAtType, PushedFacts
<1>5. /\ stack' \in Seq(Calls) /\ Opens(stack') /\ callbacks' \in Seq(Messages)
      /\ lost' \in BOOLEAN /\ (lost' => lost) /\ finishing' \in BOOLEAN
      /\ wready' \in BOOLEAN
  BY <1>1, Types DEF ProtocolInv
<1>6. conn = "closed" => \A j \in 1 .. Len(stack') : stack'[j] \in Messages
  BY <1>1 DEF ProtocolInv, Stage
<1>7. conn = "open" /\ writing /\ keptSends # <<>> =>
          In("flush", stack') \/ (In("opened", stack') /\ kind = "http")
  BY <1>1 DEF ProtocolInv, Flows
<1>8. conn = "pending" => stack' = stack
  BY <1>1
<1> QED BY <1>1, <1>4, <1>5, <1>6, <1>7, <1>8, Moved

LEMMA ClosingSteps ==
    ASSUME ProtocolInv,
           CloseProtocol \/ Disconnected \/ ConnectionLost \/ Finish
    PROVE  ProtocolInv'
<1>2. /\ keptSends \in Seq(Messages) /\ lost \in BOOLEAN /\ finishing \in BOOLEAN
      /\ Stage
      /\ conn \in {"pending", "open", "closed"}
  BY Types DEF ProtocolInv
<1>3. CASE CloseProtocol
  <2>1. /\ stack = <<>> /\ phase' = "closing" /\ finishing' = TRUE
        /\ UNCHANGED <<kind, callbacks, calls, stack, submitted, entered, called,
                       writing, keptSends>>
    BY <1>3 DEF CloseProtocol, history, Idle
  <2>2. CASE conn = "open"
    <3>1. /\ conn' = "closed" /\ queue' = <<>> /\ pendingS' = 0
          /\ wready' = FALSE /\ exhausted' = FALSE /\ lost' = TRUE
      BY <1>3, <2>2 DEF CloseProtocol
    <3> QED BY <1>2, <2>1, <3>1, Shut
  <2>3. CASE conn # "open"
    <3>1. UNCHANGED <<conn, queue, pendingS, wready, exhausted, lost>>
      BY <1>3, <2>3 DEF CloseProtocol
    <3>2. lost' => conn' = "closed"
      BY <1>2, <3>1 DEF Stage
    <3> QED BY <1>2, <2>1, <2>3, <3>1, <3>2, Shut
  <2> QED BY <2>2, <2>3
<1>4. CASE Disconnected
  <2>1. /\ stack = <<>> /\ conn = "open"
        /\ UNCHANGED <<kind, callbacks, calls, stack, submitted, entered, called,
                       writing, keptSends, phase, finishing>>
        /\ conn' = "closed" /\ queue' = <<>> /\ pendingS' = 0
        /\ wready' = FALSE /\ exhausted' = FALSE /\ lost' = TRUE
    BY <1>4 DEF Disconnected, history, Idle, protocol
  <2> QED BY <1>2, <2>1, Shut
<1>5. CASE ConnectionLost
  <2>1. /\ stack = <<>> /\ lost /\ lost' = FALSE
        /\ UNCHANGED <<kind, callbacks, calls, stack, submitted, entered, called,
                       writing, keptSends, conn, queue, pendingS, wready, exhausted>>
    BY <1>5 DEF ConnectionLost, history, Idle, connection
  <2>2. phase' \in {"closing", phase} /\ finishing' \in BOOLEAN
        /\ phase' \in {"closing", "closed", phase}
    BY <1>2, <1>5 DEF ConnectionLost
  <2>3. conn = "closed" /\ conn' = "closed"
    BY <1>2, <2>1 DEF Stage
  <2> QED BY <1>2, <2>1, <2>2, <2>3, Shut
<1>6. CASE Finish
  <2>1. /\ stack = <<>> /\ finishing' = FALSE
        /\ UNCHANGED <<kind, calls, stack, submitted, entered, called, lost, conn,
                       queue, pendingS, wready, exhausted>>
    BY <1>6 DEF Finish, history, Idle, connection
  <2>2. CASE phase # "closing"
    <3>1. UNCHANGED <<phase, writing, keptSends, callbacks>>
      BY <1>6, <2>2 DEF Finish, protocol
    <3>2. /\ stack' \in Seq(Calls) /\ Opens(stack') /\ callbacks' \in Seq(Messages)
          /\ lost' \in BOOLEAN /\ (lost' => lost) /\ finishing' \in BOOLEAN
          /\ wready' \in BOOLEAN /\ calls' \in Seq(Messages)
          /\ called' \in Seq(Messages)
      BY <2>1, <3>1, Types DEF ProtocolInv
    <3>3. conn = "closed" => \A j \in 1 .. Len(stack') : stack'[j] \in Messages
      BY <1>2, <2>1 DEF Stage
    <3>4. conn = "open" /\ writing /\ keptSends # <<>> =>
              In("flush", stack') \/ (In("opened", stack') /\ kind = "http")
      BY <2>1 DEF ProtocolInv, Flows
    <3>5. conn = "pending" => stack' = stack
      BY <2>1
    <3> QED BY <2>1, <3>1, <3>2, <3>3, <3>4, <3>5, Moved
  <2>3. CASE phase = "closing"
    <3>1. /\ phase' = "closed" /\ writing' = TRUE /\ keptSends' = <<>>
          /\ callbacks' = <<>>
      BY <1>6, <2>3 DEF Finish
    <3>2. conn # "open"
      BY <1>2, <2>3 DEF Stage
    <3>3. <<>> \in Seq(Messages)
      BY EmptySeq
    <3>4. ProtocolTypeOK'
      <4>1. phase' \in {"pending", "open", "closing", "closed"} /\ writing' \in BOOLEAN
            /\ keptSends' \in Seq(Messages) /\ callbacks' \in Seq(Messages)
        BY <3>1, <3>3
      <4> QED BY <2>1, <4>1, Types DEF ProtocolInv, ProtocolTypeOK, Calls
    <3>5. Opens(stack)' /\ Stage'
      BY <2>1, <3>1, <3>2 DEF ProtocolInv, Opens, Stage, Unmade
    <3>6. Flows'
      BY <2>1, <3>2 DEF Flows
    <3>7. Sums' /\ Bounded' /\ InOrder'
      BY <2>1, <3>2 DEF ProtocolInv, Sums, Bounded, InOrder
    <3> QED BY <3>4, <3>5, <3>6, <3>7 DEF ProtocolInv
  <2> QED BY <2>2, <2>3
<1> QED BY <1>3, <1>4, <1>5, <1>6
\* the parts that a write leaves to be shown
LEMMA Wrote ==
    ASSUME ProtocolInv, conn = "open", writing,
           NEW m \in Messages, TransportWrite(m, stack),
           UNCHANGED <<phase, lost, finishing, conn, wready, called, kind>>,
           keptSends' \in Seq(Messages), submitted' \in Seq(Messages),
           keptSends' # <<>> =>
               In("flush", stack) \/ (In("opened", stack) /\ kind = "http"),
           Append(entered, m) \o keptSends' = submitted'
    PROVE  ProtocolInv'
<1>1. /\ queue' \in Seq(Nat \ {0}) /\ pendingS' \in Nat /\ Sums'
      /\ pendingS' > High => \E x \in Messages : pendingS' <= High + Size[x]
      /\ entered' = Append(entered, m) /\ entered' \in Seq(Messages)
      /\ exhausted' \in BOOLEAN /\ writing' \in BOOLEAN
      /\ writing' <=> ~exhausted'
      /\ exhausted' => pendingS' > Low
      /\ ~exhausted' => pendingS' <= High
      /\ calls' \in Seq(Messages) /\ callbacks' \in Seq(Messages)
      /\ stack' \in Seq(Calls) /\ Opens(stack)'
      /\ \A x : In(x, stack) \/ x = m => In(x, stack')
  BY TransportFacts DEF ProtocolInv
<1>2. ProtocolTypeOK'
  BY <1>1, Types DEF ProtocolInv, ProtocolTypeOK, Calls
<1>3. Stage'
  BY DEF ProtocolInv, Stage
<1>4. Flows'
  <2>1. keptSends' # <<>> =>
            In("flush", stack)' \/ (In("opened", stack)' /\ kind' = "http")
    BY <1>1 DEF In
  <2> QED BY <1>1, <2>1 DEF Flows
<1>5. InOrder'
  BY <1>1 DEF InOrder
<1> QED BY <1>1, <1>2, <1>3, <1>4, <1>5 DEF ProtocolInv, Bounded

LEMMA SendStep ==
    ASSUME Raw, ProtocolInv, NEW m \in Messages, Send(m)
    PROVE  ProtocolInv'
<1>1. /\ keptSends \in Seq(Messages) /\ submitted \in Seq(Messages)
      /\ entered \in Seq(Messages) /\ stack \in Seq(Calls) /\ Opens(stack)
      /\ calls \in Seq(Messages) /\ callbacks \in Seq(Messages)
      /\ conn \in {"pending", "open", "closed"} /\ Stage /\ Flows /\ InOrder
      /\ kind \in Kinds /\ wready \in BOOLEAN
  BY Types DEF ProtocolInv
<1>2. /\ UNCHANGED <<phase, lost, finishing, conn, wready, called, kind>>
      /\ stack = <<>> \/ (stack # <<>> /\ Last(stack) = "opened")
      /\ kind \in Early \/ conn # "pending"
  BY DEF Send, Idle, Runs, Top
<1>3. CASE conn = "pending" \/ ~writing
  <2>1. /\ keptSends' = Append(keptSends, m)
        /\ UNCHANGED <<queue, pendingS, entered, exhausted, writing, calls,
                       callbacks, stack>>
    BY <1>3 DEF Send
  <2>2. submitted' = Append(submitted, m)
    <3>1. ~(Runs("opened") /\ writing)
      BY <1>1, <1>3 DEF Runs, Stage, Unmade
    <3> QED BY <3>1 DEF Send
  <2>3. keptSends' \in Seq(Messages) /\ submitted' \in Seq(Messages)
    BY <1>1, <2>1, <2>2, PushedFacts
  <2>4. ProtocolTypeOK'
    BY <1>2, <2>1, <2>3, Types DEF ProtocolInv, ProtocolTypeOK, Calls
  <2>5. Opens(stack)' /\ Sums' /\ Bounded'
    BY <2>1 DEF ProtocolInv, Opens, Sums, Bounded
  <2>6. Stage'
    <3>1. conn = "pending" => kind = "http"
      BY <1>1, <1>2, KindsAssumption DEF Raw
    <3>2. conn' = "pending" => Unmade'
      BY <1>1, <1>2, <2>1, <2>2, <3>1 DEF Stage, Unmade
    <3> QED BY <1>1, <1>2, <2>1, <3>2 DEF Stage
  <2>7. Flows'
    <3>1. conn = "open" => ~writing
      BY <1>3
    <3> QED BY <1>1, <1>2, <2>1, <3>1 DEF Flows
  <2>8. InOrder'
    <3>1. CASE conn = "open"
      <4>1. entered \o Append(keptSends, m) = Append(entered \o keptSends, m)
        BY <1>1, AppendConcat
      <4>2. entered \o keptSends = submitted
        BY <1>1, <3>1 DEF InOrder
      <4> QED BY <1>2, <2>1, <2>2, <3>1, <4>1, <4>2 DEF InOrder
    <3>2. CASE conn # "open"
      <4>1. IsPrefix(entered, submitted)
        BY <1>1, <3>2 DEF InOrder
      <4>2. IsPrefix(entered, Append(submitted, m))
        BY <1>1, <4>1, PrefixAppend
      <4> QED BY <1>2, <2>1, <2>2, <3>2, <4>2 DEF InOrder
    <3> QED BY <3>1, <3>2
  <2> QED BY <2>4, <2>5, <2>6, <2>7, <2>8 DEF ProtocolInv
<1>4. CASE conn = "open" /\ writing
  <2>1. TransportWrite(m, stack) /\ keptSends' = keptSends
    BY <1>4 DEF Send
  <2>2. keptSends # <<>> =>
            In("flush", stack) \/ (In("opened", stack) /\ kind = "http")
    BY <1>1, <1>4 DEF Flows
  <2>3. /\ submitted' \in Seq(Messages)
        /\ Append(entered, m) \o keptSends = submitted'
    <3> DEFINE more == Append(entered, m)
    <3>0. more = entered \o <<m>> /\ more \in Seq(Messages)
      BY <1>1, AppendIsConcat, PushedFacts
    <3>1. CASE stack = <<>>
      <4>1. keptSends = <<>>
        BY <2>2, <3>1, EmptyHas
      <4>2. submitted' = Append(submitted, m)
        BY <3>1 DEF Send, Runs
      <4>3. entered \o <<>> = entered /\ more \o <<>> = more
        BY <1>1, <3>0, ConcatEmptySeq
      <4>4. entered \o keptSends = submitted
        BY <1>1, <1>4 DEF InOrder
      <4>5. submitted' = more
        BY <4>1, <4>2, <4>3, <4>4
      <4> QED BY <3>0, <4>1, <4>3, <4>5
    <3>2. CASE stack # <<>> /\ Last(stack) = "opened"
      <4>1. submitted' = entered \o <<m>> \o keptSends
        BY <1>4, <3>2 DEF Send, Runs, Top
      <4>2. submitted' = more \o keptSends
        BY <3>0, <4>1
      <4> HIDE DEF more
      <4>3. more \o keptSends \in Seq(Messages)
        BY <1>1, <3>0, ConcatProperties
      <4> QED BY <4>2, <4>3 DEF more
    <3> QED BY <1>2, <3>1, <3>2
  <2>4. keptSends' \in Seq(Messages)
    BY <1>1, <2>1
  <2>5. /\ Append(entered, m) \o keptSends' = submitted'
        /\ keptSends' # <<>> =>
               In("flush", stack) \/ (In("opened", stack) /\ kind = "http")
    BY <2>1, <2>2, <2>3
  <2> QED BY <1>2, <1>4, <2>1, <2>3, <2>4, <2>5, Wrote
<1>5. CASE conn = "closed" /\ writing
  <2>1. /\ stack' = Append(stack, m) /\ keptSends' = keptSends
        /\ UNCHANGED <<queue, pendingS, entered, exhausted, writing, calls,
                       callbacks>>
    BY <1>5 DEF Send, TransportWrite
  <2>2. stack = <<>>
    <3>1. stack # <<>> => Last(stack) \in Messages
      BY <1>5, Tops
    <3> QED BY <1>2, <3>1, CallNames
  <2>3. submitted' = Append(submitted, m) /\ submitted' \in Seq(Messages)
    <3>1. submitted' = Append(submitted, m)
      BY <2>2 DEF Send, Runs
    <3> QED BY <1>1, <3>1, PushedFacts
  <2>4. m \in Calls /\ m # "opened"
    BY CallNames DEF Calls
  <2>5. stack' \in Seq(Calls) /\ Opens(stack')
    BY <1>1, <2>1, <2>4, Pushes
  <2>6. \A i \in 1 .. Len(stack') : stack'[i] \in Messages
    <3>1. Len(stack) = 0 /\ Len(stack') = Len(stack) + 1 /\ stack'[Len(stack) + 1] = m
      BY <1>1, <2>1, <2>2, <2>4, EmptySeq, PushedFacts
    <3>2. \A i \in 1 .. Len(stack') : i = Len(stack) + 1
      BY <3>1
    <3> QED BY <3>1, <3>2
  <2>7. ProtocolTypeOK'
    BY <1>2, <2>1, <2>3, <2>5, Types DEF ProtocolInv, ProtocolTypeOK, Calls
  <2>8. Opens(stack)' /\ Sums' /\ Bounded' /\ Flows'
    BY <1>2, <1>5, <2>1, <2>5 DEF ProtocolInv, Opens, Sums, Bounded, Flows
  <2>9. Stage'
    BY <1>1, <1>2, <1>5, <2>6 DEF Stage
  <2>10. InOrder'
    <3>1. IsPrefix(entered, submitted)
      BY <1>1, <1>5 DEF InOrder
    <3>2. IsPrefix(entered, Append(submitted, m))
      BY <1>1, <3>1, PrefixAppend
    <3> QED BY <1>2, <1>5, <2>1, <2>3, <3>2 DEF InOrder
  <2> QED BY <2>7, <2>8, <2>9, <2>10 DEF ProtocolInv
<1> QED BY <1>1, <1>3, <1>4, <1>5
LEMMA FlushStep == ASSUME ProtocolInv, Flush PROVE ProtocolInv'
<1>1. /\ keptSends \in Seq(Messages) /\ submitted \in Seq(Messages)
      /\ entered \in Seq(Messages) /\ stack \in Seq(Calls) /\ Opens(stack)
      /\ Stage /\ Flows /\ InOrder
  BY Types DEF ProtocolInv
<1>2. /\ UNCHANGED <<phase, lost, finishing, conn, wready, submitted, called, kind>>
      /\ stack # <<>> /\ Last(stack) = "flush"
  BY DEF Flush, Runs, Top
<1>3. conn = "open"
  BY <1>2, Tops, CallNames
<1>4. CASE keptSends # <<>> /\ writing
  <2> DEFINE m == Head(keptSends)
             rest == Tail(keptSends)
             more == Append(entered, m)
  <2>1. m \in Messages /\ rest \in Seq(Messages) /\ <<m>> \o rest = keptSends
    BY <1>1, <1>4, TailFacts
  <2>2. keptSends' = rest /\ TransportWrite(m, stack)
    BY <1>4 DEF Flush
  <2>3. In("flush", stack)
    BY <1>1, <1>2, Pops
  <2>4. more \o rest = submitted
    <3>1. more = entered \o <<m>> /\ <<m>> \in Seq(Messages)
      BY <1>1, <2>1, AppendIsConcat
    <3>2. (entered \o <<m>>) \o rest = entered \o (<<m>> \o rest)
      BY <1>1, <2>1, <3>1, ConcatAssociative
    <3>3. entered \o keptSends = submitted
      BY <1>1, <1>3 DEF InOrder
    <3> QED BY <2>1, <3>1, <3>2, <3>3
  <2> HIDE DEF m, rest
  <2> QED BY <1>1, <1>2, <1>3, <1>4, <2>1, <2>2, <2>3, <2>4, Wrote
<1>5. CASE ~(keptSends # <<>> /\ writing)
  <2>1. /\ stack' = Front(stack)
        /\ UNCHANGED <<keptSends, queue, pendingS, entered, exhausted, writing,
                       calls, callbacks>>
    BY <1>5 DEF Flush
  <2>2. /\ stack' \in Seq(Calls) /\ Opens(stack')
    BY <1>2, <2>1, Tops
  <2>3. /\ called' \in Seq(Messages) /\ lost' \in BOOLEAN /\ (lost' => lost)
        /\ finishing' \in BOOLEAN /\ wready' \in BOOLEAN
        /\ calls' \in Seq(Messages) /\ callbacks' \in Seq(Messages)
    BY <1>2, <2>1, Types DEF ProtocolInv
  <2>4. /\ conn # "pending" /\ conn # "closed"
        /\ ~(conn = "open" /\ writing /\ keptSends # <<>>)
    BY <1>3, <1>5
  <2> QED BY <1>2, <2>1, <2>2, <2>3, <2>4, Moved
<1> QED BY <1>4, <1>5

LEMMA TakeStep ==
    ASSUME ProtocolInv, NEW k \in Nat \ {0}, Take(k)
    PROVE  ProtocolInv' /\ pendingS' <= pendingS
<1>1. /\ exhausted \in BOOLEAN /\ writing \in BOOLEAN
      /\ callbacks \in Seq(Messages) /\ calls \in Seq(Messages)
      /\ queue \in Seq(Nat \ {0}) /\ pendingS \in Nat /\ stack \in Seq(Calls)
      /\ Opens(stack) /\ Flows /\ Sums /\ Stage /\ Bounded /\ InOrder
  BY Types DEF ProtocolInv
<1>2. /\ UNCHANGED <<phase, keptSends, lost, finishing, conn, wready, submitted,
                     entered, called, kind>>
      /\ stack # <<>> /\ Last(stack) = "send" /\ queue # <<>> /\ k <= Head(queue)
      /\ pendingS' = pendingS - k /\ HandleFlow(pendingS - k, stack)
  BY DEF Take, Runs, Top, history
<1>3. conn = "open"
  BY <1>2, Tops, CallNames
<1> DEFINE h == Head(queue)
           rest == Tail(queue)
           n == Len(queue)
<1>4. /\ h \in Nat \ {0} /\ h = queue[1] /\ rest \in Seq(Nat \ {0})
      /\ Len(rest) = n - 1 /\ n \in Nat \ {0}
      /\ \A i \in 1 .. n - 1 : rest[i] = queue[i + 1]
  BY <1>1, <1>2, TailFacts
<1>5. Totals(queue, n, pendingS)
  BY <1>1 DEF Sums
<1>6. k <= h
  BY <1>2
<1>7. queue' = IF k = h THEN rest ELSE <<h - k>> \o rest
  BY DEF Take
<1> HIDE DEF h, rest, n
<1>8. /\ queue' \in Seq(Nat \ {0}) /\ k <= pendingS
      /\ Totals(queue', Len(queue'), pendingS - k)
  <2>1. CASE k = h
    <3>1. queue[1] <= pendingS /\ Totals(rest, n - 1, pendingS - queue[1])
      BY <1>4, <1>5, TotalsTail
    <3> QED BY <1>4, <1>7, <2>1, <3>1
  <2>2. CASE k # h
    <3> DEFINE one == <<h - k>>
               q == one \o rest
    <3>1. h - k \in Nat \ {0}
      BY <1>4, <1>6, <2>2
    <3>2. one \in Seq(Nat \ {0}) /\ Len(one) = 1 /\ one[1] = h - k
      BY <3>1
    <3>3. queue' = q
      BY <1>7, <2>2
    <3> HIDE DEF one
    <3>4. /\ q \in Seq(Nat \ {0}) /\ Len(q) = Len(one) + Len(rest)
          /\ \A i \in 1 .. Len(one) + Len(rest) :
                 q[i] = IF i <= Len(one) THEN one[i] ELSE rest[i - Len(one)]
      BY <1>4, <3>2, ConcatProperties
    <3> HIDE DEF q
    <3>5. Len(q) = n /\ q[1] = h - k /\ \A i \in 2 .. n : q[i] = queue[i]
      <4>1. Len(q) = n /\ q[1] = h - k
        BY <1>4, <3>2, <3>4
      <4>2. ASSUME NEW i \in 2 .. n
            PROVE  q[i] = queue[i]
        <5>1. i \in 1 .. Len(one) + Len(rest) /\ ~(i <= Len(one))
              /\ i - 1 \in 1 .. n - 1 /\ (i - 1) + 1 = i
          BY <1>4, <3>2
        <5>2. q[i] = rest[i - 1]
          BY <3>2, <3>4, <5>1
        <5>3. rest[i - 1] = queue[(i - 1) + 1]
          BY <1>4, <5>1
        <5> QED BY <5>1, <5>2, <5>3
      <4> QED BY <4>1, <4>2
    <3>6. q[1] \in Nat /\ queue[1] = q[1] + k
      BY <1>4, <3>1, <3>5
    <3>7. k <= pendingS /\ Totals(q, n, pendingS - k)
      BY <1>4, <1>5, <3>5, <3>6, TotalsTake
    <3> QED BY <3>3, <3>4, <3>5, <3>7
  <2> QED BY <2>1, <2>2
<1> DEFINE p == pendingS - k
<1>9. p \in Nat /\ p <= pendingS
  BY <1>1, <1>8
<1>10. pendingS' = p /\ HandleFlow(p, stack)
  BY <1>2
<1>11. Sums'
  BY <1>8, <1>10 DEF Sums
<1> HIDE DEF p
<1>12. writing <=> ~exhausted
  BY <1>1, <1>3 DEF Flows
<1>13. /\ exhausted' \in BOOLEAN /\ writing' \in BOOLEAN
       /\ writing' <=> ~exhausted'
       /\ exhausted' => p > Low
       /\ ~exhausted' => p <= High
       /\ calls' \in Seq(Messages) /\ callbacks' \in Seq(Messages)
       /\ stack' = stack \/ stack' = Append(stack, "flush")
       /\ writing' /\ ~writing => stack' = Append(stack, "flush")
  BY <1>1, <1>9, <1>10, <1>12, FlowFacts
<1>14. /\ Append(stack, "flush") \in Seq(Calls) /\ Opens(Append(stack, "flush"))
       /\ \A x : In(x, Append(stack, "flush")) <=> In(x, stack) \/ x = "flush"
  <2>1. "flush" \in Calls /\ "flush" # "opened"
    BY DEF Calls
  <2> QED BY <1>1, <2>1, Pushes
<1>15. stack' \in Seq(Calls) /\ Opens(stack)'
  BY <1>1, <1>13, <1>14 DEF Opens
<1>16. pendingS' \in Nat /\ pendingS' <= pendingS
  BY <1>9, <1>10
<1>17. ProtocolTypeOK'
  BY <1>2, <1>8, <1>13, <1>15, <1>16, Types DEF ProtocolInv, ProtocolTypeOK, Calls
<1>18. Stage'
  BY <1>1, <1>2, <1>3 DEF Stage
<1>19. Flows'
  <2>1. writing' /\ keptSends' # <<>> =>
            In("flush", stack') \/ (In("opened", stack') /\ kind = "http")
    <3>1. CASE stack' = stack
      <4>1. writing' => writing
        BY <1>13, <1>14, <3>1
      <4> QED BY <1>1, <1>2, <1>3, <3>1, <4>1 DEF Flows
    <3>2. CASE stack' = Append(stack, "flush")
      BY <1>14, <3>2
    <3> QED BY <1>13, <3>1, <3>2
  <2>2. writing' /\ keptSends' # <<>> =>
            (In("flush", stack) \/ (In("opened", stack) /\ kind = "http"))'
    BY <1>2, <2>1 DEF In
  <2> QED BY <1>10, <1>13, <2>2 DEF Flows
<1>20. InOrder'
  BY <1>1, <1>2 DEF InOrder
<1>21. Bounded'
  <2>1. ASSUME pendingS' > High
        PROVE  \E m \in Messages : pendingS' <= High + Size[m]
    <3>1. pendingS > High
      BY <1>1, <1>16, <2>1, MarksAssumption
    <3>2. PICK m \in Messages : pendingS <= High + Size[m]
      BY <1>1, <3>1 DEF Bounded
    <3>3. High \in Nat /\ Size[m] \in Nat
      BY MarksAssumption, SizeAssumption
    <3>4. pendingS' <= High + Size[m]
      BY <1>1, <1>16, <3>2, <3>3
    <3> QED BY <3>4
  <2> QED BY <2>1 DEF Bounded
<1> QED BY <1>11, <1>15, <1>16, <1>17, <1>18, <1>19, <1>20, <1>21 DEF ProtocolInv

LEMMA ProtocolInvInit == ProtocolInit => ProtocolInv
<1> SUFFICES ASSUME ProtocolInit
             PROVE  ProtocolInv
  OBVIOUS
<1>1. /\ phase = "pending" /\ writing = TRUE /\ keptSends = <<>> /\ callbacks = <<>>
      /\ calls = <<>> /\ lost = FALSE /\ finishing = FALSE /\ conn = "pending"
      /\ exhausted = FALSE /\ queue = <<>> /\ pendingS = 0 /\ wready = FALSE
      /\ stack = <<>> /\ submitted = <<>> /\ entered = <<>> /\ called = <<>>
      /\ kind \in Kinds
  BY DEF ProtocolInit
<1>2. <<>> \in Seq(Messages) /\ <<>> \in Seq(Calls) /\ <<>> \in Seq(Nat \ {0})
      /\ Len(<<>>) = 0
  BY EmptySeq
<1>3. ProtocolTypeOK
  BY <1>1, <1>2, Types
<1>4. Opens(stack)
  BY <1>1, <1>2 DEF Opens
<1>5. Stage
  BY <1>1 DEF Stage, Unmade
<1>6. Flows
  BY <1>1 DEF Flows
<1>7. Totals(queue, 0, 0)
  BY TotalsEmpty
<1>8. Sums
  BY <1>1, <1>2, <1>7 DEF Sums
<1>9. Bounded
  BY <1>1, MarksAssumption DEF Bounded
<1>10. InOrder
  BY <1>1, <1>2, PrefixEmpty DEF InOrder
<1> QED BY <1>3, <1>4, <1>5, <1>6, <1>8, <1>9, <1>10 DEF ProtocolInv

LEMMA TakeSomeStep == ASSUME ProtocolInv, TakeSome PROVE ProtocolInv'
<1>1. PICK s \in Sizes : \E k \in 1 .. s : Take(k)
  BY DEF TakeSome
<1>2. PICK k \in 1 .. s : Take(k)
  BY <1>1
<1>3. s \in Nat
  BY SizeAssumption DEF Sizes
<1>4. k \in Nat \ {0}
  BY <1>3
<1> QED BY <1>2, <1>4, TakeStep

LEMMA ProtocolStep ==
    ASSUME Raw, ProtocolInv, [ProtocolNext]_protocolVars
    PROVE  ProtocolInv'
<1>1. CASE ProtocolNext
  <2>1. CASE \E m \in Messages : Send(m)
    BY <2>1, SendStep
  <2>2. CASE \E i \in DOMAIN calls : Call(i)
    BY <2>2, CallStep
  <2> QED BY <1>1, <2>1, <2>2, SendEndStep, FlushStep, MadeStep, OpenedStep,
             ClosingSteps, WriteEventStep, TakeSomeStep, SendStopsStep
          DEF ProtocolNext
<1>2. CASE UNCHANGED protocolVars
  <2>1. UNCHANGED <<kind, phase, writing, keptSends, callbacks, calls, lost,
                    finishing, conn, queue, pendingS, wready, exhausted, stack,
                    submitted, entered, called>>
    BY <1>2 DEF protocolVars, protocol, loop, connection, history
  <2>2. /\ stack' \in Seq(Calls) /\ Opens(stack') /\ callbacks' \in Seq(Messages)
        /\ lost' \in BOOLEAN /\ (lost' => lost) /\ finishing' \in BOOLEAN
        /\ wready' \in BOOLEAN /\ calls' \in Seq(Messages)
        /\ called' \in Seq(Messages)
    BY <2>1, Types DEF ProtocolInv
  <2>3. conn = "closed" => \A j \in 1 .. Len(stack') : stack'[j] \in Messages
    BY <2>1 DEF ProtocolInv, Stage
  <2>4. conn = "open" /\ writing /\ keptSends # <<>> =>
            In("flush", stack') \/ (In("opened", stack') /\ kind = "http")
    BY <2>1 DEF ProtocolInv, Flows
  <2>5. conn = "pending" => stack' = stack
    BY <2>1
  <2> QED BY <2>1, <2>2, <2>3, <2>4, <2>5, Moved
<1> QED BY <1>1, <1>2

LEMMA ProtocolInvSafe == ASSUME ProtocolInv PROVE ProtocolSafety
<1>1. ASSUME Idle, conn = "open"
      PROVE  /\ writing = ~exhausted /\ (exhausted => pendingS > Low)
             /\ writing => keptSends = <<>>
  <2>1. ~In("flush", stack) /\ ~In("opened", stack)
    BY <1>1, EmptyHas DEF Idle
  <2>2. writing <=> ~exhausted
    BY <1>1 DEF ProtocolInv, Flows
  <2>3. writing \in BOOLEAN /\ exhausted \in BOOLEAN
    BY Types DEF ProtocolInv
  <2>4. writing = ~exhausted
    BY <2>2, <2>3, Zenon
  <2> QED BY <1>1, <2>1, <2>4 DEF ProtocolInv, Flows
<1>2. ResumeToCome
  BY <1>1 DEF ResumeToCome
<1> QED BY <1>2 DEF ProtocolInv, ProtocolSafety

-----------------------------------------------------------------------------
(* What is sent through a protocol enters its connection once, in the order *)
(* it was sent, over pauses, resumes and writes inside writes; a protocol   *)
(* that is paused when nothing runs has more than the low mark in its       *)
(* connection, so that the drain of it resumes it, and one that is not      *)
(* keeps nothing; and the connection never holds more than the high mark    *)
(* and one message (send(), _flush_send(), _handle_flow()).  A              *)
(* StreamProtocol that is given data before its connection is made does not *)
(* send it then: that is the hypothesis, and the run that is without it.    *)
THEOREM ProtocolSafe ==
    ASSUME "raw" \notin Early
    PROVE  ProtocolSpec => []ProtocolSafety
<1> DEFINE Invariant == ProtocolInv
<1>1. Raw
  BY DEF Raw
<1>2. ProtocolInit => Invariant
  BY ProtocolInvInit
<1>3. Invariant /\ [ProtocolNext]_protocolVars => Invariant'
  BY <1>1, ProtocolStep
<1>4. Invariant => ProtocolSafety
  BY ProtocolInvSafe
<1> HIDE DEF Invariant
<1> QED BY <1>2, <1>3, <1>4, PTL DEF ProtocolSpec
-----------------------------------------------------------------------------
(* The tunnel.                                                              *)

Data == [left : Nat, calls : BOOLEAN]

Lefts(q) == [i \in 1 .. Len(q) |-> q[i].left]

DownTypes ==
    /\ renable \in BOOLEAN /\ backRenable \in BOOLEAN /\ frontReady \in BOOLEAN
    /\ front \in Seq(Data) /\ frontS \in Nat
    /\ Totals(Lefts(front), Len(front), frontS)

\* nothing goes down before the opening, what the opening sends is the first
\* of all, and an end that is read has room for one more
Down ==
    /\ conn = "pending" \/ In("opened", stack) =>
           front = <<>> /\ backRenable /\ renable
    /\ \A i \in 2 .. Len(front) : front[i].calls
    /\ backRenable => frontS <= High + Chunk
    /\ DownBounded /\ DownToCome

\* a client that is not read has something with a callback on its way
Up ==
    conn = "open" /\ ~renable =>
        /\ keptSends # <<>> => Last(keptSends) \notin Silent
        /\ exhausted => \E m \in Messages \ Silent :
               In(m, keptSends) \/ In(m, callbacks) \/ In(m, stack)

TunnelInv == ProtocolInv /\ DownTypes /\ Down /\ Up

\* what every step of the protocol leaves true of the opening
Stays ==
    /\ In("opened", stack') => In("opened", stack) \/ conn = "pending"
    /\ conn' = "pending" => conn = "pending"
    /\ conn' = "open" => conn = "open" \/ conn = "pending"

LEMMA SendStays ==
    ASSUME ProtocolInv, NEW m \in Messages, Send(m)
    PROVE  Stays
<1>1. conn' = conn
  BY DEF Send
<1>2. stack \in Seq(Calls) /\ conn \in {"pending", "open", "closed"} /\ Opens(stack)
      /\ Flows /\ Sums /\ ProtocolTypeOK
  BY Types DEF ProtocolInv
<1>3. CASE conn = "pending" \/ ~writing
  BY <1>1, <1>3 DEF Send, Stays
<1>4. CASE conn = "open" /\ writing
  <2>1. TransportWrite(m, stack)
    BY <1>4 DEF Send
  <2>2. In("opened", stack') => In("opened", stack)
    BY <1>2, <1>4, <2>1, TransportFacts
  <2> QED BY <1>1, <2>2 DEF Stays
<1>5. CASE conn = "closed" /\ writing
  <2>1. stack' = Append(stack, m)
    BY <1>5 DEF Send, TransportWrite
  <2>2. m \in Calls /\ m # "opened"
    BY CallNames DEF Calls
  <2>3. In("opened", stack') => In("opened", stack)
    BY <1>2, <2>1, <2>2, Pushes
  <2> QED BY <1>1, <2>3 DEF Stays
<1> QED BY <1>2, <1>3, <1>4, <1>5

LEMMA PopStays ==
    ASSUME ProtocolInv, stack # <<>>, stack' = Front(stack), conn' = conn
    PROVE  Stays
<1>1. \A y : In(y, Front(stack)) => In(y, stack)
  BY Types, Pops DEF ProtocolInv
<1> QED BY <1>1 DEF Stays

LEMMA FlushStays == ASSUME ProtocolInv, Flush PROVE Stays
<1>1. conn' = conn /\ stack # <<>> /\ Last(stack) = "flush"
  BY DEF Flush, Runs, Top
<1>2. conn = "open"
  BY <1>1, Tops, CallNames
<1>3. CASE keptSends # <<>> /\ writing
  <2>1. TransportWrite(Head(keptSends), stack) /\ Head(keptSends) \in Messages
    BY <1>3, Types, TailFacts DEF Flush, ProtocolInv
  <2>2. In("opened", stack') => In("opened", stack)
    BY <1>2, <1>3, <2>1, TransportFacts DEF ProtocolInv
  <2> QED BY <1>1, <2>2 DEF Stays
<1>4. CASE ~(keptSends # <<>> /\ writing)
  BY <1>1, <1>4, PopStays DEF Flush
<1> QED BY <1>3, <1>4

LEMMA TakeStays ==
    ASSUME ProtocolInv, NEW k \in Nat \ {0}, Take(k)
    PROVE  Stays /\ conn = "open" /\ conn' = conn
<1>1. conn' = conn /\ stack # <<>> /\ Last(stack) = "send"
      /\ HandleFlow(pendingS - k, stack)
  BY DEF Take, Runs, Top
<1>2. conn = "open"
  BY <1>1, Tops, CallNames
<1>3. stack' = stack \/ stack' = Append(stack, "flush")
  BY <1>1 DEF HandleFlow
<1>4. "flush" \in Calls /\ "flush" # "opened"
  BY DEF Calls
<1>5. In("opened", Append(stack, "flush")) => In("opened", stack)
  BY <1>4, Types, Pushes DEF ProtocolInv
<1> QED BY <1>1, <1>2, <1>3, <1>5 DEF Stays

LEMMA WriteEventStays == ASSUME ProtocolInv, WriteEvent PROVE Stays
<1>1. conn' = conn
  BY DEF WriteEvent
<1>2. "send" \in Calls /\ "send" # "opened"
  BY DEF Calls
<1>3. CASE stack = <<>> /\ stack' = <<"send">>
  <2> DEFINE s == <<"send">>
  <2>1. Len(s) = 1 /\ s[1] = "send"
    OBVIOUS
  <2>2. stack' = s
    BY <1>3
  <2> HIDE DEF s
  <2>3. \A i \in 1 .. Len(s) : i = 1
    BY <2>1
  <2>4. ~In("opened", s)
    BY <1>2, <2>1, <2>3 DEF In
  <2> QED BY <1>1, <2>2, <2>4 DEF Stays
<1>4. CASE /\ stack # <<>> /\ Last(stack) = "ready"
           /\ stack' = Append(Front(stack), "send")
  <2>1. Front(stack) \in Seq(Calls) /\ \A y : In(y, Front(stack)) => In(y, stack)
    BY <1>4, Types, Pops DEF ProtocolInv
  <2>2. In("opened", Append(Front(stack), "send")) => In("opened", Front(stack))
    BY <1>2, <2>1, Pushes
  <2> QED BY <1>1, <1>4, <2>1, <2>2 DEF Stays
<1> QED BY <1>3, <1>4 DEF WriteEvent, Idle, Runs, Top

LEMMA OtherStays ==
    ASSUME ProtocolInv,
           \/ SendEnd \/ SendStops \/ ConnectionMade \/ Opened
           \/ CloseProtocol \/ Disconnected \/ ConnectionLost \/ Finish
           \/ \E i \in DOMAIN calls : Call(i)
    PROVE  Stays
<1>1. CASE SendEnd \/ SendStops
  <2>1. stack # <<>> /\ stack' = Front(stack) /\ conn' = conn
    BY <1>1 DEF SendEnd, SendStops, connection, Runs
  <2> QED BY <2>1, PopStays
<1>2. CASE ConnectionMade
  <2>1. conn = "pending" /\ conn' # "pending"
    BY <1>2 DEF ConnectionMade
  <2> QED BY <2>1 DEF Stays
<1>3. CASE Opened
  <2>1. stack # <<>> /\ Last(stack) = "opened" /\ conn' = conn
    BY <1>3 DEF Opened, connection, Runs, Top
  <2>2. In("opened", stack)
    BY <2>1, Types, Pops DEF ProtocolInv
  <2> QED BY <2>1, <2>2 DEF Stays
<1>4. CASE \/ CloseProtocol \/ Disconnected \/ ConnectionLost \/ Finish
           \/ \E i \in DOMAIN calls : Call(i)
  <2>1. stack' = stack /\ conn' \in {conn, "closed"}
    BY <1>4 DEF CloseProtocol, Disconnected, ConnectionLost, Finish, Call, connection
  <2> QED BY <2>1 DEF Stays
<1> QED BY <1>1, <1>2, <1>3, <1>4
\* a step that gives the client nothing and takes nothing from it
LEMMA DownKept ==
    ASSUME ProtocolInv, DownTypes, Down, Stays,
           UNCHANGED <<backRenable, front, frontS>>,
           renable' \in BOOLEAN, frontReady' \in BOOLEAN,
           conn = "pending" \/ In("opened", stack) => renable'
    PROVE  DownTypes' /\ Down'
<1>1. DownTypes'
  BY DEF DownTypes
<1>2. (conn = "pending" \/ In("opened", stack) =>
           front = <<>> /\ backRenable /\ renable)'
  <2>1. conn' = "pending" \/ In("opened", stack') =>
            conn = "pending" \/ In("opened", stack)
    BY DEF Stays
  <2>2. In("opened", stack)' => In("opened", stack')
    BY DEF In
  <2> QED BY <2>1, <2>2 DEF Down
<1>3. DownToCome'
  <2>1. conn' = "open" => backRenable \/ (conn = "open" /\ phase = "open")
    BY DEF Stays, ProtocolInv, Stage, Down
  <2> QED BY <2>1 DEF Down, DownToCome
<1> QED BY <1>1, <1>2, <1>3 DEF Down, DownBounded

LEMMA Still ==
    ASSUME UNCHANGED protocolVars
    PROVE  /\ Stays
           /\ UNCHANGED <<kind, phase, writing, keptSends, callbacks, calls, lost,
                          finishing, conn, queue, pendingS, wready, exhausted,
                          stack, submitted, entered, called>>
BY DEF protocolVars, protocol, loop, connection, history, Stays

\* what is given to the client
LEMMA Given ==
    ASSUME ProtocolInv, DownTypes, NEW n \in Nat, NEW b \in BOOLEAN,
           front' = Append(front, [left |-> n, calls |-> b]),
           frontS' = frontS + n
    PROVE  /\ front' \in Seq(Data) /\ frontS' \in Nat
           /\ Len(front') = Len(front) + 1 /\ Len(front) \in Nat
           /\ \A i \in 1 .. Len(front) : front'[i] = front[i]
           /\ front'[Len(front) + 1].calls = b
           /\ Totals(Lefts(front'), Len(front'), frontS')
<1> DEFINE x == [left |-> n, calls |-> b]
           new == Append(front, x)
<1>1. x \in Data /\ x.left = n /\ x.calls = b
  BY DEF Data
<1> HIDE DEF x
<1>2. /\ new \in Seq(Data) /\ Len(new) = Len(front) + 1 /\ Len(front) \in Nat
      /\ \A i \in 1 .. Len(front) : new[i] = front[i]
      /\ new[Len(front) + 1] = x
  BY <1>1, PushedFacts DEF DownTypes
<1>3. front' = new
  BY DEF x
<1> HIDE DEF new
<1> DEFINE m == Len(front)
           q == Lefts(front)
           r == Lefts(new)
<1>4. /\ \A i \in 1 .. m : q[i] = front[i].left
      /\ \A i \in 1 .. Len(new) : r[i] = new[i].left
  BY DEF Lefts
<1>5. 1 .. m \subseteq 1 .. Len(new) /\ m + 1 \in 1 .. Len(new) /\ m \in Nat
  BY <1>2
<1>6. Totals(q, m, frontS) /\ frontS \in Nat
  BY DEF DownTypes
<1> HIDE DEF q, r
<1>7. (\A i \in 1 .. m : r[i] = q[i]) /\ r[m + 1] = n
  BY <1>1, <1>2, <1>4, <1>5
<1> HIDE DEF m
<1>8. Totals(r, m + 1, frontS + n)
  BY <1>5, <1>6, <1>7, TotalsAppend
<1>9. Totals(Lefts(new), Len(new), frontS')
  BY <1>2, <1>8 DEF r, m
<1>10. frontS' \in Nat
  BY <1>6
<1> QED BY <1>1, <1>2, <1>3, <1>9, <1>10

LEMMA BackDataDown ==
    ASSUME ProtocolInv, DownTypes, Down, NEW n \in 1 .. Chunk, BackData(n)
    PROVE  DownTypes' /\ Down'
<1>1. /\ stack = <<>> /\ phase = "open" /\ conn = "open" /\ backRenable
      /\ backRenable' = (frontS <= High)
      /\ front' = Append(front, [left |-> n, calls |-> TRUE])
      /\ frontS' = frontS + n
      /\ UNCHANGED <<renable, frontReady>> /\ conn' = conn /\ stack' = stack
  BY Still DEF BackData, Idle
<1>2. Chunk \in Nat /\ n \in Nat /\ n <= Chunk /\ High \in Nat /\ TRUE \in BOOLEAN
  BY TunnelAssumption, MarksAssumption
<1>3. /\ front' \in Seq(Data) /\ frontS' \in Nat
      /\ Len(front') = Len(front) + 1 /\ Len(front) \in Nat
      /\ \A i \in 1 .. Len(front) : front'[i] = front[i]
      /\ front'[Len(front) + 1].calls = TRUE
      /\ Totals(Lefts(front'), Len(front'), frontS')
  BY <1>1, <1>2, Given
<1>4. DownTypes'
  <2>1. backRenable' \in BOOLEAN
    <3>1. CASE frontS <= High
      BY <1>1, <3>1
    <3>2. CASE ~(frontS <= High)
      BY <1>1, <3>2
    <3> QED BY <3>1, <3>2
  <2> QED BY <1>1, <1>3, <2>1 DEF DownTypes, Lefts
<1>5. conn' # "pending" /\ ~(In("opened", stack)')
  <2>1. Len(stack') = 0
    BY <1>1, EmptySeq
  <2> QED BY <1>1, <2>1 DEF In
<1>6. (\A i \in 2 .. Len(front) : front[i].calls)'
  <2>1. ASSUME NEW i \in 2 .. Len(front')
        PROVE  front'[i].calls
    <3>1. CASE i = Len(front) + 1
      BY <1>3, <3>1
    <3>2. CASE i # Len(front) + 1
      <4>1. i \in 2 .. Len(front) /\ i \in 1 .. Len(front)
        BY <1>3, <3>2
      <4> QED BY <1>3, <4>1 DEF Down
    <3> QED BY <3>1, <3>2
  <2> QED BY <2>1
<1>7. frontS <= High + Chunk /\ frontS \in Nat
  BY <1>1 DEF Down, DownTypes
<1>8. DownBounded'
  <2>1. frontS + n <= High + 2 * Chunk
    BY <1>2, <1>7
  <2> QED BY <1>1, <2>1 DEF DownBounded
<1>9. backRenable' => frontS' <= High + Chunk
  <2>1. frontS <= High => frontS + n <= High + Chunk
    BY <1>2, <1>7
  <2> QED BY <1>1, <2>1
<1>10. DownToCome'
  <2>1. Len(front) + 1 \in DOMAIN front'
    BY <1>3, LenProperties
  <2> QED BY <1>3, <2>1 DEF DownToCome
<1> QED BY <1>4, <1>5, <1>6, <1>8, <1>9, <1>10 DEF Down

LEMMA OpenedDown ==
    ASSUME ProtocolInv, DownTypes, Down, TunnelOpened
    PROVE  DownTypes' /\ Down'
<1>1. Stays
  BY OtherStays DEF TunnelOpened
<1>2. In("opened", stack) /\ conn = "open" /\ conn' = conn
  <2>1. stack # <<>> /\ Last(stack) = "opened" /\ conn' = conn
    BY DEF TunnelOpened, Opened, connection, Runs, Top
  <2>2. In(Last(stack), stack)
    BY <2>1, Types, Pops DEF ProtocolInv
  <2> QED BY <2>1, <2>2, Tops, CallNames
<1>3. front = <<>> /\ backRenable /\ renable
  BY <1>2 DEF Down
<1>4. UNCHANGED <<renable, backRenable, frontReady>>
  BY DEF TunnelOpened
<1>5. CASE way = "connect"
  <2>1. front' = Append(front, [left |-> 1, calls |-> FALSE]) /\ frontS' = frontS + 1
    BY <1>5 DEF TunnelOpened
  <2>2. /\ front' \in Seq(Data) /\ frontS' \in Nat
        /\ Len(front') = Len(front) + 1
        /\ Totals(Lefts(front'), Len(front'), frontS')
    BY <2>1, Given
  <2>3. Len(front) = 0 /\ Len(front') = 1
    BY <1>3, <2>2, EmptySeq
  <2>4. frontS = 0
    <3>1. Totals(Lefts(front), 0, frontS)
      BY <2>3 DEF DownTypes
    <3> QED BY <3>1, TotalsNat DEF DownTypes
  <2>5. DownTypes'
    BY <1>4, <2>2 DEF DownTypes, Lefts
  <2>6. High \in Nat /\ Chunk \in Nat \ {0}
    BY MarksAssumption, TunnelAssumption
  <2>7. frontS' <= High + Chunk /\ DownBounded'
    BY <2>1, <2>4, <2>6 DEF DownBounded
  <2>8. DownToCome'
    BY <1>3, <1>4 DEF DownToCome
  <2>9. conn' # "pending" /\ ~(In("opened", stack)')
    <3>1. stack # <<>> /\ Last(stack) = "opened" /\ stack \in Seq(Calls) /\ Opens(stack)
          /\ stack' = IF kind = "http" THEN Append(Front(stack), "flush")
                      ELSE Front(stack)
      BY Types DEF TunnelOpened, Opened, Runs, Top, ProtocolInv
    <3>2. ~In("opened", Front(stack)) /\ Front(stack) \in Seq(Calls)
      BY <3>1, Pops
    <3>3. "flush" \in Calls /\ "flush" # "opened"
      BY DEF Calls
    <3>4. ~In("opened", Append(Front(stack), "flush"))
      BY <3>2, <3>3, Pushes
    <3>5. ~In("opened", stack')
      BY <3>1, <3>2, <3>4
    <3> QED BY <1>2, <3>5 DEF In
  <2>10. (\A i \in 2 .. Len(front) : front[i].calls)'
    BY <2>3
  <2> QED BY <2>5, <2>7, <2>8, <2>9, <2>10 DEF Down
<1>6. CASE way # "connect"
  <2>1. UNCHANGED <<front, frontS>>
    BY <1>6 DEF TunnelOpened
  <2> QED BY <1>1, <1>3, <1>4, <2>1, DownKept DEF DownTypes
<1> QED BY <1>5, <1>6
LEMMA FrontTakesDown ==
    ASSUME ProtocolInv, DownTypes, Down, NEW n \in 1 .. Chunk, FrontTakes(n)
    PROVE  DownTypes' /\ Down'
<1> DEFINE first == Head(front)
           rest == Tail(front)
           m == Len(front)
           q == Lefts(front)
<1>1. /\ stack = <<>> /\ front # <<>> /\ n <= first.left
      /\ frontS' = frontS - n
      /\ UNCHANGED <<renable, frontReady, conn, phase, stack>>
  BY Still DEF FrontTakes, Idle
<1>2. /\ first \in Data /\ first = front[1] /\ rest \in Seq(Data)
      /\ Len(rest) = m - 1 /\ m \in Nat \ {0}
      /\ \A i \in 1 .. m - 1 : rest[i] = front[i + 1]
  BY <1>1, TailFacts DEF DownTypes
<1>3. n \in Nat /\ n >= 1 /\ Low \in Nat /\ High \in Nat /\ Chunk \in Nat
      /\ Low <= High
  BY MarksAssumption, TunnelAssumption
<1>4. first.left \in Nat /\ n <= first.left /\ first.calls \in BOOLEAN
  BY <1>1, <1>2 DEF Data
<1>5. Totals(q, m, frontS) /\ frontS \in Nat /\ \A i \in 1 .. m : q[i] = front[i].left
  BY DEF DownTypes, Lefts
<1>6. 1 \in 1 .. m
  BY <1>2
<1>7. q[1] = first.left
  BY <1>2, <1>5, <1>6
<1>8. ~In("opened", stack) /\ ~(In("opened", stack)')
  <2>1. Len(stack) = 0 /\ stack' = stack
    BY <1>1, EmptySeq
  <2> QED BY <2>1 DEF In
<1>9. conn # "pending"
  BY <1>1 DEF Down
<1>10. \A i \in 2 .. m : front[i].calls
  BY DEF Down
<1>11. (\A i \in 1 .. m - 1 : i + 1 \in 1 .. m) /\ 2 .. m \subseteq 1 .. m
  OBVIOUS
<1>12. CASE n = first.left
  <2>1. /\ front' = rest
        /\ IF first.calls THEN RawThrottle(frontS - n) ELSE UNCHANGED backRenable
    BY <1>12 DEF FrontTakes
  <2>2. n <= frontS /\ Totals(Lefts(rest), m - 1, frontS - n)
    <3> DEFINE r == Lefts(rest)
    <3>1. \A i \in 1 .. m - 1 : r[i] = rest[i].left
      BY <1>2 DEF Lefts
    <3> HIDE DEF r, q
    <3>2. \A i \in 1 .. m - 1 : r[i] = q[i + 1]
      BY <1>2, <1>5, <1>11, <3>1
    <3> HIDE DEF m
    <3>3. q[1] <= frontS /\ Totals(r, m - 1, frontS - q[1])
      BY <1>2, <1>5, <3>2, TotalsTail
    <3> QED BY <1>7, <1>12, <3>3 DEF r
  <2>3. frontS' \in Nat /\ frontS' <= frontS
    BY <1>1, <1>3, <1>5, <2>2
  <2>4. Totals(Lefts(front'), Len(front'), frontS')
    BY <1>1, <1>2, <2>1, <2>2
  <2>5. backRenable' \in BOOLEAN /\ (backRenable => backRenable')
        /\ (backRenable' /\ ~backRenable => frontS' <= Low)
        /\ (~backRenable' /\ phase = "open" /\ conn = "open" /\ first.calls
                => ~(frontS' <= Low))
    <3>1. CASE first.calls
      <4>1. backRenable' = (\/ backRenable
                            \/ /\ phase \in {"pending", "open"} /\ conn = "open"
                               /\ frontS - n <= Low)
        BY <2>1, <3>1 DEF RawThrottle, Mapped
      <4>2. backRenable' \in BOOLEAN
            /\ (backRenable' <=> \/ backRenable
                                 \/ /\ phase \in {"pending", "open"} /\ conn = "open"
                                    /\ frontS - n <= Low)
        BY <4>1, Zenon
      <4> QED BY <1>1, <4>2
    <3>2. CASE ~first.calls
      <4>1. backRenable' = backRenable /\ backRenable \in BOOLEAN
        BY <2>1, <3>2 DEF DownTypes
      <4> QED BY <3>2, <4>1
    <3> QED BY <3>1, <3>2
  <2>6. DownTypes'
    BY <1>1, <1>2, <2>1, <2>3, <2>4, <2>5 DEF DownTypes, Lefts
  <2>7. \A i \in 1 .. m - 1 : rest[i].calls
    BY <1>2, <1>10
  <2>8. (\A i \in 2 .. Len(front) : front[i].calls)'
    <3>1. \A i \in 2 .. m - 1 : i \in 1 .. m - 1
      OBVIOUS
    <3> QED BY <1>2, <2>1, <2>7, <3>1
  <2>9. frontS <= High + 2 * Chunk /\ (backRenable => frontS <= High + Chunk)
    BY DEF Down, DownBounded
  <2>10. DownBounded' /\ (backRenable' => frontS' <= High + Chunk)
    <3>1. frontS' <= High + 2 * Chunk
      BY <1>3, <1>5, <2>3, <2>9
    <3>2. backRenable => frontS' <= High + Chunk
      BY <1>3, <1>5, <2>3, <2>9
    <3>3. frontS' <= Low => frontS' <= High + Chunk
      BY <1>3, <2>3
    <3> QED BY <2>5, <3>1, <3>2, <3>3 DEF DownBounded
  <2>11. DownToCome'
    <3>1. ASSUME phase = "open", conn = "open", ~backRenable'
          PROVE  \E i \in 1 .. m - 1 : rest[i].calls
      <4>1. m - 1 > 0
        <5>1. CASE first.calls
          <6>1. frontS - n > 0
            BY <1>1, <1>3, <2>3, <2>5, <3>1, <5>1
          <6> QED BY <1>2, <2>2, <6>1, TotalsNat
        <5>2. CASE ~first.calls
          <6>1. PICK i \in DOMAIN front : front[i].calls
            BY <2>5, <3>1 DEF Down, DownToCome
          <6>2. i \in 1 .. m /\ i # 1
            BY <1>2, <5>2, <6>1, LenProperties DEF DownTypes
          <6> QED BY <1>2, <6>2
        <5> QED BY <5>1, <5>2
      <4>2. 1 \in 1 .. m - 1
        BY <1>2, <4>1
      <4> QED BY <2>7, <4>2
    <3>2. DOMAIN front' = 1 .. m - 1
      BY <1>2, <2>1, LenProperties
    <3> HIDE DEF rest
    <3> QED BY <1>1, <2>1, <3>1, <3>2 DEF DownToCome
  <2> QED BY <1>1, <1>8, <1>9, <2>6, <2>8, <2>10, <2>11 DEF Down
<1>13. CASE n # first.left
  <2> DEFINE less == [first EXCEPT !.left = @ - n]
             one == <<less>>
             new == one \o rest
  <2>1. front' = new /\ backRenable' = backRenable
    BY <1>13 DEF FrontTakes
  <2>2. less \in Data /\ less.left = first.left - n /\ less.calls = first.calls
    BY SMTT(30), <1>2, <1>3, <1>4 DEF Data
  <2> HIDE DEF less
  <2>3. one \in Seq(Data) /\ Len(one) = 1 /\ one[1] = less
    BY <2>2
  <2> HIDE DEF one
  <2>4. /\ new \in Seq(Data) /\ Len(new) = Len(one) + Len(rest)
        /\ \A i \in 1 .. Len(one) + Len(rest) :
               new[i] = IF i <= Len(one) THEN one[i] ELSE rest[i - Len(one)]
    BY <1>2, <2>3, ConcatProperties
  <2> HIDE DEF new, rest
  <2>5. Len(new) = m /\ new[1] = less /\ \A i \in 2 .. m : new[i] = front[i]
    <3>1. Len(new) = m /\ new[1] = less
      BY <1>2, <2>3, <2>4
    <3>2. ASSUME NEW i \in 2 .. m
          PROVE  new[i] = front[i]
      <4>1. /\ i \in 1 .. Len(one) + Len(rest) /\ ~(i <= Len(one))
            /\ i - 1 \in 1 .. m - 1 /\ (i - 1) + 1 = i
        BY <1>2, <2>3
      <4>2. new[i] = rest[i - 1]
        BY <2>3, <2>4, <4>1
      <4>3. rest[i - 1] = front[(i - 1) + 1]
        BY <1>2, <4>1
      <4> QED BY <4>1, <4>2, <4>3
    <3> QED BY <3>1, <3>2
  <2>6. n <= frontS /\ Totals(Lefts(new), m, frontS - n)
    <3> DEFINE r == Lefts(new)
    <3>1. \A i \in 1 .. m : r[i] = new[i].left
      BY <2>5 DEF Lefts
    <3> HIDE DEF r, q
    <3>2. r[1] = first.left - n /\ \A i \in 2 .. m : r[i] = q[i]
      BY <1>5, <1>6, <1>11, <2>2, <2>5, <3>1
    <3>3. r[1] \in Nat /\ q[1] = r[1] + n
      BY <1>3, <1>4, <1>7, <3>2
    <3> HIDE DEF m
    <3>4. n <= frontS /\ Totals(r, m, frontS - n)
      BY <1>2, <1>3, <1>5, <3>2, <3>3, TotalsTake
    <3> QED BY <3>4 DEF r
  <2>7. frontS' \in Nat /\ frontS' <= frontS
    BY <1>1, <1>3, <1>5, <2>6
  <2>8. Totals(Lefts(front'), Len(front'), frontS')
    BY <1>1, <2>1, <2>5, <2>6
  <2>9. DownTypes'
    BY <1>1, <2>1, <2>4, <2>7, <2>8 DEF DownTypes, Lefts
  <2>10. (\A i \in 2 .. Len(front) : front[i].calls)'
    BY <1>10, <2>1, <2>5
  <2>11. frontS <= High + 2 * Chunk /\ (backRenable => frontS <= High + Chunk)
    BY DEF Down, DownBounded
  <2>12. DownBounded' /\ (backRenable' => frontS' <= High + Chunk)
    <3>1. frontS' <= High + 2 * Chunk
      BY <1>3, <1>5, <2>7, <2>11
    <3>2. backRenable => frontS' <= High + Chunk
      BY <1>3, <1>5, <2>7, <2>11
    <3> QED BY <2>1, <3>1, <3>2 DEF DownBounded
  <2>13. DownToCome'
    <3>1. ASSUME phase = "open", conn = "open", ~backRenable
          PROVE  \E i \in 1 .. m : new[i].calls
      <4>1. PICK i \in DOMAIN front : front[i].calls
        BY <3>1 DEF Down, DownToCome
      <4>2. i \in 1 .. m
        BY <4>1, LenProperties DEF DownTypes
      <4>3. CASE i = 1
        BY <1>2, <1>6, <2>2, <2>5, <4>1, <4>3
      <4>4. CASE i # 1
        BY <2>5, <4>1, <4>2, <4>4
      <4> QED BY <4>3, <4>4
    <3>2. DOMAIN front' = 1 .. m
      BY <2>1, <2>4, <2>5, LenProperties
    <3> QED BY <1>1, <2>1, <3>1, <3>2 DEF DownToCome
  <2> QED BY <1>1, <1>8, <1>9, <2>9, <2>10, <2>12, <2>13 DEF Down
<1> QED BY <1>12, <1>13
-----------------------------------------------------------------------------
(* Up.                                                                      *)

\* what is kept is on its way, and what is on its way stays until it is kept
LEMMA UpKept ==
    ASSUME Up, UNCHANGED <<renable, conn, exhausted, keptSends>>,
           \A x \in Messages \ Silent :
               exhausted /\ (In(x, stack) \/ In(x, callbacks)) =>
                   In(x, stack') \/ In(x, callbacks')
    PROVE  Up'
<1> SUFFICES ASSUME conn = "open", ~renable
             PROVE  /\ keptSends # <<>> => Last(keptSends) \notin Silent
                    /\ exhausted => \E m \in Messages \ Silent :
                           (In(m, keptSends) \/ In(m, callbacks) \/ In(m, stack))'
  BY DEF Up
<1>1. ASSUME exhausted
      PROVE  \E m \in Messages \ Silent :
                 (In(m, keptSends) \/ In(m, callbacks) \/ In(m, stack))'
  <2>1. PICK m \in Messages \ Silent :
            In(m, keptSends) \/ In(m, callbacks) \/ In(m, stack)
    BY <1>1 DEF Up
  <2>2. In(m, keptSends) \/ In(m, stack') \/ In(m, callbacks')
    BY <1>1, <2>1
  <2> QED BY <2>2 DEF In
<1> QED BY <1>1 DEF Up

LEMMA SendEndUp ==
    ASSUME ProtocolInv, Up, SendEnd, renable' = renable
    PROVE  Up'
<1>1. /\ stack # <<>> /\ stack' = Front(stack)
      /\ UNCHANGED <<conn, exhausted, keptSends>>
      /\ callbacks' = IF Last(stack) \in Silent \/ writing THEN callbacks
                      ELSE Append(callbacks, Last(stack))
  BY DEF SendEnd, connection, Top
<1>2. \A x : In(x, stack) => In(x, stack') \/ x = Last(stack)
  BY <1>1, Types, Pops DEF ProtocolInv
<1>3. CASE conn # "open"
  BY <1>1, <1>3 DEF Up
<1>4. CASE conn = "open"
  <2>1. exhausted => ~writing
    BY <1>4 DEF ProtocolInv, Flows
  <2>2. Last(stack) \in Messages /\ callbacks \in Seq(Messages)
    BY Types DEF SendEnd, Top, ProtocolInv
  <2>3. LET more == Append(callbacks, Last(stack))
        IN  /\ \A x : In(x, callbacks) => In(x, more)
            /\ In(Last(stack), more)
    <3> DEFINE x == Last(stack)
               more == Append(callbacks, x)
    <3>1. /\ Len(more) = Len(callbacks) + 1 /\ Len(callbacks) \in Nat
          /\ \A i \in 1 .. Len(callbacks) : more[i] = callbacks[i]
          /\ more[Len(callbacks) + 1] = x
      BY <2>2, PushedFacts
    <3> HIDE DEF more, x
    <3>2. 1 .. Len(callbacks) \subseteq 1 .. Len(more)
          /\ Len(callbacks) + 1 \in 1 .. Len(more)
      BY <3>1
    <3>3. (\A y : In(y, callbacks) => In(y, more)) /\ In(x, more)
      BY <3>1, <3>2, Zenon DEF In
    <3> QED BY <3>3 DEF more, x
  <2>4. ASSUME NEW x \in Messages \ Silent, In(x, stack) \/ In(x, callbacks),
               exhausted
        PROVE  In(x, stack') \/ In(x, callbacks')
    <3>1. CASE Last(stack) \in Silent
      BY <1>1, <1>2, <2>4, <3>1
    <3>2. CASE Last(stack) \notin Silent
      <4>1. callbacks' = Append(callbacks, Last(stack))
        BY <1>1, <2>1, <2>4, <3>2
      <4> QED BY <1>2, <2>3, <2>4, <4>1
    <3> QED BY <3>1, <3>2
  <2> QED BY <1>1, <2>4, UpKept
<1> QED BY <1>3, <1>4

LEMMA FlushUp ==
    ASSUME ProtocolInv, Up, Flush, renable' = renable
    PROVE  Up'
<1>1. conn' = conn /\ stack # <<>> /\ Last(stack) = "flush" /\ stack \in Seq(Calls)
      /\ keptSends \in Seq(Messages)
  BY Types DEF Flush, Runs, Top, ProtocolInv
<1>2. conn = "open"
  BY <1>1, Tops, CallNames
<1>3. CASE keptSends # <<>> /\ writing
  <2>0. PICK m \in Messages, rest \in Seq(Messages), n \in Nat \ {0} :
            m = Head(keptSends) /\ rest = Tail(keptSends) /\ n = Len(keptSends)
    BY <1>1, <1>3, TailFacts
  <2>1. /\ m \in Messages /\ m = keptSends[1] /\ rest \in Seq(Messages)
        /\ Len(rest) = n - 1 /\ n \in Nat \ {0}
        /\ \A i \in 1 .. n - 1 : rest[i] = keptSends[i + 1]
    BY <1>1, <1>3, <2>0, TailFacts
  <2>2. TransportWrite(m, stack) /\ keptSends' = rest
    BY <1>3, <2>0 DEF Flush
  <2>3. Last(keptSends) = keptSends[n]
    BY <2>0 DEF Last
  <2>4. /\ exhausted' => callbacks' = callbacks
        /\ \A x : In(x, stack) \/ x = m => In(x, stack')
    BY <1>2, <1>3, <2>1, <2>2, TransportFacts DEF ProtocolInv
  <2>5. CASE renable
    BY <2>5 DEF Up
  <2>6. CASE ~renable
    <3>1. Last(keptSends) \notin Silent
      BY <1>2, <1>3, <2>6 DEF Up
    <3>2. CASE n = 1
      <4>1. m \notin Silent
        BY <2>1, <2>3, <3>1, <3>2
      <4>2. keptSends' = <<>>
        <5>1. Len(rest) = 0
          BY <2>1, <3>2
        <5> QED BY <2>1, <2>2, <5>1, EmptySeq
      <4>3. In(m, stack)'
        BY <2>4 DEF In
      <4> QED BY <2>1, <4>1, <4>2, <4>3 DEF Up
    <3>3. CASE n # 1
      <4>1. rest[n - 1] = keptSends[n] /\ n - 1 \in 1 .. Len(rest)
        <5>1. n - 1 \in 1 .. n - 1 /\ (n - 1) + 1 = n
          BY <2>1, <3>3
        <5>2. rest[n - 1] = keptSends[(n - 1) + 1]
          BY <2>1, <5>1
        <5> QED BY <2>1, <5>1, <5>2
      <4>2. Last(rest) = Last(keptSends)
        BY <2>1, <2>3, <4>1 DEF Last
      <4>3. In(Last(rest), rest) /\ Last(rest) \in Messages
        <5>1. Last(rest) = rest[n - 1]
          BY <2>1 DEF Last
        <5>2. rest[n - 1] \in Messages
          BY <2>1, <4>1, ElementOfSeq
        <5> QED BY <4>1, <5>1, <5>2 DEF In
      <4>4. (Last(keptSends) \notin Silent)' /\ In(Last(rest), keptSends)'
        BY <2>2, <3>1, <4>2, <4>3 DEF In
      <4>5. Last(rest) \in Messages \ Silent
        BY <3>1, <4>2, <4>3
      <4> QED BY <4>4, <4>5 DEF Up
    <3> QED BY <3>2, <3>3
  <2> QED BY <2>5, <2>6
<1>4. CASE ~(keptSends # <<>> /\ writing)
  <2>1. stack' = Front(stack) /\ UNCHANGED <<keptSends, exhausted, callbacks>>
    BY <1>4 DEF Flush
  <2>2. \A x : In(x, stack) => In(x, stack') \/ x = "flush"
    BY <1>1, <2>1, Pops
  <2>3. \A x \in Messages : x # "flush"
    BY CallNames
  <2> QED BY <1>1, <2>1, <2>2, <2>3, UpKept
<1> QED BY <1>3, <1>4

LEMMA TakeUp ==
    ASSUME ProtocolInv, Up, NEW k \in Nat \ {0}, Take(k), renable' = renable
    PROVE  Up'
<1>1. conn = "open" /\ conn' = conn /\ keptSends' = keptSends
  BY TakeStays DEF Take
<1>2. pendingS' <= pendingS /\ pendingS' = pendingS - k /\ pendingS \in Nat
      /\ HandleFlow(pendingS - k, stack) /\ pendingS' \in Nat
  <2>1. ProtocolInv' /\ pendingS' <= pendingS
    BY TakeStep
  <2>2. pendingS' \in Nat
    BY <2>1 DEF ProtocolInv, ProtocolTypeOK
  <2> QED BY <2>1, <2>2, Types DEF Take, ProtocolInv
<1>3. High \in Nat /\ (~exhausted => pendingS <= High)
  BY <1>1, MarksAssumption DEF ProtocolInv, Flows
<1>4. exhausted \in BOOLEAN
  BY Types DEF ProtocolInv
<1>5. CASE Restores(pendingS - k)
  <2>1. exhausted' = FALSE
    BY <1>5 DEF HandleFlow, Take
  <2> QED BY <1>1, <2>1 DEF Up
<1>6. CASE ~Restores(pendingS - k)
  <2>1. ~Exhausts(pendingS - k)
    BY <1>2, <1>3 DEF Exhausts
  <2>2. exhausted' = (exhausted \/ Exhausts(pendingS - k))
        /\ UNCHANGED <<callbacks, stack>>
    BY <1>2, <1>6 DEF HandleFlow
  <2>3. exhausted' = exhausted
    BY <1>4, <2>1, <2>2, Zenon
  <2> QED BY <1>1, <2>2, <2>3, UpKept
<1> QED BY <1>5, <1>6

LEMMA MovesUp ==
    ASSUME ProtocolInv, Up, SendStops \/ WriteEvent, renable' = renable
    PROVE  Up'
<1>1. UNCHANGED <<conn, exhausted, keptSends, callbacks>>
  BY DEF SendStops, WriteEvent, protocol
<1>2. \A x \in Messages : x # "send" /\ x # "ready"
  BY CallNames
<1>3. \A x \in Messages : In(x, stack) => In(x, stack')
  <2>1. CASE SendStops
    <3>1. stack # <<>> /\ Last(stack) = "send" /\ stack' = Front(stack)
      BY <2>1 DEF SendStops, Runs, Top
    <3> QED BY <1>2, <3>1, Types, Pops DEF ProtocolInv
  <2>2. CASE WriteEvent /\ stack = <<>>
    BY <2>2, EmptyHas
  <2>3. CASE WriteEvent /\ stack # <<>>
    <3>1. Last(stack) = "ready" /\ stack' = Append(Front(stack), "send")
      BY <2>3 DEF WriteEvent, Idle, Runs, Top
    <3>2. /\ \A x : In(x, stack) => In(x, Front(stack)) \/ x = "ready"
          /\ Front(stack) \in Seq(Calls)
      BY <2>3, <3>1, Types, Pops DEF ProtocolInv
    <3>3. "send" \in Calls /\ "send" # "opened"
      BY DEF Calls
    <3>4. \A x : In(x, Append(Front(stack), "send")) <=>
                     In(x, Front(stack)) \/ x = "send"
      BY <3>2, <3>3, Pushes
    <3> QED BY <1>2, <3>1, <3>2, <3>4
  <2> QED BY <2>1, <2>2, <2>3
<1> QED BY <1>1, <1>3, UpKept
\* a step after which there is no connection, or before which all is read
LEMMA UpVoid == ASSUME conn' # "open" \/ renable' PROVE Up'
BY DEF Up

LEMMA ClosingUp ==
    ASSUME ProtocolInv, Up, renable' = renable,
           CloseProtocol \/ Disconnected \/ ConnectionLost \/ Finish
    PROVE  Up'
<1>1. Stage
  BY DEF ProtocolInv
<1>2. CASE conn' # "open"
  BY <1>2, UpVoid
<1>3. CASE conn' = "open"
  <2>1. Finish /\ conn = "open"
    <3>1. ~CloseProtocol /\ ~Disconnected
      BY <1>3 DEF CloseProtocol, Disconnected
    <3>2. ~ConnectionLost
      BY <1>1, <1>3 DEF ConnectionLost, connection, Stage
    <3> QED BY <1>3, <3>1, <3>2 DEF Finish, connection
  <2>2. phase # "closing"
    BY <1>1, <2>1 DEF Stage
  <2>3. UNCHANGED <<conn, exhausted, keptSends, callbacks, stack>>
    BY <2>1, <2>2 DEF Finish, connection, protocol
  <2> QED BY <2>3, UpKept
<1> QED BY <1>2, <1>3

\* what the client gives
LEMMA FrontDataUp ==
    ASSUME Raw, TunnelInv, NEW m \in Messages, FrontData(m)
    PROVE  Up'
<1>1. /\ stack = <<>> /\ renable /\ m \notin Silent
      /\ renable' = ~(conn = "open" /\ pendingS > High)
      /\ Send(m) /\ conn' = conn
  BY DEF FrontData, Send, Idle
<1>2. CASE ~(conn = "open" /\ pendingS > High)
  BY <1>1, <1>2, UpVoid
<1>3. CASE conn = "open" /\ pendingS > High
  <2>1. exhausted /\ ~writing
    <3>1. Flows /\ pendingS \in Nat /\ High \in Nat
      BY Types, MarksAssumption DEF TunnelInv, ProtocolInv
    <3>2. ~(pendingS <= High)
      BY <1>3, <3>1
    <3> QED BY <1>3, <3>1, <3>2 DEF Flows
  <2>2. keptSends' = Append(keptSends, m)
    BY <1>1, <2>1 DEF Send
  <2>3. keptSends \in Seq(Messages)
    BY Types DEF TunnelInv, ProtocolInv
  <2>4. Last(keptSends') = m /\ In(m, keptSends')
    <3>1. /\ Last(Append(keptSends, m)) = m /\ Len(keptSends) \in Nat
          /\ Len(Append(keptSends, m)) = Len(keptSends) + 1
          /\ Append(keptSends, m)[Len(keptSends) + 1] = m
      BY <2>3, PushedFacts
    <3>2. Len(keptSends) + 1 \in 1 .. Len(keptSends')
      BY <2>2, <3>1
    <3> QED BY <2>2, <3>1, <3>2 DEF In
  <2>5. (Last(keptSends) \notin Silent)' /\ In(m, keptSends)'
    BY <1>1, <2>4 DEF In, Last
  <2> QED BY <1>1, <2>5 DEF Up
<1> QED BY <1>2, <1>3

LEMMA FrontDataStep ==
    ASSUME Raw, TunnelInv, NEW m \in Messages, FrontData(m)
    PROVE  TunnelInv'
<1>1. /\ stack = <<>> /\ renable' = ~(conn = "open" /\ pendingS > High)
      /\ Send(m) /\ UNCHANGED <<backRenable, front, frontS, frontReady>>
  BY DEF FrontData, Idle, down
<1>2. ProtocolInv' /\ Stays
  BY <1>1, SendStep, SendStays DEF TunnelInv
<1>3. renable' \in BOOLEAN
  <2>1. CASE conn = "open" /\ pendingS > High
    BY <1>1, <2>1
  <2>2. CASE ~(conn = "open" /\ pendingS > High)
    BY <1>1, <2>2
  <2> QED BY <2>1, <2>2
<1>4. conn = "pending" \/ In("opened", stack) => renable'
  <2>1. ~In("opened", stack)
    BY <1>1, EmptyHas
  <2>2. conn = "pending" => conn # "open"
    OBVIOUS
  <2> QED BY <1>1, <2>1, <2>2
<1>5. frontReady' \in BOOLEAN
  BY <1>1 DEF TunnelInv, DownTypes
<1>6. DownTypes' /\ Down'
  BY <1>1, <1>2, <1>3, <1>4, <1>5, DownKept DEF TunnelInv
<1> QED BY <1>2, <1>6, FrontDataUp DEF TunnelInv

\* a callback of what went up
LEMMA ThrottleStep ==
    ASSUME TunnelInv, NEW i \in DOMAIN calls, Throttle(i)
    PROVE  TunnelInv'
<1>1. /\ Call(i) /\ UNCHANGED <<backRenable, front, frontS, frontReady>>
      /\ UNCHANGED <<conn, exhausted, keptSends, callbacks, stack>>
  BY DEF Throttle, down, Call, connection, protocol
<1>2. ProtocolInv' /\ Stays
  BY <1>1, CallStep, OtherStays DEF TunnelInv
<1>3. renable' \in BOOLEAN /\ (renable => renable')
  <2>1. renable' = (renable \/ (/\ phase # "closed" /\ Mapped
                                /\ conn = "open" => pendingS <= Low))
    BY DEF Throttle
  <2> QED BY <2>1, Zenon
<1>4. conn = "pending" \/ In("opened", stack) => renable'
  BY <1>3 DEF TunnelInv, Down
<1>5. frontReady' \in BOOLEAN /\ renable \in BOOLEAN
  BY <1>1 DEF TunnelInv, DownTypes
<1>6. DownTypes' /\ Down'
  BY <1>1, <1>2, <1>3, <1>4, <1>5, DownKept DEF TunnelInv
<1>7. Up'
  <2>1. CASE renable'
    BY <2>1, UpVoid
  <2>2. CASE ~renable'
    <3>1. renable' = renable
      BY <1>3, <1>5, <2>2
    <3> QED BY <1>1, <3>1, UpKept DEF TunnelInv
  <2> QED BY <2>1, <2>2
<1> QED BY <1>2, <1>6, <1>7 DEF TunnelInv

\* the steps of the protocol by itself
LEMMA InsideStep ==
    ASSUME TunnelInv, UNCHANGED <<renable, down>>,
           \/ SendEnd \/ Flush \/ ConnectionMade \/ Disconnected \/ ConnectionLost
           \/ Finish \/ TakeSome \/ SendStops \/ WriteEvent \/ CloseProtocol
    PROVE  TunnelInv'
<1>1. /\ UNCHANGED <<renable, backRenable, front, frontS, frontReady>>
      /\ renable' \in BOOLEAN /\ frontReady' \in BOOLEAN
      /\ conn = "pending" \/ In("opened", stack) => renable'
  BY DEF down, TunnelInv, DownTypes, Down
<1>2. ASSUME TakeSome
      PROVE  \E k \in Nat \ {0} : Take(k)
  <2>1. PICK s \in Sizes : \E k \in 1 .. s : Take(k)
    BY <1>2 DEF TakeSome
  <2>2. PICK k \in 1 .. s : Take(k)
    BY <2>1
  <2>3. s \in Nat
    BY SizeAssumption DEF Sizes
  <2>4. k \in Nat \ {0}
    BY <2>3
  <2> QED BY <2>2, <2>4
<1>3. ProtocolInv'
  BY SendEndStep, FlushStep, MadeStep, ClosingSteps, TakeSomeStep, SendStopsStep,
     WriteEventStep DEF TunnelInv
<1>4. Stays
  <2>1. CASE TakeSome
    BY <1>2, <2>1, TakeStays DEF TunnelInv
  <2>2. CASE ~TakeSome
    BY <2>2, FlushStays, WriteEventStays, OtherStays DEF TunnelInv
  <2> QED BY <2>1, <2>2
<1>5. DownTypes' /\ Down'
  BY <1>1, <1>4, DownKept DEF TunnelInv
<1>6. Up'
  <2>1. CASE TakeSome
    BY <1>1, <1>2, <2>1, TakeUp DEF TunnelInv
  <2>2. CASE ConnectionMade
    <3>1. renable'
      BY <1>1, <2>2 DEF ConnectionMade
    <3> QED BY <3>1, UpVoid
  <2>3. CASE ~TakeSome /\ ~ConnectionMade
    BY <1>1, <2>3, SendEndUp, FlushUp, MovesUp, ClosingUp DEF TunnelInv
  <2> QED BY <2>1, <2>2, <2>3
<1> QED BY <1>3, <1>5, <1>6 DEF TunnelInv

LEMMA StillUp ==
    ASSUME Up, UNCHANGED protocolVars, UNCHANGED renable
    PROVE  Up'
BY Still, UpKept

LEMMA StillProtocol ==
    ASSUME Raw, ProtocolInv, UNCHANGED protocolVars
    PROVE  ProtocolInv'
BY ProtocolStep

\* the steps of the front end by itself
LEMMA FrontStep ==
    ASSUME Raw, TunnelInv,
           \/ \E n \in 1 .. Chunk : BackData(n) \/ FrontTakes(n)
           \/ FrontRefuses \/ FrontEvent \/ UNCHANGED tunnelVars
    PROVE  TunnelInv'
<1>1. UNCHANGED protocolVars /\ UNCHANGED renable
  BY DEF BackData, FrontTakes, FrontRefuses, FrontEvent, tunnelVars
<1>2. ProtocolInv' /\ Up'
  BY <1>1, StillUp, StillProtocol DEF TunnelInv
<1>3. DownTypes' /\ Down'
  <2>1. CASE \E n \in 1 .. Chunk : BackData(n) \/ FrontTakes(n)
    BY <2>1, BackDataDown, FrontTakesDown DEF TunnelInv
  <2>2. CASE FrontRefuses \/ FrontEvent \/ UNCHANGED tunnelVars
    <3>1. UNCHANGED <<backRenable, front, frontS>> /\ frontReady' \in BOOLEAN
      BY <2>2 DEF FrontRefuses, FrontEvent, tunnelVars, down, TunnelInv, DownTypes
    <3>2. renable' \in BOOLEAN
          /\ (conn = "pending" \/ In("opened", stack) => renable')
      BY <1>1 DEF TunnelInv, DownTypes, Down
    <3> QED BY <1>1, <3>1, <3>2, Still, DownKept DEF TunnelInv
  <2> QED BY <2>1, <2>2
<1> QED BY <1>2, <1>3 DEF TunnelInv

\* the opening
LEMMA OpeningStep ==
    ASSUME Raw, TunnelInv,
           TunnelOpened \/ \E m \in Messages : OpeningSend(m)
    PROVE  TunnelInv'
<1>1. In("opened", stack)
  <2>1. stack # <<>> /\ Last(stack) = "opened"
    BY DEF TunnelOpened, Opened, OpeningSend, Runs, Top
  <2> QED BY <2>1, Types, Pops DEF TunnelInv, ProtocolInv
<1>2. renable /\ renable' = renable
  BY <1>1 DEF TunnelInv, Down, TunnelOpened, OpeningSend
<1>3. Up'
  BY <1>2, UpVoid
<1>4. CASE TunnelOpened
  <2>1. Opened
    BY <1>4 DEF TunnelOpened
  <2>2. ProtocolInv'
    BY <2>1, OpenedStep DEF TunnelInv
  <2>3. DownTypes' /\ Down'
    BY <1>4, OpenedDown DEF TunnelInv
  <2> QED BY <1>3, <2>2, <2>3 DEF TunnelInv
<1>5. CASE \E m \in Messages : OpeningSend(m)
  <2>1. PICK m \in Messages : OpeningSend(m)
    BY <1>5
  <2>2. Send(m) /\ UNCHANGED <<backRenable, front, frontS, frontReady>>
    BY <2>1 DEF OpeningSend, down
  <2>3. ProtocolInv' /\ Stays
    BY <2>2, SendStep, SendStays DEF TunnelInv
  <2>4. renable' \in BOOLEAN /\ frontReady' \in BOOLEAN
    BY <1>2, <2>2 DEF TunnelInv, DownTypes
  <2>5. DownTypes' /\ Down'
    BY <1>2, <2>2, <2>3, <2>4, DownKept DEF TunnelInv
  <2> QED BY <1>3, <2>3, <2>5 DEF TunnelInv
<1> QED BY <1>4, <1>5

LEMMA TunnelInvStep ==
    ASSUME Raw, TunnelInv, [TunnelNext]_tunnelVars
    PROVE  TunnelInv'
<1>1. CASE \E m \in Messages : FrontData(m)
  BY <1>1, FrontDataStep
<1>2. CASE \E i \in DOMAIN calls : Throttle(i)
  BY <1>2, ThrottleStep
<1>3. CASE TunnelOpened \/ \E m \in Messages : OpeningSend(m)
  BY <1>3, OpeningStep
<1>4. CASE BackEvent \/ TunnelClose \/ Inside
  BY <1>4, InsideStep DEF BackEvent, TunnelClose, Inside
<1>5. CASE \/ \E n \in 1 .. Chunk : BackData(n) \/ FrontTakes(n)
           \/ FrontRefuses \/ FrontEvent \/ UNCHANGED tunnelVars
  BY <1>5, FrontStep
<1> QED BY <1>1, <1>2, <1>3, <1>4, <1>5 DEF TunnelNext

LEMMA TunnelInvInit == TunnelInit => TunnelInv
<1> SUFFICES ASSUME TunnelInit
             PROVE  TunnelInv
  OBVIOUS
<1>1. /\ ProtocolInit /\ renable = TRUE /\ backRenable = TRUE /\ frontReady = TRUE
      /\ front = <<>> /\ frontS = 0
  BY DEF TunnelInit
<1>2. ProtocolInv
  BY <1>1, ProtocolInvInit
<1>3. <<>> \in Seq(Data) /\ Len(<<>>) = 0
  BY EmptySeq
<1>4. Totals(Lefts(front), 0, 0)
  BY TotalsEmpty
<1>5. DownTypes
  BY <1>1, <1>3, <1>4 DEF DownTypes
<1>6. High \in Nat /\ Chunk \in Nat /\ 0 <= High + Chunk /\ 0 <= High + 2 * Chunk
  BY MarksAssumption, TunnelAssumption
<1>7. \A i \in 2 .. Len(front) : front[i].calls
  BY <1>1, <1>3
<1>8. Down
  BY <1>1, <1>6, <1>7 DEF Down, DownBounded, DownToCome
<1>9. Up
  BY <1>1 DEF Up
<1> QED BY <1>2, <1>5, <1>8, <1>9 DEF TunnelInv

LEMMA TunnelInvSafe == ASSUME TunnelInv PROVE TunnelSafety
<1>1. DownBounded /\ DownToCome
  BY DEF TunnelInv, Down
<1>2. UpToCome
  <2>1. ASSUME Idle, conn = "open", ~renable, exhausted
        PROVE  Range(callbacks \o keptSends) \ Silent # {}
    <3>1. callbacks \in Seq(Messages) /\ keptSends \in Seq(Messages)
      BY Types DEF TunnelInv, ProtocolInv
    <3>2. PICK m \in Messages \ Silent :
              In(m, keptSends) \/ In(m, callbacks) \/ In(m, stack)
      BY <2>1 DEF TunnelInv, Up
    <3>3. ~In(m, stack)
      BY <2>1, EmptyHas DEF Idle
    <3> DEFINE both == callbacks \o keptSends
               a == Len(callbacks)
               b == Len(keptSends)
    <3>4. /\ both \in Seq(Messages) /\ Len(both) = a + b
          /\ \A i \in 1 .. a + b :
                 both[i] = IF i <= a THEN callbacks[i] ELSE keptSends[i - a]
      BY <3>1, ConcatProperties
    <3>5. DOMAIN both = 1 .. a + b /\ a \in Nat /\ b \in Nat
      BY <3>1, <3>4, LenProperties
    <3> HIDE DEF both
    <3>6. \E i \in DOMAIN both : both[i] = m
      <4>1. CASE In(m, callbacks)
        <5>1. PICK i \in 1 .. a : callbacks[i] = m
          BY <4>1 DEF In
        <5>2. i \in 1 .. a + b /\ i <= a
          BY <3>5
        <5> QED BY <3>4, <3>5, <5>1, <5>2
      <4>2. CASE In(m, keptSends)
        <5>1. PICK i \in 1 .. b : keptSends[i] = m
          BY <4>2 DEF In
        <5>2. i + a \in 1 .. a + b /\ ~(i + a <= a) /\ (i + a) - a = i
          BY <3>5
        <5>3. both[i + a] = keptSends[(i + a) - a]
          BY <3>4, <5>2
        <5> QED BY <3>5, <5>1, <5>2, <5>3
      <4> QED BY <3>2, <3>3, <4>1, <4>2
    <3>7. m \in Range(both)
      BY <3>6 DEF Range
    <3> QED BY <3>2, <3>7 DEF both
  <2> QED BY <2>1 DEF UpToCome
<1> QED BY <1>1, <1>2 DEF TunnelSafety

-----------------------------------------------------------------------------
(* What waits for the client never passes the high mark by more than two    *)
(* reads; a back end whose reads are disabled has a callback to come that   *)
(* enables them; and while the protocol is paused, a client whose reads are *)
(* disabled has data or a callback kept for the resume: whatever the marks, *)
(* the messages and the reads, and with epoll as with select                *)
(* (_on_raw_data(), _raw_throttle(), _throttle()).                          *)
THEOREM TunnelSafe ==
    ASSUME "raw" \notin Early
    PROVE  TunnelSpec => [](TunnelSafety /\ ProtocolSafety)
<1> DEFINE Invariant == TunnelInv
           Safety == TunnelSafety /\ ProtocolSafety
<1>1. Raw
  BY DEF Raw
<1>2. TunnelInit => Invariant
  BY TunnelInvInit
<1>3. Invariant /\ [TunnelNext]_tunnelVars => Invariant'
  BY <1>1, TunnelInvStep
<1>4. Invariant => Safety
  BY TunnelInvSafe, ProtocolInvSafe DEF TunnelInv
<1> HIDE DEF Invariant, Safety
<1>5. TunnelSpec => []Safety
  BY <1>2, <1>3, <1>4, PTL DEF TunnelSpec
<1> QED BY <1>5 DEF Safety
=============================================================================
