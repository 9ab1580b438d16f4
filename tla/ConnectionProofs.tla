-------------------------- MODULE ConnectionProofs --------------------------
(***************************************************************************)
(* What the run of MCConnections checks of Connection with two messages is *)
(* proved here for any messages, sizes and send buffer, with another       *)
(* thread in send() and code of the user that sends, flushes, closes and   *)
(* raises wherever _send() calls it.                                       *)
(*                                                                         *)
(* The argument is by the places of a message.  It enters the queue, with  *)
(* its units at the end of what was offered; the socket takes units from   *)
(* the front; it is then owed its callback by one _send() under way, and   *)
(* told.  A step moves at most one message one place on, which is what     *)
(* Keeps, Drops, Enters, Transmit and Callback say.                        *)
(***************************************************************************)
EXTENDS Connection, SequenceTheorems, TLAPS

\* the types: of the flags of the connection, of what it sends, of the kernel
\* and of the other thread
FlagShapes ==
    /\ poll \in Polls
    /\ status \in {"pending", "open", "closed"}
    /\ connecting \in BOOLEAN /\ wready \in BOOLEAN /\ renable \in BOOLEAN
    /\ reads \in BOOLEAN /\ writes \in BOOLEAN
    /\ flushes \in BOOLEAN /\ ensures \in Nat
    /\ mode \in {"user", "loop"}

StackShape == stack \in Seq(Ids \cup {None, Connect}) /\ Len(stack) <= MaxDepth

DataShapes ==
    /\ pending \in Seq([id: Ids, left: Nat]) /\ pendingS \in Int
    /\ offered \in Seq(Messages) /\ ends \in [Ids -> Nat \cup {-1}]
    /\ wire \in Seq(Messages) /\ done \in Seq(Ids)
    /\ flushed \in BOOLEAN /\ raced \in BOOLEAN

OtherShapes ==
    /\ linked \in BOOLEAN /\ full \in 0 .. Capacity
    /\ nospace \in BOOLEAN /\ edge \in BOOLEAN
    /\ tpc \in {"idle", "append", "read", "write", "wake", "flush", "ensure"}
    /\ tmsg \in Messages \cup {None} /\ tsize \in Int

Shapes == FlagShapes /\ StackShape /\ DataShapes /\ OtherShapes

\* Of a message that entered the queue the units are in what was offered.
Entered ==
    \A id \in Ids : ~Fresh(id) =>
        /\ ends[id] \in Length(id) .. Len(offered)
        /\ \A n \in ends[id] - Length(id) + 1 .. ends[id] : offered[n] = id

\* What the queue has of a message is a part of it that is not empty, or all.
Remains ==
    \A i \in DOMAIN pending :
        /\ ~Fresh(pending[i].id)
        /\ pending[i].left <= Length(pending[i].id)
        /\ pending[i].left = 0 => Length(pending[i].id) = 0

\* A message is once in the queue, owed to its callback or told.
OncePending == \A i, j \in DOMAIN pending : pending[i].id = pending[j].id => i = j
OnceOwed == \A i, j \in DOMAIN stack : stack[i] \in Ids /\ stack[i] = stack[j] => i = j
OnceDone == IsInjective(done)
Apart ==
    /\ \A i \in DOMAIN pending, j \in DOMAIN stack : pending[i].id # stack[j]
    /\ \A i \in DOMAIN pending, j \in DOMAIN done : pending[i].id # done[j]
    /\ \A i \in DOMAIN stack, j \in DOMAIN done : stack[i] # done[j]
    /\ \A i \in DOMAIN stack : stack[i] \in Ids => ~Fresh(stack[i])
    /\ \A i \in DOMAIN done : ~Fresh(done[i])

\* What is owed or told is on the wire, that of close_flush() if the connection
\* was not closed before.
OnWire(id) == Length(id) > 0 => ends[id] <= Len(wire)
Truthful ==
    /\ \A i \in DOMAIN stack : stack[i] \in Ids => OnWire(stack[i])
    /\ \A i \in DOMAIN done : OnWire(done[i])
    /\ status # "closed" =>
           \A i \in DOMAIN stack : stack[i] = Closing => ends[Closing] <= Len(wire)
    /\ FlushedBeforeClose

\* The other thread has a message, which enters the queue once.
Elsewhere ==
    /\ tpc # "idle" => tmsg \in Messages
    /\ tpc = "append" => Fresh(tmsg)

\* pending_s is behind by the message that the other thread has yet to count.
Uncounted == IF tpc \in {"read", "write"} THEN Size[tmsg] ELSE 0
Counted ==
    ~raced =>
        IF status # "closed"
        THEN pendingS = Len(offered) - Len(wire) - Uncounted
        ELSE tpc \notin {"read", "write"} => pending = <<>> /\ pendingS = 0

InLoop == mode = "loop" => stack # <<>> /\ Top = None

\* Without a flush on its way, an edge that was not served is there or to come.
Woken ==
    Edge /\ status = "open" =>
        reads /\ (wready \/ edge \/ nospace \/ ~linked \/ stack = <<Connect>>)

Waking == Woken /\ NeverStuck

Data ==
    /\ Entered /\ Remains /\ OncePending /\ OnceOwed /\ OnceDone /\ Apart
    /\ Truthful /\ NothingLost

ConnectionInv == Shapes /\ Data /\ NoneForgotten /\ Elsewhere /\ Counted /\ InLoop

-----------------------------------------------------------------------------
(* Sequences.                                                              *)

LEMMA StackFacts ==
    ASSUME NEW S, NEW s \in Seq(S), s # <<>>, NEW x \in S
    PROVE  /\ Front(s) \in Seq(S) /\ Len(Front(s)) = Len(s) - 1
           /\ \A i \in 1 .. Len(s) - 1 : Front(s)[i] = s[i]
           /\ Append(Front(s), x) \in Seq(S) /\ Len(Append(Front(s), x)) = Len(s)
           /\ \A i \in 1 .. Len(s) - 1 : Append(Front(s), x)[i] = s[i]
           /\ Append(Front(s), x)[Len(s)] = x
           /\ Last(s) = s[Len(s)] /\ Last(s) \in S /\ Len(s) \in 1 .. Len(s)
<1>1. Len(s) \in Nat \ {0} /\ \A i \in 1 .. Len(s) : s[i] \in S
  BY EmptySeq, ElementOfSeq
<1>2. /\ Front(s) \in Seq(S) /\ Len(Front(s)) = Len(s) - 1
      /\ \A i \in 1 .. Len(s) - 1 : Front(s)[i] = s[i]
  <2> DEFINE n == Len(s) - 1
  <2>1. n \in Int /\ 1 \in Int /\ n >= 0 /\ \A i \in 1 .. n : s[i] \in S
    BY <1>1
  <2>2. Front(s) = SubSeq(s, 1, n)
    BY DEF Front
  <2> HIDE DEF n
  <2>3. /\ SubSeq(s, 1, n) \in Seq(S)
        /\ Len(SubSeq(s, 1, n)) = IF 1 <= n THEN n - 1 + 1 ELSE 0
        /\ \A i \in 1 .. n - 1 + 1 : SubSeq(s, 1, n)[i] = s[1 + i - 1]
    BY <2>1, SubSeqProperties
  <2>4. Len(SubSeq(s, 1, n)) = n /\ \A i \in 1 .. n : SubSeq(s, 1, n)[i] = s[i]
    BY <2>1, <2>3
  <2> QED BY <2>2, <2>3, <2>4 DEF n
<1>3. /\ Append(Front(s), x) \in Seq(S) /\ Len(Append(Front(s), x)) = Len(s)
      /\ \A i \in 1 .. Len(s) - 1 : Append(Front(s), x)[i] = Front(s)[i]
      /\ Append(Front(s), x)[Len(s)] = x
  BY <1>1, <1>2, AppendProperties
<1> QED BY <1>1, <1>2, <1>3 DEF Last

LEMMA PrefixIs ==
    ASSUME NEW S, NEW s \in Seq(S), NEW t \in Seq(S)
    PROVE  IsPrefix(s, t) <=> /\ Len(s) <= Len(t)
                              /\ \A i \in 1 .. Len(s) : s[i] = t[i]
<1>1. SubSeq(s, 1, Len(s)) = s /\ Len(s) \in Nat /\ Len(t) \in Nat
  BY SubSeqFull, LenProperties
<1>2. ASSUME Len(s) <= Len(t)
      PROVE  /\ SubSeq(t, 1, Len(s)) \in Seq(S) /\ Len(SubSeq(t, 1, Len(s))) = Len(s)
             /\ \A i \in 1 .. Len(s) : SubSeq(t, 1, Len(s))[i] = t[i]
  <2>1. \A i \in 1 .. Len(s) : t[i] \in S
    BY <1>1, <1>2, ElementOfSeq
  <2> QED BY <1>1, <2>1, SubSeqProperties
<1>3. ASSUME Len(s) <= Len(t), \A i \in 1 .. Len(s) : s[i] = t[i]
      PROVE  s = SubSeq(t, 1, Len(s))
  BY <1>2, <1>3, SeqEqual
<1> QED BY <1>1, <1>2, <1>3 DEF IsPrefix

LEMMA UnitsFacts ==
    ASSUME NEW id \in Ids, NEW n \in Nat, id \in Messages \/ n = 0
    PROVE  /\ Units(id, n) \in Seq(Messages) /\ Len(Units(id, n)) = n
           /\ \A i \in 1 .. n : Units(id, n)[i] = id
<1>1. Units(id, n) \in [1 .. n -> Messages]
  BY DEF Units
<1> QED BY <1>1 DEF Units

LEMMA LengthFacts ==
    /\ \A id \in Ids : Length(id) \in Nat
    /\ \A id \in Ids : Length(id) > 0 => id \in Messages
    /\ \A m \in Messages : m \in Ids /\ m # Closing /\ Length(m) = Size[m]
    /\ Closing \in Ids /\ Length(Closing) = 0
    /\ None \notin Ids /\ Connect \notin Ids /\ None # Connect
  BY SizeAssumption, NamesAssumption DEF Length, Ids

-----------------------------------------------------------------------------
(* Types.                                                                  *)

LEMMA OnWriteTypes ==
    ASSUME Shapes, OnWrite
    PROVE  /\ status' \in {"pending", "open", "closed"}
           /\ connecting' \in BOOLEAN /\ wready' \in BOOLEAN /\ renable' \in BOOLEAN
           /\ reads' \in BOOLEAN /\ writes' \in BOOLEAN
           /\ stack' \in Seq(Ids \cup {None, Connect}) /\ Len(stack') <= MaxDepth
           /\ mode' \in {"user", "loop"}
<1>1. ASSUME NEW x \in {None, Connect}, stack' = Append(stack, x)
      PROVE  stack' \in Seq(Ids \cup {None, Connect}) /\ Len(stack') <= MaxDepth
  BY <1>1, DepthAssumption DEF Shapes, StackShape, OnWrite
<1>2. stack' = Append(stack, None) \/ stack' = Append(stack, Connect)
  BY DEF OnWrite
<1>3. stack' \in Seq(Ids \cup {None, Connect}) /\ Len(stack') <= MaxDepth
  BY <1>1, <1>2
<1> QED BY <1>3 DEF Shapes, FlagShapes, OnWrite, UnsubWrite

LEMMA EnsureTypes ==
    ASSUME FlagShapes, EnsureWrite
    PROVE  \/ OnWrite
           \/ UNCHANGED <<flags, reads, control>> /\ writes' \in BOOLEAN
<1>1. CASE wready
  BY <1>1 DEF EnsureWrite
<1>2. CASE ~wready
  <2>1. UNCHANGED <<flags, reads, control>>
    BY <1>2 DEF EnsureWrite
  <2>2. writes' = writes \/ writes' = ~Edge
    BY <1>2 DEF EnsureWrite, SubWrite
  <2>3. writes' \in BOOLEAN
    BY <2>2 DEF FlagShapes
  <2> QED BY <2>1, <2>3
<1> QED BY <1>1, <1>2

LEMMA CloseTypes ==
    ASSUME Shapes, CloseNow
    PROVE  /\ status' = "closed" /\ connecting' \in BOOLEAN /\ wready' \in BOOLEAN
           /\ reads' \in BOOLEAN /\ writes' \in BOOLEAN
           /\ pending' \in Seq([id: Ids, left: Nat]) /\ pendingS' \in Int
           /\ nospace' \in BOOLEAN /\ edge' \in BOOLEAN
<1>1. CASE status = "closed"
  <2>1. UNCHANGED <<status, connecting, wready, pending, pendingS, reads, writes,
                    nospace, edge>>
    BY <1>1 DEF CloseNow, queue, subs
  <2> QED BY <1>1, <2>1, Zenon DEF Shapes, FlagShapes, DataShapes, OtherShapes
<1>2. CASE status # "closed"
  <2>1. <<>> \in Seq([id: Ids, left: Nat])
    BY EmptySeq
  <2>2. /\ status' = "closed" /\ connecting' = FALSE /\ wready' = FALSE
        /\ pending' = <<>> /\ pendingS' = 0 /\ reads' = FALSE /\ writes' = FALSE
        /\ edge' = FALSE /\ nospace' = FALSE
    BY <1>2, Zenon DEF CloseNow
  <2> HIDE DEF CloseNow
  <2>3. pending' \in Seq([id: Ids, left: Nat]) /\ pendingS' \in Int
    BY <2>1, <2>2
  <2> QED BY <2>2, <2>3
<1> QED BY <1>1, <1>2

\* What enters the queue.
LEMMA EnterFacts ==
    ASSUME Shapes, NEW id \in Ids, Enter(id)
    PROVE  /\ pending' \in Seq([id: Ids, left: Nat])
           /\ Len(pending') = Len(pending) + 1
           /\ \A i \in 1 .. Len(pending) : pending'[i] = pending[i]
           /\ pending'[Len(pending) + 1] = [id |-> id, left |-> Length(id)]
           /\ offered' \in Seq(Messages)
           /\ Len(offered') = Len(offered) + Length(id)
           /\ \A n \in 1 .. Len(offered) : offered'[n] = offered[n]
           /\ \A n \in Len(offered) + 1 .. Len(offered) + Length(id) :
                  offered'[n] = id
           /\ ends' \in [Ids -> Nat \cup {-1}]
           /\ ends'[id] = Len(offered) + Length(id)
           /\ \A o \in Ids \ {id} : ends'[o] = ends[o]
<1>1. /\ Length(id) \in Nat /\ (id \in Messages \/ Length(id) = 0)
      /\ [id |-> id, left |-> Length(id)] \in [id: Ids, left: Nat]
      /\ Len(offered) \in Nat /\ Len(pending) \in Nat
  BY LengthFacts, LenProperties
<1> DEFINE u == Units(id, Length(id))
<1>2. /\ u \in Seq(Messages) /\ Len(u) = Length(id)
      /\ \A i \in 1 .. Length(id) : u[i] = id
  BY <1>1, UnitsFacts
<1>3. offered' = offered \o u
  BY DEF Enter
<1> HIDE DEF u
<1>4. /\ offered' \in Seq(Messages) /\ Len(offered') = Len(offered) + Length(id)
      /\ \A n \in 1 .. Len(offered) + Length(id) :
             offered'[n] = IF n <= Len(offered) THEN offered[n]
                           ELSE u[n - Len(offered)]
  BY <1>2, <1>3, ConcatProperties DEF Shapes, DataShapes
<1>5. /\ \A n \in 1 .. Len(offered) : offered'[n] = offered[n]
      /\ \A n \in Len(offered) + 1 .. Len(offered) + Length(id) : offered'[n] = id
  BY <1>1, <1>2, <1>4
<1>6. /\ pending' \in Seq([id: Ids, left: Nat])
      /\ Len(pending') = Len(pending) + 1
      /\ \A i \in 1 .. Len(pending) : pending'[i] = pending[i]
      /\ pending'[Len(pending) + 1] = [id |-> id, left |-> Length(id)]
  BY <1>1, AppendProperties DEF Enter, Shapes, DataShapes
<1>7. /\ ends' \in [Ids -> Nat \cup {-1}]
      /\ ends'[id] = Len(offered) + Length(id)
      /\ \A o \in Ids \ {id} : ends'[o] = ends[o]
  BY <1>1 DEF Enter, Shapes, DataShapes
<1> QED BY <1>4, <1>5, <1>6, <1>7

\* What the socket takes.
LEMMA TransmitFacts ==
    ASSUME Shapes, InLoop, NEW k \in 0 .. Capacity, Transmit(k)
    PROVE  /\ Len(pending) >= 1 /\ pending[1] \in [id: Ids, left: Nat]
           /\ k <= pending[1].left
           /\ IF k = pending[1].left
              THEN /\ Len(pending') = Len(pending) - 1
                   /\ \A i \in 1 .. Len(pending') : pending'[i] = pending[i + 1]
              ELSE /\ Len(pending') = Len(pending)
                   /\ pending'[1] = [id |-> pending[1].id, left |-> pending[1].left - k]
                   /\ \A i \in 2 .. Len(pending) : pending'[i] = pending[i]
           /\ pending' \in Seq([id: Ids, left: Nat])
<1> DEFINE R == [id: Ids, left: Nat]
           p == pending[1]
<1>1. /\ pending \in Seq(R) /\ pending # <<>> /\ Len(pending) \in Nat \ {0}
      /\ k \in Nat
  BY EmptySeq, CapacityAssumption DEF Shapes, DataShapes, Transmit
<1>2. p \in R /\ Head(pending) = p
  <2>1. 1 \in 1 .. Len(pending)
    BY <1>1
  <2> HIDE DEF R
  <2>2. p \in R
    BY <1>1, <2>1, ElementOfSeq
  <2> QED BY <1>1, <2>2
<1>3. /\ Tail(pending) \in Seq(R) /\ Len(Tail(pending)) = Len(pending) - 1
      /\ \A i \in 1 .. Len(pending) - 1 : Tail(pending)[i] = pending[i + 1]
  BY <1>1, HeadTailProperties
<1>4. k <= p.left
  BY <1>2 DEF Transmit, First
<1>5. CASE k = p.left
  <2>1. pending' = Tail(pending)
    BY <1>2, <1>5 DEF Transmit, First
  <2> QED BY <1>1, <1>2, <1>3, <1>4, <1>5, <2>1
<1>6. CASE k # p.left
  <2> DEFINE q == [id |-> p.id, left |-> p.left - k]
  <2>1. q \in R /\ q = [p EXCEPT !.left = @ - k]
    BY <1>1, <1>2, <1>4
  <2>2. pending' = <<q>> \o Tail(pending)
    BY <1>2, <1>6, <2>1 DEF Transmit, First
  <2> HIDE DEF q
  <2>3. /\ <<q>> \in Seq(R) /\ Len(<<q>>) = 1 /\ <<q>>[1] = q
    BY <2>1
  <2>4. /\ pending' \in Seq(R) /\ Len(pending') = 1 + Len(Tail(pending))
        /\ \A i \in 1 .. 1 + Len(Tail(pending)) :
               pending'[i] = IF i <= 1 THEN <<q>>[i] ELSE Tail(pending)[i - 1]
    BY <1>3, <2>2, <2>3, ConcatProperties
  <2>5. Len(pending') = Len(pending) /\ pending'[1] = q
    BY <1>1, <1>3, <2>3, <2>4
  <2>6. \A i \in 2 .. Len(pending) : pending'[i] = pending[i]
    BY <1>1, <1>3, <2>4
  <2> QED BY <1>1, <1>2, <1>4, <1>6, <2>4, <2>5, <2>6 DEF q
<1> QED BY <1>5, <1>6

\* the wire, which holds what of it was offered
LEMMA WireFacts ==
    ASSUME Shapes, InLoop, Data, NEW k \in 0 .. Capacity, Transmit(k)
    PROVE  /\ wire' \in Seq(Messages) /\ Len(wire') = Len(wire) + k
           /\ IsPrefix(wire', offered)
<1> DEFINE p == pending[1]
<1>1. /\ Len(pending) >= 1 /\ pending # <<>> /\ p \in [id: Ids, left: Nat]
      /\ Head(pending) = p /\ k \in Nat /\ k <= p.left
      /\ 1 \in DOMAIN pending
  <2>0. k \in Nat
    BY CapacityAssumption
  <2>1. Len(pending) >= 1 /\ p \in [id: Ids, left: Nat] /\ k <= p.left
    BY TransmitFacts
  <2>2. pending # <<>> /\ DOMAIN pending = 1 .. Len(pending)
    BY LenProperties DEF Transmit
  <2>3. ASSUME NEW S, pending \in Seq(S) PROVE Head(pending) = pending[1]
    BY <2>2, <2>3
  <2>4. Head(pending) = p
    BY <2>3
  <2>5. 1 \in DOMAIN pending
    BY <2>1, <2>2
  <2> QED BY <2>0, <2>1, <2>2, <2>4, <2>5
<1>2. /\ p.left <= Length(p.id) /\ ~Fresh(p.id) /\ Length(p.id) \in Nat
      /\ (p.id \in Messages \/ k = 0)
  BY <1>1, LengthFacts DEF Data, Remains
<1> DEFINE u == Units(p.id, k)
<1>3. u \in Seq(Messages) /\ Len(u) = k /\ \A i \in 1 .. k : u[i] = p.id
  BY <1>1, <1>2, UnitsFacts
<1>4. wire' = wire \o u
  BY <1>1 DEF Transmit, First
<1> HIDE DEF u
<1>5. /\ wire' \in Seq(Messages) /\ Len(wire') = Len(wire) + k
      /\ \A i \in 1 .. Len(wire) + k :
             wire'[i] = IF i <= Len(wire) THEN wire[i] ELSE u[i - Len(wire)]
  BY <1>3, <1>4, ConcatProperties DEF Shapes, DataShapes
<1>6. /\ Len(wire) \in Nat /\ Len(wire) <= Len(offered) /\ Len(offered) \in Nat
      /\ \A i \in 1 .. Len(wire) : wire[i] = offered[i]
  BY PrefixIs, LenProperties DEF Shapes, DataShapes, Data, NothingLost
<1>0. wire \in Seq(Messages) /\ offered \in Seq(Messages)
  BY DEF Shapes, DataShapes
<1>7. CASE k = 0
  <2>1. Len(wire') = Len(wire) /\ \A i \in 1 .. Len(wire') : wire'[i] = offered[i]
    BY <1>5, <1>6, <1>7
  <2>2. IsPrefix(wire', offered)
    BY <1>0, <1>5, <1>6, <2>1, PrefixIs
  <2> QED BY <1>5, <2>2
<1>8. CASE k > 0
  <2>1. status # "closed"
    BY <1>8 DEF Transmit
  <2>2. ends[p.id] - p.left = Len(wire)
    BY <1>1, <2>1 DEF Data, NothingLost
  <2>3. /\ ends[p.id] \in Length(p.id) .. Len(offered)
        /\ \A n \in ends[p.id] - Length(p.id) + 1 .. ends[p.id] : offered[n] = p.id
    BY <1>1, <1>2 DEF Data, Entered
  <2>4. /\ Len(wire) + k <= Len(offered)
        /\ \A n \in Len(wire) + 1 .. Len(wire) + k : offered[n] = p.id
    BY <1>1, <1>2, <1>6, <2>2, <2>3
  <2>5. ASSUME NEW i \in 1 .. Len(wire) + k
        PROVE  wire'[i] = offered[i]
    <3>1. CASE i <= Len(wire)
      BY <1>5, <1>6, <3>1
    <3>2. CASE i > Len(wire)
      <4>1. i - Len(wire) \in 1 .. k /\ i \in Len(wire) + 1 .. Len(wire) + k
        BY <1>1, <1>6, <3>2
      <4>2. wire'[i] = u[i - Len(wire)]
        BY <1>5, <1>6, <3>2
      <4> QED BY <1>3, <2>4, <4>1, <4>2
    <3> QED BY <1>6, <3>1, <3>2
  <2> QED BY <1>5, <2>4, <2>5, PrefixIs DEF Shapes, DataShapes
<1> QED BY <1>1, <1>7, <1>8

\* the innermost _send() owes something else, or is over
LEMMA OwesTypes ==
    ASSUME Shapes, stack # <<>>,
           stack' = Front(stack) \/ \E x \in Ids \cup {None, Connect} : Owes(x)
    PROVE  stack' \in Seq(Ids \cup {None, Connect}) /\ Len(stack') <= MaxDepth
<1>1. /\ stack \in Seq(Ids \cup {None, Connect}) /\ Len(stack) <= MaxDepth
      /\ Len(stack) \in Nat /\ MaxDepth \in Nat
  BY DepthAssumption, LenProperties DEF Shapes, StackShape
<1>2. /\ Front(stack) \in Seq(Ids \cup {None, Connect})
      /\ Len(Front(stack)) = Len(stack) - 1
  BY <1>1, StackFacts, NamesAssumption
<1>3. ASSUME NEW x \in Ids \cup {None, Connect}, Owes(x)
      PROVE  /\ stack' \in Seq(Ids \cup {None, Connect})
             /\ Len(stack') = Len(stack)
  BY <1>1, <1>3, StackFacts DEF Owes
<1> QED BY <1>1, <1>2, <1>3

LEMMA ShapesStep ==
    ASSUME Shapes, InLoop, Elsewhere, Data, [ConnectionNext]_connectionVars
    PROVE  Shapes'
<1> USE DEF queue, flags, subs, delays, kernel, control, thread, history
<1>0. /\ <<>> \in Seq([id: Ids, left: Nat])
      /\ FlagShapes /\ StackShape /\ DataShapes /\ OtherShapes
  BY EmptySeq DEF Shapes
<1> SUFFICES FlagShapes' /\ StackShape' /\ DataShapes' /\ OtherShapes'
  BY DEF Shapes
<1>1. CASE UNCHANGED connectionVars
  <2>1. FlagShapes'
    BY <1>0, <1>1 DEF connectionVars, FlagShapes
  <2>2. StackShape'
    BY <1>0, <1>1 DEF connectionVars, StackShape
  <2>3. DataShapes'
    BY <1>0, <1>1 DEF connectionVars, DataShapes
  <2>4. OtherShapes'
    BY <1>0, <1>1 DEF connectionVars, OtherShapes
  <2> QED BY <2>1, <2>2, <2>3, <2>4
<1>2. ASSUME NEW connect \in BOOLEAN, Open(connect)
      PROVE  FlagShapes' /\ StackShape' /\ DataShapes' /\ OtherShapes'
  <2>1. FlagShapes'
    BY <1>0, <1>2 DEF Open, FlagShapes, SubWrite, Edge
  <2>2. StackShape'
    BY <1>0, <1>2 DEF Open, StackShape
  <2>3. DataShapes'
    BY <1>0, <1>2 DEF Open, DataShapes
  <2>4. OtherShapes'
    <3>1. linked' \in BOOLEAN /\ edge' \in BOOLEAN
      BY <1>2, Zenon DEF Open
    <3> QED BY <1>0, <1>2, <3>1 DEF Open, OtherShapes
  <2> QED BY <2>1, <2>2, <2>3, <2>4
<1>3. CASE Close
  <2>1. FlagShapes'
    BY <1>0, <1>3 DEF Close, CloseNow, FlagShapes
  <2>2. StackShape'
    BY <1>0, <1>3 DEF Close, CloseNow, StackShape
  <2>3. DataShapes'
    BY <1>0, <1>3 DEF Close, CloseNow, DataShapes
  <2>4. OtherShapes'
    BY <1>0, <1>3 DEF Close, CloseNow, OtherShapes
  <2> QED BY <2>1, <2>2, <2>3, <2>4
<1>4. ASSUME NEW id \in Ids, Pend(id), NEW d \in BOOLEAN, Wake(d),
             UNCHANGED <<ensures, kernel, thread, wire, done, flushed, raced, poll>>
      PROVE  FlagShapes' /\ StackShape' /\ DataShapes' /\ OtherShapes'
  <2>1. FlagShapes'
    <3>1. CASE OnWrite /\ UNCHANGED flushes
      BY <1>0, <1>4, <3>1, OnWriteTypes DEF Shapes, FlagShapes
    <3>2. CASE /\ UNCHANGED <<flags, reads, control>>
               /\ writes' \in BOOLEAN /\ flushes' \in BOOLEAN
      BY <1>0, <1>4, <3>2 DEF FlagShapes
    <3>3. CASE wready /\ d
      BY <1>0, <1>4, <3>2, <3>3 DEF Wake, FlagShapes
    <3>4. CASE ~(wready /\ d)
      <4>1. EnsureWrite /\ UNCHANGED flushes
        BY <1>4, <3>4 DEF Wake
      <4> QED BY <1>0, <3>1, <3>2, <4>1, EnsureTypes DEF FlagShapes
    <3> QED BY <3>3, <3>4
  <2>2. StackShape'
    <3>1. CASE OnWrite
      BY <3>1, OnWriteTypes DEF StackShape
    <3>2. CASE UNCHANGED control
      BY <1>0, <3>2 DEF StackShape
    <3> QED BY <1>4, <3>1, <3>2 DEF Wake, EnsureWrite
  <2>3. DataShapes'
    <3>1. /\ pending' \in Seq([id: Ids, left: Nat])
          /\ offered' \in Seq(Messages) /\ ends' \in [Ids -> Nat \cup {-1}]
      BY <1>4, EnterFacts DEF Pend
    <3>2. pendingS' \in Int
      BY <1>0, <1>4, LengthFacts DEF Pend, DataShapes
    <3> QED BY <1>0, <1>4, <3>1, <3>2 DEF DataShapes
  <2>4. OtherShapes'
    BY <1>0, <1>4 DEF OtherShapes
  <2> QED BY <2>1, <2>2, <2>3, <2>4
<1>5. CASE CloseFlush
  BY <1>4, <1>5, LengthFacts DEF CloseFlush
<1>6. ASSUME NEW m \in Messages, NEW d \in BOOLEAN, Send(m, d)
      PROVE  FlagShapes' /\ StackShape' /\ DataShapes' /\ OtherShapes'
  BY <1>4, <1>6, LengthFacts DEF Send
<1>7. ASSUME NEW m \in Messages, SendAhead(m)
      PROVE  FlagShapes' /\ StackShape' /\ DataShapes' /\ OtherShapes'
  <2>1. FlagShapes'
    BY <1>0, <1>7 DEF SendAhead, FlagShapes
  <2>2. StackShape'
    BY <1>0, <1>7 DEF SendAhead, StackShape
  <2>3. DataShapes'
    <3>1. /\ pending' \in Seq([id: Ids, left: Nat])
          /\ offered' \in Seq(Messages) /\ ends' \in [Ids -> Nat \cup {-1}]
      BY <1>7, EnterFacts, LengthFacts DEF SendAhead, Pend
    <3>2. pendingS' \in Int
      BY <1>0, <1>7, LengthFacts DEF SendAhead, Pend, DataShapes
    <3> QED BY <1>0, <1>7, <3>1, <3>2 DEF SendAhead, DataShapes
  <2>4. OtherShapes'
    BY <1>0, <1>7 DEF SendAhead, OtherShapes
  <2> QED BY <2>1, <2>2, <2>3, <2>4
<1>8. CASE EnableRead
  <2>1. FlagShapes'
    BY <1>0, <1>8 DEF EnableRead, FlagShapes
  <2>2. StackShape'
    BY <1>0, <1>8 DEF EnableRead, StackShape
  <2>3. DataShapes'
    BY <1>0, <1>8 DEF EnableRead, DataShapes
  <2>4. OtherShapes'
    <3>1. edge' \in BOOLEAN
      BY <1>8, Zenon DEF EnableRead
    <3> QED BY <1>0, <1>8, <3>1 DEF EnableRead, OtherShapes
  <2> QED BY <2>1, <2>2, <2>3, <2>4
<1>9. CASE DisableRead
  <2>1. FlagShapes'
    BY <1>0, <1>9 DEF DisableRead, FlagShapes
  <2>2. StackShape'
    BY <1>0, <1>9 DEF DisableRead, StackShape
  <2>3. DataShapes'
    BY <1>0, <1>9 DEF DisableRead, DataShapes
  <2>4. OtherShapes'
    BY <1>0, <1>9 DEF DisableRead, OtherShapes
  <2> QED BY <2>1, <2>2, <2>3, <2>4
<1>10. CASE PollWrite
  <2>1. FlagShapes'
    BY <1>0, <1>10, OnWriteTypes DEF PollWrite, Shapes, FlagShapes
  <2>2. StackShape'
    BY <1>10, OnWriteTypes DEF PollWrite, StackShape
  <2>3. DataShapes'
    BY <1>0, <1>10 DEF PollWrite, DataShapes
  <2>4. OtherShapes'
    BY <1>0, <1>10 DEF PollWrite, OtherShapes
  <2> QED BY <2>1, <2>2, <2>3, <2>4
<1>11. CASE DelayedFlush
  <2>1. FlagShapes'
    <3>1. CASE OnWrite
      BY <1>0, <1>11, <3>1, OnWriteTypes DEF DelayedFlush, Shapes, FlagShapes
    <3>2. CASE UNCHANGED <<flags, subs, control>>
      BY <1>0, <1>11, <3>2 DEF DelayedFlush, FlagShapes
    <3> QED BY <1>11, <3>1, <3>2 DEF DelayedFlush
  <2>2. StackShape'
    <3>1. CASE OnWrite
      BY <3>1, OnWriteTypes DEF StackShape
    <3>2. CASE UNCHANGED control
      BY <1>0, <3>2 DEF StackShape
    <3> QED BY <1>11, <3>1, <3>2 DEF DelayedFlush, EnsureWrite
  <2>3. DataShapes'
    BY <1>0, <1>11 DEF DelayedFlush, DataShapes
  <2>4. OtherShapes'
    BY <1>0, <1>11 DEF DelayedFlush, OtherShapes
  <2> QED BY <2>1, <2>2, <2>3, <2>4
<1>12. CASE DelayedEnsure
  <2>1. FlagShapes'
    <3>1. CASE OnWrite
      BY <1>0, <1>12, <3>1, OnWriteTypes DEF DelayedEnsure, Shapes, FlagShapes
    <3>2. CASE UNCHANGED <<flags, reads, control>> /\ writes' \in BOOLEAN
      BY <1>0, <1>12, <3>2 DEF DelayedEnsure, FlagShapes
    <3>3. CASE status = "open"
      BY <1>0, <1>12, <3>1, <3>2, <3>3, EnsureTypes DEF DelayedEnsure
    <3>4. CASE status # "open"
      BY <1>0, <1>12, <3>2, <3>4 DEF DelayedEnsure, FlagShapes
    <3> QED BY <3>3, <3>4
  <2>2. StackShape'
    <3>1. CASE OnWrite
      BY <3>1, OnWriteTypes DEF StackShape
    <3>2. CASE UNCHANGED control
      BY <1>0, <3>2 DEF StackShape
    <3> QED BY <1>12, <3>1, <3>2 DEF DelayedEnsure, EnsureWrite
  <2>3. DataShapes'
    BY <1>0, <1>12 DEF DelayedEnsure, DataShapes
  <2>4. OtherShapes'
    BY <1>0, <1>12 DEF DelayedEnsure, OtherShapes
  <2> QED BY <2>1, <2>2, <2>3, <2>4
<1>13. ASSUME NEW k \in 0 .. Capacity, Transmit(k)
      PROVE  FlagShapes' /\ StackShape' /\ DataShapes' /\ OtherShapes'
  <2>1. FlagShapes'
    BY <1>0, <1>13 DEF Transmit, FlagShapes
  <2>2. StackShape'
    <3>1. stack # <<>> /\ pending # <<>>
      BY <1>13 DEF Transmit, InLoop
    <3>2. First \in [id: Ids, left: Nat]
      BY <1>0, <3>1, HeadTailProperties DEF First, DataShapes
    <3>3. First.id \in Ids
      BY <3>2
    <3> QED BY <1>13, <3>1, <3>3, OwesTypes DEF Transmit, StackShape
  <2>3. DataShapes'
    <3>1. pending' \in Seq([id: Ids, left: Nat])
      BY <1>13, TransmitFacts
    <3>2. wire' \in Seq(Messages)
      BY <1>13, WireFacts
    <3>3. pendingS' \in Int
      BY <1>0, <1>13, CapacityAssumption DEF Transmit, DataShapes
    <3> QED BY <1>0, <1>13, <3>1, <3>2, <3>3 DEF Transmit, DataShapes
  <2>4. OtherShapes'
    <3>1. full' \in 0 .. Capacity
      <4>1. k \in Nat /\ full \in Nat /\ full' = full + k
        BY <1>0, <1>13, CapacityAssumption DEF Transmit, OtherShapes
      <4>2. k > 0 => full + k <= Capacity
        BY <1>13 DEF Transmit
      <4> QED BY <1>0, <4>1, <4>2, CapacityAssumption DEF OtherShapes
    <3> QED BY <1>0, <1>13, <3>1 DEF Transmit, OtherShapes
  <2> QED BY <2>1, <2>2, <2>3, <2>4
<1>14. CASE Refused
  <2>1. FlagShapes'
    BY <1>0, <1>14 DEF Refused, FlagShapes, SubWrite, Edge
  <2>2. StackShape'
    <3>1. stack # <<>> /\ stack' = Front(stack)
      BY <1>14 DEF Refused, InLoop
    <3> QED BY <3>1, OwesTypes DEF StackShape
  <2>3. DataShapes'
    BY <1>0, <1>14 DEF Refused, DataShapes
  <2>4. OtherShapes'
    BY <1>0, <1>14 DEF Refused, OtherShapes
  <2> QED BY <2>1, <2>2, <2>3, <2>4
<1>15. CASE Drained
  <2>1. FlagShapes'
    BY <1>0, <1>15 DEF Drained, FlagShapes, UnsubWrite
  <2>2. StackShape'
    <3>1. stack # <<>> /\ stack' = Front(stack)
      BY <1>15 DEF Drained, InLoop
    <3> QED BY <3>1, OwesTypes DEF StackShape
  <2>3. DataShapes'
    BY <1>0, <1>15 DEF Drained, DataShapes
  <2>4. OtherShapes'
    BY <1>0, <1>15 DEF Drained, OtherShapes
  <2> QED BY <2>1, <2>2, <2>3, <2>4
<1>16. CASE SocketFails
  <2>0. /\ status' \in {"pending", "open", "closed"} /\ connecting' \in BOOLEAN
        /\ wready' \in BOOLEAN /\ reads' \in BOOLEAN /\ writes' \in BOOLEAN
        /\ pending' \in Seq([id: Ids, left: Nat]) /\ pendingS' \in Int
        /\ nospace' \in BOOLEAN /\ edge' \in BOOLEAN
    <3>1. CASE status = "closed"
      BY <1>0, <1>16, <3>1 DEF SocketFails, FlagShapes, DataShapes, OtherShapes
    <3>2. CASE status # "closed"
      BY <1>16, <3>2, CloseTypes DEF SocketFails
    <3> QED BY <3>1, <3>2
  <2>1. FlagShapes'
    BY <1>0, <1>16, <2>0 DEF SocketFails, FlagShapes
  <2>2. StackShape'
    <3>1. stack # <<>> /\ stack' = Front(stack)
      BY <1>16 DEF SocketFails, InLoop
    <3> QED BY <3>1, OwesTypes DEF StackShape
  <2>3. DataShapes'
    BY <1>0, <1>16, <2>0 DEF SocketFails, DataShapes
  <2>4. OtherShapes'
    BY <1>0, <1>16, <2>0 DEF SocketFails, OtherShapes
  <2> QED BY <2>1, <2>2, <2>3, <2>4
<1>17. CASE UserRaises
  <2>0. CloseNow
    BY <1>17 DEF UserRaises
  <2>1. FlagShapes'
    BY <1>0, <1>17, <2>0, CloseTypes DEF UserRaises, FlagShapes
  <2>2. StackShape'
    <3>1. stack # <<>> /\ stack' = Front(stack)
      BY <1>17 DEF UserRaises, InLoop
    <3> QED BY <3>1, OwesTypes DEF StackShape
  <2>3. DataShapes'
    BY <1>0, <1>17, <2>0, CloseTypes DEF UserRaises, DataShapes
  <2>4. OtherShapes'
    BY <1>0, <1>17, <2>0, CloseTypes DEF UserRaises, OtherShapes
  <2> QED BY <2>1, <2>2, <2>3, <2>4
<1>18. CASE Return
  <2>1. FlagShapes'
    BY <1>0, <1>18 DEF Return, FlagShapes
  <2>2. StackShape'
    BY <1>18, OwesTypes DEF Return, StackShape
  <2>3. DataShapes'
    BY <1>0, <1>18 DEF Return, DataShapes
  <2>4. OtherShapes'
    BY <1>0, <1>18 DEF Return, OtherShapes
  <2> QED BY <2>1, <2>2, <2>3, <2>4
<1>19. CASE Callback
  <2>1. FlagShapes'
    BY <1>0, <1>19 DEF Callback, FlagShapes, CloseNow
  <2>2. StackShape'
    BY <1>19, OwesTypes DEF Callback, StackShape
  <2>3. DataShapes'
    <3>1. done' \in Seq(Ids)
      BY <1>0, <1>19, AppendProperties DEF Callback, DataShapes
    <3>2. CASE Top = Closing
      <4>1. flushed' \in BOOLEAN /\ CloseNow
        BY <1>19, <3>2, Zenon DEF Callback
      <4> QED BY <1>0, <1>19, <3>1, <4>1, CloseTypes DEF Callback, DataShapes
    <3>3. CASE Top # Closing
      BY <1>0, <1>19, <3>1, <3>3 DEF Callback, DataShapes
    <3> QED BY <3>2, <3>3
  <2>4. OtherShapes'
    BY <1>0, <1>19 DEF Callback, OtherShapes, CloseNow
  <2> QED BY <2>1, <2>2, <2>3, <2>4
<1>20. CASE Connected
  <2>1. FlagShapes'
    BY <1>0, <1>20 DEF Connected, FlagShapes
  <2>2. StackShape'
    BY <1>0, <1>20 DEF Connected, StackShape
  <2>3. DataShapes'
    BY <1>0, <1>20 DEF Connected, DataShapes
  <2>4. OtherShapes'
    <3>1. edge' \in BOOLEAN
      BY <1>20, Zenon DEF Connected
    <3> QED BY <1>0, <1>20, <3>1 DEF Connected, OtherShapes
  <2> QED BY <2>1, <2>2, <2>3, <2>4
<1>21. ASSUME NEW k \in 1 .. Capacity, PeerReads(k)
      PROVE  FlagShapes' /\ StackShape' /\ DataShapes' /\ OtherShapes'
  <2>1. FlagShapes'
    BY <1>0, <1>21 DEF PeerReads, FlagShapes
  <2>2. StackShape'
    BY <1>0, <1>21 DEF PeerReads, StackShape
  <2>3. DataShapes'
    BY <1>0, <1>21 DEF PeerReads, DataShapes
  <2>4. OtherShapes'
    <3>1. edge' \in BOOLEAN
      BY <1>21, Zenon DEF PeerReads
    <3>2. full' \in 0 .. Capacity
      BY <1>0, <1>21, CapacityAssumption DEF PeerReads, OtherShapes
    <3> QED BY <1>0, <1>21, <3>1, <3>2 DEF PeerReads, OtherShapes
  <2> QED BY <2>1, <2>2, <2>3, <2>4
<1>22. ASSUME NEW m \in Messages, ForeignSend(m)
      PROVE  FlagShapes' /\ StackShape' /\ DataShapes' /\ OtherShapes'
  <2>1. FlagShapes'
    BY <1>0, <1>22 DEF ForeignSend, FlagShapes
  <2>2. StackShape'
    BY <1>0, <1>22 DEF ForeignSend, StackShape
  <2>3. DataShapes'
    BY <1>0, <1>22 DEF ForeignSend, DataShapes
  <2>4. OtherShapes'
    BY <1>0, <1>22 DEF ForeignSend, OtherShapes
  <2> QED BY <2>1, <2>2, <2>3, <2>4
<1>23. CASE ForeignAppend
  <2>1. FlagShapes'
    BY <1>0, <1>23 DEF ForeignAppend, FlagShapes
  <2>2. StackShape'
    BY <1>0, <1>23 DEF ForeignAppend, StackShape
  <2>3. DataShapes'
    <3>1. tmsg \in Ids /\ Enter(tmsg)
      BY <1>23, LengthFacts DEF ForeignAppend, Elsewhere
    <3>2. /\ pending' \in Seq([id: Ids, left: Nat])
          /\ offered' \in Seq(Messages) /\ ends' \in [Ids -> Nat \cup {-1}]
      BY <3>1, EnterFacts
    <3> QED BY <1>0, <1>23, <3>2 DEF ForeignAppend, DataShapes
  <2>4. OtherShapes'
    BY <1>0, <1>23 DEF ForeignAppend, OtherShapes
  <2> QED BY <2>1, <2>2, <2>3, <2>4
<1>24. CASE ForeignRead
  <2>1. FlagShapes'
    BY <1>0, <1>24 DEF ForeignRead, FlagShapes
  <2>2. StackShape'
    BY <1>0, <1>24 DEF ForeignRead, StackShape
  <2>3. DataShapes'
    BY <1>0, <1>24 DEF ForeignRead, DataShapes
  <2>4. OtherShapes'
    BY <1>0, <1>24 DEF ForeignRead, OtherShapes, DataShapes
  <2> QED BY <2>1, <2>2, <2>3, <2>4
<1>25. CASE ForeignWrite
  <2>1. FlagShapes'
    BY <1>0, <1>25 DEF ForeignWrite, FlagShapes
  <2>2. StackShape'
    BY <1>0, <1>25 DEF ForeignWrite, StackShape
  <2>3. DataShapes'
    <3>1. pendingS' \in Int
      BY <1>0, <1>25, SizeAssumption DEF ForeignWrite, Elsewhere, OtherShapes
    <3>2. raced' \in BOOLEAN
      BY <1>25, Zenon DEF ForeignWrite
    <3> QED BY <1>0, <1>25, <3>1, <3>2 DEF ForeignWrite, DataShapes
  <2>4. OtherShapes'
    BY <1>0, <1>25 DEF ForeignWrite, OtherShapes
  <2> QED BY <2>1, <2>2, <2>3, <2>4
<1>26. CASE ForeignWake
  <2>1. FlagShapes'
    BY <1>0, <1>26 DEF ForeignWake, FlagShapes
  <2>2. StackShape'
    BY <1>0, <1>26 DEF ForeignWake, StackShape
  <2>3. DataShapes'
    BY <1>0, <1>26 DEF ForeignWake, DataShapes
  <2>4. OtherShapes'
    BY <1>0, <1>26 DEF ForeignWake, OtherShapes
  <2> QED BY <2>1, <2>2, <2>3, <2>4
<1>27. CASE ForeignDelay
  <2>1. FlagShapes'
    <3>1. \/ flushes' = TRUE /\ ensures' = ensures
          \/ flushes' = flushes /\ ensures' = ensures + 1
      BY <1>27 DEF ForeignDelay
    <3>2. flushes' \in BOOLEAN
      BY <1>0, <3>1 DEF FlagShapes
    <3>3. ensures' \in Nat
      BY <1>0, <3>1 DEF FlagShapes
    <3> QED BY <1>0, <1>27, <3>2, <3>3 DEF ForeignDelay, FlagShapes
  <2>2. StackShape'
    BY <1>0, <1>27 DEF ForeignDelay, StackShape
  <2>3. DataShapes'
    BY <1>0, <1>27 DEF ForeignDelay, DataShapes
  <2>4. OtherShapes'
    BY <1>0, <1>27 DEF ForeignDelay, OtherShapes
  <2> QED BY <2>1, <2>2, <2>3, <2>4
<1> QED BY <1>1, <1>2, <1>3, <1>5, <1>6, <1>7, <1>8, <1>9, <1>10, <1>11, <1>12, <1>13, <1>14, <1>15, <1>16, <1>17, <1>18, <1>19, <1>20, <1>21, <1>22, <1>23, <1>24, <1>25, <1>26, <1>27
        DEF ConnectionNext, UserStep, LoopStep, PeerStep, ForeignStep

-----------------------------------------------------------------------------
(* What a step does with the messages.                                     *)

\* no message is owed but those that were
NoMoreOwed(s, t) ==
    \A i \in DOMAIN t : t[i] \in Ids => i \in DOMAIN s /\ t[i] = s[i]
Owing == NoMoreOwed(stack, stack')

Keeps ==
    /\ UNCHANGED <<pending, offered, ends, wire, done, flushed>>
    /\ status' = "closed" <=> status = "closed"
    /\ Owing

Drops ==
    /\ pending' = <<>> /\ status' = "closed"
    /\ UNCHANGED <<offered, ends, wire, done, flushed>>
    /\ Owing

Enters(id) ==
    /\ Fresh(id) /\ Enter(id)
    /\ UNCHANGED <<wire, done, flushed, status>>
    /\ Owing

LEMMA NoMoreOwedFacts ==
    ASSUME NEW S, NEW s \in Seq(S), NEW x \in S, x \notin Ids
    PROVE  /\ NoMoreOwed(s, s)
           /\ NoMoreOwed(s, Append(s, x))
           /\ s # <<>> => /\ NoMoreOwed(s, Front(s))
                          /\ NoMoreOwed(s, Append(Front(s), x))
<1>1. Len(s) \in Nat /\ DOMAIN s = 1 .. Len(s)
  BY LenProperties
<1>2. NoMoreOwed(s, s)
  BY DEF NoMoreOwed
<1>3. NoMoreOwed(s, Append(s, x))
  <2> DEFINE t == Append(s, x)
  <2>1. /\ t \in Seq(S) /\ Len(t) = Len(s) + 1
        /\ \A i \in 1 .. Len(s) : t[i] = s[i]
        /\ t[Len(s) + 1] = x
    BY AppendProperties
  <2> HIDE DEF t
  <2>2. DOMAIN t = 1 .. Len(s) + 1
    BY <2>1, LenProperties
  <2>3. NoMoreOwed(s, t)
    BY <1>1, <2>1, <2>2 DEF NoMoreOwed
  <2> QED BY <2>3 DEF t
<1>4. ASSUME s # <<>>
      PROVE  NoMoreOwed(s, Front(s)) /\ NoMoreOwed(s, Append(Front(s), x))
  <2> DEFINE t == Front(s)
             u == Append(Front(s), x)
  <2>1. /\ t \in Seq(S) /\ Len(t) = Len(s) - 1
        /\ \A i \in 1 .. Len(s) - 1 : t[i] = s[i]
    BY <1>4, StackFacts
  <2>2. /\ u \in Seq(S) /\ Len(u) = Len(s)
        /\ \A i \in 1 .. Len(s) - 1 : u[i] = s[i]
        /\ u[Len(s)] = x
    BY <1>4, StackFacts
  <2> HIDE DEF t, u
  <2>3. DOMAIN t = 1 .. Len(s) - 1 /\ DOMAIN u = 1 .. Len(s)
    BY <2>1, <2>2, LenProperties
  <2>4. NoMoreOwed(s, t)
    BY <1>1, <2>1, <2>3 DEF NoMoreOwed
  <2>5. NoMoreOwed(s, u)
    BY <1>1, <2>2, <2>3 DEF NoMoreOwed
  <2> QED BY <2>4, <2>5 DEF t, u
<1> QED BY <1>2, <1>3, <1>4

LEMMA OwingFacts ==
    ASSUME Shapes,
           \/ stack' = stack
           \/ stack' = Append(stack, None) \/ stack' = Append(stack, Connect)
           \/ stack # <<>> /\ (stack' = Front(stack) \/ Owes(None))
    PROVE  Owing
<1>1. /\ stack \in Seq(Ids \cup {None, Connect})
      /\ None \notin Ids /\ Connect \notin Ids
  BY LengthFacts DEF Shapes, StackShape
<1> QED BY <1>1, NoMoreOwedFacts DEF Owing, Owes

LEMMA WakeOwes ==
    ASSUME Shapes, NEW d \in BOOLEAN, Wake(d) \/ EnsureWrite \/ OnWrite
    PROVE  Owing /\ UNCHANGED status
<1>1. ASSUME OnWrite PROVE Owing /\ UNCHANGED status
  BY <1>1, OwingFacts DEF OnWrite
<1>2. ASSUME EnsureWrite PROVE Owing /\ UNCHANGED status
  BY <1>1, <1>2, OwingFacts DEF EnsureWrite, flags, control
<1>3. ASSUME Wake(d) PROVE Owing /\ UNCHANGED status
  BY <1>2, <1>3, OwingFacts DEF Wake, flags, control
<1> QED BY <1>1, <1>2, <1>3

LEMMA CloseMoves ==
    ASSUME Shapes, CloseNow, Owing, UNCHANGED <<offered, ends, wire, done, flushed>>
    PROVE  Keeps \/ Drops
<1>1. CASE status = "closed"
  BY <1>1 DEF CloseNow, Keeps, queue
<1>2. CASE status # "closed"
  BY <1>2 DEF CloseNow, Drops
<1> QED BY <1>1, <1>2

LEMMA Moves ==
    ASSUME Shapes, InLoop, Elsewhere, [ConnectionNext]_connectionVars
    PROVE  \/ Keeps \/ Drops \/ \E id \in Ids : Enters(id)
           \/ \E k \in 0 .. Capacity : Transmit(k)
           \/ Callback
<1> USE DEF queue, flags, subs, delays, kernel, control, thread, history
<1>1. ASSUME UNCHANGED <<pending, offered, ends, wire, done, flushed, stack, status>>
      PROVE  Keeps
  BY <1>1, OwingFacts DEF Keeps
<1>2. CASE UNCHANGED connectionVars
  BY <1>1, <1>2 DEF connectionVars
<1>3. ASSUME NEW connect \in BOOLEAN, Open(connect)
      PROVE  Keeps
  <2>1. Owing
    BY <1>3, OwingFacts DEF Open
  <2> QED BY <1>3, <2>1 DEF Open, Keeps
<1>4. CASE Close
  <2>1. Owing
    BY <1>4, OwingFacts DEF Close
  <2> QED BY <1>4, <2>1, CloseMoves DEF Close
<1>5. CASE CloseFlush
  <2>1. Closing \in Ids /\ Enters(Closing)
    BY <1>5, WakeOwes, LengthFacts DEF CloseFlush, Pend, Enters
  <2> QED BY <2>1
<1>6. ASSUME NEW m \in Messages, NEW d \in BOOLEAN, Send(m, d)
      PROVE  \E id \in Ids : Enters(id)
  <2>1. m \in Ids /\ Enters(m)
    BY <1>6, WakeOwes, LengthFacts DEF Send, Pend, Enters
  <2> QED BY <2>1
<1>7. ASSUME NEW m \in Messages, SendAhead(m)
      PROVE  \E id \in Ids : Enters(id)
  <2>1. m \in Ids /\ Enters(m)
    BY <1>7, OwingFacts, LengthFacts DEF SendAhead, Pend, Enters
  <2> QED BY <2>1
<1>8. CASE EnableRead
  BY <1>1, <1>8 DEF EnableRead
<1>9. CASE DisableRead
  BY <1>1, <1>9 DEF DisableRead
<1>10. CASE PollWrite
  <2>1. Owing /\ UNCHANGED status
    BY <1>10, WakeOwes DEF PollWrite
  <2> QED BY <1>10, <2>1 DEF PollWrite, Keeps
<1>11. CASE DelayedFlush
  <2>1. Owing /\ UNCHANGED status
    BY <1>11, WakeOwes, OwingFacts DEF DelayedFlush
  <2> QED BY <1>11, <2>1 DEF DelayedFlush, Keeps
<1>12. CASE DelayedEnsure
  <2>1. Owing /\ UNCHANGED status
    BY <1>12, WakeOwes, OwingFacts DEF DelayedEnsure
  <2> QED BY <1>12, <2>1 DEF DelayedEnsure, Keeps
<1>13. CASE Refused
  <2>1. Owing
    BY <1>13, OwingFacts DEF Refused, InLoop
  <2> QED BY <1>13, <2>1 DEF Refused, Keeps
<1>14. CASE Drained
  <2>1. Owing
    BY <1>14, OwingFacts DEF Drained, InLoop
  <2> QED BY <1>14, <2>1 DEF Drained, Keeps
<1>15. CASE SocketFails
  <2>1. Owing
    BY <1>15, OwingFacts DEF SocketFails, InLoop
  <2>2. CASE status = "closed"
    BY <1>15, <2>1, <2>2 DEF SocketFails, Keeps
  <2>3. CASE status # "closed"
    BY <1>15, <2>1, <2>3, CloseMoves DEF SocketFails
  <2> QED BY <2>2, <2>3
<1>16. CASE UserRaises
  <2>1. Owing
    BY <1>16, OwingFacts DEF UserRaises
  <2> QED BY <1>16, <2>1, CloseMoves DEF UserRaises
<1>17. CASE Return
  <2>1. Owing
    BY <1>17, OwingFacts DEF Return
  <2> QED BY <1>17, <2>1 DEF Return, Keeps
<1>18. CASE Connected
  BY <1>1, <1>18 DEF Connected
<1>19. ASSUME NEW k \in 1 .. Capacity, PeerReads(k)
       PROVE  Keeps
  BY <1>1, <1>19 DEF PeerReads
<1>20. ASSUME NEW m \in Messages, ForeignSend(m)
       PROVE  Keeps
  BY <1>1, <1>20 DEF ForeignSend
<1>21. CASE ForeignAppend
  <2>1. tmsg \in Ids /\ Fresh(tmsg)
    BY <1>21, LengthFacts DEF ForeignAppend, Elsewhere
  <2>2. Enters(tmsg)
    BY <1>21, <2>1, OwingFacts DEF ForeignAppend, Enters
  <2> QED BY <2>1, <2>2
<1>22. CASE ForeignRead
  BY <1>1, <1>22 DEF ForeignRead
<1>23. CASE ForeignWrite
  BY <1>1, <1>23 DEF ForeignWrite
<1>24. CASE ForeignWake
  BY <1>1, <1>24 DEF ForeignWake
<1>25. CASE ForeignDelay
  BY <1>1, <1>25 DEF ForeignDelay
<1> QED BY <1>2, <1>3, <1>4, <1>5, <1>6, <1>7, <1>8, <1>9, <1>10, <1>11, <1>12,
           <1>13, <1>14, <1>15, <1>16, <1>17, <1>18, <1>19, <1>20, <1>21,
           <1>22, <1>23, <1>24, <1>25
        DEF ConnectionNext, UserStep, LoopStep, PeerStep, ForeignStep

-----------------------------------------------------------------------------
(* The messages stay in their places.                                      *)

LEMMA Domains ==
    ASSUME Shapes
    PROVE  /\ Len(pending) \in Nat /\ DOMAIN pending = 1 .. Len(pending)
           /\ Len(stack) \in Nat /\ DOMAIN stack = 1 .. Len(stack)
           /\ Len(done) \in Nat /\ DOMAIN done = 1 .. Len(done)
           /\ Len(offered) \in Nat /\ Len(wire) \in Nat
           /\ \A i \in 1 .. Len(pending) :
                  pending[i].id \in Ids /\ pending[i].left \in Nat
           /\ \A i \in 1 .. Len(done) : done[i] \in Ids
<1>1. /\ pending \in Seq([id: Ids, left: Nat]) /\ done \in Seq(Ids)
      /\ offered \in Seq(Messages) /\ wire \in Seq(Messages)
      /\ stack \in Seq(Ids \cup {None, Connect})
  BY DEF Shapes, StackShape, DataShapes
<1>2. \A i \in 1 .. Len(pending) : pending[i] \in [id: Ids, left: Nat]
  BY <1>1, ElementOfSeq
<1>3. \A i \in 1 .. Len(done) : done[i] \in Ids
  BY <1>1, ElementOfSeq
<1> QED BY <1>1, <1>2, <1>3, LenProperties

LEMMA KeepsData ==
    ASSUME Shapes, Data, Keeps
    PROVE  Data'
<1>1. Entered' /\ Remains' /\ OncePending' /\ OnceDone'
  BY DEF Data, Keeps, Entered, Remains, OncePending, OnceDone, Fresh
<1>2. OnceOwed'
  BY DEF Data, Keeps, OnceOwed, Owing, NoMoreOwed
<1>3. Apart'
  <2>1. \A i \in DOMAIN pending, j \in DOMAIN stack' : pending[i].id # stack'[j]
    BY Domains DEF Data, Apart, Keeps, Owing, NoMoreOwed
  <2>2. \A i \in DOMAIN stack', j \in DOMAIN done : stack'[i] # done[j]
    BY Domains DEF Data, Apart, Keeps, Owing, NoMoreOwed
  <2>3. \A i \in DOMAIN stack' : stack'[i] \in Ids => ~Fresh(stack'[i])
    BY DEF Data, Apart, Keeps, Owing, NoMoreOwed
  <2> QED BY <2>1, <2>2, <2>3 DEF Data, Keeps, Apart, Fresh
<1>4. Truthful'
  <2>1. \A i \in DOMAIN stack' : stack'[i] \in Ids => OnWire(stack'[i])
    BY DEF Data, Truthful, Keeps, Owing, NoMoreOwed
  <2>2. status # "closed" =>
           \A i \in DOMAIN stack' : stack'[i] = Closing => ends[Closing] <= Len(wire)
    BY LengthFacts DEF Data, Truthful, Keeps, Owing, NoMoreOwed
  <2> QED BY <2>1, <2>2 DEF Data, Keeps, Truthful, OnWire, FlushedBeforeClose
<1>5. NothingLost'
  BY DEF Data, Keeps, NothingLost
<1> QED BY <1>1, <1>2, <1>3, <1>4, <1>5 DEF Data

LEMMA DropsData ==
    ASSUME Shapes, Data, Drops
    PROVE  Data'
<1>1. Entered' /\ OnceDone'
  BY DEF Data, Drops, Entered, OnceDone, Fresh
<1>2. Remains' /\ OncePending'
  BY DEF Drops, Remains, OncePending
<1>3. OnceOwed'
  BY DEF Data, Drops, OnceOwed, Owing, NoMoreOwed
<1>4. Apart'
  <2>1. \A i \in DOMAIN stack', j \in DOMAIN done : stack'[i] # done[j]
    BY Domains DEF Data, Apart, Drops, Owing, NoMoreOwed
  <2>2. \A i \in DOMAIN stack' : stack'[i] \in Ids => ~Fresh(stack'[i])
    BY DEF Data, Apart, Drops, Owing, NoMoreOwed
  <2> QED BY <2>1, <2>2 DEF Data, Drops, Apart, Fresh
<1>5. Truthful'
  <2>1. \A i \in DOMAIN stack' : stack'[i] \in Ids => OnWire(stack'[i])
    BY DEF Data, Truthful, Drops, Owing, NoMoreOwed
  <2> QED BY <2>1 DEF Data, Drops, Truthful, OnWire, FlushedBeforeClose
<1>6. NothingLost'
  BY DEF Data, Drops, NothingLost
<1> QED BY <1>1, <1>2, <1>3, <1>4, <1>5, <1>6 DEF Data

LEMMA EntersData ==
    ASSUME Shapes, Data, NEW id \in Ids, Enters(id)
    PROVE  Data'
<1> DEFINE n == Len(pending)
           L == Len(offered)
<1>1. /\ n \in Nat /\ DOMAIN pending = 1 .. n /\ L \in Nat /\ Len(wire) \in Nat
      /\ \A i \in 1 .. n : pending[i].id \in Ids /\ pending[i].left \in Nat
      /\ \A i \in DOMAIN done : done[i] \in Ids
      /\ Length(id) \in Nat /\ \A o \in Ids : Length(o) \in Nat
      /\ \A o \in Ids : ends[o] \in Int
  BY Domains, LengthFacts DEF Shapes, DataShapes
<1>2. /\ pending' \in Seq([id: Ids, left: Nat]) /\ Len(pending') = n + 1
      /\ \A i \in 1 .. n : pending'[i] = pending[i]
      /\ pending'[n + 1] = [id |-> id, left |-> Length(id)]
      /\ offered' \in Seq(Messages) /\ Len(offered') = L + Length(id)
      /\ \A i \in 1 .. L : offered'[i] = offered[i]
      /\ \A i \in L + 1 .. L + Length(id) : offered'[i] = id
      /\ ends'[id] = L + Length(id)
      /\ \A o \in Ids \ {id} : ends'[o] = ends[o]
  BY EnterFacts DEF Enters
<1>3. DOMAIN pending' = 1 .. n + 1 /\ pending' # <<>> /\ Len(offered') \in Nat
  BY <1>1, <1>2, LenProperties
<1>4. /\ pending'[n + 1].id = id /\ pending'[n + 1].left = Length(id)
  BY <1>2
<1>15. \A m \in 1 .. L : offered'[m] = offered[m]
  BY <1>2
<1>16. Len(offered') = L + Length(id)
  BY <1>2
<1>17. /\ L \in Nat /\ Length(id) \in Nat /\ \A o \in Ids : Length(o) \in Nat
  BY <1>1
<1> HIDE DEF n, L
<1>18. Len(offered') >= L /\ Len(offered') \in Nat
  BY <1>16, <1>17
<1>5. \A o \in Ids : ~Fresh(o) => o # id /\ ends'[o] = ends[o]
  BY <1>2 DEF Enters
<1>6. /\ \A i \in 1 .. n : ~Fresh(pending[i].id)
      /\ \A i \in DOMAIN stack : stack[i] \in Ids => ~Fresh(stack[i])
      /\ \A i \in DOMAIN done : ~Fresh(done[i])
      /\ \A i \in DOMAIN stack' :
             stack'[i] \in Ids => i \in DOMAIN stack /\ stack'[i] = stack[i]
  BY <1>1 DEF Data, Remains, Apart, Enters, Owing, NoMoreOwed
<1>7. Entered'
  <2>1. ASSUME NEW o \in Ids, ends'[o] # -1, o # id
        PROVE  /\ ends'[o] \in Length(o) .. Len(offered')
               /\ \A m \in ends'[o] - Length(o) + 1 .. ends'[o] : offered'[m] = o
    <3>1. /\ ends'[o] = ends[o] /\ ends[o] \in Length(o) .. L
          /\ \A m \in ends[o] - Length(o) + 1 .. ends[o] : offered[m] = o
      BY <1>2, <2>1 DEF Data, Entered, Fresh, L
    <3>2. /\ Len(offered') >= L /\ \A m \in 1 .. L : offered'[m] = offered[m]
          /\ Length(o) \in Nat /\ Len(offered') \in Nat /\ L \in Nat
      BY <1>15, <1>17, <1>18
    <3>3. \A m \in ends[o] - Length(o) + 1 .. ends[o] : m \in 1 .. L
      BY <3>1, <3>2
    <3>4. \A m \in ends[o] - Length(o) + 1 .. ends[o] : offered'[m] = o
      BY <3>1, <3>2, <3>3
    <3> QED BY <3>1, <3>2, <3>4
  <2>2. /\ ends'[id] \in Length(id) .. Len(offered')
        /\ \A m \in ends'[id] - Length(id) + 1 .. ends'[id] : offered'[m] = id
    BY <1>1, <1>2
  <2> QED BY <2>1, <2>2 DEF Entered, Fresh
<1>8. Remains'
  <2>1. ASSUME NEW i \in 1 .. n
        PROVE  /\ ends'[pending'[i].id] # -1
               /\ pending'[i].left <= Length(pending'[i].id)
               /\ pending'[i].left = 0 => Length(pending'[i].id) = 0
    <3>1. /\ pending[i].id \in Ids /\ ~Fresh(pending[i].id)
          /\ pending[i].left <= Length(pending[i].id)
          /\ pending[i].left = 0 => Length(pending[i].id) = 0
      BY <1>1, <2>1 DEF Data, Remains
    <3>2. pending'[i] = pending[i] /\ ends'[pending[i].id] = ends[pending[i].id]
      BY <1>2, <1>5, <2>1, <3>1
    <3> QED BY <3>1, <3>2 DEF Fresh
  <2>2. /\ ends'[pending'[n + 1].id] # -1
        /\ pending'[n + 1].left <= Length(pending'[n + 1].id)
        /\ pending'[n + 1].left = 0 => Length(pending'[n + 1].id) = 0
    BY <1>1, <1>2, <1>4
  <2> QED BY <1>1, <1>3, <2>1, <2>2 DEF Remains, Fresh
<1>9. OncePending'
  <2>1. \A i \in 1 .. n : pending'[i].id = pending[i].id /\ pending[i].id # id
    BY <1>1, <1>2, <1>5, <1>6
  <2>2. \A i, j \in 1 .. n : pending[i].id = pending[j].id => i = j
    BY <1>1 DEF Data, OncePending
  <2> QED BY <1>1, <1>3, <1>4, <2>1, <2>2 DEF OncePending
<1>10. OnceOwed'
  BY <1>6 DEF Data, OnceOwed
<1>11. OnceDone'
  BY DEF Data, Enters, OnceDone
<1>12. Apart'
  <2>1. \A i \in 1 .. n + 1, j \in DOMAIN stack' : pending'[i].id # stack'[j]
    <3>1. \A i \in 1 .. n, j \in DOMAIN stack' : pending[i].id # stack'[j]
      BY <1>1, <1>6 DEF Data, Apart
    <3>2. \A j \in DOMAIN stack' : stack'[j] # id
      BY <1>5, <1>6
    <3> QED BY <1>1, <1>2, <1>4, <3>1, <3>2
  <2>2. \A i \in 1 .. n + 1, j \in DOMAIN done : pending'[i].id # done[j]
    <3>1. \A i \in 1 .. n, j \in DOMAIN done : pending[i].id # done[j]
      BY <1>1 DEF Data, Apart
    <3>2. \A j \in DOMAIN done : done[j] # id
      BY <1>1, <1>5, <1>6
    <3> QED BY SMTT(30), <1>1, <1>2, <1>4, <3>1, <3>2
  <2>3. \A i \in DOMAIN stack', j \in DOMAIN done : stack'[i] # done[j]
    BY <1>1, <1>6 DEF Data, Apart
  <2>4. \A i \in DOMAIN stack' : stack'[i] \in Ids => ends'[stack'[i]] # -1
    BY <1>5, <1>6 DEF Fresh
  <2>5. \A i \in DOMAIN done : ends'[done[i]] # -1
    BY <1>1, <1>5, <1>6 DEF Fresh
  <2>6. done' = done
    BY DEF Enters
  <2> QED BY <1>3, <2>1, <2>2, <2>3, <2>4, <2>5, <2>6 DEF Apart, Fresh
<1>13. Truthful'
  <2>1. wire' = wire /\ done' = done /\ flushed' = flushed /\ status' = status
    BY DEF Enters
  <2>2. \A o \in Ids : ~Fresh(o) /\ OnWire(o) => (Length(o) > 0 => ends'[o] <= Len(wire))
    BY <1>5 DEF OnWire
  <2>3. \A i \in DOMAIN stack' :
           stack'[i] \in Ids => ~Fresh(stack'[i]) /\ OnWire(stack'[i])
    BY <1>6 DEF Data, Truthful
  <2>4. \A i \in DOMAIN done : ~Fresh(done[i]) /\ OnWire(done[i])
    BY <1>6 DEF Data, Truthful
  <2>5. status # "closed" =>
           \A i \in DOMAIN stack' : stack'[i] = Closing => ends'[Closing] <= Len(wire)
    BY <1>5, <1>6, LengthFacts DEF Data, Truthful
  <2>6. flushed => ends'[Closing] \in 0 .. Len(wire)
    <3>1. flushed => ends[Closing] \in 0 .. Len(wire)
      BY DEF Data, Truthful, FlushedBeforeClose
    <3>2. flushed => ~Fresh(Closing)
      BY <1>1, <3>1 DEF Fresh
    <3> QED BY <1>5, <3>1, <3>2, LengthFacts
  <2> QED BY <1>1, <2>1, <2>2, <2>3, <2>4, <2>5, <2>6
          DEF Truthful, OnWire, FlushedBeforeClose
<1>14. NothingLost'
  <2>1. wire' = wire /\ status' = status
    BY DEF Enters
  <2>2. IsPrefix(wire, offered')
    <3>1. Len(wire) <= L /\ \A i \in 1 .. Len(wire) : wire[i] = offered[i]
      BY PrefixIs DEF Data, NothingLost, Shapes, DataShapes, L
    <3>2. /\ wire \in Seq(Messages) /\ offered' \in Seq(Messages)
          /\ Len(offered') >= L /\ \A m \in 1 .. L : offered'[m] = offered[m]
      BY <1>2, <1>15, <1>18 DEF Shapes, DataShapes
    <3>3. Len(wire) <= Len(offered') /\ \A m \in 1 .. Len(wire) : wire[m] = offered'[m]
      BY <1>1, <1>3, <3>1, <3>2
    <3> QED BY <3>2, <3>3, PrefixIs
  <2>3. ASSUME status # "closed"
        PROVE  /\ \A i \in 1 .. n + 1 :
                     ends'[pending'[i].id] - pending'[i].left =
                         IF i = 1 THEN Len(wire) ELSE ends'[pending'[i - 1].id]
               /\ Len(offered') = ends'[Last(pending').id]
    <3>1. /\ \A i \in 1 .. n :
                 ends[pending[i].id] - pending[i].left =
                     IF i = 1 THEN Len(wire) ELSE ends[pending[i - 1].id]
          /\ L = IF pending = <<>> THEN Len(wire) ELSE ends[pending[n].id]
      BY <1>1, <2>3 DEF Data, NothingLost, Last, n, L
    <3>2. pending = <<>> <=> n = 0
      BY EmptySeq DEF n, Shapes, DataShapes
    <3>3. \A i \in 1 .. n : /\ pending'[i].id = pending[i].id
                            /\ pending'[i].left = pending[i].left
                            /\ ends'[pending'[i].id] = ends[pending[i].id]
      BY <1>1, <1>2, <1>5, <1>6
    <3>4. \A i \in 2 .. n : ends'[pending'[i - 1].id] = ends[pending[i - 1].id]
      BY <1>1, <3>3
    <3>5. ASSUME NEW i \in 1 .. n
          PROVE  ends'[pending'[i].id] - pending'[i].left =
                     IF i = 1 THEN Len(wire) ELSE ends'[pending'[i - 1].id]
      <4>1. ends'[pending'[i].id] - pending'[i].left =
                IF i = 1 THEN Len(wire) ELSE ends[pending[i - 1].id]
        BY <3>1, <3>3, <3>5
      <4>2. CASE i = 1
        BY <4>1, <4>2
      <4>3. CASE i # 1
        <5>1. i \in 2 .. n
          BY <1>1, <3>5, <4>3
        <5>2. ends'[pending'[i - 1].id] = ends[pending[i - 1].id]
          BY <3>4, <5>1
        <5> QED BY <4>1, <4>3, <5>2
      <4> QED BY <4>2, <4>3
    <3>6. ends'[pending'[n + 1].id] - pending'[n + 1].left = L
      BY <1>1, <1>2, <1>4
    <3>7. IF n = 0 THEN L = Len(wire) ELSE L = ends'[pending'[n].id]
      BY <1>1, <3>1, <3>2, <3>3
    <3>8. Last(pending') = pending'[n + 1]
      BY <1>2 DEF Last
    <3>9. ASSUME NEW i \in 1 .. n + 1
          PROVE  ends'[pending'[i].id] - pending'[i].left =
                     IF i = 1 THEN Len(wire) ELSE ends'[pending'[i - 1].id]
      <4>1. CASE i \in 1 .. n
        BY <3>5, <4>1
      <4>2. CASE i = n + 1
        <5>1. CASE n = 0
          BY <3>6, <3>7, <4>2, <5>1
        <5>2. CASE n # 0
          <6>1. i # 1 /\ i - 1 = n
            BY <1>1, <4>2, <5>2
          <6> QED BY <3>6, <3>7, <4>2, <5>2, <6>1
        <5> QED BY <5>1, <5>2
      <4> QED BY <1>1, <4>1, <4>2
    <3>10. Len(offered') = ends'[Last(pending').id]
      BY <1>2, <1>4, <3>8
    <3> QED BY <3>9, <3>10
  <2> QED BY <1>3, <2>1, <2>2, <2>3 DEF NothingLost
<1> QED BY <1>7, <1>8, <1>9, <1>10, <1>11, <1>12, <1>13, <1>14 DEF Data

LEMMA TransmitData ==
    ASSUME Shapes, InLoop, Data, NEW k \in 0 .. Capacity, Transmit(k)
    PROVE  Data'
<1> DEFINE n == Len(pending)
           p == pending[1]
           W == Len(wire)
           L == Len(offered)
<1>1. /\ n \in Nat /\ n >= 1 /\ 1 \in 1 .. n /\ DOMAIN pending = 1 .. n
      /\ W \in Nat /\ L \in Nat /\ k \in Nat /\ k <= p.left
  <2>1. /\ n \in Nat /\ DOMAIN pending = 1 .. n /\ W \in Nat /\ L \in Nat
    BY Domains
  <2>2. k \in Nat
    BY CapacityAssumption
  <2>3. n >= 1 /\ k <= p.left
    BY TransmitFacts
  <2> QED BY <2>1, <2>2, <2>3
<1>11. \A i \in 1 .. n : pending[i].id \in Ids /\ pending[i].left \in Nat
  BY Domains
<1>12. \A i \in DOMAIN done : done[i] \in Ids
  BY Domains
<1>13. DOMAIN stack = 1 .. Len(stack) /\ Len(stack) \in Nat
  BY Domains
<1>14. \A o \in Ids : ends[o] \in Int /\ Length(o) \in Nat
  BY LengthFacts DEF Shapes, DataShapes
<1>2. /\ wire' \in Seq(Messages) /\ Len(wire') = W + k /\ IsPrefix(wire', offered)
  BY WireFacts
<1>0. pending[1] = p /\ Len(pending) = n /\ Len(wire) = W /\ Len(offered) = L
  OBVIOUS
<1> HIDE DEF n, p, W, L
<1>3. /\ UNCHANGED <<offered, ends, done, flushed, status>>
      /\ stack # <<>> /\ pending # <<>>
  BY <1>0 DEF Transmit, InLoop, flags
<1>4. /\ p.left = 0 => k = 0
      /\ k = 0 => p.left = 0
      /\ k > 0 => status = "open"
  <2>1. Head(pending) = p
    <3>1. pending \in Seq([id: Ids, left: Nat])
      BY <1>0 DEF Shapes, DataShapes
    <3> QED BY <1>0, <1>3, <3>1
  <2> QED BY <1>0, <2>1 DEF Transmit, First
<1>5. p.id \in Ids /\ ~Fresh(p.id) /\ p.left <= Length(p.id) /\ p.left \in Nat
      /\ (p.left = 0 => Length(p.id) = 0)
  BY <1>0, <1>1, <1>11 DEF Data, Remains
<1>6. status # "closed" => ends[p.id] - p.left = W
  BY <1>0, <1>1 DEF Data, NothingLost
<1>7. /\ Entered' /\ OnceDone'
      /\ \A o \in Ids : OnWire(o) /\ Length(o) > 0 => ends[o] <= W + k
      /\ FlushedBeforeClose'
  <2>1. Entered' /\ OnceDone'
    BY <1>3 DEF Data, Entered, OnceDone, Fresh
  <2>2. \A o \in Ids : OnWire(o) /\ Length(o) > 0 => ends[o] <= W + k
    BY <1>0, <1>1, <1>14 DEF OnWire
  <2>3. FlushedBeforeClose'
    BY <1>0, <1>1, <1>2, <1>3 DEF Data, Truthful, FlushedBeforeClose
  <2> QED BY <2>1, <2>2, <2>3
<1>8. pending' \in Seq([id: Ids, left: Nat])
  BY <1>0, TransmitFacts
<1>9. CASE k # p.left
  <2>1. /\ Len(pending') = n
        /\ pending'[1] = [id |-> p.id, left |-> p.left - k]
        /\ \A i \in 2 .. n : pending'[i] = pending[i]
    BY <1>0, <1>9, TransmitFacts
  <2>2. /\ DOMAIN pending' = 1 .. n
        /\ \A i \in 1 .. n : pending'[i].id = pending[i].id
        /\ pending'[1].left = p.left - k
        /\ pending' # <<>>
    <3>1. DOMAIN pending' = 1 .. n
      BY <1>0, <1>8, <2>1, LenProperties
    <3>2. pending'[1].id = p.id /\ pending'[1].left = p.left - k
      BY <1>0, <2>1
    <3>3. \A i \in 1 .. n : i = 1 \/ i \in 2 .. n
      BY <1>14
    <3> QED BY <1>0, <1>1, <2>1, <3>1, <3>2, <3>3
  <2>3. Owing
    <3>1. Owes(None)
      <4>1. Head(pending) = p
        <5>1. pending \in Seq([id: Ids, left: Nat])
          BY <1>0 DEF Shapes, DataShapes
        <5> QED BY <1>0, <1>3, <5>1
      <4> QED BY <1>0, <1>9, <4>1 DEF Transmit, First
    <3> QED BY <1>0, <1>3, <3>1, OwingFacts
  <2>4. \A i \in DOMAIN stack' :
           stack'[i] \in Ids => i \in DOMAIN stack /\ stack'[i] = stack[i]
    BY <1>0, <2>3 DEF Owing, NoMoreOwed
  <2>5. Remains'
    <3>1. ASSUME NEW i \in 1 .. n
          PROVE  /\ ends[pending'[i].id] # -1
                 /\ pending'[i].left <= Length(pending'[i].id)
                 /\ pending'[i].left = 0 => Length(pending'[i].id) = 0
      <4>1. CASE i = 1
        BY <1>0, <1>14, <1>4, <1>5, <1>9, <2>2, <4>1 DEF Fresh
      <4>2. CASE i # 1
        <5>1. pending'[i] = pending[i]
          BY <2>1, <4>2
        <5> QED BY <1>1, <5>1 DEF Data, Remains, Fresh
      <4> QED BY <4>1, <4>2
    <3> QED BY <1>0, <1>3, <2>2, <3>1 DEF Remains, Fresh
  <2>6. OncePending' /\ OnceOwed'
    BY <1>1, <2>2, <2>4 DEF Data, OncePending, OnceOwed
  <2>7. Apart'
    <3>1. ASSUME NEW i \in 1 .. n, NEW j \in DOMAIN stack'
          PROVE  pending'[i].id # stack'[j]
      <4>1. pending'[i].id = pending[i].id /\ pending[i].id \in Ids
        BY <1>11, <2>2
      <4>2. j \in DOMAIN stack => pending[i].id # stack[j]
        BY <1>1 DEF Data, Apart
      <4> QED BY <2>4, <4>1, <4>2
    <3>2. \A i \in DOMAIN stack', j \in DOMAIN done : stack'[i] # done[j]
      BY <1>12, <2>4 DEF Data, Apart
    <3>3. \A i \in 1 .. n, j \in DOMAIN done : pending'[i].id # done[j]
      BY <1>1, <2>2 DEF Data, Apart
    <3> QED BY <1>0, <1>3, <2>2, <2>4, <3>1, <3>2, <3>3 DEF Data, Apart, Fresh
  <2>8. Truthful'
    <3>1. \A i \in DOMAIN stack' : stack'[i] \in Ids /\ Length(stack'[i]) > 0 => ends[stack'[i]] <= W + k
      BY <1>0, <1>7, <2>4 DEF Data, Truthful
    <3>2. \A i \in DOMAIN done : Length(done[i]) > 0 => ends[done[i]] <= W + k
      BY <1>12, <1>7 DEF Data, Truthful
    <3>3. status # "closed" =>
             \A i \in DOMAIN stack' : stack'[i] = Closing => ends[Closing] <= W
      BY <1>0, <2>4, LengthFacts DEF Data, Truthful
    <3> QED BY <1>1, <1>14, <1>2, <1>3, <1>7, <3>1, <3>2, <3>3, LengthFacts DEF Truthful, OnWire
  <2>9. NothingLost'
    <3>1. ASSUME status # "closed", NEW i \in 1 .. n
          PROVE  ends[pending'[i].id] - pending'[i].left =
                     IF i = 1 THEN W + k ELSE ends[pending'[i - 1].id]
      <4>1. CASE i = 1
        <5>1. pending'[1].id = p.id /\ pending'[1].left = p.left - k
          BY <1>0, <1>1, <2>2
        <5>2. ends[p.id] \in Int /\ p.left \in Nat /\ ends[p.id] - p.left = W
          BY <1>5, <1>6, <1>14, <3>1
        <5> QED BY <1>1, <4>1, <5>1, <5>2
      <4>2. CASE i # 1
        <5>1. /\ pending'[i] = pending[i] /\ i - 1 \in 1 .. n
              /\ pending'[i - 1].id = pending[i - 1].id
          BY <2>1, <2>2, <4>2
        <5>2. ends[pending[i].id] - pending[i].left = ends[pending[i - 1].id]
          BY <1>1, <3>1, <4>2 DEF Data, NothingLost
        <5> QED BY <4>2, <5>1, <5>2
      <4> QED BY <4>1, <4>2
    <3>2. status # "closed" => L = ends[Last(pending').id]
      <4>1. Last(pending').id = Last(pending).id
        BY <1>1, <2>1, <2>2 DEF Last
      <4> QED BY <1>0, <1>3, <4>1 DEF Data, NothingLost
    <3> QED BY <1>0, <1>2, <1>3, <2>2, <3>1, <3>2 DEF NothingLost
  <2> QED BY <1>0, <1>7, <2>5, <2>6, <2>7, <2>8, <2>9 DEF Data
<1>10. CASE k = p.left
  <2>1. /\ Len(pending') = n - 1
        /\ \A i \in 1 .. n - 1 : pending'[i] = pending[i + 1]
    BY <1>0, <1>10, TransmitFacts
  <2>2. DOMAIN pending' = 1 .. n - 1
    BY <1>0, <1>8, <2>1, LenProperties
  <2>3. /\ DOMAIN stack' = DOMAIN stack
        /\ \A i \in 1 .. Len(stack) - 1 : stack'[i] = stack[i]
        /\ stack'[Len(stack)] = p.id
        /\ Len(stack) >= 1
    <3>1. stack' = Append(Front(stack), p.id)
      <4>1. Head(pending) = p
        <5>1. pending \in Seq([id: Ids, left: Nat])
          BY <1>0 DEF Shapes, DataShapes
        <5> QED BY <1>0, <1>3, <5>1
      <4> QED BY <1>0, <1>10, <4>1 DEF Transmit, First, Owes
    <3>2. /\ Append(Front(stack), p.id) \in Seq(Ids \cup {None, Connect})
          /\ Len(Append(Front(stack), p.id)) = Len(stack)
          /\ \A i \in 1 .. Len(stack) - 1 : Append(Front(stack), p.id)[i] = stack[i]
          /\ Append(Front(stack), p.id)[Len(stack)] = p.id
          /\ Len(stack) \in 1 .. Len(stack)
      BY <1>0, <1>3, <1>5, StackFacts DEF Shapes, StackShape
    <3>3. stack' \in Seq(Ids \cup {None, Connect}) /\ Len(stack') = Len(stack)
      BY <3>1, <3>2
    <3>4. DOMAIN stack' = 1 .. Len(stack)
      BY <3>3, LenProperties
    <3>5. stack' = Append(Front(stack), p.id) /\ Len(stack) >= 1
      BY <1>13, <3>1, <3>2
    <3> QED BY <1>13, <3>2, <3>4, <3>5
  <2>4. \A i \in DOMAIN stack' :
           \/ i \in DOMAIN stack /\ i # Len(stack) /\ stack'[i] = stack[i]
           \/ i = Len(stack) /\ stack'[i] = p.id
    BY <2>3
  <2>5. \A i \in 1 .. n - 1 : i + 1 \in 1 .. n /\ i + 1 # 1
    BY <1>1
  <2>6. Remains'
    <3>1. ASSUME NEW i \in 1 .. n - 1
          PROVE  /\ ends[pending'[i].id] # -1
                 /\ pending'[i].left <= Length(pending'[i].id)
                 /\ pending'[i].left = 0 => Length(pending'[i].id) = 0
      <4>1. pending'[i] = pending[i + 1] /\ i + 1 \in DOMAIN pending
        BY <1>1, <2>1, <2>5
      <4> QED BY <4>1 DEF Data, Remains, Fresh
    <3> QED BY <1>3, <2>2, <3>1 DEF Remains, Fresh
  <2>7. OncePending'
    <3>1. ASSUME NEW i \in 1 .. n - 1, NEW j \in 1 .. n - 1,
                 pending'[i].id = pending'[j].id
          PROVE  i = j
      <4>1. /\ pending[i + 1].id = pending[j + 1].id
            /\ i + 1 \in DOMAIN pending /\ j + 1 \in DOMAIN pending
        BY SMTT(30), <1>1, <2>1, <2>5, <3>1
      <4>2. i + 1 = j + 1
        BY <4>1 DEF Data, OncePending
      <4> QED BY <1>1, <4>2
    <3> QED BY <2>2, <3>1 DEF OncePending
  <2>8. OnceOwed'
    <3>1. \A i \in DOMAIN stack : stack[i] # p.id
      BY <1>0, <1>1 DEF Data, Apart
    <3> QED BY <1>0, <2>4, <3>1 DEF Data, OnceOwed
  <2>9. Apart'
    <3>1. ASSUME NEW i \in 1 .. n - 1, NEW j \in DOMAIN stack'
          PROVE  pending'[i].id # stack'[j]
      <4>1. /\ pending'[i] = pending[i + 1] /\ i + 1 \in DOMAIN pending
            /\ 1 \in DOMAIN pending /\ i + 1 # 1
        BY <1>1, <2>1, <2>5
      <4>2. pending[i + 1].id # p.id
        BY <1>0, <4>1 DEF Data, OncePending
      <4>3. j \in DOMAIN stack => pending[i + 1].id # stack[j]
        BY <4>1 DEF Data, Apart
      <4> QED BY <2>4, <4>1, <4>2, <4>3
    <3>2. ASSUME NEW i \in DOMAIN stack', NEW j \in DOMAIN done
          PROVE  stack'[i] # done[j]
      <4>1. p.id # done[j]
        BY <1>0, <1>1 DEF Data, Apart
      <4>2. i \in DOMAIN stack => stack[i] # done[j]
        BY DEF Data, Apart
      <4> QED BY <2>4, <4>1, <4>2
    <3>3. ASSUME NEW i \in 1 .. n - 1, NEW j \in DOMAIN done
          PROVE  pending'[i].id # done[j]
      <4>1. pending'[i] = pending[i + 1] /\ i + 1 \in DOMAIN pending
        BY <1>1, <2>1, <2>5
      <4> QED BY <4>1 DEF Data, Apart
    <3>4. \A i \in DOMAIN stack' : stack'[i] \in Ids => ~Fresh(stack'[i])
      BY <1>0, <1>5, <2>4 DEF Data, Apart
    <3> QED BY <1>0, <1>3, <2>2, <3>1, <3>2, <3>3, <3>4 DEF Data, Apart, Fresh
  <2>10. Truthful'
    <3>1. Length(p.id) > 0 => ends[p.id] <= W + k
      <4>1. Length(p.id) > 0 => status # "closed" /\ p.left = k
        BY <1>4, <1>5, <1>10
      <4>2. ends[p.id] \in Int
        BY <1>5, <1>14
      <4> QED BY <1>1, <1>6, <4>1, <4>2
    <3>2. \A i \in DOMAIN stack' : stack'[i] \in Ids /\ Length(stack'[i]) > 0 => ends[stack'[i]] <= W + k
      BY <1>0, <1>7, <2>4, <3>1 DEF Data, Truthful
    <3>3. \A i \in DOMAIN done : Length(done[i]) > 0 => ends[done[i]] <= W + k
      BY <1>12, <1>7 DEF Data, Truthful
    <3>4. status # "closed" =>
             \A i \in DOMAIN stack' : stack'[i] = Closing => ends[Closing] <= W + k
      <4>1. status # "closed" => (p.id = Closing => ends[Closing] <= W + k)
        BY <1>14, <1>5, <1>6, <1>10
      <4>2. status # "closed" =>
               \A i \in DOMAIN stack : stack[i] = Closing => ends[Closing] <= W
        BY <1>0 DEF Data, Truthful
      <4> QED BY <1>1, <1>14, <2>4, <4>1, <4>2, LengthFacts
    <3> QED BY <1>0, <1>2, <1>3, <1>7, <3>2, <3>3, <3>4 DEF Truthful, OnWire
  <2>11. NothingLost'
    <3>1. ASSUME status # "closed", NEW i \in 1 .. n - 1
          PROVE  ends[pending'[i].id] - pending'[i].left =
                     IF i = 1 THEN W + k ELSE ends[pending'[i - 1].id]
      <4>1. /\ i + 1 \in 1 .. n /\ i + 1 # 1 /\ i + 1 - 1 = i
            /\ pending'[i] = pending[i + 1]
        BY <1>1, <2>1
      <4>2. ends[pending[i + 1].id] - pending[i + 1].left = ends[pending[i].id]
        <5>1. \A j \in DOMAIN pending :
                 ends[pending[j].id] - pending[j].left =
                     IF j = 1 THEN W ELSE ends[pending[j - 1].id]
          BY <1>0, <3>1 DEF Data, NothingLost
        <5>2. ends[pending[i + 1].id] - pending[i + 1].left = ends[pending[i + 1 - 1].id]
          BY <1>1, <4>1, <5>1
        <5> QED BY <4>1, <5>2
      <4>3. CASE i = 1
        BY <1>0, <1>14, <1>5, <1>6, <1>10, <3>1, <4>1, <4>2, <4>3
      <4>4. CASE i # 1
        <5>1. i - 1 \in 1 .. n - 1 /\ pending'[i - 1] = pending[i]
          <6>1. i - 1 \in 1 .. n - 1 /\ i - 1 + 1 = i
            BY <1>1, <4>4
          <6> QED BY <1>0, <2>1, <6>1
        <5> QED BY <4>1, <4>2, <4>4, <5>1
      <4> QED BY <4>3, <4>4
    <3>2. ASSUME status # "closed"
          PROVE  L = IF pending' = <<>> THEN W + k ELSE ends[Last(pending').id]
      <4>1. L = ends[pending[n].id]
        BY <1>0, <1>3, <3>2 DEF Data, NothingLost, Last
      <4>2. pending' = <<>> <=> n = 1
        BY <1>1, <1>8, <2>1, EmptySeq
      <4>3. CASE n = 1
        BY <1>0, <1>6, <1>10, <3>2, <4>1, <4>2, <4>3
      <4>4. CASE n # 1
        <5>1. n - 1 \in 1 .. n - 1 /\ n - 1 + 1 = n
          BY <1>1, <4>4
        <5>2. Last(pending') = pending[n]
          BY <1>0, <2>1, <5>1 DEF Last
        <5> QED BY <4>1, <4>2, <4>4, <5>2
      <4> QED BY <4>3, <4>4
    <3> QED BY <1>0, <1>2, <1>3, <2>2, <3>1, <3>2 DEF NothingLost
  <2> QED BY <1>0, <1>7, <2>6, <2>7, <2>8, <2>9, <2>10, <2>11 DEF Data
<1> QED BY <1>9, <1>10

LEMMA CallbackData ==
    ASSUME Shapes, Data, Callback
    PROVE  Data'
<1> DEFINE c == stack[Len(stack)]
           d == Len(done)
<1>1. /\ DOMAIN stack = 1 .. Len(stack) /\ Len(stack) \in Nat
      /\ DOMAIN done = 1 .. d /\ d \in Nat /\ \A i \in 1 .. d : done[i] \in Ids
      /\ DOMAIN pending = 1 .. Len(pending)
      /\ \A i \in DOMAIN pending : pending[i].id \in Ids
      /\ Len(wire) \in Nat
  BY Domains
<1>2. stack # <<>> /\ c = Top /\ c \in Ids /\ Len(stack) \in DOMAIN stack
  <2>1. stack # <<>> /\ c = Top /\ c \in Ids
    BY DEF Callback, Top, Last
  <2>2. Len(stack) \in 1 .. Len(stack)
    BY <2>1, StackFacts, LengthFacts DEF Shapes, StackShape
  <2> QED BY <1>1, <2>1, <2>2
<1>3. /\ DOMAIN done' = 1 .. d + 1
      /\ \A i \in 1 .. d : done'[i] = done[i]
      /\ done'[d + 1] = c
  <2>1. done \in Seq(Ids) /\ done' = Append(done, c)
    BY <1>2 DEF Shapes, DataShapes, Callback
  <2>2. /\ done' \in Seq(Ids) /\ Len(done') = d + 1
        /\ \A i \in 1 .. d : done'[i] = done[i]
        /\ done'[d + 1] = c
    BY <1>1, <1>2, <2>1, AppendProperties
  <2> QED BY <2>2, LenProperties
<1>4. \A i \in DOMAIN stack' : stack'[i] \in Ids =>
          i \in DOMAIN stack /\ stack'[i] = stack[i] /\ stack'[i] # c
  <2>1. Owing
    BY OwingFacts DEF Callback
  <2>2. stack' = Append(Front(stack), None)
    BY DEF Callback, Owes
  <2>3. Append(Front(stack), None)[Len(stack)] = None
    BY <1>2, StackFacts DEF Shapes, StackShape
  <2>4. stack'[Len(stack)] \notin Ids
    BY <2>2, <2>3, LengthFacts
  <2>5. \A i \in DOMAIN stack' : stack'[i] \in Ids =>
            i \in DOMAIN stack /\ stack'[i] = stack[i] /\ i # Len(stack)
    BY <2>1, <2>4 DEF Owing, NoMoreOwed
  <2>6. \A i \in DOMAIN stack : stack[i] \in Ids /\ stack[i] = c => i = Len(stack)
    BY <1>2 DEF Data, OnceOwed
  <2> QED BY <2>5, <2>6
<1> HIDE DEF c, d
<1>5. /\ UNCHANGED <<offered, ends, wire>>
      /\ \/ pending' = pending /\ (status' = "closed" <=> status = "closed")
         \/ pending' = <<>> /\ status' = "closed"
  <2>1. UNCHANGED <<offered, ends, wire>>
    BY DEF Callback
  <2>2. CASE CloseNow
    BY <2>1, <2>2 DEF CloseNow, queue
  <2>3. CASE UNCHANGED <<status, queue>>
    BY <2>1, <2>3 DEF queue
  <2> QED BY <2>1, <2>2, <2>3 DEF Callback
<1>6. \A i \in DOMAIN pending' :
          i \in DOMAIN pending /\ pending'[i] = pending[i] /\ pending' = pending
  BY <1>5
<1>7. ~Fresh(c) /\ OnWire(c)
  BY <1>2 DEF Data, Apart, Truthful, c
<1>8. Entered'
  BY <1>5 DEF Data, Entered, Fresh
<1>9. Remains' /\ OncePending'
  BY <1>5, <1>6 DEF Data, Remains, OncePending, Fresh
<1>10. OnceOwed'
  BY <1>4 DEF Data, OnceOwed
<1>11. \A i \in DOMAIN done : done[i] # c
  BY <1>2 DEF Data, Apart, c
<1>12. OnceDone'
  <2>1. ASSUME NEW i \in 1 .. d + 1, NEW j \in 1 .. d + 1, done'[i] = done'[j]
        PROVE  i = j
    <3>1. CASE i = d + 1 \/ j = d + 1
      BY <1>1, <1>3, <1>11, <2>1, <3>1
    <3>2. CASE i # d + 1 /\ j # d + 1
      <4>1. i \in 1 .. d /\ j \in 1 .. d
        BY <1>1, <3>2
      <4>2. done[i] = done[j]
        BY <1>3, <2>1, <4>1
      <4> QED BY <1>1, <4>1, <4>2 DEF Data, OnceDone, IsInjective
    <3> QED BY <3>1, <3>2
  <2> QED BY <1>3, <2>1 DEF OnceDone, IsInjective
<1>13. \A i \in DOMAIN done' : done'[i] = c \/ (i \in DOMAIN done /\ done'[i] = done[i])
  <2>1. ASSUME NEW i \in 1 .. d + 1
        PROVE  done'[i] = c \/ (i \in DOMAIN done /\ done'[i] = done[i])
    <3>1. CASE i \in 1 .. d
      <4>1. done'[i] = done[i]
        BY <1>3, <3>1
      <4>2. i \in DOMAIN done
        BY <1>1, <3>1
      <4> QED BY <4>1, <4>2
    <3>2. CASE i = d + 1
      BY <1>1, <1>3, <3>2
    <3> QED BY <1>1, <3>1, <3>2
  <2> QED BY <1>3, <2>1
<1>14. Apart'
  <2>1. ASSUME NEW i \in DOMAIN pending', NEW j \in DOMAIN stack'
        PROVE  pending'[i].id # stack'[j]
    BY <1>1, <1>4, <1>6 DEF Data, Apart
  <2>2. ASSUME NEW i \in DOMAIN pending', NEW j \in DOMAIN done'
        PROVE  pending'[i].id # done'[j]
    <3>1. pending[i].id # c /\ i \in DOMAIN pending
      BY <1>2, <1>6 DEF Data, Apart, c
    <3>2. j \in DOMAIN done => pending[i].id # done[j]
      BY <3>1 DEF Data, Apart
    <3> QED BY <1>6, <1>13, <3>1, <3>2
  <2>3. ASSUME NEW i \in DOMAIN stack', NEW j \in DOMAIN done'
        PROVE  stack'[i] # done'[j]
    <3>1. done'[j] \in Ids
      BY <1>1, <1>2, <1>13
    <3>2. ASSUME stack'[i] \in Ids
          PROVE  stack'[i] # done'[j]
      <4>1. i \in DOMAIN stack /\ stack'[i] = stack[i] /\ stack'[i] # c
        BY <1>4, <3>2
      <4>2. j \in DOMAIN done => stack[i] # done[j]
        BY <4>1 DEF Data, Apart
      <4> QED BY <1>13, <4>1, <4>2
    <3> QED BY <3>1, <3>2
  <2>4. \A i \in DOMAIN stack' : stack'[i] \in Ids => ends[stack'[i]] # -1
    BY <1>4 DEF Data, Apart, Fresh
  <2>5. \A i \in DOMAIN done' : ends[done'[i]] # -1
    BY <1>7, <1>13 DEF Data, Apart, Fresh
  <2> QED BY <1>5, <2>1, <2>2, <2>3, <2>4, <2>5 DEF Apart, Fresh
<1>15. Truthful'
  <2>1. \A i \in DOMAIN stack' : stack'[i] \in Ids => OnWire(stack'[i])
    BY <1>4 DEF Data, Truthful
  <2>2. \A i \in DOMAIN done' : OnWire(done'[i])
    BY <1>7, <1>13 DEF Data, Truthful
  <2>3. status' # "closed" =>
            \A i \in DOMAIN stack' : stack'[i] = Closing => ends[Closing] <= Len(wire)
    BY <1>4, <1>5, LengthFacts DEF Data, Truthful
  <2>4. flushed' => ends[Closing] \in 0 .. Len(wire)
    <3>1. flushed => ends[Closing] \in 0 .. Len(wire)
      BY DEF Data, Truthful, FlushedBeforeClose
    <3>2. CASE status = "open" /\ c = Closing
      <4>1. ends[Closing] <= Len(wire)
        BY <1>2, <3>2 DEF Data, Truthful, c
      <4>2. ends[Closing] \in Nat
        BY <1>7, <3>2, LengthFacts DEF Fresh, Shapes, DataShapes
      <4> QED BY <1>1, <4>1, <4>2
    <3>3. CASE ~(status = "open" /\ c = Closing)
      <4>1. flushed' => flushed
        BY <1>2, <3>3 DEF Callback
      <4> QED BY <3>1, <4>1
    <3> QED BY <3>2, <3>3
  <2> QED BY <1>5, <2>1, <2>2, <2>3, <2>4 DEF Truthful, OnWire, FlushedBeforeClose
<1>16. NothingLost'
  <2>1. CASE pending' = pending /\ (status' = "closed" <=> status = "closed")
    BY <1>5, <2>1 DEF Data, NothingLost
  <2>2. CASE pending' = <<>> /\ status' = "closed"
    BY <1>5, <2>2 DEF Data, NothingLost
  <2> QED BY <1>5, <2>1, <2>2
<1> QED BY <1>8, <1>9, <1>10, <1>12, <1>14, <1>15, <1>16 DEF Data

LEMMA DataStep ==
    ASSUME Shapes, InLoop, Elsewhere, Data, [ConnectionNext]_connectionVars
    PROVE  Data'
BY Moves, KeepsData, DropsData, EntersData, TransmitData, CallbackData

-----------------------------------------------------------------------------
(* The loop of _send(), the other thread and the count.                    *)

\* What a stack is without its last element, and with another in its place.
LEMMA TopFacts ==
    ASSUME NEW S, NEW s \in Seq(S), s # <<>>, NEW x \in S
    PROVE  /\ DOMAIN s = 1 .. Len(s) /\ Len(s) \in Nat /\ s[Len(s)] = Last(s)
           /\ DOMAIN Front(s) = 1 .. Len(s) - 1
           /\ \A i \in 1 .. Len(s) - 1 : Front(s)[i] = s[i]
           /\ DOMAIN Append(Front(s), x) = 1 .. Len(s)
           /\ \A i \in 1 .. Len(s) - 1 : Append(Front(s), x)[i] = s[i]
<1> DEFINE f == Front(s)
           a == Append(Front(s), x)
<1>1. /\ f \in Seq(S) /\ Len(f) = Len(s) - 1 /\ a \in Seq(S) /\ Len(a) = Len(s)
      /\ \A i \in 1 .. Len(s) - 1 : f[i] = s[i]
      /\ \A i \in 1 .. Len(s) - 1 : a[i] = s[i]
      /\ Last(s) = s[Len(s)]
  BY StackFacts
<1> HIDE DEF f, a
<1>2. /\ DOMAIN f = 1 .. Len(f) /\ DOMAIN a = 1 .. Len(a)
      /\ DOMAIN s = 1 .. Len(s) /\ Len(s) \in Nat
  BY <1>1, LenProperties
<1> QED BY <1>1, <1>2 DEF f, a

\* Who is owed a callback is still owed it.
StillOwed ==
    \A i \in DOMAIN stack : stack[i] \in Ids =>
        \E j \in DOMAIN stack' : stack'[j] = stack[i]

\* A _send() that begins, goes on or ends owes no less, if it owed nothing.
LEMMA StillOwedFacts ==
    ASSUME Shapes, NEW x \in Ids \cup {None, Connect},
           \/ stack' = stack
           \/ stack' = Append(stack, x)
           \/ stack # <<>> /\ Top \notin Ids /\ (stack' = Front(stack) \/ Owes(x))
    PROVE  StillOwed
<1> DEFINE S == Ids \cup {None, Connect}
<1>1. /\ stack \in Seq(S) /\ DOMAIN stack = 1 .. Len(stack) /\ Len(stack) \in Nat
  BY Domains DEF Shapes, StackShape
<1>2. CASE stack' = stack
  BY <1>2 DEF StillOwed
<1>3. CASE stack' = Append(stack, x)
  <2>1. DOMAIN stack' = 1 .. Len(stack) + 1 /\ \A i \in 1 .. Len(stack) : stack'[i] = stack[i]
    BY <1>1, <1>3, AppendProperties, LenProperties
  <2> QED BY <1>1, <2>1 DEF StillOwed
<1>4. CASE stack # <<>> /\ Top \notin Ids /\ (stack' = Front(stack) \/ Owes(x))
  <2> DEFINE n == Len(stack)
  <2>1. /\ DOMAIN stack = 1 .. n /\ n \in Nat /\ stack[n] = Top
        /\ DOMAIN Front(stack) = 1 .. n - 1
        /\ \A i \in 1 .. n - 1 : Front(stack)[i] = stack[i]
        /\ DOMAIN Append(Front(stack), x) = 1 .. n
        /\ \A i \in 1 .. n - 1 : Append(Front(stack), x)[i] = stack[i]
    <3>1. x \in S /\ stack \in Seq(S) /\ stack # <<>>
      BY <1>1, <1>4
    <3> HIDE DEF S
    <3> QED BY <3>1, TopFacts DEF Top
  <2> HIDE DEF n
  <2>2. \A i \in DOMAIN stack : stack[i] \in Ids => i \in 1 .. n - 1
    BY <1>4, <2>1
  <2>3. stack' = Front(stack) \/ stack' = Append(Front(stack), x)
    BY <1>4 DEF Owes
  <2>4. \A i \in 1 .. n - 1 : i \in DOMAIN stack' /\ stack'[i] = stack[i]
    BY <2>1, <2>3
  <2> QED BY <2>2, <2>4 DEF StillOwed
<1> QED BY <1>2, <1>3, <1>4

\* The calls of send() and of the loop that may begin a _send().
LEMMA WakeStillOwed ==
    ASSUME Shapes, NEW d \in BOOLEAN, Wake(d) \/ EnsureWrite \/ OnWrite
    PROVE  StillOwed
<1>1. ASSUME OnWrite PROVE StillOwed
  BY <1>1, StillOwedFacts DEF OnWrite
<1>2. ASSUME UNCHANGED control PROVE StillOwed
  BY <1>2 DEF control, StillOwed
<1>3. ASSUME EnsureWrite PROVE StillOwed
  BY <1>1, <1>2, <1>3 DEF EnsureWrite
<1> QED BY <1>1, <1>2, <1>3 DEF Wake

\* Only a callback that is called, and a close, take one that was owed.
LEMMA OwedStays ==
    ASSUME Shapes, InLoop, [ConnectionNext]_connectionVars, status' # "closed"
    PROVE  Callback \/ StillOwed
<1> USE DEF queue, flags, subs, delays, kernel, control, thread, history
<1>0. /\ None \notin Ids /\ Connect \notin Ids
  BY LengthFacts
<1>1. ASSUME UNCHANGED stack PROVE StillOwed
  BY <1>1 DEF StillOwed
<1>2. CASE UNCHANGED connectionVars
  BY <1>1, <1>2 DEF connectionVars
<1>3. ASSUME NEW connect \in BOOLEAN, Open(connect) PROVE StillOwed
  BY <1>1, <1>3 DEF Open
<1>4. CASE Close \/ EnableRead \/ DisableRead
  BY <1>1, <1>4 DEF Close, EnableRead, DisableRead
<1>5. CASE CloseFlush
  BY <1>5, WakeStillOwed DEF CloseFlush
<1>6. ASSUME NEW m \in Messages, NEW d \in BOOLEAN, Send(m, d) PROVE StillOwed
  BY <1>6, WakeStillOwed DEF Send
<1>7. ASSUME NEW m \in Messages, SendAhead(m) PROVE StillOwed
  BY <1>1, <1>7 DEF SendAhead
<1>8. CASE PollWrite
  BY <1>8, WakeStillOwed DEF PollWrite
<1>9. CASE DelayedFlush
  BY <1>1, <1>9, WakeStillOwed DEF DelayedFlush
<1>10. CASE DelayedEnsure
  BY <1>1, <1>10, WakeStillOwed DEF DelayedEnsure
<1>11. ASSUME NEW k \in 0 .. Capacity, Transmit(k) PROVE StillOwed
  <2>1. stack # <<>> /\ Top \notin Ids
    BY <1>0, <1>11 DEF Transmit, InLoop
  <2>2. \E x \in Ids \cup {None, Connect} : Owes(x)
    <3>1. First.id \in Ids
      <4>1. pending[1] \in [id: Ids, left: Nat] /\ pending # <<>>
        BY <1>11, TransmitFacts DEF Transmit
      <4> QED BY <4>1 DEF First, Shapes, DataShapes
    <3> QED BY <1>11, <3>1 DEF Transmit
  <2> QED BY <2>1, <2>2, StillOwedFacts
<1>12. CASE Refused \/ Drained \/ SocketFails
  <2>1. stack # <<>> /\ Top \notin Ids /\ stack' = Front(stack)
    BY <1>0, <1>12 DEF Refused, Drained, SocketFails, InLoop
  <2> QED BY <2>1, StillOwedFacts
<1>13. CASE UserRaises
  BY <1>13 DEF UserRaises, CloseNow
<1>14. CASE Return
  <2>1. stack # <<>> /\ Top \notin Ids /\ Owes(None)
    BY <1>0, <1>14 DEF Return
  <2> QED BY <2>1, StillOwedFacts
<1>15. CASE Connected
  BY <1>1, <1>15 DEF Connected
<1>16. ASSUME NEW k \in 1 .. Capacity, PeerReads(k) PROVE StillOwed
  BY <1>1, <1>16 DEF PeerReads
<1>17. ASSUME NEW m \in Messages, ForeignSend(m) PROVE StillOwed
  BY <1>1, <1>17 DEF ForeignSend
<1>18. CASE ForeignStep
  BY <1>1, <1>18 DEF ForeignStep, ForeignAppend, ForeignRead, ForeignWrite,
                     ForeignWake, ForeignDelay
<1> QED BY <1>2, <1>3, <1>4, <1>5, <1>6, <1>7, <1>8, <1>9, <1>10, <1>11, <1>12,
           <1>13, <1>14, <1>15, <1>16, <1>17, <1>18
        DEF ConnectionNext, UserStep, LoopStep, PeerStep

\* A message goes from the queue to who owes its callback, and from there to
\* those that were called; nothing else takes it from where it is.
LEMMA ForgottenStep ==
    ASSUME ConnectionInv, [ConnectionNext]_connectionVars
    PROVE  NoneForgotten'
<1> DEFINE InQueue(id) == \E i \in DOMAIN pending : pending[i].id = id
           IsOwed(id) == \E i \in DOMAIN stack : stack[i] = id
           IsCalled(id) == \E i \in DOMAIN done : done[i] = id
<1> SUFFICES ASSUME status' # "closed", NEW id \in Ids, ~Fresh(id)'
             PROVE  InQueue(id)' \/ IsOwed(id)' \/ IsCalled(id)'
  BY DEF NoneForgotten
<1>0. Shapes /\ Shapes' /\ InLoop /\ Elsewhere /\ NoneForgotten
  BY ShapesStep DEF ConnectionInv
<1>1. ASSUME StillOwed, IsOwed(id) PROVE IsOwed(id)'
  BY <1>1 DEF StillOwed
<1>2. CASE Callback
  <2> DEFINE c == stack[Len(stack)]
  <2>1. /\ stack \in Seq(Ids \cup {None, Connect}) /\ stack # <<>>
        /\ Top = c /\ c \in Ids /\ Len(stack) \in Nat /\ DOMAIN stack = 1 .. Len(stack)
    BY <1>0, <1>2, Domains DEF Callback, Top, Last, Shapes, StackShape
  <2>2. /\ DOMAIN Append(Front(stack), None) = 1 .. Len(stack)
        /\ \A i \in 1 .. Len(stack) - 1 : Append(Front(stack), None)[i] = stack[i]
    <3> DEFINE S == Ids \cup {None, Connect}
    <3>1. stack \in Seq(S) /\ stack # <<>> /\ None \in S
      BY <2>1
    <3> HIDE DEF S
    <3> QED BY <3>1, TopFacts
  <2>3. /\ stack' = Append(Front(stack), None) /\ done' = Append(done, c)
        /\ UNCHANGED ends
    BY <1>2, <2>1 DEF Callback, Owes
  <2>4. status # "closed" /\ UNCHANGED pending
    BY <1>2 DEF Callback, CloseNow, queue
  <2>5. /\ DOMAIN done = 1 .. Len(done) /\ Len(done) \in Nat
        /\ DOMAIN done' = 1 .. Len(done) + 1 /\ done'[Len(done) + 1] = c
        /\ \A i \in 1 .. Len(done) : done'[i] = done[i]
    BY <1>0, <2>1, <2>3, Domains, AppendProperties, LenProperties
       DEF Shapes, DataShapes
  <2>6. InQueue(id) \/ IsOwed(id) \/ IsCalled(id)
    BY <1>0, <2>3, <2>4 DEF NoneForgotten, Fresh
  <2>7. CASE InQueue(id)
    BY <2>4, <2>7
  <2>8. ASSUME NEW i \in DOMAIN stack, stack[i] = id PROVE IsOwed(id)' \/ IsCalled(id)'
    <3>1. CASE i = Len(stack)
      BY <2>5, <2>8, <3>1
    <3>2. CASE i # Len(stack)
      <4>1. i \in 1 .. Len(stack) - 1 /\ i \in 1 .. Len(stack)
        BY <2>1, <2>8, <3>2
      <4>2. i \in DOMAIN stack' /\ stack'[i] = id
        BY <2>2, <2>3, <2>8, <4>1
      <4> QED BY <4>2
    <3> QED BY <3>1, <3>2
  <2>9. CASE IsCalled(id)
    BY <2>5, <2>9
  <2> QED BY <2>6, <2>7, <2>8, <2>9
<1>3. ASSUME ~Callback PROVE StillOwed
  BY <1>0, <1>3, OwedStays
<1>4. CASE ~Callback /\ Keeps
  <2>1. status # "closed" /\ ~Fresh(id) /\ UNCHANGED <<pending, done>>
    BY <1>4 DEF Keeps, Fresh
  <2>2. InQueue(id) \/ IsOwed(id) \/ IsCalled(id)
    BY <1>0, <2>1 DEF NoneForgotten
  <2> QED BY <1>1, <1>3, <1>4, <2>1, <2>2
<1>5. ASSUME ~Callback, NEW e \in Ids, Enters(e)
      PROVE  InQueue(id)' \/ IsOwed(id)' \/ IsCalled(id)'
  <2>1. /\ DOMAIN pending = 1 .. Len(pending) /\ Len(pending) \in Nat
        /\ DOMAIN pending' = 1 .. Len(pending) + 1
        /\ \A i \in 1 .. Len(pending) : pending'[i] = pending[i]
        /\ pending'[Len(pending) + 1].id = e
        /\ \A o \in Ids \ {e} : ends'[o] = ends[o]
    <3>1. Enter(e)
      BY <1>5 DEF Enters
    <3>2. /\ Len(pending') = Len(pending) + 1
          /\ \A i \in 1 .. Len(pending) : pending'[i] = pending[i]
          /\ pending'[Len(pending) + 1] = [id |-> e, left |-> Length(e)]
          /\ \A o \in Ids \ {e} : ends'[o] = ends[o]
      BY <1>0, <3>1, EnterFacts
    <3>3. DOMAIN pending' = 1 .. Len(pending')
      BY <1>0, LenProperties DEF Shapes, DataShapes
    <3> QED BY <1>0, <3>2, <3>3, Domains
  <2>2. status # "closed" /\ UNCHANGED done
    BY <1>5 DEF Enters
  <2>3. CASE id = e
    <3>1. Len(pending) + 1 \in DOMAIN pending'
      BY <2>1
    <3> QED BY <2>1, <2>3, <3>1
  <2>4. CASE id # e
    <3>1. InQueue(id) \/ IsOwed(id) \/ IsCalled(id)
      BY <1>0, <2>1, <2>2, <2>4 DEF NoneForgotten, Fresh
    <3>2. InQueue(id) => InQueue(id)'
      BY <2>1
    <3> QED BY <1>1, <1>3, <1>5, <2>2, <3>1, <3>2
  <2> QED BY <2>3, <2>4
<1>6. ASSUME ~Callback, NEW k \in 0 .. Capacity, Transmit(k)
      PROVE  InQueue(id)' \/ IsOwed(id)' \/ IsCalled(id)'
  <2>1. UNCHANGED <<status, ends, done>>
    BY <1>6 DEF Transmit, flags
  <2>2. InQueue(id) \/ IsOwed(id) \/ IsCalled(id)
    BY <1>0, <2>1 DEF NoneForgotten, Fresh
  <2>3. ASSUME NEW i \in DOMAIN pending, pending[i].id = id
        PROVE  InQueue(id)' \/ IsOwed(id)'
    <3>1. /\ DOMAIN pending = 1 .. Len(pending) /\ Len(pending) \in Nat
          /\ DOMAIN pending' = 1 .. Len(pending') /\ Len(pending') \in Nat
      BY <1>0, LenProperties DEF Shapes, DataShapes
    <3>2. /\ pending[1] \in [id: Ids, left: Nat] /\ First = pending[1]
          /\ pending # <<>> /\ stack # <<>>
      <4>1. pending[1] \in [id: Ids, left: Nat] /\ pending # <<>>
        BY <1>0, <1>6, TransmitFacts DEF Transmit
      <4> QED BY <1>0, <1>6, <4>1 DEF First, Transmit, InLoop
    <3>3. CASE k = pending[1].left
      <4>1. /\ Len(pending') = Len(pending) - 1
            /\ \A n \in 1 .. Len(pending') : pending'[n] = pending[n + 1]
        BY <1>0, <1>6, <3>3, TransmitFacts
      <4>2. CASE i = 1
        <5>1. stack' = Append(Front(stack), id)
          BY <1>6, <2>3, <3>2, <3>3, <4>2 DEF Transmit, Owes
        <5>2. /\ stack \in Seq(Ids \cup {None, Connect})
              /\ id \in Ids \cup {None, Connect}
          BY <1>0 DEF Shapes, StackShape
        <5>3. /\ stack'[Len(stack)] = id /\ Len(stack') = Len(stack)
              /\ Len(stack) \in 1 .. Len(stack)
          BY <3>2, <5>1, <5>2, StackFacts
        <5>4. DOMAIN stack' = 1 .. Len(stack')
          BY <1>0, Domains DEF Shapes, StackShape
        <5> QED BY <5>3, <5>4
      <4>3. CASE i # 1
        <5>1. i - 1 \in DOMAIN pending' /\ pending'[i - 1].id = id
          BY <2>3, <3>1, <4>1, <4>3
        <5> QED BY <5>1
      <4> QED BY <4>2, <4>3
    <3>4. CASE k # pending[1].left
      <4>1. /\ Len(pending') = Len(pending)
            /\ pending'[1] = [id |-> pending[1].id, left |-> pending[1].left - k]
            /\ \A n \in 2 .. Len(pending) : pending'[n] = pending[n]
        BY <1>0, <1>6, <3>4, TransmitFacts
      <4>2. i \in DOMAIN pending' /\ pending'[i].id = id
        <5>1. CASE i = 1
          BY <2>3, <3>1, <4>1, <5>1
        <5>2. CASE i # 1
          BY <2>3, <3>1, <4>1, <5>2
        <5> QED BY <5>1, <5>2
      <4> QED BY <4>2
    <3> QED BY <3>3, <3>4
  <2>4. IsCalled(id) => IsCalled(id)'
    BY <2>1
  <2> QED BY <1>1, <1>3, <1>6, <2>2, <2>3, <2>4
<1>7. CASE Drops
  BY <1>7 DEF Drops
<1> QED BY <1>0, <1>2, <1>4, <1>5, <1>6, <1>7, Moves

LEMMA InLoopStep ==
    ASSUME Shapes, InLoop, [ConnectionNext]_connectionVars
    PROVE  InLoop'
<1> USE DEF flags, subs, control
<1>1. ASSUME UNCHANGED control \/ mode' = "user"
      PROVE  InLoop'
  BY <1>1 DEF InLoop, Top
<1>2. ASSUME stack' = Append(stack, None) \/ (stack # <<>> /\ Owes(None))
      PROVE  InLoop'
  <2> DEFINE S == Ids \cup {None, Connect}
  <2>1. stack \in Seq(S) /\ None \in S /\ Len(stack) \in Nat
    BY LenProperties DEF Shapes, StackShape
  <2> HIDE DEF S
  <2>2. ASSUME NEW t \in Seq(S), stack' = Append(t, None)
        PROVE  InLoop'
    <3> DEFINE u == Append(t, None)
    <3>1. u \in Seq(S) /\ Len(u) = Len(t) + 1 /\ u[Len(t) + 1] = None /\ Len(t) \in Nat
      BY <2>1, AppendProperties, LenProperties
    <3> HIDE DEF u
    <3>2. u # <<>> /\ Last(u) = None
      BY <3>1, EmptySeq DEF Last
    <3> QED BY <2>2, <3>2 DEF InLoop, Top, u
  <2>3. stack # <<>> => Front(stack) \in Seq(S)
    BY <2>1, StackFacts
  <2> QED BY <1>2, <2>1, <2>2, <2>3 DEF Owes
<1>3. ASSUME User, OnWrite
      PROVE  InLoop'
  <2>1. CASE connecting
    BY <1>1, <1>3, <2>1 DEF OnWrite, User
  <2>2. CASE ~connecting
    <3>1. stack' = Append(stack, None)
      BY <1>3, <2>2 DEF OnWrite
    <3>2. stack' = Append(stack, None) \/ (stack # <<>> /\ Owes(None))
      BY <3>1
    <3> QED BY <1>2, <3>2
  <2> QED BY <2>1, <2>2
<1>4. ASSUME User, EnsureWrite
      PROVE  InLoop'
  BY <1>1, <1>3, <1>4 DEF EnsureWrite
<1>5. ASSUME User, NEW d \in BOOLEAN, Wake(d)
      PROVE  InLoop'
  BY <1>1, <1>4, <1>5 DEF Wake
<1>6. stack = <<>> => User
  BY DEF InLoop, User, Shapes, FlagShapes
<1>7. CASE UNCHANGED connectionVars
  BY <1>1, <1>7 DEF connectionVars
<1>8. CASE UserStep
  <2>1. CASE \E connect \in BOOLEAN : Open(connect)
    BY <1>1, <2>1 DEF Open
  <2>2. CASE Close \/ EnableRead \/ DisableRead \/ \E m \in Messages : SendAhead(m)
    BY <1>1, <2>2 DEF Close, EnableRead, DisableRead, SendAhead
  <2>3. CASE CloseFlush
    BY <1>5, <2>3 DEF CloseFlush
  <2>4. CASE \E m \in Messages, d \in BOOLEAN : Send(m, d)
    BY <1>5, <2>4 DEF Send
  <2> QED BY <1>8, <2>1, <2>2, <2>3, <2>4 DEF UserStep
<1>9. CASE PollWrite
  BY <1>3, <1>6, <1>9 DEF PollWrite
<1>10. CASE DelayedFlush
  BY <1>1, <1>3, <1>6, <1>10 DEF DelayedFlush
<1>11. CASE DelayedEnsure
  BY <1>1, <1>4, <1>6, <1>11 DEF DelayedEnsure
<1>12. CASE \/ \E k \in 0 .. Capacity : Transmit(k)
            \/ Refused \/ SocketFails \/ Drained
  BY <1>1, <1>12 DEF Transmit, Refused, SocketFails, Drained
<1>13. CASE Return
  BY <1>2, <1>13 DEF Return
<1>14. CASE Callback \/ UserRaises
  BY <1>1, <1>14 DEF Callback, UserRaises, User
<1>15. CASE PeerStep \/ ForeignStep \/ \E m \in Messages : ForeignSend(m)
  BY <1>1, <1>15 DEF PeerStep, Connected, PeerReads, ForeignStep, ForeignAppend,
                     ForeignRead, ForeignWrite, ForeignWake, ForeignDelay, ForeignSend
<1> QED BY <1>7, <1>8, <1>9, <1>10, <1>11, <1>12, <1>13, <1>14, <1>15
        DEF ConnectionNext, LoopStep

LEMMA CountsStep ==
    ASSUME Shapes, InLoop, Data, Elsewhere, Counted,
           [ConnectionNext]_connectionVars
    PROVE  Elsewhere' /\ Counted'
<1> USE DEF queue, flags, subs, delays, kernel, control, thread, history
<1>1. ASSUME UNCHANGED <<pending, pendingS, offered, ends, wire, raced, tpc, tmsg>>,
             status' = "closed" <=> status = "closed"
      PROVE  Elsewhere' /\ Counted'
  BY <1>1 DEF Elsewhere, Counted, Uncounted, Fresh
<1>2. ASSUME CloseNow, UNCHANGED <<offered, ends, wire, raced, tpc, tmsg>>
      PROVE  Elsewhere' /\ Counted'
  <2>1. CASE status = "closed"
    BY <1>1, <1>2, <2>1 DEF CloseNow
  <2>2. CASE status # "closed"
    BY <1>2, <2>2 DEF CloseNow, Elsewhere, Counted, Fresh
  <2> QED BY <2>1, <2>2
<1>3. ASSUME NEW id \in Ids, Fresh(id), id # tmsg \/ id = Closing, Pend(id),
             status # "closed", status' = status,
             UNCHANGED <<wire, raced, tpc, tmsg>>
      PROVE  Elsewhere' /\ Counted'
  <2>1. /\ Len(offered') = Len(offered) + Length(id)
        /\ \A o \in Ids \ {id} : ends'[o] = ends[o]
    BY <1>3, EnterFacts DEF Pend
  <2>2. /\ Len(offered) \in Nat /\ Len(wire) \in Nat /\ Length(id) \in Nat
        /\ pendingS \in Int /\ pendingS' = pendingS + Length(id)
    BY <1>3, Domains, LengthFacts DEF Pend, Shapes, DataShapes
  <2>3. Uncounted \in Int /\ Uncounted' = Uncounted
    BY <1>3, SizeAssumption DEF Uncounted, Elsewhere
  <2>4. Counted'
    BY SMTT(30), <1>3, <2>1, <2>2, <2>3 DEF Counted
  <2>5. Elsewhere'
    <3>1. tmsg \in Messages => tmsg \in Ids \ {id}
      BY <1>3, LengthFacts
    <3> QED BY <1>3, <2>1, <3>1 DEF Elsewhere, Fresh
  <2> QED BY <2>4, <2>5
<1>4. CASE UNCHANGED connectionVars
  BY <1>1, <1>4 DEF connectionVars
<1>5. ASSUME NEW connect \in BOOLEAN, Open(connect)
      PROVE  Elsewhere' /\ Counted'
  BY <1>1, <1>5 DEF Open
<1>6. CASE Close
  BY <1>2, <1>6 DEF Close
<1>7. CASE CloseFlush
  BY <1>3, <1>7, WakeOwes, LengthFacts DEF CloseFlush
<1>8. ASSUME NEW m \in Messages, NEW d \in BOOLEAN, Send(m, d)
      PROVE  Elsewhere' /\ Counted'
  BY <1>3, <1>8, WakeOwes, LengthFacts DEF Send
<1>9. ASSUME NEW m \in Messages, SendAhead(m)
      PROVE  Elsewhere' /\ Counted'
  BY <1>3, <1>9, LengthFacts DEF SendAhead
<1>10. CASE EnableRead
  BY <1>1, <1>10 DEF EnableRead
<1>11. CASE DisableRead
  BY <1>1, <1>11 DEF DisableRead
<1>12. CASE PollWrite
  BY <1>1, <1>12 DEF PollWrite, OnWrite
<1>13. CASE DelayedFlush
  BY <1>1, <1>13 DEF DelayedFlush, OnWrite
<1>14. CASE DelayedEnsure
  <2>1. UNCHANGED status
    BY <1>14, WakeOwes DEF DelayedEnsure
  <2> QED BY <1>1, <1>14, <2>1 DEF DelayedEnsure
<1>15. ASSUME NEW k \in 0 .. Capacity, Transmit(k)
       PROVE  Elsewhere' /\ Counted'
  <2>1. Len(wire') = Len(wire) + k
    BY <1>15, WireFacts
  <2>2. /\ Len(offered) \in Nat /\ Len(wire) \in Nat /\ k \in Nat
        /\ pendingS \in Int /\ pendingS' = pendingS - k /\ pending # <<>>
        /\ UNCHANGED <<status, offered, ends, tpc, tmsg, raced>>
    BY <1>15, Domains, CapacityAssumption DEF Transmit, Shapes, DataShapes
  <2>3. Uncounted \in Int /\ Uncounted' = Uncounted
    BY <2>2, SizeAssumption DEF Uncounted, Elsewhere
  <2> QED BY <2>1, <2>2, <2>3 DEF Counted, Elsewhere, Fresh
<1>16. CASE Refused
  BY <1>1, <1>16 DEF Refused
<1>17. CASE Drained
  BY <1>1, <1>17 DEF Drained
<1>18. CASE SocketFails
  <2>1. CASE status = "closed"
    BY <1>1, <1>18, <2>1 DEF SocketFails
  <2>2. CASE status # "closed"
    BY <1>2, <1>18, <2>2 DEF SocketFails
  <2> QED BY <2>1, <2>2
<1>19. CASE UserRaises
  BY <1>2, <1>19 DEF UserRaises
<1>20. CASE Return
  BY <1>1, <1>20 DEF Return
<1>21. CASE Callback
  <2>1. CASE Top = Closing
    BY <1>2, <1>21, <2>1 DEF Callback
  <2>2. CASE Top # Closing
    BY <1>1, <1>21, <2>2 DEF Callback
  <2> QED BY <2>1, <2>2
<1>22. CASE Connected
  BY <1>1, <1>22 DEF Connected
<1>23. ASSUME NEW k \in 1 .. Capacity, PeerReads(k)
       PROVE  Elsewhere' /\ Counted'
  BY <1>1, <1>23 DEF PeerReads
<1>24. ASSUME NEW m \in Messages, ForeignSend(m)
       PROVE  Elsewhere' /\ Counted'
  BY <1>24 DEF ForeignSend, Elsewhere, Counted, Uncounted, Fresh
<1>25. CASE ForeignAppend
  <2>1. tmsg \in Messages /\ tmsg \in Ids /\ Length(tmsg) = Size[tmsg] /\ Enter(tmsg)
    BY <1>25, LengthFacts DEF ForeignAppend, Elsewhere
  <2>2. Len(offered') = Len(offered) + Size[tmsg]
    BY <2>1, EnterFacts
  <2>3. /\ tpc = "append" /\ tpc' = "read"
        /\ UNCHANGED <<pendingS, tmsg, wire, raced, status>>
    BY <1>25 DEF ForeignAppend
  <2>4. /\ Len(offered) \in Nat /\ Len(wire) \in Nat /\ Size[tmsg] \in Nat
        /\ pendingS \in Int
    BY <2>1, Domains, SizeAssumption DEF Shapes, DataShapes
  <2> QED BY <2>1, <2>2, <2>3, <2>4 DEF Elsewhere, Counted, Uncounted
<1>26. CASE ForeignRead
  BY <1>26 DEF ForeignRead, Elsewhere, Counted, Uncounted
<1>27. CASE ForeignWrite
  <2>1. /\ tpc = "write" /\ tpc' = "wake" /\ tmsg \in Messages
        /\ pendingS' = tsize + Size[tmsg]
        /\ raced' = (raced \/ pendingS # tsize \/ status = "closed")
        /\ UNCHANGED <<pending, tmsg, offered, wire, status>>
    BY <1>27 DEF ForeignWrite, Elsewhere
  <2>2. /\ Len(offered) \in Nat /\ Len(wire) \in Nat /\ Size[tmsg] \in Nat
        /\ pendingS \in Int
    BY <2>1, Domains, SizeAssumption DEF Shapes, DataShapes
  <2>3. ASSUME ~raced'
        PROVE  status # "closed" /\ pendingS' = Len(offered) - Len(wire)
    <3>1. ~raced /\ pendingS = tsize /\ status # "closed"
      BY <2>1, <2>3
    <3>2. pendingS = Len(offered) - Len(wire) - Size[tmsg]
      BY <2>1, <3>1 DEF Counted, Uncounted
    <3> QED BY <2>1, <2>2, <3>1, <3>2
  <2>4. Uncounted' = 0
    BY <2>1 DEF Uncounted
  <2>5. Counted'
    BY <2>1, <2>2, <2>3, <2>4 DEF Counted
  <2> QED BY <2>1, <2>5 DEF Elsewhere
<1>28. CASE ForeignWake
  BY <1>28 DEF ForeignWake, Elsewhere, Counted, Uncounted
<1>29. CASE ForeignDelay
  BY <1>29 DEF ForeignDelay, Elsewhere, Counted, Uncounted
<1> QED BY <1>4, <1>5, <1>6, <1>7, <1>8, <1>9, <1>10, <1>11, <1>12, <1>13, <1>14,
           <1>15, <1>16, <1>17, <1>18, <1>19, <1>20, <1>21, <1>22, <1>23, <1>24,
           <1>25, <1>26, <1>27, <1>28, <1>29
        DEF ConnectionNext, UserStep, LoopStep, PeerStep, ForeignStep

-----------------------------------------------------------------------------
(* The invariant, and what follows from it.                                *)

LEMMA ConnectionInvInit ==
    ASSUME ConnectionInit
    PROVE  ConnectionInv
<1>1. \A S : <<>> \in Seq(S) /\ Len(<<>>) = 0 /\ DOMAIN <<>> = {}
  BY EmptySeq
<1>5. /\ status = "pending" /\ stack = <<>> /\ mode = "user" /\ tpc = "idle"
      /\ pending = <<>> /\ pendingS = 0
      /\ offered = <<>> /\ wire = <<>> /\ done = <<>> /\ flushed = FALSE
      /\ ends = [id \in Ids |-> -1]
  BY DEF ConnectionInit
<1>6. \A id \in Ids : Fresh(id)
  BY <1>5 DEF Fresh
<1>2. Shapes
  <2>1. FlagShapes
    <3>1. /\ poll \in Polls /\ connecting = FALSE /\ wready = FALSE /\ renable = TRUE
          /\ reads = FALSE /\ writes = FALSE /\ flushes = FALSE /\ ensures = 0
      BY DEF ConnectionInit
    <3> QED BY <1>5, <3>1 DEF FlagShapes
  <2>2. StackShape
    BY <1>1, <1>5, DepthAssumption DEF StackShape
  <2>3. DataShapes
    <3>1. raced = FALSE
      BY DEF ConnectionInit
    <3>2. ends \in [Ids -> Nat \cup {-1}]
      BY <1>5
    <3>3. /\ pending \in Seq([id: Ids, left: Nat]) /\ offered \in Seq(Messages)
          /\ wire \in Seq(Messages) /\ done \in Seq(Ids)
      BY <1>1, <1>5
    <3>4. pendingS \in Int
      BY <1>5
    <3>5. flushed \in BOOLEAN /\ raced \in BOOLEAN
      BY <1>5, <3>1, Zenon
    <3> QED BY <3>2, <3>3, <3>4, <3>5 DEF DataShapes
  <2>4. OtherShapes
    <3>1. /\ linked = FALSE /\ full = 0 /\ nospace = FALSE /\ edge = FALSE
          /\ tmsg = None /\ tsize = 0
      BY DEF ConnectionInit
    <3>2. full \in 0 .. Capacity
      BY <3>1, CapacityAssumption
    <3>3. linked \in BOOLEAN /\ nospace \in BOOLEAN /\ edge \in BOOLEAN
      BY <3>1, Zenon
    <3>4. tmsg \in Messages \cup {None} /\ tsize \in Int
      BY <3>1
    <3> QED BY <1>5, <3>2, <3>3, <3>4 DEF OtherShapes
  <2> QED BY <2>1, <2>2, <2>3, <2>4 DEF Shapes
<1>3. Data
  <2>1. Entered
    BY <1>6 DEF Entered
  <2>2. Remains /\ OncePending /\ OnceOwed /\ OnceDone /\ Apart
    BY <1>1, <1>5 DEF Remains, OncePending, OnceOwed, OnceDone, IsInjective, Apart
  <2>3. Truthful
    BY <1>1, <1>5 DEF Truthful, FlushedBeforeClose
  <2>4. NothingLost
    <3>1. IsPrefix(wire, offered)
      <4>1. /\ wire \in Seq(Messages) /\ offered \in Seq(Messages)
            /\ Len(wire) = 0 /\ Len(offered) = 0
        BY <1>1, <1>5
      <4>2. Len(wire) <= Len(offered) /\ \A i \in 1 .. Len(wire) : wire[i] = offered[i]
        BY <4>1
      <4> QED BY <4>1, <4>2, PrefixIs
    <3> QED BY <1>1, <1>5, <3>1 DEF NothingLost
  <2> QED BY <2>1, <2>2, <2>3, <2>4 DEF Data
<1>4. Elsewhere /\ Counted /\ InLoop
  BY <1>1, <1>5 DEF Elsewhere, Counted, Uncounted, InLoop
<1>7. NoneForgotten
  BY <1>6 DEF NoneForgotten
<1> QED BY <1>2, <1>3, <1>4, <1>7 DEF ConnectionInv

LEMMA ConnectionInvStep ==
    ASSUME ConnectionInv, [ConnectionNext]_connectionVars
    PROVE  ConnectionInv'
  BY ShapesStep, DataStep, ForgottenStep, CountsStep, InLoopStep DEF ConnectionInv

LEMMA ConnectionInvImplies ==
    ASSUME ConnectionInv
    PROVE  ConnectionType /\ NothingLost /\ Accounted /\ CallbackSafety
<1>1. Shapes /\ Data /\ NoneForgotten /\ Counted
  BY DEF ConnectionInv
<1>2. Len(offered) \in Nat /\ Len(wire) \in Nat /\ Len(wire) <= Len(offered)
  BY <1>1, Domains, PrefixIs DEF Shapes, DataShapes, Data, NothingLost
<1>3. Accounted
  <2>1. ASSUME tpc = "idle", ~raced
        PROVE  pendingS = IF pending = <<>> THEN 0 ELSE Len(offered) - Len(wire)
    <3>1. CASE status # "closed"
      <4>1. pendingS = Len(offered) - Len(wire)
        BY <1>1, <1>2, <2>1, <3>1 DEF Counted, Uncounted
      <4>2. pending = <<>> => Len(offered) = Len(wire)
        BY <1>1, <3>1 DEF Data, NothingLost
      <4> QED BY <1>2, <4>1, <4>2
    <3>2. CASE status = "closed"
      BY <1>1, <2>1, <3>2 DEF Counted
    <3> QED BY <3>1, <3>2
  <2> QED BY <2>1 DEF Accounted
<1>4. ConnectionType
  <2>1. pendingS \in (IF raced \/ tpc # "idle" THEN Int ELSE Nat)
    <3>1. CASE raced \/ tpc # "idle"
      BY <1>1, <3>1 DEF Shapes, DataShapes
    <3>2. CASE ~raced /\ tpc = "idle"
      BY <1>2, <1>3, <3>2 DEF Accounted
    <3> QED BY <3>1, <3>2
  <2> QED BY <1>1, <2>1
          DEF ConnectionType, Shapes, FlagShapes, StackShape, DataShapes, OtherShapes
<1>5. CallbackSafety
  <2>1. FlushedBeforeClose /\ IsInjective(done)
    BY <1>1 DEF Data, Truthful, OnceDone
  <2>2. ASSUME NEW i \in DOMAIN done, Length(done[i]) > 0
        PROVE  ends[done[i]] \in Length(done[i]) .. Len(wire)
    <3>1. done[i] \in Ids /\ ~Fresh(done[i]) /\ OnWire(done[i])
      BY <1>1, Domains DEF Data, Apart, Truthful
    <3>2. ends[done[i]] \in Length(done[i]) .. Len(offered)
      BY <1>1, <3>1 DEF Data, Entered
    <3>3. ends[done[i]] <= Len(wire) /\ Length(done[i]) \in Nat
      BY <2>2, <3>1, LengthFacts DEF OnWire
    <3> QED BY <1>2, <3>2, <3>3
  <2> QED BY <1>1, <2>1, <2>2 DEF CallbackSafety, CalledWhenSent
<1> QED BY <1>1, <1>3, <1>4, <1>5 DEF Data

\* The variables of a connection keep their types: the code reads none of them
\* as what it is not (BaseConnection, its queue, its flags and its poll).
THEOREM ConnectionTypeCorrect == ConnectionSpec => []ConnectionType
<1>1. ConnectionInit => ConnectionInv
  BY ConnectionInvInit
<1>2. ConnectionInv /\ [ConnectionNext]_connectionVars => ConnectionInv'
  BY ConnectionInvStep
<1>3. ConnectionInv => ConnectionType
  BY ConnectionInvImplies
<1> QED BY <1>1, <1>2, <1>3, PTL DEF ConnectionSpec

\* What send() accepted is on the wire or in the queue, each unit once and in
\* order, and `pending_s` is what is in the queue (_send(), pend(), close()).
THEOREM NothingIsLost == ConnectionSpec => [](NothingLost /\ Accounted)
<1>1. ConnectionInit => ConnectionInv
  BY ConnectionInvInit
<1>2. ConnectionInv /\ [ConnectionNext]_connectionVars => ConnectionInv'
  BY ConnectionInvStep
<1>3. ConnectionInv => NothingLost /\ Accounted
  BY ConnectionInvImplies
<1> QED BY <1>1, <1>2, <1>3, PTL DEF ConnectionSpec

\* The callback of a send is called once and after its last unit, none is
\* forgotten while the connection is not closed, and that of close(flush=True)
\* closes after all that was sent before it (_send(), _close_callback()).
THEOREM CallbacksAreTrue == ConnectionSpec => []CallbackSafety
<1>1. ConnectionInit => ConnectionInv
  BY ConnectionInvInit
<1>2. ConnectionInv /\ [ConnectionNext]_connectionVars => ConnectionInv'
  BY ConnectionInvStep
<1>3. ConnectionInv => CallbackSafety
  BY ConnectionInvImplies
<1> QED BY <1>1, <1>2, <1>3, PTL DEF ConnectionSpec

-----------------------------------------------------------------------------
(* Nothing waits with nobody to send it, if the only registration of an    *)
(* edge-triggered poll is never dropped by disable_read().                 *)

\* what a step does with the _send() under way
LEMMA StackSteps ==
    ASSUME Shapes
    PROVE  /\ OnWrite => stack' # <<>>
           /\ stack = <<>> /\ stack' = Append(stack, Connect) => stack' = <<Connect>>
           /\ \A x \in Ids \cup {None, Connect} :
                  stack # <<>> /\ Owes(x) => stack' # <<>>
           /\ Top = None \/ Top \in Ids => stack # <<Connect>>
<1> DEFINE S == Ids \cup {None, Connect}
<1>1. stack \in Seq(S) /\ None \in S /\ Connect \in S /\ Len(stack) \in Nat
  BY LenProperties DEF Shapes, StackShape
<1>2. ASSUME NEW t \in Seq(S), NEW x \in S
      PROVE  Append(t, x) # <<>>
  <2>1. Len(Append(t, x)) = Len(t) + 1 /\ Len(t) \in Nat
    BY <1>2, AppendProperties, LenProperties
  <2>2. Len(<<>>) = 0
    BY EmptySeq
  <2> QED BY <2>1, <2>2
<1>3. OnWrite => stack' # <<>>
  BY <1>1, <1>2 DEF OnWrite
<1>4. stack = <<>> /\ stack' = Append(stack, Connect) => stack' = <<Connect>>
  OBVIOUS
<1>5. \A x \in S : stack # <<>> /\ Owes(x) => stack' # <<>>
  <2>1. stack # <<>> => Front(stack) \in Seq(S)
    BY <1>1, StackFacts
  <2> QED BY <1>2, <2>1 DEF Owes
<1>6. Last(<<Connect>>) = Connect
  BY DEF Last
<1>7. Top = None \/ Top \in Ids => stack # <<Connect>>
  BY <1>6, LengthFacts DEF Top
<1> QED BY <1>3, <1>4, <1>5, <1>7

LEMMA WokenStep ==
    ASSUME Shapes, InLoop, Elsewhere, Woken, "edge" \notin Disables,
           [ConnectionNext]_connectionVars
    PROVE  Woken'
<1> USE DEF queue, flags, subs, delays, kernel, control, thread, history
<1>1. ASSUME UNCHANGED <<poll, status, reads, linked, nospace, edge, stack>>,
             wready' = wready
      PROVE  Woken'
  BY <1>1 DEF Woken, Edge
<1>2. ASSUME poll' = poll, status' = "closed"
      PROVE  Woken'
  BY <1>2 DEF Woken
<1>3. ASSUME OnWrite, wready \/ stack = <<>>,
             UNCHANGED <<poll, linked, nospace>>
      PROVE  Woken'
  <2>1. CASE wready
    <3>1. wready' /\ status' = status /\ reads' = reads
      BY <1>3, <2>1 DEF OnWrite
    <3> QED BY <1>3, <3>1 DEF Woken, Edge
  <2>2. CASE stack = <<>>
    <3>1. status' = status /\ reads' = reads /\ (wready' \/ stack' = <<Connect>>)
      BY <1>3, <2>2, StackSteps DEF OnWrite
    <3> QED BY <1>3, <3>1 DEF Woken, Edge
  <2> QED BY <1>3, <2>1, <2>2
<1>4. ASSUME EnsureWrite, UNCHANGED <<poll, linked, nospace, edge>>
      PROVE  Woken'
  BY <1>1, <1>3, <1>4 DEF EnsureWrite
<1>5. ASSUME NEW d \in BOOLEAN, Wake(d), UNCHANGED <<poll, linked, nospace, edge>>
      PROVE  Woken'
  BY <1>1, <1>4, <1>5 DEF Wake
<1>6. ASSUME CloseNow, UNCHANGED poll
      PROVE  Woken'
  BY <1>2, <1>6 DEF CloseNow
<1>7. ASSUME stack # <<Connect>>, wready => wready',
             UNCHANGED <<poll, status, reads, linked, nospace, edge>>
      PROVE  Woken'
  BY <1>7 DEF Woken, Edge
<1>8. CASE UNCHANGED connectionVars
  BY <1>1, <1>8 DEF connectionVars
<1>9. ASSUME NEW connect \in BOOLEAN, Open(connect)
      PROVE  Woken'
  BY <1>9 DEF Open, Woken, Edge
<1>10. CASE Close
  BY <1>6, <1>10 DEF Close
<1>11. CASE CloseFlush
  BY <1>5, <1>11 DEF CloseFlush
<1>12. ASSUME NEW m \in Messages, NEW d \in BOOLEAN, Send(m, d)
       PROVE  Woken'
  BY <1>5, <1>12 DEF Send
<1>13. ASSUME NEW m \in Messages, SendAhead(m)
       PROVE  Woken'
  BY <1>1, <1>13 DEF SendAhead
<1>14. CASE EnableRead
  BY <1>14 DEF EnableRead, Woken, Edge
<1>15. CASE DisableRead
  BY <1>15 DEF DisableRead, Woken, Edge
<1>16. CASE PollWrite
  BY <1>3, <1>16 DEF PollWrite
<1>17. CASE DelayedFlush
  BY <1>1, <1>3, <1>17 DEF DelayedFlush
<1>18. CASE DelayedEnsure
  BY <1>1, <1>4, <1>18 DEF DelayedEnsure
<1>19. mode = "loop" => stack # <<Connect>>
  BY StackSteps DEF InLoop
<1>20. ASSUME NEW k \in 0 .. Capacity, Transmit(k)
       PROVE  Woken'
  BY <1>7, <1>19, <1>20 DEF Transmit
<1>21. CASE Refused
  <2>1. nospace' /\ UNCHANGED <<poll, status, reads>>
    BY <1>21 DEF Refused
  <2> QED BY <2>1 DEF Woken, Edge
<1>22. CASE Drained
  BY <1>7, <1>19, <1>22 DEF Drained
<1>23. CASE SocketFails
  <2>1. CASE status = "closed"
    BY <1>2, <1>23, <2>1 DEF SocketFails
  <2>2. CASE status # "closed"
    BY <1>6, <1>23, <2>2 DEF SocketFails
  <2> QED BY <2>1, <2>2
<1>24. CASE UserRaises
  BY <1>6, <1>24 DEF UserRaises
<1>25. CASE Return
  <2>1. UNCHANGED <<poll, status, reads, linked, nospace, edge>>
    BY <1>25 DEF Return
  <2>2. CASE Top = Connect
    <3>1. wready'
      BY <1>25, <2>2 DEF Return
    <3> QED BY <2>1, <3>1 DEF Woken, Edge
  <2>3. CASE Top # Connect
    <3>1. Top = None /\ wready' = wready
      BY <1>25, <2>3 DEF Return
    <3> QED BY <1>7, <2>1, <3>1, StackSteps
  <2> QED BY <2>2, <2>3
<1>26. CASE Callback
  <2>1. CASE Top = Closing
    BY <1>6, <1>26, <2>1 DEF Callback
  <2>2. CASE Top # Closing
    <3>1. Top \in Ids
      BY <1>26 DEF Callback
    <3> QED BY <1>7, <1>26, <2>2, <3>1, StackSteps DEF Callback
  <2> QED BY <2>1, <2>2
<1>27. CASE Connected
  BY <1>27 DEF Connected, Woken, Edge
<1>28. ASSUME NEW k \in 1 .. Capacity, PeerReads(k)
       PROVE  Woken'
  BY <1>28 DEF PeerReads, Woken, Edge
<1>29. ASSUME NEW m \in Messages, ForeignSend(m)
       PROVE  Woken'
  BY <1>1, <1>29 DEF ForeignSend
<1>30. CASE ForeignStep
  BY <1>1, <1>30 DEF ForeignStep, ForeignAppend, ForeignRead, ForeignWrite,
                     ForeignWake, ForeignDelay
<1> QED BY <1>8, <1>9, <1>10, <1>11, <1>12, <1>13, <1>14, <1>15, <1>16, <1>17,
           <1>18, <1>20, <1>21, <1>22, <1>23, <1>24, <1>25, <1>26, <1>27, <1>28,
           <1>29, <1>30
        DEF ConnectionNext, UserStep, LoopStep, PeerStep

\* what the poll or the kernel knows of an open connection with data to send
Reported == IF Edge THEN reads /\ (edge \/ nospace \/ ~linked) ELSE writes

LEMMA NeverStuckStep ==
    ASSUME Shapes, InLoop, Waking, "edge" \notin Disables,
           [ConnectionNext]_connectionVars
    PROVE  NeverStuck'
<1> USE DEF queue, flags, subs, delays, kernel, control, thread, history
<1>1. Edge \/ poll = "level"
  BY PollsAssumption DEF Edge, Shapes, FlagShapes
<1>2. ASSUME \/ status' # "open" \/ stack' # <<>> \/ pending' = <<>> \/ tpc' # "idle"
             \/ flushes' \/ ensures' > 0 \/ Reported'
      PROVE  NeverStuck'
  BY <1>2 DEF NeverStuck, Reported
<1>3. ASSUME UNCHANGED <<status, stack, pending, tpc, flushes, ensures>>,
             Reported => Reported'
      PROVE  NeverStuck'
  <2>1. \/ status # "open" \/ stack # <<>> \/ pending = <<>> \/ tpc # "idle"
        \/ flushes \/ ensures > 0 \/ Reported
    BY DEF Waking, NeverStuck, Reported
  <2> QED BY <1>2, <1>3, <2>1
<1>4. UNCHANGED <<poll, reads, writes, edge, nospace, linked>> =>
          (Reported => Reported')
  BY DEF Reported, Edge
<1>5. ASSUME OnWrite
      PROVE  NeverStuck'
  BY <1>2, <1>5, StackSteps
<1>6. ASSUME EnsureWrite, status = "open", stack' = <<>>,
             UNCHANGED <<poll, edge, nospace, linked>>
      PROVE  NeverStuck'
  <2>1. CASE wready
    BY <1>5, <1>6, <2>1 DEF EnsureWrite
  <2>2. CASE ~wready
    <3>1. /\ status' = status /\ wready' = wready /\ reads' = reads /\ stack = <<>>
          /\ writes' = IF IsSubWrite THEN writes ELSE ~Edge
      BY <1>6, <2>2 DEF EnsureWrite, SubWrite
    <3>2. Edge => Reported'
      BY <1>6, <2>2, <3>1 DEF Waking, Woken, Reported, Edge
    <3>3. ~Edge => Reported'
      BY <1>6, <3>1 DEF Reported, Edge, IsSubWrite
    <3> QED BY <1>2, <3>2, <3>3
  <2> QED BY <2>1, <2>2
<1>7. ASSUME NEW d \in BOOLEAN, Wake(d), status = "open",
             UNCHANGED <<poll, edge, nospace, linked>>
      PROVE  NeverStuck'
  <2>1. CASE wready /\ d
    BY <1>2, <1>7, <2>1 DEF Wake
  <2>2. CASE ~(wready /\ d)
    BY <1>2, <1>6, <1>7, <2>2 DEF Wake
  <2> QED BY <2>1, <2>2
<1>8. ASSUME CloseNow
      PROVE  NeverStuck'
  BY <1>2, <1>8 DEF CloseNow
<1>9. CASE UNCHANGED connectionVars
  BY <1>3, <1>4, <1>9 DEF connectionVars
<1>10. ASSUME NEW connect \in BOOLEAN, Open(connect)
       PROVE  NeverStuck'
  <2>1. CASE connect
    BY <1>2, <1>10, <2>1 DEF Open, Reported, Edge, SubWrite
  <2>2. CASE ~connect
    <3>1. pending' = <<>>
      BY <1>10, <2>2 DEF Open
    <3> QED BY <1>2, <3>1
  <2> QED BY <2>1, <2>2
<1>11. CASE Close
  BY <1>8, <1>11 DEF Close
<1>12. CASE CloseFlush
  BY <1>7, <1>12 DEF CloseFlush
<1>13. ASSUME NEW m \in Messages, NEW d \in BOOLEAN, Send(m, d)
       PROVE  NeverStuck'
  BY <1>7, <1>13 DEF Send
<1>14. ASSUME NEW m \in Messages, SendAhead(m)
       PROVE  NeverStuck'
  BY <1>2, <1>14 DEF SendAhead
<1>15. CASE EnableRead
  <2>1. Reported => Reported'
    BY <1>15 DEF EnableRead, Reported, Edge
  <2> QED BY <1>3, <1>15, <2>1 DEF EnableRead
<1>16. CASE DisableRead
  <2>1. ~Edge
    BY <1>16 DEF DisableRead, Edge
  <2>2. Reported => Reported'
    BY <1>16, <2>1 DEF DisableRead, Reported, Edge
  <2> QED BY <1>3, <1>16, <2>2 DEF DisableRead
<1>17. CASE PollWrite
  BY <1>5, <1>17 DEF PollWrite
<1>18. CASE DelayedFlush
  <2>1. CASE status = "open"
    BY <1>5, <1>18, <2>1 DEF DelayedFlush
  <2>2. CASE status # "open"
    BY <1>2, <1>18, <2>2 DEF DelayedFlush
  <2> QED BY <2>1, <2>2
<1>19. CASE DelayedEnsure
  <2>1. CASE status = "open"
    BY <1>2, <1>6, <1>19, <2>1 DEF DelayedEnsure
  <2>2. CASE status # "open"
    BY <1>2, <1>19, <2>2 DEF DelayedEnsure
  <2> QED BY <2>1, <2>2
<1>20. ASSUME NEW k \in 0 .. Capacity, Transmit(k)
       PROVE  NeverStuck'
  <2>1. stack # <<>> /\ pending # <<>>
    BY <1>20 DEF Transmit, InLoop
  <2>2. First.id \in Ids
    <3>1. pending \in Seq([id: Ids, left: Nat])
      BY DEF Shapes, DataShapes
    <3>2. First \in [id: Ids, left: Nat]
      BY <2>1, <3>1, HeadTailProperties DEF First
    <3> QED BY <3>2
  <2>3. stack' # <<>>
    BY <1>20, <2>1, <2>2, StackSteps DEF Transmit
  <2> QED BY <1>2, <2>3
<1>21. CASE Refused
  <2>1. /\ nospace' /\ poll' = poll /\ reads' = reads /\ status = "open"
        /\ writes' = IF IsSubWrite THEN writes ELSE ~Edge
    BY <1>21 DEF Refused, SubWrite
  <2>2. Edge => Reported'
    BY <2>1 DEF Waking, Woken, Reported, Edge
  <2>3. ~Edge => Reported'
    BY <2>1 DEF Reported, Edge, IsSubWrite
  <2> QED BY <1>2, <2>2, <2>3
<1>22. CASE Drained
  <2>1. pending' = <<>>
    BY <1>22 DEF Drained
  <2> QED BY <1>2, <2>1
<1>23. CASE SocketFails
  <2>1. CASE status = "closed"
    BY <1>2, <1>23, <2>1 DEF SocketFails
  <2>2. CASE status # "closed"
    BY <1>8, <1>23, <2>2 DEF SocketFails
  <2> QED BY <2>1, <2>2
<1>24. CASE UserRaises
  BY <1>8, <1>24 DEF UserRaises
<1>25. CASE Return \/ Callback
  <2>1. stack # <<>> /\ Owes(None)
    BY <1>25 DEF Return, Callback
  <2> QED BY <1>2, <2>1, StackSteps
<1>26. CASE Connected
  <2>1. Reported => Reported'
    BY <1>26 DEF Connected, Reported, Edge
  <2> QED BY <1>3, <1>26, <2>1 DEF Connected
<1>27. ASSUME NEW k \in 1 .. Capacity, PeerReads(k)
       PROVE  NeverStuck'
  <2>1. Reported => Reported'
    BY <1>27 DEF PeerReads, Reported, Edge
  <2> QED BY <1>3, <1>27, <2>1 DEF PeerReads
<1>28. ASSUME NEW m \in Messages, ForeignSend(m)
       PROVE  NeverStuck'
  BY <1>2, <1>28 DEF ForeignSend
<1>29. CASE ForeignAppend \/ ForeignRead \/ ForeignWrite \/ ForeignWake
  <2>1. tpc' # "idle"
    BY <1>29 DEF ForeignAppend, ForeignRead, ForeignWrite, ForeignWake
  <2> QED BY <1>2, <2>1
<1>30. CASE ForeignDelay
  <2>1. flushes' \/ ensures' > 0
    BY <1>30 DEF ForeignDelay, Shapes, FlagShapes
  <2> QED BY <1>2, <2>1
<1> QED BY <1>9, <1>10, <1>11, <1>12, <1>13, <1>14, <1>15, <1>16, <1>17, <1>18,
           <1>19, <1>20, <1>21, <1>22, <1>23, <1>24, <1>25, <1>26, <1>27, <1>28,
           <1>29, <1>30
        DEF ConnectionNext, UserStep, LoopStep, PeerStep, ForeignStep

\* The queue of an open connection is whole, counted and on its way: a flush is
\* scheduled, or the poll knows of the socket, or will (send(), ensure_write(),
\* _send()).  With an edge-triggered poll, disable_read() would drop the only
\* registration there is.
THEOREM QueueSafe ==
    ASSUME "edge" \notin Disables
    PROVE  ConnectionSpec => []QueueSafety
<1>1. ConnectionInit => ConnectionInv /\ Waking
  <2>1. ConnectionInit => Waking
    BY DEF ConnectionInit, Waking, Woken, NeverStuck
  <2> QED BY <2>1, ConnectionInvInit
<1>2. ConnectionInv /\ Waking /\ [ConnectionNext]_connectionVars =>
          ConnectionInv' /\ Waking'
  BY ConnectionInvStep, WokenStep, NeverStuckStep DEF ConnectionInv, Waking
<1>3. ConnectionInv /\ Waking => QueueSafety
  BY ConnectionInvImplies DEF QueueSafety, Waking
<1> QED BY <1>1, <1>2, <1>3, PTL DEF ConnectionSpec
=============================================================================
