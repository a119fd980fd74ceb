-------------------------- MODULE EchoStreamProofs --------------------------
(***************************************************************************)
(* Proofs about EchoStream: what is true of every stream, whatever the     *)
(* bytes, the size of the buffer and the number of streams.                *)
(***************************************************************************)
EXTENDS EchoStream, SequenceTheorems, TLAPS

-----------------------------------------------------------------------------
(* The invariant.                                                          *)

(* The buffer of a stream and the callback it waits for: it reads while    *)
(* there is room and no newline, and writes when the last byte is one.     *)
Turns(s) ==
  /\ stage[s] = "idle" => /\ want[s] = {} /\ buf_off[s] = 0 /\ ~ reset[s]
                          /\ received[s] = <<>> /\ echoed[s] = <<>>
  /\ want[s] \in {{}, {"read"}, {"write"}}
  /\ want[s] = {"read"} => /\ buf_off[s] < BufSize
                           /\ buf_off[s] > 0 => buf[s][buf_off[s]] # NL
  /\ want[s] = {"write"} => buf_off[s] > 0 /\ buf[s][buf_off[s]] = NL

(* The first l bytes of e have a newline at their end, and in each part of *)
(* them that is as long as the buffer.                                     *)
Lines(e, l) ==
  /\ l > 0 => e[l] = NL
  /\ \A i \in 1 .. l - BufSize + 1 : \E j \in i .. i + BufSize - 1 : e[j] = NL

Whole(s) == ~ short_writes => Lines(echoed[s], Len(echoed[s]))

(* The first n received bytes have the echoed ones among them, in order.   *)
Selected(e, r, n) ==
  \E place \in [1 .. Len(e) -> 1 .. n] :
    /\ \A i, j \in 1 .. Len(e) : i < j => place[i] < place[j]
    /\ \A i \in 1 .. Len(e) : e[i] = r[place[i]]

(* Of the bytes r received, the last k are in the buffer b, and those      *)
(* echoed, e, are some of the others, or all if writes do not fall short.  *)
Follows(e, r, b, k, short) ==
  LET n == Len(r) - k
  IN  /\ n \in Nat
      /\ \A i \in 1 .. k : b[i] = r[n + i]
      /\ Selected(e, r, n)
      /\ ~ short => Len(e) = n /\ \A i \in 1 .. n : e[i] = r[i]

Ordered(s) ==
  stage[s] \in {"idle", "open"} /\ ~ reset[s]
    => Follows(echoed[s], received[s], buf[s], buf_off[s], short_writes)

Sound(s) == Turns(s) /\ Whole(s) /\ Ordered(s)

IInv == TypeOK /\ \A s \in Stream : Sound(s)

-----------------------------------------------------------------------------
(* Sequences.                                                              *)

(* The bytes of the buffer in use, as a sequence. *)
LEMMA Prefix ==
  ASSUME NEW b \in [1..BufSize -> Byte], NEW n \in 0..BufSize
  PROVE  /\ SubSeq(b, 1, n) \in Seq(Byte)
         /\ Len(SubSeq(b, 1, n)) = n
         /\ \A i \in 1..n : SubSeq(b, 1, n)[i] = b[i]
<1>1. n \in Int /\ 1 \in Int /\ BufSize \in Nat
  BY EchoAssumption
<1>2. \A i \in 1..n : b[i] \in Byte
  BY <1>1
<1> QED
  BY <1>1, <1>2, SubSeqProperties

(* What n bytes of the buffer, echoed, add to what was echoed before. *)
LEMMA EchoGrows ==
  ASSUME NEW b \in [1..BufSize -> Byte], NEW n \in 0..BufSize, NEW e \in Seq(Byte)
  PROVE  LET d == e \o SubSeq(b, 1, n)
         IN  /\ d \in Seq(Byte) /\ Len(e) \in Nat /\ Len(d) = Len(e) + n
             /\ \A i \in 1 .. Len(e) : d[i] = e[i]
             /\ \A i \in 1 .. n : d[Len(e) + i] = b[i]
<1> DEFINE p == SubSeq(b, 1, n)
<1>1. p \in Seq(Byte) /\ Len(p) = n /\ \A i \in 1..n : p[i] = b[i]
  BY Prefix
<1> HIDE DEF p
<1>2. n \in Nat /\ Len(e) \in Nat
  BY EchoAssumption, LenProperties
<1>3. /\ e \o p \in Seq(Byte) /\ Len(e \o p) = Len(e) + Len(p)
      /\ \A i \in 1 .. Len(e) + Len(p) :
           (e \o p)[i] = IF i <= Len(e) THEN e[i] ELSE p[i - Len(e)]
  BY <1>1, ConcatProperties
<1> DEFINE d == e \o p
<1>4. /\ d \in Seq(Byte) /\ Len(d) = Len(e) + n
      /\ \A i \in 1 .. Len(e) + n : d[i] = IF i <= Len(e) THEN e[i] ELSE p[i - Len(e)]
  BY <1>1, <1>3
<1> HIDE DEF d
<1>5. \A i \in 1 .. Len(e) : d[i] = e[i]
  BY <1>2, <1>4
<1>6. ASSUME NEW i \in 1 .. n PROVE d[Len(e) + i] = b[i]
  <2>1. Len(e) + i \in 1 .. Len(e) + n /\ ~ Len(e) + i <= Len(e) /\ (Len(e) + i) - Len(e) = i
    BY <1>2
  <2> QED
    BY <2>1, <1>1, <1>4
<1> QED
  BY <1>2, <1>4, <1>5, <1>6 DEF d, p

(* A byte received is the last, and the others stay where they are. *)
LEMMA ReceivedGrows ==
  ASSUME NEW r \in Seq(Byte), NEW c \in Byte
  PROVE  /\ Append(r, c) \in Seq(Byte) /\ Len(r) \in Nat /\ Len(Append(r, c)) = Len(r) + 1
         /\ \A i \in 1 .. Len(r) : Append(r, c)[i] = r[i]
         /\ Append(r, c)[Len(r) + 1] = c
  BY AppendProperties, LenProperties

(* More may be received without a change of what was selected. *)
LEMMA StaysSelected ==
  ASSUME NEW e \in Seq(Byte), NEW r, NEW q, NEW n \in Nat, Selected(e, r, n),
         \A i \in 1..n : q[i] = r[i]
  PROVE  Selected(e, q, n)
<1>1. PICK place \in [1 .. Len(e) -> 1 .. n] :
        /\ \A i, j \in 1 .. Len(e) : i < j => place[i] < place[j]
        /\ \A i \in 1 .. Len(e) : e[i] = r[place[i]]
  BY DEF Selected
<1>2. \A i \in 1 .. Len(e) : e[i] = q[place[i]]
  BY <1>1
<1> QED
  BY <1>1, <1>2 DEF Selected

(* A part of what was received after the selection extends it. *)
LEMMA SelectsMore ==
  ASSUME NEW e \in Seq(Byte), NEW r, NEW n \in Nat, Selected(e, r, n),
         NEW k \in Nat, NEW m \in Nat, k <= m,
         NEW d \in Seq(Byte), Len(d) = Len(e) + k, Len(e) \in Nat,
         \A i \in 1 .. Len(e) : d[i] = e[i],
         \A i \in 1 .. k : d[Len(e) + i] = r[n + i]
  PROVE  Selected(d, r, n + m)
<1>1. PICK place \in [1 .. Len(e) -> 1 .. n] :
        /\ \A i, j \in 1 .. Len(e) : i < j => place[i] < place[j]
        /\ \A i \in 1 .. Len(e) : e[i] = r[place[i]]
  BY DEF Selected
<1> DEFINE L == Len(e)
           p == [i \in 1 .. L + k |-> IF i <= L THEN place[i] ELSE n + (i - L)]
<1>0. L \in Nat
  OBVIOUS
<1>2. \A i \in 1..L : place[i] \in 1..n
  BY <1>1
<1> HIDE DEF L
<1>3. p \in [1 .. L + k -> 1 .. n + m]
  BY <1>0, <1>2
<1>4. ASSUME NEW i \in 1 .. L + k, NEW j \in 1 .. L + k, i < j
      PROVE  p[i] < p[j]
  <2>1. CASE j <= L
    BY <1>0, <1>1, <1>4, <2>1 DEF L
  <2>2. CASE i <= L /\ j > L
    BY <1>0, <1>2, <2>2
  <2>3. CASE i > L
    BY <1>0, <1>4, <2>3
  <2> QED
    BY <1>0, <2>1, <2>2, <2>3
<1>5. ASSUME NEW i \in 1 .. L + k PROVE d[i] = r[p[i]]
  <2>1. CASE i <= L
    BY <1>0, <1>1, <2>1 DEF L
  <2>2. CASE i > L
    <3>1. i - L \in 1..k /\ L + (i - L) = i
      BY <1>0, <2>2
    <3>2. d[L + (i - L)] = r[n + (i - L)]
      BY <3>1 DEF L
    <3> QED
      BY <1>0, <2>2, <3>1, <3>2
  <2> QED
    BY <1>0, <2>1, <2>2
<1>6. p \in [1 .. Len(d) -> 1 .. n + m]
  BY <1>3 DEF L
<1> HIDE DEF p
<1> QED
  BY <1>4, <1>5, <1>6 DEF Selected, L

(* A line behind whole lines: each window that reaches into it has the     *)
(* newline before it or the one at its end.                                *)
LEMMA LinesAdd ==
  ASSUME NEW e, NEW d, NEW l \in Nat, NEW k \in 1..BufSize, Lines(e, l),
         \A i \in 1..l : d[i] = e[i], d[l + k] = NL
  PROVE  Lines(d, l + k)
<1>0. BufSize \in Nat \ {0} /\ k \in Nat
  BY EchoAssumption
<1> SUFFICES ASSUME NEW i \in 1 .. (l + k) - BufSize + 1
             PROVE  \E j \in i .. i + BufSize - 1 : d[j] = NL
  BY DEF Lines
<1>1. CASE i + BufSize - 1 <= l
  <2>1. i \in 1 .. l - BufSize + 1
    BY <1>0, <1>1
  <2>2. PICK j \in i .. i + BufSize - 1 : e[j] = NL
    BY <2>1 DEF Lines
  <2>3. j \in 1..l
    BY <1>0, <1>1, <2>1
  <2> QED
    BY <2>2, <2>3
<1>2. CASE i + BufSize - 1 > l /\ i <= l
  <2>1. l \in 1..l /\ l \in i .. i + BufSize - 1 /\ l > 0
    BY <1>0, <1>2
  <2> QED
    BY <2>1 DEF Lines
<1>3. CASE i > l
  <2>1. l + k \in i .. i + BufSize - 1
    BY <1>0, <1>3
  <2> QED
    BY <2>1
<1> QED
  BY <1>0, <1>1, <1>2, <1>3

-----------------------------------------------------------------------------
(* The steps.                                                              *)

(* All that is kept of a stream. *)
Kept(s) ==
  <<stage[s], want[s], buf[s], buf_off[s], reset[s], received[s], echoed[s]>>

(* A stream that a step does not touch stays as it is. *)
LEMMA Untouched ==
  ASSUME NEW s \in Stream, Sound(s), short_writes' = short_writes, Kept(s)' = Kept(s)
  PROVE  Sound(s)'
<1>1. /\ stage'[s] = stage[s] /\ want'[s] = want[s] /\ buf'[s] = buf[s]
      /\ buf_off'[s] = buf_off[s] /\ reset'[s] = reset[s]
      /\ received'[s] = received[s] /\ echoed'[s] = echoed[s]
  BY DEF Kept
<1>2. Turns(s)'
  BY <1>1 DEF Sound, Turns
<1>3. Whole(s)'
  BY <1>1 DEF Sound, Whole
<1>4. Ordered(s)'
  <2>1. Ordered(s)
    BY DEF Sound
  <2> QED
    BY <1>1, <2>1 DEF Ordered
<1> QED
  BY <1>2, <1>3, <1>4 DEF Sound

(* A step that leaves the bytes of a stream alone is judged by its stage   *)
(* and what it wants: nothing wanted is always sound, and neither a reset  *)
(* nor an end makes claims.                                                *)
LEMMA Quiet ==
  ASSUME NEW s \in Stream, Sound(s), short_writes' = short_writes,
         buf'[s] = buf[s], buf_off'[s] = buf_off[s], received'[s] = received[s],
         echoed'[s] = echoed[s], stage'[s] # "idle",
         stage'[s] = "open" => stage[s] \in {"idle", "open"},
         reset[s] => reset'[s],
         want'[s] \in {{}, want[s]} \/ (want'[s] = {"read"} /\ buf_off[s] = 0)
  PROVE  Sound(s)'
<1>1. Turns(s)'
  <2>1. want[s] \in {{}, {"read"}, {"write"}} /\ BufSize > 0
    BY EchoAssumption DEF Sound, Turns
  <2>2. CASE want'[s] = {}
    BY <2>2 DEF Turns
  <2>3. CASE want'[s] = want[s]
    BY <2>3 DEF Sound, Turns
  <2>4. CASE want'[s] = {"read"} /\ buf_off[s] = 0
    BY <2>1, <2>4 DEF Turns
  <2> QED
    BY <2>2, <2>3, <2>4
<1>2. Whole(s)'
  BY DEF Sound, Whole
<1>3. Ordered(s)'
  <2>1. stage'[s] \in {"idle", "open"} /\ ~ reset'[s] => stage[s] \in {"idle", "open"} /\ ~ reset[s]
    OBVIOUS
  <2>2. Ordered(s)
    BY DEF Sound
  <2> QED
    BY <2>1, <2>2 DEF Ordered
<1> QED
  BY <1>1, <1>2, <1>3 DEF Sound

(* The constants and the types of a stream's bytes. *)
LEMMA Bytes ==
  ASSUME TypeOK, NEW s \in Stream
  PROVE  /\ BufSize \in Nat \ {0} /\ NL \in Byte
         /\ stage[s] \in {"idle", "open", "shut", "closed"}
         /\ buf[s] \in [1..BufSize -> Byte]
         /\ buf_off[s] \in 0..BufSize /\ buf_off[s] \in Nat
         /\ received[s] \in Seq(Byte) /\ Len(received[s]) \in Nat
         /\ echoed[s] \in Seq(Byte) /\ Len(echoed[s]) \in Nat
<1>1. BufSize \in Nat \ {0} /\ NL \in Byte
  BY EchoAssumption DEF Byte
<1>2. received[s] \in Seq(Byte) /\ echoed[s] \in Seq(Byte)
  BY DEF TypeOK
<1>3. Len(received[s]) \in Nat /\ Len(echoed[s]) \in Nat
  BY <1>2, LenProperties
<1>4. buf[s] \in [1..BufSize -> Byte] /\ buf_off[s] \in 0..BufSize
  BY DEF TypeOK
<1> QED
  BY <1>1, <1>2, <1>3, <1>4 DEF TypeOK

(* Streams without a context have nothing to be wrong about.               *)
LEMMA InitSound == Init => IInv
<1> SUFFICES ASSUME Init PROVE IInv
  OBVIOUS
<1>0. BufSize \in Nat \ {0} /\ <<>> \in Seq(Byte) /\ Len(<<>>) = 0
  BY EchoAssumption
<1>1. TypeOK
  BY <1>0, EchoAssumption DEF Init, TypeOK
<1>2. ASSUME NEW s \in Stream PROVE Sound(s)
  <2>0. /\ stage[s] = "idle" /\ want[s] = {} /\ buf_off[s] = 0 /\ reset[s] = FALSE
        /\ received[s] = <<>> /\ echoed[s] = <<>>
    BY DEF Init
  <2>1. Turns(s)
    BY <2>0 DEF Turns
  <2>2. Whole(s)
    <3>1. \A i \in 1 .. 0 - BufSize + 1 : \E j \in i .. i + BufSize - 1 : <<>>[j] = NL
      BY <1>0
    <3>2. Lines(<<>>, 0)
      BY <3>1 DEF Lines
    <3> QED
      BY <1>0, <2>0, <3>2 DEF Whole
  <2>3. Selected(<<>>, <<>>, 0)
    <3>1. \A i \in 1..0 : FALSE
      OBVIOUS
    <3>2. [i \in 1..0 |-> 0] \in [1..0 -> 1..0]
      BY <3>1
    <3>3. 1 .. Len(<<>>) = 1..0
      BY <1>0
    <3> QED
      BY <3>1, <3>2, <3>3, Zenon DEF Selected
  <2>4. Ordered(s)
    BY <1>0, <2>0, <2>3 DEF Ordered, Follows
  <2> QED
    BY <2>1, <2>2, <2>4 DEF Sound
<1> QED
  BY <1>1, <1>2 DEF IInv

(* on_new_stream: the buffer is empty and has room.                        *)
LEMMA OpeningSound ==
  ASSUME IInv, NEW s \in Stream, echo_server_on_new_stream(s)
  PROVE  IInv'
<1>1. TypeOK'
  BY DEF IInv, TypeOK, echo_server_on_new_stream
<1>2. ASSUME NEW t \in Stream PROVE Sound(t)'
  <2>1. CASE t = s
    <3>1. Sound(s) /\ buf_off[s] = 0 /\ BufSize > 0
      BY EchoAssumption DEF IInv, Sound, Turns, echo_server_on_new_stream
    <3>2. stage'[s] = "open" /\ stage[s] = "idle" /\ want'[s] = {"read"}
      BY DEF IInv, TypeOK, echo_server_on_new_stream
    <3> QED
      BY <2>1, <3>1, <3>2, Quiet DEF echo_server_on_new_stream
  <2>2. CASE t # s
    BY <2>2, Untouched DEF IInv, TypeOK, Kept, echo_server_on_new_stream
  <2> QED
    BY <2>1, <2>2
<1> QED
  BY <1>1, <1>2 DEF IInv

(* A byte more in the buffer: a newline turns the stream to writing, a     *)
(* full buffer ends it, and otherwise there is room left.                  *)
LEMMA LineOrFullTurns ==
  ASSUME IInv, NEW s \in Stream, Reads(s), LineOrFull(s),
         buf' \in [Stream -> [1..BufSize -> Byte]]
  PROVE  /\ stage' \in [Stream -> {"idle", "open", "shut", "closed"}]
         /\ stage'[s] \in {"open", "shut"}
         /\ want' \in [Stream -> SUBSET {"read", "write"}]
         /\ buf_off' \in [Stream -> 0..BufSize]
         /\ buf_off'[s] = buf_off[s] + 1 /\ buf_off[s] < BufSize
         /\ Turns(s)'
         /\ \A t \in Stream \ {s} :
              stage'[t] = stage[t] /\ want'[t] = want[t] /\ buf_off'[t] = buf_off[t]
<1>1. /\ want[s] = {"read"} /\ stage[s] = "open" /\ buf_off[s] < BufSize
      /\ BufSize \in Nat \ {0} /\ buf_off[s] \in 0..BufSize
  BY Bytes DEF IInv, Sound, Turns, Reads
<1>2. /\ buf_off' = [buf_off EXCEPT ![s] = buf_off[s] + 1]
      /\ \/ /\ buf'[s][buf_off[s] + 1] = NL
            /\ want' = [want EXCEPT ![s] = {"write"}] /\ stage' = stage
         \/ /\ stage' = [stage EXCEPT ![s] = "shut"] /\ want' = [want EXCEPT ![s] = {}]
         \/ /\ buf_off[s] + 1 # BufSize
            /\ buf'[s][buf_off[s] + 1] # NL /\ stage' = stage /\ want' = want
  BY DEF LineOrFull, Shutdown
<1>3. /\ stage \in [Stream -> {"idle", "open", "shut", "closed"}]
      /\ want \in [Stream -> SUBSET {"read", "write"}]
      /\ buf_off \in [Stream -> 0..BufSize]
  BY DEF IInv, TypeOK
<1>4. buf_off[s] + 1 \in 0..BufSize
  BY <1>1
<1>5. buf_off' \in [Stream -> 0..BufSize] /\ buf_off'[s] = buf_off[s] + 1
  BY <1>2, <1>3, <1>4
<1>6. \A t \in Stream \ {s} :
        stage'[t] = stage[t] /\ want'[t] = want[t] /\ buf_off'[t] = buf_off[t]
  BY <1>2, <1>3
<1>7. CASE /\ buf'[s][buf_off[s] + 1] = NL
           /\ want' = [want EXCEPT ![s] = {"write"}] /\ stage' = stage
  <2>1. want'[s] = {"write"} /\ stage'[s] = "open"
    BY <1>1, <1>3, <1>7
  <2>2. want' \in [Stream -> SUBSET {"read", "write"}]
    BY <1>3, <1>7
  <2> buf_off'[s] > 0 /\ buf'[s][buf_off'[s]] = NL
    BY <1>1, <1>5, <1>7
  <2>3. Turns(s)'
    BY <2>1 DEF Turns
  <2> QED
    BY <1>1, <1>3, <1>5, <1>6, <1>7, <2>1, <2>2, <2>3
<1>8. CASE stage' = [stage EXCEPT ![s] = "shut"] /\ want' = [want EXCEPT ![s] = {}]
  <2>1. want'[s] = {} /\ stage'[s] = "shut"
    BY <1>3, <1>8
  <2>2. /\ want' \in [Stream -> SUBSET {"read", "write"}]
        /\ stage' \in [Stream -> {"idle", "open", "shut", "closed"}]
    BY <1>3, <1>8
  <2>3. Turns(s)'
    BY <2>1 DEF Turns
  <2> QED
    BY <1>1, <1>5, <1>6, <2>1, <2>2, <2>3
<1>9. CASE /\ buf_off[s] + 1 # BufSize
           /\ buf'[s][buf_off[s] + 1] # NL /\ stage' = stage /\ want' = want
  <2>1. /\ want'[s] = {"read"} /\ stage'[s] = "open" /\ buf_off'[s] < BufSize
        /\ buf'[s][buf_off'[s]] # NL
    BY <1>1, <1>5, <1>9
  <2>2. Turns(s)'
    BY <2>1 DEF Turns
  <2> QED
    BY <1>1, <1>3, <1>5, <1>6, <1>9, <2>1, <2>2
<1> QED
  BY <1>2, <1>7, <1>8, <1>9

(* A byte received goes behind those in the buffer. *)
LEMMA FollowsRead ==
  ASSUME NEW e \in Seq(Byte), NEW r \in Seq(Byte), NEW b, NEW k \in Nat, NEW short,
         Follows(e, r, b, k, short), NEW x \in Byte, NEW c,
         \A i \in 1..k : c[i] = b[i], c[k + 1] = x
  PROVE  Follows(e, Append(r, x), c, k + 1, short)
<1> DEFINE n == Len(r) - k
           q == Append(r, x)
<1>1. /\ n \in Nat /\ Selected(e, r, n) /\ \A i \in 1 .. k : b[i] = r[n + i]
      /\ ~ short => Len(e) = n /\ \A i \in 1 .. n : e[i] = r[i]
  BY DEF Follows
<1>2. /\ Len(r) \in Nat /\ Len(q) = Len(r) + 1 /\ \A i \in 1 .. Len(r) : q[i] = r[i]
      /\ q[Len(r) + 1] = x
  BY ReceivedGrows
<1> HIDE DEF q
<1>3. Len(q) - (k + 1) = n /\ Len(r) = n + k /\ n + (k + 1) = Len(r) + 1
  BY <1>1, <1>2
<1> HIDE DEF n
<1>4. \A i \in 1..n : q[i] = r[i]
  BY <1>1, <1>2, <1>3
<1>5. Selected(e, q, n)
  BY <1>1, <1>4, StaysSelected
<1>6. ASSUME NEW i \in 1 .. k + 1 PROVE c[i] = q[n + i]
  <2>1. CASE i \in 1..k
    BY <1>1, <1>2, <1>3, <2>1
  <2>2. CASE i = k + 1
    BY <1>2, <1>3, <2>2
  <2> QED
    BY <2>1, <2>2
<1>7. ~ short => Len(e) = n /\ \A i \in 1 .. n : e[i] = q[i]
  BY <1>1, <1>4
<1> QED
  BY <1>1, <1>3, <1>5, <1>6, <1>7 DEF Follows, q

(* Some of the buffer is echoed, all of it if writes do not fall short,    *)
(* and the buffer is empty then.                                           *)
LEMMA FollowsWrite ==
  ASSUME NEW e \in Seq(Byte), NEW r \in Seq(Byte), NEW b \in [1..BufSize -> Byte],
         NEW k \in 0..BufSize, NEW short, Follows(e, r, b, k, short),
         NEW m \in 0..k, ~ short => m = k
  PROVE  Follows(e \o SubSeq(b, 1, m), r, b, 0, short)
<1> DEFINE n == Len(r) - k
           d == e \o SubSeq(b, 1, m)
<1>0. BufSize \in Nat /\ k \in Nat /\ m \in Nat /\ m \in 0..BufSize /\ m <= k
  BY EchoAssumption
<1>1. /\ n \in Nat /\ Selected(e, r, n) /\ \A i \in 1 .. k : b[i] = r[n + i]
      /\ ~ short => Len(e) = n /\ \A i \in 1 .. n : e[i] = r[i]
  BY DEF Follows
<1>2. /\ d \in Seq(Byte) /\ Len(e) \in Nat /\ Len(d) = Len(e) + m
      /\ \A i \in 1 .. Len(e) : d[i] = e[i]
      /\ \A i \in 1 .. m : d[Len(e) + i] = b[i]
  BY <1>0, EchoGrows
<1> HIDE DEF d
<1>3. Len(r) \in Nat
  BY LenProperties
<1>4. Len(r) = n + k
  BY <1>0, <1>3
<1> HIDE DEF n
<1>5. ASSUME NEW i \in 1..m PROVE d[Len(e) + i] = r[n + i]
  <2>1. i \in 1..k
    BY <1>0
  <2>2. d[Len(e) + i] = b[i] /\ b[i] = r[n + i]
    BY <1>1, <1>2, <2>1
  <2> QED
    BY <2>2
<1>6. Selected(d, r, n + k)
  BY <1>0, <1>1, <1>2, <1>5, SelectsMore
<1>7. ASSUME ~ short
      PROVE  Len(d) = Len(r) /\ \A i \in 1 .. Len(r) : d[i] = r[i]
  <2>1. Len(e) = n /\ m = k
    BY <1>1, <1>7
  <2>2. ASSUME NEW i \in 1 .. n + k PROVE d[i] = r[i]
    <3>1. CASE i <= n
      BY <1>1, <1>2, <1>7, <2>1, <3>1
    <3>2. CASE i > n
      <4>1. i - n \in 1..k /\ n + (i - n) = i
        BY <1>0, <1>1, <3>2
      <4> QED
        BY <1>5, <2>1, <4>1
    <3> QED
      BY <1>0, <1>1, <3>1, <3>2
  <2> QED
    BY <1>2, <1>4, <2>1, <2>2
<1>8. Len(r) - 0 = Len(r) /\ \A i \in 1..0 : FALSE
  BY <1>3
<1> QED
  BY <1>3, <1>4, <1>6, <1>7, <1>8 DEF Follows, d

(* on_read: the byte goes to the end of the buffer and of what was         *)
(* received.                                                               *)
LEMMA ReadByteSound ==
  ASSUME IInv, NEW s \in Stream, NEW x \in Byte, ReadByte(s, x)
  PROVE  IInv'
<1> DEFINE k == buf_off[s]
<1>1. /\ BufSize \in Nat \ {0} /\ k \in 0..BufSize /\ k \in Nat
      /\ buf[s] \in [1..BufSize -> Byte]
      /\ received[s] \in Seq(Byte) /\ echoed[s] \in Seq(Byte)
  BY Bytes DEF IInv
<1>2. Reads(s) /\ LineOrFull(s) /\ ~ reset[s] /\ stage[s] = "open"
  BY DEF ReadByte, Reads
<1>3. k < BufSize /\ k + 1 \in 1..BufSize
  BY <1>1, <1>2 DEF IInv, Sound, Turns, Reads
<1>4. /\ buf' \in [Stream -> [1..BufSize -> Byte]]
      /\ \A i \in 1..k : buf'[s][i] = buf[s][i]
      /\ buf'[s][k + 1] = x
      /\ \A t \in Stream \ {s} : buf'[t] = buf[t]
  BY <1>1, <1>3 DEF IInv, TypeOK, ReadByte
<1>5. /\ stage' \in [Stream -> {"idle", "open", "shut", "closed"}]
      /\ stage'[s] \in {"open", "shut"}
      /\ want' \in [Stream -> SUBSET {"read", "write"}]
      /\ buf_off' \in [Stream -> 0..BufSize]
      /\ buf_off'[s] = k + 1 /\ Turns(s)'
      /\ \A t \in Stream \ {s} :
           stage'[t] = stage[t] /\ want'[t] = want[t] /\ buf_off'[t] = buf_off[t]
  BY <1>2, <1>4, LineOrFullTurns
<1>6. /\ received'[s] = Append(received[s], x) /\ Append(received[s], x) \in Seq(Byte)
      /\ received' \in [Stream -> Seq(Byte)]
      /\ \A t \in Stream \ {s} : received'[t] = received[t]
  BY <1>1 DEF IInv, TypeOK, ReadByte
<1>7. TypeOK'
  BY <1>4, <1>5, <1>6 DEF IInv, TypeOK, ReadByte
<1>8. ASSUME NEW t \in Stream PROVE Sound(t)'
  <2>1. CASE t = s
    <3>1. Follows(echoed[s], received[s], buf[s], k, short_writes)
      BY <1>2 DEF IInv, Sound, Ordered
    <3> DEFINE c == buf'[s]
    <3>0. (\A i \in 1..k : c[i] = buf[s][i]) /\ c[k + 1] = x
      BY <1>4
    <3> HIDE DEF c, k
    <3>2. Follows(echoed[s], Append(received[s], x), c, k + 1, short_writes)
      BY <1>1, <3>0, <3>1, FollowsRead
    <3>3. Ordered(s)'
      BY <1>5, <1>6, <3>2 DEF Ordered, ReadByte, c
    <3>4. Whole(s)'
      BY DEF IInv, Sound, Whole, ReadByte
    <3> QED
      BY <1>5, <2>1, <3>3, <3>4 DEF Sound
  <2>2. CASE t # s
    BY <1>4, <1>5, <1>6, <2>2, Untouched DEF IInv, Kept, ReadByte
  <2> QED
    BY <2>1, <2>2
<1> QED
  BY <1>7, <1>8 DEF IInv

(* A read that failed moves the end of the buffer, and claims no bytes. *)
LEMMA ReadErrorSound ==
  ASSUME IInv, NEW s \in Stream, ReadError(s)
  PROVE  IInv'
<1>1. Reads(s) /\ LineOrFull(s) /\ reset[s] /\ buf' = buf
  BY DEF ReadError
<1>2. buf' \in [Stream -> [1..BufSize -> Byte]]
  BY <1>1 DEF IInv, TypeOK
<1>3. /\ stage' \in [Stream -> {"idle", "open", "shut", "closed"}]
      /\ want' \in [Stream -> SUBSET {"read", "write"}]
      /\ buf_off' \in [Stream -> 0..BufSize] /\ Turns(s)'
      /\ \A t \in Stream \ {s} :
           stage'[t] = stage[t] /\ want'[t] = want[t] /\ buf_off'[t] = buf_off[t]
  BY <1>1, <1>2, LineOrFullTurns
<1>4. TypeOK'
  BY <1>2, <1>3 DEF IInv, TypeOK, ReadError
<1>5. ASSUME NEW t \in Stream PROVE Sound(t)'
  <2>1. CASE t = s
    <3>1. Ordered(s)'
      BY <1>1 DEF Ordered, ReadError
    <3>2. Whole(s)'
      BY DEF IInv, Sound, Whole, ReadError
    <3> QED
      BY <1>3, <2>1, <3>1, <3>2 DEF Sound
  <2>2. CASE t # s
    BY <1>1, <1>3, <2>2, Untouched DEF IInv, Kept, ReadError
  <2> QED
    BY <2>1, <2>2
<1> QED
  BY <1>4, <1>5 DEF IInv

(* on_read at the end of the input: the stream is shut down.               *)
LEMMA ReadEofSound ==
  ASSUME IInv, NEW s \in Stream, ReadEof(s)
  PROVE  IInv'
<1>1. buf_off[s] < BufSize /\ buf_off[s] + 1 \in 0..BufSize
  <2>1. buf_off[s] \in 0..BufSize /\ BufSize \in Nat
    BY Bytes DEF IInv
  <2>2. buf_off[s] < BufSize
    BY DEF IInv, Sound, Turns, ReadEof, Reads
  <2> QED
    BY <2>1, <2>2
<1>2. TypeOK'
  BY <1>1 DEF IInv, TypeOK, ReadEof, Shutdown
<1>3. ASSUME NEW t \in Stream PROVE Sound(t)'
  <2>1. CASE t = s
    <3>1. stage'[s] = "shut" /\ want'[s] = {}
      BY DEF IInv, TypeOK, ReadEof, Shutdown
    <3>2. Turns(s)' /\ Ordered(s)'
      BY <3>1 DEF Turns, Ordered
    <3>3. Whole(s)'
      BY DEF IInv, Sound, Whole, ReadEof
    <3> QED
      BY <2>1, <3>2, <3>3 DEF Sound
  <2>2. CASE t # s
    <3>1. Kept(t)' = Kept(t)
      BY <2>2 DEF IInv, TypeOK, Kept, ReadEof, Shutdown
    <3> QED
      BY <3>1, Untouched DEF IInv, ReadEof
  <2> QED
    BY <2>1, <2>2
<1> QED
  BY <1>2, <1>3 DEF IInv

(* on_write: a line, or a part of it, is echoed, and the buffer is used    *)
(* again.                                                                  *)
LEMMA WriteSound ==
  ASSUME IInv, NEW s \in Stream, echo_server_on_write(s)
  PROVE  IInv'
<1> DEFINE k == buf_off[s]
           e == echoed[s]
           b == buf[s]
<1>1. /\ BufSize \in Nat \ {0} /\ k \in 0..BufSize /\ k \in Nat
      /\ b \in [1..BufSize -> Byte] /\ e \in Seq(Byte) /\ Len(e) \in Nat
      /\ received[s] \in Seq(Byte)
  BY Bytes DEF IInv
<1>2. PICK m \in Taken(k) : echoed' = [echoed EXCEPT ![s] = e \o SubSeq(b, 1, m)]
  BY DEF echo_server_on_write
<1>3. stage[s] = "open" /\ want[s] = {"write"} /\ k > 0 /\ b[k] = NL
  BY DEF IInv, Sound, Turns, echo_server_on_write
<1>4. m \in 0..k /\ (~ short_writes => m = k) /\ m \in 0..BufSize
  BY <1>1, <1>2 DEF Taken
<1> DEFINE d == e \o SubSeq(b, 1, m)
<1>5. /\ d \in Seq(Byte) /\ Len(d) = Len(e) + m
      /\ \A i \in 1 .. Len(e) : d[i] = e[i]
      /\ \A i \in 1 .. m : d[Len(e) + i] = b[i]
  BY <1>1, <1>4, EchoGrows
<1>6. echoed'[s] = d /\ \A t \in Stream \ {s} : echoed'[t] = echoed[t]
  BY <1>2 DEF IInv, TypeOK
<1>7. /\ buf_off'[s] = 0 /\ want'[s] = {"read"}
      /\ \A t \in Stream \ {s} : buf_off'[t] = buf_off[t] /\ want'[t] = want[t]
  BY DEF IInv, TypeOK, echo_server_on_write
<1>8. TypeOK'
  <2>1. echoed' \in [Stream -> Seq(Byte)]
    BY <1>2, <1>5 DEF IInv, TypeOK
  <2>2. 0 \in 0..BufSize
    BY <1>1
  <2> QED
    BY <2>1, <2>2 DEF IInv, TypeOK, echo_server_on_write
<1>9. Sound(s)'
  <2>1. Turns(s)'
    <3>1. stage'[s] = "open" /\ buf_off'[s] = 0 /\ 0 < BufSize /\ want'[s] = {"read"}
      BY <1>1, <1>3, <1>7 DEF echo_server_on_write
    <3> QED
      BY <3>1 DEF Turns
  <2>2. Whole(s)'
    <3> SUFFICES ASSUME ~ short_writes PROVE Lines(d, Len(d))
      BY <1>6 DEF Whole, echo_server_on_write
    <3>1. Lines(e, Len(e))
      BY DEF IInv, Sound, Whole
    <3>2. m = k /\ k \in 1..BufSize
      BY <1>1, <1>3, <1>4
    <3> HIDE DEF d, e, b, k
    <3>3. d[Len(e) + k] = NL
      BY <1>3, <1>5, <3>2
    <3>4. Lines(d, Len(e) + k)
      BY <1>1, <1>5, <3>1, <3>2, <3>3, LinesAdd
    <3> QED
      BY <1>5, <3>2, <3>4
  <2>3. Ordered(s)'
    <3>1. Follows(e, received[s], b, k, short_writes) \/ reset[s]
      BY <1>3 DEF IInv, Sound, Ordered
    <3> HIDE DEF d, e, b, k
    <3>2. Follows(d, received[s], b, 0, short_writes) \/ reset[s]
      BY <1>1, <1>4, <3>1, FollowsWrite DEF d
    <3> QED
      BY <1>6, <1>7, <3>2 DEF Ordered, echo_server_on_write, b
  <2> QED
    BY <2>1, <2>2, <2>3 DEF Sound
<1>10. ASSUME NEW t \in Stream, t # s PROVE Sound(t)'
  BY <1>6, <1>7, <1>10, Untouched DEF IInv, Kept, echo_server_on_write
<1> QED
  BY <1>8, <1>9, <1>10 DEF IInv

(* on_close: nothing is wanted of the stream any more.                     *)
LEMMA StreamCloseSound ==
  ASSUME IInv, NEW s \in Stream, echo_server_on_stream_close(s)
  PROVE  IInv'
<1>1. TypeOK'
  BY DEF IInv, TypeOK, echo_server_on_stream_close
<1>2. ASSUME NEW t \in Stream PROVE Sound(t)'
  <2>1. CASE t = s
    <3>1. stage'[s] = "closed" /\ want'[s] = {}
      BY DEF IInv, TypeOK, echo_server_on_stream_close
    <3> QED
      BY <2>1, <3>1, Quiet DEF IInv, echo_server_on_stream_close
  <2>2. CASE t # s
    BY <2>2, Untouched DEF IInv, TypeOK, Kept, echo_server_on_stream_close
  <2> QED
    BY <2>1, <2>2
<1> QED
  BY <1>1, <1>2 DEF IInv

(* A reset takes back what is claimed of the echo, and nothing else.       *)
LEMMA ResetSound ==
  ASSUME IInv, NEW s \in Stream, ResetStream(s)
  PROVE  IInv'
<1>1. TypeOK'
  BY DEF IInv, TypeOK, ResetStream
<1>2. ASSUME NEW t \in Stream PROVE Sound(t)'
  <2>1. CASE t = s
    <3>1. stage[s] = "open" /\ reset'[s] = TRUE
      BY DEF IInv, TypeOK, ResetStream
    <3> QED
      BY <2>1, <3>1, Quiet DEF IInv, ResetStream
  <2>2. CASE t # s
    BY <2>2, Untouched DEF IInv, TypeOK, Kept, ResetStream
  <2> QED
    BY <2>1, <2>2
<1> QED
  BY <1>1, <1>2 DEF IInv

(* Neither the connection nor a stuttering step touches a stream. *)
LEMMA OthersSound ==
  ASSUME IInv, CloseByPeer \/ ConnClosed \/ UNCHANGED vars
  PROVE  IInv'
<1>1. TypeOK'
  BY DEF IInv, TypeOK, CloseByPeer, ConnClosed, vars
<1>2. ASSUME NEW t \in Stream PROVE Sound(t)'
  BY Untouched DEF IInv, Kept, CloseByPeer, ConnClosed, vars
<1> QED
  BY <1>1, <1>2 DEF IInv

(* Each step is one of these.                                              *)
LEMMA NextSound == IInv /\ [Next]_vars => IInv'
<1> SUFFICES ASSUME IInv, [Next]_vars PROVE IInv'
  OBVIOUS
<1>1. ASSUME NEW s \in Stream, echo_server_on_new_stream(s) PROVE IInv'
  BY <1>1, OpeningSound
<1>2. ASSUME NEW s \in Stream, echo_server_on_read(s) PROVE IInv'
  BY <1>2, ReadByteSound, ReadErrorSound, ReadEofSound DEF echo_server_on_read
<1>3. ASSUME NEW s \in Stream, echo_server_on_write(s) PROVE IInv'
  BY <1>3, WriteSound
<1>4. ASSUME NEW s \in Stream, echo_server_on_stream_close(s) PROVE IInv'
  BY <1>4, StreamCloseSound
<1>5. ASSUME NEW s \in Stream, ResetStream(s) PROVE IInv'
  BY <1>5, ResetSound
<1>6. ASSUME CloseByPeer \/ ConnClosed \/ UNCHANGED vars PROVE IInv'
  BY <1>6, OthersSound
<1> QED
  BY <1>1, <1>2, <1>3, <1>4, <1>5, <1>6 DEF Next

(* The invariant holds for ever: each callback keeps it, in any order.     *)
THEOREM IInvAlways == Spec => []IInv
<1> QED
  BY InitSound, NextSound, PTL DEF Spec

-----------------------------------------------------------------------------
(* The properties.                                                         *)

(* Every variable of the streams stays in its type: the offset does not    *)
(* leave the buffer.                                                       *)
THEOREM EchoTypeCorrect == Spec => []TypeOK
<1>1. IInv => TypeOK
  BY DEF IInv
<1> QED
  BY <1>1, IInvAlways, PTL

(* A read always has a byte of the buffer to go to, errors included: a     *)
(* buffer that is full has turned the stream to writing or shut it down.   *)
ReadHasRoom == \A s \in Stream : "read" \in want[s] => buf_off[s] < BufSize

(* A stream that reads has room for the byte, whatever reads return.       *)
THEOREM ReadsHaveRoom == Spec => []ReadHasRoom
<1>1. IInv => ReadHasRoom
  BY DEF IInv, Sound, Turns, ReadHasRoom
<1> QED
  BY <1>1, IInvAlways, PTL

(* What was received is what was echoed and what waits in the buffer, if   *)
(* writes do not fall short and nobody resets the stream.                  *)
THEOREM EchoIsFaithful == Spec => []EchoFaithful
<1>1. IInv => EchoFaithful
  <2> SUFFICES ASSUME IInv, NEW s \in Stream, stage[s] = "open", ~ reset[s], ~ short_writes
               PROVE  received[s] = echoed[s] \o InUse(s)
    BY DEF EchoFaithful
  <2> DEFINE r == received[s]
             e == echoed[s]
             b == buf[s]
             k == buf_off[s]
             d == e \o SubSeq(b, 1, k)
  <2>1. /\ r \in Seq(Byte) /\ Len(r) \in Nat /\ e \in Seq(Byte)
        /\ b \in [1..BufSize -> Byte] /\ k \in 0..BufSize /\ k \in Nat
    BY Bytes DEF IInv
  <2>2. Follows(e, r, b, k, short_writes)
    BY DEF IInv, Sound, Ordered
  <2> HIDE DEF r, e, b, k
  <2>3. /\ d \in Seq(Byte) /\ Len(e) \in Nat /\ Len(d) = Len(e) + k
        /\ \A i \in 1 .. Len(e) : d[i] = e[i]
        /\ \A i \in 1 .. k : d[Len(e) + i] = b[i]
    BY <2>1, EchoGrows
  <2> HIDE DEF d
  <2>4. /\ Len(e) = Len(r) - k /\ \A i \in 1 .. Len(e) : e[i] = r[i]
        /\ \A i \in 1 .. k : b[i] = r[Len(e) + i]
    BY <2>2 DEF Follows
  <2>5. Len(r) = Len(d)
    BY <2>1, <2>3, <2>4
  <2>6. ASSUME NEW i \in 1 .. Len(r) PROVE r[i] = d[i]
    <3>1. CASE i <= Len(e)
      BY <2>3, <2>4, <3>1
    <3>2. CASE i > Len(e)
      <4>1. i - Len(e) \in 1..k /\ Len(e) + (i - Len(e)) = i
        BY <2>1, <2>3, <2>5, <3>2
      <4> QED
        BY <2>3, <2>4, <4>1
    <3> QED
      BY <2>1, <2>3, <3>1, <3>2
  <2>7. r = d
    BY <2>1, <2>3, <2>5, <2>6, SeqEqual
  <2> QED
    BY <2>7 DEF InUse, r, d, e, b, k
<1> QED
  BY <1>1, IInvAlways, PTL

(* Short writes included, the echo is a selection of what was received, in *)
(* its order.                                                              *)
THEOREM EchoKeepsOrder == Spec => []EchoInOrder
<1>1. IInv => EchoInOrder
  <2> SUFFICES ASSUME IInv, NEW s \in Stream, stage[s] = "open", ~ reset[s]
               PROVE  \E place \in [DOMAIN echoed[s] -> DOMAIN received[s]] :
                        /\ \A i, j \in DOMAIN echoed[s] : i < j => place[i] < place[j]
                        /\ \A i \in DOMAIN echoed[s] : echoed[s][i] = received[s][place[i]]
    BY DEF EchoInOrder
  <2> DEFINE n == Len(received[s]) - buf_off[s]
  <2>1. /\ received[s] \in Seq(Byte) /\ Len(received[s]) \in Nat
        /\ echoed[s] \in Seq(Byte) /\ buf_off[s] \in Nat
    BY Bytes DEF IInv
  <2>2. n \in Nat /\ Selected(echoed[s], received[s], n)
    BY DEF IInv, Sound, Ordered, Follows
  <2>3. PICK place \in [1 .. Len(echoed[s]) -> 1 .. n] :
          /\ \A i, j \in 1 .. Len(echoed[s]) : i < j => place[i] < place[j]
          /\ \A i \in 1 .. Len(echoed[s]) : echoed[s][i] = received[s][place[i]]
    BY <2>2 DEF Selected
  <2>4. DOMAIN echoed[s] = 1 .. Len(echoed[s]) /\ DOMAIN received[s] = 1 .. Len(received[s])
    BY <2>1, LenProperties
  <2>5. 1 .. n \subseteq 1 .. Len(received[s])
    BY <2>1, <2>2
  <2> HIDE DEF n
  <2>6. place \in [DOMAIN echoed[s] -> DOMAIN received[s]]
    BY <2>3, <2>4, <2>5
  <2> QED
    BY <2>3, <2>4, <2>6
<1> QED
  BY <1>1, IInvAlways, PTL

(* Lines are echoed whole, and none is longer than the buffer.             *)
THEOREM LinesAreWhole == Spec => []EchoesWholeLines
<1>1. IInv => EchoesWholeLines
  <2> SUFFICES ASSUME IInv, ~ short_writes, NEW s \in Stream
               PROVE  /\ echoed[s] # <<>> => Last(echoed[s]) = NL
                      /\ \A i \in 1..(Len(echoed[s]) - BufSize + 1) :
                           \E j \in i..(i + BufSize - 1) : echoed[s][j] = NL
    BY DEF EchoesWholeLines
  <2>1. Lines(echoed[s], Len(echoed[s]))
    BY DEF IInv, Sound, Whole
  <2>2. echoed[s] # <<>> => Len(echoed[s]) > 0
    BY Bytes, EmptySeq DEF IInv
  <2> QED
    BY <2>1, <2>2 DEF Lines, Last
<1> QED
  BY <1>1, IInvAlways, PTL

-----------------------------------------------------------------------------
(* The streams implement EchoSpec.                                         *)

Input == [s \in Stream |-> IF s \in Served THEN received[s] ELSE <<>>]

Output == [s \in Stream |-> IF s \in Served THEN echoed[s] ELSE <<>>]

(* What waits at a stream that is served is what its buffer holds. *)
LEMMA WaitsInBuffer ==
  ASSUME IInv, NEW s \in Served
  PROVE  /\ s \in Stream /\ Input[s] = received[s] /\ Output[s] = echoed[s]
         /\ Echo!Waiting(s) = buf_off[s] /\ buf_off[s] \in Nat
         /\ Echo!LineWaits(s) <=> buf_off[s] > 0 /\ buf[s][buf_off[s]] = NL
<1> DEFINE k == buf_off[s]
<1>1. /\ s \in Stream /\ stage[s] \in {"idle", "open"} /\ ~ reset[s] /\ ~ short_writes
      /\ Input[s] = received[s] /\ Output[s] = echoed[s]
  BY DEF Served, Input, Output
<1>2. Follows(echoed[s], received[s], buf[s], k, short_writes)
  BY <1>1 DEF IInv, Sound, Ordered
<1>3. k \in Nat /\ Len(received[s]) \in Nat
  BY <1>1, Bytes DEF IInv
<1>4. /\ Len(echoed[s]) = Len(received[s]) - k
      /\ \A i \in 1..k : buf[s][i] = received[s][Len(received[s]) - k + i]
  BY <1>1, <1>2 DEF Follows
<1>5. Echo!Waiting(s) = Len(received[s]) - Len(echoed[s])
  BY <1>1 DEF Echo!Waiting, Input, Output
<1>6. Echo!Waiting(s) = k
  BY <1>3, <1>4, <1>5
<1>7. k > 0 => buf[s][k] = received[s][Len(received[s])]
  <2> SUFFICES ASSUME k > 0 PROVE buf[s][k] = received[s][Len(received[s])]
    OBVIOUS
  <2>1. k \in 1..k /\ Len(received[s]) - k + k = Len(received[s])
    BY <1>3
  <2> QED
    BY <1>4, <2>1
<1>8. Echo!LineWaits(s) <=> k > 0 /\ received[s][Len(received[s])] = NL
  BY <1>1, <1>6 DEF Echo!LineWaits, Input
<1> QED
  BY <1>1, <1>3, <1>6, <1>7, <1>8

(* A step that concerns no stream but s. *)
Only(s) ==
  \A t \in Stream \ {s} :
    /\ t \in Served' <=> t \in Served
    /\ received'[t] = received[t] /\ echoed'[t] = echoed[t]

(* It leaves the logs of the others alone. *)
LEMMA OnlyLogs ==
  ASSUME NEW s \in Stream, Only(s)
  PROVE  /\ Served' \ {s} = Served \ {s}
         /\ \A t \in Stream \ {s} : Input'[t] = Input[t] /\ Output'[t] = Output[t]
BY DEF Only, Input, Output, Served

(* After it the stream is not served: it is lost, or was so before. *)
LEMMA EchoLose ==
  ASSUME NEW s \in Stream, Only(s), s \notin Served'
  PROVE  [Echo!Next]_(Echo!vars)
<1>1. /\ Served' = Served \ {s}
      /\ \A t \in Stream \ {s} : Input'[t] = Input[t] /\ Output'[t] = Output[t]
  BY OnlyLogs
<1>2. Input'[s] = <<>> /\ Output'[s] = <<>>
  BY DEF Input, Output
<1>3. Input' = [Input EXCEPT ![s] = <<>>] /\ Output' = [Output EXCEPT ![s] = <<>>]
  BY <1>1, <1>2 DEF Input, Output
<1>4. CASE s \in Served
  BY <1>1, <1>3, <1>4 DEF Echo!Lose, Echo!Next, Input, Output
<1>5. CASE s \notin Served
  <2>1. Served' = Served /\ Input[s] = <<>> /\ Output[s] = <<>>
    BY <1>1, <1>5 DEF Input, Output
  <2>2. Input' = Input /\ Output' = Output
    BY <1>3, <2>1 DEF Input, Output
  <2> QED
    BY <2>1, <2>2 DEF Echo!vars, Input, Output
<1> QED
  BY <1>4, <1>5

(* A step that leaves bytes and service alone. *)
LEMMA EchoStutter ==
  ASSUME Served' = Served, received' = received, echoed' = echoed
  PROVE  [Echo!Next]_(Echo!vars)
BY DEF Echo!vars

(* A byte that is read is received, unless it fills the buffer. *)
LEMMA EchoReceive ==
  ASSUME IInv, IInv', NEW s \in Stream, NEW x \in Byte, ReadByte(s, x)
  PROVE  [Echo!Next]_(Echo!vars)
<1>1. /\ Reads(s) /\ LineOrFull(s) /\ stage[s] = "open" /\ ~ reset[s]
      /\ reset' = reset /\ short_writes' = short_writes /\ echoed' = echoed
      /\ received' = [received EXCEPT ![s] = Append(@, x)]
      /\ buf' \in [Stream -> [1..BufSize -> Byte]]
      /\ received \in [Stream -> Seq(Byte)]
  BY DEF ReadByte, Reads, IInv, TypeOK
<1>2. /\ stage'[s] \in {"open", "shut"} /\ buf_off[s] < BufSize
      /\ \A t \in Stream \ {s} : stage'[t] = stage[t]
  BY <1>1, LineOrFullTurns
<1>3. Only(s)
  BY <1>1, <1>2 DEF Only, Served
<1>4. CASE s \notin Served'
  BY <1>3, <1>4, EchoLose
<1>5. CASE s \in Served'
  <2>1. s \in Served
    BY <1>1, <1>5 DEF Served
  <2>2. want[s] = {"read"}
    BY <1>1 DEF IInv, Sound, Turns, Reads
  <2>3. ~ (buf_off[s] > 0 /\ buf[s][buf_off[s]] = NL)
    BY <2>2 DEF IInv, Sound, Turns
  <2>4. ~ Echo!LineWaits(s) /\ Echo!Waiting(s) < BufSize /\ Input[s] = received[s]
    BY <1>2, <2>1, <2>3, WaitsInBuffer
  <2>5. Served' = Served
    BY <1>3, <1>5, <2>1, OnlyLogs
  <2>6. Output' = Output
    BY <1>1, <2>5 DEF Output
  <2>7. Input'[s] = Append(Input[s], x)
    BY <1>1, <1>5, <2>4 DEF Input
  <2>8. Input' = [Input EXCEPT ![s] = Append(@, x)]
    BY <1>3, <2>7, OnlyLogs DEF Input
  <2>9. Echo!Receive(s, x)
    BY <2>1, <2>4, <2>5, <2>6, <2>8 DEF Echo!Receive, Input, Output
  <2> QED
    BY <2>9 DEF Echo!Next
<1> QED
  BY <1>4, <1>5

(* A write replies with all that waits. *)
LEMMA EchoReply ==
  ASSUME IInv, IInv', NEW s \in Stream, echo_server_on_write(s)
  PROVE  [Echo!Next]_(Echo!vars)
<1>1. /\ UNCHANGED <<stage, reset, short_writes, received>>
      /\ \A t \in Stream \ {s} : echoed'[t] = echoed[t]
      /\ buf_off'[s] = 0
  BY DEF IInv, TypeOK, echo_server_on_write
<1>2. Only(s) /\ Served' = Served
  BY <1>1 DEF Only, Served
<1>3. CASE s \notin Served
  BY <1>2, <1>3, EchoLose
<1>4. CASE s \in Served
  <2>1. buf_off[s] > 0 /\ buf[s][buf_off[s]] = NL
    BY DEF IInv, Sound, Turns, echo_server_on_write
  <2>2. Echo!LineWaits(s) /\ Input[s] = received[s]
    BY <1>4, <2>1, WaitsInBuffer
  <2>3. echoed'[s] = received[s]
    <3>1. Follows(echoed'[s], received[s], buf'[s], 0, short_writes) /\ ~ short_writes
      BY <1>1, <1>4 DEF IInv, Sound, Ordered, Served
    <3>2. /\ received[s] \in Seq(Byte) /\ Len(received[s]) \in Nat
          /\ echoed'[s] \in Seq(Byte)
      BY Bytes DEF IInv, TypeOK
    <3>3. Len(echoed'[s]) = Len(received[s])
          /\ \A i \in 1 .. Len(received[s]) : echoed'[s][i] = received[s][i]
      BY <3>1, <3>2 DEF Follows
    <3> QED
      BY <3>2, <3>3, SeqEqual
  <2>4. Input' = Input
    BY <1>1, <1>2 DEF Input
  <2>5. Output' = [Output EXCEPT ![s] = Input[s]]
    BY <1>2, <1>4, <2>2, <2>3, OnlyLogs DEF Output
  <2>6. Echo!Reply(s)
    BY <1>2, <1>4, <2>2, <2>4, <2>5 DEF Echo!Reply, Input, Output
  <2> QED
    BY <2>6 DEF Echo!Next
<1> QED
  BY <1>3, <1>4

(* Every step is one of the echo's, or none. *)
LEMMA EchoStep == IInv /\ IInv' /\ [Next]_vars => [Echo!Next]_(Echo!vars)
<1> SUFFICES ASSUME IInv, IInv', [Next]_vars PROVE [Echo!Next]_(Echo!vars)
  OBVIOUS
<1>0. stage \in [Stream -> {"idle", "open", "shut", "closed"}]
      /\ reset \in [Stream -> BOOLEAN]
  BY DEF IInv, TypeOK
<1>1. ASSUME NEW s \in Stream, echo_server_on_new_stream(s)
      PROVE  [Echo!Next]_(Echo!vars)
  BY <1>0, <1>1, EchoStutter DEF echo_server_on_new_stream, Served
<1>2. ASSUME NEW s \in Stream, NEW x \in Byte, ReadByte(s, x)
      PROVE  [Echo!Next]_(Echo!vars)
  BY <1>2, EchoReceive
<1>3. ASSUME NEW s \in Stream, ReadError(s) PROVE [Echo!Next]_(Echo!vars)
  <2>1. /\ Reads(s) /\ LineOrFull(s) /\ reset[s]
        /\ buf' \in [Stream -> [1..BufSize -> Byte]]
        /\ UNCHANGED <<reset, short_writes, received, echoed>>
    BY <1>3 DEF ReadError, IInv, TypeOK
  <2>2. \A t \in Stream \ {s} : stage'[t] = stage[t]
    BY <2>1, LineOrFullTurns
  <2>3. Only(s) /\ s \notin Served'
    BY <2>1, <2>2 DEF Only, Served
  <2> QED
    BY <2>3, EchoLose
<1>4. ASSUME NEW s \in Stream, ReadEof(s) \/ echo_server_on_stream_close(s)
      PROVE  [Echo!Next]_(Echo!vars)
  <2>1. Only(s) /\ s \notin Served'
    BY <1>0, <1>4
    DEF ReadEof, Shutdown, echo_server_on_stream_close, Only, Served
  <2> QED
    BY <2>1, EchoLose
<1>5. ASSUME NEW s \in Stream, echo_server_on_write(s)
      PROVE  [Echo!Next]_(Echo!vars)
  BY <1>5, EchoReply
<1>6. ASSUME NEW s \in Stream, ResetStream(s) PROVE [Echo!Next]_(Echo!vars)
  <2>1. Only(s) /\ s \notin Served'
    BY <1>0, <1>6 DEF ResetStream, Only, Served
  <2> QED
    BY <2>1, EchoLose
<1>7. ASSUME CloseByPeer \/ ConnClosed \/ UNCHANGED vars
      PROVE  [Echo!Next]_(Echo!vars)
  BY <1>7, EchoStutter DEF CloseByPeer, ConnClosed, vars, Served
<1> QED
  BY <1>1, <1>2, <1>3, <1>4, <1>5, <1>6, <1>7 DEF Next, echo_server_on_read

(* As long as nobody resets a stream, nothing ends it and writes do not    *)
(* fall short, it is an echo: one line at a time, sent back whole before   *)
(* the next byte is taken, for every buffer size and number of streams.    *)
THEOREM StreamsImplementEcho == Spec => ImplementsEcho
<1>1. Init => Echo!Init
  <2> SUFFICES ASSUME Init PROVE Echo!Init
    OBVIOUS
  <2>1. Served \in SUBSET Stream
    BY DEF Served
  <2>2. \A s \in Stream : received[s] = <<>> /\ echoed[s] = <<>>
    BY DEF Init
  <2> QED
    BY <2>1, <2>2 DEF Echo!Init
<1> QED
  BY <1>1, EchoStep, IInvAlways, PTL DEF Spec, ImplementsEcho, Echo!Spec

-----------------------------------------------------------------------------
(* When the source's own statement holds: what is echoed was received, as  *)
(* long as clients do not reset their streams. The run shows that one      *)
(* reset is enough to break it.                                            *)

NoTrouble == ~ short_writes /\ \A s \in Stream : ~ reset[s]

(* Streams that ended are included, of which the invariant says nothing.   *)
Returned(s) ==
  /\ Len(echoed[s]) <= Len(received[s])
  /\ \A i \in 1 .. Len(echoed[s]) : echoed[s][i] = received[s][i]

(* A byte that is received takes nothing away. *)
LEMMA ReturnedRead ==
  ASSUME IInv, NEW s \in Stream, NEW x \in Byte, Returned(s),
         received'[s] = Append(received[s], x), echoed'[s] = echoed[s]
  PROVE  Returned(s)'
<1> DEFINE r == received[s]
           q == Append(r, x)
<1>1. r \in Seq(Byte) /\ Len(r) \in Nat /\ Len(echoed[s]) \in Nat
  BY Bytes DEF IInv
<1> HIDE DEF r
<1>2. Len(q) = Len(r) + 1 /\ \A i \in 1 .. Len(r) : q[i] = r[i]
  BY <1>1, ReceivedGrows
<1> HIDE DEF q
<1>3. received'[s] = q
  BY DEF q, r
<1> QED
  BY <1>1, <1>2, <1>3 DEF Returned, r

(* A step that leaves bytes alone leaves this alone. *)
LEMMA ReturnedOther ==
  ASSUME received' = received, echoed' = echoed, \A s \in Stream : Returned(s)
  PROVE  \A s \in Stream : Returned(s)'
BY DEF Returned

(* Every step keeps echoes among what was received. *)
LEMMA ReturnedStep ==
  ASSUME ~ ResetsAllowed, IInv, IInv', NoTrouble, [Next]_vars,
         \A s \in Stream : Returned(s)
  PROVE  NoTrouble' /\ \A s \in Stream : Returned(s)'
<1> DEFINE Done == NoTrouble' /\ \A s \in Stream : Returned(s)'
<1>1. ASSUME NEW s \in Stream, NEW x \in Byte, ReadByte(s, x) PROVE Done
  <2>1. /\ received'[s] = Append(received[s], x)
        /\ \A t \in Stream \ {s} : received'[t] = received[t]
        /\ UNCHANGED <<short_writes, reset, echoed>>
    BY <1>1 DEF IInv, TypeOK, ReadByte
  <2>2. Returned(s)'
    BY <2>1, ReturnedRead
  <2>3. \A t \in Stream \ {s} : Returned(t)'
    BY <2>1 DEF Returned
  <2> QED
    BY <2>1, <2>2, <2>3 DEF NoTrouble
<1>2. ASSUME NEW s \in Stream, ReadError(s) \/ ReadEof(s) PROVE Done
  BY <1>2, ReturnedOther DEF ReadError, ReadEof, NoTrouble
<1>3. ASSUME NEW s \in Stream, echo_server_on_write(s) PROVE Done
  <2>1. /\ UNCHANGED <<short_writes, reset, received>>
        /\ \A t \in Stream \ {s} : echoed'[t] = echoed[t]
        /\ buf_off'[s] = 0 /\ stage'[s] = "open"
    BY <1>3 DEF IInv, TypeOK, echo_server_on_write
  <2>2. /\ Follows(echoed'[s], received'[s], buf'[s], 0, short_writes')
        /\ ~ short_writes'
    <3>1. Ordered(s)' /\ ~ reset'[s] /\ ~ short_writes'
      BY <2>1 DEF NoTrouble, IInv, Sound
    <3> QED
      BY <2>1, <3>1 DEF Ordered
  <2>3. Len(received'[s]) \in Nat
    BY Bytes, LenProperties DEF IInv, TypeOK
  <2>4. Returned(s)'
    BY <2>2, <2>3 DEF Follows, Returned
  <2>5. \A t \in Stream \ {s} : Returned(t)'
    BY <2>1 DEF Returned
  <2> QED
    BY <2>1, <2>4, <2>5 DEF NoTrouble
<1>4. ASSUME NEW s \in Stream,
             \/ echo_server_on_new_stream(s)
             \/ echo_server_on_stream_close(s)
             \/ ResetStream(s)
      PROVE  Done
  BY <1>4, ReturnedOther
  DEF echo_server_on_new_stream, echo_server_on_stream_close, ResetStream, NoTrouble
<1>5. ASSUME CloseByPeer \/ ConnClosed \/ UNCHANGED vars PROVE Done
  BY <1>5, ReturnedOther DEF CloseByPeer, ConnClosed, vars, NoTrouble
<1> QED
  BY <1>1, <1>2, <1>3, <1>4, <1>5 DEF Next, echo_server_on_read

(* Without resets and short writes a line that is echoed is one that the   *)
(* client sent, on streams that were shut down or closed too.              *)
THEOREM EchoesOnlyReceived ==
  ASSUME ~ ResetsAllowed, TRUE \notin ShortWriteOptions
  PROVE  Spec => []EchoedWasReceived
<1> DEFINE Inv == IInv /\ NoTrouble /\ \A s \in Stream : Returned(s)
<1>1. Init => Inv
  <2> SUFFICES ASSUME Init PROVE Inv
    OBVIOUS
  <2>1. IInv
    BY InitSound
  <2>2. NoTrouble
    BY EchoAssumption DEF Init, NoTrouble
  <2>3. \A s \in Stream : Returned(s)
    BY DEF Init, Returned
  <2> QED
    BY <2>1, <2>2, <2>3
<1>2. Inv /\ [Next]_vars => Inv'
  BY NextSound, ReturnedStep
<1>3. Inv => EchoedWasReceived
  <2> SUFFICES ASSUME IInv, NEW s \in Stream, Returned(s)
               PROVE  IsPrefix(echoed[s], received[s])
    BY DEF EchoedWasReceived
  <2> DEFINE e == echoed[s]
             r == received[s]
  <2>1. e \in Seq(Byte) /\ r \in Seq(Byte) /\ Len(e) \in Nat /\ Len(r) \in Nat
    BY Bytes DEF IInv
  <2>2. Len(e) <= Len(r) /\ \A i \in 1 .. Len(e) : e[i] = r[i]
    BY DEF Returned
  <2> HIDE DEF e, r
  <2>3. SubSeq(e, 1, Len(e)) = [i \in 1 .. Len(e) |-> e[i]]
        /\ SubSeq(r, 1, Len(e)) = [i \in 1 .. Len(e) |-> r[i]]
    BY <2>1
  <2>4. SubSeq(e, 1, Len(e)) = SubSeq(r, 1, Len(e))
    BY <2>2, <2>3
  <2> QED
    BY <2>2, <2>4 DEF IsPrefix, e, r
<1> HIDE DEF Inv
<1> QED
  BY <1>1, <1>2, <1>3, PTL DEF Spec

-----------------------------------------------------------------------------
(* Why a stream is shut.                                                   *)

(* A stream that reads is in the middle of a line: no byte that waits in   *)
(* the buffer ends one.                                                    *)
MidLine(s) == want[s] = {"read"} => \A i \in 1 .. buf_off[s] : buf[s][i] # NL

(* A byte more in the buffer keeps that, whatever was read. *)
LEMMA MidLineRead ==
  ASSUME IInv, NEW s \in Stream, MidLine(s), Reads(s), LineOrFull(s),
         buf' \in [Stream -> [1..BufSize -> Byte]],
         \A i \in 1 .. buf_off[s] : buf'[s][i] = buf[s][i]
  PROVE  MidLine(s)'
<1>0. want[s] = {"read"} /\ buf_off[s] \in Nat
  BY Bytes DEF IInv, Sound, Turns, Reads
<1>1. buf_off'[s] = buf_off[s] + 1 /\ Turns(s)'
  BY LineOrFullTurns
<1> SUFFICES ASSUME want'[s] = {"read"}, NEW i \in 1 .. buf_off[s] + 1
             PROVE  buf'[s][i] # NL
  BY <1>1 DEF MidLine
<1>2. CASE i = buf_off[s] + 1
  BY <1>0, <1>1, <1>2 DEF Turns
<1>3. CASE i # buf_off[s] + 1
  <2>1. i \in 1 .. buf_off[s]
    BY <1>0, <1>3
  <2> QED
    BY <1>0, <2>1 DEF MidLine
<1> QED
  BY <1>2, <1>3

(* A step that leaves the buffer alone and asks for no read keeps it too. *)
LEMMA MidLineKept ==
  ASSUME NEW s \in Stream, MidLine(s), buf'[s] = buf[s], buf_off'[s] = buf_off[s],
         want'[s] \in {{}, want[s]}
  PROVE  MidLine(s)'
BY DEF MidLine

(* Every step keeps it of every stream. *)
LEMMA MidLineStep ==
  ASSUME IInv, [Next]_vars, NEW s \in Stream, MidLine(s)
  PROVE  MidLine(s)'
<1>0. TypeOK /\ stage[s] = "idle" => buf_off[s] = 0
  BY DEF IInv, Sound, Turns
<1>1. ASSUME NEW t \in Stream, t # s,
             \/ echo_server_on_new_stream(t) \/ echo_server_on_read(t)
             \/ echo_server_on_write(t) \/ echo_server_on_stream_close(t)
             \/ ResetStream(t)
      PROVE  MidLine(s)'
  <2>1. buf'[s] = buf[s] /\ buf_off'[s] = buf_off[s] /\ want'[s] = want[s]
    BY <1>1 DEF IInv, TypeOK, echo_server_on_new_stream, echo_server_on_read, ReadByte,
                ReadError, ReadEof, LineOrFull, Shutdown, echo_server_on_write,
                echo_server_on_stream_close, ResetStream
  <2> QED
    BY <2>1, MidLineKept
<1>2. ASSUME echo_server_on_new_stream(s) PROVE MidLine(s)'
  <2>1. buf_off'[s] = 0
    BY <1>2 DEF IInv, Sound, Turns, echo_server_on_new_stream
  <2> QED
    BY <2>1 DEF MidLine
<1>3. ASSUME NEW b \in Byte, ReadByte(s, b) PROVE MidLine(s)'
  <2>1. /\ Reads(s) /\ LineOrFull(s) /\ buf \in [Stream -> [1..BufSize -> Byte]]
        /\ buf' = [buf EXCEPT ![s] = [buf[s] EXCEPT ![buf_off[s] + 1] = b]]
    BY <1>3 DEF ReadByte, IInv, TypeOK
  <2>2. buf_off[s] \in Nat /\ BufSize \in Nat /\ buf[s] \in [1..BufSize -> Byte]
    BY Bytes DEF IInv
  <2>3. buf' \in [Stream -> [1..BufSize -> Byte]]
    BY <2>1, <2>2
  <2>4. buf_off[s] < BufSize
    BY <2>1, <2>3, LineOrFullTurns
  <2>5. \A i \in 1 .. buf_off[s] : buf'[s][i] = buf[s][i]
    BY <2>1, <2>2, <2>4
  <2> QED
    BY <2>1, <2>3, <2>5, MidLineRead
<1>4. ASSUME ReadError(s) PROVE MidLine(s)'
  <2>1. Reads(s) /\ LineOrFull(s) /\ buf' = buf /\ buf \in [Stream -> [1..BufSize -> Byte]]
    BY <1>4 DEF ReadError, IInv, TypeOK
  <2> QED
    BY <2>1, MidLineRead
<1>5. ASSUME ReadEof(s) \/ echo_server_on_stream_close(s) PROVE MidLine(s)'
  <2>1. want'[s] = {}
    BY <1>5 DEF ReadEof, Shutdown, echo_server_on_stream_close, IInv, TypeOK
  <2> QED
    BY <2>1 DEF MidLine
<1>6. ASSUME echo_server_on_write(s) PROVE MidLine(s)'
  <2>1. buf_off'[s] = 0
    BY <1>6 DEF IInv, TypeOK, echo_server_on_write
  <2> QED
    BY <2>1 DEF MidLine
<1>7. ASSUME ResetStream(s) \/ CloseByPeer \/ ConnClosed \/ UNCHANGED vars
      PROVE  MidLine(s)'
  <2>1. UNCHANGED <<buf, buf_off, want>>
    BY <1>7 DEF ResetStream, CloseByPeer, ConnClosed, vars
  <2> QED
    BY <2>1, MidLineKept
<1> QED
  BY <1>1, <1>2, <1>3, <1>4, <1>5, <1>6, <1>7 DEF Next, echo_server_on_read

(* The byte that shuts a stream is the last of a buffer without a newline. *)
LEMMA OverlongRead ==
  ASSUME IInv, NEW s \in Stream, MidLine(s), NEW b \in Byte, ReadByte(s, b),
         stage'[s] = "shut"
  PROVE  /\ Len(received'[s]) >= BufSize
         /\ \A i \in Len(received'[s]) - BufSize + 1 .. Len(received'[s]) :
              received'[s][i] # NL
<1> DEFINE r == received[s]
           k == buf_off[s]
           q == Append(r, b)
<1>1. /\ Reads(s) /\ LineOrFull(s) /\ ~ reset[s] /\ stage[s] = "open"
      /\ received' = [received EXCEPT ![s] = q]
      /\ buf' = [buf EXCEPT ![s] = [buf[s] EXCEPT ![k + 1] = b]]
  BY DEF ReadByte, Reads
<1>2. /\ r \in Seq(Byte) /\ Len(r) \in Nat /\ k \in Nat /\ BufSize \in Nat
      /\ buf[s] \in [1..BufSize -> Byte]
  BY Bytes DEF IInv
<1>3. want[s] = {"read"} /\ k < BufSize
  BY <1>1 DEF IInv, Sound, Turns, Reads
<1>4. k + 1 = BufSize /\ buf'[s][k + 1] # NL
  BY <1>1 DEF LineOrFull
<1>5. buf'[s][k + 1] = b
  BY <1>1, <1>2, <1>3 DEF IInv, TypeOK
<1>6. received'[s] = q
  BY <1>1 DEF IInv, TypeOK
<1>7. \A i \in 1 .. k : buf[s][i] # NL
  BY <1>3 DEF MidLine
<1>8. Len(r) - k \in Nat /\ \A i \in 1 .. k : buf[s][i] = r[Len(r) - k + i]
  BY <1>1 DEF IInv, Sound, Ordered, Follows
<1> HIDE DEF r, k, q
<1>9. Len(q) = Len(r) + 1 /\ (\A i \in 1 .. Len(r) : q[i] = r[i]) /\ q[Len(r) + 1] = b
  BY <1>2, ReceivedGrows DEF q
<1>10. Len(q) >= BufSize
  BY <1>2, <1>4, <1>8, <1>9
<1>11. ASSUME NEW i \in Len(q) - BufSize + 1 .. Len(q) PROVE q[i] # NL
  <2>1. CASE i = Len(r) + 1
    BY <1>4, <1>5, <1>9, <2>1
  <2>2. CASE i # Len(r) + 1
    <3>1. i - (Len(r) - k) \in 1 .. k /\ i \in 1 .. Len(r)
          /\ Len(r) - k + (i - (Len(r) - k)) = i
      BY <1>2, <1>4, <1>8, <1>9, <2>2
    <3>2. r[i] # NL
      BY <1>7, <1>8, <3>1
    <3> QED
      BY <1>9, <3>1, <3>2
  <2> QED
    BY <2>1, <2>2
<1> QED
  BY <1>6, <1>10, <1>11

(* A stream whose connection stays is shut only in the middle of a line    *)
(* that fills the whole buffer, whatever its size.                         *)
THEOREM OverlongLinesShut == Spec => OnlyOverlongShuts
<1> DEFINE Inv == IInv /\ \A s \in Stream : MidLine(s)
           Full(s) ==
             stage[s] = "open" /\ stage'[s] = "shut" /\ ~ reset[s] /\ conn' = "open"
               => /\ Len(received'[s]) >= BufSize
                  /\ \A i \in Len(received'[s]) - BufSize + 1 .. Len(received'[s]) :
                       received'[s][i] # NL
<1>1. Init => Inv
  <2>1. Init => \A s \in Stream : MidLine(s)
    BY DEF Init, MidLine
  <2> QED
    BY <2>1, InitSound
<1>2. Inv /\ [Next]_vars => Inv'
  BY NextSound, MidLineStep
<1>3. ASSUME Inv, [Next]_vars, NEW s \in Stream PROVE Full(s)
  <2> SUFFICES ASSUME stage[s] = "open", stage'[s] = "shut", ~ reset[s], conn' = "open"
               PROVE  /\ Len(received'[s]) >= BufSize
                      /\ \A i \in Len(received'[s]) - BufSize + 1 .. Len(received'[s]) :
                           received'[s][i] # NL
    OBVIOUS
  <2>0. stage \in [Stream -> {"idle", "open", "shut", "closed"}]
    BY <1>3 DEF IInv, TypeOK
  <2>1. CASE \E b \in Byte : ReadByte(s, b)
    BY <1>3, <2>1, OverlongRead
  <2>2. CASE \E t \in Stream \ {s} :
               \/ echo_server_on_new_stream(t) \/ echo_server_on_read(t)
               \/ echo_server_on_write(t) \/ echo_server_on_stream_close(t)
               \/ ResetStream(t)
    BY <2>0, <2>2 DEF echo_server_on_new_stream, echo_server_on_read, ReadByte, ReadError,
                      ReadEof, LineOrFull, Shutdown, echo_server_on_write,
                      echo_server_on_stream_close, ResetStream
  <2>3. ~ (ReadError(s) \/ ReadEof(s))
    BY DEF ReadError, ReadEof
  <2>4. ~ (\/ echo_server_on_new_stream(s) \/ echo_server_on_write(s)
           \/ echo_server_on_stream_close(s) \/ ResetStream(s) \/ CloseByPeer
           \/ ConnClosed \/ UNCHANGED vars)
    BY <2>0 DEF echo_server_on_new_stream, echo_server_on_write,
                echo_server_on_stream_close, ResetStream, CloseByPeer, ConnClosed, vars
  <2> QED
    BY <1>3, <2>1, <2>2, <2>3, <2>4 DEF Next, echo_server_on_read
<1>4. Inv /\ [Next]_vars => [\A s \in Stream : Full(s)]_vars
  BY <1>3
<1> HIDE DEF Inv
<1>5. Spec => [][\A s \in Stream : Full(s)]_vars
  BY <1>1, <1>2, <1>4, PTL DEF Spec
<1> QED
  BY <1>5 DEF OnlyOverlongShuts

=============================================================================
