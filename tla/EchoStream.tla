----------------------------- MODULE EchoStream -----------------------------
(***************************************************************************)
(* The streams of one connection of echo_server.c.                         *)
(*                                                                         *)
(* A stream reads one byte a callback into a fixed buffer. A newline turns *)
(* it from reading to writing: the line is echoed and the buffer used      *)
(* again. The end of one stream's input closes the connection, and with it *)
(* the others. The callbacks ignore what lsquic_stream_read and            *)
(* lsquic_stream_write return on errors and on short writes.               *)
(***************************************************************************)
EXTENDS SequencesExt

CONSTANTS
  Stream,          (* streams of the connection                             *)
  Letter,          (* bytes other than the newline                          *)
  NL,              (* the newline                                           *)
  BufSize,         (* size of lsquic_stream_ctx.buf: 0x100 in the code      *)
  MaxInput,        (* bound: bytes a client sends, or an error echoes       *)
  ShortWriteOptions,  (* may lsquic_stream_write take less than it gets?    *)
  ResetsAllowed    (* may the client reset a stream?                        *)

Byte == Letter \cup {NL}

ASSUME EchoAssumption ==
  /\ NL \notin Letter
  /\ BufSize \in Nat \ {0}
  /\ MaxInput \in Nat
  /\ ShortWriteOptions \subseteq BOOLEAN
  /\ ResetsAllowed \in BOOLEAN

VARIABLES
  conn,        (* the connection, and its entry in conn_ctxs                *)
  stage,       (* of a stream: no context yet, open, shut down, freed       *)
  want,        (* of a stream: the callbacks it asked for                   *)
  buf,         (* of a stream: the buffer, as malloc left it at first       *)
  buf_off,     (* of a stream: bytes of the buffer in use                   *)
  short_writes,  (* do writes fall short in this behaviour?                 *)
  reset,       (* of a stream: the client has reset it                      *)
  received,    (* history: what lsquic_stream_read returned                 *)
  echoed       (* history: what lsquic_stream_write took                    *)

vars == <<conn, stage, want, buf, buf_off, short_writes, reset, received, echoed>>

InUse(s) == SubSeq(buf[s], 1, buf_off[s])

Init ==
  /\ conn = "open"
  /\ stage = [s \in Stream |-> "idle"]
  /\ want = [s \in Stream |-> {}]
  /\ buf \in [Stream -> [1..BufSize -> Byte]]
  /\ buf_off = [s \in Stream |-> 0]
  /\ short_writes \in ShortWriteOptions
  /\ reset = [s \in Stream |-> FALSE]
  /\ received = [s \in Stream |-> <<>>]
  /\ echoed = [s \in Stream |-> <<>>]

-----------------------------------------------------------------------------
(* The callbacks.                                                          *)

echo_server_on_new_stream(s) ==
  /\ conn = "open"
  /\ stage[s] = "idle"
  /\ stage' = [stage EXCEPT ![s] = "open"]
  /\ want' = [want EXCEPT ![s] = {"read"}]
  /\ UNCHANGED <<short_writes, conn, buf, buf_off, reset, received, echoed>>

Reads(s) == conn = "open" /\ stage[s] = "open" /\ "read" \in want[s]

(* lsquic_stream_shutdown of both sides: no callback but on_close follows. *)
Shutdown(s) ==
  /\ stage' = [stage EXCEPT ![s] = "shut"]
  /\ want' = [want EXCEPT ![s] = {}]

(* Mutants: the end of the buffer is found one byte late; a full buffer is *)
(* echoed like a line; a newline turns reading off and nothing on; it      *)
(* turns writing on and leaves reading on; the end of the buffer is looked *)
(* for first.                                                              *)
LineOrFull_late(s) ==
  LET off == buf_off[s] + 1
  IN /\ buf_off' = [buf_off EXCEPT ![s] = off]
     /\ IF off > BufSize THEN Shutdown(s)
        ELSE /\ want' = IF buf'[s][off] = NL THEN [want EXCEPT ![s] = {"write"}]
                        ELSE want
             /\ UNCHANGED stage

LineOrFull_flush(s) ==
  LET off == buf_off[s] + 1
  IN /\ buf_off' = [buf_off EXCEPT ![s] = off]
     /\ want' = IF buf'[s][off] = NL \/ off = BufSize
                  THEN [want EXCEPT ![s] = {"write"}] ELSE want
     /\ UNCHANGED stage

LineOrFull_off(s) ==
  LET off == buf_off[s] + 1
  IN /\ buf_off' = [buf_off EXCEPT ![s] = off]
     /\ IF buf'[s][off] = NL \/ off < BufSize
          THEN /\ want' = IF buf'[s][off] = NL THEN [want EXCEPT ![s] = {}] ELSE want
               /\ UNCHANGED stage
          ELSE Shutdown(s)

LineOrFull_both(s) ==
  LET off == buf_off[s] + 1
  IN /\ buf_off' = [buf_off EXCEPT ![s] = off]
     /\ IF buf'[s][off] = NL \/ off < BufSize
          THEN /\ want' = IF buf'[s][off] = NL THEN [want EXCEPT ![s] = {"read", "write"}]
                          ELSE want
               /\ UNCHANGED stage
          ELSE Shutdown(s)

LineOrFull_order(s) ==
  LET off == buf_off[s] + 1
  IN /\ buf_off' = [buf_off EXCEPT ![s] = off]
     /\ IF off = BufSize THEN Shutdown(s)
        ELSE /\ want' = IF buf'[s][off] = NL THEN [want EXCEPT ![s] = {"write"}]
                        ELSE want
             /\ UNCHANGED stage

(* What echo_server_on_read makes of the byte at the end of the buffer.    *)
LineOrFull(s) ==
  LET off == buf_off[s] + 1
  IN /\ buf_off' = [buf_off EXCEPT ![s] = off]
     /\ \/ /\ buf'[s][off] = NL
           /\ want' = [want EXCEPT ![s] = {"write"}]
           /\ UNCHANGED stage
        \/ /\ buf'[s][off] # NL
           /\ off = BufSize
           /\ Shutdown(s)
        \/ /\ buf'[s][off] # NL
           /\ off # BufSize
           /\ UNCHANGED <<stage, want>>

ReadByte(s, b) ==
  /\ Reads(s)
  /\ ~ reset[s]
  /\ Len(received[s]) < MaxInput
  /\ received' = [received EXCEPT ![s] = Append(@, b)]
  /\ buf' = [buf EXCEPT ![s][buf_off[s] + 1] = b]
  /\ LineOrFull(s)
  /\ UNCHANGED <<short_writes, conn, reset, echoed>>

(* The read fails, its result is a large unsigned number, and the byte     *)
(* that was in the buffer before counts as read. Nothing in the code ends  *)
(* this; the model does when MaxInput bytes are echoed.                    *)
ReadError(s) ==
  /\ Reads(s)
  /\ reset[s]
  /\ Len(echoed[s]) < MaxInput
  /\ UNCHANGED buf
  /\ LineOrFull(s)
  /\ UNCHANGED <<short_writes, conn, reset, received, echoed>>

ReadEof(s) ==
  /\ Reads(s)
  /\ ~ reset[s]
  /\ buf_off' = [buf_off EXCEPT ![s] = @ + 1]
  /\ Shutdown(s)
  /\ conn' = "closing"
  /\ UNCHANGED <<short_writes, buf, reset, received, echoed>>

echo_server_on_read(s) ==
  \/ \E b \in Byte : ReadByte(s, b)
  \/ ReadError(s)
  \/ ReadEof(s)

Taken(n) == IF short_writes THEN 0..n ELSE {n}

(* Mutant: the whole buffer is written, not the buf_off bytes in use.      *)
echo_server_on_write_whole(s) ==
  /\ conn = "open"
  /\ stage[s] = "open"
  /\ "write" \in want[s]
  /\ echoed' = [echoed EXCEPT ![s] = @ \o buf[s]]
  /\ buf_off' = [buf_off EXCEPT ![s] = 0]
  /\ want' = [want EXCEPT ![s] = {"read"}]
  /\ UNCHANGED <<short_writes, conn, stage, buf, reset, received>>

echo_server_on_write(s) ==
  /\ conn = "open"
  /\ stage[s] = "open"
  /\ "write" \in want[s]
  /\ \E n \in Taken(buf_off[s]) :
       echoed' = [echoed EXCEPT ![s] = @ \o SubSeq(buf[s], 1, n)]
  /\ buf_off' = [buf_off EXCEPT ![s] = 0]
  /\ want' = [want EXCEPT ![s] = {"read"}]
  /\ UNCHANGED <<short_writes, conn, stage, buf, reset, received>>

echo_server_on_stream_close(s) ==
  /\ stage[s] = "shut" \/ (stage[s] = "open" /\ conn = "closing")
  /\ stage' = [stage EXCEPT ![s] = "closed"]
  /\ want' = [want EXCEPT ![s] = {}]
  /\ UNCHANGED <<short_writes, conn, buf, buf_off, reset, received, echoed>>

-----------------------------------------------------------------------------
(* The client and the engine (external).                                   *)

ResetStream(s) ==
  /\ ResetsAllowed
  /\ stage[s] = "open"
  /\ ~ reset[s]
  /\ reset' = [reset EXCEPT ![s] = TRUE]
  /\ UNCHANGED <<short_writes, conn, stage, want, buf, buf_off, received, echoed>>

CloseByPeer ==
  /\ conn = "open"
  /\ conn' = "closing"
  /\ UNCHANGED <<short_writes, stage, want, buf, buf_off, reset, received, echoed>>

(* on_conn_closed comes after the on_close of every stream. *)
ConnClosed ==
  /\ conn = "closing"
  /\ \A s \in Stream : stage[s] \in {"idle", "closed"}
  /\ conn' = "closed"
  /\ UNCHANGED <<short_writes, stage, want, buf, buf_off, reset, received, echoed>>

Next ==
  \/ \E s \in Stream :
       \/ echo_server_on_new_stream(s)
       \/ echo_server_on_read(s)
       \/ echo_server_on_write(s)
       \/ echo_server_on_stream_close(s)
       \/ ResetStream(s)
  \/ CloseByPeer
  \/ ConnClosed

Spec == Init /\ [][Next]_vars

(* The engine calls a write callback that is wanted, stream after stream. *)
FairSpec == Spec /\ \A s \in Stream : WF_vars(echo_server_on_write(s))

-----------------------------------------------------------------------------
(* Properties.                                                             *)

(* The type invariant. *)
TypeOK ==
  /\ conn \in {"open", "closing", "closed"}
  /\ stage \in [Stream -> {"idle", "open", "shut", "closed"}]
  /\ want \in [Stream -> SUBSET {"read", "write"}]
  /\ buf \in [Stream -> [1..BufSize -> Byte]]
  /\ buf_off \in [Stream -> 0..BufSize]
  /\ short_writes \in BOOLEAN
  /\ reset \in [Stream -> BOOLEAN]
  /\ received \in [Stream -> Seq(Byte)]
  /\ echoed \in [Stream -> Seq(Byte)]

(* Nothing is lost, doubled or reordered: what a stream received is what   *)
(* it echoed and what waits in the buffer, until the client resets it, as  *)
(* long as lsquic_stream_write takes what it is given.                     *)
EchoFaithful ==
  \A s \in Stream :
    stage[s] = "open" /\ ~ reset[s] /\ ~ short_writes
      => received[s] = echoed[s] \o InUse(s)

(* When it takes less, the rest of the line is gone, but what is echoed    *)
(* was received, once and in that order.                                   *)
EchoInOrder ==
  \A s \in Stream :
    stage[s] = "open" /\ ~ reset[s] =>
      \E place \in [DOMAIN echoed[s] -> DOMAIN received[s]] :
        /\ \A i, j \in DOMAIN echoed[s] : i < j => place[i] < place[j]
        /\ \A i \in DOMAIN echoed[s] : echoed[s][i] = received[s][place[i]]

(* Only whole lines are echoed, each as long as the buffer at most.        *)
EchoesWholeLines ==
  ~ short_writes => \A s \in Stream :
    /\ echoed[s] # <<>> => Last(echoed[s]) = NL
    /\ \A i \in 1..(Len(echoed[s]) - BufSize + 1) :
         \E j \in i..(i + BufSize - 1) : echoed[s][j] = NL

(* A stream that still has its connection is shut for one reason: the line *)
(* it is in the middle of fills the buffer and has no end yet. A line that *)
(* fills the buffer exactly is no reason, nor are the lines before it.     *)
OnlyOverlongShuts ==
  [][\A s \in Stream :
       stage[s] = "open" /\ stage'[s] = "shut" /\ ~ reset[s] /\ conn' = "open"
         => /\ Len(received'[s]) >= BufSize
            /\ \A i \in Len(received'[s]) - BufSize + 1 .. Len(received'[s]) :
                 received'[s][i] # NL]_vars

(* A stream that nobody resets is an echo service until it is shut down:   *)
(* one line at a time, no longer than the buffer, sent back as a whole     *)
(* before the next byte is read, if writes do not fall short.              *)
Served ==
  {s \in Stream : stage[s] \in {"idle", "open"} /\ ~ reset[s] /\ ~ short_writes}

Echo ==
  INSTANCE EchoSpec WITH
    Room <- BufSize,
    served <- Served,
    input <- [s \in Stream |-> IF s \in Served THEN received[s] ELSE <<>>],
    output <- [s \in Stream |-> IF s \in Served THEN echoed[s] ELSE <<>>]

ImplementsEcho == Echo!Spec

(* A received line comes back, unless the stream or connection ends.       *)
LineComesBack ==
  \A s \in Stream :
    (/\ stage[s] = "open" /\ ~ reset[s] /\ ~ short_writes
     /\ received[s] # <<>> /\ Last(received[s]) = NL)
      ~> echoed[s] = received[s] \/ stage[s] # "open" \/ conn # "open"

(* echo_server.c:199, when a stream may be reset: the code "found end of   *)
(* line: echo it back". What is echoed back is a line the client sent.     *)
EchoedWasReceived == \A s \in Stream : IsPrefix(echoed[s], received[s])

=============================================================================
