--------------------------- MODULE StreamContext ----------------------------
(***************************************************************************)
(* What the three modes of http_server.c share: files (option -r), HTTP    *)
(* 0.9 or "hq" (options -r and -Q), and interop (no option -r). They have  *)
(* one stream context, one on_new_stream and one on_close, and one table   *)
(* of descriptors. Each mode has a module of its own; HttpStream puts them *)
(* together.                                                               *)
(***************************************************************************)
EXTENDS Integers, FiniteSets, Sequences

CONSTANTS
  Stream,          (* streams of the server, pushed ones included           *)
  Configurations,  (* options of the program, and what its peers do         *)
  FileSizes,       (* sizes of the files, in units of a write               *)
  DelayAfter       (* units written before a delay: 10000000 bytes          *)

ASSUME StreamAssumption ==
  /\ IsFiniteSet(Stream) /\ {"stdin", "free"} \cap Stream = {}
  /\ Configurations \subseteq
       [mode : {"file", "hq", "interop"}, delay : BOOLEAN, immediate : Nat,
        pwritev : Nat, push : BOOLEAN, falls_back : BOOLEAN, leave : BOOLEAN,
        stdin : BOOLEAN]
  /\ FileSizes \subseteq Nat
  /\ DelayAfter \in Nat

VARIABLES
  server,  (* the process: "up", "dead" (exit or fault), "asserted"         *)
  opt,     (* the configuration of this behaviour                           *)
  st,      (* of a stream: its context and what the engine keeps of it      *)
  goaway,  (* of a connection: RECEIVED_GOAWAY; conn_ctx comes from malloc  *)
  fds      (* of a descriptor: who opened what it stands for                *)

vars == <<server, opt, st, goaway, fds>>

FD == 0 .. Cardinality(Stream)
NoReader == Cardinality(Stream) + 1
NoPath == [kind |-> "none"]
PushPath == [kind |-> "push_path"]

(* A context is born with calloc: file_fd is 0. left is what bytes_left    *)
(* returns; the code's size_t is huge where it is negative. headers_sent   *)
(* is the flag SH_HEADERS_SENT, headers_lost the history of a flag that    *)
(* was set although they could not be sent.                                *)
lsquic_stream_ctx(s) ==
  [stage |-> "idle", want |-> {}, read_shut |-> FALSE, write_shut |-> FALSE,
   headers_sent |-> FALSE, headers_lost |-> FALSE, delayed |-> FALSE,
   resume_resp |-> FALSE, reader |-> NoReader, file_fd |-> 0, written |-> 0, left |-> 0,
   conn |-> s, processed |-> 0,
   interop_handler |-> "none", resp_status |-> "200", path |-> NoPath,
   need |-> 0, push_paths |-> <<>>]

(* main() refuses the options -w and -P together.                          *)
Init ==
  /\ server = "up"
  /\ opt \in {c \in Configurations : c.immediate = 0 \/ c.pwritev = 0}
  /\ st = [s \in Stream |-> lsquic_stream_ctx(s)]
  /\ goaway \in [Stream -> BOOLEAN]
  /\ opt.mode # "file" => goaway = [s \in Stream |-> FALSE]
  /\ fds = [d \in FD |-> IF d = 0 /\ opt.stdin THEN "stdin" ELSE "free"]

-----------------------------------------------------------------------------
(* The engine (external). Streams do not want a side that is shut.         *)

Callback(s, side) ==
  server = "up" /\ st[s].stage = "open" /\ side \in st[s].want

Wants(x, side, shut) == [x EXCEPT !.want = IF shut THEN @ ELSE @ \cup {side}]
WantsRead(x) == Wants(x, "read", x.read_shut)
WantsWrite(x) == Wants(x, "write", x.write_shut)
ShutRead(x) == [x EXCEPT !.read_shut = TRUE, !.want = @ \ {"read"}]
ShutWrite(x) == [x EXCEPT !.write_shut = TRUE, !.want = @ \ {"write"}]

(* The response is complete (files and hq).                                *)
Finished(x) == WantsRead(ShutWrite(x))

(* lsquic_stream_close: no callback but on_close follows.                  *)
Closed(x) == [x EXCEPT !.stage = "closing", !.want = {}]

Become(s, x) ==
  st' = [st EXCEPT ![s] = x] /\ UNCHANGED <<server, opt, goaway, fds>>

End(how) == server' = how /\ UNCHANGED <<opt, st, goaway, fds>>

(* lsquic_conn_push_stream: each of the paths is promised on a new stream  *)
(* of the same connection, or refused.                                     *)
Opened(x) == [x EXCEPT !.stage = "open", !.want = {"read"}]

Promises(paths) ==
  LET idle == {s \in Stream : st[s].stage = "idle"}
  IN  UNION {{f \in [D -> idle] : \A i, j \in D : f[i] = f[j] => i = j} :
               D \in SUBSET (DOMAIN paths)}

Promised(s, paths, f) ==
  [u \in Stream |->
     IF \E i \in DOMAIN f : f[i] = u
       THEN [Opened(lsquic_stream_ctx(u)) EXCEPT
               !.conn = st[s].conn,
               !.path = paths[CHOOSE i \in DOMAIN f : f[i] = u]]
       ELSE st[u]]

lsquic_stream_is_pushed(s) == st[s].conn # s

-----------------------------------------------------------------------------
(* Descriptors. POSIX: the lowest free one is opened.                      *)

Lowest == CHOOSE d \in FD : /\ fds[d] = "free"
                            /\ \A e \in FD : fds[e] = "free" => d <= e

(* Where the body of a response is read from.                              *)
Source(x) == IF x.reader = NoReader THEN x.file_fd ELSE x.reader

-----------------------------------------------------------------------------
(* The callbacks that all modes share.                                     *)

http_server_on_new_stream(s) ==
  /\ server = "up" /\ st[s].stage = "idle"
  /\ Become(s, Opened(st[s]))

(* What is left of a context that was freed: whether its response ended,   *)
(* and its timer, which is not deleted.                                    *)
Freed(s) ==
  [lsquic_stream_ctx(s) EXCEPT
     !.stage = "freed", !.resume_resp = st[s].resume_resp,
     !.processed = st[s].processed, !.write_shut = st[s].write_shut]

(* Mutant: the reader is not destroyed. *)
http_server_on_close_leak(s) ==
  /\ server = "up"
  /\ st[s].stage = "closing" \/ (st[s].stage = "open" /\ opt.leave)
  /\ st' = [st EXCEPT ![s] = Freed(s)]
  /\ UNCHANGED <<server, opt, goaway, fds>>

(* With the option -P the file is closed, whether one was opened or not.   *)
http_server_on_close(s) ==
  LET x == st[s]
      closed == (IF x.reader = NoReader THEN {} ELSE {x.reader})
                  \cup (IF opt.pwritev > 0 THEN {x.file_fd} ELSE {})
  IN  /\ server = "up"
      /\ \/ x.stage = "closing"
         \/ x.stage = "open" /\ opt.leave
         \/ x.stage = "open" /\ x.read_shut /\ x.write_shut
      /\ st' = [st EXCEPT ![s] = Freed(s)]
      /\ fds' = [d \in FD |-> IF d \in closed THEN "free" ELSE fds[d]]
      /\ UNCHANGED <<server, opt, goaway>>

=============================================================================
