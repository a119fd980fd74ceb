----------------------------- MODULE HttpStream -----------------------------
(***************************************************************************)
(* The streams of http_server.c in each of its modes, over connections     *)
(* whose clients may go away, and what they owe each other: they share the *)
(* process, the table of descriptors and, if one was pushed by another,    *)
(* the connection. What one of them does to these, all suffer.             *)
(***************************************************************************)
EXTENDS FileMode, HqMode, InteropMode

on_read(s) ==
  \/ http_server_on_read(s)
  \/ hq_server_on_read(s)
  \/ http_server_interop_on_read(s)

on_write(s) ==
  \/ http_server_on_write(s)
  \/ hq_server_on_write(s)
  \/ http_server_interop_on_write(s)

Next ==
  \E s \in Stream :
    \/ http_server_on_new_stream(s)
    \/ hset_rejected(s)
    \/ on_read(s)
    \/ on_write(s)
    \/ resume_response(s)
    \/ http_server_on_close(s)
    \/ http_server_on_goaway(s)

Spec == Init /\ [][Next]_vars

(* The engine calls the write callback of a stream that wants it, and the  *)
(* event loop fires timers.                                                *)
FairSpec ==
  Spec /\ \A s \in Stream : WF_vars(on_write(s)) /\ WF_vars(resume_response(s))

-----------------------------------------------------------------------------
(* Properties.                                                             *)

Context == [
  stage : {"idle", "open", "closing", "freed"}, want : SUBSET {"read", "write"},
  read_shut : BOOLEAN, write_shut : BOOLEAN, headers_sent : BOOLEAN,
  headers_lost : BOOLEAN, delayed : BOOLEAN, resume_resp : BOOLEAN, reader : FD \cup {NoReader},
  file_fd : FD, written : Nat, left : Int, conn : Stream,
  processed : Nat, need : Nat,
  interop_handler : {"none", "ERROR", "INDEX_HTML", "MD5SUM", "VER_HEAD", "GEN_FILE"},
  resp_status : {"200", "400", "404", "406", "500", "501"},
  path : Paths \cup {NoPath, PushPath}, push_paths : Seq(Paths)]

(* The type invariant. But for the fallback of lsquic_stream_pwritev, a    *)
(* write takes no more than is left.                                       *)
TypeOK ==
  /\ server \in {"up", "dead", "asserted"}
  /\ opt \in Configurations
  /\ st \in [Stream -> Context]
  /\ \A s \in Stream : opt.falls_back \/ st[s].left >= 0
  /\ goaway \in [Stream -> BOOLEAN]
  /\ fds \in [FD -> Stream \cup {"stdin", "free"}]

(* hq_server_on_write with the option -P takes every write for the last.   *)
CutsShort == opt.mode = "hq" /\ opt.pwritev > 0

(* http_server_interop_on_write ignores the result of send_headers2.       *)
MayLackHeaders(s) ==
  opt.mode = "interop" /\ st[s].interop_handler # "GEN_FILE"

(* A response that ends regularly holds its headers, in the modes that     *)
(* have them, and the whole body, whether it was written at once, in       *)
(* parts, with a delay or from the file. Only the responses that interop   *)
(* mode makes in memory may have lost their headers on the way.            *)
NoTruncation ==
  \A s \in Stream :
    st[s].stage = "open" /\ st[s].write_shut
      => /\ st[s].left = 0 \/ CutsShort
         /\ st[s].headers_sent \/ opt.mode = "hq"
         /\ st[s].headers_lost => MayLackHeaders(s)

(* A request is answered once: to come back to the end of its input would  *)
(* close req_fh and free req_buf a second time.                            *)
ProcessedOnce == \A s \in Stream : st[s].processed <= 1

(* Between request and end, somebody is in charge of the response: the     *)
(* write callback or the timer, and not both.                              *)
SomeoneInCharge ==
  \A s \in Stream :
    st[s].stage = "open" /\ st[s].processed > 0 /\ ~ st[s].write_shut
      => ("write" \in st[s].want <=> ~ st[s].resume_resp)

(* A timer finds its stream, however streams and writes fail, as long as   *)
(* no client leaves during the delay.                                      *)
TimerHasStream ==
  ~ opt.leave => \A s \in Stream : st[s].resume_resp => st[s].stage # "freed"

(* As long as nobody closed the standard input in place of a file, streams *)
(* read from the descriptor they opened until they are freed, and what     *)
(* they opened is closed with them.                                        *)
OwnFile ==
  fds[0] = "stdin" =>
    /\ \A s \in Stream :
         opt.mode # "interop" /\ st[s].stage \in {"open", "closing"} /\ st[s].processed > 0
           => fds[Source(st[s])] = s
    /\ \A d \in FD \ {0} : fds[d] # "free" => st[fds[d]].stage \in {"open", "closing"}

(* The assertions of the callbacks hold: no callback finds a handler it    *)
(* does not know or a checksum that is done, and there is always something *)
(* to send. The exception is a push of the service that verifies headers,  *)
(* which has no headers to return then.                                    *)
AssertionsHold ==
  server = "asserted" =>
    \E s \in Stream : lsquic_stream_is_pushed(s) /\ st[s].interop_handler = "VER_HEAD"

(* The two ways of writing in which the length of a response is not kept:  *)
(* the fallback of lsquic_stream_pwritev, and the option -P in hq mode.    *)
Excused == opt.falls_back \/ CutsShort

(* What may be left of a response.                                         *)
Lengths == UNION {0..n : n \in FileSizes \cup {Word, RespSize, DecodeBuf}}

ResponsePhase(s) ==
  IF st[s].processed = 0 \/ Excused THEN "none"
  ELSE IF st[s].write_shut THEN "ended"
  ELSE IF st[s].stage = "open" /\ server = "up" THEN "due"
  ELSE "lost"

(* A response that has ended owes what it was not given. *)
ResponseDue(s) == IF ResponsePhase(s) \in {"due", "ended"} THEN st[s].left ELSE 0

Response == INSTANCE ResponseSpec WITH
  Length <- Lengths,
  phase <- [s \in Stream |-> ResponsePhase(s)],
  due <- [s \in Stream |-> ResponseDue(s)]

(* In all modes, streams deliver responses as ResponseSpec has it: never   *)
(* more than was settled, never again after the end, never less unless the *)
(* stream, its connection or the process is lost.                          *)
ImplementsResponse == Response!Spec

(* A response that has begun ends, delayed or not, unless its stream or    *)
(* the server does. (The fallback of lsquic_stream_pwritev may run past    *)
(* the end of the file, and then writes nothing for ever.)                 *)
ResponseEnds ==
  \A s \in Stream :
    st[s].processed > 0 /\ ~ opt.falls_back
      ~> st[s].write_shut \/ st[s].stage # "open" \/ server # "up"

=============================================================================
