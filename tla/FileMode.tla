------------------------------ MODULE FileMode ------------------------------
(***************************************************************************)
(* The streams of http_server.c when it serves files (option -r): a        *)
(* request is read to its end, the file is opened, and the response is     *)
(* written callback by callback, at once as far as it goes (option -w),    *)
(* with a pause in the middle (option -y), which a timer ends, or straight *)
(* from the file (option -P); a file may be pushed with it (option -p).    *)
(***************************************************************************)
EXTENDS StreamContext

(* Mutant: the read side is not shut. *)
process_request_open(x, n) ==
  {WantsWrite([x EXCEPT !.processed = @ + 1, !.left = n])}

(* The contexts a request for a file of n units may end in: the headers    *)
(* and a first, capped write at once (option -w), or on_write is asked.    *)
(* With the end of its callers, which shut the read side whatever          *)
(* process_request wanted.                                                 *)
process_request(x, n) ==
  LET y == ShutRead([x EXCEPT !.processed = @ + 1, !.left = n])
      Cut(k) == [y EXCEPT !.headers_sent = TRUE, !.left = n - k]
  IN  IF opt.immediate = 0
        THEN {WantsWrite(y)}
        ELSE {IF k = n THEN Finished(Cut(k)) ELSE WantsWrite(Cut(k)) :
                k \in {i \in 0..n : i <= opt.immediate}}

OpenFile(x) ==
  IF opt.pwritev > 0 THEN [x EXCEPT !.file_fd = Lowest]
                     ELSE [x EXCEPT !.reader = Lowest]

(* The end of a request. With the option -p every one of them promises the *)
(* file: its path is compared after the document root was put before it. A *)
(* file that is not there ends the process, as does a request that cannot  *)
(* be parsed: it has no path then.                                         *)
http_server_on_read_regular(s) ==
  LET pushes == IF opt.push THEN <<PushPath>> ELSE <<>>
  IN  \/ \E n \in FileSizes, f \in Promises(pushes) :
           /\ \E x \in process_request(OpenFile(st[s]), n) :
                st' = [Promised(s, pushes, f) EXCEPT ![s] = x]
           /\ fds' = [fds EXCEPT ![Lowest] = s]
           /\ UNCHANGED <<server, opt, goaway>>
      \/ End("dead")
      \/ Become(s, Closed(st[s]))

(* The file of a pushed stream is opened at once, if its hset is there.    *)
http_server_on_read_pushed(s) ==
  \/ \E n \in FileSizes :
       /\ \E x \in process_request(OpenFile(st[s]), n) : st' = [st EXCEPT ![s] = x]
       /\ fds' = [fds EXCEPT ![Lowest] = s]
       /\ UNCHANGED <<server, opt, goaway>>
  \/ End("dead")
  \/ Become(s, Closed(st[s]))

http_server_on_read(s) ==
  /\ opt.mode = "file" /\ Callback(s, "read")
  /\ IF lsquic_stream_is_pushed(s) THEN http_server_on_read_pushed(s)
                                   ELSE http_server_on_read_regular(s)

send_headers(s) ==
  /\ ~ st[s].headers_sent
  /\ \/ Become(s, [st[s] EXCEPT !.headers_sent = TRUE])
     \/ End("dead")

Unfinished(s) == st[s].headers_sent /\ st[s].left # 0

(* Mutant: the stream goes on wanting to write. *)
DelayResponse_wants(s) ==
  /\ Unfinished(s) /\ opt.delay
  /\ ~ st[s].delayed /\ st[s].written > DelayAfter
  /\ Become(s, [st[s] EXCEPT !.resume_resp = TRUE, !.delayed = TRUE])

(* The delay that is due is forgotten when event_new fails: the other      *)
(* actions do not wait for it.                                             *)
DelayResponse(s) ==
  /\ Unfinished(s) /\ opt.delay
  /\ ~ st[s].delayed /\ st[s].written > DelayAfter
  /\ Become(s, [st[s] EXCEPT !.resume_resp = TRUE, !.delayed = TRUE,
                             !.want = @ \ {"write"}])

(* Mutant: a write may take more than is left. *)
Taken_over(left) == 1 .. left + 1

(* What one write takes. The fallback of lsquic_stream_pwritev reads at    *)
(* the same offset until the engine has enough, and nothing past the end.  *)
Taken(left) ==
  IF opt.falls_back THEN IF left < 0 THEN {0} ELSE 1 .. left + 1
                    ELSE {k \in 1..left : opt.pwritev > 0 => k <= opt.pwritev}

(* Mutant: a partial write counts as the whole. *)
WritePart_all(s) ==
  /\ Unfinished(s)
  /\ \E k \in Taken(st[s].left) :
       Become(s, Finished([st[s] EXCEPT !.left = @ - k]))

(* Written from the file, the last part is not seen to be the last:        *)
(* bytes_left subtracts what was written before.                           *)
WritePart(s) ==
  /\ Unfinished(s) /\ fds[Source(st[s])] # "free"
  /\ \E k \in Taken(st[s].left) :
       LET x == [st[s] EXCEPT !.left = @ - k]
       IN  IF opt.pwritev = 0 /\ x.left = 0
             THEN Become(s, Finished(x))
             ELSE Become(s, [x EXCEPT !.written = @ + k])

(* A failed write is a reason to close the stream after a GOAWAY (what is  *)
(* then made of the result -1 is seen by nobody), and to end the process   *)
(* otherwise. The fallback may also write past its buffer.                 *)
WriteFails(s) ==
  /\ Unfinished(s)
  /\ \/ goaway[st[s].conn] /\ Become(s, Closed(st[s]))
     \/ (~ goaway[st[s].conn] \/ opt.falls_back) /\ End("dead")

http_server_on_write(s) ==
  /\ opt.mode = "file" /\ Callback(s, "write")
  /\ \/ send_headers(s)
     \/ DelayResponse(s)
     \/ WritePart(s)
     \/ WriteFails(s)
     \/ /\ st[s].headers_sent /\ st[s].left = 0
        /\ Become(s, Finished(st[s]))

(* Mutant: the stream does not want to write again. *)
resume_response_silent(s) ==
  /\ server = "up" /\ st[s].resume_resp
  /\ Become(s, [st[s] EXCEPT !.resume_resp = FALSE])

(* The timer finds its stream, or what free left of it.                    *)
resume_response(s) ==
  LET x == [st[s] EXCEPT !.resume_resp = FALSE]
  IN  /\ server = "up" /\ st[s].resume_resp
      /\ \/ Become(s, IF x.stage = "freed" THEN x ELSE WantsWrite(x))
         \/ x.stage = "freed" /\ End("dead")

http_server_on_goaway(c) ==
  /\ server = "up" /\ opt.mode = "file"
  /\ \E s \in Stream : st[s].conn = c /\ st[s].stage = "open"
  /\ goaway' = [goaway EXCEPT ![c] = TRUE]
  /\ UNCHANGED <<server, opt, st, fds>>

=============================================================================
