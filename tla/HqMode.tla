------------------------------- MODULE HqMode -------------------------------
(***************************************************************************)
(* The streams of http_server.c over HTTP 0.9 (options -r and -Q): no      *)
(* headers, no delay, no pushes, and nothing ends the process.             *)
(***************************************************************************)
EXTENDS StreamContext

(* A stream is closed when its request cannot be read or parsed, or has no *)
(* file.                                                                   *)
hq_server_on_read(s) ==
  /\ opt.mode = "hq" /\ Callback(s, "read")
  /\ \/ \E n \in FileSizes :
          LET x == [st[s] EXCEPT !.reader = Lowest, !.left = n, !.processed = @ + 1]
          IN  /\ st' = [st EXCEPT ![s] = WantsWrite(ShutRead(x))]
              /\ fds' = [fds EXCEPT ![Lowest] = s]
              /\ UNCHANGED <<server, opt, goaway>>
     \/ Become(s, Closed(st[s]))

(* What bytes_left says: with the option -P it reads file_size, which only *)
(* process_request sets.                                                   *)
SeenLeft(left) == IF opt.pwritev > 0 THEN 0 ELSE left

hq_server_on_write(s) ==
  /\ opt.mode = "hq" /\ Callback(s, "write")
  /\ \/ /\ fds[Source(st[s])] # "free"
        /\ \E k \in (IF st[s].left = 0 THEN {0} ELSE 1 .. st[s].left) :
             LET x == [st[s] EXCEPT !.left = @ - k]
             IN  Become(s, IF SeenLeft(x.left) > 0
                             THEN [x EXCEPT !.written = @ + k]
                             ELSE Finished(x))
     \/ Become(s, Closed(st[s]))

=============================================================================
