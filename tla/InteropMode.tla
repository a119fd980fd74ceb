---------------------------- MODULE InteropMode -----------------------------
(***************************************************************************)
(* The streams of http_server.c in interop mode: the engine decodes the    *)
(* header set into a req of the program's own, its path selects a handler, *)
(* which may want the body, and the response is made up in memory.         *)
(***************************************************************************)
EXTENDS StreamContext

CONSTANTS
  Paths,       (* what can be asked for                                     *)
  Requests,    (* header sets: methods and paths, and how many other ones   *)
  DecodeBuf,   (* headers that fit into decode_buf                          *)
  RespSize,    (* units of a response other than a generated file           *)
  Word,        (* values of a size_t                                        *)
  GenLimit     (* 2 * (1u << 30), the longest file that is generated        *)

(* Digits and unit of a generated file.                                    *)
Asked(path) == path.digits * 2 ^ path.shift

ASSUME InteropAssumption ==
  /\ DecodeBuf \in Nat /\ RespSize \in Nat \ {0}
  /\ Word \in Nat \ {0} /\ GenLimit \in Nat
  /\ NoPath \notin Paths
  /\ \A path \in Paths : Asked(path) \in Nat /\ path.push \in Seq(Paths)
  /\ Requests \subseteq [method : Seq({"GET", "POST", "UNSUPPORTED"}),
                         path : Seq(Paths), authority : Nat, other : Nat]

-----------------------------------------------------------------------------
(* The header set.                                                         *)

(* prepare_decode finds room for each header, add_header finds no second   *)
(* path and no second method, and in the end all three pseudo-headers.     *)
hset_accepts(h) ==
  /\ Len(h.method) + Len(h.path) + h.authority + h.other <= DecodeBuf
  /\ Len(h.method) = 1 /\ Len(h.path) = 1 /\ h.authority > 0

(* What add_header makes of the headers, and new_req of a push.            *)
req(h) ==
  [method |-> IF h.method = <<>> THEN "UNSET" ELSE Head(h.method),
   path |-> IF h.path = <<>> THEN NoPath ELSE Head(h.path),
   qif_sz |-> Len(h.method) + Len(h.path) + h.authority + h.other]

new_req(path) == [path |-> path, method |-> "GET", qif_sz |-> 0]

-----------------------------------------------------------------------------
(* Reading.                                                                *)

(* The method of a map entry is not looked at. Patterns exist for up to    *)
(* three pushes.                                                           *)
find_handler(path) ==
  CASE path.kind = "index" -> "INDEX_HTML"
    [] path.kind = "md5sum" -> "MD5SUM"
    [] path.kind = "verify-headers" -> "VER_HEAD"
    [] path.kind = "file" /\ Len(path.push) <= 3 -> "GEN_FILE"
    [] OTHER -> "none"

(* The response is ready: the read side is shut, on_write is asked.        *)
Ready(x, n) == WantsWrite(ShutRead([x EXCEPT !.left = n, !.processed = @ + 1]))

ERROR_RESP(x, code) ==
  Ready([x EXCEPT !.interop_handler = "ERROR", !.resp_status = code], RespSize)

(* The shift drops what a size_t cannot hold.                              *)
GenSize(path) == Asked(path) % Word

(* The status of the answer: the first that applies.                       *)
Status(r) ==
  IF r.method = "UNSET" \/ r.path = NoPath THEN "400"
  ELSE IF r.method = "UNSUPPORTED" THEN "501"
  ELSE IF find_handler(r.path) = "none" THEN "404"
  ELSE IF find_handler(r.path) = "GEN_FILE" /\ GenSize(r.path) > GenLimit THEN "406"
  ELSE "200"

(* The context after the headers of request r were looked at.              *)
Handled(x, r) ==
  LET y == [x EXCEPT !.interop_handler = find_handler(r.path)]
  IN  IF Status(r) # "200" THEN ERROR_RESP(x, Status(r))
      ELSE CASE y.interop_handler = "INDEX_HTML" -> Ready(y, RespSize)
             [] y.interop_handler = "MD5SUM" -> y
             [] y.interop_handler = "VER_HEAD" ->
                  [y EXCEPT !.need = r.qif_sz, !.left = r.qif_sz]
             [] y.interop_handler = "GEN_FILE" ->
                  Ready([y EXCEPT !.push_paths = r.path.push], GenSize(r.path))

ReadHeaders(s) ==
  \/ /\ ~ lsquic_stream_is_pushed(s)
     /\ \E h \in Requests : hset_accepts(h) /\ Become(s, Handled(st[s], req(h)))
  \/ /\ lsquic_stream_is_pushed(s)
     /\ Become(s, Handled(st[s], new_req(st[s].path)))
  \/ Become(s, ERROR_RESP(st[s], "500"))

(* Mutant: the read side is not shut when the response is ready. *)
ReadBody_open(s) ==
  IF st[s].processed > 0
    THEN End("asserted")
    ELSE Become(s, WantsWrite([st[s] EXCEPT !.processed = 1, !.left = RespSize]))

(* The checksum takes the body up to its end (done comes with the          *)
(* response); to verify headers, the body is read until its length is      *)
(* theirs (whatever one read returns counts as all of it), and once more.  *)
ReadBody(s) ==
  LET x == st[s]
  IN  CASE x.interop_handler = "MD5SUM" ->
             IF x.processed > 0
               THEN End("asserted")
               ELSE Become(s, Ready(x, RespSize)) \/ End("dead")
        [] x.interop_handler = "VER_HEAD" ->
             \/ Become(s, Ready(x, x.left))
             \/ x.need > 0 /\ (Become(s, [x EXCEPT !.need = 0]) \/ End("dead"))
        [] OTHER -> End("asserted")

http_server_interop_on_read(s) ==
  /\ opt.mode = "interop" /\ Callback(s, "read")
  /\ IF st[s].interop_handler = "none" THEN ReadHeaders(s) ELSE ReadBody(s)

(* The engine resets a stream whose headers the program does not take.     *)
hset_rejected(s) ==
  /\ opt.mode = "interop" /\ Callback(s, "read")
  /\ st[s].interop_handler = "none" /\ ~ lsquic_stream_is_pushed(s)
  /\ \E h \in Requests : ~ hset_accepts(h)
  /\ Become(s, Closed(st[s]))

-----------------------------------------------------------------------------
(* Writing.                                                                *)

(* Mutant: a partial write counts as the whole. *)
Written_all(x, k) == ShutWrite([x EXCEPT !.left = @ - k])

(* The context after one write took k units.                               *)
Written(x, k) ==
  LET y == [x EXCEPT !.left = @ - k]
  IN  IF y.left = 0 THEN ShutWrite(y) ELSE y

(* Promises come before the headers, the file after them; all of it is     *)
(* written through a reader if lsquic_stream_pwritev writes nothing.       *)
idle_on_write(s) ==
  LET x == st[s]
  IN  IF x.headers_sent
        THEN \/ \E k \in (IF x.left = 0 THEN {0} ELSE 1 .. x.left) :
                  Become(s, Written(x, k))
             \/ End("dead")
        ELSE \E f \in Promises(x.push_paths),
                y \in {[x EXCEPT !.headers_sent = TRUE], Closed(x)} :
               /\ st' = [Promised(s, x.push_paths, f) EXCEPT
                           ![s] = [y EXCEPT !.push_paths = <<>>]]
               /\ UNCHANGED <<server, opt, goaway, fds>>

(* The flag is set whether the headers could be sent or not, and the body  *)
(* is written after it. A failed write aborts the connection, and closes   *)
(* all of its streams.                                                     *)
reply(s) ==
  LET x == st[s]
      Aborted(u) == st[u].conn = x.conn /\ st[u].stage = "open"
  IN  CASE x.headers_sent ->
             \/ \E k \in 1 .. x.left : Become(s, Written(x, k))
             \/ /\ st' = [u \in Stream |-> IF Aborted(u) THEN Closed(st[u]) ELSE st[u]]
                /\ UNCHANGED <<server, opt, goaway, fds>>
        [] ~ x.headers_sent /\ x.left > 0 ->
             \E lost \in BOOLEAN :
               Become(s, [x EXCEPT !.headers_sent = TRUE, !.headers_lost = lost])
        [] OTHER -> End("asserted")

http_server_interop_on_write(s) ==
  /\ opt.mode = "interop" /\ Callback(s, "write")
  /\ IF st[s].interop_handler = "GEN_FILE" THEN idle_on_write(s) ELSE reply(s)

=============================================================================
