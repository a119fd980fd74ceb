-------------------------- MODULE HttpStreamProofs --------------------------
(***************************************************************************)
(* What holds of HttpStream for any number of streams, all files, requests *)
(* and options.                                                            *)
(***************************************************************************)
EXTENDS HttpStream, FiniteSetTheorems, WellFoundedInduction, TLAPS

-----------------------------------------------------------------------------
(* What a context x of the stream s never loses, with the options o.       *)

(* Sides that were shut are not wanted. *)
SidesShut(x) ==
  /\ x.read_shut => "read" \notin x.want
  /\ x.write_shut => "write" \notin x.want

(* A response has begun before it is written, and is not begun again. *)
Begun(x) ==
  /\ x.processed \in {0, 1}
  /\ "write" \in x.want \/ x.resume_resp \/ x.write_shut => x.processed = 1
  /\ x.stage = "open" /\ x.processed = 1 => x.read_shut

(* Callback and timer hand over to each other, and the timer's stream      *)
(* stays as long as its client does.                                       *)
InCharge(o, x) ==
  /\ x.stage = "open" /\ x.processed = 1 /\ ~ x.write_shut
       => ("write" \in x.want <=> ~ x.resume_resp)
  /\ x.resume_resp => /\ o.mode = "file"
                      /\ o.leave \/ (x.stage = "open" /\ ~ x.write_shut)

(* A response that ended is complete, with its headers unless the interop  *)
(* mode lost them.                                                         *)
Complete(o, x) ==
  /\ x.left \in Lengths \/ (o.mode = "file" /\ o.falls_back)
  /\ x.write_shut => x.left = 0 \/ (o.mode = "hq" /\ o.pwritev > 0)
  /\ x.stage = "open" /\ x.write_shut => x.headers_sent \/ o.mode = "hq"
  /\ x.headers_lost => /\ x.headers_sent /\ o.mode = "interop"
                       /\ x.interop_handler # "GEN_FILE"

(* Interop mode: a response has a handler, and something to send but for   *)
(* files and for promises of the service that verifies headers.            *)
Answered(o, s, x) ==
  o.mode = "interop" =>
    /\ x.conn # s => x.path \in Paths
    /\ x.stage = "open" /\ x.processed = 1 => x.interop_handler # "none"
    /\ x.processed = 0 => x.interop_handler \in {"none", "MD5SUM", "VER_HEAD"}
    /\ x.stage = "open" /\ ~ x.headers_sent =>
         /\ x.interop_handler = "VER_HEAD" => x.left > 0 \/ x.conn # s
         /\ x.processed = 1 /\ x.interop_handler \in {"ERROR", "INDEX_HTML", "MD5SUM"}
              => x.left > 0

(* What was not used yet is as it was made. *)
Fresh(s, x) ==
  /\ x.stage = "idle" => x = lsquic_stream_ctx(s)
  /\ x.stage = "open" /\ x.processed = 0 => ~ x.headers_sent

Sane(o, s, x) ==
  /\ x \in Context /\ Fresh(s, x) /\ SidesShut(x) /\ Begun(x)
  /\ InCharge(o, x) /\ Complete(o, x) /\ Answered(o, s, x)

-----------------------------------------------------------------------------
(* The constants and the operators on contexts.                            *)

(* The fields of an option record. *)
LEMMA OptionTypes ==
  ASSUME NEW o \in Configurations
  PROVE  /\ o.mode \in {"file", "hq", "interop"}
         /\ o.delay \in BOOLEAN /\ o.push \in BOOLEAN /\ o.falls_back \in BOOLEAN
         /\ o.leave \in BOOLEAN /\ o.stdin \in BOOLEAN
         /\ o.immediate \in Nat /\ o.pwritev \in Nat
  BY StreamAssumption

(* Lengths are numbers, and what is left of one is one. *)
LEMMA LengthsClosed ==
  /\ Lengths \subseteq Nat /\ 0 \in Lengths /\ RespSize \in Lengths
  /\ FileSizes \subseteq Lengths /\ 0..Word \subseteq Lengths
  /\ 0..DecodeBuf \subseteq Lengths
  /\ \A n \in Lengths : 0..n \subseteq Lengths
<1>1. \A n \in FileSizes \cup {Word, RespSize, DecodeBuf} : n \in Nat
  BY StreamAssumption, InteropAssumption
<1>2. Lengths \subseteq Nat
  BY <1>1 DEF Lengths
<1>3. \A n \in FileSizes \cup {Word, RespSize, DecodeBuf} : 0..n \subseteq Lengths /\ n \in 0..n
  BY <1>1 DEF Lengths
<1>4. ASSUME NEW n \in Lengths PROVE 0..n \subseteq Lengths
  <2>1. PICK m \in FileSizes \cup {Word, RespSize, DecodeBuf} : n \in 0..m
    BY DEF Lengths
  <2>2. 0..n \subseteq 0..m
    BY <1>1, <2>1
  <2> QED
    BY <1>3, <2>2
<1>5. 0 \in 0..Word
  BY InteropAssumption
<1> QED
  BY <1>2, <1>3, <1>4, <1>5

(* Everything but the sides and the stage stays. *)
Keeps(x, y) ==
  /\ y.headers_sent = x.headers_sent /\ y.headers_lost = x.headers_lost
  /\ y.delayed = x.delayed
  /\ y.resume_resp = x.resume_resp /\ y.reader = x.reader
  /\ y.file_fd = x.file_fd /\ y.written = x.written /\ y.left = x.left
  /\ y.conn = x.conn /\ y.processed = x.processed /\ y.need = x.need
  /\ y.interop_handler = x.interop_handler
  /\ y.path = x.path /\ y.push_paths = x.push_paths

(* What each of them does to the fields. A side that is shut is not asked for. *)
LEMMA WantsReadFields ==
  ASSUME NEW x \in Context, NEW y, y = WantsRead(x)
  PROVE  /\ y \in Context /\ Keeps(x, y) /\ y.stage = x.stage
         /\ y.read_shut = x.read_shut /\ y.write_shut = x.write_shut
         /\ y.want = (IF x.read_shut THEN x.want ELSE x.want \cup {"read"})
  BY DEF Context, Keeps, WantsRead, Wants

(* As for reading. *)
LEMMA WantsWriteFields ==
  ASSUME NEW x \in Context, NEW y, y = WantsWrite(x)
  PROVE  /\ y \in Context /\ Keeps(x, y) /\ y.stage = x.stage
         /\ y.read_shut = x.read_shut /\ y.write_shut = x.write_shut
         /\ y.want = (IF x.write_shut THEN x.want ELSE x.want \cup {"write"})
  BY DEF Context, Keeps, WantsWrite, Wants

(* Shutting a side takes its callback away. *)
LEMMA ShutReadFields ==
  ASSUME NEW x \in Context, NEW y, y = ShutRead(x)
  PROVE  /\ y \in Context /\ Keeps(x, y) /\ y.stage = x.stage
         /\ y.read_shut /\ y.write_shut = x.write_shut
         /\ y.want = x.want \ {"read"}
  BY DEF Context, Keeps, ShutRead

(* As for reading. *)
LEMMA ShutWriteFields ==
  ASSUME NEW x \in Context, NEW y, y = ShutWrite(x)
  PROVE  /\ y \in Context /\ Keeps(x, y) /\ y.stage = x.stage
         /\ y.read_shut = x.read_shut /\ y.write_shut
         /\ y.want = x.want \ {"write"}
  BY DEF Context, Keeps, ShutWrite

(* The write side is shut, and reading is wanted unless that is shut too. *)
LEMMA FinishedFields ==
  ASSUME NEW x \in Context, NEW y, y = Finished(x)
  PROVE  /\ y \in Context /\ Keeps(x, y) /\ y.stage = x.stage
         /\ y.read_shut = x.read_shut /\ y.write_shut
         /\ y.want = (x.want \ {"write"}) \cup (IF x.read_shut THEN {} ELSE {"read"})
<1> DEFINE z == ShutWrite(x)
<1>1. /\ z \in Context /\ Keeps(x, z) /\ z.stage = x.stage
      /\ z.read_shut = x.read_shut /\ z.write_shut
      /\ z.want = x.want \ {"write"}
  BY ShutWriteFields
<1>2. y = WantsRead(z)
  BY DEF Finished
<1> HIDE DEF z
<1>3. /\ y \in Context /\ Keeps(z, y) /\ y.stage = z.stage
      /\ y.read_shut = z.read_shut /\ y.write_shut = z.write_shut
      /\ y.want = (IF z.read_shut THEN z.want ELSE z.want \cup {"read"})
  BY <1>1, <1>2, WantsReadFields
<1> QED
  BY <1>1, <1>3 DEF Keeps

(* No callback is wanted any more. *)
LEMMA ClosedFields ==
  ASSUME NEW x \in Context, NEW y, y = Closed(x)
  PROVE  /\ y \in Context /\ Keeps(x, y) /\ y.stage = "closing"
         /\ y.read_shut = x.read_shut /\ y.write_shut = x.write_shut
         /\ y.want = {}
  BY DEF Context, Keeps, Closed

(* An open stream may be closed unless a timer waits for it. *)
LEMMA ClosedSane ==
  ASSUME NEW o, NEW s, NEW x, Sane(o, s, x), x.stage = "open",
         x.resume_resp => o.leave
  PROVE  /\ Sane(o, s, Closed(x)) /\ Keeps(x, Closed(x))
         /\ Closed(x).stage = "closing" /\ Closed(x).write_shut = x.write_shut
<1> DEFINE y == Closed(x)
<1>1. /\ y \in Context /\ Keeps(x, y) /\ y.stage = "closing"
      /\ y.read_shut = x.read_shut /\ y.write_shut = x.write_shut
      /\ y.want = {}
  BY ClosedFields DEF Sane
<1> HIDE DEF y
<1>2. /\ x.stage = "open" /\ x.resume_resp => o.leave
      /\ SidesShut(x) /\ Begun(x) /\ InCharge(o, x) /\ Complete(o, x) /\ Answered(o, s, x)
  BY DEF Sane
<1>3. SidesShut(y) /\ Begun(y) /\ InCharge(o, y) /\ Complete(o, y) /\ Fresh(s, y)
  BY <1>1, <1>2 DEF SidesShut, Begun, InCharge, Complete, Keeps, Fresh
<1>4. Answered(o, s, y)
  BY <1>1, <1>2 DEF Answered, Keeps
<1> QED
  BY <1>1, <1>3, <1>4 DEF Sane, y

(* A complete response may end. *)
LEMMA FinishedSane ==
  ASSUME NEW o, NEW s, NEW x, Sane(o, s, x), x.stage = "open",
         x.processed = 1, ~ x.resume_resp,
         x.left = 0 \/ (o.mode = "hq" /\ o.pwritev > 0),
         x.headers_sent \/ o.mode = "hq"
  PROVE  /\ Sane(o, s, Finished(x)) /\ Keeps(x, Finished(x))
         /\ Finished(x).stage = "open" /\ Finished(x).write_shut
<1> DEFINE y == Finished(x)
<1>1. /\ y \in Context /\ Keeps(x, y) /\ y.stage = x.stage
      /\ y.read_shut = x.read_shut /\ y.write_shut
      /\ y.want = (x.want \ {"write"}) \cup (IF x.read_shut THEN {} ELSE {"read"})
  BY FinishedFields DEF Sane
<1> HIDE DEF y
<1>2. SidesShut(x) /\ Begun(x) /\ InCharge(o, x) /\ Complete(o, x) /\ Answered(o, s, x)
  BY DEF Sane
<1>3. SidesShut(y) /\ Begun(y) /\ InCharge(o, y) /\ Complete(o, y) /\ Fresh(s, y)
  BY <1>1, <1>2 DEF SidesShut, Begun, InCharge, Complete, Keeps, Fresh
<1>4. Answered(o, s, y)
  BY <1>1, <1>2 DEF Answered, Keeps
<1> QED
  BY <1>1, <1>3, <1>4 DEF Sane, y

(* A stream that wants to write has a request and is not finished. *)
LEMMA Writing ==
  ASSUME NEW o, NEW s, NEW x, Sane(o, s, x), x.stage = "open", "write" \in x.want
  PROVE  /\ x.processed = 1 /\ x.read_shut /\ ~ x.write_shut /\ ~ x.resume_resp
         /\ x.resume_resp => o.leave
  BY DEF Sane, SidesShut, Begun, InCharge

(* A stream that wants to read has none. *)
LEMMA Reading ==
  ASSUME NEW o, NEW s, NEW x, Sane(o, s, x), x.stage = "open", "read" \in x.want
  PROVE  /\ x.processed = 0 /\ ~ x.read_shut /\ ~ x.write_shut /\ ~ x.resume_resp
         /\ ~ x.headers_sent /\ ~ x.headers_lost /\ "write" \notin x.want
         /\ x.resume_resp => o.leave
  BY DEF Sane, SidesShut, Begun, Fresh, Complete

(* Two contexts that differ in the length and in what no property reads.   *)
Alike(x, y) ==
  /\ y.stage = x.stage /\ y.want = x.want /\ y.read_shut = x.read_shut
  /\ y.write_shut = x.write_shut /\ y.headers_sent = x.headers_sent
  /\ y.headers_lost = x.headers_lost
  /\ y.resume_resp = x.resume_resp /\ y.conn = x.conn /\ y.path = x.path
  /\ y.processed = x.processed /\ y.interop_handler = x.interop_handler
  /\ y.reader = x.reader /\ y.file_fd = x.file_fd

(* What is left may change while a stream writes. *)
LEMMA LeftSane ==
  ASSUME NEW o, NEW s, NEW x, Sane(o, s, x), x.stage = "open", "write" \in x.want,
         x.headers_sent \/ o.mode # "interop",
         NEW y \in Context, Alike(x, y),
         y.left \in Lengths \/ (o.mode = "file" /\ o.falls_back)
  PROVE  Sane(o, s, y)
<1>1. x.processed = 1 /\ ~ x.write_shut
  BY Writing
<1>2. SidesShut(x) /\ Begun(x) /\ InCharge(o, x) /\ Complete(o, x) /\ Answered(o, s, x)
  BY DEF Sane
<1>3. SidesShut(y) /\ Begun(y) /\ InCharge(o, y) /\ Complete(o, y) /\ Fresh(s, y)
  BY <1>1, <1>2 DEF SidesShut, Begun, InCharge, Complete, Alike, Fresh
<1>4. Answered(o, s, y)
  BY <1>1, <1>2 DEF Answered, Alike
<1> QED
  BY <1>3, <1>4 DEF Sane

(* To write changes what is left and what was written. *)
LEMMA LeftFields ==
  ASSUME NEW x \in Context, NEW n \in Int, NEW w \in Nat
  PROVE  /\ [x EXCEPT !.left = n] \in Context /\ Alike(x, [x EXCEPT !.left = n])
         /\ [x EXCEPT !.left = n].left = n /\ [x EXCEPT !.left = n].written = x.written
         /\ [x EXCEPT !.left = n, !.written = w] \in Context
         /\ Alike(x, [x EXCEPT !.left = n, !.written = w])
         /\ [x EXCEPT !.left = n, !.written = w].left = n
  BY DEF Context, Alike

-----------------------------------------------------------------------------
(* Steps of one stream. The invariant, and what most actions do.           *)

Streams ==
  /\ opt \in Configurations
  /\ st \in [Stream -> Context]
  /\ \A s \in Stream : Sane(opt, s, st[s])

(* Nothing is taken back: neither a request, nor the end of a response,    *)
(* nor the end of a stream, nor what was delivered of an open one.         *)
Onward(o, x, y) ==
  /\ x.processed = 1 => y.processed = 1
  /\ x.write_shut => y.write_shut
  /\ y.stage = "open" => x.stage \in {"idle", "open"}
  /\ y.processed # x.processed \/ y.write_shut # x.write_shut => y.stage = "open"
  /\ x.processed = 1 /\ y.stage = "open" => y.left <= x.left \/ o.falls_back

(* The descriptor stays, as the stream does. *)
Holds(o, x, y) ==
  /\ y.reader = x.reader /\ y.file_fd = x.file_fd
  /\ y.stage # "idle" /\ (y.stage = "freed" <=> x.stage = "freed")
  /\ o.mode # "interop" => y.processed = x.processed

(* The next context of a stream, with its descriptor or another. *)
Proceeds(s, y) == Sane(opt, s, y) /\ Onward(opt, st[s], y)
Advances(s, y) == Proceeds(s, y) /\ Holds(opt, st[s], y)

(* All an action does is to advance one stream, or to end the process. *)
Moves(s) ==
  \/ \E y : Advances(s, y) /\ Become(s, y)
  \/ End("dead")

(* A write from the reader or the file, with its fallback: the last of it  *)
(* ends the response.                                                      *)
LEMMA WritePartMoves ==
  ASSUME Streams, NEW s \in Stream, opt.mode = "file", Callback(s, "write"), WritePart(s)
  PROVE  Moves(s)
<1> DEFINE x == st[s]
<1>1. /\ Sane(opt, s, x) /\ x \in Context /\ x.left \in Int /\ x.written \in Nat
      /\ x.stage = "open" /\ "write" \in x.want /\ x.headers_sent
  BY DEF Streams, Callback, WritePart, Unfinished, Context
<1>2. PICK k \in Taken(x.left) :
        Become(s, IF opt.pwritev = 0 /\ [x EXCEPT !.left = @ - k].left = 0
                    THEN Finished([x EXCEPT !.left = @ - k])
                    ELSE [[x EXCEPT !.left = @ - k] EXCEPT !.written = @ + k])
  BY DEF WritePart
<1>3. k \in Nat /\ x.left - k \in Int /\ x.written + k \in Nat
  BY <1>1, OptionTypes DEF Taken, Streams
<1>4. x.left - k \in Lengths \/ (opt.mode = "file" /\ opt.falls_back)
  <2>1. CASE opt.falls_back
    BY <2>1
  <2>2. CASE ~ opt.falls_back
    <3>1. x.left \in Lengths /\ x.left \in Nat
      BY <1>1, <2>2, LengthsClosed DEF Sane, Complete
    <3>2. x.left - k \in 0 .. x.left
      BY <2>2, <3>1 DEF Taken
    <3> QED
      BY <3>1, <3>2, LengthsClosed
  <2> QED
    BY <2>1, <2>2
<1> DEFINE y == [x EXCEPT !.left = x.left - k]
           z == [x EXCEPT !.left = x.left - k, !.written = x.written + k]
<1>5. /\ y \in Context /\ Alike(x, y) /\ y.left = x.left - k
      /\ y.written = x.written
      /\ z \in Context /\ Alike(x, z) /\ z.left = x.left - k
  BY <1>1, <1>3, LeftFields
<1>a. x.left - k <= x.left
  BY <1>1, <1>3
<1>6. Sane(opt, s, y) /\ Sane(opt, s, z)
  BY <1>1, <1>4, <1>5, LeftSane
<1>7. x.processed = 1 /\ ~ x.resume_resp
  BY <1>1, Writing
<1>8. CASE opt.pwritev = 0 /\ y.left = 0
  <2>0. y.stage = "open" /\ y.processed = 1 /\ ~ y.resume_resp /\ y.headers_sent /\ y.left = 0
    BY <1>1, <1>5, <1>7, <1>8 DEF Alike
  <2>1. /\ Sane(opt, s, Finished(y)) /\ Keeps(y, Finished(y))
        /\ Finished(y).stage = "open" /\ Finished(y).write_shut
    BY <1>6, <2>0, FinishedSane
  <2>2. Become(s, Finished(y))
    BY <1>2, <1>8
  <2>3. Onward(opt, x, Finished(y)) /\ Holds(opt, x, Finished(y))
    <3> HIDE DEF y
    <3> QED
      BY <1>1, <1>5, <1>7, <1>a, <2>1 DEF Onward, Holds, Alike, Keeps
  <2> QED
    BY <2>1, <2>2, <2>3 DEF Moves, Advances, Proceeds
<1>9. CASE ~ (opt.pwritev = 0 /\ y.left = 0)
  <2>1. [y EXCEPT !.written = y.written + k] = z
    BY <1>5
  <2>2. Become(s, z)
    BY <1>2, <1>9, <2>1
  <2>3. Onward(opt, x, z) /\ Holds(opt, x, z)
    <3> HIDE DEF z
    <3> QED
      BY <1>1, <1>5, <1>a DEF Onward, Holds, Alike
  <2> QED
    BY <1>6, <2>2, <2>3 DEF Moves, Advances, Proceeds
<1> QED
  BY <1>8, <1>9

(* The headers go before the body; interop mode may lose those of a reply. *)
LEMMA HeadersAdvance ==
  ASSUME Streams, NEW s \in Stream, Callback(s, "write"), NEW lost \in BOOLEAN,
         lost => opt.mode = "interop" /\ st[s].interop_handler # "GEN_FILE",
         NEW y, y = [st[s] EXCEPT !.headers_sent = TRUE, !.headers_lost = lost]
  PROVE  Advances(s, y)
<1> DEFINE x == st[s]
<1>1. Sane(opt, s, x) /\ x \in Context /\ x.stage = "open" /\ "write" \in x.want
  BY DEF Streams, Callback
<1>2. x.processed = 1 /\ ~ x.write_shut
  BY <1>1, Writing
<1>3. /\ y \in Context /\ y.headers_sent /\ y.stage = x.stage /\ y.want = x.want
      /\ y.read_shut = x.read_shut /\ y.write_shut = x.write_shut
      /\ y.resume_resp = x.resume_resp /\ y.conn = x.conn /\ y.path = x.path
      /\ y.processed = x.processed /\ y.interop_handler = x.interop_handler
      /\ y.left = x.left /\ y.headers_lost = lost
      /\ y.reader = x.reader /\ y.file_fd = x.file_fd /\ x.left \in Int
  BY <1>1 DEF Context
<1>4. Fresh(s, y) /\ SidesShut(y) /\ Begun(y) /\ InCharge(opt, y) /\ Complete(opt, y)
  BY <1>1, <1>2, <1>3 DEF Sane, Fresh, SidesShut, Begun, InCharge, Complete
<1>5. Answered(opt, s, y)
  BY <1>1, <1>3 DEF Sane, Answered
<1> QED
  BY <1>1, <1>2, <1>3, <1>4, <1>5 DEF Sane, Advances, Proceeds, Onward, Holds

(* Headers that were not sent yet are not lost yet. *)
LEMMA HeadersSent ==
  ASSUME Streams, NEW s \in Stream, ~ st[s].headers_sent
  PROVE  [st[s] EXCEPT !.headers_sent = TRUE]
           = [st[s] EXCEPT !.headers_sent = TRUE, !.headers_lost = FALSE]
<1>1. st[s] \in Context /\ st[s].headers_lost = FALSE
  BY DEF Streams, Sane, Complete, Context
<1> QED
  BY <1>1 DEF Context

(* The headers of the file mode are sent, or the process exits. *)
LEMMA SendHeadersMoves ==
  ASSUME Streams, NEW s \in Stream, Callback(s, "write"), send_headers(s)
  PROVE  Moves(s)
<1> DEFINE y == [st[s] EXCEPT !.headers_sent = TRUE]
<1>1. Advances(s, y)
  BY HeadersSent, HeadersAdvance DEF send_headers
<1> QED
  BY <1>1 DEF send_headers, Moves

(* The write callback hands the response over to the timer. *)
LEMMA DelayMoves ==
  ASSUME Streams, NEW s \in Stream, opt.mode = "file", Callback(s, "write"), DelayResponse(s)
  PROVE  Moves(s)
<1> DEFINE x == st[s]
           y == [x EXCEPT !.resume_resp = TRUE, !.delayed = TRUE, !.want = @ \ {"write"}]
<1>1. Sane(opt, s, x) /\ x \in Context /\ x.stage = "open" /\ "write" \in x.want
  BY DEF Streams, Callback
<1>2. x.processed = 1 /\ ~ x.write_shut
  BY <1>1, Writing
<1>3. /\ y \in Context /\ y.resume_resp /\ y.want = x.want \ {"write"}
      /\ y.stage = x.stage /\ y.headers_sent = x.headers_sent
      /\ y.headers_lost = x.headers_lost
      /\ y.read_shut = x.read_shut /\ y.write_shut = x.write_shut
      /\ y.conn = x.conn /\ y.path = x.path
      /\ y.processed = x.processed /\ y.interop_handler = x.interop_handler
      /\ y.left = x.left
      /\ y.reader = x.reader /\ y.file_fd = x.file_fd /\ x.left \in Int
  BY <1>1 DEF Context
<1> HIDE DEF y
<1>4. Fresh(s, y) /\ SidesShut(y) /\ Begun(y) /\ InCharge(opt, y) /\ Complete(opt, y)
  BY <1>1, <1>2, <1>3 DEF Sane, Fresh, SidesShut, Begun, InCharge, Complete
<1>5. Answered(opt, s, y)
  BY <1>1, <1>3 DEF Sane, Answered
<1>6. Advances(s, y)
  BY <1>1, <1>2, <1>3, <1>4, <1>5 DEF Sane, Advances, Proceeds, Onward, Holds
<1> QED
  BY <1>6 DEF DelayResponse, Moves, y

(* The timer hands it back, or finds what free left. *)
LEMMA ResumeMoves ==
  ASSUME Streams, NEW s \in Stream, resume_response(s)
  PROVE  Moves(s)
<1> DEFINE x == st[s]
           y == [x EXCEPT !.resume_resp = FALSE]
           z == WantsWrite(y)
<1>1. Sane(opt, s, x) /\ x \in Context /\ x.resume_resp /\ opt \in Configurations
  BY DEF Streams, resume_response
<1>2. x.processed = 1 /\ x.stage # "idle"
  BY <1>1 DEF Sane, Begun, Fresh, lsquic_stream_ctx
<1>3. /\ y \in Context /\ ~ y.resume_resp /\ y.want = x.want
      /\ y.stage = x.stage /\ y.headers_sent = x.headers_sent
      /\ y.headers_lost = x.headers_lost
      /\ y.read_shut = x.read_shut /\ y.write_shut = x.write_shut
      /\ y.conn = x.conn /\ y.path = x.path
      /\ y.processed = x.processed /\ y.interop_handler = x.interop_handler
      /\ y.left = x.left
      /\ y.reader = x.reader /\ y.file_fd = x.file_fd /\ x.left \in Int
  BY <1>1 DEF Context
<1> HIDE DEF y
<1>4. /\ z \in Context /\ Keeps(y, z) /\ z.stage = y.stage
      /\ z.read_shut = y.read_shut /\ z.write_shut = y.write_shut
      /\ z.want = (IF y.write_shut THEN y.want ELSE y.want \cup {"write"})
  BY <1>3, WantsWriteFields
<1> HIDE DEF z
<1>5. x.stage = "freed" => Advances(s, y)
  <2>1. Answered(opt, s, x) => Answered(opt, s, y)
    BY <1>3 DEF Answered
  <2> QED
    BY <1>1, <1>2, <1>3, <2>1
    DEF Sane, Fresh, SidesShut, Begun, InCharge, Complete, Advances, Proceeds, Onward, Holds
<1>6. ASSUME x.stage # "freed" PROVE Advances(s, z)
  <2>1. Answered(opt, s, z)
    BY <1>1, <1>3, <1>4 DEF Sane, Answered, Keeps
  <2>2. Fresh(s, z) /\ SidesShut(z) /\ Begun(z) /\ InCharge(opt, z) /\ Complete(opt, z)
    BY <1>1, <1>2, <1>3, <1>4
    DEF Sane, Fresh, SidesShut, Begun, InCharge, Complete, Keeps
  <2> QED
    BY <1>2, <1>3, <1>4, <2>1, <2>2 DEF Sane, Advances, Proceeds, Onward, Holds, Keeps
<1>7. \/ Become(s, IF y.stage = "freed" THEN y ELSE z)
      \/ End("dead")
  BY DEF resume_response, y, z
<1> QED
  BY <1>3, <1>5, <1>6, <1>7 DEF Moves

(* The write callback of the file mode. *)
LEMMA FileWriteMoves ==
  ASSUME Streams, NEW s \in Stream, http_server_on_write(s)
  PROVE  Moves(s)
<1> DEFINE x == st[s]
<1>1. /\ opt.mode = "file" /\ Callback(s, "write") /\ Sane(opt, s, x)
      /\ x.stage = "open" /\ "write" \in x.want
  BY DEF Streams, Callback, http_server_on_write
<1>2. x.processed = 1 /\ ~ x.resume_resp /\ (x.resume_resp => opt.leave)
  BY <1>1, Writing
<1>3. CASE send_headers(s)
  BY <1>1, <1>3, SendHeadersMoves
<1>4. CASE DelayResponse(s)
  BY <1>1, <1>4, DelayMoves
<1>5. CASE WritePart(s)
  BY <1>1, <1>5, WritePartMoves
<1>6. CASE WriteFails(s)
  <2>1. Advances(s, Closed(x))
    BY <1>1, <1>2, ClosedSane DEF Advances, Proceeds, Onward, Holds, Keeps
  <2> QED
    BY <1>6, <2>1 DEF WriteFails, Moves
<1>7. CASE x.headers_sent /\ x.left = 0 /\ Become(s, Finished(x))
  <2>1. /\ Sane(opt, s, Finished(x)) /\ Keeps(x, Finished(x))
        /\ Finished(x).stage = "open" /\ Finished(x).write_shut
    BY <1>1, <1>2, <1>7, FinishedSane
  <2>2. Advances(s, Finished(x))
    BY <1>1, <1>2, <1>7, <2>1 DEF Advances, Proceeds, Onward, Holds, Keeps
  <2> QED
    BY <1>7, <2>2 DEF Moves
<1> QED
  BY <1>3, <1>4, <1>5, <1>6, <1>7 DEF http_server_on_write

(* The write callback of the hq mode. *)
LEMMA HqWriteMoves ==
  ASSUME Streams, NEW s \in Stream, hq_server_on_write(s)
  PROVE  Moves(s)
<1> DEFINE x == st[s]
<1>1. /\ opt.mode = "hq" /\ Sane(opt, s, x) /\ x \in Context /\ x.written \in Nat
      /\ x.stage = "open" /\ "write" \in x.want
  BY DEF Streams, Callback, hq_server_on_write, Context
<1>2. x.processed = 1 /\ ~ x.resume_resp /\ (x.resume_resp => opt.leave)
  BY <1>1, Writing
<1>3. CASE Become(s, Closed(x))
  <2>1. Advances(s, Closed(x))
    BY <1>1, <1>2, ClosedSane DEF Advances, Proceeds, Onward, Holds, Keeps
  <2> QED
    BY <1>3, <2>1 DEF Moves
<1>4. CASE ~ Become(s, Closed(x))
  <2>1. PICK k \in (IF x.left = 0 THEN {0} ELSE 1 .. x.left) :
          Become(s, IF SeenLeft([x EXCEPT !.left = @ - k].left) > 0
                      THEN [[x EXCEPT !.left = @ - k] EXCEPT !.written = @ + k]
                      ELSE Finished([x EXCEPT !.left = @ - k]))
    BY <1>4 DEF hq_server_on_write
  <2>2. x.left \in Lengths /\ x.left \in Nat
    BY <1>1, LengthsClosed DEF Sane, Complete
  <2>3. x.left - k \in 0 .. x.left
    BY <2>2
  <2>4. x.left - k \in Lengths
    BY <2>2, <2>3, LengthsClosed
  <2>9. x.left - k \in Int /\ x.written + k \in Nat
    BY <1>1, <2>2
  <2>a. \A n \in Int, w \in Nat :
          /\ [x EXCEPT !.left = n] \in Context /\ Alike(x, [x EXCEPT !.left = n])
          /\ [x EXCEPT !.left = n].left = n /\ [x EXCEPT !.left = n].written = x.written
          /\ [x EXCEPT !.left = n, !.written = w] \in Context
          /\ Alike(x, [x EXCEPT !.left = n, !.written = w])
          /\ [x EXCEPT !.left = n, !.written = w].left = n
    BY <1>1, LeftFields
  <2> DEFINE y == [x EXCEPT !.left = x.left - k]
             z == [x EXCEPT !.left = x.left - k, !.written = x.written + k]
  <2>5. /\ y \in Context /\ Alike(x, y) /\ y.left = x.left - k
        /\ y.written = x.written
        /\ z \in Context /\ Alike(x, z) /\ z.left = x.left - k
    BY <2>9, <2>a
  <2>6. Sane(opt, s, y) /\ Sane(opt, s, z)
    BY <1>1, <2>4, <2>5, LeftSane
  <2>7. CASE SeenLeft(y.left) > 0
    <3>1. [y EXCEPT !.written = y.written + k] = z
      BY <2>5
    <3>2. Become(s, z)
      BY <2>1, <2>7, <3>1
    <3>3. Onward(opt, x, z) /\ Holds(opt, x, z)
      <4> HIDE DEF z
      <4> QED
        BY <1>1, <2>3, <2>5 DEF Onward, Holds, Alike
    <3> QED
      BY <2>6, <3>2, <3>3 DEF Moves, Advances, Proceeds
  <2>8. CASE ~ (SeenLeft(y.left) > 0)
    <3>1. y.stage = "open" /\ y.processed = 1 /\ ~ y.resume_resp
      BY <1>1, <1>2, <2>5 DEF Alike
    <3>2. y.left = 0 \/ opt.pwritev > 0
      <4>1. y.left \in Nat
        BY <2>3, <2>5
      <4> HIDE DEF y
      <4> QED
        BY <2>8, <4>1 DEF SeenLeft
    <3>3. /\ Sane(opt, s, Finished(y)) /\ Keeps(y, Finished(y))
          /\ Finished(y).stage = "open" /\ Finished(y).write_shut
      BY <1>1, <2>6, <3>1, <3>2, FinishedSane
    <3>4. Become(s, Finished(y))
      BY <2>1, <2>8
    <3>5. Onward(opt, x, Finished(y)) /\ Holds(opt, x, Finished(y))
      <4> HIDE DEF y
      <4> QED
        BY <1>1, <1>2, <2>3, <2>5, <3>3 DEF Onward, Holds, Alike, Keeps
    <3> QED
      BY <3>3, <3>4, <3>5 DEF Moves, Advances, Proceeds
  <2> QED
    BY <2>7, <2>8
<1> QED
  BY <1>3, <1>4

-----------------------------------------------------------------------------
(* Descriptors.                                                            *)

(* A stream holds one descriptor at most, and only if it has a request. *)
Descriptors ==
  /\ fds \in [FD -> Stream \cup {"stdin", "free"}]
  /\ \A d \in FD : fds[d] = "stdin" => d = 0
  /\ \A d \in FD : fds[d] \in Stream =>
       st[fds[d]].processed = 1 /\ opt.mode # "interop"
  /\ \A d, e \in FD : fds[d] \in Stream /\ fds[d] = fds[e] => d = e

(* There are more descriptors than streams, so a stream without a request  *)
(* finds a free one.                                                       *)
LEMMA FreeDescriptor ==
  ASSUME Descriptors, NEW s \in Stream, st[s].processed = 0
  PROVE  \E d \in FD : fds[d] = "free"
<1> DEFINE N == Cardinality(Stream)
           Others == (Stream \ {s}) \cup {"stdin"}
<1>1. IsFiniteSet(Stream) /\ N \in Nat /\ "stdin" \notin Stream
  BY FS_CardinalityType, StreamAssumption
<1>2. IsFiniteSet(FD) /\ Cardinality(FD) = N + 1
  <2>1. IsFiniteSet(0 .. N) /\ Cardinality(0 .. N) = IF 0 > N THEN 0 ELSE N - 0 + 1
    BY <1>1, FS_Interval
  <2> QED
    BY <1>1, <2>1 DEF FD
<1>3. IsFiniteSet(Others) /\ Cardinality(Others) = N
  <2>1. IsFiniteSet(Stream \ {s}) /\ Cardinality(Stream \ {s}) = N - 1
    BY <1>1, FS_RemoveElement
  <2>2. "stdin" \notin Stream \ {s}
    BY <1>1
  <2>3. IsFiniteSet(Others) /\ Cardinality(Others) = Cardinality(Stream \ {s}) + 1
    BY <2>1, <2>2, FS_AddElement
  <2> QED
    BY <1>1, <2>1, <2>3
<1>4. SUFFICES ASSUME \A d \in FD : fds[d] # "free" PROVE FALSE
  OBVIOUS
<1>5. fds \in [FD -> Others]
  BY <1>4 DEF Descriptors
<1>6. PICK d, e \in FD : d # e /\ fds[d] = fds[e]
  <2>1. Cardinality(Others) < Cardinality(FD)
    BY <1>1, <1>2, <1>3
  <2> HIDE DEF Others
  <2> QED
    BY <1>2, <1>3, <1>5, <2>1, FS_PigeonHole
<1> QED
  BY <1>4, <1>6 DEF Descriptors

(* The least of them is opened. *)
LEMMA LowestFree ==
  ASSUME Descriptors, NEW s \in Stream, st[s].processed = 0
  PROVE  Lowest \in FD /\ fds[Lowest] = "free"
<1> DEFINE Free == {d \in FD : fds[d] = "free"}
           Below == {0 .. d : d \in Free}
           R == StrictSubsetOrdering(FD)
<1>1. FD \subseteq Nat /\ (\A d \in FD : 0 .. d \subseteq FD /\ d \in 0 .. d) /\ IsFiniteSet(FD)
  <2>1. PICK n \in Nat : FD = 0 .. n
    BY FS_CardinalityType, StreamAssumption DEF FD
  <2>2. IsFiniteSet(0 .. n)
    BY FS_Interval
  <2> QED
    BY <2>1, <2>2
<1>2. Below \subseteq FiniteSubsetsOf(FD) /\ Below # {}
  <2>1. Below \subseteq SUBSET FD
    BY <1>1
  <2>2. Below # {}
    BY FreeDescriptor
  <2> QED
    BY <1>1, <2>1, <2>2, FS_FiniteSubsetsOfFinite
<1>3. IsWellFoundedOn(R, FiniteSubsetsOf(FD))
  BY FS_StrictSubsetOrderingWellFounded
<1>4. PICK D \in Below : \A E \in Below : ~ (<<E, D>> \in R)
  <2> HIDE DEF Below, R
  <2> QED
    BY <1>2, <1>3, WFMin
<1>5. PICK d \in Free : D = 0 .. d
  BY <1>4
<1>6. \A e \in Free : d <= e
  <2> SUFFICES ASSUME NEW e \in Free, ~ (d <= e) PROVE FALSE
    OBVIOUS
  <2>1. d \in Nat /\ e \in Nat /\ d \notin 0 .. e /\ d \in 0 .. d
    BY <1>1
  <2>2. 0 .. e \subseteq 0 .. d /\ 0 .. e # 0 .. d
    BY <2>1
  <2>3. 0 .. e \in SUBSET FD /\ 0 .. d \in SUBSET FD
    BY <1>1
  <2>4. <<0 .. e, 0 .. d>> \in R
    BY <2>2, <2>3 DEF StrictSubsetOrdering
  <2> QED
    BY <1>4, <1>5, <2>4
<1> QED
  BY <1>6 DEF Lowest

-----------------------------------------------------------------------------
(* Requests for files.                                                     *)

(* A response that has begun: somebody is in charge, or it is complete. *)
InProgress(y) ==
  /\ y \in Context /\ y.stage = "open" /\ y.processed = 1 /\ y.read_shut
  /\ "read" \notin y.want /\ ~ y.resume_resp
  /\ y.left \in Lengths /\ ~ y.headers_lost
  /\ \/ ~ y.write_shut /\ "write" \in y.want
     \/ y.write_shut /\ "write" \notin y.want /\ y.left = 0 /\ y.headers_sent

(* Such a context is sane in the modes that serve files. *)
LEMMA InProgressSane ==
  ASSUME NEW o, NEW s, o.mode # "interop", NEW y, InProgress(y)
  PROVE  Sane(o, s, y)
  BY DEF InProgress, Sane, Fresh, SidesShut, Begun, InCharge, Complete, Answered

(* The descriptors of a context. *)
Handles(x, y) == y.reader = x.reader /\ y.file_fd = x.file_fd

(* process_request begins a response, and may write some or all of it. *)
LEMMA ProcessRequest ==
  ASSUME opt \in Configurations,
         NEW x \in Context, x.stage = "open", x.processed = 0, ~ x.write_shut,
         ~ x.resume_resp, ~ x.headers_lost, "write" \notin x.want,
         NEW n \in FileSizes, NEW y \in process_request(x, n)
  PROVE  InProgress(y) /\ Handles(x, y)
<1>1. n \in Lengths /\ n \in Nat /\ n \in Int /\ x.processed + 1 = 1 /\ x.processed + 1 \in Nat
  BY LengthsClosed, StreamAssumption
<1> DEFINE z == [x EXCEPT !.processed = x.processed + 1, !.left = n]
           r == ShutRead(z)
<1>2. /\ z \in Context /\ z.processed = 1 /\ z.left = n /\ z.stage = x.stage
      /\ z.want = x.want /\ z.write_shut = x.write_shut /\ z.resume_resp = x.resume_resp
      /\ ~ z.headers_lost /\ Handles(x, z)
  BY <1>1 DEF Context, Handles
<1> HIDE DEF z
<1>3. /\ r \in Context /\ Keeps(z, r) /\ r.stage = z.stage
      /\ r.read_shut /\ r.write_shut = z.write_shut /\ r.want = z.want \ {"read"}
  BY <1>2, ShutReadFields
<1> HIDE DEF r
<1>4. y = WantsWrite(r) => InProgress(y) /\ Handles(x, y)
  <2> SUFFICES ASSUME y = WantsWrite(r) PROVE InProgress(y) /\ Handles(x, y)
    OBVIOUS
  <2>1. /\ y \in Context /\ Keeps(r, y) /\ y.stage = r.stage
        /\ y.read_shut = r.read_shut /\ y.write_shut = r.write_shut
        /\ y.want = (IF r.write_shut THEN r.want ELSE r.want \cup {"write"})
    BY <1>3, WantsWriteFields
  <2> QED
    BY <1>1, <1>2, <1>3, <2>1 DEF InProgress, Handles, Keeps
<1>5. ASSUME NEW k \in 0..n, NEW c, c = [r EXCEPT !.headers_sent = TRUE, !.left = n - k],
             y = (IF k = n THEN Finished(c) ELSE WantsWrite(c))
      PROVE  InProgress(y) /\ Handles(x, y)
  <2>1. n - k \in 0..n /\ n - k \in Int /\ (k = n => n - k = 0)
    BY <1>1
  <2>2. n - k \in Lengths
    BY <1>1, <2>1, LengthsClosed
  <2>3. /\ c \in Context /\ c.headers_sent /\ c.left = n - k /\ c.stage = r.stage
        /\ c.want = r.want /\ c.read_shut = r.read_shut /\ c.write_shut = r.write_shut
        /\ c.processed = r.processed /\ c.resume_resp = r.resume_resp
        /\ c.headers_lost = r.headers_lost /\ Handles(r, c)
    BY <1>3, <1>5, <2>1 DEF Context, Handles
  <2>4. CASE k = n
    <3>0. y = Finished(c) /\ c \in Context
      BY <1>5, <2>3, <2>4
    <3>1. /\ y \in Context /\ Keeps(c, y) /\ y.stage = c.stage
          /\ y.read_shut = c.read_shut /\ y.write_shut
          /\ y.want = (c.want \ {"write"}) \cup (IF c.read_shut THEN {} ELSE {"read"})
      BY <3>0, FinishedFields
    <3> QED
      BY <1>2, <1>3, <2>1, <2>2, <2>3, <2>4, <3>1 DEF InProgress, Handles, Keeps
  <2>5. CASE k # n
    <3>0. y = WantsWrite(c) /\ c \in Context
      BY <1>5, <2>3, <2>5
    <3>1. /\ y \in Context /\ Keeps(c, y) /\ y.stage = c.stage
          /\ y.read_shut = c.read_shut /\ y.write_shut = c.write_shut
          /\ y.want = (IF c.write_shut THEN c.want ELSE c.want \cup {"write"})
      BY <3>0, WantsWriteFields
    <3> QED
      BY <1>2, <1>3, <2>2, <2>3, <3>1 DEF InProgress, Handles, Keeps
  <2> QED
    BY <2>4, <2>5
<1>6. \/ y = WantsWrite(r)
      \/ \E k \in 0..n :
           y = (IF k = n THEN Finished([r EXCEPT !.headers_sent = TRUE, !.left = n - k])
                         ELSE WantsWrite([r EXCEPT !.headers_sent = TRUE, !.left = n - k]))
  BY DEF process_request, r, z
<1> QED
  BY <1>4, <1>5, <1>6

(* A file is opened at the lowest descriptor, for the option -P by itself. *)
LEMMA OpenFileFields ==
  ASSUME NEW x \in Context, Lowest \in FD
  PROVE  LET y == OpenFile(x) IN
         /\ y \in Context /\ y.stage = x.stage /\ y.processed = x.processed
         /\ y.want = x.want /\ y.write_shut = x.write_shut
         /\ y.resume_resp = x.resume_resp /\ y.headers_lost = x.headers_lost
         /\ IF opt.pwritev > 0 THEN y.file_fd = Lowest /\ y.reader = x.reader
                               ELSE y.reader = Lowest /\ y.file_fd = x.file_fd
  BY DEF OpenFile, Context

(* The context of a stream that connects or is pushed. *)
NewContext(u, c, p) ==
  [Opened(lsquic_stream_ctx(u)) EXCEPT !.conn = c, !.path = p]

(* It is sane, and an idle one may become it. *)
LEMMA NewContextAdvances ==
  ASSUME Streams, NEW u \in Stream, st[u].stage = "idle", NEW c \in Stream,
         NEW p \in Paths \cup {NoPath, PushPath},
         opt.mode = "interop" /\ c # u => p \in Paths
  PROVE  Advances(u, NewContext(u, c, p)) /\ NewContext(u, c, p).processed = 0
<1> DEFINE x == st[u]
           y == NewContext(u, c, p)
<1>1. x = lsquic_stream_ctx(u)
  BY DEF Streams, Sane, Fresh
<1>2. /\ x.processed = 0 /\ ~ x.write_shut /\ x.reader = NoReader /\ x.file_fd = 0
      /\ x.stage = "idle"
  BY <1>1 DEF lsquic_stream_ctx
<1>3. NoReader \in FD \cup {NoReader} /\ 0 \in FD
  BY FS_CardinalityType, StreamAssumption DEF FD
<1>4. /\ y.stage = "open" /\ y.want = {"read"} /\ y.processed = 0 /\ y.left = 0
      /\ ~ y.read_shut /\ ~ y.write_shut /\ ~ y.resume_resp /\ ~ y.headers_sent
      /\ ~ y.headers_lost
      /\ y.reader = NoReader /\ y.file_fd = 0 /\ y.interop_handler = "none"
      /\ y.conn = c /\ y.path = p
  BY DEF NewContext, Opened, lsquic_stream_ctx
<1>5. y \in Context
  <2>1. x \in Context
    BY DEF Streams
  <2>2. y = [Opened(x) EXCEPT !.conn = c, !.path = p]
    BY <1>1 DEF NewContext
  <2> HIDE DEF x, y
  <2>3. Opened(x) \in Context
    BY <2>1 DEF Context, Opened
  <2> QED
    BY <2>2, <2>3 DEF Context
<1> HIDE DEF y, x
<1>6. Fresh(u, y) /\ SidesShut(y) /\ Begun(y) /\ InCharge(opt, y) /\ Complete(opt, y)
  BY <1>4, LengthsClosed DEF Fresh, SidesShut, Begun, InCharge, Complete
<1>7. Answered(opt, u, y)
  BY <1>4 DEF Answered
<1>8. Onward(opt, x, y) /\ Holds(opt, x, y)
  BY <1>2, <1>4 DEF Onward, Holds
<1> QED
  BY <1>4, <1>5, <1>6, <1>7, <1>8 DEF Advances, Proceeds, Sane, x, y

(* Whatever is promised, each stream stays or is new. *)
LEMMA PromisesAdvance ==
  ASSUME Streams, NEW s \in Stream,
         NEW paths, \A i \in DOMAIN paths : paths[i] \in Paths \cup {NoPath, PushPath},
         opt.mode = "interop" => \A i \in DOMAIN paths : paths[i] \in Paths,
         NEW f \in Promises(paths), NEW u \in Stream
  PROVE  /\ Promised(s, paths, f)[u] \in Context
         /\ \/ Promised(s, paths, f)[u] = st[u]
            \/ /\ Advances(u, Promised(s, paths, f)[u])
               /\ Promised(s, paths, f)[u].processed = 0
<1>1. PICK D \in SUBSET (DOMAIN paths) :
        f \in [D -> {v \in Stream : st[v].stage = "idle"}]
  BY DEF Promises
<1>2. CASE \E i \in DOMAIN f : f[i] = u
  <2> DEFINE i == CHOOSE j \in DOMAIN f : f[j] = u
  <2>1. i \in DOMAIN f /\ f[i] = u
    BY <1>2
  <2>2. Promised(s, paths, f)[u] = NewContext(u, st[s].conn, paths[i])
    BY <1>2 DEF Promised, NewContext
  <2>3. i \in DOMAIN paths /\ st[u].stage = "idle"
    BY <1>1, <2>1
  <2> HIDE DEF i
  <2>4. st[s].conn \in Stream
    BY DEF Streams, Context
  <2>5. /\ Advances(u, NewContext(u, st[s].conn, paths[i]))
        /\ NewContext(u, st[s].conn, paths[i]).processed = 0
    BY <2>3, <2>4, NewContextAdvances
  <2> QED
    BY <2>2, <2>5 DEF Advances, Proceeds, Sane
<1>3. CASE ~ \E i \in DOMAIN f : f[i] = u
  BY <1>3 DEF Promised, Streams
<1> QED
  BY <1>2, <1>3

(* What a request for a file does: it opens the file, and its response     *)
(* begins; the other streams stay, or are new.                             *)
Serves(s) ==
  /\ server = "up" /\ UNCHANGED <<server, opt, goaway>>
  /\ opt.mode # "interop" /\ st[s].stage = "open" /\ st[s].processed = 0
  /\ fds' = [fds EXCEPT ![Lowest] = s]
  /\ st' \in [Stream -> Context]
  /\ Proceeds(s, st'[s]) /\ st'[s].processed = 1 /\ st'[s].stage = "open"
  /\ IF opt.mode = "file" /\ opt.pwritev > 0
       THEN st'[s].file_fd = Lowest /\ st'[s].reader = st[s].reader
       ELSE st'[s].reader = Lowest /\ st'[s].file_fd = st[s].file_fd
  /\ \A u \in Stream \ {s} :
       st'[u] = st[u] \/ (Advances(u, st'[u]) /\ st'[u].processed = 0)

(* A stream that wants to read may be closed. *)
LEMMA ReadingMayClose ==
  ASSUME Streams, NEW s \in Stream, Callback(s, "read")
  PROVE  Advances(s, Closed(st[s]))
<1> DEFINE x == st[s]
<1>1. Sane(opt, s, x) /\ x.stage = "open" /\ (x.resume_resp => opt.leave)
  BY Reading DEF Streams, Callback
<1> QED
  BY <1>1, ClosedSane DEF Advances, Proceeds, Onward, Holds, Keeps

(* A response in progress goes on from the request. *)
LEMMA InProgressProceeds ==
  ASSUME Streams, NEW s \in Stream, opt.mode # "interop", Callback(s, "read"),
         NEW y, InProgress(y)
  PROVE  Proceeds(s, y) /\ y.processed = 1 /\ y.stage = "open"
<1>1. Sane(opt, s, st[s]) /\ st[s].stage = "open"
  BY DEF Streams, Callback
<1>2. st[s].processed = 0 /\ ~ st[s].write_shut
  BY <1>1, Reading DEF Callback
<1>3. Onward(opt, st[s], y)
  BY <1>1, <1>2 DEF Onward, InProgress
<1> QED
  BY <1>2, <1>3, InProgressSane DEF Proceeds, InProgress

(* A request of the file mode, with or without a push. *)
LEMMA RequestServes ==
  ASSUME Streams, Descriptors, NEW s \in Stream, opt.mode = "file", Callback(s, "read"),
         NEW n \in FileSizes, NEW y \in process_request(OpenFile(st[s]), n)
  PROVE  /\ Proceeds(s, y) /\ y.processed = 1 /\ y.stage = "open" /\ y \in Context
         /\ IF opt.pwritev > 0 THEN y.file_fd = Lowest /\ y.reader = st[s].reader
                               ELSE y.reader = Lowest /\ y.file_fd = st[s].file_fd
<1> DEFINE x == st[s]
           z == OpenFile(x)
<1>1. Sane(opt, s, x) /\ x \in Context /\ x.stage = "open" /\ "read" \in x.want
  BY DEF Streams, Callback
<1>2. /\ x.processed = 0 /\ ~ x.write_shut /\ ~ x.resume_resp /\ ~ x.headers_lost
      /\ "write" \notin x.want
  BY <1>1, Reading
<1>3. Lowest \in FD
  BY <1>2, LowestFree
<1>4. /\ z \in Context /\ z.stage = x.stage /\ z.processed = x.processed
      /\ z.want = x.want /\ z.write_shut = x.write_shut
      /\ z.resume_resp = x.resume_resp /\ z.headers_lost = x.headers_lost
      /\ IF opt.pwritev > 0 THEN z.file_fd = Lowest /\ z.reader = x.reader
                            ELSE z.reader = Lowest /\ z.file_fd = x.file_fd
  BY <1>1, <1>3, OpenFileFields
<1>5. y \in process_request(z, n)
  OBVIOUS
<1> HIDE DEF z
<1>6. InProgress(y) /\ Handles(z, y)
  <2>1. z.stage = "open" /\ z.processed = 0 /\ ~ z.write_shut /\ ~ z.resume_resp
        /\ ~ z.headers_lost
        /\ "write" \notin z.want /\ z \in Context /\ opt \in Configurations
    BY <1>1, <1>2, <1>4 DEF Streams
  <2> QED
    BY <1>5, <2>1, ProcessRequest
<1>7. Proceeds(s, y) /\ y.processed = 1 /\ y.stage = "open"
  BY <1>6, InProgressProceeds
<1> QED
  BY <1>4, <1>6, <1>7 DEF Handles, InProgress

(* The read callback of the file mode. *)
LEMMA FileReadSteps ==
  ASSUME Streams, Descriptors, NEW s \in Stream, http_server_on_read(s)
  PROVE  Serves(s) \/ Moves(s)
<1>1. /\ opt.mode = "file" /\ Callback(s, "read") /\ st[s].stage = "open" /\ server = "up"
      /\ st \in [Stream -> Context] /\ st[s].processed = 0
  BY Reading DEF http_server_on_read, Callback, Streams
<1>2. CASE Become(s, Closed(st[s]))
  BY <1>1, <1>2, ReadingMayClose DEF Moves
<1>3. CASE End("dead")
  BY <1>3 DEF Moves
<1>4. CASE \E n \in FileSizes :
             /\ \E x \in process_request(OpenFile(st[s]), n) : st' = [st EXCEPT ![s] = x]
             /\ fds' = [fds EXCEPT ![Lowest] = s]
             /\ UNCHANGED <<server, opt, goaway>>
  <2>0. PICK n \in FileSizes :
          \E x \in process_request(OpenFile(st[s]), n) : st' = [st EXCEPT ![s] = x]
    BY <1>4
  <2>1. PICK x \in process_request(OpenFile(st[s]), n) : st' = [st EXCEPT ![s] = x]
    BY <2>0
  <2>2. /\ Proceeds(s, x) /\ x.processed = 1 /\ x.stage = "open" /\ x \in Context
        /\ IF opt.pwritev > 0 THEN x.file_fd = Lowest /\ x.reader = st[s].reader
                              ELSE x.reader = Lowest /\ x.file_fd = st[s].file_fd
    BY <1>1, RequestServes
  <2>3. st'[s] = x /\ st' \in [Stream -> Context] /\ \A u \in Stream \ {s} : st'[u] = st[u]
    BY <1>1, <2>1, <2>2
  <2> QED
    BY <1>1, <1>4, <2>2, <2>3 DEF Serves
<1>5. CASE \E n \in FileSizes, f \in Promises(IF opt.push THEN <<PushPath>> ELSE <<>>) :
             /\ \E x \in process_request(OpenFile(st[s]), n) :
                  st' = [Promised(s, IF opt.push THEN <<PushPath>> ELSE <<>>, f)
                           EXCEPT ![s] = x]
             /\ fds' = [fds EXCEPT ![Lowest] = s]
             /\ UNCHANGED <<server, opt, goaway>>
  <2> DEFINE pushes == IF opt.push THEN <<PushPath>> ELSE <<>>
  <2>0. PICK n \in FileSizes, f \in Promises(pushes) :
          \E x \in process_request(OpenFile(st[s]), n) :
            st' = [Promised(s, pushes, f) EXCEPT ![s] = x]
    BY <1>5
  <2>1. PICK x \in process_request(OpenFile(st[s]), n) :
          st' = [Promised(s, pushes, f) EXCEPT ![s] = x]
    BY <2>0
  <2>2. /\ Proceeds(s, x) /\ x.processed = 1 /\ x.stage = "open" /\ x \in Context
        /\ IF opt.pwritev > 0 THEN x.file_fd = Lowest /\ x.reader = st[s].reader
                              ELSE x.reader = Lowest /\ x.file_fd = st[s].file_fd
    BY <1>1, RequestServes
  <2>3. /\ \A i \in DOMAIN pushes : pushes[i] \in Paths \cup {NoPath, PushPath}
        /\ opt.mode = "interop" => \A i \in DOMAIN pushes : pushes[i] \in Paths
    BY <1>1
  <2> HIDE DEF pushes
  <2>4. \A u \in Stream : /\ Promised(s, pushes, f)[u] \in Context
                          /\ \/ Promised(s, pushes, f)[u] = st[u]
                             \/ /\ Advances(u, Promised(s, pushes, f)[u])
                                /\ Promised(s, pushes, f)[u].processed = 0
    BY <2>3, PromisesAdvance
  <2>5. DOMAIN Promised(s, pushes, f) = Stream
    BY DEF Promised
  <2>6. /\ st'[s] = x /\ DOMAIN st' = Stream
        /\ st' = [u \in Stream |-> IF u = s THEN x ELSE Promised(s, pushes, f)[u]]
    BY <2>1, <2>5
  <2>7. st' \in [Stream -> Context]
    BY <2>2, <2>4, <2>6
  <2>8. \A u \in Stream \ {s} :
          st'[u] = st[u] \/ (Advances(u, st'[u]) /\ st'[u].processed = 0)
    BY <2>4, <2>6
  <2> QED
    BY <1>1, <1>5, <2>2, <2>6, <2>7, <2>8 DEF Serves
<1> QED
  BY <1>2, <1>3, <1>4, <1>5
  DEF http_server_on_read, http_server_on_read_pushed, http_server_on_read_regular

(* The read callback of the hq mode. *)
LEMMA HqReadSteps ==
  ASSUME Streams, Descriptors, NEW s \in Stream, hq_server_on_read(s)
  PROVE  Serves(s) \/ Moves(s)
<1> DEFINE x == st[s]
<1>1. /\ opt.mode = "hq" /\ Callback(s, "read") /\ x.stage = "open" /\ server = "up"
      /\ st \in [Stream -> Context] /\ x \in Context
      /\ Sane(opt, s, x) /\ "read" \in x.want
  BY DEF hq_server_on_read, Callback, Streams
<1>2. /\ x.processed = 0 /\ ~ x.write_shut /\ ~ x.resume_resp /\ ~ x.headers_lost
      /\ "write" \notin x.want
  BY <1>1, Reading
<1>3. CASE Become(s, Closed(x))
  BY <1>1, <1>3, ReadingMayClose DEF Moves
<1>4. CASE ~ Become(s, Closed(x))
  <2>1. PICK n \in FileSizes :
          /\ st' = [st EXCEPT ![s] = WantsWrite(ShutRead(
                       [x EXCEPT !.reader = Lowest, !.left = n, !.processed = @ + 1]))]
          /\ fds' = [fds EXCEPT ![Lowest] = s]
          /\ UNCHANGED <<server, opt, goaway>>
    BY <1>4 DEF hq_server_on_read
  <2>2. n \in Lengths /\ n \in Int /\ Lowest \in FD
    BY <1>2, LowestFree, LengthsClosed, StreamAssumption
  <2> DEFINE z == [x EXCEPT !.reader = Lowest, !.left = n, !.processed = @ + 1]
             r == ShutRead(z)
             y == WantsWrite(r)
  <2>3. /\ z \in Context /\ z.stage = "open" /\ z.processed = 1 /\ z.left = n
        /\ z.want = x.want /\ ~ z.write_shut /\ ~ z.resume_resp /\ ~ z.headers_lost
        /\ z.reader = Lowest /\ z.file_fd = x.file_fd
    <3>1. /\ x \in Context /\ x.processed + 1 = 1 /\ x.stage = "open"
          /\ ~ x.write_shut /\ ~ x.resume_resp /\ ~ x.headers_lost
      BY <1>1, <1>2
    <3> HIDE DEF x
    <3>2. /\ z.processed = 1 /\ z.left = n /\ z.reader = Lowest /\ z.file_fd = x.file_fd
          /\ z.want = x.want /\ ~ z.write_shut /\ ~ z.resume_resp /\ ~ z.headers_lost
          /\ z.stage = "open"
      BY <3>1 DEF Context
    <3>3. z \in Context
      <4>1. z = [x EXCEPT !.reader = Lowest, !.left = n, !.processed = 1]
        BY <3>1
      <4>2. 1 \in Nat /\ Lowest \in FD \cup {NoReader}
        BY <2>2
      <4> HIDE DEF z
      <4> QED
        BY <3>1, <2>2, <4>1, <4>2 DEF Context
    <3> QED
      BY <3>2, <3>3
  <2> HIDE DEF z
  <2>4. /\ r \in Context /\ Keeps(z, r) /\ r.stage = z.stage
        /\ r.read_shut /\ r.write_shut = z.write_shut /\ r.want = z.want \ {"read"}
    BY <2>3, ShutReadFields
  <2> HIDE DEF r
  <2>5. /\ y \in Context /\ Keeps(r, y) /\ y.stage = r.stage
        /\ y.read_shut = r.read_shut /\ y.write_shut = r.write_shut
        /\ y.want = (IF r.write_shut THEN r.want ELSE r.want \cup {"write"})
    BY <2>4, WantsWriteFields
  <2>6. st' = [st EXCEPT ![s] = y]
    BY <2>1 DEF r, z
  <2> HIDE DEF y
  <2>7. /\ InProgress(y)
        /\ y.reader = Lowest /\ y.file_fd = x.file_fd
    BY <2>2, <2>3, <2>4, <2>5 DEF InProgress, Keeps
  <2>8. Proceeds(s, y) /\ y.processed = 1 /\ y.stage = "open"
    BY <1>1, <2>7, InProgressProceeds
  <2>9. st'[s] = y /\ st' \in [Stream -> Context] /\ \A u \in Stream \ {s} : st'[u] = st[u]
    BY <1>1, <2>5, <2>6
  <2> QED
    BY <1>1, <1>2, <2>1, <2>7, <2>8, <2>9 DEF Serves
<1> QED
  BY <1>3, <1>4

-----------------------------------------------------------------------------
(* Requests of the interop mode.                                           *)

(* Two contexts that differ in the request only. *)
SameStream(x, w) ==
  /\ w.stage = x.stage /\ w.want = x.want /\ w.read_shut = x.read_shut
  /\ w.write_shut = x.write_shut /\ w.headers_sent = x.headers_sent
  /\ w.headers_lost = x.headers_lost
  /\ w.resume_resp = x.resume_resp /\ w.conn = x.conn /\ w.path = x.path
  /\ w.processed = x.processed /\ w.reader = x.reader /\ w.file_fd = x.file_fd

(* A stream that reads may go on reading with what it knows. *)
LEMMA KnownAdvances ==
  ASSUME Streams, NEW s \in Stream, opt.mode = "interop", Callback(s, "read"),
         NEW w \in Context, SameStream(st[s], w), w.left \in Lengths,
         w.interop_handler \in {"none", "MD5SUM", "VER_HEAD"},
         w.interop_handler = "VER_HEAD" => w.left > 0 \/ w.conn # s
  PROVE  Advances(s, w)
<1> DEFINE x == st[s]
<1>1. Sane(opt, s, x) /\ x \in Context /\ x.stage = "open" /\ "read" \in x.want
  BY DEF Streams, Callback
<1>2. /\ x.processed = 0 /\ ~ x.read_shut /\ ~ x.write_shut /\ ~ x.resume_resp
      /\ ~ x.headers_sent /\ ~ x.headers_lost /\ "write" \notin x.want
  BY <1>1, Reading
<1>3. w.conn # s => w.path \in Paths
  BY <1>1 DEF Sane, Answered, SameStream
<1>4. Fresh(s, w) /\ SidesShut(w) /\ Begun(w) /\ InCharge(opt, w) /\ Complete(opt, w)
  BY <1>1, <1>2 DEF SameStream, Fresh, SidesShut, Begun, InCharge, Complete
<1>5. Answered(opt, s, w)
  BY <1>1, <1>2, <1>3 DEF SameStream, Answered
<1>6. Onward(opt, x, w) /\ Holds(opt, x, w)
  BY <1>1, <1>2 DEF SameStream, Onward, Holds
<1> QED
  BY <1>4, <1>5, <1>6 DEF Advances, Proceeds, Sane

(* A response is ready that has a handler and something to send. *)
LEMMA ReadyAdvances ==
  ASSUME Streams, NEW s \in Stream, opt.mode = "interop", Callback(s, "read"),
         NEW w \in Context, SameStream(st[s], w), NEW n \in Lengths,
         w.interop_handler # "none",
         w.interop_handler = "VER_HEAD" => n > 0 \/ w.conn # s,
         w.interop_handler \in {"ERROR", "INDEX_HTML", "MD5SUM"} => n > 0
  PROVE  Advances(s, Ready(w, n))
<1> DEFINE x == st[s]
           z == [w EXCEPT !.left = n, !.processed = @ + 1]
           r == ShutRead(z)
           y == WantsWrite(r)
<1>1. Sane(opt, s, x) /\ x \in Context /\ x.stage = "open" /\ "read" \in x.want
  BY DEF Streams, Callback
<1>2. /\ x.processed = 0 /\ ~ x.read_shut /\ ~ x.write_shut /\ ~ x.resume_resp
      /\ ~ x.headers_sent /\ ~ x.headers_lost /\ "write" \notin x.want
  BY <1>1, Reading
<1>3. w.conn # s => w.path \in Paths
  BY <1>1 DEF Sane, Answered, SameStream
<1>4. w.processed + 1 = 1 /\ n \in Int /\ 1 \in Nat
  BY <1>2, LengthsClosed DEF SameStream
<1>5. /\ z \in Context /\ z.left = n /\ z.processed = 1
      /\ z.stage = w.stage /\ z.want = w.want /\ z.read_shut = w.read_shut
      /\ z.write_shut = w.write_shut /\ z.headers_sent = w.headers_sent
      /\ z.headers_lost = w.headers_lost
      /\ z.resume_resp = w.resume_resp /\ z.conn = w.conn /\ z.path = w.path
      /\ z.reader = w.reader /\ z.file_fd = w.file_fd
      /\ z.interop_handler = w.interop_handler
  <2>1. z = [w EXCEPT !.left = n, !.processed = 1]
    BY <1>4
  <2> HIDE DEF z
  <2> QED
    BY <1>4, <2>1 DEF Context
<1> HIDE DEF z
<1>6. /\ r \in Context /\ Keeps(z, r) /\ r.stage = z.stage
      /\ r.read_shut /\ r.write_shut = z.write_shut /\ r.want = z.want \ {"read"}
  BY <1>5, ShutReadFields
<1> HIDE DEF r
<1>7. /\ y \in Context /\ Keeps(r, y) /\ y.stage = r.stage
      /\ y.read_shut = r.read_shut /\ y.write_shut = r.write_shut
      /\ y.want = (IF r.write_shut THEN r.want ELSE r.want \cup {"write"})
  BY <1>6, WantsWriteFields
<1>8. y = Ready(w, n)
  BY DEF Ready, r, z
<1> HIDE DEF y
<1>9. /\ y.stage = "open" /\ y.processed = 1 /\ y.left = n /\ y.read_shut
      /\ ~ y.write_shut /\ ~ y.resume_resp /\ ~ y.headers_sent
      /\ ~ y.headers_lost
      /\ "read" \notin y.want /\ "write" \in y.want
      /\ y.conn = w.conn /\ y.path = w.path /\ y.reader = x.reader /\ y.file_fd = x.file_fd
      /\ y.interop_handler = w.interop_handler
  BY <1>1, <1>2, <1>5, <1>6, <1>7 DEF SameStream, Keeps
<1>10. Fresh(s, y) /\ SidesShut(y) /\ Begun(y) /\ InCharge(opt, y) /\ Complete(opt, y)
  BY <1>9 DEF Fresh, SidesShut, Begun, InCharge, Complete
<1>11. Answered(opt, s, y)
  BY <1>3, <1>9 DEF Answered
<1>12. Onward(opt, x, y) /\ Holds(opt, x, y)
  BY <1>1, <1>2, <1>9 DEF Onward, Holds
<1> QED
  BY <1>7, <1>8, <1>10, <1>11, <1>12 DEF Advances, Proceeds, Sane

(* Errors have their page. *)
LEMMA ErrorAdvances ==
  ASSUME Streams, NEW s \in Stream, opt.mode = "interop", Callback(s, "read"),
         NEW c \in {"400", "404", "406", "500", "501"}
  PROVE  Advances(s, ERROR_RESP(st[s], c))
<1> DEFINE w == [st[s] EXCEPT !.interop_handler = "ERROR", !.resp_status = c]
<1>1. st[s] \in Context
  BY DEF Streams
<1>2. /\ w \in Context /\ SameStream(st[s], w)
      /\ w.interop_handler = "ERROR"
  BY <1>1 DEF Context, SameStream
<1>3. RespSize \in Lengths /\ RespSize > 0
  BY LengthsClosed, InteropAssumption
<1>4. ERROR_RESP(st[s], c) = Ready(w, RespSize)
  BY DEF ERROR_RESP
<1> HIDE DEF w
<1>5. Advances(s, Ready(w, RespSize))
  BY <1>2, <1>3, ReadyAdvances
<1> QED
  BY <1>4, <1>5

(* A request that was accepted, or pushed. *)
IsRequest(s, r) ==
  /\ r.path \in Paths
  /\ r.qif_sz \in 0 .. DecodeBuf /\ (r.qif_sz > 0 \/ st[s].conn # s)

(* Its headers are understood or answered by an error. *)
LEMMA HandledAdvances ==
  ASSUME Streams, NEW s \in Stream, opt.mode = "interop", Callback(s, "read"),
         NEW r, IsRequest(s, r)
  PROVE  Advances(s, Handled(st[s], r))
<1> DEFINE x == st[s]
           h == find_handler(r.path)
           y == [x EXCEPT !.interop_handler = h]
           v == [x EXCEPT !.interop_handler = h, !.need = r.qif_sz, !.left = r.qif_sz]
           g == [x EXCEPT !.interop_handler = h, !.push_paths = r.path.push]
<1>1. /\ x \in Context /\ Sane(opt, s, x) /\ x.stage = "open" /\ "read" \in x.want
      /\ x.left \in Lengths
  BY DEF Streams, Callback, Sane, Complete
<1>2. h \in {"INDEX_HTML", "MD5SUM", "VER_HEAD", "GEN_FILE", "none"}
  BY DEF find_handler
<1>3. RespSize \in Lengths /\ RespSize > 0 /\ 0 .. DecodeBuf \subseteq Lengths
  BY LengthsClosed, InteropAssumption
<1>4. r.path # NoPath /\ r.path.push \in Seq(Paths) /\ r.qif_sz \in Nat /\ r.qif_sz \in Int
  BY InteropAssumption DEF IsRequest
<1>5. GenSize(r.path) \in Lengths
  <2>1. Asked(r.path) \in Nat /\ Word \in Nat /\ Word > 0
    BY InteropAssumption DEF IsRequest
  <2>2. GenSize(r.path) \in 0 .. Word
    BY <2>1 DEF GenSize
  <2> QED
    BY <2>2, LengthsClosed
<1>a. Status(r) = "200" => h # "none"
  BY DEF Status
<1>6. CASE Status(r) # "200"
  <2>1. Status(r) \in {"400", "404", "406", "500", "501"}
    BY <1>6 DEF Status
  <2>2. Handled(x, r) = ERROR_RESP(x, Status(r))
    BY <1>6 DEF Handled
  <2> QED
    BY <2>1, <2>2, ErrorAdvances
<1>7. CASE Status(r) = "200" /\ h = "INDEX_HTML"
  <2>1. /\ y \in Context /\ SameStream(x, y) /\ y.interop_handler = "INDEX_HTML"
    <3> HIDE DEF x, h
    <3> QED
      BY <1>1, <1>7 DEF Context, SameStream
  <2>2. Handled(x, r) = Ready(y, RespSize)
    BY <1>7 DEF Handled
  <2> HIDE DEF y
  <2> QED
    BY <1>1, <1>3, <2>1, <2>2, ReadyAdvances
<1>8. CASE Status(r) = "200" /\ h = "MD5SUM"
  <2>1. /\ y \in Context /\ SameStream(x, y) /\ y.interop_handler = "MD5SUM"
        /\ y.left = x.left
    <3> HIDE DEF x, h
    <3> QED
      BY <1>1, <1>8 DEF Context, SameStream
  <2>2. Handled(x, r) = y
    BY <1>8 DEF Handled
  <2> HIDE DEF y
  <2> QED
    BY <1>1, <2>1, <2>2, KnownAdvances
<1>9. CASE Status(r) = "200" /\ h = "VER_HEAD"
  <2>1. /\ v \in Context /\ SameStream(x, v) /\ v.interop_handler = "VER_HEAD"
        /\ v.left = r.qif_sz
    <3> HIDE DEF x, h
    <3>1. v \in Context
      BY <1>1, <1>4, <1>9 DEF Context
    <3> QED
      BY <1>1, <1>9, <3>1 DEF Context, SameStream
  <2>2. Handled(x, r) = v
    <3>1. Handled(x, r) = [y EXCEPT !.need = r.qif_sz, !.left = r.qif_sz]
      BY <1>9 DEF Handled
    <3> HIDE DEF x, h
    <3> QED
      BY <1>1, <3>1 DEF Context
  <2> HIDE DEF v
  <2>3. v.left \in Lengths /\ (v.left > 0 \/ v.conn # s)
    BY <1>3, <2>1 DEF IsRequest, SameStream
  <2> QED
    BY <1>1, <2>1, <2>2, <2>3, KnownAdvances
<1>10. CASE Status(r) = "200" /\ h = "GEN_FILE"
  <2>1. /\ g \in Context /\ SameStream(x, g) /\ g.interop_handler = "GEN_FILE"
    <3> HIDE DEF x, h
    <3> QED
      BY <1>1, <1>4, <1>10 DEF Context, SameStream
  <2>2. Handled(x, r) = Ready(g, GenSize(r.path))
    <3>1. Handled(x, r) = Ready([y EXCEPT !.push_paths = r.path.push], GenSize(r.path))
      BY <1>10 DEF Handled
    <3>2. [y EXCEPT !.push_paths = r.path.push] = g
      <4> HIDE DEF x, h
      <4> QED
        BY <1>1 DEF Context
    <3> QED
      BY <3>1, <3>2
  <2> HIDE DEF g
  <2>3. Advances(s, Ready(g, GenSize(r.path)))
    BY <1>1, <1>5, <2>1, ReadyAdvances
  <2> QED
    BY <2>2, <2>3
<1> QED
  BY <1>2, <1>a, <1>6, <1>7, <1>8, <1>9, <1>10

(* Header sets that are accepted are complete, and pushed paths are known. *)
LEMMA ReadHeadersMoves ==
  ASSUME Streams, NEW s \in Stream, opt.mode = "interop", Callback(s, "read"),
         ReadHeaders(s)
  PROVE  Moves(s)
<1> DEFINE x == st[s]
<1>1. CASE \E h \in Requests : hset_accepts(h) /\ Become(s, Handled(x, req(h)))
  <2>1. PICK h \in Requests : hset_accepts(h) /\ Become(s, Handled(x, req(h)))
    BY <1>1
  <2>2. /\ h.method \in Seq({"GET", "POST", "UNSUPPORTED"}) /\ h.path \in Seq(Paths)
        /\ h.authority \in Nat /\ h.other \in Nat
    BY InteropAssumption
  <2>3. /\ Len(h.method) = 1 /\ Len(h.path) = 1 /\ h.authority > 0
        /\ Len(h.method) + Len(h.path) + h.authority + h.other <= DecodeBuf
    BY <2>1 DEF hset_accepts
  <2>4. /\ h.method # <<>> /\ Head(h.method) \in {"GET", "POST", "UNSUPPORTED"}
        /\ h.path # <<>> /\ Head(h.path) \in Paths
    BY <2>2, <2>3
  <2> DEFINE r == req(h)
  <2>5. /\ r.method = Head(h.method) /\ r.path = Head(h.path)
        /\ r.qif_sz = Len(h.method) + Len(h.path) + h.authority + h.other
    BY <2>4 DEF req
  <2>6. r.qif_sz \in 0 .. DecodeBuf /\ r.qif_sz > 0
    BY <2>2, <2>3, <2>5, InteropAssumption
  <2> HIDE DEF r
  <2>7. IsRequest(s, r)
    BY <2>4, <2>5, <2>6 DEF IsRequest
  <2>8. Advances(s, Handled(x, r))
    BY <2>7, HandledAdvances
  <2> QED
    BY <2>1, <2>8 DEF Moves, r
<1>2. CASE lsquic_stream_is_pushed(s) /\ Become(s, Handled(x, new_req(x.path)))
  <2> DEFINE r == new_req(x.path)
  <2>1. Sane(opt, s, x) /\ x.conn # s
    BY <1>2 DEF Streams, lsquic_stream_is_pushed
  <2>2. r.method = "GET" /\ r.path = x.path /\ r.qif_sz = 0 /\ 0 \in 0 .. DecodeBuf
    BY InteropAssumption DEF new_req
  <2> HIDE DEF r
  <2>3. IsRequest(s, r)
    BY <2>1, <2>2 DEF IsRequest, Sane, Answered
  <2>4. Advances(s, Handled(x, r))
    BY <2>3, HandledAdvances
  <2> QED
    BY <1>2, <2>4 DEF Moves, r
<1>3. CASE Become(s, ERROR_RESP(x, "500"))
  <2>1. Advances(s, ERROR_RESP(x, "500"))
    BY ErrorAdvances
  <2> QED
    BY <1>3, <2>1 DEF Moves
<1> QED
  BY <1>1, <1>2, <1>3 DEF ReadHeaders

(* The body is read by a handler that waits for it: no assertion fails.    *)
LEMMA ReadBodyMoves ==
  ASSUME Streams, NEW s \in Stream, opt.mode = "interop", Callback(s, "read"),
         st[s].interop_handler # "none", ReadBody(s)
  PROVE  Moves(s)
<1> DEFINE x == st[s]
<1>1. /\ Sane(opt, s, x) /\ x \in Context /\ x.stage = "open" /\ "read" \in x.want
      /\ x.left \in Lengths
  BY DEF Streams, Callback, Sane, Complete
<1>2. x.processed = 0 /\ ~ x.headers_sent
  BY <1>1, Reading
<1>3. /\ x.interop_handler \in {"MD5SUM", "VER_HEAD"}
      /\ x.interop_handler = "VER_HEAD" => x.left > 0 \/ x.conn # s
  BY <1>1, <1>2 DEF Sane, Answered
<1>4. SameStream(x, x)
  BY DEF SameStream
<1>5. CASE x.interop_handler = "MD5SUM"
  <2>1. RespSize \in Lengths /\ RespSize > 0
    BY LengthsClosed, InteropAssumption
  <2>2. Advances(s, Ready(x, RespSize))
    BY <1>1, <1>4, <1>5, <2>1, ReadyAdvances
  <2>3. Become(s, Ready(x, RespSize)) \/ End("dead")
    BY <1>2, <1>5 DEF ReadBody
  <2> QED
    BY <2>2, <2>3 DEF Moves
<1>6. CASE x.interop_handler = "VER_HEAD"
  <2>1. Advances(s, Ready(x, x.left))
    BY <1>1, <1>3, <1>4, <1>6, ReadyAdvances
  <2> DEFINE y == [x EXCEPT !.need = 0]
  <2>2. /\ y \in Context /\ SameStream(x, y) /\ y.interop_handler = "VER_HEAD"
        /\ y.left = x.left /\ y.conn = x.conn
    BY <1>1, <1>6 DEF Context, SameStream
  <2> HIDE DEF y
  <2>3. Advances(s, y)
    BY <1>1, <1>3, <1>6, <2>2, KnownAdvances
  <2>4. Become(s, Ready(x, x.left)) \/ Become(s, y) \/ End("dead")
    BY <1>6 DEF ReadBody, y
  <2> QED
    BY <2>1, <2>3, <2>4 DEF Moves
<1> QED
  BY <1>3, <1>5, <1>6

(* The callbacks of the interop mode that read. *)
LEMMA InteropReadMoves ==
  ASSUME Streams, NEW s \in Stream, http_server_interop_on_read(s) \/ hset_rejected(s)
  PROVE  Moves(s)
<1>1. opt.mode = "interop" /\ Callback(s, "read")
  BY DEF http_server_interop_on_read, hset_rejected
<1>2. CASE http_server_interop_on_read(s)
  BY <1>1, <1>2, ReadHeadersMoves, ReadBodyMoves DEF http_server_interop_on_read
<1>3. CASE hset_rejected(s)
  BY <1>1, <1>3, ReadingMayClose DEF hset_rejected, Moves
<1> QED
  BY <1>2, <1>3

-----------------------------------------------------------------------------
(* Writing in the interop mode, and the other steps.                       *)

(* One response at a time goes on, or several streams are closed.          *)
OneByOne ==
  \/ \E s \in Stream : \A u \in Stream \ {s} : st'[u] = st[u] \/ st'[u].processed = 0
  \/ \A u \in Stream : st'[u] = st[u] \/ st'[u].stage = "closing"

(* Streams of a running process advance. *)
Drifts ==
  /\ server = "up" /\ UNCHANGED <<server, opt, fds>>
  /\ goaway' \in [Stream -> BOOLEAN]
  /\ st' \in [Stream -> Context]
  /\ \A u \in Stream : st'[u] = st[u] \/ Advances(u, st'[u])
  /\ OneByOne

(* The one assertion that may fail. *)
Asserts ==
  /\ End("asserted")
  /\ \E s \in Stream : lsquic_stream_is_pushed(s) /\ st[s].interop_handler = "VER_HEAD"

(* What was written is taken off, and the last of it ends the response. *)
LEMMA WrittenAdvances ==
  ASSUME Streams, NEW s \in Stream, opt.mode = "interop", Callback(s, "write"),
         st[s].headers_sent, NEW k \in Nat, k <= st[s].left
  PROVE  Advances(s, Written(st[s], k))
<1> DEFINE x == st[s]
           y == [x EXCEPT !.left = @ - k]
           z == ShutWrite(y)
<1>1. /\ Sane(opt, s, x) /\ x \in Context /\ x.stage = "open" /\ "write" \in x.want
      /\ x.left \in Lengths /\ x.left \in Nat
  BY LengthsClosed DEF Streams, Callback, Sane, Complete
<1>2. x.processed = 1 /\ ~ x.write_shut /\ ~ x.resume_resp
  BY <1>1, Writing
<1>3. x.left - k \in Lengths /\ x.left - k \in Int /\ x.left - k <= x.left
  <2>1. x.left - k \in 0 .. x.left
    BY <1>1
  <2> QED
    BY <1>1, <2>1, LengthsClosed
<1>4. y \in Context /\ Alike(x, y) /\ y.left = x.left - k
  BY <1>1, <1>3 DEF Context, Alike
<1> HIDE DEF y
<1>5. Sane(opt, s, y)
  BY <1>1, <1>3, <1>4, LeftSane
<1>6. Advances(s, y)
  BY <1>1, <1>3, <1>4, <1>5 DEF Advances, Proceeds, Onward, Holds, Alike
<1>7. /\ z \in Context /\ Keeps(y, z) /\ z.stage = y.stage
      /\ z.read_shut = y.read_shut /\ z.write_shut
      /\ z.want = y.want \ {"write"}
  BY <1>4, ShutWriteFields
<1> HIDE DEF z
<1>8. ASSUME y.left = 0 PROVE Advances(s, z)
  <2>1. y.headers_sent /\ y.stage = "open" /\ y.processed = 1 /\ ~ y.resume_resp
    BY <1>1, <1>2, <1>4 DEF Alike
  <2>2. Fresh(s, z) /\ SidesShut(z) /\ Begun(z) /\ InCharge(opt, z) /\ Complete(opt, z)
    BY <1>5, <1>7, <1>8, <2>1 DEF Sane, Fresh, SidesShut, Begun, InCharge, Complete, Keeps
  <2>3. Answered(opt, s, z)
    BY <1>5, <1>7, <2>1 DEF Sane, Answered, Keeps
  <2>4. Onward(opt, x, z) /\ Holds(opt, x, z)
    BY <1>1, <1>2, <1>3, <1>4, <1>7, <2>1 DEF Onward, Holds, Alike, Keeps
  <2> QED
    BY <1>7, <2>2, <2>3, <2>4 DEF Advances, Proceeds, Sane
<1>9. Written(x, k) = IF y.left = 0 THEN z ELSE y
  BY DEF Written, y, z
<1> QED
  BY <1>6, <1>8, <1>9

(* Promises, and the headers after them; or the file. *)
LEMMA IdleOnWriteSteps ==
  ASSUME Streams, goaway \in [Stream -> BOOLEAN], NEW s \in Stream,
         opt.mode = "interop", Callback(s, "write"),
         st[s].interop_handler = "GEN_FILE", idle_on_write(s)
  PROVE  Moves(s) \/ Drifts
<1> DEFINE x == st[s]
<1>1. /\ Sane(opt, s, x) /\ x \in Context /\ x.stage = "open" /\ "write" \in x.want
      /\ x.left \in Lengths /\ x.left \in Nat /\ server = "up"
  BY LengthsClosed DEF Streams, Callback, Sane, Complete
<1>2. x.processed = 1 /\ ~ x.write_shut /\ ~ x.resume_resp
  BY <1>1, Writing
<1>3. CASE x.headers_sent
  <2>1. CASE End("dead")
    BY <2>1 DEF Moves
  <2>2. CASE ~ End("dead")
    <3>1. PICK k \in (IF x.left = 0 THEN {0} ELSE 1 .. x.left) : Become(s, Written(x, k))
      BY <1>3, <2>2 DEF idle_on_write
    <3>2. k \in Nat /\ k <= x.left
      BY <1>1
    <3>3. Advances(s, Written(x, k))
      BY <1>3, <3>2, WrittenAdvances
    <3> QED
      BY <3>1, <3>3 DEF Moves
  <2> QED
    BY <2>1, <2>2
<1>4. CASE ~ x.headers_sent
  <2>1. PICK f \in Promises(x.push_paths), y \in {[x EXCEPT !.headers_sent = TRUE], Closed(x)} :
          /\ st' = [Promised(s, x.push_paths, f) EXCEPT ![s] = [y EXCEPT !.push_paths = <<>>]]
          /\ UNCHANGED <<server, opt, goaway, fds>>
    BY <1>4 DEF idle_on_write
  <2> DEFINE z == [y EXCEPT !.push_paths = <<>>]
             h == [x EXCEPT !.headers_sent = TRUE]
  <2>2. x.push_paths \in Seq(Paths)
    BY <1>1 DEF Context
  <2>3. \A i \in DOMAIN x.push_paths : x.push_paths[i] \in Paths
    BY <2>2
  <2>4. \A u \in Stream : /\ Promised(s, x.push_paths, f)[u] \in Context
                          /\ \/ Promised(s, x.push_paths, f)[u] = st[u]
                             \/ /\ Advances(u, Promised(s, x.push_paths, f)[u])
                                /\ Promised(s, x.push_paths, f)[u].processed = 0
    BY <2>3, PromisesAdvance
  <2>5. /\ y \in Context /\ y.left = x.left /\ y.processed = x.processed
        /\ y.write_shut = x.write_shut /\ y.reader = x.reader /\ y.file_fd = x.file_fd
        /\ y.stage \in {"open", "closing"} /\ Sane(opt, s, y)
    <3>1. CASE y = Closed(x)
      <4>1. Sane(opt, s, Closed(x))
        BY <1>1, <1>2, ClosedSane
      <4>2. Closed(x) \in Context /\ Keeps(x, Closed(x)) /\ Closed(x).stage = "closing"
            /\ Closed(x).write_shut = x.write_shut
        BY <1>1, ClosedFields
      <4> QED
        BY <3>1, <4>1, <4>2 DEF Keeps
    <3>2. CASE y = h
      <4>1. /\ h \in Context /\ h.headers_sent /\ h.stage = x.stage /\ h.want = x.want
            /\ h.read_shut = x.read_shut /\ h.write_shut = x.write_shut
            /\ h.resume_resp = x.resume_resp /\ h.conn = x.conn /\ h.path = x.path
            /\ h.processed = x.processed /\ h.interop_handler = x.interop_handler
            /\ h.left = x.left /\ h.headers_lost = x.headers_lost
            /\ h.reader = x.reader /\ h.file_fd = x.file_fd
        BY <1>1 DEF Context
      <4> HIDE DEF h
      <4>2. Fresh(s, h) /\ SidesShut(h) /\ Begun(h) /\ InCharge(opt, h) /\ Complete(opt, h)
        BY <1>1, <1>2, <4>1 DEF Sane, Fresh, SidesShut, Begun, InCharge, Complete
      <4>3. Answered(opt, s, h)
        BY <1>1, <4>1 DEF Sane, Answered
      <4> QED
        BY <1>1, <3>2, <4>1, <4>2, <4>3 DEF Sane
    <3> QED
      BY <2>1, <3>1, <3>2
  <2>6. /\ z \in Context /\ z.left = y.left /\ z.stage = y.stage /\ z.want = y.want
        /\ z.read_shut = y.read_shut /\ z.write_shut = y.write_shut
        /\ z.headers_sent = y.headers_sent /\ z.headers_lost = y.headers_lost
        /\ z.resume_resp = y.resume_resp
        /\ z.conn = y.conn /\ z.path = y.path /\ z.processed = y.processed
        /\ z.interop_handler = y.interop_handler
        /\ z.reader = y.reader /\ z.file_fd = y.file_fd
    <3>1. y \in Context /\ <<>> \in Seq(Paths)
      BY <2>5
    <3> QED
      BY <3>1 DEF Context
  <2>7. st' = [Promised(s, x.push_paths, f) EXCEPT ![s] = z]
    BY <2>1
  <2> HIDE DEF z
  <2>8. Sane(opt, s, z)
    <3>1. Fresh(s, z) /\ SidesShut(z) /\ Begun(z) /\ InCharge(opt, z) /\ Complete(opt, z)
      BY <2>5, <2>6 DEF Sane, Fresh, SidesShut, Begun, InCharge, Complete
    <3>2. Answered(opt, s, z)
      BY <2>5, <2>6 DEF Sane, Answered
    <3> QED
      BY <2>6, <3>1, <3>2 DEF Sane
  <2>9. Advances(s, z)
    <3>1. Onward(opt, x, z) /\ Holds(opt, x, z)
      BY <1>1, <1>2, <2>5, <2>6 DEF Onward, Holds
    <3> QED
      BY <2>8, <3>1 DEF Advances, Proceeds
  <2>10. DOMAIN Promised(s, x.push_paths, f) = Stream
    BY DEF Promised
  <2>11. st' = [u \in Stream |-> IF u = s THEN z ELSE Promised(s, x.push_paths, f)[u]]
    BY <2>7, <2>10
  <2>12. st' \in [Stream -> Context] /\ \A u \in Stream : st'[u] = st[u] \/ Advances(u, st'[u])
    BY <2>4, <2>6, <2>9, <2>11
  <2>13. OneByOne
    <3>1. \A u \in Stream \ {s} : st'[u] = st[u] \/ st'[u].processed = 0
      BY <2>4, <2>11
    <3> QED
      BY <3>1 DEF OneByOne
  <2> QED
    BY <1>1, <2>1, <2>12, <2>13 DEF Drifts
<1> QED
  BY <1>3, <1>4

(* A reply is written, or the connection of its stream aborted. Nothing is *)
(* there to send only for a push of the service that verifies headers.     *)
LEMMA ReplySteps ==
  ASSUME Streams, goaway \in [Stream -> BOOLEAN], NEW s \in Stream,
         opt.mode = "interop", Callback(s, "write"),
         st[s].interop_handler # "GEN_FILE", reply(s)
  PROVE  Moves(s) \/ Drifts \/ Asserts
<1> DEFINE x == st[s]
           Aborted(u) == st[u].conn = x.conn /\ st[u].stage = "open"
<1>1. /\ Sane(opt, s, x) /\ x \in Context /\ x.stage = "open" /\ "write" \in x.want
      /\ x.left \in Lengths /\ x.left \in Nat /\ server = "up"
  BY LengthsClosed DEF Streams, Callback, Sane, Complete
<1>2. x.processed = 1
  BY <1>1, Writing
<1>3. CASE x.headers_sent
  <2>1. \/ \E k \in 1 .. x.left : Become(s, Written(x, k))
        \/ /\ st' = [u \in Stream |-> IF Aborted(u) THEN Closed(st[u]) ELSE st[u]]
           /\ UNCHANGED <<server, opt, goaway, fds>>
    BY <1>3 DEF reply
  <2>2. CASE \E k \in 1 .. x.left : Become(s, Written(x, k))
    <3>1. PICK k \in 1 .. x.left : Become(s, Written(x, k))
      BY <2>2
    <3>2. k \in Nat /\ k <= x.left
      BY <1>1
    <3>3. Advances(s, Written(x, k))
      BY <1>3, <3>2, WrittenAdvances
    <3> QED
      BY <3>1, <3>3 DEF Moves
  <2>3. CASE /\ st' = [u \in Stream |-> IF Aborted(u) THEN Closed(st[u]) ELSE st[u]]
             /\ UNCHANGED <<server, opt, goaway, fds>>
    <3>1. ASSUME NEW u \in Stream, st[u].stage = "open"
          PROVE  Advances(u, Closed(st[u])) /\ Closed(st[u]) \in Context
      <4>1. Sane(opt, u, st[u]) /\ st[u] \in Context /\ ~ st[u].resume_resp
        BY DEF Streams, Sane, InCharge
      <4>2. /\ Sane(opt, u, Closed(st[u])) /\ Keeps(st[u], Closed(st[u]))
            /\ Closed(st[u]).stage = "closing"
            /\ Closed(st[u]).write_shut = st[u].write_shut
        BY <3>1, <4>1, ClosedSane
      <4> QED
        BY <3>1, <4>2 DEF Advances, Proceeds, Onward, Holds, Keeps, Sane
    <3>2. \A u \in Stream : st'[u] = IF Aborted(u) THEN Closed(st[u]) ELSE st[u]
      BY <2>3
    <3>3. \A u \in Stream : st'[u] \in Context /\ (st'[u] = st[u] \/ Advances(u, st'[u]))
      BY <3>1, <3>2 DEF Streams
    <3>4. st' \in [Stream -> Context]
      BY <2>3, <3>3
    <3>5. \A u \in Stream : Closed(st[u]).stage = "closing"
      BY ClosedFields DEF Streams
    <3>6. OneByOne
      BY <3>2, <3>5 DEF OneByOne
    <3> QED
      BY <1>1, <2>3, <3>3, <3>4, <3>6 DEF Drifts
  <2> QED
    BY <2>1, <2>2, <2>3
<1>4. CASE ~ x.headers_sent /\ x.left > 0
  <2> DEFINE y(lost) == [x EXCEPT !.headers_sent = TRUE, !.headers_lost = lost]
  <2>1. PICK lost \in BOOLEAN : Become(s, y(lost))
    BY <1>4 DEF reply
  <2>2. Advances(s, y(lost))
    BY HeadersAdvance
  <2> QED
    BY <2>1, <2>2 DEF Moves
<1>5. CASE ~ x.headers_sent /\ ~ (x.left > 0)
  <2>1. End("asserted")
    BY <1>5 DEF reply
  <2>2. x.interop_handler = "VER_HEAD" /\ x.conn # s
    <3>1. x.interop_handler \in {"ERROR", "INDEX_HTML", "MD5SUM", "VER_HEAD"}
      BY <1>1, <1>2 DEF Sane, Answered, Context
    <3> QED
      BY <1>1, <1>2, <1>5, <3>1 DEF Sane, Answered
  <2> QED
    BY <2>1, <2>2 DEF Asserts, lsquic_stream_is_pushed
<1> QED
  BY <1>3, <1>4, <1>5

(* A stream is made. *)
LEMMA NewStreamMoves ==
  ASSUME Streams, NEW s \in Stream, http_server_on_new_stream(s)
  PROVE  Moves(s)
<1>1. st[s] = lsquic_stream_ctx(s) /\ st[s].stage = "idle"
  BY DEF Streams, Sane, Fresh, http_server_on_new_stream
<1> DEFINE x == lsquic_stream_ctx(s)
<1>2. Opened(x) = NewContext(s, s, NoPath)
  <2>1. x \in Context /\ x.conn = s /\ x.path = NoPath
    BY <1>1 DEF Streams, lsquic_stream_ctx
  <2>2. NewContext(s, s, NoPath) = [Opened(x) EXCEPT !.conn = s, !.path = NoPath]
    BY DEF NewContext
  <2> HIDE DEF x
  <2> QED
    BY <2>1, <2>2 DEF Context, Opened
<1>3. Advances(s, NewContext(s, s, NoPath))
  BY <1>1, NewContextAdvances
<1> QED
  BY <1>1, <1>2, <1>3 DEF http_server_on_new_stream, Moves

(* What is freed keeps what the response was. *)
LEMMA FreedProceeds ==
  ASSUME Streams, NEW s \in Stream, http_server_on_close(s)
  PROVE  /\ Proceeds(s, Freed(s)) /\ Freed(s) \in Context
         /\ Freed(s).stage = "freed" /\ Freed(s).processed = st[s].processed
<1> DEFINE x == st[s]
           y == Freed(s)
           c == lsquic_stream_ctx(s)
<1>1. /\ Sane(opt, s, x) /\ x \in Context /\ x.stage \in {"open", "closing"}
      /\ x.stage = "open" => opt.leave \/ x.write_shut
  BY DEF Streams, http_server_on_close
<1>2. /\ NoReader \in FD \cup {NoReader} /\ 0 \in FD /\ <<>> \in Seq(Paths)
      /\ NoPath \in Paths \cup {NoPath, PushPath}
  BY FS_CardinalityType, StreamAssumption DEF FD
<1>3. c \in Context
  BY <1>2 DEF lsquic_stream_ctx, Context
<1>4. y = [c EXCEPT !.stage = "freed", !.resume_resp = x.resume_resp,
                    !.processed = x.processed, !.write_shut = x.write_shut]
  BY DEF Freed
<1>5. /\ c.left = 0 /\ c.want = {} /\ c.conn = s /\ ~ c.headers_sent /\ ~ c.headers_lost
      /\ c.interop_handler = "none"
  BY DEF lsquic_stream_ctx
<1>6. /\ x.resume_resp \in BOOLEAN /\ x.processed \in Nat /\ x.write_shut \in BOOLEAN
  BY <1>1 DEF Context
<1> HIDE DEF c, y
<1>7. /\ y \in Context /\ y.stage = "freed" /\ y.resume_resp = x.resume_resp
      /\ y.processed = x.processed /\ y.write_shut = x.write_shut
      /\ y.left = 0 /\ y.want = {} /\ y.conn = s /\ ~ y.headers_lost
      /\ y.interop_handler = "none"
  BY <1>3, <1>4, <1>5, <1>6 DEF Context
<1>8. Fresh(s, y) /\ SidesShut(y) /\ Begun(y) /\ InCharge(opt, y) /\ Complete(opt, y)
  <2>1. Begun(x) /\ InCharge(opt, x)
    BY <1>1 DEF Sane
  <2>2. Begun(y) /\ SidesShut(y) /\ Fresh(s, y)
    BY <1>7, <2>1 DEF Begun, SidesShut, Fresh
  <2>3. InCharge(opt, y)
    BY <1>1, <1>7, <2>1 DEF InCharge
  <2>4. Complete(opt, y)
    BY <1>7, LengthsClosed DEF Complete
  <2> QED
    BY <2>2, <2>3, <2>4
<1>9. Answered(opt, s, y)
  BY <1>7 DEF Answered
<1>10. Onward(opt, x, y)
  BY <1>7 DEF Onward
<1> QED
  BY <1>7, <1>8, <1>9, <1>10 DEF Proceeds, Sane, y

-----------------------------------------------------------------------------
(* The inductive invariant. A stream keeps what its context was made with  *)
(* until it opens a file; OwnFile is inductive together with that.         *)
Opens(x) ==
  /\ x.processed = 0 => x.reader = NoReader /\ x.file_fd = 0
  /\ IF opt.mode = "file" /\ opt.pwritev > 0 THEN x.reader = NoReader
                                             ELSE x.file_fd = 0

Files == OwnFile /\ \A s \in Stream : Opens(st[s])

IInv ==
  /\ Streams
  /\ server \in {"up", "dead", "asserted"}
  /\ goaway \in [Stream -> BOOLEAN]
  /\ Descriptors
  /\ Files
  /\ AssertionsHold

(* What one stream does, the process sees as a drift or its end. *)
LEMMA MovesDrift ==
  ASSUME IInv, NEW s \in Stream, server = "up", Moves(s)
  PROVE  Drifts \/ End("dead")
<1>1. CASE End("dead")
  BY <1>1
<1>2. CASE \E y : Advances(s, y) /\ Become(s, y)
  <2>1. PICK y : Advances(s, y) /\ Become(s, y)
    BY <1>2
  <2>2. y \in Context /\ st \in [Stream -> Context]
    BY <2>1 DEF Advances, Proceeds, Sane, IInv, Streams
  <2>3. st' \in [Stream -> Context] /\ \A u \in Stream : st'[u] = st[u] \/ Advances(u, st'[u])
    BY <2>1, <2>2 DEF Become
  <2>4. \A u \in Stream \ {s} : st'[u] = st[u]
    BY <2>1, <2>2 DEF Become
  <2> QED
    BY <2>1, <2>3, <2>4 DEF Drifts, OneByOne, IInv, Become
<1> QED
  BY <1>1, <1>2 DEF Moves

(* Every step is one of five kinds. *)
LEMMA Steps ==
  ASSUME IInv, Next
  PROVE  \/ Drifts \/ End("dead") \/ Asserts
         \/ \E s \in Stream : Serves(s)
         \/ \E s \in Stream : http_server_on_close(s)
<1>1. PICK s \in Stream :
        \/ http_server_on_new_stream(s)
        \/ hset_rejected(s)
        \/ on_read(s)
        \/ on_write(s)
        \/ resume_response(s)
        \/ http_server_on_close(s)
        \/ http_server_on_goaway(s)
  BY DEF Next
<1>2. Streams /\ Descriptors /\ goaway \in [Stream -> BOOLEAN]
  BY DEF IInv
<1>3. CASE http_server_on_new_stream(s)
  BY <1>2, <1>3, NewStreamMoves, MovesDrift DEF http_server_on_new_stream
<1>4. CASE hset_rejected(s) \/ http_server_interop_on_read(s)
  <2>1. Moves(s) /\ server = "up"
    BY <1>2, <1>4, InteropReadMoves DEF hset_rejected, http_server_interop_on_read, Callback
  <2> QED
    BY <2>1, MovesDrift
<1>5. CASE http_server_on_read(s) \/ hq_server_on_read(s)
  <2>1. (Serves(s) \/ Moves(s)) /\ server = "up"
    BY <1>2, <1>5, FileReadSteps, HqReadSteps DEF http_server_on_read, hq_server_on_read, Callback
  <2> QED
    BY <2>1, MovesDrift
<1>6. CASE http_server_on_write(s) \/ hq_server_on_write(s)
  <2>1. Moves(s) /\ server = "up"
    BY <1>2, <1>6, FileWriteMoves, HqWriteMoves DEF http_server_on_write, hq_server_on_write, Callback
  <2> QED
    BY <2>1, MovesDrift
<1>7. CASE http_server_interop_on_write(s)
  <2>1. opt.mode = "interop" /\ Callback(s, "write") /\ server = "up"
    BY <1>7 DEF http_server_interop_on_write, Callback
  <2>2. Moves(s) \/ Drifts \/ Asserts
    BY <1>2, <1>7, <2>1, IdleOnWriteSteps, ReplySteps DEF http_server_interop_on_write
  <2> QED
    BY <2>1, <2>2, MovesDrift
<1>8. CASE resume_response(s)
  BY <1>2, <1>8, ResumeMoves, MovesDrift DEF resume_response
<1>9. CASE http_server_on_goaway(s)
  BY <1>2, <1>9 DEF http_server_on_goaway, Drifts, OneByOne, Streams
<1> QED
  BY <1>1, <1>3, <1>4, <1>5, <1>6, <1>7, <1>8, <1>9 DEF on_read, on_write

(* The invariant holds at the start. *)
LEMMA InitIInv == Init => IInv
<1> SUFFICES ASSUME Init PROVE IInv
  OBVIOUS
<1>1. /\ server = "up" /\ opt \in Configurations /\ goaway \in [Stream -> BOOLEAN]
      /\ st = [s \in Stream |-> lsquic_stream_ctx(s)]
      /\ fds = [d \in FD |-> IF d = 0 /\ opt.stdin THEN "stdin" ELSE "free"]
  BY DEF Init
<1>2. /\ NoReader \in FD \cup {NoReader} /\ 0 \in FD /\ <<>> \in Seq(Paths)
      /\ NoPath \in Paths \cup {NoPath, PushPath}
  BY FS_CardinalityType, StreamAssumption DEF FD
<1>3. ASSUME NEW s \in Stream PROVE Sane(opt, s, lsquic_stream_ctx(s))
  <2> DEFINE x == lsquic_stream_ctx(s)
  <2>1. x \in Context
    BY <1>2 DEF lsquic_stream_ctx, Context
  <2>2. /\ x.stage = "idle" /\ x.want = {} /\ ~ x.read_shut /\ ~ x.write_shut
        /\ ~ x.headers_sent /\ ~ x.resume_resp /\ x.left = 0 /\ x.conn = s
        /\ ~ x.headers_lost /\ x.processed = 0 /\ x.interop_handler = "none"
    BY DEF lsquic_stream_ctx
  <2>3. Fresh(s, x)
    BY <2>2 DEF Fresh
  <2> HIDE DEF x
  <2>4. SidesShut(x) /\ Begun(x) /\ InCharge(opt, x) /\ Complete(opt, x)
    BY <2>2, LengthsClosed DEF SidesShut, Begun, InCharge, Complete
  <2>5. Answered(opt, s, x)
    BY <2>2 DEF Answered
  <2> QED
    BY <2>1, <2>3, <2>4, <2>5 DEF Sane, x
<1>4. Streams
  BY <1>1, <1>3 DEF Streams, Sane
<1>5. "stdin" \notin Stream /\ "free" \notin Stream
  BY StreamAssumption
<1>6. Descriptors
  BY <1>1, <1>5 DEF Descriptors
<1>7. Files
  <2>1. \A s \in Stream : /\ st[s].stage = "idle" /\ st[s].processed = 0
                          /\ st[s].reader = NoReader /\ st[s].file_fd = 0
    BY <1>1 DEF lsquic_stream_ctx
  <2>2. \A d \in FD \ {0} : fds[d] = "free"
    BY <1>1
  <2> QED
    BY <2>1, <2>2 DEF Files, OwnFile, Opens
<1> QED
  BY <1>1, <1>4, <1>6, <1>7 DEF IInv, AssertionsHold

(* Streams that stay or go on stay sane, and keep their requests. *)
LEMMA StreamsKept ==
  ASSUME Streams, opt' = opt, st' \in [Stream -> Context],
         \A u \in Stream : st'[u] = st[u] \/ Proceeds(u, st'[u])
  PROVE  /\ Streams'
         /\ \A u \in Stream : st[u].processed = 1 => st'[u].processed = 1
<1>1. \A u \in Stream : Sane(opt, u, st'[u])
  BY DEF Streams, Proceeds
<1>2. \A u \in Stream : st[u].processed = 1 => st'[u].processed = 1
  BY DEF Proceeds, Onward
<1> QED
  BY <1>1, <1>2 DEF Streams

(* A drift leaves the descriptors alone. *)
LEMMA DriftsInv ==
  ASSUME IInv, Drifts
  PROVE  IInv'
<1>1. /\ server = "up" /\ server' = server /\ opt' = opt /\ fds' = fds
      /\ goaway' \in [Stream -> BOOLEAN] /\ st' \in [Stream -> Context]
      /\ Streams /\ Descriptors /\ Files
      /\ \A u \in Stream : st'[u] = st[u] \/ Advances(u, st'[u])
  BY DEF Drifts, IInv
<1>2. Streams' /\ \A u \in Stream : st[u].processed = 1 => st'[u].processed = 1
  BY <1>1, StreamsKept DEF Advances
<1>3. Descriptors'
  BY <1>1, <1>2 DEF Descriptors
<1>4. ASSUME NEW u \in Stream
      PROVE  /\ st'[u].reader = st[u].reader /\ st'[u].file_fd = st[u].file_fd
             /\ opt.mode # "interop" => st'[u].processed = st[u].processed
             /\ st[u].processed # 0 => st'[u].processed # 0
             /\ st'[u].stage \in {"open", "closing"}
                  => st[u].stage \in {"open", "closing"} \/ st[u].processed = 0
             /\ st[u].stage \in {"open", "closing"} => st'[u].stage \in {"open", "closing"}
  <2>1. CASE st'[u] = st[u]
    BY <2>1
  <2>2. CASE Advances(u, st'[u])
    <3>1. Sane(opt, u, st[u]) /\ st'[u] \in Context /\ st[u] \in Context
      BY <1>1 DEF Streams
    <3>2. st[u].stage = "idle" => st[u].processed = 0
      BY <3>1 DEF Sane, Fresh, lsquic_stream_ctx
    <3>3. st[u].processed \in {0, 1}
      BY <3>1 DEF Sane, Begun
    <3>4. /\ st'[u].stage \in {"idle", "open", "closing", "freed"}
          /\ st[u].stage \in {"idle", "open", "closing", "freed"}
      BY <3>1 DEF Context
    <3> QED
      BY <2>2, <3>2, <3>3, <3>4 DEF Advances, Proceeds, Holds, Onward
  <2> QED
    BY <1>1, <2>1, <2>2
<1>5. Files'
  <2>1. \A u \in Stream : Opens(st[u])'
    BY <1>1, <1>4 DEF Files, Opens
  <2>2. OwnFile'
    <3> SUFFICES ASSUME fds[0] = "stdin"
                 PROVE  /\ \A s \in Stream :
                             opt.mode # "interop" /\ st'[s].stage \in {"open", "closing"}
                               /\ st'[s].processed > 0 => fds[Source(st'[s])] = s
                        /\ \A d \in FD \ {0} :
                             fds[d] # "free" => st'[fds[d]].stage \in {"open", "closing"}
      BY <1>1 DEF OwnFile, Source
    <3>1. /\ \A s \in Stream :
               opt.mode # "interop" /\ st[s].stage \in {"open", "closing"} /\ st[s].processed > 0
                 => fds[Source(st[s])] = s
          /\ \A d \in FD \ {0} : fds[d] # "free" => st[fds[d]].stage \in {"open", "closing"}
      BY <1>1 DEF Files, OwnFile
    <3>2. \A s \in Stream : Source(st'[s]) = Source(st[s])
      BY <1>4 DEF Source
    <3>3. \A d \in FD \ {0} : fds[d] # "free" => fds[d] \in Stream
      BY <1>1 DEF Descriptors
    <3> QED
      BY <1>4, <3>1, <3>2, <3>3
  <2> QED
    BY <2>1, <2>2 DEF Files
<1> QED
  BY <1>1, <1>2, <1>3, <1>5 DEF IInv, AssertionsHold

(* A file takes the lowest free descriptor: never the standard input's.    *)
LEMMA ServesInv ==
  ASSUME IInv, NEW s \in Stream, Serves(s)
  PROVE  IInv'
<1>1. /\ server = "up" /\ server' = server /\ opt' = opt /\ goaway' = goaway
      /\ opt.mode # "interop" /\ st[s].stage = "open" /\ st[s].processed = 0
      /\ fds' = [fds EXCEPT ![Lowest] = s]
      /\ st' \in [Stream -> Context]
      /\ Proceeds(s, st'[s]) /\ st'[s].processed = 1 /\ st'[s].stage = "open"
      /\ \A u \in Stream \ {s} : st'[u] = st[u] \/ Advances(u, st'[u])
  BY DEF Serves
<1>2. /\ Streams /\ Descriptors /\ Files
      /\ goaway \in [Stream -> BOOLEAN]
  BY DEF IInv
<1>3. Streams' /\ \A u \in Stream : st[u].processed = 1 => st'[u].processed = 1
  BY <1>1, <1>2, StreamsKept DEF Advances
<1>4. Lowest \in FD /\ fds[Lowest] = "free"
  BY <1>1, <1>2, LowestFree
<1>5. "stdin" \notin Stream /\ "free" \notin Stream /\ 0 \in FD /\ NoReader \notin FD
  BY FS_CardinalityType, StreamAssumption DEF FD, NoReader
<1>6. /\ fds \in [FD -> Stream \cup {"stdin", "free"}]
      /\ fds'[Lowest] = s /\ \A d \in FD \ {Lowest} : fds'[d] = fds[d]
      /\ fds' \in [FD -> Stream \cup {"stdin", "free"}]
      /\ \A d \in FD : fds[d] # s
  BY <1>1, <1>2, <1>4 DEF Descriptors
<1>7. Descriptors'
  <2>1. \A d \in FD : fds'[d] = "stdin" => d = 0
    BY <1>2, <1>5, <1>6 DEF Descriptors
  <2>2. \A d \in FD : fds'[d] \in Stream => st'[fds'[d]].processed = 1 /\ opt.mode # "interop"
    BY <1>1, <1>2, <1>3, <1>6 DEF Descriptors
  <2>3. \A d, e \in FD : fds'[d] \in Stream /\ fds'[d] = fds'[e] => d = e
    BY <1>2, <1>6 DEF Descriptors
  <2> QED
    BY <1>1, <1>6, <2>1, <2>2, <2>3 DEF Descriptors
<1>8. Opens(st'[s]) /\ Source(st'[s]) = Lowest
  <2>1. Opens(st[s])
    BY <1>2 DEF Files
  <2>2. IF opt.mode = "file" /\ opt.pwritev > 0
          THEN st'[s].file_fd = Lowest /\ st'[s].reader = st[s].reader
          ELSE st'[s].reader = Lowest /\ st'[s].file_fd = st[s].file_fd
    BY DEF Serves
  <2> QED
    BY <1>1, <1>4, <1>5, <2>1, <2>2 DEF Opens, Source
<1>9. ASSUME NEW u \in Stream \ {s}
      PROVE  /\ st'[u].reader = st[u].reader /\ st'[u].file_fd = st[u].file_fd
             /\ st'[u].processed = st[u].processed
             /\ st'[u].stage \in {"open", "closing"}
                  => st[u].stage \in {"open", "closing"} \/ st[u].processed = 0
             /\ st[u].stage \in {"open", "closing"} => st'[u].stage \in {"open", "closing"}
  <2>1. CASE st'[u] = st[u]
    BY <2>1
  <2>2. CASE Advances(u, st'[u])
    <3>1. Sane(opt, u, st[u]) /\ st'[u] \in Context /\ st[u] \in Context
      BY <1>1, <1>2 DEF Streams
    <3>2. st[u].stage = "idle" => st[u].processed = 0
      BY <3>1 DEF Sane, Fresh, lsquic_stream_ctx
    <3>4. /\ st'[u].stage \in {"idle", "open", "closing", "freed"}
          /\ st[u].stage \in {"idle", "open", "closing", "freed"}
      BY <3>1 DEF Context
    <3> QED
      BY <1>1, <2>2, <3>2, <3>4 DEF Advances, Holds
  <2> QED
    BY <1>1, <2>1, <2>2
<1>10. Files'
  <2>1. \A u \in Stream : Opens(st[u])'
    BY <1>1, <1>2, <1>8, <1>9 DEF Files, Opens
  <2>2. OwnFile'
    <3> SUFFICES ASSUME fds'[0] = "stdin"
                 PROVE  /\ \A v \in Stream :
                             st'[v].stage \in {"open", "closing"} /\ st'[v].processed > 0
                               => fds'[Source(st'[v])] = v
                        /\ \A d \in FD \ {0} :
                             fds'[d] # "free" => st'[fds'[d]].stage \in {"open", "closing"}
      BY <1>1 DEF OwnFile, Source
    <3>0. fds[0] = "stdin"
      BY <1>5, <1>6
    <3>1. /\ \A v \in Stream :
               st[v].stage \in {"open", "closing"} /\ st[v].processed > 0 => fds[Source(st[v])] = v
          /\ \A d \in FD \ {0} : fds[d] # "free" => st[fds[d]].stage \in {"open", "closing"}
      BY <1>1, <1>2, <3>0 DEF Files, OwnFile
    <3>2. ASSUME NEW v \in Stream, st'[v].stage \in {"open", "closing"}, st'[v].processed > 0
          PROVE  fds'[Source(st'[v])] = v
      <4>1. CASE v = s
        BY <1>6, <1>8, <4>1
      <4>2. CASE v # s
        <5>1. Source(st'[v]) = Source(st[v]) /\ fds[Source(st[v])] = v
          BY <1>9, <3>1, <3>2, <4>2 DEF Source
        <5>2. Source(st[v]) \in FD
          BY <1>2 DEF Streams, Context, Source
        <5> QED
          BY <1>4, <1>5, <1>6, <5>1, <5>2
      <4> QED
        BY <4>1, <4>2
    <3>3. ASSUME NEW d \in FD \ {0}, fds'[d] # "free"
          PROVE  st'[fds'[d]].stage \in {"open", "closing"}
      <4>1. CASE d = Lowest
        BY <1>1, <1>6, <4>1
      <4>2. CASE d # Lowest
        <5>1. fds'[d] = fds[d] /\ fds[d] \in Stream \ {s}
          BY <1>2, <1>6, <3>3, <4>2 DEF Descriptors
        <5> QED
          BY <1>9, <3>1, <3>3, <5>1
      <4> QED
        BY <4>1, <4>2
    <3> QED
      BY <3>2, <3>3
  <2> QED
    BY <2>1, <2>2 DEF Files
<1> QED
  BY <1>1, <1>2, <1>3, <1>7, <1>10 DEF IInv, AssertionsHold

(* A stream that is freed closes its own file, or the standard input.      *)
LEMMA ClosesInv ==
  ASSUME IInv, NEW s \in Stream, http_server_on_close(s)
  PROVE  IInv'
<1> DEFINE x == st[s]
           closed == (IF x.reader = NoReader THEN {} ELSE {x.reader})
                       \cup (IF opt.pwritev > 0 THEN {x.file_fd} ELSE {})
<1>1. /\ server = "up" /\ server' = server /\ opt' = opt /\ goaway' = goaway
      /\ x.stage \in {"open", "closing"}
      /\ st' = [st EXCEPT ![s] = Freed(s)]
      /\ fds' = [d \in FD |-> IF d \in closed THEN "free" ELSE fds[d]]
  BY DEF http_server_on_close
<1>2. /\ Streams /\ Descriptors /\ Files /\ st \in [Stream -> Context]
      /\ goaway \in [Stream -> BOOLEAN]
  BY DEF IInv, Streams
<1>3. /\ Proceeds(s, Freed(s)) /\ Freed(s) \in Context
      /\ Freed(s).stage = "freed" /\ Freed(s).processed = x.processed
  BY <1>2, FreedProceeds
<1>4. /\ st' \in [Stream -> Context] /\ st'[s] = Freed(s)
      /\ \A u \in Stream \ {s} : st'[u] = st[u]
  BY <1>1, <1>2, <1>3
<1>5. Streams' /\ \A u \in Stream : st[u].processed = 1 => st'[u].processed = 1
  BY <1>1, <1>2, <1>3, <1>4, StreamsKept
<1>6. "stdin" \notin Stream /\ "free" \notin Stream /\ 0 \in FD /\ NoReader \notin FD
  BY FS_CardinalityType, StreamAssumption DEF FD, NoReader
<1>7. /\ fds \in [FD -> Stream \cup {"stdin", "free"}]
      /\ fds' \in [FD -> Stream \cup {"stdin", "free"}]
      /\ \A d \in FD : fds'[d] = "free" \/ (fds'[d] = fds[d] /\ d \notin closed)
      /\ \A d \in FD \ closed : fds'[d] = fds[d]
  <2>1. fds \in [FD -> Stream \cup {"stdin", "free"}]
    BY <1>2 DEF Descriptors
  <2> HIDE DEF closed
  <2> QED
    BY <1>1, <2>1
<1>8. Descriptors'
  <2>1. \A d \in FD : fds'[d] = "stdin" => d = 0
    BY <1>2, <1>7 DEF Descriptors
  <2>2. \A d \in FD : fds'[d] \in Stream => st'[fds'[d]].processed = 1 /\ opt.mode # "interop"
    BY <1>2, <1>5, <1>6, <1>7 DEF Descriptors
  <2>3. \A d, e \in FD : fds'[d] \in Stream /\ fds'[d] = fds'[e] => d = e
    BY <1>2, <1>6, <1>7 DEF Descriptors
  <2> QED
    BY <1>1, <1>7, <2>1, <2>2, <2>3 DEF Descriptors
<1>9. Opens(Freed(s))
  <2>1. lsquic_stream_ctx(s).reader = NoReader /\ lsquic_stream_ctx(s).file_fd = 0
    BY DEF lsquic_stream_ctx
  <2>2. Freed(s).reader = NoReader /\ Freed(s).file_fd = 0
    BY <2>1 DEF Freed, lsquic_stream_ctx
  <2> QED
    BY <2>2 DEF Opens
<1>10. Files'
  <2>1. \A u \in Stream : Opens(st[u])'
    BY <1>1, <1>2, <1>4, <1>9 DEF Files, Opens
  <2>2. OwnFile'
    <3> SUFFICES ASSUME fds'[0] = "stdin"
                 PROVE  /\ \A v \in Stream :
                             opt.mode # "interop" /\ st'[v].stage \in {"open", "closing"}
                               /\ st'[v].processed > 0 => fds'[Source(st'[v])] = v
                        /\ \A d \in FD \ {0} :
                             fds'[d] # "free" => st'[fds'[d]].stage \in {"open", "closing"}
      BY <1>1 DEF OwnFile, Source
    <3>1. fds[0] = "stdin" /\ 0 \notin closed
      BY <1>6, <1>7
    <3>2. /\ \A v \in Stream :
               opt.mode # "interop" /\ st[v].stage \in {"open", "closing"} /\ st[v].processed > 0
                 => fds[Source(st[v])] = v
          /\ \A d \in FD \ {0} : fds[d] # "free" => st[fds[d]].stage \in {"open", "closing"}
      BY <1>2, <3>1 DEF Files, OwnFile
    <3>3. Sane(opt, s, x) /\ x \in Context /\ Opens(x) /\ x.processed \in {0, 1}
      BY <1>2 DEF Streams, Sane, Begun, Files
    <3>4. closed \subseteq {Source(x)} /\ (closed # {} => x.processed = 1)
      BY <3>1, <3>3 DEF Opens, Source
    <3>5. x.processed = 1 /\ opt.mode # "interop" => fds[Source(x)] = s /\ Source(x) \in closed
      <4> SUFFICES ASSUME x.processed = 1, opt.mode # "interop"
                   PROVE  fds[Source(x)] = s /\ Source(x) \in closed
        OBVIOUS
      <4>1. fds[Source(x)] = s
        BY <1>1, <3>2
      <4>2. Source(x) # 0
        BY <1>6, <3>1, <4>1
      <4> QED
        BY <3>3, <4>1, <4>2 DEF Source, Opens
    <3>6. ASSUME NEW v \in Stream, opt.mode # "interop",
                 st'[v].stage \in {"open", "closing"}, st'[v].processed > 0
          PROVE  fds'[Source(st'[v])] = v
      <4>1. v # s /\ st'[v] = st[v]
        BY <1>3, <1>4, <3>6
      <4>2. fds[Source(st[v])] = v /\ Source(st[v]) \in FD
        BY <1>2, <3>2, <3>6, <4>1 DEF Context, Source
      <4>3. Source(st[v]) \notin closed
        BY <3>4, <3>5, <3>6, <4>1, <4>2
      <4> QED
        BY <1>7, <4>1, <4>2, <4>3
    <3>7. ASSUME NEW d \in FD \ {0}, fds'[d] # "free"
          PROVE  st'[fds'[d]].stage \in {"open", "closing"}
      <4>1. fds'[d] = fds[d] /\ fds[d] \in Stream /\ d \notin closed
        BY <1>2, <1>7, <3>7 DEF Descriptors
      <4>2. fds[d] # s
        <5>1. SUFFICES ASSUME fds[d] = s PROVE FALSE
          OBVIOUS
        <5>2. x.processed = 1 /\ opt.mode # "interop"
          BY <1>2, <4>1, <5>1 DEF Descriptors
        <5>3. Source(x) \in FD /\ fds[Source(x)] = s /\ Source(x) \in closed
          BY <3>3, <3>5, <5>2 DEF Context, Source
        <5>4. d = Source(x)
          BY <1>2, <5>1, <5>3 DEF Descriptors
        <5> QED
          BY <4>1, <5>3, <5>4
      <4> QED
        BY <1>4, <3>2, <3>7, <4>1, <4>2
    <3> QED
      BY <3>6, <3>7
  <2> QED
    BY <2>1, <2>2 DEF Files
<1> QED
  BY <1>1, <1>2, <1>5, <1>8, <1>10 DEF IInv, AssertionsHold

(* The invariant holds after every step. *)
LEMMA NextIInv == IInv /\ [Next]_vars => IInv'
<1> SUFFICES ASSUME IInv, [Next]_vars PROVE IInv'
  OBVIOUS
<1>1. CASE UNCHANGED vars
  BY <1>1 DEF vars, IInv, Streams, Sane, Fresh, SidesShut, Begun, InCharge, Complete,
              Answered, Descriptors, Files, OwnFile, Opens, Source, AssertionsHold,
              lsquic_stream_is_pushed
<1>2. CASE Drifts
  BY <1>2, DriftsInv
<1>3. CASE End("dead") \/ Asserts
  <2>1. /\ UNCHANGED <<opt, st, goaway, fds>> /\ server' \in {"dead", "asserted"}
        /\ server' = "asserted" => Asserts
    BY <1>3 DEF End, Asserts
  <2>2. AssertionsHold'
    BY <2>1 DEF AssertionsHold, Asserts, lsquic_stream_is_pushed
  <2>3. Streams'
    BY <2>1 DEF IInv, Streams
  <2>5. Descriptors'
    BY <2>1 DEF IInv, Descriptors
  <2>4. Files'
    BY <2>1 DEF IInv, Files, OwnFile, Opens, Source
  <2> QED
    BY <2>1, <2>2, <2>3, <2>4, <2>5 DEF IInv
<1>4. CASE \E s \in Stream : Serves(s)
  BY <1>4, ServesInv
<1>5. CASE \E s \in Stream : http_server_on_close(s)
  BY <1>5, ClosesInv
<1> QED
  BY <1>1, <1>2, <1>3, <1>4, <1>5, Steps

(* The invariant holds always. *)
LEMMA IInvAlways == Spec => []IInv
<1> QED
  BY InitIInv, NextIInv, PTL DEF Spec

-----------------------------------------------------------------------------
(* What follows from it, for every value of the constants.                 *)

(* Contexts are well-formed; only the fallback of lsquic_stream_pwritev    *)
(* takes more than is left.                                                *)
THEOREM StreamTypeCorrect == Spec => []TypeOK
<1>1. IInv => TypeOK
  <2> SUFFICES ASSUME IInv PROVE TypeOK
    OBVIOUS
  <2>1. \A s \in Stream : st[s].left \in Lengths \/ opt.falls_back
    BY DEF IInv, Streams, Sane, Complete
  <2>2. ASSUME NEW s \in Stream, ~ opt.falls_back PROVE st[s].left >= 0
    <3>1. st[s].left \in Nat
      BY <2>1, <2>2, LengthsClosed
    <3> QED
      BY <3>1
  <2> QED
    BY <2>2 DEF IInv, Streams, Descriptors, TypeOK
<1> QED
  BY <1>1, IInvAlways, PTL

(* A response that ends regularly is whole, in each of the modes and with  *)
(* each way of writing. The exceptions are the option -P in hq mode, which *)
(* cuts the body, and the replies of interop mode, which may have lost     *)
(* their headers.                                                          *)
THEOREM NothingIsTruncated == Spec => []NoTruncation
<1>1. IInv => NoTruncation
  BY DEF IInv, Streams, Sane, Complete, NoTruncation, CutsShort, MayLackHeaders
<1> QED
  BY <1>1, IInvAlways, PTL

(* No stream comes back to the end of its request: process_request runs    *)
(* once in its life.                                                       *)
THEOREM RequestsOnce == Spec => []ProcessedOnce
<1>1. IInv => ProcessedOnce
  BY DEF IInv, Streams, Sane, Begun, ProcessedOnce
<1> QED
  BY <1>1, IInvAlways, PTL

(* A response that has not ended is the write callback's or the timer's:   *)
(* it is never forgotten, and never written by both.                       *)
THEOREM ResponsesAreInCharge == Spec => []SomeoneInCharge
<1>1. IInv => SomeoneInCharge
  BY DEF IInv, Streams, Sane, Begun, InCharge, SomeoneInCharge
<1> QED
  BY <1>1, IInvAlways, PTL

(* The timer of a delay finds its stream, unless the client left.          *)
THEOREM TimersHaveStreams == Spec => []TimerHasStream
<1>1. IInv => TimerHasStream
  BY DEF IInv, Streams, Sane, InCharge, TimerHasStream
<1> QED
  BY <1>1, IInvAlways, PTL

(* Streams read from the files they opened, and leave none of them open,   *)
(* until a close of descriptor 0 has hit the standard input.               *)
THEOREM FilesAreOwned == Spec => []OwnFile
<1>1. IInv => OwnFile
  BY DEF IInv, Files
<1> QED
  BY <1>1, IInvAlways, PTL

(* The callbacks' assertions hold but for a push of verify-headers.        *)
THEOREM AssertionsAreKept == Spec => []AssertionsHold
<1>1. IInv => AssertionsHold
  BY DEF IInv
<1> QED
  BY <1>1, IInvAlways, PTL

-----------------------------------------------------------------------------
(* The streams implement ResponseSpec.                                     *)

(* Streams that change neither phase nor length, or lose their response,   *)
(* are a loss there, or no step at all.                                    *)
LEMMA StaysOrLoses ==
  ASSUME \A u \in Stream :
           \/ ResponsePhase(u)' = ResponsePhase(u) /\ ResponseDue(u)' = ResponseDue(u)
           \/ ResponsePhase(u) = "due" /\ ResponsePhase(u)' = "lost"
  PROVE  [Response!Next]_(Response!vars)
<1> DEFINE S == {u \in Stream : ResponsePhase(u) = "due" /\ ResponsePhase(u)' = "lost"}
           Phase == [u \in Stream |-> ResponsePhase(u)]
           Due == [u \in Stream |-> ResponseDue(u)]
<1>1. \A u \in Stream : ResponsePhase(u)' = "lost" => ResponseDue(u)' = 0
  BY DEF ResponseDue
<1>2. CASE S = {}
  <2>1. \A u \in Stream : /\ ResponsePhase(u)' = ResponsePhase(u)
                          /\ ResponseDue(u)' = ResponseDue(u)
    BY <1>2
  <2>2. Phase' = Phase /\ Due' = Due
    BY <2>1
  <2> QED
    BY <2>2 DEF Response!vars
<1>3. CASE S # {}
  <2>1. \A u \in Stream : ResponsePhase(u)' = IF u \in S THEN "lost" ELSE ResponsePhase(u)
    OBVIOUS
  <2>2. \A u \in Stream : ResponseDue(u)' = IF u \in S THEN 0 ELSE ResponseDue(u)
    BY <1>1
  <2>3. \A u \in S : Phase[u] = "due"
    OBVIOUS
  <2>4. Phase' = [u \in Stream |-> IF u \in S THEN "lost" ELSE Phase[u]]
    BY <2>1
  <2>5. Due' = [u \in Stream |-> IF u \in S THEN 0 ELSE Due[u]]
    BY <2>2
  <2>6. S \in SUBSET Stream
    OBVIOUS
  <2> HIDE DEF S
  <2>7. Response!Lose(S)
    BY <1>3, <2>3, <2>4, <2>5 DEF Response!Lose
  <2> QED
    BY <2>6, <2>7 DEF Response!Next
<1> QED
  BY <1>2, <1>3

(* A stream that goes on delivers, loses its response, or does neither.    *)
LEMMA GoesOn ==
  ASSUME IInv, server = "up", server' = server, opt' = opt, ~ Excused,
         NEW s \in Stream, Proceeds(s, st'[s])
  PROVE  \/ ResponsePhase(s)' = ResponsePhase(s) /\ ResponseDue(s)' = ResponseDue(s)
         \/ ResponsePhase(s) = "due" /\ ResponsePhase(s)' = "lost"
         \/ /\ \/ ResponsePhase(s) = "none"
               \/ ResponsePhase(s) = "due" /\ st'[s].left <= ResponseDue(s)
            /\ ResponsePhase(s)' \in Response!Phases(st'[s].left)
            /\ ResponseDue(s)' = st'[s].left /\ st'[s].left \in Lengths
<1> DEFINE x == st[s]
           y == st'[s]
<1>1. /\ Sane(opt, s, x) /\ Sane(opt, s, y) /\ Onward(opt, x, y)
      /\ x \in Context /\ y \in Context
  BY DEF IInv, Streams, Proceeds, Sane
<1>2. /\ x.processed \in {0, 1} /\ y.processed \in {0, 1}
      /\ x.write_shut => x.processed = 1
      /\ y.left \in Lengths
      /\ x.write_shut => x.left = 0
      /\ y.write_shut => y.left = 0
      /\ x.stage = "idle" => x.processed = 0
  BY <1>1 DEF Sane, Begun, Complete, Fresh, Excused, CutsShort, lsquic_stream_ctx
<1>3. ~ Excused' /\ server' = "up" /\ ~ opt.falls_back
  BY DEF Excused, CutsShort
<1>4. /\ ResponsePhase(s) = IF x.processed = 0 THEN "none"
                            ELSE IF x.write_shut THEN "ended"
                            ELSE IF x.stage = "open" THEN "due" ELSE "lost"
      /\ ResponsePhase(s)' = IF y.processed = 0 THEN "none"
                             ELSE IF y.write_shut THEN "ended"
                             ELSE IF y.stage = "open" THEN "due" ELSE "lost"
  BY <1>3 DEF ResponsePhase
<1>5. /\ ResponseDue(s) = IF ResponsePhase(s) = "due" THEN x.left ELSE 0
      /\ ResponseDue(s)' = IF ResponsePhase(s)' = "due" THEN y.left ELSE 0
  <2>1. /\ ResponsePhase(s) = "ended" => x.left = 0
        /\ ResponsePhase(s)' = "ended" => y.left = 0
    BY <1>2, <1>4
  <2> QED
    BY <2>1 DEF ResponseDue
<1>6. /\ x.processed = 1 => y.processed = 1
      /\ x.write_shut => y.write_shut
      /\ y.stage = "open" => x.stage \in {"idle", "open"}
      /\ y.processed # x.processed \/ y.write_shut # x.write_shut => y.stage = "open"
      /\ x.processed = 1 /\ y.stage = "open" => y.left <= x.left
      /\ x.write_shut \in BOOLEAN /\ y.write_shut \in BOOLEAN
  BY <1>1, <1>3 DEF Onward, Context
<1> HIDE DEF x, y
<1>7. CASE ResponsePhase(s) \in {"none", "ended", "lost"} /\ ResponsePhase(s)' = ResponsePhase(s)
  BY <1>5, <1>7
<1>8. CASE ResponsePhase(s) = "none" /\ ResponsePhase(s)' # "none"
  <2>1. y.stage = "open"
    BY <1>2, <1>4, <1>6, <1>8
  <2>2. ResponsePhase(s)' \in {"due", "ended"} /\ (ResponsePhase(s)' = "ended" => y.left = 0)
    BY <1>2, <1>4, <1>8, <2>1
  <2> QED
    BY <1>2, <1>5, <1>8, <2>2 DEF Response!Phases, y
<1>9. CASE ResponsePhase(s) = "due"
  <2>1. x.processed = 1 /\ ~ x.write_shut /\ y.processed = 1
    BY <1>2, <1>4, <1>6, <1>9
  <2>2. CASE y.stage = "open"
    <3>1. /\ ResponsePhase(s)' \in {"due", "ended"}
          /\ ResponsePhase(s)' = "ended" => y.left = 0
          /\ y.left <= x.left
      BY <1>2, <1>4, <1>6, <2>1, <2>2
    <3> QED
      BY <1>2, <1>5, <1>9, <3>1 DEF Response!Phases, y
  <2>3. CASE y.stage # "open"
    BY <1>4, <1>6, <1>9, <2>1, <2>3
  <2> QED
    BY <2>2, <2>3
<1>10. CASE ResponsePhase(s) \in {"ended", "lost"} /\ ResponsePhase(s)' # ResponsePhase(s)
  BY <1>2, <1>4, <1>6, <1>10
<1> QED
  BY <1>4, <1>7, <1>8, <1>9, <1>10

(* One stream goes on, and others do not respond: one step of the response *)
(* or none.                                                                *)
LEMMA OneGoesOn ==
  ASSUME IInv, server = "up", server' = server, opt' = opt, ~ Excused,
         \A u \in Stream : st'[u] = st[u] \/ Proceeds(u, st'[u]),
         NEW s \in Stream,
         \A u \in Stream \ {s} : st'[u] = st[u] \/ st'[u].processed = 0
  PROVE  [Response!Next]_(Response!vars)
<1> DEFINE Phase == [u \in Stream |-> ResponsePhase(u)]
           Due == [u \in Stream |-> ResponseDue(u)]
<1>1. ~ Excused'
  BY DEF Excused, CutsShort
<1>2. ASSUME NEW u \in Stream \ {s}
      PROVE  ResponsePhase(u)' = ResponsePhase(u) /\ ResponseDue(u)' = ResponseDue(u)
  <2>1. CASE st'[u] = st[u]
    <3>1. ResponsePhase(u)' = ResponsePhase(u)
      BY <1>1, <2>1 DEF ResponsePhase
    <3> QED
      BY <2>1, <3>1 DEF ResponseDue
  <2>2. CASE Proceeds(u, st'[u]) /\ st'[u].processed = 0
    <3>1. st[u].processed = 0
      BY <2>2 DEF Proceeds, Onward, IInv, Streams, Sane, Begun
    <3>2. ResponsePhase(u)' = "none" /\ ResponsePhase(u) = "none"
      BY <2>2, <3>1 DEF ResponsePhase
    <3> QED
      BY <3>2 DEF ResponseDue
  <2> QED
    BY <2>1, <2>2
<1>3. CASE st'[s] = st[s]
  <2>1. ResponsePhase(s)' = ResponsePhase(s)
    BY <1>1, <1>3 DEF ResponsePhase
  <2>2. ResponseDue(s)' = ResponseDue(s)
    BY <1>3, <2>1 DEF ResponseDue
  <2> QED
    BY <1>2, <2>1, <2>2, StaysOrLoses
<1>4. CASE Proceeds(s, st'[s])
  <2> DEFINE n == st'[s].left
  <2>1. CASE \/ ResponsePhase(s)' = ResponsePhase(s) /\ ResponseDue(s)' = ResponseDue(s)
             \/ ResponsePhase(s) = "due" /\ ResponsePhase(s)' = "lost"
    BY <1>2, <2>1, StaysOrLoses
  <2>2. CASE /\ \/ ResponsePhase(s) = "none"
                \/ ResponsePhase(s) = "due" /\ n <= ResponseDue(s)
             /\ ResponsePhase(s)' \in Response!Phases(n)
             /\ ResponseDue(s)' = n /\ n \in Lengths
    <3>1. Phase' = [Phase EXCEPT ![s] = ResponsePhase(s)']
      BY <1>2
    <3>2. Due' = [Due EXCEPT ![s] = n]
      BY <1>2, <2>2
    <3>3. Phase[s] = "none" \/ (Phase[s] = "due" /\ n <= Due[s])
      BY <2>2
    <3> HIDE DEF n
    <3>4. Response!Deliver(s, n)
      BY <2>2, <3>1, <3>2, <3>3 DEF Response!Deliver
    <3> QED
      BY <2>2, <3>4 DEF Response!Next
  <2> QED
    BY <1>4, <2>1, <2>2, GoesOn
<1> QED
  BY <1>3, <1>4

(* The process ends: all responses that are due are lost. *)
LEMMA EndLoses ==
  ASSUME server' # "up", opt' = opt, st' = st
  PROVE  [Response!Next]_(Response!vars)
<1>1. Excused' <=> Excused
  BY DEF Excused, CutsShort
<1>2. ASSUME NEW u \in Stream
      PROVE  \/ ResponsePhase(u)' = ResponsePhase(u) /\ ResponseDue(u)' = ResponseDue(u)
             \/ ResponsePhase(u) = "due" /\ ResponsePhase(u)' = "lost"
  BY <1>1 DEF ResponsePhase, ResponseDue
<1> QED
  BY <1>2, StaysOrLoses

(* At the start, no response is due. *)
LEMMA ResponseInit == Init => Response!Init
<1> SUFFICES ASSUME Init PROVE Response!Init
  OBVIOUS
<1>1. \A s \in Stream : st[s].processed = 0
  BY DEF Init, lsquic_stream_ctx
<1>2. \A s \in Stream : ResponsePhase(s) = "none" /\ ResponseDue(s) = 0
  BY <1>1 DEF ResponsePhase, ResponseDue
<1> QED
  BY <1>2 DEF Response!Init

(* Every step is one of a response, of several that are lost, or of none.  *)
LEMMA ResponseStep ==
  IInv /\ [Next]_vars => [Response!Next]_(Response!vars)
<1> SUFFICES ASSUME IInv, [Next]_vars PROVE [Response!Next]_(Response!vars)
  OBVIOUS
<1> DEFINE Stays(u) == ResponsePhase(u)' = ResponsePhase(u) /\ ResponseDue(u)' = ResponseDue(u)
<1>1. CASE UNCHANGED vars
  <2>1. \A u \in Stream : Stays(u)
    BY <1>1 DEF vars, ResponsePhase, ResponseDue, Excused, CutsShort
  <2> QED
    BY <2>1, StaysOrLoses
<1>2. CASE Excused /\ opt' = opt
  <2>1. Excused'
    BY <1>2 DEF Excused, CutsShort
  <2>2. \A u \in Stream : Stays(u)
    BY <1>2, <2>1 DEF ResponsePhase, ResponseDue
  <2> QED
    BY <2>2, StaysOrLoses
<1>3. CASE End("dead") \/ Asserts
  BY <1>3, EndLoses DEF End, Asserts
<1>4. ASSUME ~ Excused, Drifts PROVE [Response!Next]_(Response!vars)
  <2>1. /\ server = "up" /\ server' = server /\ opt' = opt
        /\ \A u \in Stream : st'[u] = st[u] \/ Proceeds(u, st'[u])
    BY <1>4 DEF Drifts, Advances
  <2>2. CASE \E s \in Stream : \A u \in Stream \ {s} : st'[u] = st[u] \/ st'[u].processed = 0
    BY <1>4, <2>1, <2>2, OneGoesOn
  <2>3. CASE \A u \in Stream : st'[u] = st[u] \/ st'[u].stage = "closing"
    <3>1. ~ Excused'
      BY <1>4, <2>1 DEF Excused, CutsShort
    <3>2. ASSUME NEW u \in Stream
          PROVE  Stays(u) \/ (ResponsePhase(u) = "due" /\ ResponsePhase(u)' = "lost")
      <4>1. CASE st'[u] = st[u]
        <5>1. ResponsePhase(u)' = ResponsePhase(u)
          BY <2>1, <3>1, <1>4, <4>1 DEF ResponsePhase
        <5> QED
          BY <4>1, <5>1 DEF ResponseDue
      <4>2. CASE Proceeds(u, st'[u]) /\ st'[u].stage = "closing"
        <5>1. st'[u].processed = st[u].processed /\ st'[u].write_shut = st[u].write_shut
          BY <4>2 DEF Proceeds, Onward
        <5>2. /\ ResponsePhase(u)' = IF st[u].processed = 0 THEN "none"
                                     ELSE IF st[u].write_shut THEN "ended" ELSE "lost"
              /\ ResponsePhase(u) = IF st[u].processed = 0 THEN "none"
                                    ELSE IF st[u].write_shut THEN "ended"
                                    ELSE IF st[u].stage = "open" THEN "due" ELSE "lost"
          BY <1>4, <2>1, <3>1, <4>2, <5>1 DEF ResponsePhase
        <5>3. st[u].write_shut => st[u].left = 0 /\ st'[u].left = 0
          BY <1>4, <4>2, <5>1
          DEF Excused, CutsShort, Proceeds, IInv, Streams, Sane, Complete
        <5> QED
          BY <5>2, <5>3 DEF ResponseDue
      <4> QED
        BY <2>1, <2>3, <4>1, <4>2
    <3> QED
      BY <3>2, StaysOrLoses
  <2> QED
    BY <1>4, <2>2, <2>3 DEF Drifts, OneByOne
<1>5. ASSUME ~ Excused, NEW s \in Stream, Serves(s) PROVE [Response!Next]_(Response!vars)
  <2>1. /\ server = "up" /\ server' = server /\ opt' = opt
        /\ \A u \in Stream : st'[u] = st[u] \/ Proceeds(u, st'[u])
        /\ \A u \in Stream \ {s} : st'[u] = st[u] \/ st'[u].processed = 0
    BY <1>5 DEF Serves, Advances
  <2> QED
    BY <1>5, <2>1, OneGoesOn
<1>6. ASSUME ~ Excused, NEW s \in Stream, http_server_on_close(s)
      PROVE  [Response!Next]_(Response!vars)
  <2>1. server = "up" /\ server' = server /\ opt' = opt /\ st' = [st EXCEPT ![s] = Freed(s)]
    BY <1>6 DEF http_server_on_close
  <2>2. Proceeds(s, Freed(s)) /\ st \in [Stream -> Context]
    BY <1>6, FreedProceeds DEF IInv, Streams
  <2>3. /\ \A u \in Stream : st'[u] = st[u] \/ Proceeds(u, st'[u])
        /\ \A u \in Stream \ {s} : st'[u] = st[u] \/ st'[u].processed = 0
    BY <2>1, <2>2
  <2> QED
    BY <1>6, <2>1, <2>3, OneGoesOn
<1>7. opt' = opt \/ UNCHANGED vars
  BY Steps DEF Drifts, End, Asserts, Serves, http_server_on_close
<1> QED
  BY <1>1, <1>2, <1>3, <1>4, <1>5, <1>6, <1>7, Steps

(* Whatever the mode and the options, streams deliver their responses as   *)
(* ResponseSpec says: front to back, never more than was settled, never    *)
(* again once they ended, and cut short only by a loss.                    *)
THEOREM StreamsImplementResponse == Spec => ImplementsResponse
<1> QED
  BY ResponseInit, ResponseStep, IInvAlways, PTL DEF Spec, ImplementsResponse, Response!Spec

=============================================================================
