---------------------------- MODULE MCHttpStream ----------------------------
(* HttpStream on a small instance. The files: an empty one, one too short  *)
(* for a delay, and one that is delayed and then takes more writes. The    *)
(* immediate writes cover the second whole and the third in part.          *)
EXTENDS HttpStream

MCDelayAfter == 1

MCFileSizes == {0, MCDelayAfter, MCDelayAfter + 3}

Plain == [mode |-> "file", delay |-> FALSE, immediate |-> 0, pwritev |-> 0,
          push |-> FALSE, falls_back |-> FALSE, leave |-> FALSE, stdin |-> TRUE]

(* What each mode has options for, with clients that leave and that stay;  *)
(* with -P, also started without a standard input.                         *)
MCConfigurations ==
  LET Modes ==
        {[Plain EXCEPT !.delay = y, !.immediate = w] :
           y \in BOOLEAN, w \in {0, MCDelayAfter + 1}}
        \cup {[Plain EXCEPT !.delay = TRUE, !.pwritev = 2, !.falls_back = b] : b \in BOOLEAN}
        \cup {[Plain EXCEPT !.push = TRUE, !.immediate = w] : w \in {0, 2}}
        \cup {[Plain EXCEPT !.immediate = 1, !.pwritev = 1]}
        \cup {[Plain EXCEPT !.pwritev = 2, !.stdin = FALSE]}
        \cup {[Plain EXCEPT !.mode = "hq", !.pwritev = p, !.stdin = (p = 0)] : p \in {0, 1}}
        \cup {[Plain EXCEPT !.mode = "interop"]}
  IN  {[c EXCEPT !.leave = l] : c \in Modes, l \in BOOLEAN}

-----------------------------------------------------------------------------
(* Requests of the interop mode: each service, generated files that are    *)
(* empty, of some length, too long and so long that their length wraps     *)
(* around, with and without pushes, and header sets that are not complete, *)
(* say something twice or do not fit.                                      *)

MCWord == 16
MCGenLimit == 4

Path(kind) == [kind |-> kind, digits |-> 0, shift |-> 0, push |-> <<>>]
File(n, k, push) == [kind |-> "file", digits |-> n, shift |-> k, push |-> push]

Header(methods, paths) ==
  [method |-> methods, path |-> paths, authority |-> 1, other |-> 0]

Index == Path("index")
Verify == Path("verify-headers")
Sum == Path("md5sum")
Small == File(1, 1, <<>>)

MCPaths ==
  {Index, Verify, Sum, Path("other"), Small,
   File(0, 0, <<>>), File(5, 0, <<>>), File(9, 1, <<>>),
   File(1, 0, <<Index, Sum>>), File(1, 0, <<Small, Verify>>),
   File(1, 0, <<Index, Index, Index, Index>>)}

MCRequests ==
  {Header(<<"GET">>, <<path>>) : path \in MCPaths \ {Sum, Verify}}
  \cup {Header(<<"POST">>, <<path>>) : path \in {Sum, Verify}}
  \cup {Header(<<"UNSUPPORTED">>, <<Index>>), Header(<<>>, <<Index>>),
        Header(<<"GET">>, <<>>), Header(<<"GET", "GET">>, <<Index>>),
        [Header(<<"GET">>, <<Index>>) EXCEPT !.other = 3]}

=============================================================================
