------------------------- MODULE XdpLifecycleProofs -------------------------
(***************************************************************************)
(* What holds of XdpLifecycle for every set of servers, ids and handlers,  *)
(* most of it as long as no signal arrives before equic_load has returned. *)
(***************************************************************************)
EXTENDS XdpLifecycle, TLAPS

-----------------------------------------------------------------------------
(* Type correctness.                                                       *)

(* A fresh interface is well typed. *)
LEMMA TypeInit == Init => TypeOK
BY LifecycleAssumption DEF Init, TypeOK

(* A process that ends has its state reset. *)
LEMMA GoneType ==
  ASSUME TypeOK, NEW p \in Proc, Gone(p), UNCHANGED admin_acts,
         attached' \in {attached, NoProg}
  PROVE  TypeOK'
BY DEF TypeOK, Gone

(* The steps of the signal handlers, early signals included. *)
LEMMA HandlerType ==
  ASSUME TypeOK, NEW p \in Proc, NEW h \in Handler, equic_sigint_callback(p, h)
  PROVE  TypeOK'
<1>1. CASE Signal(p, h)
  BY <1>1 DEF TypeOK, Signal, HandlerStep
<1>2. CASE QueryLink(p, h)
  BY <1>2 DEF TypeOK, QueryLink, HandlerStep
<1>3. CASE UnloadIfOwn(p, h)
  BY <1>3 DEF TypeOK, UnloadIfOwn, HandlerStep
<1>4. CASE QueryLinkFails(p, h) \/ HandlerExits(p, h)
  BY <1>4, GoneType DEF QueryLinkFails, HandlerExits
<1> QED
  BY <1>1, <1>2, <1>3, <1>4 DEF equic_sigint_callback

(* Every step keeps the types. *)
LEMMA TypeStep == TypeOK /\ [Next]_vars => TypeOK'
<1> SUFFICES ASSUME TypeOK, [Next]_vars PROVE TypeOK'
  OBVIOUS
<1>1. ASSUME NEW p \in Proc, equic_read_object(p) PROVE TypeOK'
  <2>1. PICK id \in ProgId : loaded' = [loaded EXCEPT ![p] = id]
    BY <1>1 DEF equic_read_object, FreeId
  <2> QED
    BY <1>1, <2>1 DEF TypeOK, equic_read_object
<1>2. ASSUME NEW p \in Proc, InstallHandlers(p) PROVE TypeOK'
  BY <1>2 DEF TypeOK, InstallHandlers
<1>3. ASSUME NEW p \in Proc, equic_load(p) PROVE TypeOK'
  <2>1. CASE SetLink(p)
    BY <2>1 DEF TypeOK, SetLink
  <2>2. CASE GetInfo(p)
    BY <2>2 DEF TypeOK, GetInfo
  <2>3. CASE SetLinkFails(p) \/ GetInfoFails(p)
    BY <2>3, GoneType DEF SetLinkFails, GetInfoFails
  <2> QED
    BY <1>3, <2>1, <2>2, <2>3 DEF equic_load
<1>4. ASSUME NEW p \in Proc, Leave(p) \/ Crash(p) PROVE TypeOK'
  BY <1>4, GoneType DEF Leave, Crash
<1>5. ASSUME NEW p \in Proc, NEW h \in Handler, equic_sigint_callback(p, h) PROVE TypeOK'
  BY <1>5, HandlerType
<1>6. CASE MakeLoad \/ MakeUnload
  BY <1>6 DEF TypeOK, MakeLoad, MakeUnload, FreeId
<1>7. CASE UNCHANGED vars
  BY <1>7 DEF TypeOK, vars
<1> QED
  BY <1>1, <1>2, <1>3, <1>4, <1>5, <1>6, <1>7 DEF Next

(* Every reachable state is well typed, whenever signals arrive.           *)
THEOREM LifecycleTypeCorrect == Spec => []TypeOK
BY TypeInit, TypeStep, PTL DEF Spec

-----------------------------------------------------------------------------
(* Who holds which program.                                                *)

(* The ids of programs that are held by different processes differ, and a  *)
(* process without a program holds none.                                   *)
LoadedApart ==
  \A p, q \in Proc : p # q /\ loaded[p] # NoProg => loaded[p] # loaded[q]

LoadedWhenAlive == \A p \in Proc : pc[p] # "down" <=> loaded[p] # NoProg

(* Handlers run in a server that is up, and such a server knows its id.    *)
HandlersWhenUp ==
  \A p \in Proc : \A h \in Handler : handler[p][h] # "idle" => pc[p] = "up"

OwnIdWhenUp == \A p \in Proc : pc[p] = "up" => EQUIC_PROG_ID[p] = loaded[p]

(* Nobody attaches a program that another process has loaded: what a       *)
(* handler did not see on the interface will not be there.                 *)
NotSeenNotThere ==
  \A p \in Proc : \A h \in Handler :
    handler[p][h] = "compare" /\ seen[p][h] # loaded[p] => attached # loaded[p]

Own ==
  /\ TypeOK
  /\ LoadedApart
  /\ LoadedWhenAlive
  /\ HandlersWhenUp
  /\ OwnIdWhenUp
  /\ NotSeenNotThere
  /\ SignalUnloads

(* The invariant holds of an interface on which nothing has happened.      *)
LEMMA OwnInit == Init => Own
<1> SUFFICES ASSUME Init PROVE Own
  OBVIOUS
<1>1. TypeOK
  BY TypeInit
<1> QED
  BY <1>1
  DEF Init, Own, LoadedApart, LoadedWhenAlive, HandlersWhenUp, OwnIdWhenUp,
      NotSeenNotThere, SignalUnloads, Unloading

(* The end of a process, whatever brings it about, disturbs no other.      *)
LEMMA GoneOwn ==
  ASSUME Own, TypeOK', NEW p \in Proc, Gone(p), UNCHANGED <<admin_acts, attached>>
  PROVE  Own'
<1> USE DEF Own, Gone
<1>1. LoadedApart' /\ LoadedWhenAlive'
  BY DEF TypeOK, LoadedApart, LoadedWhenAlive
<1>2. HandlersWhenUp' /\ OwnIdWhenUp'
  BY DEF TypeOK, HandlersWhenUp, OwnIdWhenUp
<1>3. NotSeenNotThere'
  BY DEF TypeOK, NotSeenNotThere
<1>4. SignalUnloads'
  BY DEF TypeOK, SignalUnloads, Unloading
<1> QED
  BY <1>1, <1>2, <1>3, <1>4

(* A program that is loaded gets an id that nobody holds.                  *)
LEMMA ReadObjectOwn ==
  ASSUME Own, TypeOK', NEW p \in Proc, equic_read_object(p)
  PROVE  Own'
<1> USE DEF Own
<1>1. PICK id \in FreeId : loaded' = [loaded EXCEPT ![p] = id]
  BY DEF equic_read_object
<1>2. id \in ProgId /\ id # NoProg /\ id # attached /\ \A q \in Proc : id # loaded[q]
  BY <1>1, LifecycleAssumption DEF FreeId
<1>3. LoadedApart' /\ LoadedWhenAlive'
  BY <1>1, <1>2 DEF TypeOK, LoadedApart, LoadedWhenAlive, equic_read_object
<1>4. HandlersWhenUp' /\ OwnIdWhenUp'
  BY <1>1 DEF TypeOK, HandlersWhenUp, OwnIdWhenUp, equic_read_object
<1>5. NotSeenNotThere'
  BY <1>1, <1>2 DEF TypeOK, NotSeenNotThere, equic_read_object
<1>6. SignalUnloads'
  BY <1>1, <1>2 DEF TypeOK, SignalUnloads, Unloading, equic_read_object
<1> QED
  BY <1>3, <1>4, <1>5, <1>6

(* Attaching takes a free interface; the handlers of others saw, or will   *)
(* see, something that is not theirs.                                      *)
LEMMA LoadOwn ==
  ASSUME Own, TypeOK', NEW p \in Proc, equic_load(p)
  PROVE  Own'
<1> USE DEF Own
<1>1. CASE pc[p] = "armed" /\ SetLink(p)
  <2> USE DEF SetLink
  <2>0. loaded[p] # NoProg /\ \A h \in Handler : handler[p][h] = "idle"
    BY <1>1 DEF TypeOK, LoadedWhenAlive, HandlersWhenUp
  <2>1. LoadedApart' /\ LoadedWhenAlive'
    BY <1>1 DEF TypeOK, LoadedApart, LoadedWhenAlive
  <2>2. HandlersWhenUp' /\ OwnIdWhenUp'
    BY <1>1, <2>0 DEF TypeOK, HandlersWhenUp, OwnIdWhenUp
  <2>3. NotSeenNotThere'
    BY <1>1, <2>0 DEF TypeOK, NotSeenNotThere, LoadedApart
  <2>4. SignalUnloads'
    BY <1>1, <2>0 DEF TypeOK, SignalUnloads, Unloading, LoadedApart
  <2> QED
    BY <2>1, <2>2, <2>3, <2>4
<1>2. CASE SetLinkFails(p) \/ GetInfoFails(p)
  BY <1>2, GoneOwn DEF SetLinkFails, GetInfoFails
<1>3. CASE pc[p] = "linked" /\ GetInfo(p)
  <2> USE DEF GetInfo
  <2>1. LoadedApart' /\ LoadedWhenAlive'
    BY <1>3 DEF TypeOK, LoadedApart, LoadedWhenAlive
  <2>2. HandlersWhenUp' /\ OwnIdWhenUp'
    BY <1>3 DEF TypeOK, HandlersWhenUp, OwnIdWhenUp
  <2>3. NotSeenNotThere' /\ SignalUnloads'
    BY <1>3 DEF NotSeenNotThere, SignalUnloads, Unloading
  <2> QED
    BY <2>1, <2>2, <2>3
<1> QED
  BY <1>1, <1>2, <1>3 DEF equic_load

(* The handler detaches what it has recognised as its own.                 *)
LEMMA HandlerOwn ==
  ASSUME ~ SignalsEarly, Own, TypeOK', NEW p \in Proc, NEW h \in Handler,
         equic_sigint_callback(p, h)
  PROVE  Own'
<1> USE DEF Own
<1>1. CASE Signal(p, h)
  <2> USE DEF Signal, HandlerStep
  <2>1. LoadedApart' /\ LoadedWhenAlive' /\ OwnIdWhenUp'
    BY <1>1 DEF LoadedApart, LoadedWhenAlive, OwnIdWhenUp
  <2>2. HandlersWhenUp'
    BY <1>1 DEF TypeOK, HandlersWhenUp
  <2>3. NotSeenNotThere' /\ SignalUnloads'
    BY <1>1 DEF TypeOK, NotSeenNotThere, SignalUnloads, Unloading
  <2> QED
    BY <2>1, <2>2, <2>3
<1>2. CASE QueryLink(p, h)
  <2> USE DEF QueryLink, HandlerStep
  <2>1. LoadedApart' /\ LoadedWhenAlive' /\ OwnIdWhenUp'
    BY <1>2 DEF LoadedApart, LoadedWhenAlive, OwnIdWhenUp
  <2>2. HandlersWhenUp'
    BY <1>2 DEF TypeOK, HandlersWhenUp
  <2>3. NotSeenNotThere' /\ SignalUnloads'
    BY <1>2 DEF TypeOK, NotSeenNotThere, SignalUnloads, Unloading
  <2> QED
    BY <2>1, <2>2, <2>3
<1>3. CASE UnloadIfOwn(p, h)
  <2> USE DEF UnloadIfOwn, HandlerStep
  <2>0. /\ pc[p] = "up" /\ EQUIC_PROG_ID[p] = loaded[p]
        /\ \A q \in Proc : pc[q] = "up" => loaded[q] # NoProg
    BY <1>3 DEF HandlersWhenUp, OwnIdWhenUp, LoadedWhenAlive
  <2>1. LoadedApart' /\ LoadedWhenAlive' /\ OwnIdWhenUp'
    BY <1>3 DEF LoadedApart, LoadedWhenAlive, OwnIdWhenUp
  <2>2. HandlersWhenUp'
    BY <1>3 DEF TypeOK, HandlersWhenUp
  <2>3. attached' = attached \/ attached' = NoProg
    BY <1>3
  <2>4. NotSeenNotThere'
    BY <1>3, <2>0, <2>3 DEF TypeOK, NotSeenNotThere, HandlersWhenUp
  <2>5. attached' # loaded[p]
    BY <1>3, <2>0 DEF TypeOK, NotSeenNotThere
  <2>6. SignalUnloads'
    BY <1>3, <2>0, <2>3, <2>5 DEF TypeOK, SignalUnloads, Unloading, HandlersWhenUp
  <2> QED
    BY <2>1, <2>2, <2>4, <2>6
<1>4. CASE QueryLinkFails(p, h) \/ HandlerExits(p, h)
  BY <1>4, GoneOwn DEF QueryLinkFails, HandlerExits
<1> QED
  BY <1>1, <1>2, <1>3, <1>4 DEF equic_sigint_callback

(* The administrator attaches what nobody holds.                           *)
LEMMA AdminOwn ==
  ASSUME Own, TypeOK', MakeLoad \/ MakeUnload
  PROVE  Own'
<1> USE DEF Own
<1>1. \A p \in Proc : attached' # loaded[p] \/ attached' = NoProg
  BY DEF MakeLoad, MakeUnload, FreeId
<1>2. UNCHANGED <<pc, loaded, EQUIC_PROG_ID, handler, seen>>
  BY DEF MakeLoad, MakeUnload
<1>3. LoadedApart' /\ LoadedWhenAlive' /\ HandlersWhenUp' /\ OwnIdWhenUp'
  BY <1>2 DEF LoadedApart, LoadedWhenAlive, HandlersWhenUp, OwnIdWhenUp
<1>4. \A p \in Proc, h \in Handler : handler[p][h] # "idle" => attached' # loaded[p]
  BY <1>1 DEF HandlersWhenUp, LoadedWhenAlive
<1>5. NotSeenNotThere' /\ SignalUnloads'
  BY <1>2, <1>4 DEF NotSeenNotThere, SignalUnloads, Unloading
<1> QED
  BY <1>3, <1>5

(* Every step preserves the invariant, the administrator's included.       *)
LEMMA OwnStep ==
  ASSUME ~ SignalsEarly
  PROVE  Own /\ [Next]_vars => Own'
<1> SUFFICES ASSUME Own, [Next]_vars PROVE Own'
  OBVIOUS
<1>0. TypeOK'
  BY TypeStep DEF Own
<1>1. ASSUME NEW p \in Proc, equic_read_object(p) PROVE Own'
  BY <1>0, <1>1, ReadObjectOwn
<1>2. ASSUME NEW p \in Proc, InstallHandlers(p) PROVE Own'
  <2> USE DEF Own, InstallHandlers
  <2>1. LoadedApart' /\ LoadedWhenAlive' /\ HandlersWhenUp' /\ OwnIdWhenUp'
    BY <1>2 DEF TypeOK, LoadedApart, LoadedWhenAlive, HandlersWhenUp, OwnIdWhenUp
  <2>2. NotSeenNotThere' /\ SignalUnloads'
    BY <1>2 DEF NotSeenNotThere, SignalUnloads, Unloading
  <2> QED
    BY <1>0, <2>1, <2>2
<1>3. ASSUME NEW p \in Proc, equic_load(p) PROVE Own'
  BY <1>0, <1>3, LoadOwn
<1>4. ASSUME NEW p \in Proc, Leave(p) \/ Crash(p) PROVE Own'
  BY <1>0, <1>4, GoneOwn DEF Leave, Crash
<1>5. ASSUME NEW p \in Proc, NEW h \in Handler, equic_sigint_callback(p, h) PROVE Own'
  BY <1>0, <1>5, HandlerOwn
<1>6. CASE MakeLoad \/ MakeUnload
  BY <1>0, <1>6, AdminOwn
<1>7. CASE UNCHANGED vars
  BY <1>7
  DEF vars, Own, TypeOK, LoadedApart, LoadedWhenAlive, HandlersWhenUp, OwnIdWhenUp,
      NotSeenNotThere, SignalUnloads, Unloading
<1> QED
  BY <1>1, <1>2, <1>3, <1>4, <1>5, <1>6, <1>7 DEF Next

(* A handler of equic_user.c whose query succeeded leaves nothing of its   *)
(* server attached: for any number of servers and of handlers in each,     *)
(* whatever ends, starts and administration fall between query and detach. *)
(* (One whose query fails, lines 43-46, leaves the program; no such        *)
(* handler is ever Unloading.)                                             *)
THEOREM ASignalUnloads ==
  ASSUME ~ SignalsEarly
  PROVE  Spec => []SignalUnloads
<1>1. Own => SignalUnloads
  BY DEF Own
<1> QED
  BY <1>1, OwnInit, OwnStep, PTL DEF Spec

-----------------------------------------------------------------------------
(* A server keeps its program. One handler a process is needed: of two     *)
(* that both found their program on the interface, the second detaches     *)
(* what was attached after the first.                                      *)

OneHandler == \A h1, h2 \in Handler : h1 = h2

(* Every step leaves the program of a server that is up where it is.       *)
LEMMA StaysStep ==
  ASSUME OneHandler
  PROVE  Own /\ ProgramStays /\ [Next]_vars => ProgramStays'
<1> SUFFICES ASSUME Own, ProgramStays, [Next]_vars, ~ admin_acts', NEW p \in Proc,
                    pc'[p] \in {"linked", "up"}, ~ Unloading(p)'
             PROVE  attached' = loaded'[p]
  BY DEF ProgramStays
<1>0. admin_acts' = admin_acts /\ TypeOK
  BY DEF Next, vars, Own, equic_read_object, InstallHandlers, equic_load, SetLink,
         SetLinkFails, GetInfo, GetInfoFails, Leave, Crash, equic_sigint_callback,
         Signal, QueryLink, QueryLinkFails, UnloadIfOwn, HandlerExits, MakeLoad,
         MakeUnload
<1> DEFINE Same == attached' = attached /\ loaded'[p] = loaded[p] /\ pc'[p] = pc[p]
                   /\ handler'[p] = handler[p]
<1>00. Same => attached' = loaded'[p]
  BY <1>0 DEF ProgramStays, Unloading
<1>1. ASSUME NEW q \in Proc, equic_read_object(q) PROVE attached' = loaded'[p]
  BY <1>0, <1>00, <1>1 DEF TypeOK, equic_read_object
<1>2. ASSUME NEW q \in Proc, InstallHandlers(q) PROVE attached' = loaded'[p]
  BY <1>0, <1>00, <1>2 DEF TypeOK, InstallHandlers
<1>3. ASSUME NEW q \in Proc, Gone(q), attached' = attached PROVE attached' = loaded'[p]
  BY <1>0, <1>00, <1>3 DEF TypeOK, Gone
<1>4. ASSUME NEW q \in Proc, equic_load(q) PROVE attached' = loaded'[p]
  <2>1. CASE SetLink(q)
    <3>1. CASE p = q
      BY <2>1, <3>1 DEF SetLink
    <3>2. CASE p # q
      <4>1. pc[p] \in {"linked", "up"} /\ ~ Unloading(p)
        BY <1>0, <2>1, <3>2 DEF TypeOK, SetLink, Unloading
      <4>2. attached = loaded[p] /\ loaded[p] # NoProg
        BY <1>0, <4>1 DEF ProgramStays, Own, LoadedWhenAlive
      <4> QED
        BY <2>1, <4>2 DEF SetLink
    <3> QED
      BY <3>1, <3>2
  <2>2. CASE pc[q] = "linked" /\ GetInfo(q)
    <3>1. pc[p] \in {"linked", "up"} /\ ~ Unloading(p)
      BY <1>0, <2>2 DEF TypeOK, GetInfo, Unloading
    <3> QED
      BY <1>0, <2>2, <3>1 DEF ProgramStays, GetInfo
  <2>3. CASE SetLinkFails(q) \/ GetInfoFails(q)
    BY <1>3, <2>3 DEF SetLinkFails, GetInfoFails
  <2> QED
    BY <1>4, <2>1, <2>2, <2>3 DEF equic_load
<1>5. ASSUME NEW q \in Proc, Leave(q) \/ Crash(q) PROVE attached' = loaded'[p]
  BY <1>3, <1>5 DEF Leave, Crash
<1>6. ASSUME NEW q \in Proc, NEW h \in Handler, equic_sigint_callback(q, h)
      PROVE attached' = loaded'[p]
  <2>1. CASE Signal(q, h) \/ QueryLink(q, h)
    <3>1. attached' = attached /\ loaded' = loaded /\ pc' = pc
      BY <2>1 DEF Signal, QueryLink, HandlerStep
    <3>2. \A k \in Handler : handler[p][k] = "exit" => handler'[p][k] = "exit"
      <4>1. handler[q][h] # "exit"
        BY <2>1 DEF Signal, QueryLink
      <4>2. PICK next : handler' = [handler EXCEPT ![q][h] = next]
        BY <2>1 DEF Signal, QueryLink, HandlerStep
      <4>3. handler \in [Proc -> [Handler -> {"idle", "query", "compare", "exit"}]]
        BY <1>0 DEF TypeOK
      <4> QED
        BY <4>1, <4>2, <4>3
    <3>3. ~ Unloading(p)
      BY <3>2 DEF Unloading
    <3> QED
      BY <1>0, <3>1, <3>3 DEF ProgramStays
  <2>2. CASE UnloadIfOwn(q, h)
    <3>1. p # q
      BY <1>0, <2>2 DEF TypeOK, UnloadIfOwn, HandlerStep, Unloading
    <3>2. /\ pc[p] \in {"linked", "up"} /\ ~ Unloading(p)
          /\ loaded' = loaded
      BY <1>0, <2>2, <3>1 DEF TypeOK, UnloadIfOwn, HandlerStep, Unloading
    <3>3. attached = loaded[p] /\ loaded[p] # NoProg
      BY <1>0, <3>2 DEF ProgramStays, Own, LoadedWhenAlive
    <3>4. pc[q] = "up" /\ ~ Unloading(q)
      BY <2>2 DEF OneHandler, UnloadIfOwn, Unloading, Own, HandlersWhenUp
    <3>5. attached = loaded[q]
      BY <1>0, <3>4 DEF ProgramStays
    <3> QED
      BY <3>1, <3>3, <3>5 DEF Own, LoadedApart
  <2>3. CASE QueryLinkFails(q, h) \/ HandlerExits(q, h)
    BY <1>3, <2>3 DEF QueryLinkFails, HandlerExits
  <2> QED
    BY <1>6, <2>1, <2>2, <2>3 DEF equic_sigint_callback
<1>7. CASE MakeLoad \/ MakeUnload
  BY <1>0, <1>7 DEF MakeLoad, MakeUnload
<1>8. CASE UNCHANGED vars
  BY <1>00, <1>8 DEF vars
<1> QED
  BY <1>1, <1>2, <1>4, <1>5, <1>6, <1>7, <1>8 DEF Next

(* A server that has attached its program keeps it until its own handler   *)
(* takes it off, however many other servers come, go and are signalled.    *)
THEOREM OwnProgramStays ==
  ASSUME ~ SignalsEarly, OneHandler
  PROVE  Spec => []ProgramStays
<1>1. Init => ProgramStays
  BY DEF Init, ProgramStays
<1> QED
  BY <1>1, OwnInit, OwnStep, StaysStep, PTL DEF Spec

(* So two servers are never up together, one that is being unloaded apart. *)
AtMostOneUp ==
  ~ admin_acts =>
    \A p, q \in Proc :
      /\ pc[p] \in {"linked", "up"} /\ ~ Unloading(p)
      /\ pc[q] \in {"linked", "up"} /\ ~ Unloading(q)
      => p = q

(* The interface excludes: of all servers that were started, one is up.    *)
THEOREM OneServerUp ==
  ASSUME ~ SignalsEarly, OneHandler
  PROVE  Spec => []AtMostOneUp
<1>1. Own /\ ProgramStays => AtMostOneUp
  BY DEF Own, LoadedApart, LoadedWhenAlive, ProgramStays, AtMostOneUp
<1> QED
  BY <1>1, OwnProgramStays, OwnInit, OwnStep, PTL DEF Spec

-----------------------------------------------------------------------------
(* The servers implement InterfaceSpec.                                    *)

(* One server at most holds the interface, and a held one is not empty. *)
LEMMA OneHolder ==
  ASSUME Own, NEW p \in Holders
  PROVE  Holders = {p} /\ attached # NoProg /\ loaded[p] = attached
BY DEF Own, LoadedApart, Holders

(* A step that leaves the interface and its holder alone. *)
LEMMA InterfaceStutter ==
  ASSUME admin_acts' = admin_acts, attached' = attached,
         attached # NoProg =>
           \A p \in Proc : loaded'[p] = attached <=> loaded[p] = attached
  PROVE  [Interface!Next]_(Interface!vars)
<1>1. Holders' = Holders
  BY DEF Holders
<1> QED
  BY <1>1 DEF Interface!vars

(* A process that ends abandons the interface if it holds it. *)
LEMMA InterfaceGone ==
  ASSUME Own, NEW p \in Proc, Gone(p), UNCHANGED <<admin_acts, attached>>
  PROVE  [Interface!Next]_(Interface!vars)
<1>1. loaded' = [loaded EXCEPT ![p] = NoProg] /\ TypeOK
  BY DEF Gone, Own
<1>2. CASE p \in Holders
  <2>1. Holders = {p} /\ attached # NoProg
    BY <1>2, OneHolder
  <2>2. Holders' = {}
    BY <1>1, <2>1 DEF Holders, TypeOK
  <2>3. Interface!Abandon(p)
    BY <2>1, <2>2 DEF Interface!Abandon
  <2> QED
    BY <2>3 DEF Interface!Next
<1>3. CASE p \notin Holders
  BY <1>1, <1>3, InterfaceStutter DEF TypeOK, Holders
<1> QED
  BY <1>2, <1>3

(* A server that attaches takes a free interface. *)
LEMMA InterfaceAttach ==
  ASSUME Own, NEW p \in Proc, pc[p] = "armed", SetLink(p)
  PROVE  [Interface!Next]_(Interface!vars)
<1>1. loaded[p] # NoProg /\ attached = NoProg /\ attached' = loaded[p]
      /\ loaded' = loaded /\ admin_acts' = admin_acts
  BY DEF Own, LoadedWhenAlive, SetLink
<1>2. Holders = {}
  BY <1>1 DEF Holders
<1>3. Holders' = {p}
  BY <1>1 DEF Holders, Own, LoadedApart
<1>4. Interface!Attach(p)
  BY <1>1, <1>2, <1>3 DEF Interface!Attach
<1> QED
  BY <1>4 DEF Interface!Next

(* A handler gives back what its own server holds. *)
LEMMA InterfaceUnload ==
  ASSUME OneHandler, Own, ProgramStays, NEW p \in Proc, NEW h \in Handler,
         UnloadIfOwn(p, h)
  PROVE  [Interface!Next]_(Interface!vars)
<1>1. loaded' = loaded /\ admin_acts' = admin_acts /\ attached' \in {attached, NoProg}
  BY DEF UnloadIfOwn, HandlerStep
<1>2. CASE attached' = attached
  BY <1>1, <1>2, InterfaceStutter
<1>3. CASE attached' # attached
  <2>1. attached' = NoProg /\ Holders' = {}
    BY <1>1, <1>3 DEF Holders
  <2>2. CASE admin_acts
    BY <1>1, <2>1, <2>2 DEF Interface!Administer, Interface!Next
  <2>3. CASE ~ admin_acts
    <3>1. pc[p] = "up" /\ ~ Unloading(p)
      BY DEF OneHandler, UnloadIfOwn, Unloading, Own, HandlersWhenUp
    <3>2. attached = loaded[p]
      BY <2>3, <3>1 DEF ProgramStays
    <3>3. p \in Holders
      BY <1>3, <2>1, <3>2 DEF Holders
    <3>4. Interface!Detach(p)
      BY <1>1, <2>1, <3>3, OneHolder DEF Interface!Detach
    <3> QED
      BY <3>4 DEF Interface!Next
  <2> QED
    BY <2>2, <2>3
<1> QED
  BY <1>2, <1>3

(* Every step is one of the interface's, or none. *)
LEMMA InterfaceStep ==
  ASSUME OneHandler
  PROVE  Own /\ ProgramStays /\ [Next]_vars => [Interface!Next]_(Interface!vars)
<1> SUFFICES ASSUME Own, ProgramStays, [Next]_vars
             PROVE  [Interface!Next]_(Interface!vars)
  OBVIOUS
<1>1. ASSUME NEW p \in Proc, equic_read_object(p)
      PROVE  [Interface!Next]_(Interface!vars)
  <2>1. PICK id \in FreeId : loaded' = [loaded EXCEPT ![p] = id]
    BY <1>1 DEF equic_read_object
  <2>2. id # attached /\ loaded[p] = NoProg /\ TypeOK
    BY <1>1 DEF FreeId, Own, LoadedWhenAlive, equic_read_object
  <2>3. attached # NoProg =>
          \A q \in Proc : loaded'[q] = attached <=> loaded[q] = attached
    BY <2>1, <2>2 DEF TypeOK
  <2> QED
    BY <1>1, <2>3, InterfaceStutter DEF equic_read_object
<1>2. ASSUME NEW p \in Proc, InstallHandlers(p)
      PROVE  [Interface!Next]_(Interface!vars)
  BY <1>2, InterfaceStutter DEF InstallHandlers
<1>3. ASSUME NEW p \in Proc, equic_load(p)
      PROVE  [Interface!Next]_(Interface!vars)
  <2>1. CASE pc[p] = "armed" /\ SetLink(p)
    BY <2>1, InterfaceAttach
  <2>2. CASE SetLinkFails(p) \/ GetInfoFails(p)
    BY <2>2, InterfaceGone DEF SetLinkFails, GetInfoFails
  <2>3. CASE GetInfo(p)
    BY <2>3, InterfaceStutter DEF GetInfo
  <2> QED
    BY <1>3, <2>1, <2>2, <2>3 DEF equic_load
<1>4. ASSUME NEW p \in Proc, Leave(p) \/ Crash(p)
      PROVE  [Interface!Next]_(Interface!vars)
  BY <1>4, InterfaceGone DEF Leave, Crash
<1>5. ASSUME NEW p \in Proc, NEW h \in Handler, equic_sigint_callback(p, h)
      PROVE  [Interface!Next]_(Interface!vars)
  <2>1. CASE Signal(p, h) \/ QueryLink(p, h)
    BY <2>1, InterfaceStutter DEF Signal, QueryLink, HandlerStep
  <2>2. CASE UnloadIfOwn(p, h)
    BY <2>2, InterfaceUnload
  <2>3. CASE QueryLinkFails(p, h) \/ HandlerExits(p, h)
    BY <2>3, InterfaceGone DEF QueryLinkFails, HandlerExits
  <2> QED
    BY <1>5, <2>1, <2>2, <2>3 DEF equic_sigint_callback
<1>6. CASE MakeLoad \/ MakeUnload
  <2>1. Holders' = {} /\ admin_acts /\ admin_acts' = admin_acts
    BY <1>6 DEF MakeLoad, MakeUnload, FreeId, Holders
  <2> QED
    BY <2>1 DEF Interface!Administer, Interface!Next
<1>7. CASE UNCHANGED vars
  BY <1>7, InterfaceStutter DEF vars
<1> QED
  BY <1>1, <1>2, <1>3, <1>4, <1>5, <1>6, <1>7 DEF Next

(* Seen through who holds it, the interface is the lock of InterfaceSpec:  *)
(* taken when free, given back by its holder, lost when the holder ends    *)
(* any other way, for any number of servers and any history.               *)
THEOREM ServersImplementInterface ==
  ASSUME ~ SignalsEarly, OneHandler
  PROVE  Spec => ImplementsInterface
<1>1. Init => Interface!Init
  BY LifecycleAssumption DEF Init, Interface!Init, Holders
<1>2. Own /\ ProgramStays /\ [Next]_vars => [Interface!Next]_(Interface!vars)
  BY InterfaceStep
<1> QED
  BY <1>1, <1>2, OwnProgramStays, OwnInit, OwnStep, PTL
  DEF Spec, ImplementsInterface, Interface!Spec

=============================================================================
