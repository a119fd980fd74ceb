---------------------------- MODULE XdpLifecycle ----------------------------
(***************************************************************************)
(* The life of the eBPF program on the network interface.                  *)
(*                                                                         *)
(* Servers start, attach their program, run and end, several of them on    *)
(* one interface, one after the other or at the same time. The interface   *)
(* holds one program at most. A server attaches with                       *)
(* XDP_FLAGS_UPDATE_IF_NOEXIST, so an attached program is safe from it;    *)
(* detaching is safe only as far as equic_sigint_callback compares ids,    *)
(* and between its comparison and its detach everybody else may act.       *)
(***************************************************************************)
EXTENDS Naturals, FiniteSets

CONSTANTS
  Proc,            (* servers that may run at the same time                 *)
  ProgId,          (* ids the kernel gives to loaded programs               *)
  NoProg,          (* no program: the id 0                                  *)
  Handler,         (* signal handlers that may be active in one process     *)
  SignalsEarly,    (* may a signal arrive before equic_load has returned?   *)
  AdminOptions     (* are "make load" and "make unload" used meanwhile?     *)

ASSUME LifecycleAssumption ==
  /\ NoProg \notin ProgId
  /\ SignalsEarly \in BOOLEAN
  /\ AdminOptions \subseteq BOOLEAN

VARIABLES
  admin_acts,      (* is the interface administered in this behaviour?      *)
  attached,        (* the interface: its program                            *)
  pc,              (* of a process: how far main has come                   *)
  loaded,          (* of a process: the program behind equic.prog_fd        *)
  EQUIC_PROG_ID,   (* of a process: the static of equic_user.c              *)
  handler,         (* of a process: how far each signal handler has come    *)
  seen             (* of a handler: the id it read from the interface       *)

vars == <<admin_acts, attached, pc, loaded, EQUIC_PROG_ID, handler, seen>>

Init ==
  /\ admin_acts \in AdminOptions
  /\ attached = NoProg
  /\ pc = [p \in Proc |-> "down"]
  /\ loaded = [p \in Proc |-> NoProg]
  /\ EQUIC_PROG_ID = [p \in Proc |-> NoProg]
  /\ handler = [p \in Proc |-> [h \in Handler |-> "idle"]]
  /\ seen = [p \in Proc |-> [h \in Handler |-> NoProg]]

(* An id is free again when neither an interface nor a descriptor holds    *)
(* its program.                                                            *)
FreeId == ProgId \ ({attached} \cup {loaded[p] : p \in Proc})

Interrupted(p) == \E h \in Handler : handler[p][h] # "idle"

(* A process ends: the kernel closes its descriptors. What it attached     *)
(* stays attached.                                                         *)
Gone(p) ==
  /\ pc' = [pc EXCEPT ![p] = "down"]
  /\ loaded' = [loaded EXCEPT ![p] = NoProg]
  /\ EQUIC_PROG_ID' = [EQUIC_PROG_ID EXCEPT ![p] = NoProg]
  /\ handler' = [handler EXCEPT ![p] = [h \in Handler |-> "idle"]]
  /\ seen' = [seen EXCEPT ![p] = [h \in Handler |-> NoProg]]

-----------------------------------------------------------------------------
(* main. A handler that runs holds it up.                                  *)

equic_read_object(p) ==
  /\ pc[p] = "down"
  /\ \E id \in FreeId : loaded' = [loaded EXCEPT ![p] = id]
  /\ pc' = [pc EXCEPT ![p] = "object"]
  /\ UNCHANGED <<admin_acts, attached, EQUIC_PROG_ID, handler, seen>>

(* The two calls of signal. *)
InstallHandlers(p) ==
  /\ pc[p] = "object"
  /\ pc' = [pc EXCEPT ![p] = "armed"]
  /\ UNCHANGED <<admin_acts, attached, loaded, EQUIC_PROG_ID, handler, seen>>

(* Mutant: no XDP_FLAGS_UPDATE_IF_NOEXIST. *)
SetLink_force(p) ==
  /\ attached' = loaded[p]
  /\ pc' = [pc EXCEPT ![p] = "linked"]
  /\ UNCHANGED <<admin_acts, loaded, EQUIC_PROG_ID, handler, seen>>

SetLink(p) ==
  /\ attached = NoProg
  /\ attached' = loaded[p]
  /\ pc' = [pc EXCEPT ![p] = "linked"]
  /\ UNCHANGED <<admin_acts, loaded, EQUIC_PROG_ID, handler, seen>>

(* Mutant: a load that fails cleans up with a detach.                      *)
SetLinkFails_unload(p) ==
  /\ attached # NoProg
  /\ attached' = NoProg
  /\ Gone(p)
  /\ UNCHANGED admin_acts

SetLinkFails(p) ==
  /\ attached # NoProg
  /\ Gone(p)
  /\ UNCHANGED <<admin_acts, attached>>

(* Mutants: another field of info is kept; none is.                        *)
GetInfo_field(p) ==
  /\ EQUIC_PROG_ID' = [EQUIC_PROG_ID EXCEPT ![p] = "tag"]
  /\ pc' = [pc EXCEPT ![p] = "up"]
  /\ UNCHANGED <<admin_acts, attached, loaded, handler, seen>>

GetInfo_nothing(p) ==
  /\ pc' = [pc EXCEPT ![p] = "up"]
  /\ UNCHANGED <<admin_acts, attached, loaded, EQUIC_PROG_ID, handler, seen>>

GetInfo(p) ==
  /\ EQUIC_PROG_ID' = [EQUIC_PROG_ID EXCEPT ![p] = loaded[p]]
  /\ pc' = [pc EXCEPT ![p] = "up"]
  /\ UNCHANGED <<admin_acts, attached, loaded, handler, seen>>

GetInfoFails(p) ==
  /\ Gone(p)
  /\ UNCHANGED <<admin_acts, attached>>

equic_load(p) ==
  /\ ~ Interrupted(p)
  /\ \/ pc[p] = "armed" /\ SetLink(p)
     \/ pc[p] = "armed" /\ SetLinkFails(p)
     \/ pc[p] = "linked" /\ GetInfo(p)
     \/ pc[p] = "linked" /\ GetInfoFails(p)

(* main returns or calls exit: the event loop stopped, a bad option, -h.   *)
(* Nothing on these paths unloads the program.                             *)
Leave(p) ==
  /\ pc[p] = "up"
  /\ ~ Interrupted(p)
  /\ Gone(p)
  /\ UNCHANGED <<admin_acts, attached>>

(* SIGKILL, a fault, or a signal that has no handler yet. *)
Crash(p) ==
  /\ pc[p] # "down"
  /\ Gone(p)
  /\ UNCHANGED <<admin_acts, attached>>

-----------------------------------------------------------------------------
(* equic_sigint_callback, and equic_sigterm_callback which calls it. A     *)
(* second signal may start a second handler: on top of the first, or on    *)
(* the counter thread of the HTTP server.                                  *)

HandlerStep(p, h, next) ==
  /\ handler' = [handler EXCEPT ![p][h] = next]
  /\ UNCHANGED <<pc, loaded, EQUIC_PROG_ID>>

Signal(p, h) ==
  /\ pc[p] = "up" \/ (SignalsEarly /\ pc[p] \in {"armed", "linked"})
  /\ handler[p][h] = "idle"
  /\ HandlerStep(p, h, "query")
  /\ UNCHANGED <<admin_acts, attached, seen>>

QueryLink(p, h) ==
  /\ handler[p][h] = "query"
  /\ seen' = [seen EXCEPT ![p][h] = attached]
  /\ HandlerStep(p, h, "compare")
  /\ UNCHANGED <<admin_acts, attached>>

QueryLinkFails(p, h) ==
  /\ handler[p][h] = "query"
  /\ Gone(p)
  /\ UNCHANGED <<admin_acts, attached>>

(* The detach names no program: it takes whatever is there. The handler   *)
(* does not look at its result, and here it succeeds.                      *)
UnloadIfOwn(p, h) ==
  /\ handler[p][h] = "compare"
  /\ attached' = IF seen[p][h] = EQUIC_PROG_ID[p] THEN NoProg ELSE attached
  /\ HandlerStep(p, h, "exit")
  /\ UNCHANGED <<admin_acts, seen>>

HandlerExits(p, h) ==
  /\ handler[p][h] = "exit"
  /\ Gone(p)
  /\ UNCHANGED <<admin_acts, attached>>

equic_sigint_callback(p, h) ==
  \/ Signal(p, h)
  \/ QueryLink(p, h)
  \/ QueryLinkFails(p, h)
  \/ UnloadIfOwn(p, h)
  \/ HandlerExits(p, h)

-----------------------------------------------------------------------------
(* The Makefile's targets, for whoever administers the interface.          *)

MakeLoad ==
  /\ admin_acts
  /\ attached = NoProg
  /\ \E id \in FreeId : attached' = id
  /\ UNCHANGED <<admin_acts, pc, loaded, EQUIC_PROG_ID, handler, seen>>

MakeUnload ==
  /\ admin_acts
  /\ attached' = NoProg
  /\ UNCHANGED <<admin_acts, pc, loaded, EQUIC_PROG_ID, handler, seen>>

-----------------------------------------------------------------------------
Next ==
  \/ \E p \in Proc :
       \/ equic_read_object(p)
       \/ InstallHandlers(p)
       \/ equic_load(p)
       \/ Leave(p)
       \/ Crash(p)
       \/ \E h \in Handler : equic_sigint_callback(p, h)
  \/ MakeLoad
  \/ MakeUnload

Spec == Init /\ [][Next]_vars

-----------------------------------------------------------------------------
(* Properties.                                                             *)

(* The type invariant. *)
TypeOK ==
  /\ admin_acts \in BOOLEAN
  /\ attached \in ProgId \cup {NoProg}
  /\ pc \in [Proc -> {"down", "object", "armed", "linked", "up"}]
  /\ loaded \in [Proc -> ProgId \cup {NoProg}]
  /\ EQUIC_PROG_ID \in [Proc -> ProgId \cup {NoProg}]
  /\ handler \in [Proc -> [Handler -> {"idle", "query", "compare", "exit"}]]
  /\ seen \in [Proc -> [Handler -> ProgId \cup {NoProg}]]

Unloading(p) == \E h \in Handler : handler[p][h] = "exit"

(* A server that has attached its program keeps it until its own handler   *)
(* takes it off, administration apart: no other server replaces or removes *)
(* it, whenever that one starts, is signalled or dies. So two servers are  *)
(* never up together. A process with two handlers is an exception: its     *)
(* second detach may come after another server's attach.                   *)
ProgramStays ==
  ~ admin_acts =>
    \A p \in Proc :
      pc[p] \in {"linked", "up"} /\ ~ Unloading(p) => attached = loaded[p]

(* A handler that has passed its comparison leaves nothing of its server   *)
(* on the interface, whoever else acts on it between query, detach and     *)
(* exit. A handler whose query fails does not come that far: it ends the   *)
(* server with its program attached (QueryLinkFails).                      *)
SignalUnloads ==
  \A p \in Proc : Unloading(p) => attached # loaded[p]

(* The servers use the interface as one that each of them holds alone: it  *)
(* is taken when free and given back by its holder, and a server that ends *)
(* without giving it back keeps all others out.                            *)
Holders == {p \in Proc : attached # NoProg /\ loaded[p] = attached}

Interface ==
  INSTANCE InterfaceSpec WITH
    Server <- Proc,
    administered <- admin_acts,
    holders <- Holders,
    stray <- attached # NoProg /\ Holders = {}

ImplementsInterface == Interface!Spec

(* equic_user.c:33, early signals included: the callback "unloads eQUIC    *)
(* eBPF program from interface", its own and not another server's.         *)
OthersProgramStays == ProgramStays

=============================================================================
