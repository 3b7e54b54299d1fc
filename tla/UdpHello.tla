------------------------------- MODULE UdpHello -------------------------------
(***************************************************************************)
(* The application: the UDP echo service, which answers datagrams to port  *)
(* 8888 in the interrupt handler, and the main loop, which sends "hello!"  *)
(* from the same port when no datagram has come for a while.               *)
(*                                                                         *)
(*   TCP_server.c   flag, send, zzsend, udp_echo_recv                      *)
(*   udp.c          udp_new, udp_bind, udp_connect, udp_disconnect,        *)
(*                  udp_remove and the lookup of udp_input                 *)
(*   memp.c         the pool MEMP_UDP_PCB                                  *)
(*                                                                         *)
(* The handler runs to completion between any two steps of the main loop:  *)
(* it is one action.  The main loop's accesses to what the handler uses    *)
(* (flag, the list udp_pcbs and the fields of its control blocks) are      *)
(* steps of their own; nothing in the port disables interrupts.            *)
(* A local address and port are modelled by whether they are IP_ADDR_ANY   *)
(* and 8888; only datagrams to that port are considered.                   *)
(*                                                                         *)
(* udp_pcbs is not volatile: where a function has read it and reads it     *)
(* again, the compiler may use the old value or the new one.               *)
(***************************************************************************)
EXTENDS Integers, FiniteSets, Sequences

CONSTANTS
  Pcbs,          (* The elements of the pool MEMP_UDP_PCB.                 *)
  Echo,          (* The one udp_echo_init took.                            *)
  NULL,
  Any,           (* IP_ADDR_ANY                                            *)
  Peer,          (* 192.1.1.115, where zzsend sends.                       *)
  Sources,       (* Source address and port of the datagrams that come.    *)
  MaxDatagrams,  (* Bound on the datagrams.                                *)
  MaxFlag        (* Bound on flag: only flag > 1 is ever tested.           *)

ASSUME PcbsAssumption ==
  Echo \in Pcbs /\ Pcbs # {Echo} /\ NULL \notin Pcbs /\ IsFiniteSet(Pcbs)
ASSUME SourcesAssumption ==
  Peer # Any /\ \A s \in Sources : s.ip # Any /\ s.port \in Nat
ASSUME MaxFlagAssumption == MaxFlag \in Nat /\ MaxFlag > 1
ASSUME MaxDatagramsAssumption == MaxDatagrams \in Nat

VARIABLES
  udp_pcbs,      (* First control block of the list.                       *)
  next,          (* pcb->next                                              *)
  local,         (* pcb->local_ip is IP_ADDR_ANY, pcb->local_port is 8888. *)
  remoteIp,      (* pcb->remote_ip                                         *)
  remotePort,    (* pcb->remote_port                                       *)
  connected,     (* pcb->flags & UDP_FLAGS_CONNECTED                       *)
  pool,          (* The free elements of MEMP_UDP_PCB, next to go first.   *)
  flag,          (* The flag of TCP_server.c.                              *)
  pc,            (* Where the main loop is.                                *)
  reg,           (* The value of flag it read.                             *)
  pcb,           (* zzsend's Udppcb.                                       *)
  ipcb,          (* ipcb of udp_bind and udp_connect, udp_remove's pcb2.   *)
  first,         (* The udp_pcbs that the loop over ipcb began with.       *)
  rebind,        (* udp_bind's rebind.                                     *)
  hung,          (* The loop of udp_input does not end.                    *)
  came,          (* History: datagrams received.                           *)
  echoed,        (* History: datagrams given to udp_echo_recv.             *)
  quiet,         (* History: increments of flag since the last echo.       *)
  lost,          (* History: the last reset of flag fell in an increment.  *)
  relinked       (* History: udp_connect has linked a control block.       *)

listVars == <<udp_pcbs, next>>
pcbVars  == <<local, remoteIp, remotePort, connected>>
loopVars == <<ipcb, first, rebind>>
mainVars == <<reg, pcb, loopVars>>
history  == <<came, echoed, quiet, lost>>
linkVars == <<hung, relinked>>
vars == <<listVars, pcbVars, pool, flag, pc, mainVars, history, linkVars>>

HelloPort == 8888
Capped(n) == IF n > MaxFlag THEN MaxFlag ELSE n

Places ==
  {"delay", "increment", "test", "new", "bind", "bind_loop", "link",
   "connect_ip", "connect_port", "connect_flag", "connect", "connect_loop",
   "relink", "relink_head", "send", "disconnect_ip", "disconnect_port",
   "disconnect_flag", "remove", "unlink_head", "scan", "unlink", "free"}

TypeOK ==
  /\ udp_pcbs \in Pcbs \cup {NULL}
  /\ next \in [Pcbs -> Pcbs \cup {NULL}]
  /\ local \in [Pcbs -> BOOLEAN]
  /\ remoteIp \in [Pcbs -> {Any, Peer}]
  /\ remotePort \in [Pcbs -> {0, HelloPort}]
  /\ connected \in [Pcbs -> BOOLEAN]
  /\ pool \in Seq(Pcbs)
  /\ flag \in 0..MaxFlag
  /\ pc \in Places
  /\ reg \in 0..MaxFlag
  /\ pcb \in Pcbs \cup {NULL}
  /\ ipcb \in Pcbs \cup {NULL} /\ first \in Pcbs \cup {NULL}
  /\ rebind \in BOOLEAN
  /\ hung \in BOOLEAN /\ relinked \in BOOLEAN
  /\ came \in 0..MaxDatagrams
  /\ echoed \in 0..came
  /\ quiet \in 0..MaxFlag
  /\ lost \in BOOLEAN

(***************************************************************************)
(* udp_echo_init has taken a control block, bound it to port 8888 and      *)
(* registered udp_echo_recv: it is the only one whose recv is not NULL.    *)
(***************************************************************************)
Init ==
  /\ udp_pcbs = Echo
  /\ next = [p \in Pcbs |-> NULL]
  /\ local = [p \in Pcbs |-> p = Echo]
  /\ remoteIp = [p \in Pcbs |-> Any]
  /\ remotePort = [p \in Pcbs |-> 0]
  /\ connected = [p \in Pcbs |-> FALSE]
  /\ pool \in {s \in [1 .. Cardinality(Pcbs) - 1 -> Pcbs \ {Echo}] :
                 \A i, j \in DOMAIN s : i # j => s[i] # s[j]}
  /\ flag = 0
  /\ pc = "delay"
  /\ reg = 0
  /\ pcb = NULL
  /\ ipcb = NULL /\ first = NULL /\ rebind = FALSE
  /\ hung = FALSE /\ relinked = FALSE
  /\ came = 0
  /\ echoed = 0
  /\ quiet = 0
  /\ lost = FALSE

(* The control blocks the loop over the list comes to, in order, with one  *)
(* place more than there are blocks: it holds NULL unless the loop is      *)
(* endless.                                                                *)
Visited ==
  LET v[k \in 1 .. Cardinality(Pcbs) + 1] ==
        IF k = 1 THEN udp_pcbs
                 ELSE IF v[k - 1] = NULL THEN NULL ELSE next[v[k - 1]]
  IN  v

Listed  == {Visited[k] : k \in DOMAIN Visited} \ {NULL}
Endless == NULL \notin {Visited[k] : k \in DOMAIN Visited}

Goto(from, to) == pc = from /\ pc' = to
-----------------------------------------------------------------------------
(***************************************************************************)
(* The main loop: send(NULL, NULL, NULL) after each delay.                 *)
(***************************************************************************)

(* flag++ *)
ReadFlag ==
  /\ Goto("delay", "increment")
  /\ reg' = flag
  /\ UNCHANGED <<listVars, pcbVars, pool, flag, pcb, loopVars, history, linkVars>>

(* Mutant: what was read is written back. *)
MutWriteFlag ==
  /\ Goto("increment", "test")
  /\ flag' = reg
  /\ quiet' = Capped(quiet + 1)
  /\ UNCHANGED <<listVars, pcbVars, pool, mainVars, came, echoed, lost, linkVars>>

WriteFlag ==
  /\ Goto("increment", "test")
  /\ flag' = Capped(reg + 1)
  /\ quiet' = Capped(quiet + 1)
  /\ UNCHANGED <<listVars, pcbVars, pool, mainVars, came, echoed, lost, linkVars>>

(* Mutant: the test is flag > 0. *)
MutTestFlag ==
  /\ Goto("test", IF flag > 0 THEN "new" ELSE "delay")
  /\ UNCHANGED <<listVars, pcbVars, pool, flag, mainVars, history, linkVars>>

TestFlag ==
  /\ Goto("test", IF flag > 1 THEN "new" ELSE "delay")
  /\ UNCHANGED <<listVars, pcbVars, pool, flag, mainVars, history, linkVars>>

(***************************************************************************)
(* zzsend.                                                                 *)
(***************************************************************************)

(* udp_new: memp_malloc, then the control block is set to zero. *)
UdpNew ==
  /\ Goto("new", "bind")
  /\ pool # <<>>
  /\ pcb' = Head(pool)
  /\ pool' = Tail(pool)
  /\ next' = [next EXCEPT ![pcb'] = NULL]
  /\ local' = [local EXCEPT ![pcb'] = FALSE]
  /\ remoteIp' = [remoteIp EXCEPT ![pcb'] = Any]
  /\ remotePort' = [remotePort EXCEPT ![pcb'] = 0]
  /\ connected' = [connected EXCEPT ![pcb'] = FALSE]
  /\ UNCHANGED <<udp_pcbs, flag, reg, loopVars, history, linkVars>>

(* The loops of udp_bind and udp_connect look for pcb on the list. *)
LoopStart(from, to) ==
  /\ Goto(from, to)
  /\ ipcb' = udp_pcbs /\ first' = udp_pcbs /\ rebind' = FALSE
  /\ UNCHANGED <<listVars, pcbVars, pool, flag, reg, pcb, history, linkVars>>

(* udp_bind goes to the end of the list; the test for another block on the *)
(* same port is compiled out.                                              *)
BindStart == LoopStart("bind", "bind_loop")

BindLoop ==
  /\ pc = "bind_loop" /\ ipcb # NULL
  /\ rebind' = (rebind \/ ipcb = pcb)
  /\ ipcb' = next[ipcb]
  /\ UNCHANGED <<listVars, pcbVars, pool, flag, pc, reg, pcb, first, history,
                 linkVars>>

(* Then the address and the port are set, and unless pcb is on the list    *)
(* the link ...                                                            *)
UdpBind ==
  /\ ipcb = NULL
  /\ Goto("bind_loop", IF rebind THEN "connect_ip" ELSE "link")
  /\ local' = [local EXCEPT ![pcb] = TRUE]
  /\ IF rebind THEN next' = next
     ELSE \E p \in {first, udp_pcbs} : next' = [next EXCEPT ![pcb] = p]
  /\ UNCHANGED <<udp_pcbs, remoteIp, remotePort, connected, pool, flag,
                 mainVars, history, linkVars>>

(* ... and the head of the list. *)
BindLink ==
  /\ Goto("link", "connect_ip")
  /\ udp_pcbs' = pcb
  /\ UNCHANGED <<next, pcbVars, pool, flag, mainVars, history, linkVars>>

(* The assignments of udp_connect and udp_disconnect. *)
SetIp(from, to, ip) ==
  /\ Goto(from, to)
  /\ remoteIp' = [remoteIp EXCEPT ![pcb] = ip]
  /\ UNCHANGED <<listVars, local, remotePort, connected, pool, flag, mainVars,
                 history, linkVars>>

SetPort(from, to, port) ==
  /\ Goto(from, to)
  /\ remotePort' = [remotePort EXCEPT ![pcb] = port]
  /\ UNCHANGED <<listVars, local, remoteIp, connected, pool, flag, mainVars,
                 history, linkVars>>

SetConnected(from, to, on) ==
  /\ Goto(from, to)
  /\ connected' = [connected EXCEPT ![pcb] = on]
  /\ UNCHANGED <<listVars, local, remoteIp, remotePort, pool, flag, mainVars,
                 history, linkVars>>

UdpConnect ==
  \/ SetIp("connect_ip", "connect_port", Peer)
  \/ SetPort("connect_port", "connect_flag", HelloPort)
  \/ SetConnected("connect_flag", "connect", TRUE)

(* Then udp_connect looks for pcb, until it meets it ... *)
ConnectStart == LoopStart("connect", "connect_loop")

ConnectLoop ==
  /\ pc = "connect_loop"
  /\ pc' = IF ipcb = NULL THEN "relink"
           ELSE IF ipcb = pcb THEN "send" ELSE "connect_loop"
  /\ ipcb' = IF ipcb \in {NULL, pcb} THEN ipcb ELSE next[ipcb]
  /\ UNCHANGED <<listVars, pcbVars, pool, flag, reg, pcb, first, rebind, history,
                 linkVars>>

(* ... or comes to the end, and links it. *)
Relink ==
  /\ Goto("relink", "relink_head")
  /\ \E p \in {first, udp_pcbs} : next' = [next EXCEPT ![pcb] = p]
  /\ relinked' = TRUE
  /\ UNCHANGED <<udp_pcbs, pcbVars, pool, flag, mainVars, history, hung>>

RelinkHead ==
  /\ Goto("relink_head", "send")
  /\ udp_pcbs' = pcb
  /\ UNCHANGED <<next, pcbVars, pool, flag, mainVars, history, linkVars>>

(* udp_send: the datagram goes to remoteIp and remotePort. *)
UdpSend ==
  /\ Goto("send", "disconnect_ip")
  /\ UNCHANGED <<listVars, pcbVars, pool, flag, mainVars, history, linkVars>>

(* Mutant: only the address is reset. *)
MutUdpDisconnect == SetIp("disconnect_ip", "remove", Any)

UdpDisconnect ==
  \/ SetIp("disconnect_ip", "disconnect_port", Any)
  \/ SetPort("disconnect_port", "disconnect_flag", 0)
  \/ SetConnected("disconnect_flag", "remove", FALSE)

(***************************************************************************)
(* udp_remove.  The test and the assignment of udp_pcbs = udp_pcbs->next   *)
(* are apart.                                                              *)
(***************************************************************************)
RemoveTest ==
  /\ Goto("remove", IF udp_pcbs = pcb THEN "unlink_head" ELSE "scan")
  /\ ipcb' = udp_pcbs
  /\ UNCHANGED <<listVars, pcbVars, pool, flag, reg, pcb, first, rebind, history,
                 linkVars>>

(* Mutant: the list is left as it is. *)
MutUnlinkHead ==
  /\ Goto("unlink_head", "free")
  /\ UNCHANGED <<listVars, pcbVars, pool, flag, mainVars, history, linkVars>>

UnlinkHead ==
  /\ Goto("unlink_head", "free")
  /\ \E p \in {pcb, udp_pcbs} \ {NULL} : udp_pcbs' = next[p]
  /\ UNCHANGED <<next, pcbVars, pool, flag, mainVars, history, linkVars>>

Scan ==
  /\ pc = "scan"
  /\ IF ipcb = NULL
       THEN pc' = "free" /\ ipcb' = ipcb
       ELSE IF next[ipcb] = pcb
              THEN pc' = "unlink" /\ ipcb' = ipcb
              ELSE pc' = "scan" /\ ipcb' = next[ipcb]
  /\ UNCHANGED <<listVars, pcbVars, pool, flag, reg, pcb, first, rebind, history,
                 linkVars>>

Unlink ==
  /\ Goto("unlink", "scan")
  /\ next' = [next EXCEPT ![ipcb] = next[pcb]]
  /\ ipcb' = next[pcb]
  /\ UNCHANGED <<udp_pcbs, pcbVars, pool, flag, reg, pcb, first, rebind, history,
                 linkVars>>

(* Mutant: the element is not put back. *)
MutUdpFree ==
  /\ Goto("free", "delay")
  /\ pcb' = NULL
  /\ ipcb' = NULL
  /\ UNCHANGED <<listVars, pcbVars, pool, flag, reg, first, rebind, history, linkVars>>

(* Mutant: the pointer of the loop is freed. *)
MutUdpFreeLoop ==
  /\ Goto("free", "delay")
  /\ pool' = <<ipcb>> \o pool
  /\ pcb' = NULL
  /\ ipcb' = NULL
  /\ UNCHANGED <<listVars, pcbVars, flag, reg, first, rebind, history, linkVars>>

(* memp_free: the link of the free list overlays local_ip. *)
UdpFree ==
  /\ Goto("free", "delay")
  /\ pool' = <<pcb>> \o pool
  /\ local' = [local EXCEPT ![pcb] = local[pcb] /\ pool = <<>>]
  /\ pcb' = NULL
  /\ ipcb' = NULL
  /\ UNCHANGED <<listVars, remoteIp, remotePort, connected, flag, reg, first,
                 rebind, history, linkVars>>

MainStep ==
  \/ ReadFlag \/ WriteFlag \/ TestFlag \/ UdpNew \/ BindStart \/ BindLoop
  \/ UdpBind \/ BindLink \/ UdpConnect \/ ConnectStart \/ ConnectLoop \/ Relink
  \/ RelinkHead \/ UdpSend \/ UdpDisconnect \/ RemoveTest \/ UnlinkHead
  \/ Scan \/ Unlink \/ UdpFree

(* It does not go on while the handler runs. *)
Main == ~hung /\ MainStep
-----------------------------------------------------------------------------
(***************************************************************************)
(* The interrupt handler: udp_input and udp_echo_recv.                     *)
(***************************************************************************)

First(S) == CHOOSE k \in S : \A l \in S : k <= l

(* The two tests of the loop. *)
PerfectMatch(p, src) ==
  local[p] /\ remotePort[p] = src.port /\ remoteIp[p] \in {Any, src.ip}

Perfect(src) ==
  {k \in DOMAIN Visited : Visited[k] # NULL /\ PerfectMatch(Visited[k], src)}

Unconnected ==
  {k \in DOMAIN Visited :
     Visited[k] # NULL /\ local[Visited[k]] /\ ~connected[Visited[k]]}

(* A perfect match is moved to the front of the list. *)
MoveToFront(k) ==
  LET p == Visited[k]
  IN  IF k = 1
        THEN UNCHANGED listVars
        ELSE /\ next' = [next EXCEPT ![Visited[k - 1]] = next[p],
                                     ![p] = udp_pcbs]
             /\ udp_pcbs' = p

(* udp_echo_recv and send for the echo service's block: flag++, the answer *)
(* and flag = 0.  Any other block has no recv, so the datagram is dropped. *)
Deliver(p) ==
  /\ flag' = IF p = Echo THEN 0 ELSE flag
  /\ echoed' = IF p = Echo THEN echoed + 1 ELSE echoed
  /\ quiet' = IF p = Echo THEN 0 ELSE quiet
  /\ lost' = IF p = Echo THEN pc = "increment" ELSE lost

DatagramMatched(src) ==
  /\ Perfect(src) # {}
  /\ MoveToFront(First(Perfect(src)))
  /\ Deliver(Visited[First(Perfect(src))])

DatagramUnmatched(src) ==
  /\ Perfect(src) = {} /\ ~Endless
  /\ Deliver(IF Unconnected = {} THEN NULL ELSE Visited[First(Unconnected)])
  /\ UNCHANGED listVars

Datagram(src) ==
  /\ ~hung
  /\ came < MaxDatagrams
  /\ came' = came + 1
  /\ DatagramMatched(src) \/ DatagramUnmatched(src)
  /\ UNCHANGED <<pcbVars, pool, pc, mainVars, linkVars>>

(* In a list that is closed the loop ends only at a perfect match. *)
DatagramHangs(src) ==
  /\ ~hung
  /\ came < MaxDatagrams
  /\ came' = came + 1
  /\ Perfect(src) = {} /\ Endless
  /\ hung' = TRUE
  /\ UNCHANGED <<listVars, pcbVars, pool, flag, pc, mainVars, echoed, quiet, lost,
                 relinked>>

(* The handler in its loop. *)
Looping == hung /\ UNCHANGED vars
-----------------------------------------------------------------------------
Next ==
  \/ Main
  \/ \E src \in Sources : Datagram(src) \/ DatagramHangs(src)
  \/ Looping

Spec == Init /\ [][Next]_vars

(* The main loop runs whenever the handler does not.                       *)
FairSpec == Spec /\ WF_vars(Main)
-----------------------------------------------------------------------------
(***************************************************************************)
(* Properties.                                                             *)
(***************************************************************************)

(* The places of the main loop between udp_bind and udp_remove.            *)
HelloBound ==
  pc \in {"connect_ip", "connect_port", "connect_flag", "connect",
          "connect_loop", "relink", "relink_head", "send", "disconnect_ip",
          "disconnect_port", "disconnect_flag", "remove", "unlink_head"}

(***************************************************************************)
(* Until udp_connect links a control block, the list leads to the echo     *)
(* service's, to that of zzsend from udp_bind to udp_remove, and to no     *)
(* free one, although udp_input walks and reorders it in the middle of     *)
(* those functions.  So whenever udp_connect does so the block is on the   *)
(* list already; and only after that can the handler be caught in it.      *)
(***************************************************************************)
ListIntact ==
  ~relinked =>
    /\ ~Endless /\ ~hung
    /\ Echo \in Listed
    /\ Listed \subseteq {Echo, pcb}
    /\ HelloBound => pcb \in Listed
    /\ pcb \in Listed => HelloBound \/ pc \in {"scan", "unlink"}

(***************************************************************************)
(* Every control block is free, zzsend's or the echo service's, and never  *)
(* two of these: zzsend, which does not test what udp_new returns, never   *)
(* meets an empty pool, round after round.                                 *)
(***************************************************************************)
PoolSound ==
  /\ \A i, j \in 1..Len(pool) : i # j => pool[i] # pool[j]
  /\ {pool[i] : i \in 1..Len(pool)} = Pcbs \ {Echo, pcb}
  /\ pc = "new" => pool # <<>>

(***************************************************************************)
(* "hello!" is sent after two rounds of the main loop without an echo; the *)
(* one way to sooner is an echo whose flag = 0 fell between the read and   *)
(* the write of the main loop's flag++ and was overwritten.                *)
(***************************************************************************)
HelloNeedsQuiet ==
  [][(pc = "test" /\ pc' = "new") => (quiet >= 2 \/ lost)]_vars

(***************************************************************************)
(* A datagram misses the echo service only while zzsend's control block is *)
(* bound to the same port, or after udp_connect has linked one again.      *)
(***************************************************************************)
MissedOnlyWhileBound ==
  [][(came' > came /\ echoed' = echoed) => HelloBound \/ relinked]_vars

(***************************************************************************)
(* When no more datagrams come, "hello!" is sent: flag is not kept low for *)
(* ever, and each loop over the list ends, also over a list that has lost  *)
(* the echo service's block.  Only a list that udp_connect has closed on   *)
(* itself can keep the handler or the main loop in it.                     *)
(***************************************************************************)
HelloComes == (came = MaxDatagrams) ~> (pc = "send" \/ Endless)

(***************************************************************************)
(* udp_connect's comment: "PCB not yet on the list, add PCB now".          *)
(***************************************************************************)
AddedIfAbsent == pc = "relink" => pcb \notin Listed

(***************************************************************************)
(* udp_echo_init registers udp_echo_recv "for received packets": every     *)
(* datagram to its port is given to it.                                    *)
(***************************************************************************)
EveryDatagramEchoed == came = echoed
=============================================================================
