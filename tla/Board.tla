--------------------------------- MODULE Board ---------------------------------
(***************************************************************************)
(* The program of the main loop (main.c): it brings the Ethernet interface *)
(* up (netconf.c, netif.c, ethernetif.c, emac.c), starts the echo service  *)
(* and then announces the board on the RS-485 bus for ever (MAX485.c,      *)
(* uart.c).  From the moment NVIC_EnableIRQ is called, still within        *)
(* netif_add, the interrupt handler may run between any two steps.         *)
(*                                                                         *)
(* ready is what main has set up so far.  The unit of time is a bit of the *)
(* serial line; TDelay lasts at least DelayTime of them, and longer when   *)
(* the handler runs.  The PHY is external: what it is read as is any value *)
(* it may have, or what a read that timed out returns (all bits set).      *)
(***************************************************************************)
EXTENDS Integers, Sequences

CONSTANTS
  Lengths,       (* The number of bytes of the strings main sends.         *)
  ByteTime,      (* The time one byte takes on the line.                   *)
  DelayTime,     (* The time TDelay(10000) takes at least.                 *)
  RespTout       (* EMAC_PHY_RESP_TOUT                                     *)

ASSUME LengthsAssumption == Lengths \in Seq(Nat \ {0}) /\ Lengths # <<>>
ASSUME TimeAssumption ==
  ByteTime \in Nat \ {0} /\ DelayTime \in Nat /\ DelayTime >= 2 * ByteTime
ASSUME RespToutAssumption == RespTout \in Nat \ {0}

VARIABLES
  pc,            (* Where main is.                                         *)
  ready,         (* What has been set up.                                  *)
  resetting,     (* The PHY is still in the reset main asked for.          *)
  tout,          (* The count of the polling loops of emac.c.              *)
  link,          (* EMAC_PHY_SR_LINK of the status read last.              *)
  answer,        (* What the last frame came to, since main's last step.   *)
  dir,           (* MAX485_DIR                                             *)
  thr,           (* UART2's THR is full.                                   *)
  tsr,           (* Bits left in its shift register.                       *)
  out,           (* Bytes that have gone out since dir was set to send.    *)
  str,           (* The string main is at,                                 *)
  pos,           (* the bytes of it written to THR,                        *)
  wait           (* and the rest of the delay main is in.                  *)

netVars    == <<ready, resetting, tout, link>>
serialVars == <<dir, thr, tsr, out, str, pos, wait>>
vars       == <<pc, netVars, answer, serialVars>>

Parts == {"heap", "pools", "netif", "driver", "descriptors", "irq", "listed",
          "up", "bound", "recv"}
Booting ==
  {"heap", "pools", "netif", "driver", "reset", "reset_wait", "mode",
   "link_wait", "enable", "irq", "list", "up", "bind", "recv"}
Looping == {"dir_s", "string", "before", "byte", "after", "release", "pause"}

TypeOK ==
  /\ pc \in Booting \cup Looping
  /\ ready \subseteq Parts
  /\ resetting \in BOOLEAN /\ link \in BOOLEAN
  /\ tout \in 0 .. RespTout
  /\ answer \in {"none", "answered", "dropped", "broken"}
  /\ dir \in {"send", "receive"}
  /\ thr \in BOOLEAN /\ tsr \in 0 .. ByteTime
  /\ out \in Nat /\ pos \in Nat
  /\ str \in DOMAIN Lengths
  /\ wait \in 0 .. DelayTime

(* UART0_Init and MAX485_Init have been called. *)
Init ==
  /\ pc = "heap"
  /\ ready = {}
  /\ resetting = FALSE /\ tout = 0 /\ link = FALSE
  /\ answer = "none"
  /\ dir = "receive"
  /\ thr = FALSE /\ tsr = 0 /\ out = 0 /\ str = 1 /\ pos = 0 /\ wait = 0

Goto(from, to) == pc = from /\ pc' = to /\ answer' = "none"
-----------------------------------------------------------------------------
(***************************************************************************)
(* LwIP_Init and udp_echo_init                                             *)
(***************************************************************************)

SetUp(from, to, parts) ==
  /\ Goto(from, to)
  /\ ready' = ready \cup parts
  /\ UNCHANGED <<resetting, tout, link, serialVars>>

(* Mutant: memp_init comes last. *)
MutStack == SetUp("heap", "netif", {"heap"}) \/ SetUp("up", "bind", {"up", "pools"})

(* mem_init and memp_init; netif_set_default and netif_set_up *)
Stack ==
  \/ SetUp("heap", "pools", {"heap"})
  \/ SetUp("pools", "netif", {"pools"})
  \/ SetUp("up", "bind", {"up"})

(* netif_add: before and after ethernetif_init, which sets the functions   *)
(* of the driver before it calls low_level_init.                           *)
NetifAdd ==
  \/ SetUp("netif", "driver", {"netif"})
  \/ SetUp("list", "up", {"listed"})

EthernetifInit == SetUp("driver", "reset", {"driver"})

(* EMAC_Init up to the loop that waits for the PHY's reset. *)
EmacReset ==
  /\ Goto("reset", "reset_wait")
  /\ resetting' \in BOOLEAN
  /\ tout' = RespTout
  /\ UNCHANGED <<ready, link, serialVars>>

(* A pass of the loop.  It ends after RespTout passes, reset or not: that  *)
(* tout is 0 is tested where it cannot be.                                 *)
ResetWait ==
  /\ \/ Goto("reset_wait", "mode") /\ ~resetting
     \/ Goto("reset_wait", IF tout = 1 THEN "mode" ELSE "reset_wait")
  /\ tout' = tout - 1
  /\ UNCHANGED <<ready, resetting, link, serialVars>>

(* EMAC_SetPHYMode: it fails if the PHY's identifiers are not read right,  *)
(* and low_level_init starts again after a while.                          *)
IdRight ==
  /\ Goto("mode", "link_wait")
  /\ tout' = RespTout
  /\ UNCHANGED <<ready, resetting, link, serialVars>>

IdWrong ==
  /\ Goto("mode", "reset")
  /\ UNCHANGED <<netVars, serialVars>>

(* Mutant: without a link EMAC_Init fails and is called again. *)
MutLinkWait ==
  /\ \E on \in BOOLEAN :
       /\ Goto("link_wait", IF on THEN "enable"
                            ELSE IF tout = 1 THEN "reset" ELSE "link_wait")
       /\ link' = on
  /\ tout' = tout - 1
  /\ UNCHANGED <<ready, resetting, serialVars>>

(* A pass of the loop of EMAC_UpdatePHYStatus, which has the same limit;   *)
(* a read that times out is taken for a link.                              *)
LinkWait ==
  /\ \E on \in BOOLEAN :
       /\ Goto("link_wait", IF on \/ tout = 1 THEN "enable" ELSE "link_wait")
       /\ link' = on
  /\ tout' = tout - 1
  /\ UNCHANGED <<ready, resetting, serialVars>>

(* The rest of EMAC_Init *)
EmacEnable == SetUp("enable", "irq", {"descriptors"})

(* The end of low_level_init: EMAC_IntCmd and NVIC_EnableIRQ *)
EnableIrq == SetUp("irq", "list", {"irq"})

(* udp_bind and udp_recv *)
UdpEchoInit ==
  \/ SetUp("bind", "recv", {"bound"})
  \/ SetUp("recv", "dir_s", {"recv"})
-----------------------------------------------------------------------------
(***************************************************************************)
(* The announcements on RS-485                                             *)
(***************************************************************************)

(* MAX485_DIR_S *)
Drive ==
  /\ dir' = "send"
  /\ out' = IF dir = "send" THEN out ELSE 0

DirSend ==
  /\ Goto("dir_s", "string")
  /\ Drive
  /\ str' = 1
  /\ UNCHANGED <<netVars, thr, tsr, pos, wait>>

(* MAX485_SendString, up to the first delay. *)
StringStart ==
  /\ Goto("string", "before")
  /\ Drive
  /\ pos' = 0
  /\ wait' = DelayTime
  /\ UNCHANGED <<netVars, thr, tsr, str>>

(* The transmitter in the time of a bit: THR moves to the empty register.  *)
Bit ==
  \/ tsr = 0 /\ UNCHANGED <<thr, tsr, out>>
  \/ tsr > 1 /\ tsr' = tsr - 1 /\ UNCHANGED <<thr, out>>
  \/ /\ tsr = 1
     /\ out' = out + 1
     /\ thr' = FALSE
     /\ tsr' = IF thr THEN ByteTime ELSE 0

(* TDelay, while main runs. *)
Delay ==
  /\ pc \in {"before", "after", "pause"} /\ wait > 0
  /\ wait' = wait - 1
  /\ Bit
  /\ answer' = "none"
  /\ UNCHANGED <<pc, netVars, dir, str, pos>>

DelayEnd ==
  /\ Goto("before", "byte")
  /\ wait = 0
  /\ UNCHANGED <<netVars, serialVars>>

(* Mutant: the byte in THR may be written over. *)
MutWriteByte ==
  /\ Goto("byte", "byte")
  /\ pos < Lengths[str]
  /\ IF tsr = 0 THEN tsr' = ByteTime /\ UNCHANGED thr
     ELSE thr' = TRUE /\ UNCHANGED tsr
  /\ pos' = pos + 1
  /\ UNCHANGED <<netVars, dir, out, str, wait>>

(* UART2_SendByte waits until THR is empty. *)
WriteByte ==
  /\ Goto("byte", "byte")
  /\ pos < Lengths[str]
  /\ ~thr
  /\ IF tsr = 0 THEN tsr' = ByteTime /\ UNCHANGED thr
     ELSE thr' = TRUE /\ UNCHANGED tsr
  /\ pos' = pos + 1
  /\ UNCHANGED <<netVars, dir, out, str, wait>>

(* Mutant: there is no delay after the last byte. *)
MutStringWritten ==
  /\ Goto("byte", "after")
  /\ pos = Lengths[str]
  /\ UNCHANGED <<netVars, serialVars>>

(* The string is written; the second delay begins. *)
StringWritten ==
  /\ Goto("byte", "after")
  /\ pos = Lengths[str]
  /\ wait' = DelayTime
  /\ UNCHANGED <<netVars, dir, thr, tsr, out, str, pos>>

(* MAX485_DIR_R at the end of MAX485_SendString; the next string or the    *)
(* MAX485_DIR_R of main follows.                                           *)
StringEnd ==
  /\ Goto("after", IF str < Len(Lengths) THEN "string" ELSE "release")
  /\ wait = 0
  /\ dir' = "receive"
  /\ str' = IF str < Len(Lengths) THEN str + 1 ELSE str
  /\ UNCHANGED <<netVars, thr, tsr, out, pos, wait>>

(* MAX485_DIR_R of main, UART0_SendString, a delay and send. *)
Release ==
  /\ Goto("release", "pause")
  /\ dir' = "receive"
  /\ wait' = DelayTime
  /\ UNCHANGED <<netVars, thr, tsr, out, str, pos>>

Again ==
  /\ Goto("pause", "dir_s")
  /\ wait = 0
  /\ UNCHANGED <<netVars, serialVars>>
-----------------------------------------------------------------------------
(* A bit goes out while main waits for THR or the handler runs. *)
Shift ==
  /\ tsr > 0
  /\ Bit
  /\ UNCHANGED <<pc, netVars, answer, dir, str, pos, wait>>

(* The handler gets a frame.  Whatever it is, ethernetif_input takes it    *)
(* from its descriptor to a pbuf and calls netif->input; ARP answers       *)
(* through netif->linkoutput; ip_input drops what comes while the          *)
(* interface is not up, and udp_input what has no recv function.           *)
Uses == {"heap", "pools", "netif", "driver", "descriptors"}
Needs == [arp |-> {}, ping |-> {"up"},
          datagram |-> {"up", "listed", "bound", "recv"}]

Frame(kind) ==
  /\ "irq" \in ready
  /\ answer' = IF ~(Uses \subseteq ready) THEN "broken"
               ELSE IF Needs[kind] \subseteq ready THEN "answered"
               ELSE "dropped"
  /\ UNCHANGED <<pc, netVars, serialVars>>

(* The PHY's reset ends. *)
PhyReady ==
  /\ resetting /\ resetting' = FALSE
  /\ UNCHANGED <<pc, ready, tout, link, answer, serialVars>>

Boot == \/ Stack \/ NetifAdd \/ EthernetifInit \/ EmacReset \/ ResetWait
        \/ IdRight \/ IdWrong \/ LinkWait \/ EmacEnable \/ EnableIrq
        \/ UdpEchoInit

Announce == \/ DirSend \/ StringStart \/ Delay \/ DelayEnd \/ WriteByte
            \/ StringWritten \/ StringEnd \/ Release \/ Again

Next ==
  \/ Boot
  \/ Announce
  \/ Shift
  \/ \E kind \in DOMAIN Needs : Frame(kind)
  \/ PhyReady

Spec == Init /\ [][Next]_vars

(* The handler leaves main time to run, the serial line does not stop, and *)
(* there is a PHY: if its identifiers are read again and again, they are   *)
(* read right at some time.                                                *)
FairSpec ==
  /\ Spec
  /\ WF_vars(Boot) /\ WF_vars(Announce) /\ WF_vars(Shift)
  /\ SF_vars(IdRight)
-----------------------------------------------------------------------------
(***************************************************************************)
(* Properties.                                                             *)
(***************************************************************************)

(***************************************************************************)
(* Interrupts are enabled in the middle of netif_add: whatever a frame     *)
(* makes the handler use is set up by then, and nothing is dropped any     *)
(* more once main is in its loop.                                          *)
(***************************************************************************)
HandlerFindsAll ==
  [][answer' # answer =>
       /\ answer' # "broken"
       /\ pc \in Looping => answer' # "dropped"]_vars

(***************************************************************************)
(* The board drives the bus as long as UART2 sends: the delay after the    *)
(* last byte covers the two bytes the transmitter may still hold, however  *)
(* the handler's runs fall.                                                *)
(***************************************************************************)
DrivenWhileSending == dir = "receive" => tsr = 0 /\ ~thr

(***************************************************************************)
(* When the board stops driving the bus, it has sent the string whole.     *)
(***************************************************************************)
WholeStrings == [][dir = "send" /\ dir' = "receive" => out = Lengths[str]]_vars

(***************************************************************************)
(* The board comes up and announces itself for ever, whatever the link     *)
(* does and the network sends, and leaves the bus to others in between.    *)
(***************************************************************************)
KeepsAnnouncing == []<>(dir = "send") /\ []<>(dir = "receive")

(***************************************************************************)
(* "Time out, return error" (emac.c:325, 477, 544): EMAC_Init succeeds     *)
(* only with a link.                                                       *)
(***************************************************************************)
SuccessMeansLink == "descriptors" \in ready => link
=============================================================================
