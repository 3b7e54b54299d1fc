-------------------------------- MODULE IpFrag --------------------------------
(***************************************************************************)
(* How ip_frag (ip_frag.c) cuts an IP datagram, or a fragment of one that  *)
(* is on its way, into fragments of at most mtu bytes with their headers.  *)
(* A fragment is [start, end, more]: the bytes of the datagram's payload   *)
(* it holds, and IP_MF.  Its data pass through a static buffer one after   *)
(* the other; they are not modelled, and no allocation fails.              *)
(***************************************************************************)
EXTENDS Integers

IpHlen == 20

IsLast(left, mtu) == left <= mtu - IpHlen

(* The fragments of len bytes that start ofo units of eight bytes from the *)
(* beginning, with more behind them or not; pass[i] is the state of the    *)
(* loop after i passes.                                                    *)
Cut(len, ofo, more, mtu) ==
  LET nfb    == (mtu - IpHlen) \div 8
      passes == len \div (nfb * 8) + 1
      pass[i \in 0 .. passes] ==
        IF i = 0 THEN [left |-> len, ofo |-> ofo, sent |-> {}]
        ELSE LET st   == pass[i - 1]
                 last == IsLast(st.left, mtu)
                 cop  == IF last THEN st.left ELSE nfb * 8
             IN  IF st.left = 0 THEN st
                 ELSE [left |-> st.left - cop,
                       ofo  |-> st.ofo + nfb,
                       sent |-> st.sent \cup
                         {[start |-> 8 * st.ofo, end |-> 8 * st.ofo + cop,
                           more |-> more \/ ~last]}]
  IN  pass[passes].sent
=============================================================================
