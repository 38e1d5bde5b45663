------------------------------- MODULE Netif -------------------------------
(***************************************************************************)
(* The transmit side of the router's interfaces                            *)
(* (src/ixc_syscore/router/src/netif.c): a queue per interface that        *)
(* ixc_netif_tx_data writes out until the device refuses.  A call takes    *)
(* one step per write, so that the device may refuse at any of them.       *)
(***************************************************************************)
EXTENDS Mbuf, Interest, Sequences

CONSTANT NoFd \* no call of ixc_netif_tx_data is running

ASSUME NoFdAssumption == NoFd \notin Fds

VARIABLES
  sent,        \* sent_first .. sent_last of each interface
  write_flags, \* "OK" or "FAIL"
  tx,          \* the interface of the running ixc_netif_tx_data
  moved,       \* tx_npkt_cnt has grown during that call
  wire         \* auxiliary: the buffer that the last step wrote

netifVars == <<sent, write_flags, tx, moved, wire>>

NetifTypeOK ==
  /\ sent \in [Fds -> Seq(Mbufs)]
  /\ write_flags \in [Fds -> {"OK", "FAIL"}]
  /\ tx \in Fds \cup {NoFd}
  /\ moved \in BOOLEAN
  /\ wire \in Mbufs \cup {NoMbuf}

\* ixc_netif_create clears the object: write_flags is IXC_NETIF_WRITE_FAIL.
NetifInit ==
  /\ sent = [d \in Fds |-> <<>>]
  /\ write_flags = [d \in Fds |-> "FAIL"]
  /\ tx = NoFd /\ moved = FALSE /\ wire = NoMbuf

\* A call of ixc_netif_tx_data begins.
TxCall(d) == tx' = d /\ moved' = FALSE

\* ixc_netif_send: append, then try to write.
NetifSend(d, m) ==
  /\ sent' = [sent EXCEPT ![d] = Append(@, m)]
  /\ TxCall(d)
  /\ UNCHANGED write_flags

\* The device takes the first packet of the queue.
Write ==
  /\ tx # NoFd /\ sent[tx] # <<>>
  /\ wire' = Head(sent[tx])
  /\ sent' = [sent EXCEPT ![tx] = Tail(@)]
  /\ write_flags' = [write_flags EXCEPT ![tx] = "OK"]
  /\ moved' = TRUE
  /\ MbufPut(Head(sent[tx]))
  /\ UNCHANGED <<tx, interestVars>>

\* (Faulty variant of Drops: nothing is ever dropped.)
DropsNever == FALSE

\* The first packet goes when the interface has not written for a while
\* (ixc_netif_clear_mbuf_for_sent).
Drops == write_flags[tx] = "FAIL" /\ sent[tx] # <<>>
Left  == IF Drops THEN Tail(sent[tx]) ELSE sent[tx]

\* The queue is empty or the device refuses, with EAGAIN or, in the case of
\* failed, with another error: the rest of ixc_netif_tx_data.
WriteEnds(failed) ==
  /\ tx # NoFd
  /\ failed => sent[tx] # <<>>
  /\ sent' = [sent EXCEPT ![tx] = Left]
  /\ IF Drops THEN MbufPut(Head(sent[tx])) ELSE UNCHANGED mbufVars
  /\ write_flags' =
       [write_flags EXCEPT ![tx] = IF ~moved /\ sent[tx] # <<>> THEN "FAIL" ELSE @]
  /\ IF Left = <<>> THEN DelEvent(tx, "w")
     ELSE IF failed THEN UNCHANGED interestVars
     ELSE AddEvent(tx, "w")
  /\ tx' = NoFd /\ moved' = FALSE /\ wire' = NoMbuf

InQueue(d) == {sent[d][i] : i \in DOMAIN sent[d]}
=============================================================================
