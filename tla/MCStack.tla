------------------------------- MODULE MCStack -------------------------------
(***************************************************************************)
(* Small instances of the components of lwIP's core and of its API.  In a  *)
(* behaviour one component takes the steps and the others stay as they     *)
(* were initialised: part names it.                                        *)
(***************************************************************************)
EXTENDS TcpConnection, Transport, Heap, Pbuf, Tcpip, Sockets, TLC

CONSTANT Parts    \* the components a run is about

VARIABLE part     \* the component that takes the steps of this behaviour

\* Two endpoints; the sequence numbers of the client wrap while it writes.
MCISS == [client |-> 6, server |-> 3]
MCMaxBytes == [client |-> 2, server |-> 0]
MCWriteSizes == [client |-> {2}, server |-> {}]
MCBudget == [credit |-> 2, accept |-> 1]

\* The same with writes that the window splits.
SplitMaxBytes == [client |-> 5, server |-> 0]
SplitWriteSizes == [client |-> {1, 2}, server |-> {}]

MCPools == <<[size |-> 1, num |-> 2], [size |-> 3, num |-> 2]>>
MCPackets == {[type |-> "RAM", len |-> 1], [type |-> "POOL", len |-> 3], [type |-> "REF", len |-> 2]}
MCCyclic == [arp |-> 1, reass |-> 3]
MCWatchSets == {<<{0, 1}, {}>>, <<{}, {0}>>}

\* Connections and threads are interchangeable.  The sockets with their options are named
\* like the connections, their groups and the callers of the tcpip thread like the threads.
MCSymmetry == Permutations(CONNS) \cup Permutations(NCTHREADS)

-----------------------------------------------------------------------------
vars == <<part, tcpVars, transportVars, loopVars, heapVars, pbufVars,
          tcpipVars, timeoutVars, netconnVars, sockVars, optVars>>

Init ==
  /\ part \in Parts
  /\ IF part = "tcp" THEN TcpInit
     ELSE pcb = 0 /\ tcpApp = 0 /\ lis = 0 /\ net = 0 /\ budget = 0
  /\ IF part = "transport" THEN TransportInit
     ELSE tcb = 0 /\ ucb = 0 /\ rcb = 0 /\ nif = 0 /\ focus = 0
  /\ IF part = "loopback" THEN LoopbackInit
     ELSE loop = 0 /\ loop_cnt_current = 0 /\ reschedule_poll = 0 /\
          loopMbox = 0 /\ polling = 0
  /\ IF part = "heap" THEN HeapInit
     ELSE mem = 0 /\ lfree = 0 /\ mem_free_count = 0 /\ search = 0 /\
          owned = 0 /\ pool = 0 /\ taken = 0
  /\ IF part = "pbuf" THEN PbufInit
     ELSE buf = 0 /\ held = 0 /\ pbufSteps = 0
  /\ tcpip_init /\ (part # "tcpip" => locking)
  /\ IF part = "timeouts" THEN TimeoutsInit
     ELSE clock = 0 /\ timeouts = 0 /\ pcbs = 0 /\
          tcpip_tcp_timer_active = 0 /\ running = 0 /\ fired = 0
  /\ IF part = "netconn" THEN NetconnInit
     ELSE conn = 0 /\ call = 0 /\ made = 0
  /\ IF part = "sockets" THEN SocketsInit
     ELSE sock = 0 /\ nc = 0 /\ lock = 0 /\ app = 0 /\ torn = 0 /\ sockEvents = 0 /\
          sockCalls = 0
  /\ IF part = "options" THEN SocketOptionsInit
     ELSE opt = 0 /\ lastset = 0 /\ member = 0 /\ joined = 0 /\ refused = 0 /\ optSteps = 0

RunTcp ==
  /\ part = "tcp"
  /\ TcpNext
  /\ UNCHANGED <<part, transportVars, loopVars, heapVars, pbufVars,
                   tcpipVars, timeoutVars, netconnVars, sockVars, optVars>>

RunTransport ==
  /\ part = "transport"
  /\ TransportNext
  /\ UNCHANGED <<part, tcpVars, loopVars, heapVars, pbufVars, tcpipVars,
                   timeoutVars, netconnVars, sockVars, optVars>>

RunLoopback ==
  /\ part = "loopback"
  /\ LoopbackNext
  /\ UNCHANGED <<part, tcpVars, transportVars, heapVars, pbufVars,
                   tcpipVars, timeoutVars, netconnVars, sockVars, optVars>>

RunHeap ==
  /\ part = "heap"
  /\ HeapNext
  /\ UNCHANGED <<part, tcpVars, transportVars, loopVars, pbufVars,
                   tcpipVars, timeoutVars, netconnVars, sockVars, optVars>>

RunPbuf ==
  /\ part = "pbuf"
  /\ PbufNext
  /\ UNCHANGED <<part, tcpVars, transportVars, loopVars, heapVars,
                   tcpipVars, timeoutVars, netconnVars, sockVars, optVars>>

RunTcpip ==
  /\ part = "tcpip"
  /\ TcpipNext
  /\ UNCHANGED <<part, tcpVars, transportVars, loopVars, heapVars, pbufVars,
                   timeoutVars, netconnVars, sockVars, optVars>>

RunTimeouts ==
  /\ part = "timeouts"
  /\ TimeoutsNext
  /\ UNCHANGED <<part, tcpVars, transportVars, loopVars, heapVars, pbufVars,
                   tcpipVars, netconnVars, sockVars, optVars>>

RunNetconn ==
  /\ part = "netconn"
  /\ NetconnNext
  /\ UNCHANGED <<part, tcpVars, transportVars, loopVars, heapVars, pbufVars,
                   tcpipVars, timeoutVars, sockVars, optVars>>

RunSockets ==
  /\ part = "sockets"
  /\ SocketsNext
  /\ UNCHANGED <<part, tcpVars, transportVars, loopVars, heapVars, pbufVars,
                   tcpipVars, timeoutVars, netconnVars, optVars>>

RunSocketOptions ==
  /\ part = "options"
  /\ SocketOptionsNext
  /\ UNCHANGED <<part, tcpVars, transportVars, loopVars, heapVars, pbufVars,
                   tcpipVars, timeoutVars, netconnVars, sockVars>>

\* The models of the other components end when their bounds are used up.
MayStop == part \notin {"tcpip"} /\ UNCHANGED vars

Next ==
  \/ RunTcp
  \/ RunTransport
  \/ RunLoopback
  \/ RunHeap
  \/ RunPbuf
  \/ RunTcpip
  \/ RunTimeouts
  \/ RunNetconn
  \/ RunSockets
  \/ RunSocketOptions
  \/ MayStop

Spec == Init /\ [][Next]_vars

-----------------------------------------------------------------------------
\* What an application received is the beginning of what its peer wrote, a byte leaves the
\* sender's queues only when the peer has it, the room in the send buffer agrees with the
\* segments that are queued and the retransmission timer runs while one is unacknowledged
\* (tcp_receive, tcp_write, tcp_split_unsent_seg, tcp_free_acked_segments), whatever the
\* network lost, duplicated or reordered and wherever the sequence numbers wrapped.
TcpStreamIsKept ==
  part = "tcp" => StreamIsPrefix /\ AckedWasReceived /\ SendAccounting /\ TimerRuns

\* The lists of control blocks agree with the blocks' states, the numbers of interfaces are
\* their own, and what udp_sendto and raw_sendto send fits the block it is sent from and the
\* interface it leaves by, while addresses change and interfaces come and go.
TransportIsConsistent ==
  part = "transport" => TablesConsistent /\ NetifNumbersUnique /\ SourceFitsTheInterface

\* Work that waits will be looked at: a packet looped back has its netif_poll on the way, the
\* timeouts are in the order of their real times across the wrap of the clock and none runs
\* early, and the cyclic timers and TCP's are each pending once.
WorkIsScheduled ==
  /\ part = "loopback" => QueuedIsPolled
  /\ part = "timeouts" => TimeoutsInOrder /\ TimersKeepRunning

\* Memory is accounted for: the heap is one list of blocks without two free neighbours and
\* lfree misses none, an element of a pool is free or handed out, a pbuf is counted as often
\* as it is referred to, and a message of the tcpip thread is in one place.
MemoryIsAccounted ==
  /\ part = "heap" => mem_sanity /\ LfreeIsLowest /\ PoolsPartition
  /\ part = "pbuf" => RefsCounted /\ TotLenAddsUp /\ WalksAgree
  /\ part = "tcpip" => MessagesAccounted

\* A thread that blocks in a netconn function is recorded where the callbacks of the control
\* block look for it, data reach it in order, and it is told when the connection is lost.
NetconnTellsItsThreads ==
  part = "netconn" => BlockedIsRecorded /\ ChunksInOrder /\ WritableComesBack /\ ReaderIsTold

\* The socket layer counts what its netconns hold, wakes whoever selects on it, keeps a slot
\* while a thread works on it, gives back the options it was given, and stays in a multicast
\* group as long as its sockets do, up to joins that failed and stayed registered.
SocketsServeTheirThreads ==
  /\ part = "sockets" => RcvEventCounts /\ NoLostWakeup /\ SocketOutlivesItsUsers
                         /\ FreshSlotHasNoWaiters
  /\ part = "options" => GetAfterSet /\ JoinedIsRegistered

\* What no step may do: take back a window that was announced (tcp_update_rcv_ann_wnd), end a
\* connection for one of lower priority (tcp_alloc), leave a connection on an address that is
\* gone (netif_set_addr), refuse memory there is room for (mem_malloc), or report a write done
\* that is not (netconn_write_vectors_partly).
PromisesAreKept ==
  [][/\ part = "tcp" => EdgeNeverMovesLeft
     /\ part = "transport" => KillsLowerPriority /\ NobodyOnALostAddress
     /\ part = "heap" => NullOnlyWhenFull
     /\ part = "netconn" => WriteIsWhole]_vars

\* The end of the stream is reported only behind all of it (tcp_split_unsent_seg, "Migrate
\* flags from original segment").
TcpEofIsLast == part = "tcp" => EofAfterAllData
==============================================================================
